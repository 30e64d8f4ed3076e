\* Every report and launch, and a viewer who moves up to two dropdowns.
CONSTANTS
  Families <- MCFamilies
  PayloadRepository <- Payloads
  DetailLimit = 4
  TableLimit = 6
  SimpleLimit = 4
  BarLimit = 2
  Alphabet <- MCAlphabet
  Reports <- MCReports
  Builds <- MCBuilds
  MaxPicked = 2
  MaxPicks = 2
SPECIFICATION Spec
INVARIANTS
  PostureTypeOK
  CardsCountFindings
  UniqueIsExact
  TablesCountFindings
  ClickListsCounted
  TrendAgreesWithCards
  PanelsApart
