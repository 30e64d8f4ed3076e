\* Every environment; one run may stop anywhere.  No request is left in the end.
CONSTANTS
  Environments <- MCEnvironments
  Requests <- MCRequests
  MaxRequests <- MCMaxRequests
  MaxStops = 1
CHECK_DEADLOCK FALSE
SPECIFICATION Spec
INVARIANTS
  OverlayTypeOK
  RerunConverges
  SendingAgainChangesNothing
  RefsBacked
  SecretsSurvive
  SecretsStayInVaults
  NothingStandaloneLeft
  IssuerIsKeycloak
  OneListOfUsers
