----------------------------- MODULE EnvOverlay -----------------------------
(***************************************************************************)
(* Generating the vars and vault files of an environment, again and again: *)
(* roles/bootstrap_generate_env_vars removes the files of components no    *)
(* longer chosen, writes a template for each that has none, runs           *)
(* overlay_preflight_component_values.py over them and, when asked to,     *)
(* encrypts the vault files.  A run may stop anywhere; the operator runs   *)
(* it again with the same preflight file or with another one.              *)
(*                                                                         *)
(* Of the tasks around the script, and of the templates, the model has     *)
(* what gives the script its state: which files there are, and of a        *)
(* template the secrets and the references to them.  A file is absent when *)
(* its name is not in the domain of `vars' or `vault'.                     *)
(***************************************************************************)
EXTENDS OverlayMerge

CONSTANTS Environments,     \* what an operator may keep generating
          Requests(_),      \* the preflight files sent for each of them
          MaxRequests(_),   \* preflight files sent, one after the other
          MaxStops          \* runs that stop on the way

VARIABLES env,          \* the environment, one of Environments
          request,      \* the preflight file of the run in hand, or of the last
          pc,           \* where the run is
          todo,         \* the jobs and components the script still has to do
          files,        \* the vars files, the vault files, and which are encrypted
          hand,         \* what the script has read and decided, by file
          sent, stops,  \* how many preflight files were sent, how many runs stopped
          base, goal,   \* the files when it was, and after an undisturbed run
          blind,        \* an encrypted vault may have been read as an empty one
          torn          \* a run that stopped was never run again

ASSUME BoundsAssumption ==
    MaxStops \in Nat /\ \A n \in Environments : MaxRequests(n) \in Nat

overlayVars == <<env, request, pc, todo, files, hand, sent, stops, base, goal,
                 blind, torn>>

(***************************************************************************)
(* A request has the chosen components, the options and the form of each,  *)
(* the order of the forms, what else of the preflight file the forms fall  *)
(* back on (what is asked for before AAP is installed, and the rest), the  *)
(* apps domain, and whether vault files are to be encrypted.               *)
(***************************************************************************)
Picked(r, c) == IF c \in DOMAIN r.opts THEN r.opts[c] ELSE {}
ClusterOption(r, opt) == opt \in Picked(r, "openshift")
ClusterJob(r, opt) == "openshift" \in r.selected /\ ClusterOption(r, opt)

\* The components that have files: an AWS task brings the shared vault.
HasFiles(r) ==
    r.selected
    \union (IF r.selected \intersect (AwsConsumers \union {"openshift", "cert_manager"}) # {}
            THEN {"aws"} ELSE {})
    \union (IF ClusterJob(r, "admin_htpasswd") THEN {"admin_htpasswd"} ELSE {})
    \union (IF ClusterJob(r, "ldap_auth") THEN {"openshift_ldap_auth"} ELSE {})

\* The script merges AAP for its license too.
Merges(r) ==
    r.selected
    \union (IF Picked(r, "aap") \intersect {"install_aap", "attach_aap_license"} # {}
            THEN {"aap"} ELSE {})

FormOf(r, c) ==
    LET form == IF c \in DOMAIN r.forms THEN r.forms[c] ELSE <<>>
        hosted == WithHosts(c, form, r.apps)
    IN IF c = "aap" THEN AapForm(hosted, Picked(r, c), r.other, r.pre)
       ELSE hosted

(***************************************************************************)
(* Secrets.  A secret is named by where the preflight file holds it: in a  *)
(* secret field, in one whose name does not say so, inside a block of      *)
(* fields, among what is asked before AAP is installed (pre_) or           *)
(* elsewhere; the script also finds two in the vaults of other components. *)
(***************************************************************************)
Unmarked(c) == CASE c = "aap" -> {"aap_setup_ssh_private_key"}
                 [] c = "openshift" -> {"kubeconfig_content", "htpasswd_users"}
                 [] OTHER -> {}
\* Secrets in a block of the form, whose own name says nothing of them, as parts of
\* it.  The block of Satellite's sign-on never passes whole.
NestedSecrets == {"email.password", "database.password", "datasources.bearer_token",
                  "oidc.client_secret"}
Blocks(c) == CASE c = "grafana" -> NestedSecrets
               [] c = "minio" -> {"oidc.client_secret"}
               [] OTHER -> {}
AskedSecrets == {"admin_password", "rhn_password", "manifest_content",
                 "aap_setup_ssh_password", "aap_setup_ssh_private_key"}
OtherSecrets == {"openshift_token", "aap_admin_password", "minio_root_password",
                 "git_token", "openshift_vault_token", "minio_vault_password"}
Secrets ==
    SecretFields \union NestedSecrets \union OtherSecrets
    \union {"aap_setup_ssh_private_key", "kubeconfig_content", "htpasswd_users",
            "pre_admin_password", "pre_rhn_password", "pre_manifest_content",
            "pre_aap_setup_ssh_password", "pre_aap_setup_ssh_private_key"}

\* Other values than secrets have other names, those of derived hosts too; the one
\* a block holds has the name of that part of the block.  An
\* activation key has the name of its field.  What only a standalone install is
\* told is told in its fields alone, and nothing from elsewhere refers to a vault.
\* The components to select from do not have the two names under which Admin
\* HTPasswd keeps its users, and a form of Keycloak no field of the names that
\* OpenShift's sign-on is derived under.
ASSUME RequestAssumption ==
    \A n \in Environments : \A r \in Requests(n) :
      /\ Len(r.order) \in Nat
      /\ r.selected \intersect {"htpass_admin", "admin_htpasswd"} = {}
      /\ "rhbk" \in DOMAIN r.forms =>
           {"ocp_rhbk_hostname", "openshift_oidc_auth_issuer"}
             \intersect DOMAIN r.forms["rhbk"] = {}
      /\ \A c \in DOMAIN r.forms : \A f \in DOMAIN r.forms[c] :
           /\ r.forms[c][f] \in Secrets =>
                /\ f \in SecretFields \union Unmarked(c) \union Blocks(c)
                /\ f \in Blocks(c) => r.forms[c][f] = f
                /\ f = "activation_key" => r.forms[c][f] = "activation_key"
           /\ r.forms[c][f] \in StandaloneFields => f \in StandaloneFields
      /\ \A f \in DOMAIN r.pre : r.pre[f][2] \in Secrets => f \in AskedSecrets
      /\ \A f \in DOMAIN r.other :
           /\ r.other[f][2] \in Secrets => f \in OtherSecrets
           /\ r.other[f][1] = "text" /\ r.other[f][2] \notin StandaloneFields
      /\ \A c \in Routed : \A f \in DOMAIN DerivedHosts(c, r.apps) :
           DerivedHosts(c, r.apps)[f] \notin Secrets \union StandaloneFields

(***************************************************************************)
(* The role before the script.                                             *)
(***************************************************************************)
Kept(f, names) == [n \in DOMAIN f \intersect names |-> f[n]]

Cleaned(fs, r) ==
    LET vaults == HasFiles(r) \ AwsConsumers
    IN [vars |-> Kept(fs.vars, HasFiles(r)), vault |-> Kept(fs.vault, vaults),
        sealed |-> fs.sealed \intersect vaults]

TemplateVars(c) ==
    CASE c = "aap" -> [k \in {"aap_ocp_install_connection"} |-> Ref("token")]
      [] c = "quay" -> [k \in {"ocp_quay_admin_password", "quay_admin_password"} |->
                          Ref("vault_ocp_quay_admin_password")]
      [] OTHER -> <<>>

\* The form's password where the template takes it, else the lab's.
TemplateVault(c, r) ==
    LET form == FormOf(r, c)
        lab(keys) == [k \in keys |-> Text("redhat123")]
        first(fields) ==
            FirstPresent([form |-> form, pre |-> r.pre, other |-> r.other],
                         [vars |-> <<>>, vault |-> <<>>],
                         Secs(fields) \o <<Const("redhat123")>>)
        refs(keys, k) == [n \in keys |-> Ref(k)]
        blank(keys) == [k \in keys |-> Text("")]
        token == At(r.other, "openshift_token")
    IN CASE c = "aap" -> blank({"aap_admin_password", "aap_token_oauth"})
         [] c = "grafana" -> lab({"grafana_admin_password"})
                             ++ blank({"vault_grafana_api_key",
                                       "vault_grafana_postgres_password"})
         [] c = "gitlab" ->
              [k \in {"gitlab_root_password", "vault_gitlab_root_password"} |->
                 first(<<"root_password", "standalone_root_password">>)]
              ++ refs({"gitlab_install_root_password"}, "vault_gitlab_root_password")
              ++ blank({"gitlab_tls_crt", "gitlab_tls_key"})
         [] c = "rhbk" -> lab({"rhbk_admin_password", "ocp_rhbk_admin_password"})
                          ++ [k \in {"ldap_config", "ldap_config_bind_credential"} |->
                                Text("lab directory")]
         [] c = "satellite" ->
              blank({"vault_satellite_service_account_password",
                     "vault_satellite_admin_password", "vault_satellite_rhn_org_id",
                     "vault_satellite_rhn_activation_key",
                     "vault_satellite_oidc_client_secret"})
              ++ lab({"vault_rhbk_admin_password"})
              ++ refs({"satellite_install_admin_password"},
                      "vault_satellite_admin_password")
              ++ (IF "satellite_capsule_install" \in Picked(r, c)
                  THEN blank({"vault_capsule_activation_key"})
                       ++ refs({"capsule_install_activation_key"},
                               "vault_capsule_activation_key")
                  ELSE <<>>)
         [] c = "idm" ->
              blank({"vault_idm_admin_password", "vault_ad_trust_admin_password"})
              ++ refs({"ipaadmin_password"}, "vault_idm_admin_password")
         [] c = "aws" -> blank({"vault_aws_access_key_id",
                                "vault_aws_secret_access_key",
                                "vault_aws_session_token"})
         [] c = "openshift" ->
              [k \in {"token", "openshift_token"} |-> IF token = None THEN Text("") ELSE token]
         [] c = "dev_hub" -> blank({"dev_hub_oidc_client_secret",
                                    "dev_hub_gitlab_token"})
         [] c = "minio" -> lab({"minio_root_password"})
                           ++ blank({"minio_oidc_client_secret"})
         [] c = "quay" ->
              [k \in {"vault_ocp_quay_admin_password", "ocp_quay_admin_password",
                      "quay_admin_password"} |-> first(<<"admin_password">>)]
              ++ (IF "minio" \in Picked(r, c)
                  THEN [k \in {"vault_ocp_quay_s3_secret_key"} |->
                          first(<<"s3_secret_key">>)]
                  ELSE <<>>)
         [] OTHER -> <<>>

\* A template never replaces a file that is there.
Templated(fs, r) ==
    [fs EXCEPT !.vars = @ ++ [c \in HasFiles(r) |-> TemplateVars(c)],
               !.vault = @ ++ [c \in (HasFiles(r) \ AwsConsumers) \union {"openshift"} |->
                                 TemplateVault(c, r)]]

(***************************************************************************)
(* The script, in order: the cluster, the jobs with files of their own,    *)
(* the components in the order of their forms, and Quay once more.         *)
(***************************************************************************)
Jobs == {"openshift", "ldap_auth", "oauth_rhbk", "routes", "aap_hub_harden",
         "quay_s3"}

Turn(r, c) ==
    If(c \in Merges(r) \ Jobs /\ (c \in DOMAIN r.forms \/ DOMAIN FormOf(r, c) # {}), <<c>>)
Merged(r) ==
    LET upto[i \in 0 .. Len(r.order)] ==
            IF i = 0 THEN <<>> ELSE upto[i - 1] \o Turn(r, r.order[i])
    IN upto[Len(r.order)]

Work(r, fs) ==
    If("openshift" \in r.selected, <<"openshift">>)
    \o If(ClusterOption(r, "ldap_auth"), <<"ldap_auth">>)
    \o If(ClusterOption(r, "oauth_rhbk") /\ "rhbk" \in DOMAIN fs.vars, <<"oauth_rhbk">>)
    \o If("openshift" \in r.selected
            /\ Picked(r, "openshift") \intersect RouteOptions # {}, <<"routes">>)
    \o If("dedicated_hub_postgres" \in Picked(r, "aap"), <<"aap_hub_harden">>)
    \o Merged(r)
    \o If("quay" \in DOMAIN fs.vars, <<"quay_s3">>)

Files(w) == CASE w = "ldap_auth" -> {"ldap_auth_openshift", "openshift_ldap_auth"}
              [] w = "oauth_rhbk" -> {"rhbk"}
              [] w = "quay_s3" -> {"quay"}
              [] OTHER -> {w}

\* load_yaml: a missing file is empty, and so is an encrypted one.
Load(fs, f) == IF f \in DOMAIN fs THEN fs[f] ELSE <<>>
LoadVault(fs, f) == IF f \in fs.sealed THEN <<>> ELSE Load(fs.vault, f)

\* What one merge reads and never changes.
Input(r, w, fs) ==
    LET minio == [vars |-> <<>>, vault |-> LoadVault(fs, "minio")]
        stored == [openshift_vault_token |-> At(LoadVault(fs, "openshift"), "token"),
                   minio_vault_password |->
                     FirstPresent(<<>>, minio, <<Vlt("vault_minio_root_password"),
                                                 Vlt("minio_root_password")>>)]
    IN [form |-> FormOf(r, IF w = "quay_s3" THEN "minio" ELSE w),
        opts |-> Picked(r, IF w \in Jobs THEN "openshift" ELSE w),
        pre |-> r.pre,
        other |-> stored ++ r.other,
        selected |-> r.selected]

JobRules(w, e, s) ==
    CASE w = "openshift" -> OpenShift(e, s)
      [] w = "ldap_auth" -> LdapAuth(e, s)
      [] w = "oauth_rhbk" -> OauthRhbk(e, s)
      [] w = "routes" -> Routes(e, s)
      [] w = "aap_hub_harden" -> AapHubHarden(e, s)
      [] w = "quay_s3" -> QuayS3(e, s)

\* A file read, and its first half decided.
Read(w, e, fs, f) ==
    LET vs == Load(fs.vars, f)
        vt == LoadVault(fs, f)
        s == IF w \in Jobs THEN [vars |-> vs, vault |-> vt, dirty |-> FALSE, used |-> {}]
             ELSE Entered(w, e, vs, vt)
    IN IF w \in Jobs THEN RunRules(e, s, JobRules(w, e, s))
       ELSE IF DOMAIN Public(e) = {} THEN s
       ELSE MergedVars(w, e, s)
InHand(w, e, fs) == [f \in Files(w) |-> Read(w, e, fs, f)]

PutVault(fs, new) == [fs EXCEPT !.vault = new ++ @, !.sealed = @ \ DOMAIN new]

\* The vars files.  The users of an Admin HTPasswd go to the files of their job
\* before.  Where a component or a job writes several files here, or in the second
\* half, the writes are one step: a run that stops among them starts over, and decides
\* each of them again from the same form.
WithVars(w, e, fs, h) ==
    LET users == [k \in {"htpasswd_users", "htpasswd_pass"} |->
                    h["openshift"].vault["htpasswd_users"]]
        settings == Kept(h["openshift"].vars, {"htpasswd_action", "htpasswd_idp_name",
                                               "htpasswd_idp", "htpasswd_secret"})
        both == {"htpass_admin", "admin_htpasswd"}
        mine == [f \in DOMAIN h |-> h[f].vars]
    IN IF w = "openshift" /\ Chosen(e, "admin_htpasswd")
       THEN PutVault([fs EXCEPT !.vars = mine ++ [f \in both |-> settings] ++ @],
                     [f \in both |-> users ++ LoadVault(fs, f)])
       ELSE IF w \in Jobs \/ DOMAIN Public(e) # {}
       THEN [fs EXCEPT !.vars = mine ++ @]
       ELSE fs

WrittenWhenChanged == {"oauth_rhbk", "quay_s3"}

\* Mutation of WithVault: left to the second half, which not every form has.
WithVaultLater(w, e, fs, h) ==
    IF w \in Jobs \ WrittenWhenChanged THEN PutVault(fs, [f \in DOMAIN h |-> h[f].vault])
                                    ELSE fs

\* The vault files after the first half; a job writes its own whatever it did
\* to it, but for the sign-on's and Quay's.
WithVault(w, e, fs, h) ==
    IF \/ w \in Jobs \ WrittenWhenChanged
       \/ DOMAIN Public(e) # {} /\ \E f \in DOMAIN h : h[f].dirty
       \/ w \in WrittenWhenChanged /\ \E f \in DOMAIN h : h[f].dirty
    THEN PutVault(fs, [f \in DOMAIN h |-> h[f].vault])
    ELSE fs

\* The second half of a component, when secret fields are left.
HasSecrets(w, e, h) == w \notin Jobs /\ DOMAIN LeftSecrets(e, h[w]) # {}
FoundKey(w, e, h) ==
    /\ w = "satellite"
    /\ \E src \in {Pub("rhn_org_id"), Sec("rhn_activation_key"), Sec("activation_key")} :
         Given(e, h[w], src)

\* The vars once more, the vault all AWS tasks share, the component's own.
WithFound(found, w, fs, s) == IF found THEN [fs EXCEPT !.vars[w] = s.vars] ELSE fs
WithShared(w, fs, aws) ==
    IF w \in SharesAwsVault /\ aws.dirty
    THEN PutVault(fs, [f \in {"aws"} |-> aws.vault]) ELSE fs
WithOwn(w, fs, s) ==
    IF w = "aws" THEN fs
    ELSE IF w \in AwsConsumers
    THEN [fs EXCEPT !.vault = Without(@, {w}), !.sealed = @ \ {w}]
    ELSE PutVault(fs, [f \in {w} |-> s.vault])
AwsInHand(fs) == [vars |-> <<>>, vault |-> LoadVault(fs, "aws"), dirty |-> FALSE, used |-> {}]
SecondHalf(found, w, fs, s, aws) == WithOwn(w, WithShared(w, WithFound(found, w, fs, s), aws), s)
WithSecrets(w, e, fs, h) ==
    SecondHalf(FoundKey(w, e, h), w, fs, MergedSecrets(w, e, h[w]),
               SharedAws(e, AwsInHand(fs)))

\* A run nothing disturbs, up to the encryption: the writes of one component
\* or job, then those of all of them in order.
LastWrite(w, e, fs, h) == IF HasSecrets(w, e, h) THEN WithSecrets(w, e, fs, h) ELSE fs
Writes(w, e, fs, h) == LastWrite(w, e, WithVault(w, e, WithVars(w, e, fs, h), h), h)
Through(w, e, fs) == Writes(w, e, fs, InHand(w, e, fs))
Worked(r, work, fs1) ==
    LET after[i \in 0 .. Len(work)] ==
            IF i = 0 THEN fs1
            ELSE Through(work[i], Input(r, work[i], after[i - 1]), after[i - 1])
    IN after[Len(work)]
Prepared(fs, r) == Templated(Cleaned(fs, r), r)
Generated(fs, r) == Worked(r, Work(r, Prepared(fs, r)), Prepared(fs, r))

Refused(r, fs) ==
    /\ "openshift" \in r.selected
    /\ LET e == Input(r, "openshift", fs) IN RefusesUsers(e, [vars |-> <<>>, vault |-> <<>>])

(***************************************************************************)
(* The run.                                                                *)
(***************************************************************************)
Init ==
    /\ env \in Environments
    /\ request = "none" /\ pc = "idle" /\ todo = <<>> /\ hand = <<>> /\ sent = 0 /\ stops = 0
    /\ files = [vars |-> <<>>, vault |-> <<>>, sealed |-> {}]
    /\ base = files /\ goal = files /\ blind = FALSE /\ torn = FALSE

Ask(r) ==
    /\ pc \in {"idle", "done", "failed"} /\ sent < MaxRequests(env)
    /\ sent' = sent + 1 /\ request' = r /\ pc' = "clean"
    /\ base' = files
    /\ goal' = IF Refused(r, files) THEN files ELSE Generated(files, r)
    /\ blind' = (blind \/ files.sealed # {})
    /\ torn' = (torn \/ pc = "failed")
    /\ UNCHANGED <<env, todo, files, hand, stops>>

Rerun ==
    /\ pc = "failed"
    /\ pc' = "clean" /\ blind' = (blind \/ files.sealed # {})
    /\ UNCHANGED <<env, request, todo, files, hand, sent, stops, base, goal, torn>>

RemoveStale ==
    /\ pc = "clean"
    /\ pc' = "template" /\ files' = Cleaned(files, request)
    /\ UNCHANGED <<env, request, todo, hand, sent, stops, base, goal, blind, torn>>

WriteTemplates ==
    /\ pc = "template"
    /\ pc' = "work" /\ files' = Templated(files, request)
    /\ todo' = Work(request, files')
    /\ UNCHANGED <<env, request, hand, sent, stops, base, goal, blind, torn>>

Now == Head(todo)
E == Input(request, Now, files)
Steps == UNCHANGED <<env, request, sent, base, goal, blind, torn>>

WriteVars ==
    /\ pc = "work" /\ todo # <<>>
    /\ Now = "openshift" => ~Refused(request, files)
    /\ hand' = InHand(Now, E, files)
    /\ files' = WithVars(Now, E, files, hand')
    /\ pc' = "vault"
    /\ UNCHANGED <<todo, stops>> /\ Steps

\* An Admin HTPasswd without users, or with one without a password.
Refuse ==
    /\ pc = "work" /\ todo # <<>> /\ Now = "openshift" /\ Refused(request, files)
    /\ pc' = "failed" /\ todo' = <<>>
    /\ UNCHANGED <<files, hand, stops>> /\ Steps

\* Mutation of Advance: what was read for one component is kept for the next.
AdvanceKeeping == /\ pc' = "work" /\ todo' = Tail(todo) /\ UNCHANGED hand

Advance == /\ pc' = "work" /\ todo' = Tail(todo) /\ hand' = <<>>

WriteVault ==
    /\ pc = "vault"
    /\ files' = WithVault(Now, E, files, hand)
    /\ IF HasSecrets(Now, E, hand)
       THEN pc' = "secrets" /\ UNCHANGED <<todo, hand>>
       ELSE Advance
    /\ UNCHANGED stops /\ Steps

WriteSecrets ==
    /\ pc = "secrets"
    /\ files' = WithSecrets(Now, E, files, hand)
    /\ Advance /\ UNCHANGED stops /\ Steps

Encrypt ==
    /\ pc = "work" /\ todo = <<>>
    /\ files' = IF request.encrypt THEN [files EXCEPT !.sealed = DOMAIN files.vault]
                                   ELSE files
    /\ pc' = "done"
    /\ UNCHANGED <<todo, hand, stops>> /\ Steps

\* The job is cancelled, or the machine it runs on goes away.
Stop ==
    /\ pc \in {"clean", "template", "work", "vault", "secrets"}
    /\ stops < MaxStops /\ stops' = stops + 1
    /\ pc' = "failed" /\ todo' = <<>> /\ hand' = <<>>
    /\ UNCHANGED files /\ Steps

Next == \/ \E r \in Requests(env) : Ask(r)
        \/ Rerun \/ RemoveStale \/ WriteTemplates
        \/ WriteVars \/ Refuse \/ WriteVault \/ WriteSecrets
        \/ Encrypt \/ Stop

Spec == Init /\ [][Next]_overlayVars
(***************************************************************************)
(* Properties.                                                             *)
(***************************************************************************)
Vars(f) == Load(files.vars, f)
Vault(f) == Load(files.vault, f)
AtRest == pc = "done" /\ ~blind /\ files.sealed = {}

\* The shape of the state: the script has files in hand only between the two
\* writes of one of its steps, and only vault files are encrypted.
OverlayTypeOK ==
    /\ pc \in {"idle", "clean", "template", "work", "vault", "secrets", "done", "failed"}
    /\ sent \in 0 .. MaxRequests(env) /\ stops \in 0 .. MaxStops
    /\ files.sealed \subseteq DOMAIN files.vault
    /\ (hand # <<>>) <=> pc \in {"vault", "secrets"}
    /\ hand # <<>> => DOMAIN hand = Files(Now)
    /\ pc \in {"idle", "clean", "template", "done", "failed"} => todo = <<>>

\* The sign-on is merged before the Keycloak it takes its client from, so that
\* one variable has the client of the run before; apart from it:
Settled(fs) ==
    [fs EXCEPT !.vars = [f \in DOMAIN @ |->
        IF f = "rhbk" THEN Without(@[f], {"openshift_oidc_client_id"}) ELSE @[f]]]

\* A run that was interrupted and started again leaves the files of a run that
\* was not: whatever a half-done run wrote, the next one is not misled by it.
RerunConverges ==
    pc = "done" /\ ~blind =>
      Settled([files EXCEPT !.sealed = {}]) = Settled([goal EXCEPT !.sealed = {}])

\* Sending the same preflight file again changes nothing.
SendingAgainChangesNothing ==
    AtRest => Settled(Generated(files, request)) = Settled(files)

References(f) == {v \in {Vars(f)[k] : k \in DOMAIN Vars(f)}
                          \union {Vault(f)[k] : k \in DOMAIN Vault(f)} : v[1] = "ref"}

OnMinio(f) == f = "quay" /\ At(Vars(f), "ocp_quay_storage_backend") = Text("minio")
ForgottenSecrets == {<<"dev_hub", "vault_dev_hub_gitlab_token">>,
                     <<"minio", "vault_minio_oidc_client_secret">>}

\* Every reference in the vars of a component, and in its vault, is to an entry
\* of that vault or of the cluster's, which every playbook loads.  Two secrets
\* are referred to whose vault the code forgets to write; and a run stopped
\* between the two files may leave more, until its preflight file is sent again,
\* but for a Quay on MinIO, whose missing key the script looks for in the end.
RefsBacked ==
    AtRest => \A f \in DOMAIN files.vars : \A ref \in References(f) :
      \/ torn /\ ~OnMinio(f)
      \/ ref[2] \in DOMAIN Vault(f) \union DOMAIN Vault("openshift")
      \/ <<f, ref[2]>> \in ForgottenSecrets

HeldIn(r) == UNION {{r.forms[c][f] : f \in DOMAIN r.forms[c]} : c \in DOMAIN r.forms}
             \union {r.other[k][2] : k \in DOMAIN r.other}
             \union {r.pre[k][2] : k \in DOMAIN r.pre}
NotKept == {<<"aap", "aap_admin_password">>, <<"satellite", "vault_rhbk_admin_user">>,
            <<"quay", "vault_ocp_quay_admin_password">>,
            <<"quay", "vault_ocp_quay_s3_secret_key">>}

\* A secret the vars refer to survives the next runs: it is never lost, and
\* gives way only to a value the new preflight file holds.  AAP takes a blank
\* password for one, Quay falls back to the lab's, and the name of Keycloak's
\* administrator to the usual one.
SecretsSurvive ==
    AtRest => \A f \in DOMAIN base.vault \intersect DOMAIN files.vault :
      \A ref \in References(f) :
        LET old == At(base.vault[f], ref[2])
            new == At(Vault(f), ref[2])
        IN \/ old[2] = "" \/ new = old
           \/ new[2] # "" /\ new[2] \in HeldIn(request)
           \/ <<f, ref[2]>> \in NotKept

\* An activation key of Satellite is the name of the key, and its vars have it.
\* What a block of fields holds is in the vars of the component it was sent for.
KeyNames(f) == IF f = "satellite" THEN {"activation_key"} ELSE {}
Open(f) == KeyNames(f) \union Blocks(f)

\* No secret a preflight file holds in a field of its own is ever readable in a vars
\* file, under whatever name; one inside a block is so in the vars of its component
\* alone.
SecretsStayInVaults ==
    \A f \in DOMAIN files.vars : \A k \in DOMAIN Vars(f) :
      Vars(f)[k][1] = "text" => Vars(f)[k][2] \notin Secrets \ Open(f)

\* The request has a form of a component that the merge takes variables from.
Sends(r, c) ==
    /\ c \in r.selected /\ \E i \in 1 .. Len(r.order) : r.order[i] = c
    /\ DOMAIN FormOf(r, c) \ SecretFields # {}

\* Variables both platforms use, each with the field that gives it its value on
\* OpenShift, where nothing is dropped; a certificate counts in one mode of four.
SharedByPlatforms ==
    LET both(c, field, names) == {<<c, k, field>> : k \in names}
    IN both("grafana", "hostname", {"grafana_hostname"})
       \union both("grafana", "admin_password",
                   {"grafana_admin_password", "grafana_install_admin_password"})
       \union both("gitlab", "hostname", {"gitlab_hostname"})
       \union both("gitlab", "root_password",
                   {"gitlab_root_password", "gitlab_install_root_password",
                    "root_password"})
       \union both("rhbk", "hostname",
                   {"rhbk_hostname", "rhbk_host", "rhbk_url", "ocp_rhbk_hostname",
                    "keycloak_login_events_keycloak_url",
                    "openshift_oidc_auth_issuer"})
       \union both("rhbk", "admin_user", {"rhbk_admin_user", "ocp_rhbk_admin_user"})
       \union both("rhbk", "admin_password",
                   {"rhbk_admin_password", "ocp_rhbk_admin_password"})
Certificate == {<<"rhbk", "tls_crt">>, <<"rhbk", "tls_key">>}

Unsaid(r, c, field) == field \notin DOMAIN FormOf(r, c) \/ FormOf(r, c)[field] = Blank

OfStandalone(c, k) ==
    \/ Vars(c)[k][2] \in StandaloneFields
    \/ Vars(c)[k][1] = "ref" /\ At(Vault(c), Vars(c)[k][2])[2] \in StandaloneFields

\* "OpenShift installs must not carry RHEL/standalone install fields": when the
\* form of an OpenShift install is merged, no variable holds what only a
\* standalone install was told, under any name and whenever it was told, but for
\* one both platforms use that the form says nothing of.
NothingStandaloneLeft ==
    AtRest => \A c \in {"grafana", "gitlab", "rhbk"} :
      Sends(request, c) /\ "standalone" \notin Picked(request, c) =>
        \A k \in DOMAIN Vars(c) :
          OfStandalone(c, k) =>
            \/ \E field \in {"hostname", "admin_user", "admin_password", "root_password"} :
                 <<c, k, field>> \in SharedByPlatforms /\ Unsaid(request, c, field)
            \/ <<c, k>> \in Certificate

\* OpenShift sends its users to the Keycloak that is installed: where a form of
\* it is sent, the issuer of the sign-on is the route when the run is done,
\* whichever of the sign-on, the component and an earlier run, standalone or
\* stopped, wrote the one and the other last.
IssuerIsKeycloak ==
    pc = "done" /\ Sends(request, "rhbk") /\ "standalone" \notin Picked(request, "rhbk") =>
      At(Vars("rhbk"), "openshift_oidc_auth_issuer") = At(Vars("rhbk"), "ocp_rhbk_hostname")

\* The users of an Admin HTPasswd are the same in all the vaults a playbook may
\* load them from, and are in none once the option is gone.
OneListOfUsers ==
    pc = "done" => \A f \in {"openshift", "htpass_admin", "admin_htpasswd"} :
      At(Vault(f), "htpasswd_users")
        = IF ClusterJob(request, "admin_htpasswd")
          THEN At(Vault("openshift"), "htpasswd_users") ELSE None

=============================================================================
