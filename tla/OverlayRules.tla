---------------------------- MODULE OverlayRules ----------------------------
(***************************************************************************)
(* roles/bootstrap_generate_env_vars/files/                                *)
(*   overlay_preflight_component_values.py                                 *)
(* is one long list of small decisions: take the first of some form fields *)
(* that has a value and write it under some names, in the vars file or, as *)
(* a reference, in the vault file.  This module gives those decisions as   *)
(* rules and runs them in order; the modules that extend it hold the rules *)
(* of each component.                                                      *)
(*                                                                         *)
(* A file is a partial function from names to values.  A value is a pair   *)
(* of a tag and a string: <<"text", v>> is written as it is, <<"ref", k>>  *)
(* is the Jinja reference to vault entry k.  The script keeps a copy of    *)
(* nearly every variable under components_env.<component>, and the form    *)
(* itself under component_config.<component>; the model has the variables  *)
(* the playbooks load, and not these copies.                               *)
(***************************************************************************)
EXTENDS Naturals, Sequences, FiniteSetsExt

\* A file over another: what f has, and what only g has.
f ++ g == [k \in DOMAIN f \union DOMAIN g |-> IF k \in DOMAIN f THEN f[k] ELSE g[k]]

Blank == ""
None == <<"none", Blank>>
Text(v) == <<"text", v>>
Ref(k) == <<"ref", k>>
Yes == Text("yes")
No == Text("no")

\* The words as_bool takes for true, and those the forms below use.
Truthy == {"yes", "true"}
AsBool(v) == IF v[2] \in Truthy THEN Yes ELSE No

\* The form fields is_secret_key takes for secret, by the words in their names.
\* Several are looked up in the public half of the form, where they never are.
SecretFields ==
    {"api_key", "grafana_api_key", "admin_password", "standalone_admin_password",
     "standalone_root_password", "root_password", "postgres_password",
     "standalone_tls_crt", "standalone_tls_key", "standalone_rhn_activation_key",
     "tls_crt", "tls_key", "oidc_client_secret", "gitlab_token",
     "fetch_oidc_secret_from_rhbk", "s3_secret_key", "bind_password",
     "rhn_password", "rhn_client_secret", "aap_setup_ssh_password",
     "observability_s3_secret_key", "api_token", "awspca_secret_name",
     "secret_access_key", "session_token", "awspca_secret_access_key",
     "service_account_password", "federation_bind_password",
     "activation_key", "keycloak_admin_password",
     "manifest_content", "directory_manager_password", "ad_admin_password",
     "capsule_activation_key", "loadbalancer_activation_key",
     "rhn_activation_key", "token", "iscsi_dsm_password", "bind_credential"}

StandaloneFields ==
    {"standalone_hostname", "standalone_rpm_path", "standalone_rpm_url",
     "standalone_rhn_org_id", "standalone_external_url", "standalone_edition",
     "standalone_zip_url", "standalone_zip_git_repo", "standalone_zip_git_path",
     "standalone_zip_git_branch", "standalone_zip_source", "standalone_zip_file",
     "standalone_admin_user", "standalone_database_hostname",
     "standalone_https_enabled"}
    \union (SecretFields \intersect
             {"standalone_admin_password", "standalone_root_password",
              "standalone_tls_crt", "standalone_tls_key",
              "standalone_rhn_activation_key"})

\* Mutation of StandaloneDerived: the standalone_* fields alone are dropped.
StandaloneFieldsAlone(c) == {}

\* What purge_standalone_install_vars drops besides the standalone_* fields.
StandaloneDerived(c) ==
    CASE c = "grafana" ->
           {"install_grafana_hostname", "install_grafana_rpm_path",
            "install_grafana_rpm_url", "install_grafana_rhn_org_id",
            "install_grafana_rhn_activation_key", "grafana_rpm_path",
            "grafana_rpm_url"}
      [] c = "gitlab" ->
           {"install_gitlab_hostname", "install_gitlab_external_url",
            "gitlab_external_url", "install_gitlab_edition", "gitlab_edition",
            "install_gitlab_rpm_path", "gitlab_rpm_path",
            "install_gitlab_rpm_url", "gitlab_rpm_url",
            "install_gitlab_rhn_org_id", "gitlab_rhn_org_id",
            "install_gitlab_rhn_activation_key", "gitlab_tls_crt",
            "gitlab_tls_key"}
      [] c = "rhbk" ->
           {"rhbk_standalone_hostname", "install_rhbk_standalone_hostname",
            "rhbk_standalone_zip", "rhbk_standalone_zip_url",
            "rhbk_standalone_zip_source", "rhbk_standalone_zip_git_repo",
            "rhbk_standalone_zip_git_path", "rhbk_standalone_zip_git_branch",
            "install_rhbk_standalone_zip_source",
            "install_rhbk_standalone_zip_git_repo",
            "install_rhbk_standalone_zip_git_path",
            "install_rhbk_standalone_zip_git_branch",
            "rhbk_standalone_tls_crt", "rhbk_standalone_tls_key",
            "rhbk_standalone_https_enabled",
            "install_rhbk_standalone_https_enabled"}
      [] OTHER -> {}

(***************************************************************************)
(* Reading.  `e' is what one merge reads and never changes: the form of    *)
(* the component, its options, and the other parts of the preflight file.  *)
(* `s' is what it has in hand: the two files, and vault_data_changed.      *)
(***************************************************************************)
At(f, k) == IF k \in DOMAIN f THEN f[k] ELSE None
\* Mutation of Public: is_secret_key is not asked.
PublicAll(e) == [f \in DOMAIN e.form |-> Text(e.form[f])]

Public(e) == [f \in DOMAIN e.form \ SecretFields |-> Text(e.form[f])]
Secret(e) == [f \in DOMAIN e.form \intersect SecretFields |-> Text(e.form[f])]

Pub(f) == <<"public", f>>
Sec(f) == <<"secret", f>>
Pre(f) == <<"pre", f>>            \* asked for before AAP is installed
Oth(f) == <<"other", f>>          \* a value from elsewhere in the preflight file
Var(f) == <<"vars", f>>           \* what the vars file already says
Vlt(f) == <<"vault", f>>
Const(v) == <<"const", v>>
Pubs(fields) == [i \in DOMAIN fields |-> Pub(fields[i])]
Secs(fields) == [i \in DOMAIN fields |-> Sec(fields[i])]

Look(e, s, src) ==
    CASE src[1] = "public" -> At(Public(e), src[2])
      [] src[1] = "secret" -> At(Secret(e), src[2])
      [] src[1] = "pre" -> At(e.pre, src[2])
      [] src[1] = "other" -> At(e.other, src[2])
      [] src[1] = "vars" -> At(s.vars, src[2])
      [] src[1] = "vault" -> At(s.vault, src[2])
      [] src[1] = "const" -> Text(src[2])

Missing == {None, Text(Blank)}
FirstBut(e, s, from, missing) ==
    LET given == {i \in DOMAIN from : Look(e, s, from[i]) \notin missing}
    IN IF given = {} THEN None ELSE Look(e, s, from[Min(given)])

\* Mutation of FirstPresent: a blank field counts as given.
FirstSent(e, s, from) == FirstBut(e, s, from, {None})

\* first_present: the first value that is neither missing nor empty.
FirstPresent(e, s, from) == FirstBut(e, s, from, Missing)

Given(e, s, src) == Look(e, s, src) \notin Missing
Chosen(e, opt) == opt \in e.opts

(***************************************************************************)
(* Rules.                                                                  *)
(***************************************************************************)
Rule(kind, to, keys, from, value) ==
    [kind |-> kind, to |-> to, keys |-> keys, from |-> from, value |-> value]

\* The first given of `from', under every name of `to'.
Copy(to, from) == Rule("copy", to, <<>>, from, None)
\* The same through as_bool; `from' ends in a constant when there is a default.
Flag(to, from) == Rule("flag", to, <<>>, from, None)
\* "if k in public_values": an empty value is copied too.
CopyPresent(to, f) == Rule("present", to, <<>>, <<Pub(f)>>, None)
FlagPresent(to, f) == Rule("flagpresent", to, <<>>, <<Pub(f)>>, None)
Put(to, value) == Rule("put", to, <<>>, <<>>, value)
Drop(names) == Rule("drop", names, <<>>, <<>>, None)
\* A secret: its value under every key of the vault, a reference to the first
\* of them under every name of `to', and vault_data_changed.
Stash(to, keys, from) == Rule("stash", to, keys, from, None)
\* The same where the code forgets vault_data_changed.
StashQuietly(to, keys, from) == Rule("quiet", to, keys, from, None)
\* A secret that goes to the vault alone.
StashOnly(keys, from) == Rule("stashonly", {}, keys, from, None)
\* The same for a secret field that leaves the form once it is stored.
Consume(keys, field) == Rule("consume", {field}, keys, <<Sec(field)>>, None)
\* <prefix><field> for every given field of a set; EachPresent takes blanks too.
Each(prefix, fields) == Rule("each", fields, <<prefix>>, <<>>, None)
EachPresent(prefix, fields) == Rule("eachpresent", fields, <<prefix>>, <<>>, None)
\* A default: only while none of `from' has a value.
Default(to, v, from) == Rule("default", to, <<>>, from, Text(v))
DropVault(keys) == Rule("dropvault", keys, <<>>, <<>>, None)
\* "is not None": an empty secret is stored too.
Keep(keys, field) == Rule("keep", {}, keys, <<Sec(field)>>, None)

If(cond, rules) == IF cond THEN rules ELSE <<>>

SetAll(f, names, v) == [k \in names |-> v] ++ f
Without(f, names) == [k \in DOMAIN f \ names |-> f[k]]
KeySet(keys) == {keys[i] : i \in DOMAIN keys}
\* Mutation of Stored: the vault counts as changed when the reference is new.
StoredWhenNew(s, r, v, marks) ==
    [s EXCEPT !.vars = SetAll(@, r.to, Ref(r.keys[1])),
              !.vault = SetAll(@, KeySet(r.keys), v),
              !.dirty = @ \/ (marks /\ \E n \in r.to : At(s.vars, n) # Ref(r.keys[1]))]

Stored(s, r, v, marks) ==
    [s EXCEPT !.vars = SetAll(@, r.to, Ref(r.keys[1])),
              !.vault = SetAll(@, KeySet(r.keys), v),
              !.dirty = @ \/ marks]

\* The fields of `to' that the form sends, under the prefix, over `vars'.
Named(e, r, vars) ==
    LET blank == IF r.kind = "each" THEN {Blank} ELSE {}
        fields == {f \in r.to \intersect DOMAIN Public(e) : e.form[f] \notin blank}
    IN [k \in {r.keys[1] \o f : f \in fields} |->
          Text(e.form[CHOOSE f \in fields : r.keys[1] \o f = k])] ++ vars

\* `v' is the first given of `from', `raw' its first whether given or not.
Applied(e, s, r, v, raw) ==
       CASE r.kind = "copy" ->
              IF v = None THEN s ELSE [s EXCEPT !.vars = SetAll(@, r.to, v)]
         [] r.kind = "flag" ->
              IF v = None THEN s ELSE [s EXCEPT !.vars = SetAll(@, r.to, AsBool(v))]
         [] r.kind = "present" ->
              IF raw = None THEN s ELSE [s EXCEPT !.vars = SetAll(@, r.to, raw)]
         [] r.kind = "flagpresent" ->
              IF raw = None THEN s
              ELSE [s EXCEPT !.vars = SetAll(@, r.to, AsBool(raw))]
         [] r.kind = "put" -> [s EXCEPT !.vars = SetAll(@, r.to, r.value)]
         [] r.kind \in {"each", "eachpresent"} -> [s EXCEPT !.vars = Named(e, r, @)]
         [] r.kind = "default" ->
              IF v # None THEN s ELSE [s EXCEPT !.vars = SetAll(@, r.to, r.value)]
         [] r.kind = "drop" -> [s EXCEPT !.vars = Without(@, r.to)]
         [] r.kind = "keep" ->
              IF raw = None THEN s
              ELSE [s EXCEPT !.vault = SetAll(@, KeySet(r.keys), raw), !.dirty = TRUE]
         [] r.kind = "dropvault" ->
              IF r.to \intersect DOMAIN s.vault = {} THEN s
              ELSE [s EXCEPT !.vault = Without(@, r.to), !.dirty = TRUE]
         [] r.kind = "stash" -> IF v = None THEN s ELSE Stored(s, r, v, TRUE)
         [] r.kind = "stashonly" ->
              IF v = None THEN s
              ELSE [s EXCEPT !.vault = SetAll(@, KeySet(r.keys), v), !.dirty = TRUE]
         [] r.kind = "quiet" -> IF v = None THEN s ELSE Stored(s, r, v, FALSE)
         [] r.kind = "consume" ->
              IF v = None THEN s
              ELSE [s EXCEPT !.vault = SetAll(@, KeySet(r.keys), v),
                             !.dirty = TRUE, !.used = @ \union r.to]

Apply(e, s, r) == Applied(e, s, r, FirstPresent(e, s, r.from), Look(e, s, r.from[1]))

RunRules(e, s0, rules) ==
    LET after[i \in 0 .. Len(rules)] ==
            IF i = 0 THEN s0 ELSE Apply(e, after[i - 1], rules[i])
    IN after[Len(rules)]
=============================================================================
