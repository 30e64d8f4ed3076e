---------------------------- MODULE MCEnvOverlay ----------------------------
(***************************************************************************)
(* EnvOverlay for TLC.  The value of a form field is the name of the field *)
(* (of a flag, "yes"), so that every value in a file tells which field it  *)
(* came from.  The fields of a component are those its rules read.         *)
(***************************************************************************)
EXTENDS EnvOverlay, SequencesExt

\* The environments, and the order in which their forms are sent.
Groups ==
    [pega |-> <<"pega">>, grafana |-> <<"grafana">>, gitlab |-> <<"gitlab">>,
     zabbix |-> <<"zabbix">>, dev_hub |-> <<"dev_hub">>, quay |-> <<"minio", "quay">>,
     bookstack |-> <<"bookstack">>, netbox |-> <<"netbox">>, rhbk |-> <<"rhbk">>,
     aap |-> <<"aap">>, acm |-> <<"acm">>, devspaces |-> <<"devspaces">>,
     acs |-> <<"acs">>, mtv |-> <<"mtv">>, openshift_virt |-> <<"openshift_virt">>,
     ec2_ami_copy |-> <<"ec2_ami_copy">>, ec2_instance |-> <<"ec2_instance">>,
     s3_bucket_policy |-> <<"aws", "s3_bucket_policy">>,
     ocp_virtualization |-> <<"ocp_virtualization">>,
     satellite |-> <<"satellite">>, cert_manager |-> <<"cert_manager">>,
     kafka |-> <<"kafka">>, eck |-> <<"eck">>, idm |-> <<"idm">>, stig |-> <<"stig">>,
     openshift |-> <<>>, sign_on |-> <<"rhbk">>]

MCEnvironments == DOMAIN Groups
Names == UNION {ToSet(Groups[g]) : g \in DOMAIN Groups}

(***************************************************************************)
(* The forms.  Fields that count only beside others are given here.        *)
(***************************************************************************)
OptionSets(c) ==
    CASE c = "grafana" -> {{}, {"oidc", "alerts"}, {"standalone"}}
      [] c = "gitlab" -> {{}, {"standalone"}}
      [] c = "rhbk" -> {{}, {"standalone"}, {"federation", "client_scopes"}}
      [] c = "quay" -> {{}, {"minio"}}
      [] c = "satellite" -> {{}, {"satellite_capsule_install"}}
      [] c = "aap" -> {{"install_aap"}, {"attach_aap_license"},
                       {"install_aap", "dedicated_hub_postgres"}}
      [] c = "openshift" ->
           {{}, {"integrated_image_registry", "nfs_csi", "iscsi_csi", "console_banner",
                 "admin_htpasswd", "ldap_auth", "discover_routes_print"}}
      [] OTHER -> {{}}

Saying(v, fields) == [f \in fields |-> v]
Tweaks(c) ==
    CASE c = "rhbk" -> {Saying("manual", {"tls_mode", "standalone_zip_source"}),
                        [tls_mode |-> "ingress_copy", standalone_zip_source |-> "git"]}
      [] c = "aap" -> {[install_target |-> "rhel"],
                       Saying("yes", {"minimal_footprint", "install_lightspeed"})}
      [] c = "acm" -> {[observability_enabled |-> "no", channel |-> "release-2.12"]}
      [] c = "devspaces" -> {[custom_sample_enabled |-> "no", gitops_path |-> ""]}
      [] c = "openshift" -> {[htpasswd_users |-> "users_without_passwords"],
                             [banner_state |-> "delete", use_kubeconfig |-> "no"]}
      [] OTHER -> {}

Beside(c) ==
    CASE c = "grafana" -> Saying("", {"folders", "datasources"} \union Blocks(c))
      [] c = "rhbk" -> Saying("", {"federation_ldap_url", "federation_bind_dn",
                                   "federation_bind_password", "federation_users_dn",
                                   "tls_crt", "tls_key", "standalone_zip_file"})
      [] OTHER -> <<>>

(***************************************************************************)
(* The fields the rules of a component read.                               *)
(***************************************************************************)
Flags(rules) ==
    UNION {{src[2] : src \in ToSet(rules[i].from)} :
             i \in {j \in DOMAIN rules : rules[j].kind \in {"flag", "flagpresent"}}}
Sources(rules, kinds) ==
    UNION {{src[2] : src \in {x \in ToSet(rules[i].from) : x[1] \in kinds}} :
             i \in DOMAIN rules}
Fields(rules) ==
    Sources(rules, {"public", "secret"})
    \union UNION {rules[i].to :
                    i \in {j \in DOMAIN rules : rules[j].kind \in {"each", "eachpresent"}}}

Sayings == {"observability_enabled", "custom_sample_enabled", "use_kubeconfig"}
Filled(fields, rules) ==
    [f \in fields |-> IF f \in Flags(rules) \union Sayings THEN "yes" ELSE f]

RulesWith(c, form, opts) ==
    LET e == [form |-> form, opts |-> opts, pre |-> <<>>, other |-> <<>>,
              selected |-> {c, "rhbk"}]
        s == [vars |-> <<>>, vault |-> <<>>, dirty |-> FALSE, used |-> {}]
        jobs == LdapAuth(e, s) \o OauthRhbk(e, s) \o Routes(e, s) \o AapHubHarden(e, s)
    IN CASE c = "openshift" -> OpenShift(e, s)
         [] c = "jobs" -> jobs
         [] OTHER -> RulesOf(c, e, s) \o SecretNames(c, e)
                     \o If(c = "satellite", SatelliteSecrets(e, s))
                     \o If(c \in SharesAwsVault,
                           << Copy({}, Pubs(<<"access_key_id">>)
                                       \o Secs(<<"secret_access_key",
                                                 "session_token">>)) >>)
RulesSent(c, form) ==
    LET asked == SetToSeq(OptionSets(c))
    IN FlattenSeq([i \in DOMAIN asked |-> RulesWith(c, form, asked[i])])
RulesAnd(c, plain) ==
    plain \o RulesSent(c, Filled(Fields(plain) \union Sayings, plain))
AllRules(c) == RulesAnd(c, RulesSent(c, <<>>))

Rules == [c \in Names \union {"openshift", "jobs"} |-> AllRules(c)]

\* Full forms, and what rules take from elsewhere in a preflight file.  They are
\* handed down as parameters, so that TLC's statistics meet the rules once.
FormsFor(rules) ==
    [c \in DOMAIN rules |-> Filled(Fields(rules[c]) \union DOMAIN Beside(c), rules[c])]
OthersFor(rules) ==
    LET all(kind) == UNION {Sources(rules[c], {kind}) : c \in DOMAIN rules}
    IN [other |-> [k \in all("other") |-> Text(k)],
        pre |-> [k \in all("pre") \union {"admin_password"} |-> Text("pre_" \o k)]]
NoOthers == [other |-> <<>>, pre |-> <<>>]

Plain(form) == [f \in DOMAIN form \ SecretFields |-> form[f]]
Blanked(form) == [f \in DOMAIN form |-> IF f \in SecretFields \union NestedSecrets
                                       THEN "" ELSE form[f]]
Hidden(form) == [f \in DOMAIN form \intersect SecretFields |-> form[f]]
Short(form) == [f \in DOMAIN form \intersect {"namespace", "storage", "realm"} |-> form[f]]
Unhosted(form) ==
    [f \in DOMAIN form \ {"hostname", "route_host", "console_hostname", "api_hostname"} |->
       form[f]]
\* A form of Keycloak that leaves OpenShift's sign-on to its own form.
Apart(form) == [f \in DOMAIN form \ {"openshift_oidc_client_id",
                                     "openshift_oidc_idp_name"} |-> form[f]]
\* A form that says only what a standalone install asks.
Alone(form) == [f \in DOMAIN form \intersect StandaloneFields |-> form[f]]

(***************************************************************************)
(* Requests.                                                               *)
(***************************************************************************)
Some(c) == CHOOSE o \in OptionSets(c) : \A p \in OptionSets(c) :
             Cardinality(o) >= Cardinality(p)
Ways == {"full", "plain", "blanked", "short", "unhosted"}
\* Quay with passwords alone: what it says of MinIO is of an earlier request.
WaysOf(g) == IF g = "quay" THEN Ways \union {"hidden"} ELSE Ways
Sending(form, way) == CASE way = "full" -> form
                        [] way = "plain" -> Plain(form)
                        [] way = "blanked" -> Blanked(form)
                        [] way = "short" -> Short(form)
                        [] way = "hidden" -> Hidden(form)
                        [] way = "apart" -> Apart(form)
                        [] way = "alone" -> Alone(form)
                        [] way = "unhosted" -> Unhosted(form)

Sent(opts, forms, order, others, apps) ==
    [selected |-> DOMAIN forms \ (Jobs \ {"openshift"}), opts |-> opts, forms |-> forms,
     order |-> order, other |-> others.other, pre |-> others.pre, apps |-> apps,
     encrypt |-> FALSE]

ComponentRequests(g, full, others) ==
    LET cs == ToSet(Groups[g])
        main == Groups[g][Len(Groups[g])]
        with(opts, forms, outside, apps) ==
            Sent([c \in {main} |-> opts], forms, Groups[g], outside, apps)
        Of(way) == [c \in cs |-> Sending(full[c], way)]
        ways == {with(Some(main), Of(way),
                      IF way = "plain" THEN others ELSE NoOthers,
                      CASE way = "unhosted" -> "old" [] way \in {"short", "hidden"} -> ""
                        [] OTHER -> "new") : way \in WaysOf(g)}
        options == {with(opts, Of("full"), NoOthers, "new") : opts \in OptionSets(main)}
        tweaked == {with(opts, [Of("full") EXCEPT ![main] = t @@ @], NoOthers, "new") :
                      opts \in OptionSets(main), t \in Tweaks(main)}
        \* From a host of its own to OpenShift and back, with forms that say little.
        moved == {with(opts, Of(way), NoOthers, "") :
                    opts \in OptionSets(main) \intersect {{}, {"standalone"}},
                    way \in IF {"standalone"} \in OptionSets(main)
                            THEN {"alone", "plain", "unhosted"} ELSE {}}
    IN ways \union options \union tweaked \union moved

ClusterRequests(full, others) ==
    {Sent([openshift |-> opts], [openshift |-> t @@ Sending(full["openshift"], way)], <<>>,
          IF way = "plain" THEN others ELSE NoOthers, "") :
       opts \in OptionSets("openshift"), way \in Ways \ {"unhosted"},
       t \in Tweaks("openshift") \union {<<>>}}

SignOnRequests(full) ==
    {Sent([openshift |-> opts],
          [openshift |-> full["openshift"], rhbk |-> Sending(full["rhbk"], way)]
            @@ [j \in {"ldap_auth", "oauth_rhbk", "routes"} |-> Sending(full["jobs"], jobs)],
          <<"rhbk">>, NoOthers, "") :
       opts \in {{}, {"oauth_rhbk", "ldap_auth", "alternate_routes"}},
       way \in {"full", "short", "apart"}, jobs \in {"full", "short"}}

AskedOf(g, full, others) == CASE g = "openshift" -> ClusterRequests(full, others)
                              [] g = "sign_on" -> SignOnRequests(full)
                              [] OTHER -> ComponentRequests(g, full, others)
Encrypted(requests) == {[r EXCEPT !.encrypt = TRUE] : r \in requests}
RequestsFrom(rules) ==
    LET asked == [g \in MCEnvironments |-> AskedOf(g, FormsFor(rules), OthersFor(rules))]
    IN [g \in MCEnvironments |->
          asked[g] \union IF g \in {"grafana", "quay"} THEN Encrypted(asked[g]) ELSE {}]
AllRequests == RequestsFrom(Rules)
MCRequests(g) == AllRequests[g]
\* Three show a Quay whose switch to MinIO was never finished.
MCMaxRequests(g) == IF g = "quay" THEN 3 ELSE 2
=============================================================================
