-------------------------- MODULE OverlayPlatforms --------------------------
(***************************************************************************)
(* merge_component of overlay_preflight_component_values.py for Keycloak   *)
(* (rhbk) and Ansible Automation Platform (aap), each of which is an       *)
(* application on OpenShift or a product on a RHEL host.                   *)
(***************************************************************************)
EXTENDS OverlayApps

PubText(e, f) == At(Public(e), f)[2]
Says(e, f, default) == IF PubText(e, f) = Blank THEN default ELSE PubText(e, f) \in Truthy

(***************************************************************************)
(* rhbk                                                                    *)
(***************************************************************************)
\* The fields of a standalone install are sent with every form and count only
\* when the option is chosen; the administrator's are read without asking.
RhbkRealm(e, s) ==
    LET standalone == Chosen(e, "standalone")
    IN If(~standalone, << Drop(StandaloneFields \union StandaloneDerived("rhbk")) >>)
       \o << Put({"rhbk_platform", "install_rhbk_platform"},
                 Text(IF standalone THEN "rhel" ELSE "openshift")),
             Copy({"rhbk_realm", "ocp_rhbk_realm", "keycloak_login_events_realms"},
                  <<Pub("realm"), Const("Lab")>>),
             Flag({"rhbk_enabled"}, <<Pub("realm_enabled"), Const("yes")>>),
             Copy({"rhbk_hostname", "rhbk_host", "ocp_rhbk_hostname", "rhbk_url",
                   "keycloak_login_events_keycloak_url"},
                  (IF standalone THEN <<Pub("standalone_hostname")>> ELSE <<>>)
                    \o <<Pub("hostname"), Oth("keycloak_route")>>),
             Flag({"rhbk_event_metrics_user_enabled",
                   "install_rhbk_event_metrics_user_enabled",
                   "event_metrics_user_enabled"},
                  <<Pub("event_metrics_user_enabled"), Const("no")>>),
             Put({"rhbk_metrics_enabled", "install_rhbk_metrics_enabled"}, Yes),
             Flag({"keycloak_login_events_exporter_enabled"},
                  <<Pub("login_events_exporter_enabled"), Const("yes")>>),
             Copy({"rhbk_admin_user", "ocp_rhbk_admin_user"},
                  Pubs(<<"admin_user", "standalone_admin_user">>)
                    \o <<Const("admin")>>),
             Stash({"rhbk_admin_password", "ocp_rhbk_admin_password"},
                   <<"vault_rhbk_admin_password", "rhbk_admin_password",
                     "ocp_rhbk_admin_password">>,
                   Secs(<<"admin_password", "standalone_admin_password">>)) >>

\* One way to terminate TLS: cert-manager before the ingress certificate before
\* a certificate of one's own before the edge.
TlsModes == {"edge", "cert_manager", "ingress_copy", "manual"}
TlsMode(e, pair) ==
    LET asked == IF PubText(e, "tls_mode") \in TlsModes
                 THEN PubText(e, "tls_mode") ELSE "edge"
    IN IF Says(e, "cert_manager", asked = "cert_manager") THEN "cert_manager"
       ELSE IF Says(e, "ocp_rhbk_use_default_ingress_cert", asked = "ingress_copy")
            THEN "ingress_copy"
       ELSE IF asked = "manual" \/ pair THEN "manual"
       ELSE "edge"

RhbkTls(e, s) ==
    LET pair == Given(e, s, Sec("tls_crt")) /\ Given(e, s, Sec("tls_key"))
        mode == TlsMode(e, pair)
        on(m) == IF mode = m THEN Yes ELSE No
    IN << Put({"tls_mode"}, Text(mode)),
          Put({"cert_manager"}, on("cert_manager")),
          Put({"ocp_rhbk_http_edge"}, on("edge")),
          Put({"ocp_rhbk_use_default_ingress_cert"}, on("ingress_copy")) >>
       \o If(mode = "manual" /\ pair,
             << Stash({"tls_crt"}, <<"vault_rhbk_tls_crt", "tls_crt">>,
                      <<Sec("tls_crt")>>),
                Stash({"tls_key"}, <<"vault_rhbk_tls_key", "tls_key">>,
                      <<Sec("tls_key")>>) >>)
       \o << Copy({"ocp_rhbk_issuer_kind"}, <<Pub("issuer_kind"), Const("ClusterIssuer")>>),
             Copy({"ocp_rhbk_issuer_name"}, <<Pub("issuer_name"), Const("idm-acme")>>) >>

\* The list of clients is named by the client it would give OpenShift.
RhbkClients(e, s) ==
    << Copy({"rhbk_clients"}, <<Pub("clients")>>),
       Copy({"rhbk_client"}, <<Pub("client")>>) >>
    \o If(~Chosen(e, "standalone"),
          << Copy({"openshift_oidc_auth_client"},
                  Pubs(<<"openshift_oidc_client_id", "client">>)
                    \o <<Var("rhbk_client"), Pub("clients"), Const("OpenshiftLab")>>),
             Copy({"openshift_oidc_auth_idp"},
                  <<Pub("openshift_oidc_idp_name"), Oth("oauth_rhbk_idp_name"),
                    Const("Keycloak")>>),
             Copy({"openshift_oidc_auth_issuer"}, <<Var("ocp_rhbk_hostname")>>) >>)

\* The archive's source is the one named, or the first that was given.
ZipSource(e) ==
    IF PubText(e, "standalone_zip_source") \in {"url", "git", "upload"}
    THEN PubText(e, "standalone_zip_source")
    ELSE IF PubText(e, "standalone_zip_git_repo") # Blank THEN "git"
    ELSE IF PubText(e, "standalone_zip_url") # Blank THEN "url"
    ELSE IF PubText(e, "standalone_zip_file") # Blank THEN "upload"
    ELSE Blank

RhbkStandalone(e, s) ==
    LET source == ZipSource(e)
    IN << Copy({"rhbk_standalone_hostname", "install_rhbk_standalone_hostname",
                "rhbk_hostname", "rhbk_host"}, <<Pub("standalone_hostname")>>) >>
       \o If(source # Blank,
             << Put({"rhbk_standalone_zip_source", "install_rhbk_standalone_zip_source"},
                    Text(source)) >>)
       \o If(source \in {Blank, "url"},
             << Copy({"rhbk_standalone_zip_url"}, <<Pub("standalone_zip_url")>>) >>)
       \o If(source = "git",
             << Copy({"rhbk_standalone_zip_git_repo", "install_rhbk_standalone_zip_git_repo"},
                     <<Pub("standalone_zip_git_repo")>>),
                Copy({"rhbk_standalone_zip_git_path", "install_rhbk_standalone_zip_git_path"},
                     <<Pub("standalone_zip_git_path")>>),
                Copy({"rhbk_standalone_zip_git_branch",
                      "install_rhbk_standalone_zip_git_branch"},
                     <<Pub("standalone_zip_git_branch")>>) >>)
       \o If(source \in {Blank, "upload"},
             << Copy({"rhbk_standalone_zip"}, <<Pub("standalone_zip_file")>>) >>)
       \o << Copy({"rhbk_admin_user"}, <<Pub("standalone_admin_user")>>),
             Stash({"rhbk_admin_password"}, <<"vault_rhbk_admin_password">>,
                   <<Sec("standalone_admin_password")>>),
             Stash({"rhbk_standalone_tls_crt", "tls_crt"},
                   <<"vault_rhbk_standalone_tls_crt">>, <<Sec("standalone_tls_crt")>>),
             Stash({"rhbk_standalone_tls_key", "tls_key"},
                   <<"vault_rhbk_standalone_tls_key">>, <<Sec("standalone_tls_key")>>) >>
       \o If(Given(e, s, Sec("standalone_tls_crt"))
               /\ Given(e, s, Sec("standalone_tls_key")),
             << Put({"rhbk_standalone_https_enabled",
                     "install_rhbk_standalone_https_enabled"}, Yes) >>)

\* LDAP settings are merged into the block the template left in the vault, and
\* only there.
RhbkFederation(e, s) ==
    << Copy({"rhbk_federation_name"}, <<Pub("federation_name")>>),
       Copy({"client_scope_name", "rhbk_client_scope_name"},
            <<Pub("client_scope_name")>>
              \o IF Chosen(e, "client_scopes") THEN <<Const("groups")>> ELSE <<>>) >>
    \o If("ldap_config" \in DOMAIN s.vault,
          << StashOnly(<<"ldap_config_url">>, <<Pub("federation_ldap_url")>>),
             StashOnly(<<"ldap_config_bind_dn">>, <<Pub("federation_bind_dn")>>),
             StashOnly(<<"ldap_config_bind_credential">>,
                       <<Sec("federation_bind_password")>>),
             StashOnly(<<"ldap_config_users_dn">>, <<Pub("federation_users_dn")>>) >>)
    \o << StashOnly(<<"rhbk_federation_name">>, <<Pub("federation_name")>>) >>
    \o If(~Given(e, s, Pub("federation_name")) /\ Chosen(e, "federation"),
          << Put({"federation_name", "rhbk_federation_name"}, Text("LDAP")),
             StashOnly(<<"rhbk_federation_name">>, <<Const("LDAP")>>) >>)

\* Mutation of Rhbk: the clients come before the realm.
RhbkClientsFirst(e, s) ==
    RhbkClients(e, s) \o RhbkRealm(e, s) \o RhbkTls(e, s) \o RhbkFederation(e, s)

Rhbk(e, s) ==
    RhbkRealm(e, s) \o RhbkTls(e, s) \o RhbkClients(e, s)
    \o If(Chosen(e, "standalone"), RhbkStandalone(e, s))
    \o RhbkFederation(e, s)
    \o If(~Chosen(e, "standalone"),
          << Drop(StandaloneFields \union StandaloneDerived("rhbk")) >>)

(***************************************************************************)
(* aap.  The options are what the preflight's pre_installs ask for.        *)
(***************************************************************************)
WantInstall(e) == Chosen(e, "install_aap")
WantAttach(e) == Chosen(e, "attach_aap_license")
LicenseOnly(e) == WantAttach(e) /\ ~WantInstall(e)
OnRhel(e) == PubText(e, "install_target") = "rhel"

\* What the script does before any component: fields asked for before the
\* install fill the blanks of the form, and a license attached to a platform
\* that runs already takes that platform's host and password.
AapForm(form, opts, other, asked) ==
    LET said(f) == f \in DOMAIN form /\ form[f] \in Truthy
        license == "attach_aap_license" \in opts \/ said("license_only")
        install == \/ "install_aap" \in opts
                   \/ ~license /\ said("install_during_bootstrap")
        attach == license /\ ~install
        blank(f) == f \notin DOMAIN form \/ form[f] = Blank
        pre == {f \in {"rhn_username", "rhn_password", "license_mode",
                       "admin_password", "hostname", "namespace"} :
                   blank(f) /\ f \in DOMAIN asked}
        of == [hostname |-> "aap_hostname", admin_password |-> "aap_admin_password"]
        general == {f \in {"hostname", "admin_password"} :
                       /\ of[f] \in DOMAIN other
                       /\ \/ attach
                          \/ blank(f) /\ f \notin pre}
        marks == {"install_during_bootstrap"}
                 \union IF attach THEN {"license_only"} ELSE {}
    IN IF install \/ attach
       THEN [f \in marks |-> "yes"] ++ [f \in general |-> other[of[f]][2]]
            ++ [f \in pre |-> asked[f][2]] ++ form
       ELSE form

AapAdmin(e, s) ==
    LET passwords == IF LicenseOnly(e) \/ Says(e, "license_only", FALSE)
                     THEN <<Oth("aap_admin_password"), Sec("admin_password")>>
                     ELSE <<Sec("admin_password"), Oth("aap_admin_password")>>
        users == <<Pub("admin_username"), Oth("aap_admin_username"), Const("admin")>>
    IN << Copy({"install_aap_target"}, <<Pub("install_target"), Const("openshift")>>),
          Stash({"aap_ocp_install_admin_password"},
                <<"aap_admin_password", "vault_controller_password">>, passwords) >>
       \o If(FirstPresent(e, s, passwords) # None,
             << Copy({"aap_ocp_install_admin_user"}, users) >>)
       \o << StashOnly(<<"aap_admin_user">>, users) >>

\* A field of the form, else the one asked for before the install.
Asked(f) == <<Pub(f), Pre(f)>>
AapHosts(e) == IF OnRhel(e)
               THEN Asked("standalone_hostname") \o <<Pub("hostname"), Oth("aap_hostname")>>
               ELSE <<Pub("hostname"), Oth("aap_hostname")>>

\* The inventory is written anew every time: its passwords refer to the
\* administrator's only when this form, or the general tab, sends it.
AapOnHost(e, s) ==
    LET known == FirstPresent(e, s, <<Sec("admin_password"),
                                      Oth("aap_admin_password")>>) # None
    IN << Copy({"aap_setup_down_type"},
               Asked("aap_setup_down_type") \o <<Const("setup-bundle")>>),
          Copy({"aap_setup_down_version"}, <<Pub("deployment_version"), Const("2.7")>>),
          Flag({"aap_setup_containerized"},
               Asked("aap_setup_containerized") \o <<Const("yes")>>),
          Copy({"aap_setup_down_dest_dir", "aap_setup_working_dir",
                "aap_setup_prep_working_dir"}, Asked("aap_setup_bundle_dir")),
          Copy({"aap_setup_prep_installer_file"}, Asked("aap_setup_bundle_file")) >>
       \o If(FirstPresent(e, s, Asked("aap_setup_bundle_file")) # None,
             << Put({"install_aap_rhel_download"}, No) >>)
       \o << Copy({"aap_setup_ssh_user"}, Asked("aap_setup_ssh_user")),
             StashOnly(<<"aap_setup_ssh_password">>,
                       <<Sec("aap_setup_ssh_password"),
                         Pre("aap_setup_ssh_password")>>),
             StashOnly(<<"aap_setup_ssh_private_key">>,
                       Asked("aap_setup_ssh_private_key")),
             Copy({"aap_setup_ssh_host", "aap_setup_prep_inv_nodes", "hostname",
                   "aap_hostname"}, AapHosts(e)),
             Put({"aap_setup_prep_inv_vars"},
                 IF known THEN Ref("aap_admin_password") ELSE Text("no_passwords")),
             Put({"aap_setup_inst_force"}, Yes) >>

\* The connection refers to a token the vault has only when the preflight does.
AapOnOpenShift(e, s) ==
    LET parts == {"hub", "eda", "lightspeed"}
        minimal == Says(e, "minimal_footprint", FALSE)
        installed(p) == ~minimal /\ Says(e, "install_" \o p, p # "lightspeed")
        part(p) == Put({"aap_ocp_install_" \o p}, IF installed(p) THEN Yes ELSE No)
    IN << StashOnly(<<"token">>, <<Oth("openshift_token")>>),
          Copy({"aap_ocp_install_namespace"}, <<Pub("namespace"), Const("aap")>>),
          Flag({"aap_ocp_install_create_namespace"},
               <<Pub("create_namespace"), Const("yes")>>),
          Put({"aap_ocp_install_connection"}, Ref("token")),
          Copy({"aap_operator_scope"}, <<Pub("operator_scope"), Const("all_namespaces")>>),
          Copy({"aap_ocp_install_operator"},
               <<Pub("operator_channel"), Var("aap_operator_scope")>>),
          Copy({"aap_ocp_install_platform"},
               <<Pub("instance_name"), Var("aap_ocp_install_namespace")>>),
          Flag({"aap_ocp_install_controller"}, <<Pub("install_controller"), Const("yes")>>),
          part("hub"), part("eda"), part("lightspeed"),
          Flag({"aap_ocp_install_reset_database"},
               Asked("reset_database") \o <<Const("no")>>) >>

\* What the preflight asks for replaces what an earlier run asked for.
AapLicense(e, s) ==
    << Put({"aap_install_during_bootstrap"},
           IF WantInstall(e) \/ WantAttach(e) THEN Yes ELSE No),
       Copy({"aap_ocp_install_license_mode"},
            <<Pre("license_mode")>>
              \o (IF WantInstall(e) \/ WantAttach(e)
                  THEN <<Pub("license_mode")>> ELSE <<>>)
              \o <<Const("none")>>),
       Put({"aap_ocp_install_license_only"}, IF LicenseOnly(e) THEN Yes ELSE No),
       Copy({"aap_ocp_install_subscription_manifest_filename"},
            Asked("subscription_manifest_file")),
       Stash({"aap_ocp_install_subscription_manifest_content"},
             <<"aap_ocp_install_subscription_manifest_content">>,
             <<Pre("manifest_content"), Sec("manifest_content")>>),
       Copy({"aap_ocp_install_rhn_username"}, Asked("rhn_username")),
       Stash({"aap_ocp_install_rhn_password"}, <<"aap_ocp_install_rhn_password">>,
             <<Sec("rhn_password"), Pre("rhn_password")>>),
       Copy({"aap_ocp_install_rhn_client_id"}, Asked("rhn_client_id")),
       Stash({"aap_ocp_install_rhn_client_secret"},
             <<"aap_ocp_install_rhn_client_secret">>, <<Sec("rhn_client_secret")>>),
       Copy({"hostname", "aap_hostname", "aap_ocp_install_controller_route_host"},
            IF LicenseOnly(e) THEN <<Oth("aap_hostname"), Pub("hostname")>>
                              ELSE AapHosts(e)) >>

Aap(e, s) ==
    AapAdmin(e, s)
    \o (IF OnRhel(e) THEN AapOnHost(e, s) ELSE AapOnOpenShift(e, s))
    \o << Put({"aap_minimal_footprint"},
              IF Says(e, "minimal_footprint", FALSE) THEN Yes ELSE No) >>
    \o AapLicense(e, s)
=============================================================================
