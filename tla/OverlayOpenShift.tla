-------------------------- MODULE OverlayOpenShift --------------------------
(***************************************************************************)
(* The part of overlay_preflight_component_values.py before the components *)
(* are merged: the cluster itself with the options a preflight offers for  *)
(* it, and the jobs that have files of their own.  `e.form' is here the    *)
(* openshift part of the preflight file, or the part of one job.           *)
(***************************************************************************)
EXTENDS OverlaySatellite

Not(v) == IF v = Yes THEN No ELSE Yes
Option(e, opt) == IF Chosen(e, opt) THEN "yes" ELSE "no"

ClusterAccess(e, s) ==
    LET skip_tls_verify == IF Says(e, "skip_tls_verify", TRUE) THEN Yes ELSE No
    IN << CopyPresent({"api_host", "host"}, "api_host"),
          Copy({"domain"}, <<Oth("domain")>>),
          CopyPresent({"apps_domain", "app_domain"}, "apps_domain"),
          Put({"skip_tls_verify"}, skip_tls_verify),
          Put({"verify_ssl", "validate_certs"}, Not(skip_tls_verify)),
          Keep(<<"token", "openshift_token">>, "token") >>
       \o (IF Says(e, "use_kubeconfig", FALSE) /\ Given(e, s, Pub("kubeconfig_content"))
           THEN << StashOnly(<<"openshift_kubeconfig", "kubeconfig_content">>,
                             <<Pub("kubeconfig_content")>>),
                   Put({"openshift_use_kubeconfig"}, Yes) >>
           ELSE << DropVault({"openshift_kubeconfig", "kubeconfig_content"}),
                   Drop({"openshift_use_kubeconfig"}) >>)
       \o << Flag({"openshift_install_htpasswd_during_bootstrap"},
                  <<Pub("install_htpasswd_during_bootstrap"), Const("no")>>),
             Flag({"openshift_install_nfs_during_bootstrap"},
                  <<Pub("install_nfs_during_bootstrap"), Const(Option(e, "nfs_csi"))>>) >>

\* The images the cluster keeps itself; without the option all of it goes.
ImageRegistry(e, s) ==
    LET during == {"openshift_install_image_registry_during_bootstrap"}
        enabled == {"ocp_image_registry_enabled",
                    "openshift_integrated_registry_enabled"}
        route == {"ocp_image_registry_default_route",
                  "openshift_integrated_registry_default_route"}
        option == "integrated_image_registry"
    IN << Flag(during, <<Pub("install_image_registry_during_bootstrap"),
                         Const(Option(e, option))>>) >>
       \o IF Chosen(e, option)
          THEN << Put(enabled, Yes),
                  Flag(route, <<Pub("integrated_registry_default_route"),
                                Const("yes")>>) >>
          ELSE << Drop(during \union enabled \union route) >>

NfsStorage(e, s) ==
    LET ocp(n) == "ocp_nfs_storage_" \o n
        part(n, from, default) == Copy({ocp(n)}, <<Pub(from), Const(default)>>)
        flag(n, from, default) == Flag({ocp(n)}, <<Pub(from), Const(default)>>)
    IN IF Chosen(e, "nfs_csi")
       THEN << Copy({ocp("server"), "nfs_server"}, <<Pub("nfs_server")>>),
               Copy({ocp("share"), "nfs_share"}, <<Pub("nfs_share")>>),
               part("class_name", "nfs_storage_class_name", "synology-nfs-csi"),
               part("driver_version", "nfs_driver_version", "4.11.0"),
               part("nfs_version", "nfs_version", "4.1"),
               flag("create_test_namespace", "nfs_create_test_namespace", "yes"),
               flag("create_test_pvc", "nfs_create_test_pvc", "no"),
               part("test_namespace", "nfs_test_namespace", "synology-nfs-pv") >>
       ELSE << Drop({"nfs_server", "nfs_share"}
                    \union {ocp(n) : n \in {"server", "share", "class_name",
                                "driver_version", "nfs_version",
                                "create_test_namespace", "create_test_pvc",
                                "test_namespace"}}) >>

IscsiStorage(e, s) ==
    LET ocp(n) == "ocp_iscsi_storage_" \o n
        part(n, from, default) == Copy({ocp(n)}, <<Pub(from), Const(default)>>)
        flag(n, default) == Flag({ocp(n)}, <<Pub("iscsi_" \o n), Const(default)>>)
        both(n) == <<ocp(n), "iscsi_" \o n>>
    IN << Flag({"openshift_install_iscsi_during_bootstrap"},
               <<Pub("install_iscsi_during_bootstrap"),
                 Const(Option(e, "iscsi_csi"))>>) >>
       \o IF Chosen(e, "iscsi_csi")
          THEN << Copy({ocp("dsm_host"), "iscsi_dsm_host"}, <<Pub("iscsi_dsm_host")>>),
                  StashOnly(both("dsm_username"), <<Pub("iscsi_dsm_username")>>),
                  StashOnly(both("dsm_password"), <<Sec("iscsi_dsm_password")>>),
                  part("dsm_port", "iscsi_dsm_port", "5000"),
                  flag("dsm_https", "no"),
                  part("class_name", "iscsi_storage_class_name",
                       "synology-iscsi-storage"),
                  part("location", "iscsi_location", "/volume1"),
                  flag("is_default", "yes"), flag("install_snapshotter", "yes") >>
          ELSE << Drop({"iscsi_dsm_host"}
                       \union {ocp(n) : n \in {"dsm_host", "dsm_port", "dsm_https",
                                   "class_name", "location", "is_default",
                                   "install_snapshotter"}}),
                  DropVault(KeySet(both("dsm_username"))
                            \union KeySet(both("dsm_password"))) >>

(***************************************************************************)
(* Admin HTPasswd.  A list of users is named by whether it is there and    *)
(* whether every user in it has a password; without a list, the one        *)
(* administrator of the form stands for it.                                *)
(***************************************************************************)
Users == <<Pub("htpasswd_users"), Pub("admin_username")>>

\* The two reasons the script stops instead of writing an empty password.
RefusesUsers(e, s) ==
    /\ Chosen(e, "admin_htpasswd")
    /\ FirstPresent(e, s, Users) \in {None, Text("users_without_passwords")}

\* Mutation of AdminHtpasswd: the option gone, the users stay.
AdminHtpasswdStays(e, s) ==
    IF Chosen(e, "admin_htpasswd")
    THEN << Copy({"htpasswd_action"}, <<Pub("htpasswd_action"), Const("add")>>),
            Copy({"htpasswd_idp_name", "htpasswd_idp"},
                 <<Pub("htpasswd_idp_name"), Const("htpasswd-admin")>>),
            Copy({"htpasswd_secret"}, <<Const("htpasswd-admin-secret")>>),
            StashOnly(<<"htpasswd_users", "htpasswd_pass">>, Users) >>
    ELSE << Drop({"htpasswd_action", "htpasswd_idp_name", "htpasswd_idp",
                  "htpasswd_secret"}) >>

AdminHtpasswd(e, s) ==
    LET users == <<"htpasswd_users", "htpasswd_pass">>
    IN IF Chosen(e, "admin_htpasswd")
       THEN << Copy({"htpasswd_action"}, <<Pub("htpasswd_action"), Const("add")>>),
               Copy({"htpasswd_idp_name", "htpasswd_idp"},
                    <<Pub("htpasswd_idp_name"), Const("htpasswd-admin")>>),
               Copy({"htpasswd_secret"},
                    Pubs(<<"htpasswd_secret", "htpasswd_idp_name">>)
                      \o <<Const("htpasswd-admin-secret")>>),
               StashOnly(users, Users) >>
       ELSE << Drop({"htpasswd_action", "htpasswd_idp_name", "htpasswd_idp",
                     "htpasswd_secret"}),
               DropVault(KeySet(users)) >>

\* A banner to delete needs its state alone; one to add needs a text.
ConsoleBanner(e, s) ==
    LET colors == {"location", "background_color", "text_color"}
        ocp(n) == "ocp_console_banner_" \o n
        text == {ocp("text"), "console_banner_text"}
        state == {"state", "console_banner_state", ocp("state")}
        deleted == PubText(e, "banner_state") = "delete"
    IN IF ~(/\ Chosen(e, "console_banner")
            /\ Given(e, s, Pub("banner_text")) \/ deleted)
       THEN << Drop(text \union {ocp(n) : n \in colors} \union state) >>
       ELSE << Copy(state, <<Pub("banner_state"), Const("add")>>) >>
            \o IF deleted
               THEN << Drop(text \union {ocp(n) : n \in colors}
                            \union {"console_banner_" \o n : n \in colors}) >>
               ELSE << Copy(text, <<Pub("banner_text")>>),
                       Copy({ocp("location")}, <<Pub("banner_location")>>),
                       Copy({ocp("background_color")}, <<Pub("banner_background_color")>>),
                       Copy({ocp("text_color")}, <<Pub("banner_text_color")>>) >>

OpenShift(e, s) ==
    ClusterAccess(e, s) \o ImageRegistry(e, s) \o NfsStorage(e, s)
    \o IscsiStorage(e, s) \o AdminHtpasswd(e, s) \o ConsoleBanner(e, s)

(***************************************************************************)
(* Jobs with files of their own.                                           *)
(***************************************************************************)
\* LDAP sign-on: what the form leaves out falls back to the lab's directory,
\* but the credential, which stays what it was.
LdapAuth(e, s) ==
    << Copy({"openshift_ldap_auth_idp_name", "ocp_ldap_auth_config_idp_name"},
            <<Pub("idp_name"), Const("LDAP_IDM")>>),
       Copy({"openshift_ldap_auth_mapping_method"}, <<Pub("mapping_method")>>),
       StashOnly(<<"ldap_config">>, <<Const("settings")>>),
       StashOnly(<<"ldap_config_url">>,
                 <<Pub("connection_url"), Const("ldap://idm.server.lab")>>),
       StashOnly(<<"ldap_config_bind_dn">>,
                 <<Pub("bind_dn"), Const("cn=Directory Manager")>>),
       StashOnly(<<"ldap_config_users_dn">>, <<Pub("users_dn"), Const("cn=users")>>),
       StashOnly(<<"ldap_config_bind_credential">>, <<Sec("bind_credential")>>) >>

\* Sign-on through Keycloak rewrites the vars the rhbk component has from an
\* earlier run, and clears what such a run left of them in its vault.
OauthRhbk(e, s) ==
    LET name == <<Pub("idp_name"), Const("Keycloak")>>
        client == <<Pub("client_id"), Var("rhbk_client")>>
        realm == <<Pub("realm"), Var("rhbk_realm"), Var("ocp_rhbk_realm"),
                   Const("rhlab")>>
        host == <<Pub("keycloak_hostname"), Var("ocp_rhbk_hostname"),
                  Var("rhbk_hostname")>>
    IN << Copy({"openshift_oidc_idp_name", "openshift_oidc_auth_idp"}, name),
          Copy({"rhbk_client", "openshift_oidc_client_id",
                "openshift_oidc_auth_client"}, client),
          Copy({"rhbk_realm", "ocp_rhbk_realm"}, realm),
          Copy({"ocp_rhbk_hostname", "rhbk_hostname", "openshift_oidc_auth_issuer"},
               host),
          Copy({"openshift_oidc_auth_scopes"}, <<Pub("extra_scopes"), Const("groups")>>),
          DropVault({"openshift_oidc_idp_name", "rhbk_client",
                     "openshift_oidc_client_id", "rhbk_realm", "ocp_rhbk_realm",
                     "ocp_rhbk_hostname", "rhbk_hostname"}) >>

RouteOptions == {"discover_routes_print", "alternate_routes", "discover_routes_alt"}
Routes(e, s) ==
    LET ingress == {"alt_routes_ingress_controller_name",
                    "ocp_alt_routes_ingress_controller_name"}
        scope == PubText(e, "scope")
        namespaces == IF scope \in {"selected_apps", "namespaces"} THEN scope ELSE "all"
    IN << CopyPresent({"api_host", "host"}, "api_host"),
          Put({"ocp_discover_routes_namespaces"}, Text(namespaces)),
          Copy({"alt_routes_suffix"}, <<Pub("route_name_suffix"), Const("-alt")>>),
          Flag({"alt_routes_force_replace"}, <<Pub("force_replace"), Const("no")>>) >>
       \o (IF Given(e, s, Pub("ingress_controller_name"))
           THEN << Copy(ingress, <<Pub("ingress_controller_name")>>) >>
           ELSE << Drop(ingress) >>)
       \o << Copy({"alt_routes_default_labels"},
                  <<Pub("route_labels"), Const("no_labels")>>),
             StashOnly(<<"token">>,
                       <<Sec("token"), Oth("openshift_vault_token"), Vlt("token")>>) >>

AapHubHarden(e, s) ==
    LET harden(n) == {"ocp_aap_hub_harden_" \o n}
    IN << Copy(harden("namespace"), <<Pub("namespace"), Oth("aap_namespace")>>),
          Put(harden("separate_database"), Yes),
          Copy(harden("aap_name"), <<Pub("aap_name")>>),
          Copy(harden("automationhub_name"), <<Pub("hub_name")>>),
          Copy(harden("storage_class"), <<Pub("storage_class"), Oth("aap_storage")>>),
          Copy({"host", "api_host"}, <<Oth("openshift_api_host")>>),
          Flag({"skip_tls_verify"}, <<Oth("openshift_skip_tls_verify"), Const("yes")>>),
          Put({"verify_ssl"}, Not(AsBool(FirstPresent(e, s,
              <<Oth("openshift_skip_tls_verify"), Const("yes")>>)))),
          StashOnly(<<"token">>, <<Oth("openshift_token")>>) >>
=============================================================================
