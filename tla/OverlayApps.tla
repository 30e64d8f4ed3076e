---------------------------- MODULE OverlayApps -----------------------------
(***************************************************************************)
(* What merge_component of overlay_preflight_component_values.py does for  *)
(* each application it installs on OpenShift, as the rules of              *)
(* OverlayRules, in the order of the code.                                 *)
(*                                                                         *)
(* Host names in a form are bare, so stripping a scheme and a path leaves  *)
(* them as they are.  An issuer address is named by the host it points at, *)
(* an oidc block by its issuer, and a part of another nested form field by *)
(* <field>_<part>, a secret one by <field>.<part>: it goes wherever the     *)
(* field is copied whole, and is sent, blank or not, when the field is.  A *)
(* field the code reads under two spellings has one.                       *)
(***************************************************************************)
EXTENDS OverlayRules

\* Copies under a name of the component and under the plain name.
HostName(names) == Copy(names \union {"hostname"}, <<Pub("hostname")>>)

\* apply_storage_var: a blank class is not a choice.
Storage(c, from) ==
    Copy({"storage"} \union IF c = "gitlab"
                            THEN {"gitlab_install_storage_class", "storage_class"}
                            ELSE {}, from)

\* rhbk_oidc_issuer_url: the host an issuer address points at.
Issuer == <<Var("ocp_rhbk_hostname"), Var("rhbk_hostname"), Oth("rhbk_hostname"),
            Oth("keycloak_route")>>

RhbkSelected(e) == "rhbk" \in e.selected

(***************************************************************************)
(* The databases of grafana, gitlab and zabbix: provisioned in the cluster *)
(* unless the form names an external host.                                 *)
(***************************************************************************)
Database(e, s, prefix, classes) ==
    LET name(n) == prefix \o n
        form(c, n) == c \o n
        external == Given(e, s, Pub("postgres_host"))
    IN << Copy({name("postgres_host")}, <<Pub("postgres_host")>>),
          IF external
          THEN Put({name("database_provision")}, No)
          ELSE Flag({name("database_provision")},
                    <<Pub("database_provision"), Const("yes")>>),
          Copy({name("postgres_storage_class")}, classes),
          Copy({name("postgres_storage_size")}, <<Pub("postgres_storage_size")>>),
          Copy({name("postgres_image")}, <<Pub("postgres_image")>>) >>

Pega(e, s) ==
    << EachPresent("ocp_pega_",
           {"namespace", "release_name", "chart_path", "values_file",
            "database_mode", "database_chart_path", "database_values_file",
            "opensearch_chart_path", "opensearch_values_file",
            "backingservices_chart_path", "backingservices_values_file",
            "helm_binary", "timeout"}),
       Copy({"ocp_pega_allowed_registries"},
            <<Pub("allowed_registries"), Const("no_registries")>>) >>

\* A list of chosen dashboards decides over the flag; data sources are written
\* anew from the form, and a bearer token left blank leaves no reference.
GrafanaContent(e, s) ==
    << Storage("grafana", <<Pub("storage")>>) >>
    \o If("folders" \in DOMAIN Public(e),
          << Flag({"grafana_include_builtin_dashboards"},
                  Pubs(<<"builtin_dashboards", "include_builtin_dashboards">>)
                    \o <<Const("yes")>>),
             CopyPresent({"grafana_folders"}, "folders") >>)
    \o If("datasources" \in DOMAIN Public(e),
          << Drop({"grafana_datasource_bearer_token"}),
             Stash({"grafana_datasource_bearer_token"},
                   <<"vault_grafana_ds_0_bearer_token">>,
                   <<Pub("datasources.bearer_token")>>),
             CopyPresent({"grafana_datasources"}, "datasources") >>)
    \o << CopyPresent({"grafana_datasource_sources"}, "datasource_sources") >>

\* The issuer follows Keycloak unless the form says it was typed.
GrafanaAccess(e, s) ==
    << CopyPresent({"grafana_email"}, "email"),
       CopyPresent({"grafana_email.password"}, "email.password"),
       CopyPresent({"oidc"}, "oidc"),
       CopyPresent({"grafana_alert_folders"}, "alert_folders") >>
    \o If(RhbkSelected(e) /\ ~Chosen(e, "standalone") /\ Chosen(e, "oidc"),
          << Copy({"oidc"}, IF Given(e, s, Pub("oidc_issuer_manual"))
                            THEN <<Var("oidc")>> ELSE Issuer) >>)
    \o << IF "alerts_enabled" \notin DOMAIN Public(e) /\ Chosen(e, "alerts")
          THEN Put({"grafana_alerts_enabled"}, Yes)
          ELSE FlagPresent({"grafana_alerts_enabled"}, "alerts_enabled"),
          Stash({"grafana_api_key"}, <<"vault_grafana_api_key">>,
                Secs(<<"api_key", "grafana_api_key">>)),
          FlagPresent({"grafana_group_cluster_dashboards"},
                      "group_cluster_dashboards") >>

GrafanaDatabase(e, s) ==
    << Copy({"grafana_database_type"}, <<Pub("database_type"), Const("sqlite")>>) >>
    \o Database(e, s, "grafana_",
                Pubs(<<"postgres_storage", "postgres_storage_class">>))
    \o << Each("grafana_", {"postgres_database", "postgres_user",
                            "postgres_ssl_mode"}),
          Stash({"grafana_postgres_password"}, <<"vault_grafana_postgres_password">>,
                <<Sec("postgres_password")>>) >>

\* The route's host name, the operator, and the administrator, whose lab
\* password stands in only while none is known.
GrafanaInstall(e, s) ==
    LET standalone == Chosen(e, "standalone")
        Only(src) == IF standalone THEN <<src>> ELSE <<>>
    IN << HostName({"grafana_hostname", "grafana_install_hostname"}) >>
       \o If(standalone,
             << Copy({"install_grafana_hostname"}, <<Pub("standalone_hostname")>>),
                Copy({"grafana_hostname"},
                     <<Var("grafana_hostname"), Pub("standalone_hostname")>>),
                Copy({"grafana_rpm_path", "install_grafana_rpm_path"},
                     <<Pub("standalone_rpm_path")>>),
                Copy({"grafana_rpm_url", "install_grafana_rpm_url"},
                     <<Pub("standalone_rpm_url")>>) >>)
       \o << Put({"operator_channel"}, Text("v5")) >>
       \o If(standalone,
             << Copy({"install_grafana_rhn_org_id"},
                     <<Pub("standalone_rhn_org_id")>>),
                Stash({"install_grafana_rhn_activation_key"},
                      <<"vault_grafana_rhn_activation_key">>,
                      <<Sec("standalone_rhn_activation_key")>>) >>)
       \o << Copy({"grafana_admin_user", "grafana_install_admin_user"},
                  <<Pub("admin_user")>> \o Only(Pub("standalone_admin_user"))
                    \o <<Const("admin")>>),
             Stash({"grafana_admin_password", "grafana_install_admin_password"},
                   <<"vault_grafana_admin_password", "grafana_admin_password">>,
                   <<Sec("admin_password")>> \o Only(Sec("standalone_admin_password"))),
             Default({"grafana_admin_password", "grafana_install_admin_password"},
                     "redhat123",
                     <<Var("grafana_admin_password"),
                       Vlt("vault_grafana_admin_password"),
                       Vlt("grafana_admin_password")>>) >>
       \o If(~standalone, << Drop(StandaloneFields \union StandaloneDerived("grafana")) >>)

Grafana(e, s) == GrafanaContent(e, s) \o GrafanaAccess(e, s)
                 \o GrafanaDatabase(e, s) \o GrafanaInstall(e, s)

\* The packages and the certificate of a GitLab on a host of its own.
GitlabStandalone(e, s) ==
    << Copy({"gitlab_hostname", "install_gitlab_hostname"},
            <<Pub("standalone_hostname")>>),
       Copy({"gitlab_external_url", "install_gitlab_external_url"},
            <<Pub("standalone_external_url")>>),
       Copy({"gitlab_edition", "install_gitlab_edition"}, <<Pub("standalone_edition")>>),
       Copy({"gitlab_rpm_path", "install_gitlab_rpm_path"},
            <<Pub("standalone_rpm_path")>>),
       Copy({"gitlab_rpm_url", "install_gitlab_rpm_url"}, <<Pub("standalone_rpm_url")>>),
       Stash({"gitlab_root_password", "gitlab_install_root_password",
              "root_password"},
             <<"vault_gitlab_root_password", "gitlab_root_password">>,
             <<Sec("standalone_root_password")>>),
       Stash({"gitlab_tls_crt"}, <<"vault_gitlab_tls_crt", "gitlab_tls_crt">>,
             <<Sec("standalone_tls_crt")>>),
       Stash({"gitlab_tls_key"}, <<"vault_gitlab_tls_key", "gitlab_tls_key">>,
             <<Sec("standalone_tls_key")>>),
       Copy({"gitlab_rhn_org_id", "install_gitlab_rhn_org_id"},
            <<Pub("standalone_rhn_org_id")>>),
       Stash({"install_gitlab_rhn_activation_key"},
             <<"vault_gitlab_rhn_activation_key">>,
             <<Sec("standalone_rhn_activation_key")>>) >>

GitlabOpenShift(e, s) ==
    << Stash({"gitlab_root_password", "gitlab_install_root_password",
              "root_password"},
             <<"vault_gitlab_root_password", "gitlab_root_password">>,
             <<Sec("root_password")>>),
       Default({"gitlab_root_password", "gitlab_install_root_password",
                "root_password"}, "redhat123",
               <<Var("gitlab_install_root_password"), Var("gitlab_root_password"),
                 Vlt("vault_gitlab_root_password"), Vlt("gitlab_root_password")>>) >>
    \o Database(e, s, "gitlab_install_",
                Pubs(<<"postgres_storage", "postgres_storage_class">>))
    \o << Stash({"gitlab_install_postgres_password"},
                <<"vault_gitlab_postgres_password">>, <<Sec("postgres_password")>>),
          Drop(StandaloneFields \union StandaloneDerived("gitlab")) >>

Gitlab(e, s) ==
    << HostName({"gitlab_hostname", "gitlab_install_hostname"}),
       Storage("gitlab", <<Pub("storage")>>) >>
    \o IF Chosen(e, "standalone") THEN GitlabStandalone(e, s) ELSE GitlabOpenShift(e, s)

Zabbix(e, s) ==
    << HostName({"zabbix_hostname"}), Storage("zabbix", <<Pub("storage")>>),
       Copy({"zabbix_database_type"}, <<Pub("database_type"), Const("postgres")>>) >>
    \o Database(e, s, "zabbix_",
                Pubs(<<"postgres_storage", "postgres_storage_class", "storage">>)
                  \o <<Var("storage")>>)
    \o << Storage("zabbix", <<Var("zabbix_postgres_storage_class")>>),
          Stash({"zabbix_postgres_password"}, <<"vault_zabbix_postgres_password">>,
                <<Sec("postgres_password")>>) >>
    \o If(RhbkSelected(e),
          << Copy({"zabbix_saml_idp_metadata_url"}, Issuer),
             Copy({"zabbix_saml_sp_entity_id"},
                  <<Pub("hostname"), Var("zabbix_hostname"), Const("zabbix")>>),
             Flag({"zabbix_saml_enabled"},
                  Pubs(<<"saml_enabled", "oidc_enabled">>) \o <<Const("yes")>>) >>)

\* Every secret is looked up among the public fields, where it never is; the
\* GitLab token falls back on the one of the preflight's git section.  Neither
\* branch marks the vault as changed.
DevHub(e, s) ==
    LET gitlab_tokens == <<Sec("gitlab_token"), Oth("git_token")>>
    IN << HostName({"dev_hub_hostname"}),
          Copy({"gitlab_host"}, <<Pub("gitlab_host")>>),
          Copy({"keycloak_hostname", "rhbk_hostname", "ocp_rhbk_hostname"},
               <<Oth("rhbk_hostname"), Oth("keycloak_route")>>),
          Copy({"dev_hub_keycloak_realm"},
               <<Oth("rhbk_realm"), Pub("keycloak_realm"), Const("Lab")>>),
          Copy({"dev_hub_keycloak_client_id"}, <<Pub("keycloak_client_id"), Const("rhdh")>>),
          Copy({"dev_hub_instance_name"}, <<Pub("instance_name"), Const("chad-lab")>>),
          Copy({"dev_hub_catalog_url"}, <<Pub("catalog_url")>>),
          StashQuietly({"dev_hub_oidc_client_secret"},
                       <<"vault_dev_hub_oidc_client_secret">>,
                       <<Pub("oidc_client_secret")>>),
          StashQuietly({"dev_hub_gitlab_token"}, <<"vault_dev_hub_gitlab_token">>,
                       gitlab_tokens) >>

\* The administrator's password and the storage secret have lab defaults that
\* are written whenever the form does not send one.
Quay(e, s) ==
    LET minio == Chosen(e, "minio") \/ Given(e, s, Pub("use_minio"))
        both(n) == {"ocp_quay_" \o n, "quay_" \o n}
    IN << HostName(both("hostname")),
          Copy(both("admin_user"), <<Pub("admin_user"), Const("quayadmin")>>),
          Stash(both("admin_password"),
                <<"vault_ocp_quay_admin_password", "ocp_quay_admin_password",
                  "quay_admin_password">>,
                <<Sec("admin_password"), Const("redhat123")>>),
          Copy(both("image"), <<Pub("image")>>),
          Copy(both("redis_image"), <<Pub("redis_image")>>),
          FlagPresent({"quay_oidc_enabled"}, "oidc_enabled"),
          Each("quay_", {"oidc_client_id", "keycloak_realm"}),
          Copy({"quay_oidc_issuer_url"}, Issuer),
          Put(both("storage_backend"), Text(IF minio THEN "minio" ELSE "local")) >>
       \o If(minio,
             << Copy(both("s3_hostname"),
                     <<Pub("s3_hostname"), Pub("s3_minio_namespace"),
                       Oth("minio_namespace"), Const("minio")>>),
                Copy({"ocp_quay_s3_port"}, <<Pub("s3_port"), Const("9000")>>),
                Flag({"ocp_quay_s3_is_secure"}, <<Pub("s3_is_secure"), Const("no")>>),
                Copy({"ocp_quay_s3_bucket"}, <<Pub("s3_bucket"), Const("quay")>>),
                Copy({"ocp_quay_s3_minio_namespace"},
                     <<Pub("s3_minio_namespace"), Oth("minio_namespace"),
                       Const("minio")>>),
                Copy(both("s3_access_key"),
                     <<Pub("s3_access_key"), Oth("minio_root_user"),
                       Const("minioadmin")>>),
                Stash(both("s3_secret_key"), <<"vault_ocp_quay_s3_secret_key">>,
                      <<Sec("s3_secret_key"), Oth("minio_root_password"),
                        Const("redhat123")>>) >>)

\* When all forms are merged: a Quay on MinIO that has no key yet takes MinIO's
\* root password; `e.form' is MinIO's here.
QuayS3(e, s) ==
    If(/\ At(s.vars, "ocp_quay_storage_backend") = Text("minio")
       /\ ~Given(e, s, Vlt("vault_ocp_quay_s3_secret_key")),
       << Stash({"ocp_quay_s3_secret_key"}, <<"vault_ocp_quay_s3_secret_key">>,
                <<Sec("root_password"), Oth("minio_vault_password")>>) >>)

\* The secrets of MinIO: the root password is looked up where it never is, the
\* client's comes with the oidc block; the vault is not marked for either.
Minio(e, s) ==
    << Copy({"minio_console_hostname", "hostname"},
            Pubs(<<"console_hostname", "hostname">>)),
       Copy({"minio_api_hostname"}, <<Pub("api_hostname")>>),
       Storage("minio", <<Pub("storage")>>),
       Copy({"minio_keycloak_realm"},
            <<Pub("keycloak_realm"), Oth("rhbk_realm"), Var("ocp_rhbk_realm"),
              Const("Lab")>>),
       Copy({"minio_oidc_issuer"}, Issuer),
       FlagPresent({"minio_oidc_enabled"}, "oidc_enabled"),
       Copy({"minio_root_user"}, <<Pub("root_user")>>),
       StashQuietly({"minio_root_password"}, <<"vault_minio_root_password">>,
                    <<Pub("root_password")>>),
       StashQuietly({"minio_oidc_client_secret"}, <<"vault_minio_oidc_client_secret">>,
                    Pubs(<<"oidc_client_secret", "oidc.client_secret">>)) >>

\* Applications behind a Keycloak client: its issuer, id, switch and secret.
OidcClient(c) ==
    << Copy({c \o "_oidc_issuer", "oidc_issuer"}, Issuer),
       Each(c \o "_", {"oidc_client_id"}),
       FlagPresent({c \o "_oidc_enabled"}, "oidc_enabled"),
       Stash({c \o "_oidc_client_secret"}, <<"vault_" \o c \o "_oidc_client_secret">>,
             <<Sec("oidc_client_secret")>>) >>

Bookstack(e, s) ==
    << Copy({"bookstack_route_host", "hostname"}, Pubs(<<"route_host", "hostname">>)) >>
    \o OidcClient("bookstack")

Netbox(e, s) ==
    << Copy({"netbox_namespace", "netbox_oidc_namespace"}, <<Pub("namespace")>>),
       HostName({}) >>
    \o OidcClient("netbox")
=============================================================================
