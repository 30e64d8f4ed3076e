-------------------------- MODULE OverlaySatellite --------------------------
(***************************************************************************)
(* merge_component of overlay_preflight_component_values.py for Red Hat    *)
(* Satellite and, when its option is chosen, the Capsule beside it.  A     *)
(* field the code reads under several spellings has the one it tries last  *)
(* among those the forms use; a part of the oidc block is oidc_<part>.     *)
(***************************************************************************)
EXTENDS OverlayServices

\* Names an earlier run left in the files, dropped from both before anything
\* else, so that what the rules below set comes from this form.
SatelliteRaw ==
    {"activation_key", "rhn_org_id", "rhn_connected", "manifest_file",
     "manifest_path", "manifest_organization", "manifest_encoding", "data_device",
     "data_device_name", "data_disk_min_size", "size", "req_dirs", "vg_name",
     "oidc", "oidc_client_id", "oidc_realm", "oidc_issuer", "keycloak_url",
     "keycloak_admin_user", "loadbalancer_fqdn", "satellite_haproxy",
     "lifecycle_environments"}
    \union {"satellite_install_" \o n :
              n \in {"rhn_activation_key", "rhn_org_id", "rhn_connected", "size",
                     "size_profile", "min_memory_size", "min_cpu_count", "vg_name", "req_dirs",
                     "data_device", "data_device_name", "data_disk_min_size"}}
    \union {"satellite_config_" \o n :
              n \in {"manifest_file", "manifest_src", "manifest_path",
                     "upload_manifest", "rhn_connected"}}

\* The variables of a Capsule.  Its fields have these names, or shorter ones.
CapsuleInstallVars ==
    {"capsule_hostname", "capsule_install_satellite_fqdn"}
    \union {"capsule_install_" \o n :
              n \in {"deployment_version", "location", "org_id", "activation_key",
                     "admin_password", "data_disk_min_size", "pulp_size",
                     "pgsql_size", "data_device", "data_device_name", "vg_name",
                     "req_dirs", "lifecycle_environments", "sync_wait_time",
                     "setup_insights", "satellite_haproxy", "loadbalancer_fqdn",
                     "loadbalancer_activation_key"}}

\* The API user is the service account, else the administrator whose password
\* the form sends.
SatelliteServer(e, s) ==
    LET api_user == <<Pub("service_account_username")>>
                    \o If(Given(e, s, Sec("admin_password")), <<Const("admin")>>)
        organization == {"satellite_config_organization",
                         "rhel_sat_reg_satellite_org_name"}
    IN << Copy({"satellite_config_server_url", "rhel_sat_reg_satellite_host"},
               <<Pub("hostname")>>),
          Copy(organization, <<Pub("organization")>>),
          Copy({"satellite_config_username", "satellite_service_account_username",
                "rhel_sat_reg_org_admin_account"}, api_user),
          StashOnly(<<"vault_satellite_service_account_username">>, api_user),
          CopyPresent({"satellite_config_validate_certs",
                       "rhel_sat_reg_validate_certs"}, "validate_certs"),
          Copy({"satellite_config_satellite_deployment_version",
                "satellite_install_deployment_version"},
               <<Pub("deployment_version")>>),
          Copy({"satellite_install_location"}, <<Pub("location")>>),
          Flag({"satellite_config_rhn_connected"},
               <<Pub("rhn_connected"), Const("yes")>>),
          Copy(organization, Pubs(<<"manifest_organization", "organization">>)) >>

\* An uploaded manifest becomes a file of the repository and is never stored; a
\* named one is used as it lies.
SatelliteManifest(e, s) ==
    LET uploaded == Given(e, s, Sec("manifest_content"))
        named == Given(e, s, Pub("manifest_file"))
        lies == Given(e, s, Pub("manifest_path"))
        file == Pubs(<<"manifest_file", "manifest_path">>)
                \o <<Const("satellite-manifest.zip")>>
    IN If(uploaded \/ named \/ lies,
          << Copy({"satellite_config_manifest_file", "satellite_config_manifest_path"},
                  file),
             Copy({"satellite_config_manifest_src"},
                  IF uploaded THEN file ELSE <<Pub("manifest_path")>> \o file),
             Put({"satellite_config_upload_manifest"}, Yes) >>)
       \o << Consume(<<>>, "manifest_content") >>

\* A named size is looked up among the sizes the form lists.  The keys of the
\* last two rules are secret, so this half of the form never has them.
SatelliteSizing(e, s) ==
    LET install(n) == {"satellite_install_" \o n}
        part(n) == Copy(install(n), <<Pub(n)>>)
        registered == Put(install("rhn_connected"), Yes)
    IN << part("vg_name"), part("data_disk_min_size"), part("data_device_name"),
          part("data_device"),
          Stash(install("rhn_org_id"),
                <<"vault_satellite_rhn_org_id", "satellite_install_rhn_org_id">>,
                <<Pub("rhn_org_id")>>) >>
       \o If(Given(e, s, Pub("rhn_org_id")), << registered >>)
       \o << part("req_dirs"), part("size"), part("size_profile") >>
       \o If(Given(e, s, Pub("size")) /\ Given(e, s, Pub("size_profile")),
             << Copy({"satellite_install_min_memory_size",
                      "satellite_install_min_cpu_count"}, <<Pub("size_profile")>>) >>)
       \o << Stash(install("rhn_activation_key"),
                   <<"vault_satellite_rhn_activation_key",
                     "satellite_install_rhn_activation_key">>,
                   <<Pub("rhn_activation_key")>>),
             Copy({"satellite_activation_key", "rhel_sat_reg_activation_key_name"},
                  <<Pub("activation_key")>>) >>

SatelliteOidc(e, s) ==
    << Copy({"satellite_oidc_client_id", "rhbk_client"},
            <<Pub("oidc_client_id"), Const("ado-satellite")>>),
       Copy({"satellite_oidc_realm", "rhbk_realm"}, <<Pub("oidc_realm"), Const("rhlab")>>),
       Copy({"satellite_oidc_keycloak_url", "satellite_oidc_keycloak_hostname",
             "rhbk_hostname"}, <<Pub("keycloak_url")>>),
       Copy({"satellite_oidc_issuer"}, Pubs(<<"oidc_issuer", "keycloak_url">>)),
       Flag({"satellite_oidc_create_client"}, <<Pub("oidc_create_client"), Const("yes")>>),
       Flag({"satellite_oidc_keycloak_validate_certs", "rhbk_verify_ssl"},
            <<Pub("oidc_validate_certs"), Const("no")>>),
       Copy({"satellite_oidc_server_url"}, <<Var("satellite_config_server_url")>>),
       Copy({"satellite_oidc_validate_certs"},
            <<Var("satellite_config_validate_certs"), Const("no")>>),
       Stash({"satellite_oidc_admin_user", "rhbk_admin_user"},
             <<"vault_rhbk_admin_user">>, <<Pub("keycloak_admin_user"), Const("admin")>>),
       Stash({"satellite_oidc_admin_password", "rhbk_admin_password"},
             <<"vault_rhbk_admin_password">>, <<Sec("keycloak_admin_password")>>),
       Stash({"satellite_oidc_client_secret"}, <<"vault_satellite_oidc_client_secret">>,
             <<Sec("oidc_client_secret")>>) >>

CapsuleFields ==
    CapsuleInstallVars
    \union {"capsule_" \o n :
              n \in {"location", "org_id", "vg_name", "data_device",
                     "data_device_name", "data_disk_min_size", "pulp_size",
                     "pgsql_size"}}

CapsuleOff == << Drop(CapsuleInstallVars),
                 DropVault(CapsuleInstallVars
                           \union {"vault_capsule_activation_key",
                                   "vault_capsule_loadbalancer_activation_key"}) >>

Capsule(e, s) ==
    LET install(n) == {"capsule_install_" \o n}
        part(n) == Copy(install(n), <<Pub("capsule_" \o n)>>)
        own(n) == Copy(install(n), <<Pub("capsule_install_" \o n)>>)
        plain(n) == Copy(install(n), <<Pub(n)>>)
    IN << Copy({"capsule_hostname"}, <<Pub("capsule_hostname")>>),
          own("deployment_version"),
          Copy(install("location"), Pubs(<<"capsule_location", "location">>)),
          Copy(install("org_id"), Pubs(<<"capsule_org_id", "organization">>)),
          own("satellite_fqdn"),
          Stash(install("activation_key"), <<"vault_capsule_activation_key">>,
                <<Sec("capsule_activation_key")>>),
          Stash(install("loadbalancer_activation_key"),
                <<"vault_capsule_loadbalancer_activation_key">>,
                <<Sec("loadbalancer_activation_key")>>),
          part("vg_name"), part("pulp_size"), part("pgsql_size"),
          part("data_disk_min_size"), part("data_device_name"), part("data_device"),
          own("req_dirs"), plain("lifecycle_environments"),
          own("sync_wait_time"), own("setup_insights"),
          FlagPresent(install("satellite_haproxy"), "satellite_haproxy"),
          plain("loadbalancer_fqdn") >>

Satellite(e, s) ==
    SatelliteServer(e, s) \o SatelliteManifest(e, s) \o SatelliteSizing(e, s)
    \o SatelliteOidc(e, s)
    \o (IF Chosen(e, "satellite_capsule_install") THEN Capsule(e, s) ELSE CapsuleOff)
    \o << Drop({"oidc", "storage"}) >>
=============================================================================
