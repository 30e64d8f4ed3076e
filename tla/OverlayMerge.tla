---------------------------- MODULE OverlayMerge ----------------------------
(***************************************************************************)
(* merge_component of overlay_preflight_component_values.py: the two       *)
(* halves every component goes through, around its own rules.  The first   *)
(* half is run when the form has public fields, the second when secret     *)
(* fields are left.                                                        *)
(***************************************************************************)
EXTENDS OverlayOpenShift

AwsConsumers == {"ec2_ami_copy", "ec2_instance", "s3_bucket_policy"}
SharesAwsVault == AwsConsumers \union {"aws", "cert_manager"}

RulesOf(c, e, s) ==
    CASE c = "pega" -> Pega(e, s)
      [] c = "grafana" -> Grafana(e, s)
      [] c = "gitlab" -> Gitlab(e, s)
      [] c = "zabbix" -> Zabbix(e, s)
      [] c = "dev_hub" -> DevHub(e, s)
      [] c = "quay" -> Quay(e, s)
      [] c = "minio" -> Minio(e, s)
      [] c = "bookstack" -> Bookstack(e, s)
      [] c = "netbox" -> Netbox(e, s)
      [] c = "rhbk" -> Rhbk(e, s)
      [] c = "aap" -> Aap(e, s)
      [] c = "acm" -> Acm(e, s)
      [] c = "devspaces" -> Devspaces(e, s)
      [] c = "acs" -> Acs(e, s)
      [] c = "mtv" -> Mtv(e, s)
      [] c = "openshift_virt" -> OpenshiftVirt(e, s)
      [] c = "ec2_ami_copy" -> Ec2AmiCopy(e, s)
      [] c = "ec2_instance" -> Ec2Instance(e, s)
      [] c = "s3_bucket_policy" -> S3BucketPolicy(e, s)
      [] c = "ocp_virtualization" -> OcpVirtualization(e, s)
      [] c = "aws" -> Aws(e, s)
      [] c = "satellite" -> Satellite(e, s)
      [] c = "cert_manager" -> CertManager(e, s)
      [] c = "kafka" -> Kafka(e, s)
      [] c = "eck" -> Eck(e, s)
      [] c = "idm" -> IdmServer(e, s)
      [] c = "stig" -> Stig(e, s)
      [] OTHER -> <<>>

(***************************************************************************)
(* Fields that never pass into the vars under their own names, and those   *)
(* of them an earlier run may have left there.                             *)
(***************************************************************************)
AapFields ==
    {"deployment_version", "namespace", "create_namespace", "operator_channel",
     "operator_scope", "instance_name", "minimal_footprint", "admin_username",
     "install_controller", "install_hub", "install_eda", "install_lightspeed",
     "license_mode", "subscription_manifest_file", "rhn_username", "rhn_client_id",
     "install_target", "standalone_hostname", "aap_setup_containerized",
     "aap_setup_down_type", "aap_setup_bundle_dir", "aap_setup_bundle_file",
     "aap_setup_ssh_user", "aap_setup_ssh_private_key"}

LeftBehind(c, e) ==
    IF c = "aap" THEN AapFields
    ELSE IF c = "satellite" THEN SatelliteRaw
    ELSE IF c \in {"rhbk", "grafana", "gitlab"} /\ ~Chosen(e, "standalone")
         THEN StandaloneFields
    ELSE {}

HeldBack(c, e) ==
    LeftBehind(c, e)
    \union CASE c = "satellite" -> CapsuleFields
             [] c = "ec2_ami_copy" ->
                  {"source_region", "dest_region", "source_image_id", "name",
                   "description", "kms_key_id", "wait", "wait_timeout", "encrypted",
                   "copy_image_tags", "tag_equality", "tags"}
             [] c = "ec2_instance" ->
                  {"name", "image_id", "instance_type", "subnet_id", "key_name",
                   "security_group", "security_groups", "tags", "assign_public_ip",
                   "volumes", "region", "wait", "wait_timeout", "instance_ids",
                   "state", "filters", "include_attributes"}
             [] c = "s3_bucket_policy" ->
                  {"name", "region", "aws_account_id", "reader_role_name",
                   "policy_file", "endpoint_url"}
             [] c = "aws" -> {"profile", "default_region", "access_key_id",
                              "awspca_access_key_id"}
             [] OTHER -> {}

\* What passes through; a blank storage class is not a choice.
Passed(c, e) ==
    LET blank == IF At(Public(e), "storage") = Text(Blank) THEN {"storage"} ELSE {}
    IN Without(Public(e), HeldBack(c, e) \union blank)

\* The two files as they are read, and the first half.
Entered(c, e, vars, vault) ==
    [vars |-> Without(vars, LeftBehind(c, e)),
     vault |-> IF c = "satellite" THEN Without(vault, SatelliteRaw) ELSE vault,
     dirty |-> FALSE, used |-> {}]

MergedVars(c, e, s) ==
    LET s0 == [s EXCEPT !.vars = Passed(c, e) ++ @]
    IN RunRules(e, s0, RulesOf(c, e, s0))

(***************************************************************************)
(* The second half: every secret under its own name, and again under the   *)
(* names the roles of the component read.                                  *)
(***************************************************************************)
LeftSecrets(e, s) == Without(Secret(e), s.used)

SecretNames(c, e) ==
    LET idm_admin == <<"vault_idm_admin_password", "ipaadmin_password",
                       "idm_server_ipaadmin_password",
                       "idm_configure_replica_admin_password",
                       "idm_ad_trust_ipa_admin_password">>
    IN CASE c = "aap" ->
              << Keep(<<"aap_admin_password", "vault_controller_password">>,
                      "admin_password"),
                 DropVault({"admin_password"}) >>
         [] c = "satellite" ->
              << Keep(<<"vault_satellite_service_account_password",
                        "satellite_config_password">>, "service_account_password"),
                 Keep(<<"vault_satellite_admin_password",
                        "satellite_config_admin_password",
                        "satellite_install_admin_password">>, "admin_password") >>
         [] c = "idm" ->
              << Keep(idm_admin, "admin_password"),
                 Keep(<<"vault_idm_directory_manager_password",
                        "idm_configure_replica_dm_password">>,
                      "directory_manager_password"),
                 Keep(<<"vault_ad_trust_admin_password",
                        "idm_ad_trust_ad_admin_password">>, "ad_admin_password") >>
         [] OTHER -> <<>>

\* Satellite once more: an API password is needed even where only the
\* administrator's was typed, and here the registration keys are found.
SatelliteSecrets(e, s) ==
    LET service == <<Vlt("vault_satellite_service_account_password"),
                     Sec("service_account_password")>>
        admin == <<Vlt("vault_satellite_admin_password"), Sec("admin_password")>>
        org == <<Pub("rhn_org_id")>>
        key == <<Sec("rhn_activation_key")>>
        known == Given(e, s, org[1]) \/ Given(e, s, key[1])
        both(n) == <<"vault_satellite_" \o n, "satellite_install_" \o n>>
    IN If(FirstPresent(e, s, service) = None,
          << StashOnly(<<"vault_satellite_service_account_password",
                         "satellite_config_password">>, admin) >>)
       \o << Stash({"satellite_install_rhn_org_id"}, both("rhn_org_id"), org),
             Stash({"satellite_install_rhn_activation_key"},
                   both("rhn_activation_key"), key) >>
       \o If(known, << Put({"satellite_install_rhn_connected"}, Yes) >>)
       \o << Copy({"satellite_activation_key", "rhel_sat_reg_activation_key_name"},
                  <<Sec("activation_key")>>) >>

NamedSecrets(c, e, s) ==
    RunRules(e, [s EXCEPT !.vault = LeftSecrets(e, s) ++ @], SecretNames(c, e))
AndSatellite(c, e, s) ==
    IF c = "satellite" THEN RunRules(e, s, SatelliteSecrets(e, s)) ELSE s
MergedSecrets(c, e, s) == AndSatellite(c, e, NamedSecrets(c, e, s))

\* merge_shared_aws_vault: an empty session token is taken, an empty key is not.
SharedAws(e, s) ==
    RunRules(e, s,
      << StashOnly(<<"vault_aws_access_key_id">>,
                   Pubs(<<"access_key_id", "awspca_access_key_id">>)),
         StashOnly(<<"vault_aws_secret_access_key">>,
                   Secs(<<"secret_access_key", "awspca_secret_access_key">>)),
         Keep(<<"vault_aws_session_token">>, "session_token") >>)

(***************************************************************************)
(* Host names.  A routed component takes its host from the apps domain     *)
(* unless its form says the host was typed, or holds another one.          *)
(***************************************************************************)
Routed == {"aap", "grafana", "zabbix", "rhbk", "gitlab", "bookstack", "netbox", "quay",
           "minio", "devspaces", "eck", "kafka", "acs"}

AppsDomain(current, domain) ==
    IF current # Blank THEN current ELSE IF domain # Blank THEN "apps." \o domain ELSE Blank

DerivedHosts(c, apps) ==
    [f \in {"hostname"}
           \union IF c = "bookstack" THEN {"route_host"}
                  ELSE IF c = "minio" THEN {"console_hostname", "api_hostname"}
                  ELSE {} |->
       IF f \in {"hostname", "route_host"} THEN c \o "." \o apps ELSE f \o "." \o apps]

HostTyped(c, form, apps) ==
    \/ "hostname_manual" \in DOMAIN form /\ form["hostname_manual"] = "yes"
    \/ \E f \in DOMAIN DerivedHosts(c, apps) \intersect DOMAIN form :
         form[f] \notin {Blank, DerivedHosts(c, apps)[f]}

WithHosts(c, form, apps) ==
    IF apps = Blank \/ c \notin Routed \/ HostTyped(c, form, apps) THEN form
    ELSE DerivedHosts(c, apps) ++ form
=============================================================================
