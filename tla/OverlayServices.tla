-------------------------- MODULE OverlayServices ---------------------------
(***************************************************************************)
(* merge_component of overlay_preflight_component_values.py for the        *)
(* cluster services, the AWS tasks and the identity servers.               *)
(***************************************************************************)
EXTENDS OverlayPlatforms

\* Channels the catalogues no longer serve fall back to the current one.
Channel(e, s, from, dead, current) ==
    Copy({"operator_channel"},
         IF FirstPresent(e, s, from) \in dead THEN <<Const(current)>>
                                              ELSE from \o <<Const(current)>>)

AcmPolicies(e, s) ==
    LET observed == Says(e, "observability_enabled", FALSE)
    IN << EachPresent("ocp_acm_",
              {"policy_enabled", "policy_name", "policy_namespace",
               "policy_target_namespace", "policy_label_key", "policy_label_value",
               "policy_cluster_set", "policy_selector_key",
               "policy_selector_value", "policy_remediation"}),
          Put({"ocp_acm_observability_enabled"}, IF observed THEN Yes ELSE No),
          Flag({"ocp_acm_policy_enabled"},
               <<Var("ocp_acm_policy_enabled"), Const("no")>>) >>
       \o If(observed,
             << Copy({"ocp_acm_observability_storage_class"},
                     Pubs(<<"observability_storage_class", "storage">>)
                       \o <<Var("storage_class")>>),
                Each("ocp_acm_", {"observability_s3_bucket",
                                  "observability_s3_endpoint"}),
                FlagPresent({"ocp_acm_observability_s3_insecure"},
                            "observability_s3_insecure"),
                StashOnly(<<"ocp_acm_observability_s3_access_key">>,
                          <<Pub("observability_s3_access_key")>>),
                Consume(<<"ocp_acm_observability_s3_secret_key">>,
                        "observability_s3_secret_key") >>)

AcmOperator(e, s) ==
    << Copy({"name_space"}, <<Pub("namespace")>>),
       Channel(e, s, <<Pub("channel"), Var("operator_channel")>>,
               {Text("release-2.14"), Text("release-2.13"), Text("release-2.12"),
                Text("release-2.11")}, "release-2.17"),
       Copy({"storage_class"}, <<Pub("storage")>>) >>

Acm(e, s) == AcmPolicies(e, s) \o AcmOperator(e, s)

\* The sample of the dashboard: one made from the form, or the list it sends.
Devspaces(e, s) ==
    LET custom == Says(e, "custom_sample_enabled", FALSE)
        plain == {"disable_default_samples", "customize_workspace",
                  "default_devfile_url", "default_workspace_image",
                  "dashboard_image"}
    IN << EachPresent("ocp_devspaces_",
              {"delivery_mode", "gitops_repo_url", "gitops_revision",
               "gitops_path", "gitops_namespace", "gitops_project",
               "gitops_destination"}) >>
       \o If("gitops_path" \in DOMAIN e.form /\ e.form["gitops_path"] = Blank,
             << Drop({"ocp_devspaces_gitops_path"}) >>)
       \o << Each(Blank, plain \union {"hostname", "storage", "che_image_tag"}),
             Copy({"app_namespace"}, <<Pub("namespace")>>),
             HostName({"ocp_devspaces_hostname"}), Each("ocp_devspaces_", plain),
             Flag({"ocp_devspaces_status_exporter_enabled", "status_exporter_enabled"},
                  <<Pub("status_exporter_enabled"), Const("no")>>),
             Put({"ocp_devspaces_custom_sample_enabled"},
                 IF custom THEN Yes ELSE No) >>
       \o IF custom
          THEN << Put({"ocp_devspaces_custom_sample_icon_source"},
                      Text(IF /\ PubText(e, "custom_sample_icon_source") = "upload"
                              /\ PubText(e, "custom_sample_icon_base64") # Blank
                           THEN "upload" ELSE "bundled")),
                  Copy({"ocp_devspaces_custom_samples"},
                       Pubs(<<"custom_sample_url", "default_devfile_url">>)
                         \o <<Const("empty_sample")>>) >>
          ELSE << Copy({"ocp_devspaces_custom_samples"}, <<Pub("custom_samples")>>) >>

\* The route of Central follows the cluster's domain whatever the form says.
Acs(e, s) ==
    << EachPresent("acs_", {"policies_source_type", "policies_source",
                            "reports_source_type", "reports_source"}),
       Copy({"acs_namespace", "ocp_acs_namespace"}, <<Pub("namespace")>>),
       Copy({"storage", "ocp_acs_storage_class"}, <<Pub("storage")>>),
       Copy({"ocp_acs_hostname"}, <<Oth("central_route"), Pub("hostname")>>) >>

Mtv(e, s) ==
    << Copy({"operator_channel"}, <<Pub("channel"), Var("operator_channel")>>),
       Copy({"name_space"}, <<Pub("namespace")>>) >>

\* The token leaves the form once it is stored; the cluster's stands in for it.
OpenshiftVirt(e, s) ==
    << Flag({"provision_openshift_virt_skip_tls_verify"},
            <<Pub("skip_tls_verify"), Oth("openshift_skip_tls_verify"), Const("yes")>>),
       Flag({"skip_tls_verify"}, <<Oth("openshift_skip_tls_verify"), Const("yes")>>),
       Copy({"provision_openshift_virt_api_host"},
            <<Pub("api_host"), Oth("openshift_api_host")>>),
       StashOnly(<<"provision_openshift_virt_api_token">>,
                 <<Sec("api_token"), Oth("openshift_token")>>),
       Consume(<<"provision_openshift_virt_api_token">>, "api_token"),
       EachPresent("provision_openshift_virt_",
                   {"prefix_length", "gateway", "dns_servers"}),
       CopyPresent({"openshift_virt_ip_range"}, "ip_range"),
       Put({"provision_openshift_virt_static_ip"}, Text(Blank)),
       Copy({"openshift_virt_network_defaults"},
            <<Var("openshift_virt_ip_range"), Const("no_range")>>) >>

Ec2AmiCopy(e, s) ==
    << EachPresent("ec2_ami_copy_",
           {"source_region", "dest_region", "source_image_id", "name",
            "description", "kms_key_id", "wait", "encrypted", "copy_image_tags",
            "tag_equality", "wait_timeout", "tags"}) >>

Ec2Instance(e, s) ==
    << EachPresent("ec2_instance_",
           {"name", "image_id", "subnet_id", "key_name", "security_group", "region",
            "state", "security_groups", "volumes", "include_attributes", "tags",
            "filters", "assign_public_ip", "wait", "wait_timeout"}),
       CopyPresent({"ec2_instance_type"}, "instance_type"),
       CopyPresent({"ec2_instance_ids"}, "instance_ids") >>

S3BucketPolicy(e, s) ==
    << EachPresent("s3_bucket_", {"name", "region", "aws_account_id",
                                  "reader_role_name", "policy_file",
                                  "endpoint_url"}) >>

\* ACM's release channels are never taken for virtualization.
OcpVirtualization(e, s) ==
    << Channel(e, s, Pubs(<<"operator_channel", "channel">>),
               {Text("release-2.14"), Text("release-2.17")}, "stable"),
       Copy({"name_space", "operator_subscription_namespace"},
            <<Pub("namespace"), Const("openshift-cnv")>>),
       Copy({"operatorgroup"},
            <<Pub("operatorgroup"), Const("kubevirt-hyperconverged-group")>>),
       Copy({"operator_name"},
            <<Pub("operator_name"), Const("kubevirt-hyperconverged")>>),
       Copy({"operator_source"}, <<Pub("operator_source"), Const("redhat-operators")>>),
       FlagPresent({"ocp_virtualization_install_enable_kube_secondary_dns"},
                   "enable_kube_secondary_dns") >>

Aws(e, s) == << EachPresent("aws_", {"profile", "default_region"}) >>

(***************************************************************************)
(* cert_manager.  An uploaded CA becomes a file of the repository; the     *)
(* upload itself never stays in the vars.  A PEM is named by its file; of  *)
(* the files a form may name without uploading, none is in the repository. *)
(***************************************************************************)
CertManager(e, s) ==
    << Copy({"ocp_cert_manager_mode"}, <<Pub("mode")>>),
       Copy({"idm_acme_directory_url"}, <<Pub("idm_acme_directory_url")>>) >>
    \o (IF Given(e, s, Pub("idm_ca_bundle_content_base64"))
       THEN << Put({"idm_ca_bundle_file", "idm_ca_bundle_pem"},
                   Text("idm-root-ca.crt")) >>
       ELSE << Copy({"idm_ca_bundle_file"}, <<Pub("idm_ca_bundle_file")>>) >>)
    \o << Each("ocp_", {"awspca_namespace", "awspca_secret_name",
                        "awspca_issuer_name", "awspca_region", "awspca_pca_arn"}),
          Drop({"idm_ca_bundle_content_base64", "idm_ca_bundle_filename"}) >>

Kafka(e, s) ==
    << Channel(e, s, <<Pub("operator_channel"), Var("operator_channel")>>,
               {Text("2.11")}, "3.3"),
       Put({"kafka_install_external_tls"}, No),
       Put({"kafka_install_use_ingress_cert"}, Yes) >>

Eck(e, s) ==
    << Put({"operator_starting_csv"}, Text(Blank)),
       Copy({"operator_channel"}, <<Var("operator_channel"), Const("stable")>>) >>

\* An identity server has no storage class, whatever the form or an earlier run
\* said; its realm is the one given or that of its domain.
IdmServer(e, s) ==
    LET realm == <<Pub("realm"), Pub("domain")>>
    IN << Drop({"storage"}),
          Copy({"idm_hostname", "idm_server_name", "idm_configure_replica_server",
                "ipaclient_servers"}, <<Pub("hostname")>>),
          Copy({"idm_domain", "idm_configure_replica_domain", "ipaclient_domain"},
               <<Pub("domain")>>),
          Copy({"idm_realm", "ipaclient_realm"}, realm),
          Copy({"idm_configure_replica_realm"}, <<Pub("realm")>>),
          Copy({"idm_replica_hostname", "idm_configure_replica_hostname"},
               <<Pub("replica_hostname")>>),
          CopyPresent({"idm_replica_install_dns", "idm_configure_replica_setup_dns"},
                      "replica_install_dns"),
          CopyPresent({"idm_replica_install_ca", "idm_configure_replica_setup_ca"},
                      "replica_install_ca"),
          CopyPresent({"idm_auto_forwarders",
                       "idm_configure_replica_auto_forwarders"}, "auto_forwarders"),
          Each("idm_", {"custom_cert_file", "custom_cert_key_file",
                        "custom_cert_chain_file"}),
          Copy({"idm_ad_trust_ad_domain", "idm_ad_trust_ad_realm"},
               <<Pub("ad_domain")>>),
          Each("idm_ad_trust_", {"ad_dc_hostname", "ad_dc_ip", "ad_admin"}),
          CopyPresent({"idm_ad_trust_two_way"}, "ad_two_way"),
          CopyPresent({"idm_ad_trust_configure_groups"}, "ad_configure_groups"),
          Copy({"idm_ad_trust_map_ad_group"}, <<Pub("ad_map_group")>>),
          Copy({"idm_ad_trust_map_ad_admins_group"}, <<Pub("ad_map_admins_group")>>) >>

\* The scan's own fields win over those of the host it scans.
Stig(e, s) ==
    << Copy({"compliance_profile"}, <<Oth("rhel_compliance_profile")>>),
       Copy({"stig_profile", "rhel_stig_profile"},
            <<Pub("profile"), Oth("rhel_stig_profile")>>),
       Copy({"stig_engine"}, <<Pub("stig_engine"), Oth("rhel_stig_engine")>>),
       Copy({"rhel_stig_cac_remediate"},
            <<Pub("remediate"), Oth("rhel_stig_cac_remediate")>>) >>
=============================================================================
