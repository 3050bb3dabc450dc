---------------------------- MODULE MCResources ----------------------------
EXTENDS Resources, Targets, Tasks, Identity, SupportingResources, SecInfo, ScanConfigs,
        Credentials, ScanSupport

AllKinds ==
    [targets |-> TargetKind, oci_image_targets |-> OciImageTargetKind,
     web_application_targets |-> WebApplicationTargetKind,
     tasks |-> TaskKind, import_tasks |-> TaskOfType("import"),
     agent_group_tasks |-> TaskOfType("agentGroupId"),
     oci_image_tasks |-> TaskOfType("ociImageTargetId"),
     web_application_tasks |-> TaskOfType("webApplicationTargetId"), audits |-> AuditKind,
     users |-> UserKind, groups |-> GroupKind, roles |-> RoleKind,
     permissions |-> PermissionKind, user_settings |-> UserSettingKind,
     assets |-> GenericAssetKind, hosts |-> HostKind, operating_systems |-> OperatingSystemKind,
     tls_certificates |-> TlsCertificateKind, report_formats |-> ReportFormatKind,
     tickets |-> TicketKind, filters |-> FilterKind, tags |-> TagKind, notes |-> NoteKind,
     overrides |-> OverrideKind, nvts |-> NvtKind, nvt_families |-> NvtFamilyKind,
     vulnerabilities |-> VulnerabilityKind, cves |-> CveKind, cpes |-> CpeKind,
     cert_bund_advisories |-> CertBundAdvisoryKind,
     dfn_cert_advisories |-> DfnCertAdvisoryKind, configs |-> GenericConfigKind,
     scan_configs |-> ScanConfigKind, scan_config_nvts |-> ScanConfigNvtKind,
     scan_config_preferences |-> ScanConfigPreferenceKind, policies |-> PolicyKind,
     credentials |-> CredentialKind, store_credentials |-> StoreCredentialKind,
     credential_stores |-> CredentialStoreKind, alerts |-> AlertKind, schedules |-> ScheduleKind,
     port_lists |-> PortListKind, scanners |-> ScannerKind, results |-> ResultKind]

============================================================================
