------------------------------ MODULE SecInfo ------------------------------
(***************************************************************************)
(* The security information gvmd is fed with: NVTs and their families,     *)
(* vulnerabilities, CVEs, CPEs and the advisories of two CERTs.  All of it *)
(* is only read, and found by its own name: the path need not be a UUID.   *)
(***************************************************************************)
EXTENDS Fields

LOCAL ByName == [list |-> "list_resource", get |-> "get_by_name"]
LOCAL Reads == Only(CrudUseCases, {"list", "get"})
LOCAL GetByName == Only(CrudCommands, {"get"})

----------------------------------------------------------------------------
(* NVTs. *)

NvtListQuery ==
    [Dto(Each({"configId", "preferencesConfigId", "sortOrder", "includePreferences",
               "includePreferenceCount", "includeTimeout"}, Checked)
         @@ Each({"family", "sortField"}, NonBlank))
     EXCEPT !.needs = {<<"includeTimeout", "configId">>}]

NvtQuery == DOMAIN NvtListQuery.fields

nvt_opts ==
    Each({"configId", "preferencesConfigId", "sortOrder"}, Parsed)
    @@ Each({"includePreferences", "includePreferenceCount", "includeTimeout", "family",
             "sortField"}, Kept)

NvtResponse == {"oid", "name", "family", "cvssBase", "severity", "tags", "solutionType"}

\* Both paths are served without a helper of handler.rs.
list_nvts_handler == "list_resource"

get_nvt_handler == "get_by_name"

NvtHandlers == [list |-> list_nvts_handler, get |-> get_nvt_handler]

list_nvts_usecase == "list"

get_nvt_usecase == "read"

NvtUseCases == [list |-> list_nvts_usecase, get |-> get_nvt_usecase]

Nvt == {"oid", "name", "family", "cvssBase", "severity", "tags", "solutionType"}

\* Rows are sorted by OID, those of the page and, when the page has to be cut
\* out here, those of the whole list before it is cut.
list_nvts == <<"filter", "listSortedOrAllIfIgnored">>

NvtCommands == [list |-> list_nvts] @@ GetByName

nvt_from_gmp == {"oid", "name", "family", "cvssBase", "severity", "tags", "solutionType"}

NvtKind ==
    Queried(ReadKind(NvtHandlers, NvtUseCases, NvtCommands, nvt_from_gmp \cap Nvt \cap NvtResponse),
            [list |-> Layers(NvtListQuery, NvtQuery, nvt_opts)])

\* The families are listed as a whole, sorted and cut; a filter is refused.
PaginationOnlyQuery == Dto([filter |-> Never, filterId |-> Never])

NvtFamilyResponse == {"name", "maxNvtCount"}

NvtFamilyHandlers == Only(ByName, {"list"})

NvtFamilyUseCases == Only(Reads, {"list"})

NvtFamily == {"name", "maxNvtCount"}

list_nvt_families == <<"listAll">>

nvt_family_from_gmp == {"name", "maxNvtCount"}

NvtFamilyKind ==
    Queried(ReadKind(NvtFamilyHandlers, NvtFamilyUseCases, [list |-> list_nvt_families],
                     nvt_family_from_gmp \cap NvtFamily \cap NvtFamilyResponse),
            [list |-> Layers(PaginationOnlyQuery, {}, <<>>)])

----------------------------------------------------------------------------
(* Vulnerabilities, CVEs, CPEs and advisories. *)

VulnerabilityResponse == {"id", "name"}

VulnerabilityHandlers == Only(ByName, {"list"})

VulnerabilityUseCases == Only(Reads, {"list"})

Vulnerability == {"id", "name"}

list_vulnerabilities == <<"filter", "list">>

vulnerability_from_gmp == {"id", "name"}

VulnerabilityKind ==
    ReadKind(VulnerabilityHandlers, VulnerabilityUseCases, [list |-> list_vulnerabilities],
             vulnerability_from_gmp \cap Vulnerability \cap VulnerabilityResponse)

CveResponse == {"id", "name"}

CveHandlers == ByName

CveUseCases == Reads

Cve == {"id", "name"}

list_cves == <<"filter", "list">>

CveCommands == [list |-> list_cves] @@ GetByName

cve_from_gmp == {"id", "name"}

CveKind == ReadKind(CveHandlers, CveUseCases, CveCommands, cve_from_gmp \cap Cve \cap CveResponse)

CpeResponse == {"id", "name"}

CpeHandlers == ByName

CpeUseCases == Reads

Cpe == {"id", "name"}

list_cpes == <<"filter", "list">>

CpeCommands == [list |-> list_cpes] @@ GetByName

cpe_from_gmp == {"id", "name"}

CpeKind == ReadKind(CpeHandlers, CpeUseCases, CpeCommands, cpe_from_gmp \cap Cpe \cap CpeResponse)

CertBundAdvisoryResponse == {"id", "name"}

CertBundAdvisoryHandlers == ByName

CertBundAdvisoryUseCases == Reads

CertBundAdvisory == {"id", "name"}

list_cert_bund_advisories == <<"filter", "list">>

CertBundAdvisoryCommands == [list |-> list_cert_bund_advisories] @@ GetByName

cert_bund_advisory_from_gmp == {"id", "name"}

CertBundAdvisoryKind ==
    ReadKind(CertBundAdvisoryHandlers, CertBundAdvisoryUseCases, CertBundAdvisoryCommands,
             cert_bund_advisory_from_gmp \cap CertBundAdvisory \cap CertBundAdvisoryResponse)

DfnCertAdvisoryResponse == {"id", "name"}

DfnCertAdvisoryHandlers == ByName

DfnCertAdvisoryUseCases == Reads

DfnCertAdvisory == {"id", "name"}

list_dfn_cert_advisories == <<"filter", "list">>

DfnCertAdvisoryCommands == [list |-> list_dfn_cert_advisories] @@ GetByName

dfn_cert_advisory_from_gmp == {"id", "name"}

DfnCertAdvisoryKind ==
    ReadKind(DfnCertAdvisoryHandlers, DfnCertAdvisoryUseCases, DfnCertAdvisoryCommands,
             dfn_cert_advisory_from_gmp \cap DfnCertAdvisory \cap DfnCertAdvisoryResponse)

============================================================================
