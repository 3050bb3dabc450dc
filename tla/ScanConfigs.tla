---------------------------- MODULE ScanConfigs ----------------------------
(***************************************************************************)
(* Scan configurations, policies, and the configurations of any usage,     *)
(* layer by layer.  gvmd keeps all of them in one table.                   *)
(***************************************************************************)
EXTENDS Fields

LOCAL ConfigBody == {"name", "comment"}

----------------------------------------------------------------------------
(* Configurations of any usage: read, cloned and deleted.                  *)

parse_config_query == Dto([usageType |-> NonBlank])

GenericConfigResponse == {"name", "comment", "type", "usageType", "inUse", "writable"}

GenericConfigHandlers ==
    Only(CrudHandlers, {"list", "get", "delete"}) @@ CloneHandler

GenericConfigUseCases ==
    Only(CrudUseCases, {"list", "get", "delete"}) @@ CloneUseCase

GenericConfig == {"name", "comment", "type", "usageType", "inUse", "writable"}

list_configs == <<"filter", "listSorted">>

\* Of any usage: the command names none.
get_config == <<"get">>

GenericConfigCommands ==
    [list |-> list_configs, get |-> get_config] @@ Only(CrudCommands, {"delete"}) @@ CloneCommand

generic_config_from_gmp == {"name", "comment", "type", "usageType", "inUse", "writable"}

GenericConfigKind ==
    Queried(ReadKind(GenericConfigHandlers, GenericConfigUseCases, GenericConfigCommands,
                     generic_config_from_gmp \cap GenericConfig \cap GenericConfigResponse),
            [list |-> Layers(parse_config_query, {"usageType"}, [usageType |-> Kept])])

----------------------------------------------------------------------------
(* Scan configurations. *)

CreateScanConfigRequest ==
    Dto([name |-> Filled, comment |-> Free, baseScanConfigId |-> Checked])

ModifyScanConfigRequest == Dto(Each(ConfigBody, Free))

ScanConfigResponse ==
    {"name", "comment", "familyCount", "nvtCount", "type", "usageType", "inUse", "writable"}

\* The selections are replaced, a preference is set or, without a value, reset.
SetNvtSelectionRequest == Dto([nvtOids |-> Present \ {"malformed"}])

SetFamilySelectionRequest ==
    Dto([families |-> Present \ {"malformed"}, autoAddNewFamilies |-> Checked])

SetPreferenceRequest == Dto([nvtOid |-> Checked, value |-> Free])

set_scan_config_nvt_selection_handler == "act_with_body"

set_scan_config_family_selection_handler == "act_with_body"

set_scan_config_preference_handler == "act_with_body"

ScanConfigHandlers ==
    [set_nvts |-> set_scan_config_nvt_selection_handler,
     set_families |-> set_scan_config_family_selection_handler,
     set_preference |-> set_scan_config_preference_handler]
    @@ CrudHandlers

set_scan_config_usecases ==
    Each({"set_nvts", "set_families", "set_preference"}, "modify")

ScanConfigUseCases == set_scan_config_usecases @@ CrudUseCases

ScanConfigDomain ==
    [create |-> ConfigBody \cup {"baseScanConfigId"}, modify |-> ConfigBody,
     view |-> {"name", "comment", "familyCount", "nvtCount", "type", "usageType", "inUse",
               "writable"}]

ScanConfigSelections == {"nvtOids", "families", "autoAddNewFamilies", "nvtOid", "value"}

list_scan_configs == <<"filter", "list">>

create_scan_config == Each(ConfigBody, Kept) @@ [baseScanConfigId |-> Parsed]

\* The configuration must be of the usage "scan".
get_scan_config == <<"getOwn">>

\* The command also names the usage (usage_type); whether gvmd takes that for a
\* condition on the object or for a new value of it is not in this repository, so
\* the operation is one of those that may reach an object of the other usage
\* (Unscoped in Resources).  The same goes for modify_policy.
modify_scan_config == Each(ConfigBody, Kept)

set_scan_config_nvt_selection == <<"act">>

set_scan_config_family_selection == <<"act">>

set_scan_config_preference == <<"act">>

ScanConfigCommands ==
    [list |-> list_scan_configs, get |-> get_scan_config, delete |-> <<"delete">>,
     create |-> <<"create">>, modify |-> <<"modify">> \o get_scan_config,
     set_nvts |-> set_scan_config_nvt_selection,
     set_families |-> set_scan_config_family_selection,
     set_preference |-> set_scan_config_preference]

scan_config_from_gmp ==
    {"name", "comment", "familyCount", "nvtCount", "type", "usageType", "inUse", "writable"}

ScanConfigKind ==
    LET kind == Kind(ScanConfigHandlers, ScanConfigUseCases, ScanConfigCommands,
                     Layers(CreateScanConfigRequest, ScanConfigDomain.create, create_scan_config),
                     Layers(ModifyScanConfigRequest, ScanConfigDomain.modify, modify_scan_config),
                     scan_config_from_gmp \cap ScanConfigDomain.view \cap ScanConfigResponse)
    IN  Scoped(Queried(kind,
                 [set_nvts |-> Layers(SetNvtSelectionRequest, ScanConfigSelections,
                                      [nvtOids |-> Kept]),
                  set_families |-> Layers(SetFamilySelectionRequest, ScanConfigSelections,
                                          Each({"families", "autoAddNewFamilies"}, Kept)),
                  set_preference |-> Layers(SetPreferenceRequest, ScanConfigSelections,
                                            Each({"nvtOid", "value"}, Kept))]))

----------------------------------------------------------------------------
(* The NVTs a configuration selects and its preferences.  The path holds   *)
(* the identifier of the configuration, and the OID or the name.           *)

\* require_oid of the path, after the identifier.
require_oid == Exact

\* require_bounded of the name in the path or of a parameter of the query.
require_bounded == Filled

parse_scan_config_nvt_query ==
    Dto([configId |-> Exact, family |-> {"absent"} \cup require_bounded])

list_scan_config_nvts_handler == "list_under_resource"

get_scan_config_nvt_handler == "get_under_resource"

list_scan_config_nvts == <<"list">>

get_scan_config_nvt == <<"get">>

ScanConfigPartUseCases == Only(CrudUseCases, {"list", "get"})

\* What nvt_from_gmp and NvtResponse keep of an NVT.
ScanConfigNvtKind ==
    Queried(ReadKind([list |-> list_scan_config_nvts_handler, get |-> get_scan_config_nvt_handler],
                     ScanConfigPartUseCases,
                     [list |-> list_scan_config_nvts, get |-> get_scan_config_nvt],
                     {"oid", "name", "family", "cvssBase", "severity", "tags", "solutionType"}),
            [list |-> Layers(parse_scan_config_nvt_query, {"configId", "family"},
                             [configId |-> Parsed, family |-> Kept]),
             get |-> Layers(Dto([configId |-> Exact, oid |-> require_oid]), {"configId", "oid"},
                            [configId |-> Parsed, oid |-> Kept])])

parse_preference_query == Dto([configId |-> Exact, nvtOid |-> {"absent"} \cup require_oid])

ScanConfigPreferenceResponse ==
    {"nvt", "name", "id", "type", "value", "alternatives", "default"}

list_scan_config_preferences_handler == "list_under_resource"

get_scan_config_preference_handler == "get_under_resource"

ScanConfigPreference == {"nvt", "name", "id", "type", "value", "alternatives", "default"}

list_scan_config_preferences == <<"listWhole">>

get_scan_config_preference == <<"get">>

preference_from_gmp == {"nvt", "name", "id", "type", "value", "alternatives", "default"}

ScanConfigPreferenceKind ==
    Queried(ReadKind([list |-> list_scan_config_preferences_handler,
                      get |-> get_scan_config_preference_handler],
                     ScanConfigPartUseCases,
                     [list |-> list_scan_config_preferences, get |-> get_scan_config_preference],
                     preference_from_gmp \cap ScanConfigPreference \cap ScanConfigPreferenceResponse),
            [list |-> Layers(parse_preference_query, {"configId", "nvtOid"},
                             [configId |-> Parsed, nvtOid |-> Kept]),
             get |-> Layers([parse_preference_query EXCEPT !.fields = [preference |-> require_bounded] @@ @],
                            {"configId", "nvtOid", "preference"},
                            [configId |-> Parsed] @@ Each({"nvtOid", "preference"}, Kept))])

----------------------------------------------------------------------------
(* Policies: scan configurations of the usage "policy", with the same DTOs. *)

PolicyHandlers ==
    [delete |-> "delete_resource_without_ultimate"] @@ CrudHandlers

PolicyUseCases == CrudUseCases

list_policies == <<"filter", "list">>

\* The configuration a policy is to start from is not in the command.
create_policy == Each(ConfigBody, Kept)

get_policy == <<"getOwn">>

modify_policy == Each(ConfigBody, Kept)

PolicyCommands ==
    [list |-> list_policies, get |-> get_policy, create |-> <<"create">>,
     modify |-> <<"modify">> \o get_policy, delete |-> <<"delete">>]

PolicyKind ==
    Scoped(Kind(PolicyHandlers, PolicyUseCases, PolicyCommands,
                Layers(CreateScanConfigRequest, ScanConfigDomain.create, create_policy),
                Layers(ModifyScanConfigRequest, ScanConfigDomain.modify, modify_policy),
                scan_config_from_gmp \cap ScanConfigDomain.view \cap ScanConfigResponse))

============================================================================
