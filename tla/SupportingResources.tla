------------------------ MODULE SupportingResources ------------------------
(***************************************************************************)
(* Assets, hosts, operating systems, TLS certificates, report formats,     *)
(* filters, tags, tickets, notes and overrides, layer by layer.            *)
(***************************************************************************)
EXTENDS Fields

LOCAL Meta == {"name", "comment", "creationTime", "modificationTime"}

\* The attributes all of them share.
supporting_meta_from_gmp == Meta

SupportingResourceMeta == Meta

SupportingResourceMetaResponse == Meta

LOCAL MetaShown ==
    supporting_meta_from_gmp \cap SupportingResourceMeta \cap SupportingResourceMetaResponse

LOCAL ReadOps == {"list", "get"}

----------------------------------------------------------------------------
(* Assets of any type.  The type is a query parameter that every read      *)
(* needs; the modification and the deletion go by the identifier alone.    *)

parse_asset_query == Dto([type |-> Filled])

required_asset_type == Dto([type |-> Filled])

ModifyGenericAssetRequest == Dto([comment |-> Free] @@ required_asset_type.fields)

GenericAssetResponse ==
    {"type", "value", "identifiers", "severity", "ip", "hostname", "os", "hostsCount", "title",
     "installs", "allInstalls", "latestSeverity", "highestSeverity", "averageSeverity",
     "hostCount", "hosts"}

reject_asset_ultimate_query == "delete_rejecting_ultimate"

GenericAssetHandlers ==
    Only([delete |-> reject_asset_ultimate_query] @@ CrudHandlers, ReadOps \cup {"modify", "delete"})

GenericAssetUseCases == Only(CrudUseCases, ReadOps \cup {"modify", "delete"})

GenericAssetDomain ==
    [query |-> {"type"}, modify |-> {"comment"},
     view |-> {"type", "value", "identifiers", "severity", "ip", "hostname", "os", "hostsCount",
               "title", "installs", "allInstalls", "latestSeverity", "highestSeverity",
               "averageSeverity", "hostCount", "hosts"}]

list_assets == <<"filter", "listSorted">>

\* get_assets is asked for the asset of that identifier and that type.
get_asset == <<"getOwn">>

modify_asset == [comment |-> Kept]

GenericAssetCommands ==
    [list |-> list_assets, get |-> get_asset, modify |-> <<"modify">> \o get_asset]
    @@ Only(CrudCommands, {"delete"})

generic_asset_from_gmp ==
    {"type", "value", "identifiers", "severity", "ip", "hostname", "os", "hostsCount", "title",
     "installs", "allInstalls", "latestSeverity", "highestSeverity", "averageSeverity",
     "hostCount", "hosts"}

GenericAssetKind ==
    LET kind == Kind(GenericAssetHandlers, GenericAssetUseCases, GenericAssetCommands, NoBody,
                     Layers(ModifyGenericAssetRequest, GenericAssetDomain.modify, modify_asset),
                     MetaShown \cup (generic_asset_from_gmp \cap GenericAssetDomain.view
                                       \cap GenericAssetResponse))
    IN  Scoped(Queried(kind, [list |-> Layers(parse_asset_query, GenericAssetDomain.query, <<>>),
                              get |-> Layers(required_asset_type, GenericAssetDomain.query, <<>>)]))

----------------------------------------------------------------------------
(* Hosts. *)

CreateHostRequest == Dto([value |-> Filled, comment |-> Free])

ModifyHostRequest == Dto([comment |-> Free])

HostResponse == {"value", "hostname", "severity", "os"}

reject_host_ultimate_query == "delete_rejecting_ultimate"

read_host_handlers == Only(CrudHandlers, ReadOps)

create_host_handler == "create_resource"

update_host_handler == "update_resource"

delete_host_handler == reject_host_ultimate_query

HostHandlers ==
    read_host_handlers @@ [create |-> create_host_handler, modify |-> update_host_handler,
                           delete |-> delete_host_handler]

get_host_usecase == "read"

write_host_usecases == Only(CrudUseCases, {"create", "modify"})

delete_host_usecase == "delete"

HostUseCases ==
    [get |-> get_host_usecase, delete |-> delete_host_usecase, list |-> "list"]
    @@ write_host_usecases

HostDomain == [create |-> {"value", "comment"}, modify |-> {"comment"}]

HostView == {"value", "hostname", "severity", "os"}

list_hosts == <<"filter", "listSorted">>

host_opts_from_create_input == Each({"value", "comment"}, Kept)

create_host == host_opts_from_create_input

host_opts_from_modify_input == [comment |-> Kept]

modify_host == host_opts_from_modify_input

HostCommands == [list |-> list_hosts] @@ CrudCommands

host_from_gmp == {"value", "hostname", "severity", "os"}

HostKind ==
    Kind(HostHandlers, HostUseCases, HostCommands,
         Layers(CreateHostRequest, HostDomain.create, create_host),
         Layers(ModifyHostRequest, HostDomain.modify, modify_host),
         MetaShown \cup (host_from_gmp \cap HostView \cap HostResponse))

----------------------------------------------------------------------------
(* Operating systems. *)

ModifyOperatingSystemRequest == Dto([comment |-> Free])

OperatingSystemResponse ==
    {"value", "hostsCount", "severity", "title", "installs", "allInstalls", "latestSeverity",
     "highestSeverity", "averageSeverity", "hostCount", "hosts"}

reject_operating_system_ultimate_query == "delete_rejecting_ultimate"

read_operating_system_handlers == Only(CrudHandlers, ReadOps)

update_operating_system_handler == "update_resource"

delete_operating_system_handler == reject_operating_system_ultimate_query

OperatingSystemHandlers ==
    read_operating_system_handlers @@ [modify |-> update_operating_system_handler,
                                       delete |-> delete_operating_system_handler]

read_operating_system_usecases == Only(CrudUseCases, ReadOps)

modify_operating_system_usecase == "modify"

delete_operating_system_usecase == "delete"

OperatingSystemUseCases ==
    read_operating_system_usecases @@ [modify |-> modify_operating_system_usecase,
                                       delete |-> delete_operating_system_usecase]

OperatingSystemDomain ==
    [modify |-> {"comment"},
     view |-> {"value", "hostsCount", "severity", "title", "installs", "allInstalls",
               "latestSeverity", "highestSeverity", "averageSeverity", "hostCount", "hosts"}]

list_operating_systems == <<"filter", "list">>

modify_operating_system == [comment |-> Kept]

OperatingSystemCommands ==
    [list |-> list_operating_systems] @@ Only(CrudCommands, {"get", "modify", "delete"})

operating_system_from_gmp ==
    {"value", "hostsCount", "severity", "title", "installs", "allInstalls", "latestSeverity",
     "highestSeverity", "averageSeverity", "hostCount", "hosts"}

OperatingSystemKind ==
    Kind(OperatingSystemHandlers, OperatingSystemUseCases, OperatingSystemCommands, NoBody,
         Layers(ModifyOperatingSystemRequest, OperatingSystemDomain.modify,
                modify_operating_system),
         MetaShown \cup (operating_system_from_gmp \cap OperatingSystemDomain.view
                           \cap OperatingSystemResponse))

----------------------------------------------------------------------------
(* TLS certificates, report formats and tickets are only read. *)

TlsCertificateAssetResponse ==
    {"subjectDn", "issuerDn", "activationTime", "expirationTime", "md5Fingerprint",
     "sha256Fingerprint", "certificate", "valid"}

TlsCertificateHandlers == Only(CrudHandlers, ReadOps)

TlsCertificateUseCases == Only(CrudUseCases, ReadOps)

TlsCertificateAsset ==
    {"subjectDn", "issuerDn", "activationTime", "expirationTime", "md5Fingerprint",
     "sha256Fingerprint", "certificate", "valid"}

list_tls_certificates == <<"filter", "list">>

TlsCertificateCommands == [list |-> list_tls_certificates] @@ Only(CrudCommands, {"get"})

tls_certificate_asset_from_gmp ==
    {"subjectDn", "issuerDn", "activationTime", "expirationTime", "md5Fingerprint",
     "sha256Fingerprint", "certificate", "valid"}

TlsCertificateKind ==
    ReadKind(TlsCertificateHandlers, TlsCertificateUseCases, TlsCertificateCommands,
             MetaShown \cup (tls_certificate_asset_from_gmp \cap TlsCertificateAsset
                               \cap TlsCertificateAssetResponse))

ReportFormatResponse ==
    {"contentType", "extension", "summary", "trust", "active", "predefined"}

ReportFormatHandlers == Only(CrudHandlers, ReadOps)

ReportFormatUseCases == Only(CrudUseCases, ReadOps)

ReportFormat == {"contentType", "extension", "summary", "trust", "active", "predefined"}

list_report_formats == <<"filter", "list">>

ReportFormatCommands == [list |-> list_report_formats] @@ Only(CrudCommands, {"get"})

report_format_from_gmp ==
    {"contentType", "extension", "summary", "trust", "active", "predefined"}

ReportFormatKind ==
    ReadKind(ReportFormatHandlers, ReportFormatUseCases, ReportFormatCommands,
             MetaShown \cup (report_format_from_gmp \cap ReportFormat \cap ReportFormatResponse))

TicketResponse ==
    {"status", "assignedTo", "result", "task", "openNote", "fixedNote", "closedNote"}

TicketHandlers == Only(CrudHandlers, ReadOps)

TicketUseCases == Only(CrudUseCases, ReadOps)

Ticket == {"status", "assignedTo", "result", "task", "openNote", "fixedNote", "closedNote"}

list_tickets == <<"filter", "list">>

TicketCommands == [list |-> list_tickets] @@ Only(CrudCommands, {"get"})

ticket_from_gmp ==
    {"status", "assignedTo", "result", "task", "openNote", "fixedNote", "closedNote"}

TicketKind ==
    ReadKind(TicketHandlers, TicketUseCases, TicketCommands,
             MetaShown \cup (ticket_from_gmp \cap Ticket \cap TicketResponse))

----------------------------------------------------------------------------
(* Saved filters and tags. *)

CreateFilterRequest == Dto([name |-> Filled] @@ Each({"comment", "term", "type"}, Free))

ModifyFilterRequest == Dto(Each({"comment", "term", "type"}, Free))

FilterResponse == {"type", "term"}

FilterHandlers == CrudHandlers @@ CloneHandler

FilterUseCases == CrudUseCases @@ CloneUseCase

FilterDomain ==
    [create |-> {"name", "comment", "term", "type"}, modify |-> {"comment", "term", "type"}]

FilterView == {"type", "term"}

list_filters == <<"filter", "list">>

filter_opts_from_create_input == Each({"comment", "term"}, Kept) @@ [type |-> Parsed]

create_filter == [name |-> Kept] @@ filter_opts_from_create_input

filter_opts_from_modify_input == Each({"comment", "term"}, Kept) @@ [type |-> Parsed]

modify_filter == filter_opts_from_modify_input

get_filter == <<"get">>

FilterCommands ==
    [list |-> list_filters, get |-> get_filter, modify |-> <<"modify">> \o get_filter]
    @@ CrudCommands @@ CloneCommand

filter_from_gmp == {"type", "term"}

FilterKind ==
    Kind(FilterHandlers, FilterUseCases, FilterCommands,
         Layers(CreateFilterRequest, FilterDomain.create, create_filter),
         Layers(ModifyFilterRequest, FilterDomain.modify, modify_filter),
         MetaShown \cup (filter_from_gmp \cap FilterView \cap FilterResponse))

LOCAL TagBody ==
    Each({"comment", "value", "resourceType"}, Free) @@ Each({"resourceId", "active"}, Checked)

CreateTagRequest == Dto([name |-> Filled] @@ TagBody)

ModifyTagRequest == Dto(TagBody)

TagResponse == {"value", "resourceType", "resourceCount", "active"}

TagHandlers == CrudHandlers @@ CloneHandler

TagUseCases == CrudUseCases @@ CloneUseCase

TagDomain == [create |-> {"name"} \cup DOMAIN TagBody, modify |-> DOMAIN TagBody]

TagView == {"value", "resourceType", "resourceCount", "active"}

list_tags == <<"filter", "list">>

tag_opts_from_create_input ==
    Each({"comment", "value", "active"}, Kept) @@ Each({"resourceType", "resourceId"}, Parsed)

create_tag == [name |-> Kept] @@ tag_opts_from_create_input

tag_opts_from_modify_input ==
    Each({"comment", "value", "active"}, Kept) @@ Each({"resourceType", "resourceId"}, Parsed)

modify_tag == tag_opts_from_modify_input

get_tag == <<"get">>

TagCommands ==
    [list |-> list_tags, get |-> get_tag, modify |-> <<"modify">> \o get_tag]
    @@ CrudCommands @@ CloneCommand

tag_from_gmp == {"value", "resourceType", "resourceCount", "active"}

TagKind ==
    Kind(TagHandlers, TagUseCases, TagCommands,
         Layers(CreateTagRequest, TagDomain.create, create_tag),
         Layers(ModifyTagRequest, TagDomain.modify, modify_tag),
         MetaShown \cup (tag_from_gmp \cap TagView \cap TagResponse))

----------------------------------------------------------------------------
(* Notes and overrides, on the results of an NVT. *)

LOCAL Place == {"hosts", "port", "severity", "taskId", "resultId", "active"}

LOCAL NoteBody ==
    Each({"text", "hosts", "port", "severity"}, Free)
    @@ Each({"taskId", "resultId", "active", "orphan"}, Checked)

CreateNoteRequest == Dto([nvtOid |-> Filled] @@ NoteBody)

ModifyNoteRequest == Dto(NoteBody)

NoteResponse == {"text", "nvtOid", "endTime"} \cup Place

NoteHandlers == CrudHandlers

NoteUseCases == CrudUseCases

NoteDomain == [create |-> {"nvtOid"} \cup DOMAIN NoteBody, modify |-> DOMAIN NoteBody]

NoteView == {"text", "nvtOid", "endTime"} \cup Place

list_notes == <<"filter", "list">>

note_opts_from_create_input ==
    Each({"text", "hosts", "port", "severity", "active", "orphan"}, Kept)
    @@ Each({"taskId", "resultId"}, Parsed)

create_note == [nvtOid |-> Kept] @@ note_opts_from_create_input

\* collection_update: hosts that are not given stay, an empty list clears them.
note_opts_from_modify_input ==
    Each({"text", "hosts", "port", "severity", "active", "orphan"}, Kept)
    @@ Each({"taskId", "resultId"}, Parsed)

modify_note == note_opts_from_modify_input

NoteCommands == [list |-> list_notes] @@ CrudCommands

note_from_gmp == {"text", "nvtOid", "endTime"} \cup Place

NoteKind ==
    Kind(NoteHandlers, NoteUseCases, NoteCommands,
         Layers(CreateNoteRequest, NoteDomain.create, create_note),
         Layers(ModifyNoteRequest, NoteDomain.modify, modify_note),
         MetaShown \cup (note_from_gmp \cap NoteView \cap NoteResponse))

LOCAL OverrideBody ==
    Each({"text", "hosts", "port", "severity", "newSeverity"}, Free)
    @@ Each({"taskId", "resultId", "active"}, Checked)

CreateOverrideRequest == Dto([nvtOid |-> Filled] @@ OverrideBody)

ModifyOverrideRequest == Dto(OverrideBody)

OverrideResponse == {"text", "nvtOid", "newSeverity", "endTime"} \cup Place

OverrideHandlers == CrudHandlers

OverrideUseCases == CrudUseCases

OverrideDomain == [create |-> {"nvtOid"} \cup DOMAIN OverrideBody, modify |-> DOMAIN OverrideBody]

OverrideView == {"text", "nvtOid", "newSeverity", "endTime"} \cup Place

list_overrides == <<"filter", "list">>

override_opts_from_create_input ==
    Each({"text", "hosts", "port", "severity", "newSeverity", "active"}, Kept)
    @@ Each({"taskId", "resultId"}, Parsed)

create_override == [nvtOid |-> Kept] @@ override_opts_from_create_input

override_opts_from_modify_input ==
    Each({"text", "hosts", "port", "severity", "newSeverity", "active"}, Kept)
    @@ Each({"taskId", "resultId"}, Parsed)

modify_override == override_opts_from_modify_input

OverrideCommands == [list |-> list_overrides] @@ CrudCommands

override_from_gmp == {"text", "nvtOid", "newSeverity", "endTime"} \cup Place

OverrideKind ==
    Kind(OverrideHandlers, OverrideUseCases, OverrideCommands,
         Layers(CreateOverrideRequest, OverrideDomain.create, create_override),
         Layers(ModifyOverrideRequest, OverrideDomain.modify, modify_override),
         MetaShown \cup (override_from_gmp \cap OverrideView \cap OverrideResponse))

============================================================================
