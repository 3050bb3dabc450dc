---------------------------- MODULE ScanSupport ----------------------------
(***************************************************************************)
(* Alerts, schedules, port lists, scanners and results, layer by layer.    *)
(***************************************************************************)
EXTENDS Fields

LOCAL Meta == {"name", "comment", "inUse", "writable"}

----------------------------------------------------------------------------
(* Alerts. *)

LOCAL Texts == {"event", "condition", "method"}
LOCAL Data == {"eventData", "conditionData", "methodData"}

CreateAlertRequest ==
    Dto([name |-> Filled, filterId |-> Checked] @@ Each({"comment"} \cup Texts, Free)
        @@ Each(Data, CheckedList))

ModifyAlertRequest ==
    Dto([filterId |-> Checked] @@ Each({"name", "comment"} \cup Texts, Free)
        @@ Each(Data, CheckedList))

AlertResponse == {"filterId"} \cup Texts \cup Data \cup Meta

AlertHandlers == CrudHandlers

AlertUseCases == CrudUseCases

AlertDomain ==
    LET fields == {"name", "comment", "filterId"} \cup Texts \cup Data
    IN  [create |-> fields, modify |-> fields]

Alert == {"filterId"} \cup Texts \cup Data \cup Meta

list_alerts == <<"filter", "list">>

create_alert == Each({"name", "comment"} \cup Data, Kept) @@ Each({"filterId"} \cup Texts, Parsed)

\* Without an entry there is no element of the command for a data map.
modify_alert ==
    Each({"name", "comment"}, Kept) @@ Each(Data, Collapsed) @@ Each({"filterId"} \cup Texts, Parsed)

AlertCommands == [list |-> list_alerts] @@ CrudCommands

alert_from_gmp == {"filterId"} \cup Texts \cup Data \cup Meta

AlertKind ==
    Kind(AlertHandlers, AlertUseCases, AlertCommands,
         Layers(CreateAlertRequest, AlertDomain.create, create_alert),
         Layers(ModifyAlertRequest, AlertDomain.modify, modify_alert),
         alert_from_gmp \cap Alert \cap AlertResponse)

----------------------------------------------------------------------------
(* Schedules. *)

CreateScheduleRequest ==
    Dto([comment |-> Free] @@ Each({"name", "icalendar", "timezone"}, Filled))

ModifyScheduleRequest == Dto(Each({"name", "comment", "icalendar", "timezone"}, Free))

ScheduleResponse == {"icalendar", "timezone", "firstRun", "nextRun", "duration"} \cup Meta

ScheduleHandlers == CrudHandlers

ScheduleUseCases == CrudUseCases

ScheduleDomain ==
    LET fields == {"name", "comment", "icalendar", "timezone"}
    IN  [create |-> fields, modify |-> fields]

Schedule == {"icalendar", "timezone", "firstRun", "nextRun", "duration"} \cup Meta

list_schedules == <<"filter", "list">>

create_schedule == Each({"name", "comment", "icalendar", "timezone"}, Kept)

modify_schedule == Each({"name", "comment", "icalendar", "timezone"}, Kept)

ScheduleCommands == [list |-> list_schedules] @@ CrudCommands

schedule_from_gmp == {"icalendar", "timezone", "firstRun", "nextRun", "duration"} \cup Meta

ScheduleKind ==
    Kind(ScheduleHandlers, ScheduleUseCases, ScheduleCommands,
         Layers(CreateScheduleRequest, ScheduleDomain.create, create_schedule),
         Layers(ModifyScheduleRequest, ScheduleDomain.modify, modify_schedule),
         schedule_from_gmp \cap Schedule \cap ScheduleResponse)

----------------------------------------------------------------------------
(* Port lists.  The ranges of a list cannot be replaced. *)

CreatePortListRequest == Dto([name |-> Filled, comment |-> Free, portRange |-> Free])

ModifyPortListRequest == Dto(Each({"name", "comment", "portRange"}, Free))

PortListResponse == {"portCount", "tcpCount", "udpCount", "portRange"} \cup Meta

PortListHandlers == CrudHandlers

PortListUseCases == CrudUseCases

PortListDomain ==
    [create |-> {"name", "comment", "portRange"}, modify |-> {"name", "comment", "portRange"}]

PortList == {"portCount", "tcpCount", "udpCount", "portRange"} \cup Meta

list_port_lists == <<"filter", "list">>

create_port_list == Each({"name", "comment", "portRange"}, Kept)

\* The input is refused before the session is looked up.
modify_port_list == Each({"name", "comment"}, Kept) @@ [portRange |-> Mode(Never, "keep", "keep")]

PortListCommands == [list |-> list_port_lists] @@ CrudCommands

port_list_from_gmp == {"portCount", "tcpCount", "udpCount", "portRange"} \cup Meta

PortListKind ==
    Kind(PortListHandlers, PortListUseCases, PortListCommands,
         Layers(CreatePortListRequest, PortListDomain.create, create_port_list),
         Layers(ModifyPortListRequest, PortListDomain.modify, modify_port_list),
         port_list_from_gmp \cap PortList \cap PortListResponse)

----------------------------------------------------------------------------
(* Scanners and results are only read. *)

LOCAL Reads == {"list", "get"}

ScannerResponse == {"host", "port", "type", "credential", "caPub"} \cup Meta

ScannerHandlers == Only(CrudHandlers, Reads)

ScannerUseCases == Only(CrudUseCases, Reads)

Scanner == {"host", "port", "type", "credential", "caPub"} \cup Meta

list_scanners == <<"filter", "list">>

ScannerCommands == [list |-> list_scanners] @@ Only(CrudCommands, {"get"})

scanner_from_gmp == {"host", "port", "type", "credential", "caPub"} \cup Meta

ScannerKind ==
    ReadKind(ScannerHandlers, ScannerUseCases, ScannerCommands,
             scanner_from_gmp \cap Scanner \cap ScannerResponse)

ResultResponse ==
    {"name", "host", "port", "severity", "threat", "nvt", "description", "task", "report",
     "hostsCount", "occurrences"}

ResultHandlers == Only(CrudHandlers, Reads)

ResultUseCases == Only(CrudUseCases, Reads)

ScanResult ==
    {"name", "host", "port", "severity", "threat", "nvt", "description", "task", "report",
     "hostsCount", "occurrences"}

list_results == <<"filter", "list">>

ResultCommands == [list |-> list_results] @@ Only(CrudCommands, {"get"})

\* Two of the fields have no counterpart in gvmd's answer.
result_from_gmp ==
    {"name", "host", "port", "severity", "threat", "nvt", "description", "task", "report"}

ResultKind ==
    ReadKind(ResultHandlers, ResultUseCases, ResultCommands,
             result_from_gmp \cap ScanResult \cap ResultResponse)

============================================================================
