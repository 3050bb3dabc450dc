------------------------------- MODULE Tasks -------------------------------
(***************************************************************************)
(* Tasks and audits, layer by layer.  The type of a task is given by the   *)
(* one target it names (an explicit type must agree with it), so the       *)
(* bodies of the five types are five tables.                               *)
(***************************************************************************)
EXTENDS Fields

LOCAL Selectors == {"targetId", "agentGroupId", "ociImageTargetId", "webApplicationTargetId"}

\* validate() for a type that names the selector: what a scan needs besides.
ScanTask(selector) ==
    Each({"name"}, Filled) @@ Each({"comment", "observers", "preferences"}, Free)
    @@ Each({selector, "scannerId"}, Exact) @@ Each({"scheduleId", "alterable", "schedulePeriods"}, Checked)
    @@ [alertIds |-> CheckedList]

CreateTaskRequest ==
    [classic |-> Dto([scanConfigId |-> Exact, hostsOrdering |-> Free] @@ ScanTask("targetId")
                     @@ Each(Selectors \ {"targetId"}, Never)),
     import |-> Dto([name |-> Filled, comment |-> Free]
                    @@ Each(Selectors \cup {"scanConfigId", "scannerId", "scheduleId", "alterable",
                                            "hostsOrdering", "schedulePeriods"}, Never)
                    @@ Each({"alertIds", "observers", "preferences"}, NeverFilled))]
    @@ [type \in {"agentGroupId", "ociImageTargetId", "webApplicationTargetId"} |->
          Dto(Each({"scanConfigId", "hostsOrdering"} \cup (Selectors \ {type}), Never)
              @@ ScanTask(type))]

ModifyTaskRequest ==
    Dto(Each({"name", "comment", "hostsOrdering", "observers", "preferences"}, Free)
        @@ Each({"targetId", "scanConfigId", "scannerId", "scheduleId", "alterable",
                 "schedulePeriods"}, Checked)
        @@ [alertIds |-> CheckedList])

TaskResponse ==
    {"name", "comment", "status", "progress", "scanConfigId", "scannerId", "scheduleId", "alertIds",
     "alterable", "hostsOrdering", "observers", "schedulePeriods", "reportCount", "usageType",
     "trend"} \cup Selectors

\* A report is shown by reference, with its counts.
TaskReportReferenceResponse == {"lastReport", "currentReport"}

TaskHandlers ==
    CrudHandlers @@ CloneHandler @@ Each({"start", "stop", "resume"}, "act_on_resource")

TaskUseCases ==
    CrudUseCases @@ CloneUseCase @@ [start |-> "start", stop |-> "stop", resume |-> "resume"]

TaskDomain ==
    LET body == {"name", "comment", "scanConfigId", "scannerId", "scheduleId", "alertIds",
                 "alterable", "hostsOrdering", "observers", "schedulePeriods", "preferences"}
    IN  [create |-> body \cup Selectors, modify |-> body \cup {"targetId"},
         view |-> (body \ {"preferences"}) \cup Selectors
                    \cup {"status", "progress", "lastReport", "currentReport", "reportCount",
                          "usageType", "trend"}]

list_tasks == <<"filter", "list">>

\* What the commands of all scanning types carry besides their target.
LOCAL TaskOpts ==
    Each({"name", "comment", "alterable", "schedulePeriods", "observers", "preferences"}, Kept)
    @@ [scannerId |-> Parsed, scheduleId |-> Parsed, alertIds |-> ParsedList]

create_task ==
    [classic |-> Each({"targetId", "scanConfigId", "hostsOrdering"}, Parsed) @@ TaskOpts,
     import |-> Each({"name", "comment"}, Kept)
                @@ Each({"scheduleId", "alterable", "hostsOrdering", "schedulePeriods"},
                        Mode(Never, "keep", "keep"))
                @@ Each({"alertIds", "observers", "preferences"}, Mode(NeverFilled, "keep", "clear"))]
    @@ [type \in {"agentGroupId", "ociImageTargetId", "webApplicationTargetId"} |->
          Each({type}, Parsed) @@ [hostsOrdering |-> Mode(Never, "keep", "keep")] @@ TaskOpts]

\* The observers are sent as they are in the input, where an absent list is
\* the empty one; preferences that are not given are not sent.
modify_task ==
    Each({"name", "comment", "alterable", "schedulePeriods"}, Kept)
    @@ Each({"targetId", "scanConfigId", "scannerId", "scheduleId", "hostsOrdering"}, Parsed)
    @@ [alertIds |-> ParsedList, observers |-> Replaced, preferences |-> Collapsed]

TaskCommands ==
    [list |-> list_tasks] @@ CrudCommands @@ CloneCommand
    @@ Each({"start", "stop", "resume"}, <<"act">>)

task_from_gmp ==
    {"name", "comment", "status", "progress", "scanConfigId", "scannerId", "scheduleId", "alertIds",
     "alterable", "hostsOrdering", "observers", "schedulePeriods", "lastReport", "currentReport",
     "reportCount", "usageType", "trend"} \cup Selectors

LOCAL TaskView ==
    task_from_gmp \cap TaskDomain.view \cap (TaskResponse \cup TaskReportReferenceResponse)

TaskKind ==
    Kind(TaskHandlers, TaskUseCases, TaskCommands,
         Layers(CreateTaskRequest.classic, TaskDomain.create, create_task.classic),
         Layers(ModifyTaskRequest, TaskDomain.modify, modify_task), TaskView)

\* The other types differ in the body of their creation only.
TaskOfType(type) ==
    Kind([create |-> TaskHandlers.create], TaskUseCases, TaskCommands,
         Layers(CreateTaskRequest[type], TaskDomain.create, create_task[type]), NoBody, TaskView)

----------------------------------------------------------------------------
(* Audits: tasks of another usage, with the same DTOs. *)

AuditHandlers ==
    [delete |-> "delete_resource_without_ultimate"] @@ CrudHandlers
    @@ Each({"start", "stop", "resume"}, "act_on_resource")

AuditUseCases ==
    CrudUseCases @@ [start |-> "start", stop |-> "stop", resume |-> "resume"]

list_audits == <<"filter", "list">>

create_audit ==
    Each({"targetId", "scanConfigId", "hostsOrdering"}, Parsed) @@ TaskOpts

modify_audit ==
    Each({"name", "comment", "alterable", "schedulePeriods"}, Kept)
    @@ Each({"targetId", "scanConfigId", "scannerId", "scheduleId", "hostsOrdering"}, Parsed)
    @@ [alertIds |-> ParsedList, observers |-> Replaced, preferences |-> Collapsed]

\* get_audit finds audits only; the actions look the audit up before they act.
AuditCommands ==
    [list |-> list_audits, modify |-> <<"modify", "getOwn">>, get |-> <<"getOwn">>]
    @@ CrudCommands @@ Each({"start", "stop", "resume"}, <<"getOwn", "act">>)

AuditKind ==
    Scoped(Kind(AuditHandlers, AuditUseCases, AuditCommands,
                Layers(CreateTaskRequest.classic, TaskDomain.create, create_audit),
                Layers(ModifyTaskRequest, TaskDomain.modify, modify_audit), TaskView))

============================================================================
