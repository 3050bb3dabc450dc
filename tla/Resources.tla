----------------------------- MODULE Resources -----------------------------
(***************************************************************************)
(* Requests on one collection of resources, from the body of the HTTP      *)
(* request to gvmd's store and back to the answer.  What the layers do     *)
(* with each field is in the tables of the kind (Fields.tla); this module  *)
(* is the control they share: the helpers of handler.rs, the use case that *)
(* audits and touches the session, the port that sends one command after   *)
(* the other, and gvmd, which other sessions use at the same time.  Every  *)
(* session makes one request.  A command is one step of gvmd; it can fail, *)
(* its answer can be lost, and the request can be dropped before the next. *)
(***************************************************************************)
EXTENDS Fields, SequencesExt

CONSTANTS
    Kinds,      \* name of a collection -> its kind
    Sessions,   \* the sessions that make a request
    Rivals,     \* those of them that only make the requests of a rival
    Ids,        \* identifiers gvmd can give to an object
    Pages,      \* pages a list request can ask for
    PerPages    \* page sizes a list request can ask for

ASSUME ResourcesAssumption ==
    /\ Ids \subseteq Nat \ {0} /\ Pages \subseteq Nat \ {0} /\ PerPages \subseteq Nat \ {0}
    /\ Rivals \subseteq Sessions
    /\ {1, 2} \subseteq Ids

VARIABLES
    kind,       \* the collection the requests are about
    paging,     \* how gvmd treats the page a list command names, and its counts
    store,      \* gvmd's objects
    saved,      \* the objects the saved filter admits; none once it is deleted
    req         \* the request of each session

vars == <<kind, paging, store, saved, req>>

K == Kinds[kind]

----------------------------------------------------------------------------
(* gvmd's store *)

FieldsOf(k) == DOMAIN k.create.dto.fields \cup DOMAIN k.modify.dto.fields \cup k.shown

\* An object is not there yet, live, in the trash or gone for good (gvmd gives
\* an identifier once); it is of the collection's own usage or of the other
\* one; a field holds what it held at first ("old"), gvmd's default, nothing
\* ("empty"), or what the request of a session said.
NoObject == [state |-> "none", own |-> TRUE, used |-> {},
             fields |-> Each(FieldsOf(K), "default")]

\* The objects a list command finds for a filter, in the order gvmd is asked
\* for.
Listed(filter, descending) ==
    LET found == SelectSeq([i \in 1 .. Cardinality(Ids) |-> i],
                           LAMBDA i : store[i].state = "live" /\ store[i].own /\ i \in filter)
    IN  IF descending THEN Reverse(found) ELSE found

----------------------------------------------------------------------------
(* Requests *)

\* The smallest body the DTO accepts, and the one that names everything but
\* what is refused beside the rest.
Minimal(dto) == [f \in DOMAIN dto.fields |-> IF "absent" \in dto.fields[f] THEN "absent" ELSE "value"]
Complete(layers) ==
    [f \in DOMAIN layers.dto.fields |->
       IF \/ "value" \notin layers.dto.fields[f]
          \/ f \in DOMAIN layers.port /\ layers.port[f].apart # {}
       THEN "absent" ELSE "value"]

\* The bodies tried: the complete one, the minimal one with one field in any
\* situation or with a pair of fields the code looks at together.
Bodies(layers) ==
    LET dto == layers.dto
        sent == DOMAIN layers.port \cap DOMAIN dto.fields
        pairs == dto.needs \cup {p \in sent \X sent : layers.port[p[1]].with = p[2]
                                                       \/ p[2] \in layers.port[p[1]].apart}
    IN  {Complete(layers)} \cup {[Minimal(dto) EXCEPT ![f] = x] : f \in DOMAIN dto.fields, x \in Inputs}
          \cup {[Minimal(dto) EXCEPT ![p[1]] = x, ![p[2]] = "value"] : p \in pairs, x \in Inputs}

NoAnswer == [status |-> "none", view |-> <<>>, page |-> <<>>, total |-> 0]

Idle == [pc |-> "idle", op |-> "none", id |-> 0, bearer |-> TRUE, body |-> <<>>,
         ultimate |-> FALSE, page |-> 1, per |-> 1, descending |-> FALSE,
         filterId |-> FALSE, filter |-> Ids,
         todo |-> <<>>, known |-> <<>>, read |-> <<>>, wrote |-> FALSE, audit |-> "none",
         answer |-> NoAnswer]

BodyOf(op) ==
    CASE op = "create" -> K.create
      [] op = "modify" -> K.modify
      [] op \in DOMAIN K.query \ {"create", "modify"} -> K.query[op]
      [] OTHER -> NoBody

\* The helpers that look at the identifier of the path before anything else.
WithId == {"get_resource", "update_resource", "delete_resource", "delete_rejecting_ultimate",
           "delete_resource_without_ultimate", "clone_resource", "act_on_resource",
           "act_with_body"}

\* The paths with a name of gvmd's own that is not looked at, and those below
\* the path of another resource, whose parts are parameters of the query here.
WithName == {"get_by_name", "get_under_resource"}

\* The handlers that look at the body or the query before the bearer token.
BodyFirst == {"act_with_body", "get_under_resource", "list_under_resource"}

\* parse_collection_query; 0 is a number that is out of range or no number.
PageAccepted(r) == r.op = "list" => r.page > 0 /\ r.per > 0

Refused(r, why) == [r EXCEPT !.pc = "answered", !.answer.status = why]

\* list_resource ... delete_resource_without_ultimate: the checks a request
\* passes before the use case is called; 0 is an id that is no UUID.
Handle(r) ==
    CASE \/ K.handlers[r.op] \in WithId /\ r.id = 0
         \/ K.handlers[r.op] = "delete_rejecting_ultimate" /\ r.ultimate
         \/ K.handlers[r.op] \in BodyFirst /\ ~(PageAccepted(r) /\ Accepts(BodyOf(r.op).dto, r.body))
           -> Refused(r, "InvalidInput")
      [] ~r.bearer -> Refused(r, "Unauthorized")
      [] ~PageAccepted(r) \/ ~Accepts(BodyOf(r.op).dto, r.body) -> Refused(r, "InvalidInput")
      [] OTHER -> [r EXCEPT !.pc = "accepted"]

\* A rival deletes the first object, changes everything it can of it, or uses it.
RivalOps == DOMAIN K.handlers \ {"list", "get", "create", "clone"}

\* The identifiers a request can name: 0 is no UUID; where the path has none it
\* is not looked at.
IdsNamed(s, op) ==
    CASE K.handlers[op] \notin WithId \cup WithName -> {0}
      [] K.handlers[op] \in WithId \cup WithName /\ s \in Rivals -> {1}
      [] K.handlers[op] \in WithId /\ s \notin Rivals -> {0, 1, 2}
      [] K.handlers[op] \in WithName /\ s \notin Rivals -> {1, 2}

BodiesSent(s, op) == IF s \in Rivals THEN {Complete(BodyOf(op))} ELSE Bodies(BodyOf(op))

\* The pages a list request can ask for, and two that are refused.
BadPages == {<<0, 1>>, <<1, 0>>}
PagesAsked(op) ==
    CASE op # "list" -> {<<1, 1>>}
      [] op = "list" /\ Last(K.commands.list) = "listWhole" -> {<<1, Cardinality(Ids)>>}
      [] OTHER -> (Pages \X PerPages) \cup BadPages

\* A parameter some operations have.
Flag(there) == IF there THEN BOOLEAN ELSE {FALSE}

\* A client may forget its token; a rival does not.
Bearers(s) == IF s \in Rivals THEN {TRUE} ELSE BOOLEAN

\* The requests of a session: the operation, with the members its path, query
\* and body can have.
Ask(op, id, bearer, body, ultimate, filterId, at, descending) ==
    [Idle EXCEPT !.op = op, !.id = id, !.bearer = bearer, !.body = body,
                 !.ultimate = ultimate, !.filterId = filterId,
                 !.page = at[1], !.per = at[2], !.descending = descending]

Asked(s, op) ==
    {Ask(op, id, bearer, body, ultimate, filterId, at, descending) :
       body \in BodiesSent(s, op),
       id \in IdsNamed(s, op),
       bearer \in Bearers(s),
       ultimate \in Flag(K.handlers[op] \in {"delete_resource", "delete_rejecting_ultimate"}),
       filterId \in Flag("filter" \in Range(K.commands[op])),
       at \in PagesAsked(op),
       descending \in Flag("filter" \in Range(K.commands[op]))}

Submit(s) ==
    /\ req[s].pc = "idle"
    /\ \E op \in DOMAIN K.handlers :
         /\ s \in Rivals => op \in RivalOps
         /\ \E r \in Asked(s, op) :
              /\ <<r.page, r.per>> \in BadPages => r.bearer
              /\ ~r.bearer \/ <<r.page, r.per>> \in BadPages => r.body = Minimal(BodyOf(op).dto)
              /\ req' = [req EXCEPT ![s] = Handle(r)]
    /\ UNCHANGED <<kind, paging, store, saved>>

\* The commands of an operation: a saved filter is looked up when the request
\* names one, and the object read first when the command repeats a value of it.
Repeats(k, r) ==
    /\ r.op = "modify"
    /\ \E f \in DOMAIN k.modify.port \cap DOMAIN r.body : Says(k.modify.port, r.body, f) = "read"

\* Mutant: the object is not looked up before the operation acts on it.
TodoWithoutLookup(r) ==
    LET all == K.commands[r.op]
    IN  (IF Repeats(K, r) THEN <<"get">> ELSE <<>>)
          \o (IF \/ Head(all) = "filter" /\ ~r.filterId
                 \/ Head(all) = "getOwn" /\ Len(all) > 1 THEN Tail(all) ELSE all)

Todo(r) ==
    LET all == K.commands[r.op]
    IN  (IF Repeats(K, r) THEN <<"get">> ELSE <<>>)
          \o (IF Head(all) = "filter" /\ ~r.filterId THEN Tail(all) ELSE all)

\* What gvmd does with a list command that names a page: it honours the page,
\* with its counts or without them, leaves out the rows and the counts of the
\* later pages, or ignores the page; the last two where a port foresees it.
Pagings(command) ==
    {"honoured", "uncounted"} \cup
    CASE command \in {"listOrAll", "listOrAllIfEmpty"} -> {"lagging"}
      [] command \in {"listOrAllIfIgnored", "listSortedOrAllIfIgnored"} -> {"lagging", "ignored"}
      [] OTHER -> {}

\* It stays the same for the commands of one request.
PagingOf(r) == IF r.op = "list" THEN Pagings(Last(K.commands.list)) ELSE {paging}

\* Mutant: the start is not audited.
StartWithoutAudit(s) ==
    /\ req[s].pc = "accepted"
    /\ \/ req' = [req EXCEPT ![s] = Refused(@, "SessionExpired")]
       \/ req' = [req EXCEPT ![s] = [@ EXCEPT !.pc = "running", !.todo = Todo(req[s])]]
    /\ paging' \in IF req'[s].pc = "running" THEN PagingOf(req[s]) ELSE {paging}
    /\ UNCHANGED <<kind, store, saved>>

\* execute_with_resource up to the port's first command: the start is audited,
\* the session touched, and the port builds its command or refuses the input.
Start(s) ==
    /\ req[s].pc = "accepted"
    /\ LET r == req[s]
           layers == BodyOf(r.op)
           started == [r EXCEPT !.audit = "start"]
       IN  \/ req' = [req EXCEPT ![s] = Refused(started, "SessionExpired")]
           \/ /\ ~Takes(layers.port, Into(layers.input, r.body))
              /\ req' = [req EXCEPT ![s] =
                           [Refused(started, "InvalidInput") EXCEPT !.audit = "failure"]]
           \/ /\ Takes(layers.port, Into(layers.input, r.body))
              /\ req' = [req EXCEPT ![s] = [started EXCEPT !.pc = "running",
                                                           !.todo = Todo(r)]]
    /\ paging' \in IF req'[s].pc = "running" THEN PagingOf(req[s]) ELSE {paging}
    /\ UNCHANGED <<kind, store, saved>>

----------------------------------------------------------------------------
(* Commands *)

Command(s) == Head(req[s].todo)
Object(s) == store[req[s].id]

\* The commands that change gvmd's objects.
Changes == {"modify", "create", "clone", "delete", "act"}

\* The stored fields after a command built from the body.
Written(s, before, layers) ==
    LET body == Into(layers.input, req[s].body)
        said == DOMAIN body \cap DOMAIN layers.port
    IN  [f \in DOMAIN before |->
           IF f \notin said THEN before[f]
           ELSE CASE Says(layers.port, body, f) = "set" -> s
                  [] Says(layers.port, body, f) = "clear" -> "empty"
                  [] Says(layers.port, body, f) = "read" -> req[s].known[f]
                  [] OTHER -> before[f]]

\* The identifier of a new object.
Fresh == CHOOSE i \in Ids : store[i].state = "none"

\* What a command does to the store; for a read, nothing.
Effect(s) ==
    LET r == req[s]
        o == Object(s)
    IN  CASE Command(s) = "modify" ->
               [store EXCEPT ![r.id].fields = Written(s, o.fields, K.modify)]
          [] Command(s) = "create" ->
               [store EXCEPT ![Fresh] = [NoObject EXCEPT !.state = "live",
                                           !.fields = Written(s, NoObject.fields, K.create)]]
          [] Command(s) = "clone" -> [store EXCEPT ![Fresh] = o]
          [] Command(s) = "delete" ->
               [store EXCEPT ![r.id].state = IF r.ultimate THEN "gone" ELSE "trash"]
          [] Command(s) = "act" -> [store EXCEPT ![r.id].used = @ \cup {s}]
          [] OTHER -> store

\* The list commands: with a page only; repeated without a page when a later
\* page comes without rows and total; when there are no rows at all; when
\* there are more rows than asked for; the list without a page, from which
\* the page is cut, and the one that is answered as a whole.  Some ports sort
\* the rows they get themselves.
Lists == {"list", "listOrAll", "listOrAllIfEmpty", "listOrAllIfIgnored", "listAll", "listWhole",
          "listSorted", "listSortedOrAllIfIgnored", "listSortedAll"}

\* The commands that change nothing.
Looks == {"get", "getOwn", "filter"} \cup Lists

Sorts(command) == command \in {"listSorted", "listSortedOrAllIfIgnored", "listSortedAll"}
SortedBy(command, rows) == IF Sorts(command) THEN SortSeq(rows, <) ELSE rows

\* gvmd finds what the command is about.
Found(s) ==
    CASE Command(s) \in Lists \cup {"create"} -> TRUE
      [] Command(s) = "filter" -> saved # {}
      [] Command(s) = "getOwn" -> Object(s).state = "live" /\ Object(s).own
      [] OTHER -> Object(s).state = "live"

\* gvmd can carry the command out; that it has an identifier left for a new
\* object is a bound on Ids.
CarriedOut(s) ==
    /\ Found(s)
    /\ Command(s) \in {"create", "clone"} => \E i \in Ids : store[i].state = "none"


paged_slice(items, page, per) ==
    SubSeq(items, (page - 1) * per + 1,
           IF page * per < Len(items) THEN page * per ELSE Len(items))

\* The rows of a list command that names a page, and the total: gvmd's count,
\* and without one the number of rows.
Rows(r) ==
    CASE paging = "lagging" /\ r.page > 1 -> <<>>
      [] paging = "ignored" -> Listed(r.filter, r.descending)
      [] OTHER -> paged_slice(Listed(r.filter, r.descending), r.page, r.per)
gvmd_total(r) ==
    IF paging = "uncounted" \/ (paging = "lagging" /\ r.page > 1)
    THEN Len(Rows(r)) ELSE Len(Listed(r.filter, r.descending))

needs_client_side_pagination_fallback(items, total, page) ==
    page > 1 /\ items = <<>> /\ total = 0

backend_ignored_pagination(items, per) == Len(items) > per

\* A second list command, without a page, from which the page is cut.
AsksAll(s) ==
    LET r == req[s]
    IN  \/ /\ Command(s) \in {"listOrAll", "listOrAllIfEmpty", "listOrAllIfIgnored",
                              "listSortedOrAllIfIgnored"}
           /\ needs_client_side_pagination_fallback(Rows(r), gvmd_total(r), r.page)
        \/ Command(s) = "listOrAllIfEmpty" /\ Rows(r) = <<>>
        \/ /\ Command(s) \in {"listOrAllIfIgnored", "listSortedOrAllIfIgnored"}
           /\ backend_ignored_pagination(Rows(r), r.per)

\* The commands with which it is asked for.
AskAll(s) ==
    (IF req[s].filterId THEN <<"filter">> ELSE <<>>)
      \o (IF Sorts(Command(s)) THEN <<"listSortedAll">> ELSE <<"listAll">>)

\* Mutant: what was read first is not read again.
KeepFirstRead(s) ==
    LET r == req[s]
    IN  IF Command(s) \in {"get", "getOwn"}
        THEN [r EXCEPT !.read = IF @ = <<>> THEN Object(s).fields ELSE @,
                       !.known = IF r.wrote THEN @ ELSE Object(s).fields]
        ELSE [r EXCEPT !.wrote = @ \/ Command(s) \in Changes]

\* What the gateway keeps of the answer to a command; known is what it has read
\* before the command that writes.
Keep(s) ==
    LET r == req[s]
    IN  CASE Command(s) \in {"get", "getOwn"} ->
               [r EXCEPT !.read = Object(s).fields,
                         !.known = IF r.wrote THEN @ ELSE Object(s).fields]
          [] Command(s) = "filter" -> [r EXCEPT !.filter = saved]
          [] Command(s) \in {"listAll", "listSortedAll"} ->
               LET all == SortedBy(Command(s), Listed(r.filter, r.descending))
               IN  [r EXCEPT !.answer.page = paged_slice(all, r.page, r.per),
                             !.answer.total = Len(all)]
          [] Command(s) \in Lists \ {"listAll", "listSortedAll"} ->
               [r EXCEPT !.answer.page = SortedBy(Command(s), Rows(r)), !.answer.total = gvmd_total(r)]
          [] OTHER -> [r EXCEPT !.wrote = TRUE]

\* The answer of a read shows the fields the conversion and the DTO keep.
Answered(r) ==
    [r EXCEPT !.pc = "answered", !.answer.status = "ok", !.audit = "success",
              !.answer.view = IF K.handlers[r.op] \in {"get_resource", "get_by_name",
                                                       "get_under_resource", "update_resource"}
                              THEN [f \in DOMAIN r.read \cap K.shown |-> r.read[f]] ELSE <<>>]

Execute(s) ==
    /\ req[s].pc = "running"
    /\ CarriedOut(s)
    /\ store' = Effect(s)
    /\ LET rest == IF ~AsksAll(s) THEN Tail(req[s].todo)
                   ELSE AskAll(s)
           kept == [Keep(s) EXCEPT !.todo = rest]
       IN  req' = [req EXCEPT ![s] = IF rest = <<>> THEN Answered(kept) ELSE kept]
    /\ UNCHANGED <<kind, paging, saved>>

Failed(r, why) == [Refused(r, why) EXCEPT !.audit = "failure", !.todo = <<>>]

NotThere(s) ==
    /\ req[s].pc = "running"
    /\ ~Found(s)
    /\ req' = [req EXCEPT ![s] = Failed(@, "NotFound")]
    /\ UNCHANGED <<kind, paging, store, saved>>

\* Bound: the rivals' commands do not fail, are not lost and not dropped.  A
\* request that ends so is to the others one that takes no further step; a session
\* that is no rival makes the same requests and meets all of it.
CanFail(s) == req[s].pc = "running" /\ s \notin Rivals

\* Why a command does not reach gvmd or is refused there, also the one that reads
\* an object back after its change: the session is disconnected (401), its queue
\* is full (429), gvmd refuses it (400, which stands for 401, 403, 409 and 501
\* too), or it is unreachable.
Failures == {"SessionInvalidated", "TooManyRequests", "InvalidInput", "Backend"}

Fails(s) ==
    /\ CanFail(s)
    /\ \E why \in Failures : req' = [req EXCEPT ![s] = Failed(@, why)]
    /\ UNCHANGED <<kind, paging, store, saved>>

\* Mutant: an answer that does not arrive is taken for an object that is not there.
AnswerLostAsNotFound(s) ==
    /\ CanFail(s)
    /\ CarriedOut(s)
    /\ Effect(s) # store
    /\ store' = Effect(s)
    /\ req' = [req EXCEPT ![s] = [Failed(@, "NotFound") EXCEPT !.wrote = TRUE]]
    /\ UNCHANGED <<kind, paging, saved>>

\* gvmd carries the command out and the answer does not arrive.
AnswerLost(s) ==
    /\ CanFail(s)
    /\ CarriedOut(s)
    /\ Effect(s) # store
    /\ store' = Effect(s)
    /\ req' = [req EXCEPT ![s] = [Failed(@, "Backend") EXCEPT !.wrote = TRUE]]
    /\ UNCHANGED <<kind, paging, saved>>

\* The client goes away: the handler's future is dropped where it waits, before
\* gvmd has carried the command out or after.
Dropped(s) ==
    /\ CanFail(s)
    /\ \E wrote \in BOOLEAN :
         /\ wrote => CarriedOut(s) /\ Effect(s) # store
         /\ store' = IF wrote THEN Effect(s) ELSE store
         /\ req' = [req EXCEPT ![s] = [@ EXCEPT !.pc = "dropped", !.todo = <<>>,
                                                !.wrote = req[s].wrote \/ wrote]]
    /\ UNCHANGED <<kind, paging, saved>>

\* Another client of gvmd edits or deletes the saved filter.
FilterEdited ==
    /\ \E s \in Sessions : req[s].pc = "running" /\ req[s].filterId
    /\ saved' \in {{}, {2}} \ {saved}
    /\ UNCHANGED <<kind, paging, store, req>>

----------------------------------------------------------------------------

Init ==
    /\ kind \in DOMAIN Kinds
    /\ paging = "honoured"
    /\ store = [i \in Ids |->
                  IF i \in {1, 2}
                  THEN [NoObject EXCEPT !.state = "live", !.fields = Each(FieldsOf(K), "old"),
                                        !.own = ~(K.scoped /\ i = 2)]
                  ELSE NoObject]
    /\ saved = {1, 3}
    /\ req = [s \in Sessions |-> Idle]

Next == \/ \E s \in Sessions : \/ Submit(s) \/ Start(s) \/ Execute(s) \/ NotThere(s)
                               \/ Fails(s) \/ AnswerLost(s) \/ Dropped(s)
        \/ FilterEdited

Spec == Init /\ [][Next]_vars

----------------------------------------------------------------------------
(* Properties *)

\* The session whose command changes the store in this step.
Acts(s) == req[s].pc = "running" /\ req'[s].wrote /\ (req'[s].todo # req[s].todo)

\* The fields an update empties or repeats although the body leaves them out:
\* the observers of tasks and audits are always sent (tasks.rs), the excluded
\* hosts of a target are replaced together with its hosts (targets.rs).
SentUnasked ==
    {<<"targets", "excludeHosts">>, <<"tasks", "observers">>, <<"audits", "observers">>}

\* An update of a resource leaves every field it does not name as it is, also
\* when another session changes the object between the commands of the update
\* (modify_* of the gvmd ports); the exceptions are the fields above, and the
\* fields of a user that modify_user writes back with the value it has read.
OnlyNamedFieldsChange ==
    [][\A s \in Sessions, i \in Ids :
         (Acts(s) /\ store[i].state = "live" /\ store'[i].fields # store[i].fields) =>
           /\ i = req[s].id
           /\ \A f \in DOMAIN store[i].fields :
                store'[i].fields[f] # store[i].fields[f] =>
                  \/ f \in Named(req[s].body)
                  \/ <<kind, f>> \in SentUnasked
                  \/ /\ kind = "users"
                     /\ f \in DOMAIN req[s].known /\ store'[i].fields[f] = req[s].known[f]]_vars

\* The fields a body may name and no command carries, the lists whose explicit
\* emptiness a port cannot tell from their absence, and what no answer shows.
NotSent == {<<"assets", "type">>, <<"policies", "baseScanConfigId">>}
EmptyIsOmitted ==
    {<<"web_application_targets", "excludeUrls">>, <<"tasks", "preferences">>,
     <<"audits", "preferences">>, <<"groups", "users">>, <<"roles", "users">>,
     <<"alerts", "eventData">>, <<"alerts", "conditionData">>, <<"alerts", "methodData">>,
     <<"credential_stores", "preferences">>}
NotShown ==
    {<<"tasks", "preferences">>, <<"audits", "preferences">>, <<"users", "password">>,
     <<"tags", "resourceId">>, <<"notes", "orphan">>}
      \cup ({"credentials"} \X {"password", "privateKey", "certificate", "community",
                               "authAlgorithm", "privacyAlgorithm", "privacyPassword",
                               "credentialStoreId", "vaultId", "hostIdentifier"})
      \cup ({"credential_stores"} \X {"active", "host", "path", "port", "comment", "preferences"})

Said(s, f) == IF req[s].body[f] = "empty" THEN "empty" ELSE s

\* Another session has changed the object too, and this is what it wrote.
FromAnother(s, f, value) ==
    \E t \in Sessions \ {s} :
      LET r == req[t]
      IN  /\ r.wrote /\ r.op = "modify" /\ r.id = req[s].id
          /\ \/ f \in Named(r.body) /\ value = Said(t, f)
             \/ <<kind, f>> \in SentUnasked /\ value = "empty"
             \/ kind = "users" /\ f \in DOMAIN r.known /\ value = r.known[f]

\* The value is the one the session's body names, or came after it.
Holds(s, f, value) ==
    \/ value = Said(s, f)
    \/ FromAnother(s, f, value)
    \/ <<kind, f>> \in NotSent
    \/ req[s].body[f] = "empty" /\ <<kind, f>> \in EmptyIsOmitted

\* Nothing an accepted body names is lost between the DTO, the domain input,
\* the command, gvmd's answer and the response: after the success of an update
\* the object holds, and the answer shows, what the body said or what another
\* session said, never the value from before the update.
UpdateSticks ==
    \A s \in Sessions :
      LET r == req[s]
      IN  (r.answer.status = "ok" /\ r.op = "modify") =>
            \A f \in Named(r.body) :
              /\ store[r.id].state = "live" => Holds(s, f, store[r.id].fields[f])
              /\ IF f \in DOMAIN r.answer.view THEN Holds(s, f, r.answer.view[f])
                 ELSE <<kind, f>> \in NotShown

\* A created object holds every value the accepted body names, the empty ones
\* too, save the fields no command carries and the explicitly empty lists a port
\* cannot tell from absent ones.
CreatedAsAsked ==
    [][\A s \in Sessions, i \in Ids :
         (Acts(s) /\ req[s].op = "create" /\ store[i].state = "none" /\ store'[i].state = "live") =>
           \A f \in Named(req[s].body) :
             \/ store'[i].fields[f] = IF req[s].body[f] = "empty" THEN "empty" ELSE s
             \/ <<kind, f>> \in NotSent
             \/ req[s].body[f] = "empty" /\ <<kind, f>> \in EmptyIsOmitted]_vars

\* The operations that reach an object of the other usage: the gateway does
\* not look the audit, the asset, the scan configuration or the policy up
\* before it is modified or deleted.
Unscoped ==
    ({"audits", "assets", "scan_configs", "policies"} \X {"modify", "delete"})
      \cup ({"scan_configs"} \X {"set_nvts", "set_families", "set_preference"})

\* The commands about the object the path names.
OnObject == {"get", "getOwn", "modify", "clone", "delete", "act"}

\* What the properties below and the proofs take from the tables of each
\* collection: which commands an operation consists of, in which order, and
\* under which action it is audited.
CommandsFit(k, op) ==
    LET c == Kinds[k].commands[op]
    IN  /\ c \in Seq(Changes \cup Looks) /\ c # <<>>
        /\ \A n \in DOMAIN c : c[n] = "filter" => n = 1 /\ Len(c) > 1
        /\ (\E n \in DOMAIN c : c[n] \in Changes) => Kinds[k].usecases[op] \notin {"list", "read"}
        /\ \A n, m \in DOMAIN c :
             (n < m /\ c[n] \in Changes) =>
               /\ op = "modify"
               /\ c[m] = "get" \/ (c[m] = "getOwn" /\ <<k, op>> \in Unscoped)
        /\ \A n \in DOMAIN c :
             /\ c[n] = "modify" => op = "modify"
             /\ (op \in {"create", "modify"} /\ c[n] \in Changes) => c[n] = op
             /\ c[n] \in Lists => op = "list"
             /\ c[n] \in OnObject => Kinds[k].handlers[op] \in WithId \cup WithName
        /\ op = "modify" => Kinds[k].handlers[op] \in WithId

\* In a table two usages share, an object is looked up as one of the
\* collection's own before it is shown or acted upon.
LooksUpFirst(k, op) ==
    LET c == Kinds[k].commands[op]
    IN  /\ \A n \in DOMAIN c : (c[n] \in {"modify", "delete", "act"} /\ <<k, op>> \notin Unscoped) =>
             \E m \in DOMAIN c : m < n /\ c[m] = "getOwn"
        /\ op = "get" => \E m \in DOMAIN c : c[m] = "getOwn"

\* An update sends a field the body leaves out only where that is known.
ModifyFits(k) ==
    LET port == Kinds[k].modify.port
    IN  /\ "none" \notin DOMAIN Kinds[k].modify.dto.fields
        /\ \A f \in DOMAIN port :
             /\ port[f].absent \in {"keep", "clear", "read"}
             /\ (port[f].with # "none" \/ port[f].absent = "clear") => <<k, f>> \in SentUnasked
             /\ port[f].absent = "read" => k = "users" /\ port[f].with = "none"
             /\ port[f].empty \in {"keep", "clear"}

\* An update sends every field of the body it takes, and reads the object back to answer
\* with it.
UpdateFits(k) ==
    LET layers == Kinds[k].modify
        c == Kinds[k].commands.modify
    IN  /\ Kinds[k].handlers.modify = "update_resource"
        /\ \E n \in DOMAIN c : c[n] = "modify"
        /\ \A n \in DOMAIN c : c[n] = "modify" =>
             \E m \in DOMAIN c : n < m /\ c[m] \in {"get", "getOwn"}
        /\ \A f \in DOMAIN layers.dto.fields :
             /\ f \in Kinds[k].shown \/ <<k, f>> \in NotShown
             /\ \A x \in layers.dto.fields[f] \ {"absent"} :
                  \/ <<k, f>> \in NotSent
                  \/ /\ f \in layers.input /\ f \in DOMAIN layers.port
                     /\ (x = "empty" /\ x \in layers.port[f].takes) =>
                          layers.port[f].empty = "clear" \/ <<k, f>> \in EmptyIsOmitted

\* A creation sends every field of the body, also the empty ones but for those
\* lists.
CreateFits(k) ==
    LET layers == Kinds[k].create
    IN  \A f \in DOMAIN layers.dto.fields :
          \A x \in layers.dto.fields[f] \ {"absent"} :
            \/ <<k, f>> \in NotSent
            \/ x = "empty" /\ <<k, f>> \in EmptyIsOmitted
            \/ /\ f \in layers.input /\ f \in DOMAIN layers.port
               /\ x = "empty" => layers.port[f].empty = "clear"

ASSUME TablesAssumption ==
    \A k \in DOMAIN Kinds :
      /\ \A op \in DOMAIN Kinds[k].handlers :
           CommandsFit(k, op) /\ (Kinds[k].scoped => LooksUpFirst(k, op))
      /\ ModifyFits(k)
      /\ "modify" \in DOMAIN Kinds[k].handlers => UpdateFits(k)
      /\ CreateFits(k)

\* A request that is refused, by the gateway or by gvmd (400, 401, 403, 404, 429,
\* 501), has changed nothing: it can be made again.  Only an error of the backend
\* leaves that open.  The exception are updates: what is refused may be the reading
\* back of the object, whose change is made then (modify_* followed by get_*).
\* Such an update is answered 404 only if another session has removed the object in
\* between, or the object was of the other usage all along (modify_audit followed
\* by get_audit).
RefusedChangesNothing ==
    \A s \in Sessions :
      LET r == req[s]
      IN  (r.wrote /\ r.answer.status \notin {"none", "ok", "Backend"}) =>
             /\ r.op = "modify"
             /\ r.answer.status \in {"SessionInvalidated", "TooManyRequests", "InvalidInput",
                                    "NotFound"}
             /\ r.answer.status = "NotFound" =>
                  store[r.id].state # "live" \/ <<kind, r.op>> \in Unscoped

\* Where a list answer is known not to have the rows that were asked for: gvmd
\* ignores the page of the command and the whole list fits on one page, so that
\* it comes back for every later page too (backend_ignored_pagination); and
\* list_nvts, when it cuts the page of a descending list itself, cuts it from the
\* ascending one.
OtherRows(s, r, all) ==
    \/ paging = "ignored" /\ r.page > 1 /\ Len(all) <= r.per
    \/ Command(s) = "listSortedAll" /\ r.descending

\* Where they are known not to come in the order that was asked for: the ports
\* that sort the rows they get sort them upwards.
OtherOrder(s, r) == Sorts(Command(s)) /\ r.descending

\* Where the total is known to be that of the page: gvmd has sent no counts with
\* the page (gvmd_total).
OtherTotal(s) == paging = "uncounted" /\ Command(s) \notin {"listAll", "listSortedAll"}


\* A command that changes gvmd belongs to an operation whose start has been
\* audited, and not as a read (execute_with_resource and the action names the
\* use cases give it).
ChangesAreAudited ==
    [][\A s \in Sessions :
         Acts(s) => /\ req[s].audit = "start"
                    /\ K.usecases[req[s].op] \notin {"list", "read"}]_vars

\* Nothing else done through a collection of one usage touches or shows an
\* object of the other usage: its reads and its actions look it up first
\* (get_audit before start_audit, stop_audit and resume_audit).
UsagesApart ==
    [][\A i \in Ids :
         (K.scoped /\ ~store[i].own) =>
           /\ store'[i] # store[i] => \E s \in Sessions : Acts(s) /\ <<kind, req[s].op>> \in Unscoped
           /\ \A s \in Sessions :
                (req[s].op = "get" /\ req[s].id = i) => req'[s].answer.status # "ok"]_vars

============================================================================
