------------------------------- MODULE Fields -------------------------------
(***************************************************************************)
(* The vocabulary in which the layers a resource request passes are        *)
(* written down: the request DTO of the REST crate, the input type of the  *)
(* domain crate, the gvmd command a port builds from it, and what the      *)
(* conversion of gvmd's answer and the response DTO keep of the object.    *)
(*                                                                         *)
(* A field of a request is in one of four situations.  "absent" is a       *)
(* missing or null member, "empty" a blank text or an empty list,          *)
(* "malformed" a text that has not the form its meaning requires (UUID,    *)
(* enumeration, range, host), "value" anything else.                       *)
(***************************************************************************)
EXTENDS Naturals, Sequences, FiniteSets, TLC

Inputs == {"absent", "empty", "malformed", "value"}

----------------------------------------------------------------------------
(* What a request DTO accepts of a field. *)

\* Option<String> or a defaulted Vec: passed on as it is.
Free == Inputs

\* A member without a serde default: only its absence is refused.
Present == Inputs \ {"absent"}

\* Required and not blank; its form is not looked at.
Filled == {"malformed", "value"}

\* Required, and its form is checked.
Exact == {"value"}

\* Optional, and its form is checked when it is there (Option<Uuid>, bool,
\* number, closed enumeration, validate_optional_uuid).
Checked == {"absent", "value"}

\* Optional, checked, and an empty one (an empty list) is accepted.
CheckedList == Inputs \ {"malformed"}

\* Optional, but not blank when it is there.
NonBlank == Inputs \ {"empty"}

\* Refused when it is there; a defaulted list may be there and empty.
Never == {"absent"}
NeverFilled == {"absent", "empty"}

----------------------------------------------------------------------------
(* How a command treats a field: the situations the port accepts, and what *)
(* it makes of a field that is absent or empty: the command leaves the     *)
(* stored value ("keep"), empties it ("clear"), or repeats the value the   *)
(* operation has read before ("read").                                     *)

Mode(takes, absent, empty) ==
    [takes |-> takes, absent |-> absent, empty |-> empty, with |-> "none", apart |-> {}]

\* An Option handed over: absent leaves the value, empty is sent as empty.
Kept == Mode(Inputs, "keep", "clear")

\* The same, parsed by the port before anything is sent.
Parsed == Mode(Checked, "keep", "clear")

\* A parsed list: its entries are parsed, the empty list has none.
ParsedList == Mode(CheckedList, "keep", "clear")

\* unwrap_or_default of an Option<Vec>: an empty list is not sent either.
Collapsed == Mode(Inputs, "keep", "keep")

\* Sent always: an absent list replaces the stored one by the empty list.
Replaced == Mode(Inputs, "clear", "clear")

\* An absent field is sent with the value a previous command has read.
ReadBack == Mode(Inputs, "read", "clear")

\* Sent together with g: refused without g, emptied when only g is there.
With(g) == [ParsedList EXCEPT !.with = g]

\* Refused beside any of the fields S.
Apart(mode, S) == [mode EXCEPT !.apart = S]

----------------------------------------------------------------------------
(* Tables.                                                                 *)

Each(S, what) == [f \in S |-> what]

\* A request body: what is accepted of each field, and the pairs <<f, g>> where
\* f is refused without g.
Dto(fields) == [fields |-> fields, needs |-> {}]

Named(body) == {f \in DOMAIN body : body[f] # "absent"}

\* The checks of the JSON parser and of validate().
Accepts(dto, body) ==
    /\ \A f \in DOMAIN body : body[f] \in dto.fields[f]
    /\ \A p \in dto.needs : p[1] \in Named(body) => p[2] \in Named(body)

\* Mutant: a member that is not there is defaulted to the empty value.
IntoDefaulting(input, body) ==
    [f \in DOMAIN body \cap input |-> IF body[f] = "absent" THEN "empty" ELSE body[f]]

\* Mutant: an empty value is taken for a member that is not there.
IntoSkippingEmpty(input, body) ==
    [f \in DOMAIN body \cap input |-> IF body[f] = "empty" THEN "absent" ELSE body[f]]

\* The body as the domain input carries it.
Into(input, body) == [f \in DOMAIN body \cap input |-> body[f]]

\* The port's own checks, before the command is built.
Takes(port, body) ==
    \A f \in DOMAIN body \cap DOMAIN port :
        /\ body[f] \in port[f].takes
        /\ (port[f].with # "none" /\ f \in Named(body)) => port[f].with \in Named(body)
        /\ f \in Named(body) => port[f].apart \cap Named(body) = {}

\* What the command says of a field the port sends.
Says(port, body, f) ==
    CASE body[f] = "empty" -> port[f].empty
      [] body[f] # "absent" /\ body[f] # "empty" -> "set"
      [] body[f] = "absent" /\ port[f].with \in Named(body) -> "clear"
      [] OTHER -> port[f].absent

----------------------------------------------------------------------------
(* A kind of resource: for each operation the handler helper that serves   *)
(* it, the action under which the use case is audited and the commands the *)
(* port sends; the layers of its two bodies; and the fields an answer      *)
(* shows.                                                                  *)

Layers(dto, input, port) == [dto |-> dto, input |-> input, port |-> port]

\* A resource without a create or a modify operation.
NoBody == Layers(Dto(<<>>), {}, <<>>)

\* gvmd keeps two usages of the resource in one table (tasks and audits, scan
\* configurations and policies, assets of two types) when scoped is TRUE.
Kind(handlers, usecases, commands, create, modify, shown) ==
    [handlers |-> handlers, usecases |-> usecases, commands |-> commands,
     create |-> create, modify |-> modify, query |-> <<>>, shown |-> shown, scoped |-> FALSE]

Scoped(k) == [k EXCEPT !.scoped = TRUE]

\* Operations whose path has query parameters of their own.
Queried(k, query) == [k EXCEPT !.query = query]

\* A resource that is only read.
ReadKind(handlers, usecases, commands, shown) ==
    Kind(handlers, usecases, commands, NoBody, NoBody, shown)

\* The five operations most resources have, and the clone some have besides.
CrudHandlers ==
    [list |-> "list_resource", create |-> "create_resource", get |-> "get_resource",
     modify |-> "update_resource", delete |-> "delete_resource"]
CloneHandler == [clone |-> "clone_resource"]

CrudUseCases ==
    [list |-> "list", create |-> "create", get |-> "read", modify |-> "modify",
     delete |-> "delete"]
CloneUseCase == [clone |-> "create"]

\* A modification is followed by a get, whose answer is the answer of both.
CrudCommands ==
    [create |-> <<"create">>, get |-> <<"get">>, modify |-> <<"modify", "get">>,
     delete |-> <<"delete">>]
CloneCommand == [clone |-> <<"clone">>]

\* A table cut down to the operations a resource has.
Only(table, ops) == [op \in DOMAIN table \cap ops |-> table[op]]

============================================================================
