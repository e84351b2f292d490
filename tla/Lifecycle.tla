------------------------------- MODULE Lifecycle -------------------------------
(***************************************************************************)
(* enforceLifecycle and ResponseTracker (packages/agentserver,             *)
(* lifecycle.ts): whatever events a handler yields, in whatever order, and *)
(* however it ends, they leave as a well formed stream, and the tracked    *)
(* resource is the one the stream tells of.                                *)
(*                                                                         *)
(* A yield suspends the generator, so one action sends at most one event;  *)
(* an event that needs a prefix waits behind it in "held".                 *)
(***************************************************************************)
EXTENDS Naturals, Sequences

CONSTANTS
  Items,      \* output items a handler may report as done
  Outputs,    \* outputs a handler's own resource may carry
  MaxEvents,  \* bound on the number of events of the handler
  NoId,       \* the id of an item that has none
  None

ASSUME ItemsAssumption == \A item \in Items : item.id \in STRING \cup {NoId}
(* A resource that a handler carries has no item twice.                    *)
ASSUME OutputsAssumption ==
  /\ Outputs \subseteq Seq(Items)
  /\ \A output \in Outputs : \A k, l \in 1..Len(output) :
        k # l /\ output[k].id # NoId => output[k].id # output[l].id
ASSUME MaxEventsAssumption == MaxEvents \in Nat

Terminals == {"completed", "failed", "incomplete"}
Prefix    == {"created", "in_progress"}
Types     == Prefix \cup {"item_done", "delta"} \cup Terminals
Statuses  == {"queued", "in_progress"} \cup Terminals

(* A lifecycle event may carry a response; for a non terminal one its      *)
(* status is not terminal.  An output_item.done carries an item.           *)
Carried == [status : Statuses, output : Outputs]
Events ==
  [type : Prefix, response : [status : {"queued", "in_progress"}, output : Outputs] \cup {None}]
    \cup [type : Terminals, response : Carried \cup {None}]
    \cup [type : {"item_done"}, item : Items]
    \cup [type : {"delta"}]
ASSUME NoneAssumption == None \notin Events \cup Carried

VARIABLES
  created, inProgress, terminated, \* the generator's flags
  handler,   \* the handler's iteration: "open", "over"
  at,        \* the generator: "open", "ended", "threw", "returned"
  held,      \* the event that waits behind its prefix, or None
  tracked,   \* tracker.response: status and output
  wire,      \* the types of the events sent
  told,      \* the response the last event was sent with, or None
  reported,  \* the items reported since the handler last carried an output
  count      \* events taken from the handler

flags == <<created, inProgress, terminated>>
vars == <<flags, handler, at, held, tracked, wire, told, reported, count>>

Init ==
  /\ created = FALSE /\ inProgress = FALSE /\ terminated = FALSE
  /\ handler = "open" /\ at = "open" /\ held = None
  /\ tracked = [status |-> "queued", output |-> <<>>]
  /\ wire = <<>> /\ told = None /\ reported = {} /\ count = 0

-----------------------------------------------------------------------------
(* ResponseTracker.                                                        *)

Carries(e) == e.type \in Prefix \cup Terminals /\ e.response # None
HasOutput(e) == Carries(e) /\ e.response.output # <<>>

(* #appendItem: an item replaces the first one of its id.                  *)
SameId(output, item) == {k \in 1..Len(output) : item.id # NoId /\ output[k].id = item.id}
AppendItem(output, item) ==
  IF SameId(output, item) = {} THEN Append(output, item)
  ELSE [output EXCEPT ![CHOOSE k \in SameId(output, item) :
                          \A l \in SameId(output, item) : k <= l] = item]

(* #fold: an empty output does not blank the assembled one, and the type   *)
(* of the event decides over the status it carries.                        *)
FoldedOutput(e) ==
  CASE HasOutput(e) -> e.response.output
    [] e.type = "item_done" -> AppendItem(tracked.output, e.item)
    [] OTHER -> tracked.output
FoldedStatus(e) ==
  CASE e.type \in Terminals \cup {"in_progress"} -> e.type
    [] e.type = "created" /\ Carries(e) -> e.response.status
    [] OTHER -> tracked.status
Folded(e) == [status |-> FoldedStatus(e), output |-> FoldedOutput(e)]

(* observe(): fold the event and send it with the resource that results.   *)
Report(e) ==
  reported' = CASE HasOutput(e) -> {}
                [] e.type = "item_done" ->
                     {i \in reported : i.id = NoId \/ i.id # e.item.id} \cup {e.item}
                [] OTHER -> reported
Observe(e) ==
  /\ tracked' = Folded(e)
  /\ told' = IF Carries(e) THEN Folded(e) ELSE None
  /\ wire' = Append(wire, e.type)
  /\ Report(e)

(* lifecycleEvent(): an event the generator makes itself.                  *)
Make(type, status) ==
  /\ tracked' = [tracked EXCEPT !.status = status]
  /\ told' = tracked'
  /\ wire' = Append(wire, type)
  /\ UNCHANGED reported

-----------------------------------------------------------------------------
(* enforceLifecycle.                                                       *)

SendCreated(e) ==
  /\ ~created
  /\ created' = TRUE /\ held' = e
  /\ Make("created", "queued")
  /\ UNCHANGED <<inProgress, terminated, at>>

NeedsInProgress(e) == ~inProgress /\ e.type # "in_progress"
SendInProgress(e) ==
  /\ created /\ NeedsInProgress(e)
  /\ inProgress' = TRUE /\ held' = e
  /\ Make("in_progress", "in_progress")
  /\ UNCHANGED <<created, terminated, at>>

(* The event itself; a terminal event that ends a failed or silent handler *)
(* ends the generator too.                                                 *)
SendEvent(e) ==
  /\ created /\ ~NeedsInProgress(e)
  /\ held' = None
  /\ IF handler' = "over"
     THEN Make(e.type, e.type)
     ELSE Observe(e)
  /\ inProgress' = (inProgress \/ e.type = "in_progress")
  /\ terminated' = (e.type \in Terminals)
  /\ at' = IF handler' = "over" THEN "ended" ELSE at
  /\ UNCHANGED created

(* The prefix the event needs, one event at a time, and then the event.    *)
Process(e) == SendCreated(e) \/ SendInProgress(e) \/ SendEvent(e)

Prefixed ==
  /\ at = "open" /\ held # None
  /\ UNCHANGED <<handler, count>>
  /\ Process(held)

Pulling == at = "open" /\ handler = "open" /\ held = None
Nothing == UNCHANGED <<flags, handler, at, held, tracked, wire, told, reported>>
Take == Pulling /\ count < MaxEvents /\ count' = count + 1

(* Deviations: a late event is still folded; a second created is sent.     *)
FoldLate(e) ==
  /\ tracked' = Folded(e)
  /\ UNCHANGED <<flags, handler, at, held, wire, told, reported>>
(* A handler that goes on after its terminal event is not heard.           *)
Ignore(e) == Nothing
LateEvent(e) == Take /\ terminated /\ Ignore(e)

(* response.created: the first one is passed on, a second one dropped.     *)
Duplicate == created
CreatedEvent(e) ==
  /\ Take /\ ~terminated /\ e.type = "created"
  /\ IF Duplicate THEN Nothing
     ELSE /\ created' = TRUE
          /\ Observe(e)
          /\ UNCHANGED <<inProgress, terminated, handler, at, held>>

OtherEvent(e) ==
  /\ Take /\ ~terminated /\ e.type # "created"
  /\ UNCHANGED handler
  /\ Process(e)

(* The terminal event for a handler that ends in any other way.            *)
Close(type) ==
  /\ handler' = "over"
  /\ IF terminated
     THEN at' = "ended" /\ UNCHANGED <<flags, held, tracked, wire, told, reported>>
     ELSE Process([type |-> type, response |-> None])
  /\ UNCHANGED count

(* The handler returns: response.failed unless it sent a terminal event.   *)
HandlerReturns == Pulling /\ Close("failed")

(* The handler throws: before anything was sent the error itself goes on,  *)
(* afterwards an abort ends as incomplete and anything else as failed.     *)
HandlerThrows(abort) ==
  /\ Pulling
  /\ IF ~created
     THEN /\ at' = "threw" /\ handler' = "over"
          /\ UNCHANGED <<flags, held, tracked, wire, told, reported, count>>
     ELSE Close(IF abort THEN "incomplete" ELSE "failed")

(* The consumer returns the generator at a yield.                          *)
Return ==
  /\ at = "open" /\ wire # <<>>
  /\ at' = "returned" /\ handler' = "over"
  /\ UNCHANGED <<flags, held, tracked, wire, told, reported, count>>

Over == at # "open" /\ UNCHANGED vars

Next ==
  \/ \E e \in Events : LateEvent(e) \/ CreatedEvent(e) \/ OtherEvent(e)
  \/ Prefixed
  \/ HandlerReturns
  \/ \E abort \in BOOLEAN : HandlerThrows(abort)
  \/ Return
  \/ Over

Spec == Init /\ [][Next]_vars

-----------------------------------------------------------------------------
(* Properties.                                                             *)

Resources == [status : Statuses, output : Seq(Items)]
TypeOK ==
  /\ created \in BOOLEAN /\ inProgress \in BOOLEAN /\ terminated \in BOOLEAN
  /\ handler \in {"open", "over"}
  /\ at \in {"open", "ended", "threw", "returned"}
  /\ held \in Events \cup {None}
  /\ tracked \in Resources
  /\ wire \in Seq(Types)
  /\ told \in Resources \cup {None}
  /\ reported \subseteq Items
  /\ count \in 0..MaxEvents

(* Whatever the handler yields: created first and once, in_progress ahead  *)
(* of everything else, and nothing behind a terminal event.                *)
WellFormed ==
  \A k \in 1..Len(wire) :
     /\ (wire[k] = "created") <=> (k = 1)
     /\ wire[k] \notin Prefix => \E j \in 1..(k - 1) : wire[j] = "in_progress"
     /\ wire[k] \in Terminals => k = Len(wire)

(* However the handler ends, the stream ends with a terminal event; only a *)
(* handler that failed before anything was sent leaves as an error.        *)
EndsWell ==
  /\ at = "ended" => wire # <<>> /\ wire[Len(wire)] \in Terminals
  /\ at = "threw" => wire = <<>>

(* The resource a client reads in the terminal event is the one the store  *)
(* keeps, to the end, and its status is the one of the event.              *)
TerminalIsTheResource ==
  terminated => /\ tracked.status = wire[Len(wire)]
                /\ told # None => told = tracked

(* An item that was reported as done stays in the resource in its latest   *)
(* form and in no other, unless the handler carries an output of its own.  *)
OutputIsKept ==
  \A item \in reported :
     \E k \in 1..Len(tracked.output) :
        /\ tracked.output[k] = item
        /\ \A l \in 1..Len(tracked.output) :
              l # k /\ item.id # NoId => tracked.output[l].id # item.id

(* What a stream tells of the resource, from its first event to its last,  *)
(* is what the store keeps, whatever a handler does.                       *)
TellsTheResource == WellFormed /\ EndsWell /\ TerminalIsTheResource /\ OutputIsKept
===============================================================================
