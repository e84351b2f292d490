--------------------------- MODULE ResponsesServer ---------------------------
(***************************************************************************)
(* The concurrent core of packages/agentserver: how ResponsesServer        *)
(* (server.ts) admits a turn, claims its response id, runs the handler     *)
(* (background-driver.ts, foreground.ts), persists its terminal state and  *)
(* replay log through a ResponseProvider, and how the DELETE and /cancel   *)
(* routes (resource-routes.ts) and drain() race with that.                 *)
(*                                                                         *)
(* Atomicity.  The process is single threaded: between two awaits on the   *)
(* store, on the handler or on a timer a step is uninterrupted, and the    *)
(* continuation of a store call runs in the microtasks that follow it.     *)
(* One action is therefore the code between two such awaits.               *)
(*                                                                         *)
(* The provider's writes for one id take effect one at a time, in the order*)
(* they were issued, each with its check and some time after the call; its *)
(* reads are not queued.  FileStore models the default provider access by  *)
(* access, and StoresAtomically there is what is assumed here.  Servers    *)
(* that share a store were given one provider (options.store): left to the *)
(* default, each makes its own over the same files.                        *)
(***************************************************************************)
EXTENDS Naturals, Sequences, FiniteSets

CONSTANTS
  Servers,     \* server instances of one process, given the same provider
  Ids,         \* response ids
  Owners,      \* callers, as x-agent-user-id partitions them
  Turns,       \* the creates that may arrive; a turn is its own generation
  Cancels,     \* the POST /responses/{id}/cancel requests that may arrive
  Deletes,     \* the DELETE /responses/{id} requests that may arrive
  MaxItems,    \* bound on the output items one handler produces
  StoreFails,  \* may an access to the store fail with an I/O error?
  NoTurn, NoRecord

(* A request names its server, id and owner.  A create also says whether   *)
(* it runs in the background, whether it streams and whether it is to be   *)
(* stored; only a stored response may run in the background.               *)
Address == [n : Nat, server : Servers, id : Ids, owner : Owners]
Create  == [n : Nat, server : Servers, id : Ids, owner : Owners,
            background : BOOLEAN, stream : BOOLEAN, store : BOOLEAN]

ASSUME TurnsAssumption ==
  /\ Turns \subseteq Create
  /\ \A t \in Turns : t.background => t.store
ASSUME ClientsAssumption ==
  /\ Cancels \subseteq Address /\ Deletes \subseteq Address
  /\ NoTurn \notin Turns
ASSUME BoundsAssumption == MaxItems \in Nat /\ StoreFails \in BOOLEAN

HandlerTerminals == {"completed", "failed", "incomplete"}
TerminalStatuses == HandlerTerminals \cup {"cancelled"}
Statuses == {"queued", "in_progress"} \cup TerminalStatuses

(* How far a create has come.  "persisting" and "logging" are the awaits   *)
(* on put and putEvents; in "tail" the handler has emitted its terminal    *)
(* event and has not returned yet.                                         *)
Stages == {"absent", "received", "setup", "running", "persisting", "tail",
           "logging", "done", "refused"}

Records == [turn : Turns, status : Statuses, items : 0..MaxItems]
ASSUME NoRecordAssumption == NoRecord \notin Records

VARIABLES
  draining,    \* per server: #draining
  drainWait,   \* per server: the claims drain() waits for
  drained,     \* per server: drain()'s promise has settled
  claims,      \* per server: #claims, a turn or NoTurn for each id
  stage,       \* per turn: see Stages
  phase,       \* per turn: the lifecycle prefix its handler has emitted
  status,      \* per turn: tracker.response.status
  items,       \* per turn: tracker.response.output.length
  cancelRequested, \* per turn: run.cancelRequested
  wire,        \* per turn: the terminal its own caller was given
  record,      \* per id: the stored response or NoRecord
  log,         \* per id: the turn whose replay log is stored, or NoTurn
  queue,       \* per id: the accesses issued to the store, in order
  cancel,      \* per cancel request: its progress and the run it cancels
  delete       \* per delete request: its progress and the run it found

serverVars == <<draining, drainWait, drained, claims>>
turnVars   == <<stage, phase, status, items, cancelRequested, wire>>
storeVars  == <<record, log, queue>>
vars == <<serverVars, turnVars, storeVars, cancel, delete>>

-----------------------------------------------------------------------------
(* The registry and the answers read from it.                              *)

Holds(t) == claims[t.server][t.id] = t
Release(t) ==
  claims' = IF Holds(t) THEN [claims EXCEPT ![t.server][t.id] = NoTurn] ELSE claims

(* Deviation: the run's record is dropped with its terminal state.         *)
HasRunWhileWorking(t) == t.background /\ stage[t] = "running"

(* claim.run is set and the claim's turn still works towards run.done.     *)
HasRun(t) == t.background /\ stage[t] \in {"running", "persisting", "tail", "logging"}

RunFor(a) ==
  LET t == claims[a.server][a.id]
  IN  IF t # NoTurn /\ HasRun(t) /\ t.owner = a.owner THEN t ELSE NoTurn

RunStatus(t) ==
  IF cancelRequested[t] /\ status[t] \notin TerminalStatuses
  THEN "cancelled" ELSE status[t]

(* The store's partition: what get returns to the owner, what put accepts. *)
Stored(i, o)   == record[i] # NoRecord /\ record[i].turn.owner = o
Writable(i, o) == record[i] # NoRecord => record[i].turn.owner = o

(* GET /responses/{id}: the status it answers.                             *)
GetStatus(a) ==
  CASE RunFor(a) # NoTurn -> RunStatus(RunFor(a))
    [] RunFor(a) = NoTurn /\ Stored(a.id, a.owner) -> record[a.id].status
    [] OTHER -> "notfound"

(* An access on its way to the store and the request that awaits it.       *)
Put(t, by, st, n) == [op |-> "put", by |-> by, turn |-> t, status |-> st, items |-> n]
PutEvents(t) == [op |-> "putEvents", by |-> t, turn |-> t]
Remove(d)    == [op |-> "delete", by |-> d]
Issue(i, access) == queue' = [queue EXCEPT ![i] = Append(@, access)]
Await(i, op) == queue[i] # <<>> /\ Head(queue[i]).op = op
Settle(i) == queue' = [queue EXCEPT ![i] = Tail(@)]

Init ==
  /\ draining = [s \in Servers |-> FALSE]
  /\ drainWait = [s \in Servers |-> {}]
  /\ drained = [s \in Servers |-> FALSE]
  /\ claims = [s \in Servers |-> [i \in Ids |-> NoTurn]]
  /\ stage = [t \in Turns |-> "absent"]
  /\ phase = [t \in Turns |-> "none"]
  /\ status = [t \in Turns |-> "queued"]
  /\ items = [t \in Turns |-> 0]
  /\ cancelRequested = [t \in Turns |-> FALSE]
  /\ wire = [t \in Turns |-> "none"]
  /\ record = [i \in Ids |-> NoRecord]
  /\ log = [i \in Ids |-> NoTurn]
  /\ queue = [i \in Ids |-> <<>>]
  /\ cancel = [c \in Cancels |-> [state |-> "idle", turn |-> NoTurn]]
  /\ delete = [d \in Deletes |-> [state |-> "idle", run |-> NoTurn]]

-----------------------------------------------------------------------------
(* POST /responses: admission, the claim, the setup.                       *)

(* The router lets the create in unless the server drains; the body and    *)
(* the history are read next.                                              *)
Receive(t) ==
  /\ stage[t] = "absent"
  /\ stage' = [stage EXCEPT ![t] = IF draining[t.server] THEN "refused" ELSE "received"]
  /\ UNCHANGED <<serverVars, phase, status, items, cancelRequested, wire, storeVars, cancel, delete>>

(* Deviations: no second look at #draining, no look at the registry.       *)
AdmissibleWhileDraining(t) == claims[t.server][t.id] = NoTurn
AdmissibleOverClaim(t) == ~draining[t.server]

(* One synchronous step: the second look at #draining, the look at the     *)
(* registry (409 for the same owner, 404 for another) and the claim.       *)
Admissible(t) == ~draining[t.server] /\ claims[t.server][t.id] = NoTurn
Claim(t) ==
  /\ stage[t] = "received"
  /\ IF Admissible(t)
     THEN /\ claims' = [claims EXCEPT ![t.server][t.id] = t]
          /\ stage' = [stage EXCEPT ![t] = "setup"]
     ELSE /\ stage' = [stage EXCEPT ![t] = "refused"]
          /\ UNCHANGED claims
  /\ UNCHANGED <<draining, drainWait, drained, phase, status, items, cancelRequested,
                 wire, storeVars, cancel, delete>>

(* The awaits of the setup are over: the id is writable, the session is    *)
(* resolved, the handler returned its iterable.                            *)
Start(t) ==
  /\ stage[t] = "setup"
  /\ t.store => Writable(t.id, t.owner)
  /\ stage' = [stage EXCEPT ![t] = "running"]
  /\ UNCHANGED <<serverVars, phase, status, items, cancelRequested, wire, storeVars, cancel, delete>>

(* The create's catch: no run took the claim over, so the id goes back.    *)
Refuse(t) ==
  /\ stage' = [stage EXCEPT ![t] = "refused"]
  /\ Release(t)
  /\ UNCHANGED <<draining, drainWait, drained, phase, status, items, cancelRequested,
                 wire, storeVars, cancel, delete>>
SetupFails(t) == stage[t] = "setup" /\ Refuse(t)

-----------------------------------------------------------------------------
(* The handler's events, as enforceLifecycle lets them through and the     *)
(* tracker folds them.                                                     *)

EmitPrefix(t) ==
  /\ stage[t] = "running"
  /\ \/ /\ phase[t] = "none"
        /\ phase' = [phase EXCEPT ![t] = "created"]
        /\ status' = [status EXCEPT ![t] = "queued"]
     \/ /\ phase[t] = "created"
        /\ phase' = [phase EXCEPT ![t] = "in_progress"]
        /\ status' = [status EXCEPT ![t] = "in_progress"]
  /\ UNCHANGED <<serverVars, stage, items, cancelRequested, wire, storeVars, cancel, delete>>

EmitItem(t) ==
  /\ stage[t] = "running" /\ phase[t] = "in_progress" /\ items[t] < MaxItems
  /\ items' = [items EXCEPT ![t] = @ + 1]
  /\ UNCHANGED <<serverVars, stage, phase, status, cancelRequested, wire, storeVars, cancel, delete>>

(* Deviation: the handler's terminal is honoured after a cancel.           *)
TerminalUnlessCancelled(t, st) == st

(* The driver of a background run: a terminal event is overridden once the *)
(* run is cancelled, persisted while the claim is held, and only then      *)
(* delivered.                                                              *)
TerminalOf(t, st) == IF cancelRequested[t] THEN "cancelled" ELSE st
ItemsOf(t)        == IF cancelRequested[t] THEN 0 ELSE items[t]
DriveTerminal(t, st) ==
  /\ status' = [status EXCEPT ![t] = TerminalOf(t, st)]
  /\ items' = [items EXCEPT ![t] = ItemsOf(t)]
  /\ IF Holds(t)
     THEN /\ Issue(t.id, Put(t, t, TerminalOf(t, st), ItemsOf(t)))
          /\ stage' = [stage EXCEPT ![t] = "persisting"]
          /\ UNCHANGED wire
     ELSE /\ stage' = [stage EXCEPT ![t] = "tail"]
          /\ wire' = [wire EXCEPT ![t] = TerminalOf(t, st)]
          /\ UNCHANGED queue
  /\ UNCHANGED <<serverVars, phase, cancelRequested, record, log, cancel, delete>>

(* A collected foreground turn folds its terminal and reads on.            *)
CollectTerminal(t, st) ==
  /\ status' = [status EXCEPT ![t] = st]
  /\ stage' = [stage EXCEPT ![t] = "tail"]
  /\ UNCHANGED <<serverVars, phase, items, cancelRequested, wire, storeVars, cancel, delete>>

(* The handler's terminal event, or the one enforceLifecycle makes of its  *)
(* failure, its cancellation or its silence.                               *)
HandlerTerminates(t, st) ==
  /\ stage[t] = "running" /\ phase[t] = "in_progress"
  /\ IF t.background THEN DriveTerminal(t, st) ELSE CollectTerminal(t, st)

(* The handler throws before response.created: a status code for a         *)
(* foreground caller, a failed terminal for a background run.              *)
HandlerThrowsEarly(t) ==
  /\ stage[t] = "running" /\ phase[t] = "none"
  /\ IF t.background THEN DriveTerminal(t, "failed") ELSE Refuse(t)

(* The handler returned.  A streamed run that did not outgrow its buffer   *)
(* stores its replay log; a foreground turn is stored and answered.        *)
Finish(t) == stage' = [stage EXCEPT ![t] = "done"] /\ Release(t)
RunEnds(t, overflowed) ==
  /\ stage[t] = "tail" /\ t.background
  /\ IF t.stream /\ ~overflowed /\ Holds(t)
     THEN /\ Issue(t.id, PutEvents(t))
          /\ stage' = [stage EXCEPT ![t] = "logging"]
          /\ UNCHANGED claims
     ELSE Finish(t) /\ UNCHANGED queue
  /\ UNCHANGED <<draining, drainWait, drained, phase, status, items, cancelRequested,
                 wire, record, log, cancel, delete>>
CollectEnds(t) ==
  /\ stage[t] = "tail" /\ ~t.background
  /\ IF t.store /\ Holds(t)
     THEN /\ Issue(t.id, Put(t, t, status[t], items[t]))
          /\ stage' = [stage EXCEPT ![t] = "persisting"]
          /\ UNCHANGED <<claims, wire>>
     ELSE Finish(t) /\ wire' = [wire EXCEPT ![t] = status[t]] /\ UNCHANGED queue
  /\ UNCHANGED <<draining, drainWait, drained, phase, status, items, cancelRequested,
                 record, log, cancel, delete>>

-----------------------------------------------------------------------------
(* The store applies the oldest access to an id, and the request that      *)
(* awaits it goes on.                                                      *)

(* Deviation: the terminal is delivered as if the store had taken it.      *)
PutSettlesUnseen(w, outcome) ==
  IF w.by = w.turn
  THEN /\ wire' = [wire EXCEPT ![w.turn] = w.status]
       /\ IF w.turn.background
          THEN stage' = [stage EXCEPT ![w.turn] = "tail"] /\ UNCHANGED claims
          ELSE Finish(w.turn)
       /\ UNCHANGED cancel
  ELSE /\ cancel' = [cancel EXCEPT ![w.by].state = "answered"]
       /\ UNCHANGED <<wire, stage, claims>>

PutSettles(w, outcome) ==
  IF w.by = w.turn
  THEN /\ wire' = [wire EXCEPT ![w.turn] = outcome]
       /\ IF w.turn.background
          THEN stage' = [stage EXCEPT ![w.turn] = "tail"] /\ UNCHANGED claims
          ELSE Finish(w.turn)
       /\ UNCHANGED cancel
  ELSE /\ cancel' = [cancel EXCEPT ![w.by].state = "answered"]
       /\ UNCHANGED <<wire, stage, claims>>

ApplyPut(i) ==
  /\ Await(i, "put")
  /\ LET w == Head(queue[i]) IN
     /\ Writable(i, w.turn.owner)
     /\ record' = [record EXCEPT ![i] = [turn |-> w.turn, status |-> w.status, items |-> w.items]]
     /\ PutSettles(w, w.status)
  /\ Settle(i)
  /\ UNCHANGED <<draining, drainWait, drained, phase, status, items, cancelRequested, log, delete>>

(* put refuses somebody else's id, or fails.                               *)
RejectPut(i) ==
  /\ Await(i, "put")
  /\ LET w == Head(queue[i]) IN
     /\ StoreFails \/ ~Writable(i, w.turn.owner)
     /\ PutSettles(w, "unstored")
  /\ Settle(i)
  /\ UNCHANGED <<draining, drainWait, drained, phase, status, items, cancelRequested, record, log, delete>>

(* Deviations: the log is written whatever the record says; a stale write  *)
(* is never answered.                                                      *)
Unfenced(i, t) == TRUE
ApplyPutEventsIfFenced(i) ==
  /\ Await(i, "putEvents")
  /\ LET t == Head(queue[i]).turn IN
     /\ record[i] # NoRecord /\ record[i].turn = t
     /\ log' = [log EXCEPT ![i] = t]
     /\ Finish(t)
  /\ Settle(i)
  /\ UNCHANGED <<draining, drainWait, drained, phase, status, items, cancelRequested,
                 wire, record, cancel, delete>>

(* putEvents: only under the generation that is stored; a refusal and a    *)
(* failure are swallowed, and the run is over either way.                  *)
Fenced(i, t) == record[i] # NoRecord /\ record[i].turn = t
ApplyPutEvents(i) ==
  /\ Await(i, "putEvents")
  /\ LET t == Head(queue[i]).turn IN
     /\ \/ log' = [log EXCEPT ![i] = IF Fenced(i, t) THEN t ELSE @]
        \/ StoreFails /\ UNCHANGED log
     /\ Finish(t)
  /\ Settle(i)
  /\ UNCHANGED <<draining, drainWait, drained, phase, status, items, cancelRequested,
                 wire, record, cancel, delete>>

(* delete: the log goes first, then the record, then the claim of the run  *)
(* the route had found.                                                    *)
Drop(run) ==
  claims' = IF run # NoTurn /\ Holds(run)
            THEN [claims EXCEPT ![run.server][run.id] = NoTurn] ELSE claims
DeleteAnswers(d, answer) == delete' = [delete EXCEPT ![d].state = answer]
ApplyDelete(i) ==
  /\ Await(i, "delete")
  /\ LET d == Head(queue[i]).by IN
     \/ /\ Stored(i, d.owner)
        /\ record' = [record EXCEPT ![i] = NoRecord]
        /\ log' = [log EXCEPT ![i] = NoTurn]
        /\ Drop(delete[d].run)
        /\ DeleteAnswers(d, "deleted")
     \/ /\ ~Stored(i, d.owner)
        /\ DeleteAnswers(d, "notfound")
        /\ UNCHANGED <<record, log, claims>>
     \/ /\ StoreFails /\ Stored(i, d.owner)
        /\ log' \in {log, [log EXCEPT ![i] = NoTurn]}
        /\ DeleteAnswers(d, "failed")
        /\ UNCHANGED <<record, claims>>
  /\ Settle(i)
  /\ UNCHANGED <<draining, drainWait, drained, turnVars, cancel>>

-----------------------------------------------------------------------------
(* The id-addressed routes that change state.                              *)

Deletable(run) == run = NoTurn \/ RunStatus(run) \in TerminalStatuses
DeleteArrives(d) ==
  /\ delete[d].state = "idle"
  /\ IF ~draining[d.server] /\ Deletable(RunFor(d))
     THEN /\ delete' = [delete EXCEPT ![d] = [state |-> "deleting", run |-> RunFor(d)]]
          /\ Issue(d.id, Remove(d))
     ELSE DeleteAnswers(d, "refused") /\ UNCHANGED queue
  /\ UNCHANGED <<serverVars, turnVars, record, log, cancel>>

CancelAnswers(c, answer, t) == cancel' = [cancel EXCEPT ![c] = [state |-> answer, turn |-> t]]
CancelArrives(c) ==
  /\ cancel[c].state = "idle"
  /\ LET run == RunFor(c) IN
     \/ /\ ~draining[c.server] /\ run # NoTurn /\ RunStatus(run) \notin TerminalStatuses
        /\ cancelRequested' = [cancelRequested EXCEPT ![run] = TRUE]
        /\ CancelAnswers(c, "grace", run)
     \/ /\ ~draining[c.server] /\ run # NoTurn /\ RunStatus(run) = "cancelled"
        /\ CancelAnswers(c, "repeated", run)
        /\ UNCHANGED cancelRequested
     \/ /\ ~draining[c.server] /\ run = NoTurn /\ GetStatus(c) = "cancelled"
        /\ CancelAnswers(c, "repeated", record[c.id].turn)
        /\ UNCHANGED cancelRequested
     \/ /\ draining[c.server] \/ GetStatus(c) \in HandlerTerminals \cup {"notfound"}
        /\ CancelAnswers(c, "refused", NoTurn)
        /\ UNCHANGED cancelRequested
  /\ UNCHANGED <<serverVars, stage, phase, status, items, wire, storeVars, delete>>

(* Deviation: the cancel route waits for the run itself.                   *)
RunOver(c) == cancel[c].state = "grace" /\ stage[cancel[c].turn] = "done"

(* run.done has settled or the grace has elapsed, whichever came first.    *)
GraceOver(c) == cancel[c].state = "grace"

(* The run is over or its grace is: cancellation wins, on the tracker and, *)
(* while the run still holds its id, in the store.                         *)
GraceEnds(c) ==
  /\ GraceOver(c)
  /\ LET t == cancel[c].turn IN
     /\ status' = [status EXCEPT ![t] = "cancelled"]
     /\ items' = [items EXCEPT ![t] = 0]
     /\ IF Holds(t)
        THEN /\ Issue(t.id, Put(t, c, "cancelled", 0))
             /\ cancel' = [cancel EXCEPT ![c].state = "persisting"]
        ELSE /\ cancel' = [cancel EXCEPT ![c].state = "answered"]
             /\ UNCHANGED queue
  /\ UNCHANGED <<serverVars, stage, phase, cancelRequested, wire, record, log, delete>>

-----------------------------------------------------------------------------
(* drain(): stop admitting, signal every handler, wait for every claim.    *)

ClaimedOn(s) == {claims[s][i] : i \in Ids} \ {NoTurn}
Drain(s) ==
  /\ ~draining[s]
  /\ draining' = [draining EXCEPT ![s] = TRUE]
  /\ drainWait' = [drainWait EXCEPT ![s] = ClaimedOn(s)]
  /\ UNCHANGED <<drained, claims, turnVars, storeVars, cancel, delete>>

(* Deviation: the claim of a create that failed is never settled.          *)
SettledByRun(t) == stage[t] = "done"

Settled(t) == stage[t] \in {"done", "refused"}
DrainEnds(s) ==
  /\ draining[s] /\ ~drained[s]
  /\ \A t \in drainWait[s] : Settled(t)
  /\ drained' = [drained EXCEPT ![s] = TRUE]
  /\ UNCHANGED <<draining, drainWait, claims, turnVars, storeVars, cancel, delete>>

-----------------------------------------------------------------------------
TurnStep(t) ==
  \/ Receive(t) \/ Claim(t) \/ Start(t) \/ SetupFails(t)
  \/ EmitPrefix(t) \/ EmitItem(t)
  \/ \E st \in HandlerTerminals : HandlerTerminates(t, st)
  \/ HandlerThrowsEarly(t)
  \/ \E overflowed \in BOOLEAN : RunEnds(t, overflowed)
  \/ CollectEnds(t)
StoreStep(i) == ApplyPut(i) \/ RejectPut(i) \/ ApplyPutEvents(i) \/ ApplyDelete(i)

(* Every request that came has been answered, every server has drained.    *)
Quiescent ==
  /\ \A t \in Turns : stage[t] = "absent" \/ Settled(t)
  /\ \A c \in Cancels : cancel[c].state \in {"answered", "repeated", "refused"}
  /\ \A d \in Deletes : delete[d].state \in {"deleted", "notfound", "failed", "refused"}
  /\ \A s \in Servers : drained[s]
  /\ UNCHANGED vars

Next ==
  \/ \E t \in Turns : TurnStep(t)
  \/ \E i \in Ids : StoreStep(i)
  \/ \E d \in Deletes : DeleteArrives(d)
  \/ \E c \in Cancels : CancelArrives(c) \/ GraceEnds(c)
  \/ \E s \in Servers : Drain(s) \/ DrainEnds(s)
  \/ Quiescent

Spec == Init /\ [][Next]_vars

(* The store, the timers and the server's own continuations always go on;  *)
(* the handler is not trusted with anything.                               *)
ServerFairness ==
  /\ \A i \in Ids : WF_vars(StoreStep(i))
  /\ \A c \in Cancels : WF_vars(GraceEnds(c))
  /\ \A t \in Turns : WF_vars(Claim(t)) /\ WF_vars(Start(t) \/ SetupFails(t))
  /\ \A s \in Servers : WF_vars(DrainEnds(s))
ServerSpec == Spec /\ ServerFairness

(* What some properties add: every handler that was started comes to an    *)
(* end.                                                                    *)
HandlerStep(t) == stage[t] \in {"running", "tail"} /\ TurnStep(t)
HandlerFairness == \A t \in Turns : WF_vars(HandlerStep(t))

-----------------------------------------------------------------------------
(* Properties.                                                             *)

Accesses ==
  [op : {"put"}, by : Turns \cup Cancels, turn : Turns, status : Statuses, items : 0..MaxItems]
    \cup [op : {"putEvents"}, by : Turns, turn : Turns]
    \cup [op : {"delete"}, by : Deletes]

(* Every variable keeps the type its declaration states.                   *)
TypeOK ==
  /\ draining \in [Servers -> BOOLEAN]
  /\ drainWait \in [Servers -> SUBSET Turns]
  /\ drained \in [Servers -> BOOLEAN]
  /\ claims \in [Servers -> [Ids -> Turns \cup {NoTurn}]]
  /\ stage \in [Turns -> Stages]
  /\ phase \in [Turns -> {"none", "created", "in_progress"}]
  /\ status \in [Turns -> Statuses]
  /\ items \in [Turns -> 0..MaxItems]
  /\ cancelRequested \in [Turns -> BOOLEAN]
  /\ wire \in [Turns -> {"none", "unstored"} \cup TerminalStatuses]
  /\ record \in [Ids -> Records \cup {NoRecord}]
  /\ log \in [Ids -> Turns \cup {NoTurn}]
  /\ queue \in [Ids -> Seq(Accesses)]
  /\ cancel \in [Cancels -> [state : {"idle", "grace", "persisting", "answered", "repeated", "refused"},
                             turn : Turns \cup {NoTurn}]]
  /\ delete \in [Deletes -> [state : {"idle", "deleting", "deleted", "notfound", "failed", "refused"},
                             run : Turns \cup {NoTurn}]]

(* What has been decided about a turn: a cancellation from the moment it   *)
(* is accepted, otherwise the terminal state its handler reached.          *)
Decided(t) == stage[t] \in {"persisting", "tail", "logging", "done"}
Verdict(t) ==
  IF cancelRequested[t] THEN "cancelled" ELSE IF Decided(t) THEN status[t] ELSE "none"

(* The server keeps the contract: one verdict per turn, and everything the *)
(* store and the turn's caller ever see of the turn agrees with it, however*)
(* the cancel route, the handler's own terminal, storage failures and a    *)
(* DELETE interleave (background-driver.ts cancelledTerminal, terminal.ts, *)
(* resource-routes.ts cancelResponse).                                     *)
Contract == INSTANCE ResponseContract WITH
  Verdicts <- TerminalStatuses, Undecided <- "none", Unfiled <- NoRecord, Unstored <- "unstored",
  verdict <- [t \in Turns |-> Verdict(t)],
  told <- wire,
  filed <- [i \in Ids |-> IF record[i] = NoRecord THEN NoRecord
                          ELSE [turn |-> record[i].turn, verdict |-> record[i].status]]
KeepsContract == Contract!Spec

(* Two turns on one id of one server never work at the same time unless    *)
(* one of them has been cancelled: the claim is taken before the awaits of *)
(* the create and given up only by its own turn or by a DELETE of a        *)
(* finished one (server.ts #createResponse, resource-routes.ts).           *)
Working(t) == stage[t] \in {"setup", "running", "persisting"}
ExclusiveTurn ==
  \A t, u \in Turns :
     /\ Working(t) /\ Working(u)
     /\ t.server = u.server /\ t.id = u.id
     /\ ~cancelRequested[t] /\ ~cancelRequested[u]
     => t = u

(* No id stays pinned: whoever is in the registry is a turn that is still  *)
(* going on under that id of that server, so the 409 it causes will end.   *)
ClaimsAreLive ==
  \A s \in Servers, i \in Ids :
     LET t == claims[s][i] IN
     t # NoTurn => /\ t.server = s /\ t.id = i
                   /\ stage[t] \in {"setup", "running", "persisting", "tail", "logging"}

(* Persist before terminal: a caller that is told completed, failed or     *)
(* incomplete for a stored turn can come back with previous_response_id at *)
(* that very moment (terminal.ts, foreground.ts collectResponse).          *)
ToldIsStored ==
  [][\A t \in Turns :
       (t.store /\ wire[t] = "none" /\ wire'[t] \in HandlerTerminals)
       => (record'[t.id] # NoRecord /\ record'[t.id].turn = t)]_vars

(* A cancel that was answered holds for good: whatever later answers under *)
(* the id on behalf of that turn says cancelled, and what the store keeps  *)
(* of it has no output for a follow-up turn to replay.                     *)
Promised(c) == cancel[c].state \in {"answered", "repeated"}
CancelIsFinal ==
  \A c \in Cancels : Promised(c) =>
     LET t == cancel[c].turn IN
     /\ RunFor(c) = t => RunStatus(t) = "cancelled"
     /\ record[c.id] # NoRecord /\ record[c.id].turn = t
          => record[c.id].status = "cancelled" /\ record[c.id].items = 0

(* A deleted response does not stay replayable: there is no replay log     *)
(* under an id without a response (store fence and delete's cascade).      *)
NoOrphanLog == \A i \in Ids : log[i] # NoTurn => record[i] # NoRecord

(* A replay log that can be read is only ever lost to a DELETE or to a     *)
(* later turn: a write that arrives late, from a turn that no longer holds *)
(* the id on this server or never held it, does not replace it.            *)
DeleteWentThrough(d) == delete[d].state = "deleting" /\ delete'[d].state \in {"deleted", "failed"}
LogIsKept ==
  [][\A i \in Ids :
       (/\ record[i] # NoRecord /\ log[i] = record[i].turn
        /\ record'[i] # NoRecord /\ record'[i].turn = record[i].turn
        /\ ~\E d \in Deletes : d.id = i /\ DeleteWentThrough(d))
       => log'[i] = log[i]]_vars

(* There is no moment where a background response answers neither live nor *)
(* from storage: GET turns from a status to 404 only when a DELETE of the  *)
(* id goes through or when the run that answered ends and its terminal     *)
(* state could not be stored (background-driver.ts, resource-routes.ts).   *)
NoGapInAnswers ==
  [][\A t \in Turns :
       (GetStatus(t) # "notfound" /\ GetStatus(t)' = "notfound")
       => \/ \E d \in Deletes : d.id = t.id /\ DeleteWentThrough(d)
          \/ \E u \in Turns : u = RunFor(t) /\ wire'[u] = "unstored" /\ Settled(u)']_vars

(* Once drain() has resolved, no turn of that server is being set up, run  *)
(* or persisted, except a cancelled one: a create that was let in before   *)
(* the shutdown was either waited for or refused at its claim.             *)
DrainedIsQuiet ==
  \A s \in Servers : drained[s] =>
     \A t \in Turns : t.server = s /\ Working(t) => cancelRequested[t]

(* If handlers come to an end, every create that was let in is over some   *)
(* time, stored or refused.                                                *)
EveryTurnEnds == HandlerFairness => \A t \in Turns : stage[t] = "received" ~> Settled(t)

(* If handlers come to an end, a shutdown that has begun ends.             *)
DrainEndsEventually == HandlerFairness => \A s \in Servers : draining[s] ~> drained[s]

(* A cancel that was accepted is answered, whatever the handler does.      *)
CancelIsAnswered == \A c \in Cancels : cancel[c].state = "grace" ~> Promised(c)
=============================================================================
