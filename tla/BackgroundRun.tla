----------------------------- MODULE BackgroundRun -----------------------------
(***************************************************************************)
(* The event feed of one streamed background run: background-run.ts, with  *)
(* the driver's order of terminal, replay log and finish() and with the    *)
(* subscribers that the create and GET ?stream=true open.                  *)
(*                                                                         *)
(* An event is its sequence_number: SequenceNumberWriter stamps each       *)
(* delivered event with the number of events delivered before it.  The     *)
(* generator behind a subscription runs without interruption from one      *)
(* yield or await to the next, which is one action here.                   *)
(***************************************************************************)
EXTENDS Integers, Sequences

CONSTANTS
  Followers,     \* subscriptions that may be opened
  MaxEvents,     \* maxStreamEvents, the retention cap
  MaxDelivered,  \* bound on the length of the run's stream
  Cursors,       \* starting_after values; the create itself uses -1
  NoLog

ASSUME MaxEventsAssumption == MaxEvents \in Nat \ {0}
ASSUME MaxDeliveredAssumption == MaxDelivered \in Nat \ {0}
ASSUME CursorsAssumption == Cursors \subseteq Nat \cup {-1}
ASSUME NoLogAssumption == NoLog \notin Seq(Nat)

VARIABLES
  buffer,      \* #buffer, the retained window
  base,        \* #base, the position of buffer[0] in the delivery order
  delivered,   \* #delivered
  overflowed,  \* overflowed
  driver,      \* the driver: "running", "terminated", "logged", "finished"
  replayLog,   \* what storeReplayLog handed to the store, or NoLog
  at,          \* per follower: where its generator is
  index,       \* per follower: follower.index
  after,       \* per follower: startingAfter
  closing,     \* per follower: its consumer has asked it to return
  last         \* per follower: the last event it yielded; its cursor before

runVars == <<buffer, base, delivered, overflowed, driver, replayLog>>
followerVars == <<at, index, after, closing, last>>
vars == <<runVars, followerVars>>

(* "out": not subscribed.  "reading": not started, or suspended at a yield.*)
(* "waiting": in the await for the next wake.  "woken": that await has     *)
(* resolved.  "ended", "gone", "threw": returned, torn down, failed.       *)
Attached == {"reading", "waiting", "woken"}
Places   == Attached \cup {"out", "ended", "gone", "threw"}

Init ==
  /\ buffer = <<>> /\ base = 0 /\ delivered = 0 /\ overflowed = FALSE
  /\ driver = "running" /\ replayLog = NoLog
  /\ at = [f \in Followers |-> "out"]
  /\ index = [f \in Followers |-> 0]
  /\ after = [f \in Followers |-> -1]
  /\ closing = [f \in Followers |-> FALSE]
  /\ last = [f \in Followers |-> -1]

-----------------------------------------------------------------------------
(* #trim.  Before the cap is crossed everything is kept.  After it, the    *)
(* window starts at the slowest cursor in S, but never further back than   *)
(* MaxEvents: "keep" is the last position that qualifies.                  *)

(* Deviation: only the newest is kept.                                     *)
KeepNewest(keep, d, S) == keep = base \/ keep < d

Keep(keep, d, S) ==
  \/ keep = base \/ keep = d - MaxEvents
  \/ \A f \in S : keep <= index[f]
IsKeep(keep, d, S) ==
  /\ Keep(keep, d, S)
  /\ \A later \in (keep + 1)..d : ~Keep(later, d, S)

Trim(window, d, over, S) ==
  IF over
  THEN \E keep \in base..d :
          /\ IsKeep(keep, d, S)
          /\ base' = keep
          /\ buffer' = SubSeq(window, keep - base + 1, Len(window))
  ELSE UNCHANGED base /\ buffer' = window

Subscribed == {f \in Followers : at[f] \in Attached}

-----------------------------------------------------------------------------
(* The run.                                                                *)

Wake == at' = [f \in Followers |-> IF at[f] = "waiting" THEN "woken" ELSE at[f]]

(* deliver(): push, count, cross the cap, trim, wake.                      *)
Deliver(terminal) ==
  /\ driver = "running"
  /\ delivered < MaxDelivered /\ (delivered + 1 = MaxDelivered => terminal)
  /\ delivered' = delivered + 1
  /\ overflowed' = (overflowed \/ delivered + 1 > MaxEvents)
  /\ Trim(Append(buffer, delivered), delivered + 1, overflowed', Subscribed)
  /\ driver' = IF terminal THEN "terminated" ELSE driver
  /\ Wake
  /\ UNCHANGED <<replayLog, index, after, closing, last>>

(* The handler has returned: an intact log is stored.                      *)
StoreLog ==
  /\ driver = "terminated"
  /\ replayLog' = IF overflowed THEN NoLog ELSE buffer
  /\ driver' = "logged"
  /\ UNCHANGED <<buffer, base, delivered, overflowed, followerVars>>

(* Deviation: finish() does not wake anybody.                              *)
FinishSilently ==
  /\ driver = "logged"
  /\ driver' = "finished"
  /\ UNCHANGED <<buffer, base, delivered, overflowed, replayLog, followerVars>>

(* finish()                                                                *)
Finish ==
  /\ driver = "logged"
  /\ driver' = "finished"
  /\ Wake
  /\ UNCHANGED <<buffer, base, delivered, overflowed, replayLog, index, after, closing, last>>

-----------------------------------------------------------------------------
(* The subscriptions.                                                      *)

(* The create's own stream, or a GET that finds the run registered and not *)
(* overflowed.  The generator notes its cursor at its first pull: the step *)
(* is the subscription and that pull, with nothing in between.             *)
Follow(f, cursor) ==
  /\ at[f] = "out" /\ ~overflowed /\ driver # "finished"
  /\ at' = [at EXCEPT ![f] = "reading"]
  /\ index' = [index EXCEPT ![f] = base]
  /\ after' = [after EXCEPT ![f] = cursor]
  /\ last' = [last EXCEPT ![f] = cursor]
  /\ UNCHANGED <<runVars, closing>>

(* The position the loop continues at: a cursor the window has overtaken   *)
(* is picked up at the window's front.                                     *)
Position(f) == IF index[f] < base THEN base ELSE index[f]
EventAt(position) == buffer[position - base + 1]
InWindow(position) == position - base + 1 \in DOMAIN buffer

(* "subscriber cursor left the retained window"                            *)
Escaped(f) == Position(f) < delivered /\ ~InWindow(Position(f))

(* Deviation: a finished run ends its subscriptions at once.               *)
YieldableWhileRunning(f) ==
  {p \in Position(f)..(delivered - 1) :
     driver # "finished" /\ ~Escaped(f) /\ EventAt(p) > after[f]}

(* The events the inner loop may yield: those past startingAfter.          *)
Yieldable(f) ==
  {p \in Position(f)..(delivered - 1) : ~Escaped(f) /\ EventAt(p) > after[f]}

(* The finally block: the cursor goes, and what only it held open with it. *)
Detach(f, place) ==
  /\ at' = [at EXCEPT ![f] = place]
  /\ Trim(buffer, delivered, overflowed, Subscribed \ {f})

Yield(f) ==
  /\ at[f] \in {"reading", "woken"}
  /\ \E p \in Yieldable(f) :
        /\ \A q \in Yieldable(f) : p <= q
        /\ index' = [index EXCEPT ![f] = p + 1]
        /\ last' = [last EXCEPT ![f] = EventAt(p)]
  /\ IF closing[f] THEN Detach(f, "gone")
     ELSE at' = [at EXCEPT ![f] = "reading"] /\ UNCHANGED <<base, buffer>>
  /\ UNCHANGED <<delivered, overflowed, driver, replayLog, after, closing>>

(* Nothing left to yield: the run is over, or the next event is awaited.   *)
CaughtUp(f) ==
  /\ at[f] \in {"reading", "woken"}
  /\ Yieldable(f) = {}
  /\ index' = [index EXCEPT ![f] = delivered]
  /\ IF Escaped(f) THEN Detach(f, "threw")
     ELSE IF driver = "finished" THEN Detach(f, "ended")
     ELSE at' = [at EXCEPT ![f] = "waiting"] /\ UNCHANGED <<base, buffer>>
  /\ UNCHANGED <<delivered, overflowed, driver, replayLog, after, closing, last>>

(* The client goes away.  A generator suspended at a yield returns at once;*)
(* one that is inside its await returns at its next yield.                 *)
Leave(f) ==
  \/ /\ at[f] = "reading"
     /\ Detach(f, "gone")
     /\ UNCHANGED <<delivered, overflowed, driver, replayLog, index, after, closing, last>>
  \/ /\ at[f] \in {"waiting", "woken"} /\ ~closing[f]
     /\ closing' = [closing EXCEPT ![f] = TRUE]
     /\ UNCHANGED <<runVars, at, index, after, last>>

-----------------------------------------------------------------------------
(* The run may rest once it has ended; that its subscribers do not is for  *)
(* EveryFollowerEnds to say.                                               *)
Quiescent == driver = "finished" /\ UNCHANGED vars

RunStep == (\E terminal \in BOOLEAN : Deliver(terminal)) \/ StoreLog \/ Finish
Pull(f) == Yield(f) \/ CaughtUp(f)
Next ==
  \/ RunStep
  \/ \E f \in Followers : (\E cursor \in Cursors : Follow(f, cursor)) \/ Pull(f) \/ Leave(f)
  \/ Quiescent

Spec == Init /\ [][Next]_vars

(* The run goes on, and every subscription is pulled by its consumer until *)
(* that consumer goes away.                                                *)
FairSpec == Spec /\ WF_vars(RunStep) /\ \A f \in Followers : WF_vars(Pull(f))

-----------------------------------------------------------------------------
(* Properties.                                                             *)

(* Every variable keeps the type its declaration states.                   *)
TypeOK ==
  /\ delivered \in Nat /\ base \in 0..delivered /\ buffer \in Seq(Nat) /\ overflowed \in BOOLEAN
  /\ driver \in {"running", "terminated", "logged", "finished"}
  /\ replayLog \in Seq(Nat) \cup {NoLog}
  /\ at \in [Followers -> Places]
  /\ index \in [Followers -> 0..delivered]
  /\ after \in [Followers -> Nat \cup {-1}]
  /\ closing \in [Followers -> BOOLEAN]
  /\ last \in [Followers -> Nat \cup {-1}]

(* The window is exactly the tail of the stream that starts at base: the   *)
(* cursors stay meaningful while #trim moves it.                           *)
WindowIsTail ==
  /\ Len(buffer) = delivered - base
  /\ \A i \in 1..Len(buffer) : buffer[i] = base + i - 1

(* The retention cap is a memory bound that a client which stops reading   *)
(* cannot defeat.                                                          *)
MemoryBounded == Len(buffer) <= MaxEvents

(* A subscriber is never cut off by the window moving under it: the        *)
(* generator's own error is unreachable.                                   *)
NeverThrows == \A f \in Followers : at[f] # "threw"

(* A log that is stored for replay starts with response.created and has    *)
(* every event up to the terminal one.                                     *)
ReplayLogIsWhole ==
  replayLog # NoLog => /\ Len(replayLog) = delivered
                       /\ \A i \in 1..Len(replayLog) : replayLog[i] = i - 1

(* A subscription that ends of its own accord has carried its client to    *)
(* the terminal event, even when the client was slow and the cap crossed.  *)
EndsWithTerminal == \A f \in Followers : at[f] = "ended" => last[f] >= delivered - 1

(* Whoever gets the stream of a run to its end, live or from the store,    *)
(* has it to the terminal event.                                           *)
StreamIsWhole == ReplayLogIsWhole /\ EndsWithTerminal

(* Once replay is off the table nothing is retained that no subscriber     *)
(* still needs.                                                            *)
NothingRetainedForNobody == overflowed /\ Subscribed = {} => buffer = <<>>

(* A subscriber reads the events in order and without a gap, unless it has *)
(* fallen more than MaxEvents behind.                                      *)
GapOnlyWhenLapped ==
  [][\A f \in Followers :
       (at[f] \in Attached /\ last'[f] # last[f])
       => \/ last'[f] = last[f] + 1
          \/ last'[f] > last[f] /\ last[f] + 1 < delivered - MaxEvents]_vars

(* Every subscription comes to an end: no wake is lost between the check   *)
(* of finished and the await.                                              *)
EveryFollowerEnds ==
  \A f \in Followers : at[f] = "reading" ~> at[f] \in {"ended", "gone"}
===============================================================================
