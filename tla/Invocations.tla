----------------------------- MODULE Invocations -----------------------------
(* The turns of an agent behind the Invocations protocol: the handler of       *)
(* foundry/src/hosting/invocations.ts, its sessions and their queues, and the  *)
(* body that agentserver/src/invocations.ts wraps around the handler's.        *)
(*                                                                             *)
(* A streamed turn is a run that is asked for one update at a time by the      *)
(* handler's stream, which reads one text ahead, which the body reads one text *)
(* ahead.  The run's end is one step, with everything it saves; what it says   *)
(* is numbered.  Update texts that are empty ask again at once.                *)
EXTENDS Naturals, Sequences, FiniteSets, SequencesExt
CONSTANTS Requests, NoRequest, Keys, MaxSessions,
          MaxTexts,  \* bound on the texts of a run
          MaxStreams \* bound on the bodies that are open at a time

ASSUME InvocationsAssumption == NoRequest \notin Requests /\ MaxSessions \in Nat

VARIABLES
  sessions, \* the map, least recently used first: [key, by], by the request it was made for
  locks,    \* sessionLocks: the tail of each key's queue, or NoRequest
  released, \* the requests that have released their session
  turn,     \* of each request, see NewTurn
  draining
invokedVars == <<sessions, locks, released, turn, draining>>

NewTurn ==
  [pc |-> "new",         \* "waiting", "answering", "streaming", "over"
   key |-> "", behind |-> NoRequest, session |-> NoRequest,
   run |-> "none",       \* "starting", "busy", "parked" at an update, "ending", "left", "over"
   said |-> 0,
   inner |-> <<>>, source |-> "open", \* the handler's stream: "closed", "errored", "cancelled"
   read |-> "none", text |-> <<>>,    \* PendingRead: "reading", "settled", with its outcome
   pulling |-> FALSE, told |-> <<>>,
   body |-> "open"]      \* "cancelled"; "hurried" if the run was asked for an update then

InvokedInit ==
  /\ sessions = <<>> /\ locks = [k \in Keys |-> NoRequest]
  /\ released = {} /\ draining = FALSE
  /\ turn = [r \in Requests |-> NewTurn]

Key(r) == turn[r].key
Set(r, now) == turn' = [turn EXCEPT ![r] = now]
Gone(now) == [NewTurn EXCEPT !.pc = "over", !.key = now.key]

-----------------------------------------------------------------------------
(* Deviation: the queue is forgotten with its first request.                   *)
UnlocksAlways(r) ==
  /\ released' = released \cup {r}
  /\ locks' = [locks EXCEPT ![Key(r)] = NoRequest]

(* The function that acquireSession answers with.                              *)
Unlocks(r) ==
  /\ released' = released \cup {r}
  /\ locks' = [locks EXCEPT ![Key(r)] = IF @ = r THEN NoRequest ELSE @]
Keeps == UNCHANGED <<released, locks>>

(* #route and acquireSession: a request joins the queue of its key.            *)
Arrive(r, key) ==
  /\ turn[r].pc = "new" /\ ~draining
  /\ Set(r, [turn[r] EXCEPT !.pc = "waiting", !.key = key, !.behind = locks[key]])
  /\ locks' = [locks EXCEPT ![key] = r]
  /\ UNCHANGED <<sessions, released, draining>>

(* Only a session that nobody holds or waits for is evicted.                   *)
Evictable == {i \in 1 .. Len(sessions) : locks[sessions[i].key] = NoRequest}

(* sessionFor: the session of the key is the one used last now; a new one      *)
(* takes the place of the first that may go.                                   *)
HasSession(key) == \E i \in 1 .. Len(sessions) : sessions[i].key = key
Exhausted(key) == ~HasSession(key) /\ Len(sessions) >= MaxSessions /\ Evictable = {}
Moved(i, entry) == sessions' = Append(RemoveAt(sessions, i), entry)
SessionFor(r) ==
  \/ \E i \in 1 .. Len(sessions) : sessions[i].key = Key(r) /\ Moved(i, sessions[i])
  \/ /\ ~HasSession(Key(r))
     /\ LET new == [key |-> Key(r), by |-> r]
        IN  \/ Len(sessions) < MaxSessions /\ sessions' = Append(sessions, new)
            \/ /\ Len(sessions) >= MaxSessions
               /\ \E i \in Evictable : (\A j \in Evictable : i <= j) /\ Moved(i, new)

(* The request before it has released the session.                             *)
Granted(r) == turn[r].pc = "waiting" /\ (turn[r].behind = NoRequest \/ turn[r].behind \in released)

(* 503                                                                         *)
Refuse(r) ==
  /\ Granted(r) /\ Exhausted(Key(r))
  /\ Set(r, Gone(turn[r]))
  /\ Unlocks(r)
  /\ UNCHANGED <<sessions, draining>>

(* A turn that is awaited works until it ends; a streamed one has its first    *)
(* update asked for by the stream.                                             *)
StartTurn(r) ==
  /\ Granted(r) /\ ~Exhausted(Key(r))
  /\ SessionFor(r)
  /\ \E pc \in {"answering", "streaming"} :
       /\ pc = "streaming" => Cardinality({q \in Requests : turn[q].pc = pc}) < MaxStreams
       /\ Set(r, [turn[r] EXCEPT !.pc = pc, !.session = Last(sessions').by, !.run = "starting"])
  /\ UNCHANGED <<locks, released, draining>>

(* The run ends or fails, and agent.run settles.                               *)
Answer(r) ==
  /\ turn[r].pc = "answering"
  /\ Set(r, Gone(turn[r]))
  /\ Unlocks(r)
  /\ UNCHANGED <<sessions, draining>>

-----------------------------------------------------------------------------
(* The handler's stream.                                                       *)
Streams(r) == turn[r].pc = "streaming"

(* What a run needs before its model is called has been awaited.               *)
BeginRun(r) ==
  /\ Streams(r) /\ turn[r].run = "starting"
  /\ Set(r, [turn[r] EXCEPT !.run = "busy"])
  /\ Keeps /\ UNCHANGED <<sessions, draining>>

(* pull: the stream has room.  A run whose signal is aborted ends.             *)
Ask(r) ==
  /\ Streams(r) /\ turn[r].run = "parked" /\ turn[r].source = "open" /\ turn[r].inner = <<>>
  /\ Set(r, [turn[r] EXCEPT !.run = IF draining THEN "ending" ELSE "busy"])
  /\ Keeps /\ UNCHANGED <<sessions, draining>>

(* The run says something.  When the stream was cancelled meanwhile the text   *)
(* finds it closed, and the session is released in the catch; the run's        *)
(* return() takes its effect now.                                              *)
Say(r) ==
  /\ Streams(r) /\ turn[r].run = "busy" /\ turn[r].said < MaxTexts
  /\ IF turn[r].source = "cancelled"
     THEN Set(r, [turn[r] EXCEPT !.run = "ending"]) /\ Unlocks(r)
     ELSE /\ Set(r, [turn[r] EXCEPT !.run = "parked", !.said = @ + 1, !.inner = <<turn[r].said + 1>>])
          /\ Keeps
  /\ UNCHANGED <<sessions, draining>>

(* Its last update, or a failure: its hooks are still to be run.               *)
LastUpdate(r) ==
  /\ Streams(r) /\ turn[r].run = "busy"
  /\ Set(r, [turn[r] EXCEPT !.run = "ending"])
  /\ Keeps /\ UNCHANGED <<sessions, draining>>

(* The run has ended: the pull or the cancel that waited for it releases the   *)
(* session.                                                                    *)
RunEnds(r) ==
  /\ Streams(r) /\ turn[r].run = "ending"
  /\ IF turn[r].source = "cancelled"
     THEN Set(r, Gone(turn[r]))
     ELSE \E source \in {"closed", "errored"} : Set(r, [turn[r] EXCEPT !.run = "over", !.source = source])
  /\ Unlocks(r)
  /\ UNCHANGED <<sessions, draining>>

-----------------------------------------------------------------------------
(* The body that the server answers with.                                      *)
Open(r) == Streams(r) /\ turn[r].body = "open"

(* pull, for a client that has read all there was: the read that is under way  *)
(* is waited for, or a new one is started.                                     *)
PullBody(r) ==
  /\ Open(r) /\ ~turn[r].pulling
  /\ Set(r, [turn[r] EXCEPT !.pulling = TRUE, !.read = IF @ = "none" THEN "reading" ELSE @])
  /\ Keeps /\ UNCHANGED <<sessions, draining>>

(* The read settles, and wakes the pull if one waits.                          *)
Settle(r) ==
  /\ Open(r) /\ turn[r].read = "reading"
  /\ turn[r].inner # <<>> \/ turn[r].source # "open"
  /\ Set(r, [turn[r] EXCEPT !.read = "settled", !.text = turn[r].inner, !.inner = <<>>])
  /\ Keeps /\ UNCHANGED <<sessions, draining>>

(* Silence past the deadline: the client is sent a comment.                    *)
KeepAlive(r) ==
  /\ Open(r) /\ turn[r].pulling /\ turn[r].read = "reading"
  /\ Set(r, [turn[r] EXCEPT !.pulling = FALSE])
  /\ Keeps /\ UNCHANGED <<sessions, draining>>

(* The text goes into the body; an end or an error ends it.                    *)
Wake(r) ==
  /\ Open(r) /\ turn[r].pulling /\ turn[r].read = "settled"
  /\ Set(r, IF turn[r].text # <<>>
            THEN [turn[r] EXCEPT !.pulling = FALSE, !.read = "none", !.told = @ \o turn[r].text, !.text = <<>>]
            ELSE Gone(turn[r]))
  /\ Keeps /\ UNCHANGED <<sessions, draining>>

(* The client hangs up: the handler's stream is cancelled unless it has ended, *)
(* and the run is asked to return.  At an update it does; before an update it  *)
(* does later; of a run that has yet to start, or is about to end, nothing is  *)
(* waited for.                                                                 *)
HungUp(r, run, body) == [turn[r] EXCEPT !.body = body, !.source = "cancelled", !.run = run]
Cancel(r) ==
  /\ Open(r)
  /\ \/ turn[r].source # "open" /\ Set(r, Gone(turn[r])) /\ Keeps
     \/ /\ turn[r].source = "open"
        /\ \/ turn[r].run = "parked"   /\ Set(r, HungUp(r, "ending", "cancelled")) /\ Keeps
           \/ turn[r].run = "busy"     /\ Set(r, HungUp(r, "busy", "hurried")) /\ Keeps
           \/ turn[r].run = "starting" /\ Set(r, HungUp(r, "left", "hurried")) /\ Unlocks(r)
           \/ turn[r].run = "ending"   /\ Set(r, HungUp(r, "ending", "hurried")) /\ Unlocks(r)
  /\ UNCHANGED <<sessions, draining>>

(* A run that had yet to start goes on to its first update, and stops there.   *)
LeftBehind(r) ==
  /\ Streams(r) /\ turn[r].run = "left"
  /\ Set(r, Gone(turn[r]))
  /\ Keeps /\ UNCHANGED <<sessions, draining>>

Drain ==
  /\ ~draining /\ draining' = TRUE
  /\ UNCHANGED <<sessions, locks, released, turn>>

InvokedDone ==
  /\ \A r \in Requests : turn[r].pc = "over" \/ (draining /\ turn[r].pc = "new")
  /\ UNCHANGED invokedVars

InvokedNext ==
  \/ \E r \in Requests :
       \/ \E key \in Keys : Arrive(r, key)
       \/ Refuse(r) \/ StartTurn(r) \/ Answer(r)
       \/ BeginRun(r) \/ Ask(r) \/ Say(r) \/ LastUpdate(r) \/ RunEnds(r)
       \/ PullBody(r) \/ Settle(r) \/ KeepAlive(r) \/ Wake(r) \/ Cancel(r) \/ LeftBehind(r)
  \/ Drain \/ InvokedDone
InvokedSpec == InvokedInit /\ [][InvokedNext]_invokedVars

-----------------------------------------------------------------------------
Working(r) == turn[r].run \in {"starting", "busy", "parked", "ending", "left"}
Hurried(r) == turn[r].body = "hurried"
Alone(r, q) == r # q /\ Working(r) /\ Working(q) => Key(r) # Key(q)

(* "Holding the lock through streamed response consumption prevents two turns  *)
(* from reading and then overwriting the same transcript."                     *)
OneTurnAtATime == \A r, q \in Requests : Alone(r, q)

(* Turns of one session come one after the other, also behind a queue that     *)
(* empties and fills again, unless a client has hung up in the middle; and the *)
(* session of a turn is not evicted under it.                                  *)
OneAfterTheOther ==
  \A r \in Requests : Working(r) /\ ~Hurried(r) =>
    /\ \A q \in Requests : Alone(r, q) \/ Hurried(q)
    /\ \E i \in 1 .. Len(sessions) : sessions[i] = [key |-> Key(r), by |-> turn[r].session]

(* Nobody is left to wait: the tail of a queue has a turn to come.             *)
NoneWaitsForever ==
  /\ \A r \in Requests : turn[r].pc = "over" => r \in released
  /\ \A key \in Keys : locks[key] # NoRequest => locks[key] \notin released
  /\ Len(sessions) <= MaxSessions

(* A client reads what the run said, each text once and in order, whatever     *)
(* keep-alives come between.                                                   *)
SaysAll ==
  \A r \in Requests : Open(r) =>
    turn[r].told \o turn[r].text \o turn[r].inner = [i \in 1 .. turn[r].said |-> i]

(* What the caller of a session is answered is of its own turn.                *)
TurnsStayApart == OneAfterTheOther /\ NoneWaitsForever /\ SaysAll
=============================================================================
