--------------------------- MODULE ForegroundStream ---------------------------
(***************************************************************************)
(* One streamed and stored foreground turn: streamResponse of foreground.ts*)
(* with the TerminalPersister of terminal.ts, the body of toSseStream      *)
(* (sse.ts), and the claim that releaseSignals (server.ts) settles and     *)
(* drain() waits for.                                                      *)
(*                                                                         *)
(* Two generators stand behind each other: the source (enforceLifecycle    *)
(* over the handler) and the writer (numbered).  A generator serves next() *)
(* and return() one at a time and in order, so a return() that comes while *)
(* a pull is pending takes effect after that pull.  One action is the code *)
(* between two awaits on the handler, the store or the client; what it     *)
(* settles continues in the microtasks that follow, the puller before a    *)
(* return() that was queued behind its pull.  The handler's own cleanup is *)
(* taken not to throw.                                                     *)
(***************************************************************************)
Terminals == {"completed", "failed", "incomplete"}
Statuses  == {"queued", "in_progress"} \cup Terminals
NoRecord  == "absent"

VARIABLES
  answer,    \* the HTTP answer: "opening", "committed", "rejected"
  source,    \* the source: "busy" with a pull, "idle" at a yield, "closed"
  tracked,   \* tracker.response.status
  writer,    \* "parked" at a yield, "pulling", "persisting", "ending", "over"
  teardown,  \* windDown: "none", "closing", "recording", "over"
  attempted, \* persister.#attempted
  puts,      \* who has offered the turn to the store: "writer", "teardown"
  settled,   \* whose put is over
  record,    \* the status the store holds, or NoRecord
  claimed,   \* the turn holds its claim
  body,      \* the SSE body: "open", "closed", "cancelled", "failed"
  told,      \* the last event written into the body
  aborted,   \* what set off the abort signal: "none", "client", "shutdown"
  drain      \* drain(): "none", "waiting", "settled"

recordVars == <<attempted, puts, settled, record>>
bodyVars  == <<body, told>>
foregroundVars == <<answer, source, tracked, writer, teardown, recordVars, claimed,
                    bodyVars, aborted, drain>>

ForegroundInit ==
  /\ answer = "opening" /\ source = "busy" /\ tracked = "queued"
  /\ writer = "parked" /\ teardown = "none"
  /\ attempted = FALSE /\ puts = {} /\ settled = {} /\ record = NoRecord
  /\ claimed = TRUE
  /\ body = "open" /\ told = "none"
  /\ aborted = "none" /\ drain = "none"

-----------------------------------------------------------------------------
(* The teardown and the writer's end.                                      *)

(* windDown: at most once, and first of all it asks the source to return.  *)
WindDown == teardown' = IF teardown = "none" THEN "closing" ELSE teardown

(* The writer is over, and with it a body that still was open.             *)
WriterOver == writer' = "over" /\ body' = IF body = "open" THEN "closed" ELSE body

(* The writer's finally.  It waits for the teardown it starts, and does    *)
(* not wait for one that was under way.                                    *)
Finally ==
  /\ WindDown
  /\ IF teardown = "none" THEN writer' = "ending" /\ UNCHANGED body ELSE WriterOver

(* ensureAttempted: persist() unless that was attempted; releaseSignals.   *)
EnsureAttempted ==
  IF attempted
  THEN teardown' = "over" /\ claimed' = FALSE /\ UNCHANGED puts
  ELSE teardown' = "recording" /\ puts' = puts \cup {"teardown"} /\ UNCHANGED claimed

(* The source's return() has taken effect, so its handler has cleaned up;  *)
(* a pull that was queued behind it finds the source at its end.           *)
SourceReturns ==
  /\ teardown = "closing" /\ source # "busy"
  /\ source' = "closed"
  /\ EnsureAttempted
  /\ IF writer = "pulling" \/ (writer = "ending" /\ teardown' = "over")
     THEN WriterOver
     ELSE UNCHANGED <<writer, body>>
  /\ UNCHANGED <<answer, tracked, attempted, settled, record, told, aborted, drain>>

-----------------------------------------------------------------------------
(* Before and at the commit.                                               *)

(* Deviation: the signal is not read again after the listener is there.    *)
WindDownIfNoticed == UNCHANGED teardown

WindDownIfAborted == IF aborted # "none" THEN WindDown ELSE UNCHANGED teardown

(* response.created arrives: the 200 is out, the abort listener is there,  *)
(* the body is filled with its first event.                                *)
FirstArrives ==
  /\ answer = "opening"
  /\ answer' = "committed"
  /\ source' = "idle"
  /\ WindDownIfAborted
  /\ told' = "created"
  /\ UNCHANGED <<tracked, writer, recordVars, claimed, body, aborted, drain>>

(* The handler throws before it: a status code, and the claim goes back.   *)
FirstFails ==
  /\ answer = "opening"
  /\ answer' = "rejected" /\ source' = "closed" /\ claimed' = FALSE
  /\ WriterOver
  /\ UNCHANGED <<tracked, teardown, recordVars, told, aborted, drain>>

-----------------------------------------------------------------------------
(* The body and the writer.                                                *)

(* The client takes the event that is buffered, the only one, and with     *)
(* that the body makes the writer ask the source for the next.             *)
Read ==
  /\ answer = "committed" /\ body = "open" /\ writer = "parked"
  /\ IF source = "closed"
     THEN WriterOver /\ UNCHANGED source
     ELSE /\ writer' = "pulling"
          /\ source' = IF teardown = "none" THEN "busy" ELSE source
          /\ UNCHANGED body
  /\ UNCHANGED <<answer, tracked, teardown, recordVars, claimed, told, aborted, drain>>

(* The writer yields.  The event may fail to encode, which returns the     *)
(* writer, as does a cancel that came while it was busy.                   *)
Yields(event) ==
  \/ /\ body = "open"
     /\ told' = event /\ writer' = "parked"
     /\ UNCHANGED <<body, teardown>>
  \/ /\ body = "open"
     /\ body' = "failed"
     /\ WindDown
     /\ writer' = IF teardown = "none" THEN "ending" ELSE "over"
     /\ UNCHANGED told
  \/ /\ body # "open"
     /\ Finally
     /\ UNCHANGED told

(* An event that is not terminal.                                          *)
Emit ==
  /\ answer = "committed" /\ source = "busy" /\ tracked \notin Terminals
  /\ source' = "idle"
  /\ tracked' = "in_progress"
  /\ Yields("output")
  /\ UNCHANGED <<answer, recordVars, claimed, aborted, drain>>

OnTerminalUnpersisted ==
  Yields(tracked') /\ UNCHANGED <<attempted, puts>>

(* onTerminal: the turn is offered to the store ahead of the event.        *)
OnTerminal ==
  /\ attempted' = TRUE
  /\ puts' = puts \cup {"writer"} /\ writer' = "persisting"
  /\ UNCHANGED <<bodyVars, teardown>>

(* The terminal event: the handler's, or the one that enforceLifecycle     *)
(* makes of its failure, its abort or its silence.                         *)
Terminate(status) ==
  /\ answer = "committed" /\ source = "busy" /\ tracked \notin Terminals
  /\ source' = "idle"
  /\ tracked' = status
  /\ OnTerminal
  /\ UNCHANGED <<answer, settled, record, claimed, aborted, drain>>

(* The handler returns after its terminal event.                           *)
SourceEnds ==
  /\ answer = "committed" /\ source = "busy" /\ tracked \in Terminals
  /\ source' = "closed"
  /\ Finally
  /\ UNCHANGED <<answer, tracked, recordVars, claimed, told, aborted, drain>>

-----------------------------------------------------------------------------
(* The store answers.                                                      *)

PutSettles(by) == /\ by \in puts \ settled
                  /\ settled' = settled \cup {by}

(* The writer's put: the terminal event, or a storage failure in its place.*)
TerminalStored ==
  /\ PutSettles("writer")
  /\ \/ record' = tracked /\ Yields(tracked)
     \/ UNCHANGED record /\ Yields("unstored")
  /\ UNCHANGED <<answer, source, tracked, attempted, puts, claimed, aborted, drain>>

(* The teardown's put: nobody is told whether it succeeded.                *)
PartialStored ==
  /\ PutSettles("teardown")
  /\ record' \in {tracked, record}
  /\ teardown' = "over" /\ claimed' = FALSE
  /\ IF writer = "ending" THEN WriterOver ELSE UNCHANGED <<writer, body>>
  /\ UNCHANGED <<answer, source, tracked, attempted, puts, told, aborted, drain>>

-----------------------------------------------------------------------------
(* The client and the shutdown.                                            *)

(* The client cancels the body: a writer at its yield returns at once, a   *)
(* busy one at its next yield.                                             *)
Cancel ==
  /\ answer = "committed" /\ body = "open"
  /\ body' = "cancelled"
  /\ IF writer = "parked"
     THEN WindDown /\ writer' = IF teardown = "none" THEN "ending" ELSE "over"
     ELSE UNCHANGED <<teardown, writer>>
  /\ UNCHANGED <<answer, source, tracked, recordVars, claimed, told, aborted, drain>>

Abort(cause) ==
  /\ aborted' = IF aborted = "none" THEN cause ELSE aborted
  /\ IF answer = "committed" THEN WindDown ELSE UNCHANGED teardown

(* The client's connection is gone; whether its body is cancelled is the   *)
(* host's affair.                                                          *)
Disconnect ==
  /\ aborted = "none" /\ claimed
  /\ Abort("client")
  /\ UNCHANGED <<answer, source, tracked, writer, recordVars, claimed, bodyVars, drain>>

(* drain() aborts the turn and waits for its claim.                        *)
Drain ==
  /\ drain = "none"
  /\ drain' = "waiting"
  /\ IF claimed THEN Abort("shutdown") ELSE UNCHANGED <<aborted, teardown>>
  /\ UNCHANGED <<answer, source, tracked, writer, recordVars, claimed, bodyVars>>
DrainEnds ==
  /\ drain = "waiting" /\ ~claimed
  /\ drain' = "settled"
  /\ UNCHANGED <<answer, source, tracked, writer, teardown, recordVars, claimed,
                 bodyVars, aborted>>

(* The turn is over: the claim is back, the writer has ended or is left at *)
(* its yield by a client that does not read, and the server has drained.   *)
ForegroundDone ==
  /\ ~claimed /\ puts = settled /\ drain = "settled"
  /\ writer = "over"
  /\ UNCHANGED foregroundVars

HandlerStep ==
  FirstArrives \/ FirstFails \/ Emit \/ (\E status \in Terminals : Terminate(status)) \/ SourceEnds
StoreStep == TerminalStored \/ PartialStored

ForegroundNext ==
  \/ HandlerStep \/ SourceReturns \/ StoreStep
  \/ Read \/ Cancel \/ Disconnect
  \/ Drain \/ DrainEnds
  \/ ForegroundDone

ForegroundSpec == ForegroundInit /\ [][ForegroundNext]_foregroundVars

(* The handler settles each pull, its cleanup and the store come to an     *)
(* end.  Nothing is expected of the client.                                *)
ForegroundFairSpec ==
  /\ ForegroundSpec
  /\ WF_foregroundVars(HandlerStep) /\ WF_foregroundVars(SourceReturns)
  /\ WF_foregroundVars(StoreStep) /\ WF_foregroundVars(DrainEnds)

-----------------------------------------------------------------------------
(* Properties.                                                             *)

(* Persist before terminal: a client that reads a terminal event finds the *)
(* response in the store, with the status it read (terminal.ts).           *)
TerminalIsStored == told \in Terminals => record = told

(* "Persisting is attempted at most once", however the consumer's teardown *)
(* and the one of the abort signal come together (terminal.ts, foreground  *)
(* windDown).                                                              *)
PersistedOnce == ~({"writer", "teardown"} \subseteq puts)

(* The id is not given back while the handler of the turn still works, and *)
(* not without an attempt to store what the turn has come to: "close the   *)
(* handler chain first, then record the partial turn, release".            *)
ReleasedLast ==
  (answer = "committed" /\ ~claimed) => source = "closed" /\ puts # {}

(* A turn is recorded once, ahead of what depends on it: the terminal      *)
(* event that its client reads, and the end of its claim.                  *)
RecordedOnceFirst == TerminalIsStored /\ PersistedOnce /\ ReleasedLast

(* A client that hangs up, with or without a cancel of the body, and a     *)
(* shutdown get the id of the turn back (foreground.ts, the comment on the *)
(* abandoned body).                                                        *)
ReleasedAtLast ==
  (answer = "committed" /\ (aborted # "none" \/ body \in {"cancelled", "failed"})) ~> ~claimed
===============================================================================
