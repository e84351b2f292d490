------------------------------ MODULE AgentRun ------------------------------
(* Runs of an agent on one session (core/src/agent/agent.ts): the providers    *)
(* before and after, the stream that the caller consumes (response-stream.ts), *)
(* background runs that are suspended and resumed (continuation.ts), and the   *)
(* transcript kept in a file (file-history-provider.ts).                       *)
(*                                                                             *)
(* An exchange is named by the run that began it; its answer comes in chunks   *)
(* 1, 2, ... from a chat client that is external here.                         *)
EXTENDS Naturals, Sequences, SequencesExt
CONSTANTS AgentRuns, NoRun,
          Chunks,      \* chunks of an answer
          Replay,      \* what a resumed operation sends: "rest", or "all" from the first
          MaxCrashes   \* crashes of the process

ASSUME AgentRunAssumption == NoRun \notin AgentRuns /\ Chunks \in Nat

VARIABLES
  service,   \* the chat client names a conversation that it keeps
  explicit,  \* the agent was given a history provider
  conversation, \* serviceSessionId of the session is set
  file,      \* the lines of the transcript
  queue,     \* fileChains: the operations on the file, in order
  token,     \* the continuation token the caller holds of each exchange
  run,
  crashes
agentVars == <<service, explicit, conversation, file, queue, token, run, crashes>>

Line(x, part, chunks) == [x |-> x, part |-> part, chunks |-> chunks]
Torn == Line(NoRun, "torn", <<>>)
NoToken == [held |-> FALSE, input |-> FALSE, updates |-> <<>>, next |-> 1]

(* updates: seen, with those carried by a token; kept: the answer is stored;   *)
(* notified, later: how often the first provider, the history unless the       *)
(* service keeps it, and the last one are told; result: what is latched.       *)
Fresh ==
  [pc |-> "idle", stream |-> FALSE, background |-> FALSE, x |-> NoRun, input |-> TRUE,
   updates |-> <<>>, next |-> 1, owned |-> FALSE, before |-> {}, sees |-> <<>>, lines |-> <<>>, kept |-> FALSE,
   notified |-> 0, later |-> 0, span |-> "none", result |-> "ok", told |-> {}]

(* Two runs overlap, no more.                                                  *)
Active(r) == run[r].pc \notin {"idle", "over", "dead"}
Overlapping == {r \in AgentRuns : Active(r)}
Become(r, new) == run' = [run EXCEPT ![r] = new]

-----------------------------------------------------------------------------
AgentInit ==
  /\ service \in BOOLEAN /\ explicit \in BOOLEAN /\ conversation = FALSE
  /\ file = <<>> /\ queue = <<>> /\ crashes = 0
  /\ token = [r \in AgentRuns |-> NoToken] /\ run = [r \in AgentRuns |-> Fresh]

(* #rejectHistoryConflict                                                      *)
Conflict == conversation /\ explicit

(* Deviation: the providers are told on every path that ends the run.          *)
NotifiedAgain(n) == n + 1

(* runAfterRun: the providers are told once, one after the other; one that     *)
(* throws ends the round.                                                      *)
Notified(n) == IF n > 0 THEN n ELSE n + 1
NotifiedToTheLast(s) == IF s.notified > 0 THEN s.later ELSE s.later + 1

(* What is left of a run that is over.                                         *)
LeftOver(s) ==
  [Fresh EXCEPT !.pc = "over", !.x = s.x, !.kept = s.kept, !.notified = s.notified, !.later = s.later,
                !.told = s.told, !.span = IF s.span = "open" THEN "ended" ELSE s.span]

(* What is left of a run whose client is done.                                 *)
Ended(s) ==
  [Fresh EXCEPT !.x = s.x, !.input = s.input, !.updates = s.updates, !.span = s.span,
                !.notified = s.notified, !.later = s.later]

(* A failure: reported by the source, then by the cleanup of the stream, which *)
(* latches it.                                                                 *)
Failed(s) ==
  [LeftOver(s) EXCEPT !.notified = Notified(Notified(@)), !.later = NotifiedToTheLast(s), !.result = "error", !.told = {"error"}]

(* What the caller was answered before a run began, on a transcript kept here. *)
Answered == {run[r].x : r \in {q \in AgentRuns : "ok" \in run[q].told /\ run[q].kept}}

(* start(): the conflict is refused before any provider is set up; history is  *)
(* a provider of the run unless the service keeps the conversation.            *)
Start(r) ==
  /\ run[r].pc = "idle" /\ \A q, t \in Overlapping : q = t
  /\ \E stream, background \in BOOLEAN :
       LET s == [Fresh EXCEPT !.stream = stream, !.background = background, !.x = r,
                              !.before = Answered, !.owned = ~conversation]
       IN  IF Conflict
           THEN Become(r, [LeftOver(s) EXCEPT !.result = "error", !.told = {"error"}])
                  /\ UNCHANGED queue
           ELSE IF s.owned
           THEN Become(r, [s EXCEPT !.pc = "reading"]) /\ queue' = Append(queue, r)
           ELSE Become(r, [s EXCEPT !.pc = "open", !.span = "open"]) /\ UNCHANGED queue
  /\ UNCHANGED <<service, explicit, conversation, file, token, crashes>>

(* A resumed run replays nothing: its input and the updates so far are the     *)
(* token's.  A token is used by one run at a time, and again if that fails.    *)
ResumeRun(r) ==
  /\ run[r].pc = "idle" /\ ~Conflict /\ \A q, t \in Overlapping : q = t
  /\ \E x \in AgentRuns, stream \in BOOLEAN :
       /\ token[x].held /\ \A q \in AgentRuns : run[q].x = x => ~Active(q)
       /\ Become(r, [Fresh EXCEPT
            !.pc = "open", !.span = "open", !.stream = stream, !.background = TRUE, !.x = x,
            !.owned = ~conversation, !.input = token[x].input, !.updates = token[x].updates,
            !.next = IF Replay = "all" THEN 1 ELSE token[x].next])
  /\ UNCHANGED <<service, explicit, conversation, file, queue, token, crashes>>

(* Deviation: a read does not wait for the appends before it.                  *)
MayReadAtOnce(place) == TRUE

(* enqueueFileOperation: the operations on the file follow one another.        *)
MayRead(place) == place = 1

(* getMessages: a line that cannot be parsed fails the run.                    *)
Read(r) ==
  /\ run[r].pc = "reading"
  /\ \E place \in DOMAIN queue :
       queue[place] = r /\ MayRead(place) /\ queue' = RemoveAt(queue, place)
  /\ Become(r, IF Torn \in ToSet(file) THEN Failed(run[r])
               ELSE [run[r] EXCEPT !.pc = "open", !.span = "open", !.sees = file])
  /\ UNCHANGED <<service, explicit, conversation, file, token, crashes>>

-----------------------------------------------------------------------------
(* wrapContinuationToken: a stream's token carries the input and all it has    *)
(* seen, an awaited run's nothing.                                             *)
TokenOf(s) ==
  [held |-> TRUE, input |-> s.stream /\ s.input, updates |-> IF s.stream THEN s.updates ELSE <<>>,
   next |-> s.next]

Received(r) == [run[r] EXCEPT !.updates = Append(@, run[r].next), !.next = @ + 1]
HoldToken(s) == token' = [token EXCEPT ![s.x] = IF s.background THEN TokenOf(s) ELSE NoToken]

(* One update of a stream; the first names the conversation.                   *)
Pull(r) ==
  /\ run[r].pc = "open" /\ run[r].stream /\ run[r].next <= Chunks
  /\ Become(r, Received(r)) /\ HoldToken(Received(r))
  /\ conversation' = (conversation \/ service)
  /\ UNCHANGED <<service, explicit, file, queue, crashes>>

(* Deviation: a stream that is suspended is stored as well.                    *)
StoresSuspended(s, held) == s.owned /\ ~conversation'

(* #notifyProvidersAfterRun: whether the history provider is told.             *)
Stores(s, held) == s.owned /\ ~conversation' /\ ~(s.stream /\ held)

(* messagesToStore: the question, which notes here what was answered with it,  *)
(* and the answer unless nothing came; a store is not asked to append nothing. *)
LinesOf(s) ==
  (IF s.input THEN <<Line(s.x, "in", s.updates)>> ELSE <<>>)
    \o (IF s.updates # <<>> THEN <<Line(s.x, "out", s.updates)>> ELSE <<>>)

(* onResult: the conflict is checked again, then the providers are told; those *)
(* behind the history wait until it has stored the exchange.                   *)
OnResult(r, s, held) ==
  IF conversation' /\ explicit
  THEN Become(r, Failed(s)) /\ UNCHANGED queue
  ELSE IF Stores(s, held) /\ LinesOf(s) # <<>>
  THEN /\ Become(r, [Ended(s) EXCEPT !.pc = "storing", !.kept = s.updates # <<>>, !.lines = LinesOf(s),
                                     !.notified = Notified(@)])
       /\ queue' = Append(queue, r)
  ELSE /\ Become(r, [Ended(s) EXCEPT !.pc = "stored", !.notified = Notified(@), !.later = NotifiedToTheLast(s)])
       /\ UNCHANGED queue

(* The stream ends: complete, or suspended in the background.                  *)
End(r) ==
  /\ run[r].pc = "open" /\ run[r].stream /\ UNCHANGED conversation
  /\ \/ token' = [token EXCEPT ![run[r].x] = NoToken] /\ OnResult(r, run[r], FALSE)
     \/ run[r].background /\ HoldToken(run[r]) /\ OnResult(r, run[r], TRUE)
  /\ UNCHANGED <<service, explicit, file, crashes>>

(* An awaited run: all that the client answers at once.                        *)
ReturnAll(r) ==
  /\ run[r].pc = "open" /\ ~run[r].stream
  /\ conversation' = (conversation \/ service)
  /\ \E n \in run[r].next - 1 .. Chunks, held \in BOOLEAN :
       LET s == [run[r] EXCEPT !.next = n + 1,
                               !.updates = @ \o [i \in 1 .. n + 1 - run[r].next |-> run[r].next + i - 1]]
       IN  /\ held => s.background
           /\ token' = [token EXCEPT ![s.x] = IF held THEN TokenOf(s) ELSE NoToken]
           /\ OnResult(r, s, held)
  /\ UNCHANGED <<service, explicit, file, crashes>>

(* The caller stops reading: the source is closed, the part that was read is   *)
(* the result.                                                                 *)
Break(r) ==
  /\ run[r].pc = "open" /\ run[r].stream
  /\ UNCHANGED <<token, conversation>>
  /\ OnResult(r, run[r], token[run[r].x].held)
  /\ UNCHANGED <<service, explicit, file, crashes>>

(* The source fails or is aborted; a hook of a middleware or the caller throws *)
(* into the stream.                                                            *)
Fail(r) ==
  /\ run[r].pc = "open"
  /\ Become(r, Failed(run[r]))
  /\ UNCHANGED <<service, explicit, conversation, file, queue, token, crashes>>

-----------------------------------------------------------------------------
(* appendFile: one line after the other, or none of them.                      *)
AppendLine(r) ==
  /\ run[r].pc = "storing" /\ queue # <<>> /\ queue[1] = r
  /\ LET s == run[r]
         rest == Tail(s.lines)
     IN  \/ /\ file' = Append(file, s.lines[1])
            /\ Become(r, [s EXCEPT !.lines = rest, !.pc = IF rest = <<>> THEN "stored" ELSE @,
                                   !.later = IF rest = <<>> THEN @ + 1 ELSE @])
            /\ queue' = IF rest = <<>> THEN Tail(queue) ELSE queue
         \/ /\ s.lines = LinesOf(s)
            /\ Become(r, Failed(s))
            /\ queue' = Tail(queue)
            /\ UNCHANGED file
  /\ UNCHANGED <<service, explicit, conversation, token, crashes>>

(* The result is handed over, unless its structure or the last provider fails: *)
(* the exchange is stored all the same.                                        *)
Deliver(r) ==
  /\ run[r].pc = "stored"
  /\ \E result \in {"ok", "error"} :
       Become(r, [LeftOver(run[r]) EXCEPT !.result = result, !.told = @ \cup {result}])
  /\ UNCHANGED <<service, explicit, conversation, file, queue, token, crashes>>

(* finalResponse() of a stream that is over.                                   *)
FinalResponse(r) ==
  /\ run[r].pc = "over"
  /\ Become(r, [run[r] EXCEPT !.told = @ \cup {run[r].result}])
  /\ UNCHANGED <<service, explicit, conversation, file, queue, token, crashes>>

(* The process dies; an append under way may leave a line cut short.           *)
Crash ==
  /\ crashes < MaxCrashes /\ \E r \in AgentRuns : Active(r)
  /\ crashes' = crashes + 1
  /\ file' \in {file} \cup (IF queue # <<>> /\ run[queue[1]].pc = "storing" THEN {Append(file, Torn)} ELSE {})
  /\ queue' = <<>>
  /\ run' = [r \in AgentRuns |-> IF Active(r) THEN [Fresh EXCEPT !.pc = "dead", !.x = run[r].x] ELSE run[r]]
  /\ UNCHANGED <<service, explicit, conversation, token>>

AgentDone == (\A r \in AgentRuns : run[r].pc \in {"over", "dead"}) /\ UNCHANGED agentVars

AgentNext ==
  \/ \E r \in AgentRuns :
       \/ Start(r) \/ ResumeRun(r) \/ Read(r) \/ Pull(r) \/ End(r) \/ ReturnAll(r) \/ Break(r)
       \/ Fail(r) \/ AppendLine(r) \/ Deliver(r) \/ FinalResponse(r)
  \/ Crash \/ AgentDone
AgentSpec == AgentInit /\ [][AgentNext]_agentVars

-----------------------------------------------------------------------------
Asked(x) == {i \in DOMAIN file : file[i].x = x /\ file[i].part = "in"}
Replied(x) == {i \in DOMAIN file : file[i].x = x /\ file[i].part = "out"}
CutShort(x) == \E r \in AgentRuns : run[r].x = x /\ run[r].pc = "dead"

(* Every exchange is stored once: its question once, each chunk of its answer  *)
(* once, however often it was suspended and resumed, and no line of another    *)
(* exchange comes between a question and what was answered with it.            *)
StoredOnce ==
  \A x \in AgentRuns :
    /\ \A i, j \in Asked(x) : i = j
    /\ \A i, j \in Replied(x) : \A c \in DOMAIN file[i].chunks : \A d \in DOMAIN file[j].chunks :
         file[i].chunks[c] = file[j].chunks[d] => i = j /\ c = d
    /\ ~CutShort(x) => \A i \in Asked(x) : i < Len(file) /\ file[i].chunks # <<>> => i + 1 \in Replied(x)

(* A run replays whole exchanges, no question without what was answered with   *)
(* it, and every answer that was given before it began.                        *)
ReplaysWholeExchanges ==
  \A r \in AgentRuns : run[r].pc = "open" /\ run[r].x = r /\ run[r].owned =>
    LET sees == ToSet(run[r].sees)
        has(x) == \E line \in sees : line.x = x /\ line.part = "out"
    IN  /\ \A x \in run[r].before : has(x)
        /\ \A line \in sees :
             line.part = "in" /\ line.chunks # <<>> /\ ~CutShort(line.x) => has(line.x)

(* When a run is over its providers have been told, once, and its span has     *)
(* ended; a run that was refused told nobody.  Who is told of a success can    *)
(* rely on every provider having been told, the last one behind the stored     *)
(* exchange.  A stream is never a failure to one who asks and a success to     *)
(* another.                                                                    *)
ToldOnce ==
  \A r \in AgentRuns :
    /\ run[r].pc = "over" =>
         /\ run[r].span \in {"none", "ended"}
         /\ run[r].notified = 1 \/ (run[r].notified = 0 /\ run[r].span = "none" /\ run[r].result = "error")
    /\ "ok" \in run[r].told => run[r].later = 1
    /\ run[r].told # {"ok", "error"}

(* A resumed stream reads as one continuous response.                          *)
ReadsAsOne ==
  \A r \in AgentRuns : \A i, j \in DOMAIN run[r].updates : run[r].updates[i] = run[r].updates[j] => i = j
=============================================================================
