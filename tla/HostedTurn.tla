----------------------------- MODULE HostedTurn -----------------------------
(* Turns of a hosted agent (packages/foundry/src/hosting): the handler that    *)
(* restores a session and runs the agent (handler.ts), its contents turned     *)
(* into output items and events (output.ts) and an earlier transcript turned   *)
(* into messages (converters.ts), the sessions and approval requests it keeps. *)
(*                                                                             *)
(* The agent, the caller, and the server that keeps the transcripts are        *)
(* external.  A turn is its number; a turn continues an earlier one, or all of *)
(* them when the conversation has an id.                                       *)
EXTENDS Naturals, Sequences, SequencesExt
CONSTANTS MaxTurns,
          MaxPieces,     \* contents that the agent says, all turns together
          EarlyAbandon   \* the caller may be gone before the agent runs

ASSUME HostedTurnAssumption == MaxTurns \in Nat

VARIABLES
  named,      \* the conversation has an id
  agent,      \* the agent has been constructed
  snapshots,  \* the snapshots, by response or (0) conversation
  approvals,  \* the requests that were issued, by wire id
  turns,      \* the turns so far
  pieces
hostedVars == <<named, agent, snapshots, approvals, turns, pieces>>

Content(kind, id, text) == [kind |-> kind, id |-> id, text |-> text]
NoItem == [kind |-> "none", id |-> "", text |-> <<>>, output |-> <<>>]
Item(kind, id) == [NoItem EXCEPT !.kind = kind, !.id = id]

(* memory: what providers keep in the session; slot: the agent's own history.  *)
NoSnapshot == [kind |-> "none", memory |-> <<>>, slot |-> <<>>]
NewSession == [NoSnapshot EXCEPT !.kind = "session"]

(* line: the turns that a turn continues, in order.                            *)
NewHosted ==
  [line |-> <<>>, pc |-> "starting", session |-> NewSession, given |-> <<>>, decided |-> {}, heard |-> {},
   said |-> <<>>, refused |-> {}, item |-> NoItem, streamed |-> <<>>, output |-> <<>>, surfaced |-> {},
   status |-> "", reason |-> ""]

HostedInit ==
  /\ named \in BOOLEAN /\ agent = FALSE
  /\ snapshots = [k \in 0 .. MaxTurns |-> NoSnapshot] /\ approvals = {} /\ turns = <<>> /\ pieces = 0

-----------------------------------------------------------------------------
(* output.ts: one item is open at a time.                                      *)
ItemOf(c) ==
  CASE c.kind \in {"text", "reasoning", "call", "mcp", "code", "approval"} -> c.kind
    [] OTHER -> "none"

(* Deviation: fragments of any call extend the open one.                       *)
ExtendsAnyCall(open, c) ==
  open.kind = ItemOf(c) /\ open.kind \in {"text", "call", "mcp", "reasoning"}

(* #canExtend: fragments of one call, of one reasoning, of a text.             *)
CanExtend(open, c) ==
  /\ open.kind = ItemOf(c)
  /\ \/ open.kind \in {"text", "mcp"}
     \/ open.kind = "call" /\ open.id = c.id
     \/ open.kind = "reasoning" /\ c.id \in {"", open.id}

(* #openFor: the open item that a result belongs to.                           *)
Answers(open, kind, c) == open.kind = kind /\ open.id = c.id

(* The item is told as added, its deltas, done; the server keeps it when done. *)
(* close()                                                                     *)
CloseItem(s) ==
  IF s.item = NoItem THEN s ELSE [s EXCEPT !.output = Append(@, s.item), !.item = NoItem]

(* #emitClosedItem                                                             *)
EmitItem(s, item) ==
  [CloseItem(s) EXCEPT !.output = Append(@, item), !.streamed = Append(@, item.text)]

(* #open_: an approval request is noted as it is surfaced, under its wire id.  *)
OpenItem(s, c) ==
  LET n == Len(s.streamed) + 1
  IN  [s EXCEPT !.item = Item(ItemOf(c), c.id), !.streamed = Append(@, <<>>),
                !.surfaced = IF c.kind = "approval" THEN @ \cup {[wire |-> n, request |-> c.id]} ELSE @]

(* #extend: a delta; a code run and a request come whole, with the item.       *)
Extend(s, c) ==
  [s EXCEPT !.item.text = @ \o c.text, !.streamed[Len(s.streamed)] = @ \o c.text]

(* push(): a result is folded into the open item of its call; the result of a  *)
(* code run has no item of its own.                                            *)
Push(s, c) ==
  IF c.kind \in {"mcp_result", "code_result"} /\ Answers(s.item, IF c.kind = "mcp_result" THEN "mcp" ELSE "code", c)
  THEN CloseItem([s EXCEPT !.item.output = c.text])
  ELSE IF c.kind = "mcp_result" THEN EmitItem(s, [Item("mcp_output", c.id) EXCEPT !.text = c.text])
  ELSE IF c.kind = "code_result" THEN s
  ELSE IF c.kind \in {"shell", "shell_result", "result"} THEN EmitItem(s, [Item(c.kind, c.id) EXCEPT !.text = c.text])
  ELSE LET t == IF s.item # NoItem /\ ~CanExtend(s.item, c) THEN CloseItem(s) ELSE s
       IN  Extend(IF t.item = NoItem THEN OpenItem(t, c) ELSE t, c)

-----------------------------------------------------------------------------
(* itemToMessage: what an item says when it is replayed.  The framework's own  *)
(* approval requests are not; a code run that says nothing says so.            *)
Replayed(item) ==
  CASE item.kind = "mcp" ->
         <<Content("mcp", item.id, item.text)>>
           \o (IF item.output = <<>> THEN <<>> ELSE <<Content("mcp_result", item.id, item.output)>>)
    [] item.kind = "mcp_output" -> <<Content("mcp_result", item.id, item.text)>>
    [] item.kind = "code" ->
         <<Content("code", item.id, item.text), Content("code_result", item.id, item.output)>>
    [] item.kind = "approval" -> <<>>
    [] OTHER -> <<Content(item.kind, item.id, item.text)>>

(* inputToMessages                                                             *)
Messages(items) == FoldLeft(LAMBDA all, i : all \o Replayed(i), <<>>, items)

-----------------------------------------------------------------------------
(* The turns that a turn continues, in order; kept by the server.              *)
Lineage(previous) ==
  IF named THEN [i \in 1 .. Len(turns) |-> i]
  ELSE IF previous = 0 THEN <<>> ELSE Append(turns[previous].line, previous)

(* sessionReadKey, sessionWriteKey                                             *)
ReadKey(previous) == IF named THEN 0 ELSE previous
WriteKey(t) == IF named THEN 0 ELSE t

(* clearLocalHistory                                                           *)
ClearLocalHistory(s) == [s EXCEPT !.slot = <<>>]

(* Decisions on requests that earlier turns told of.                           *)
Decidable(line) == {w \in {[turn |-> line[i], wire |-> a.wire] : i \in DOMAIN line, a \in UNION {turns[j].surfaced : j \in DOMAIN turns}} :
                    \E a \in turns[w.turn].surfaced : a.wire = w.wire}

(* resolveApprovals: as they were issued; one that is not known is passed over.*)
Resolved(decided) == {a \in approvals : \E d \in decided : d.turn = a.turn /\ d.wire = a.wire}

Quiet == \A t \in DOMAIN turns : turns[t].pc = "over"
TurnIs(t, s) == turns' = [turns EXCEPT ![t] = s]

(* A turn begins when the one before it has ended.  It is refused when there   *)
(* is no snapshot of the response that it continues.                           *)
BeginTurn ==
  /\ Len(turns) < MaxTurns /\ Quiet
  /\ \E previous \in IF named THEN {0} ELSE 0 .. Len(turns) :
     \E decided \in SUBSET Decidable(Lineage(previous)) :
       LET stored == snapshots[ReadKey(previous)]
           session == ClearLocalHistory(IF stored.kind = "session" THEN stored ELSE NewSession)
           s == [NewHosted EXCEPT !.line = Lineage(previous)]
       IN  /\ previous > 0 => turns[previous].status # "refused"
           /\ turns' = Append(turns,
                IF previous > 0 /\ stored.kind = "none"
                THEN [s EXCEPT !.pc = "over", !.status = "refused"]
                ELSE [s EXCEPT !.session = session, !.decided = decided, !.heard = Resolved(decided),
                               !.given = Lineage(previous) \o session.slot])
  /\ agent' = TRUE
  /\ UNCHANGED <<named, snapshots, approvals, pieces>>

(* The agent cannot be constructed before a consent is given: the turn asks    *)
(* for it, and carries the session over.                                       *)
AskConsent ==
  /\ ~agent /\ Len(turns) < MaxTurns /\ Quiet
  /\ \E previous \in IF named THEN {0} ELSE 0 .. Len(turns) :
       LET stored == snapshots[ReadKey(previous)]
           n == Len(turns) + 1
       IN  /\ turns' = Append(turns, [NewHosted EXCEPT !.line = Lineage(previous), !.pc = "over", !.given = Lineage(previous),
                                                   !.status = "incomplete", !.reason = "consent"])
           /\ snapshots' = [snapshots EXCEPT ![WriteKey(n)] = IF stored.kind = "session" THEN stored ELSE NewSession]
  /\ UNCHANGED <<named, agent, approvals, pieces>>

(* The caller is gone when the first events are handed over.                   *)
Abandon(t) ==
  /\ EarlyAbandon /\ turns[t].pc = "starting"
  /\ TurnIs(t, [turns[t] EXCEPT !.pc = "over", !.status = "incomplete", !.reason = "aborted"])
  /\ UNCHANGED <<named, agent, snapshots, approvals, pieces>>

(* The agent runs: its providers note the turn in the session.                 *)
RunAgent(t) ==
  /\ turns[t].pc = "starting"
  /\ TurnIs(t, [turns[t] EXCEPT !.pc = "running", !.session.memory = Append(@, t)])
  /\ UNCHANGED <<named, agent, snapshots, approvals, pieces>>

(* What an agent says: fragments of one item follow one another, a call is     *)
(* answered once, and a call that the provider runs is answered before the     *)
(* next of its kind (a code run at once).                                      *)
Sayable(said) ==
  LET text == <<Len(said) + 1>>
      last == IF said = <<>> THEN Content("none", "", <<>>) ELSE said[Len(said)]
      has(kind, id) == \E i \in DOMAIN said : said[i].kind = kind /\ said[i].id = id
      answered(id) == \E i \in DOMAIN said : said[i].kind \in {"result", "mcp_result", "code_result"} /\ said[i].id = id
      new(id) == \A i \in DOMAIN said : said[i].id # id
      free == last.kind # "code"
      CallIds == {"a", "b"}
  IN  {Content("text", "", text) : i \in {i \in {1} : free}}
      \cup {Content("reasoning", "", text) : i \in {i \in {1} : free}}
      \cup {Content(k, id, text) : k \in {"reasoning", "call"}, id \in {id \in CallIds : free /\ new(id)}}
      \cup {Content(last.kind, id, text) : id \in {id \in CallIds : last.kind \in {"reasoning", "call", "mcp"} /\ last.id = id}}
      \cup {Content("mcp", id, text) : id \in {id \in CallIds : free /\ new(id) /\ last.kind # "mcp"}}
      \cup {Content(k, id, text) : k \in {"code", "approval", "shell"}, id \in {id \in CallIds : free /\ new(id)}}
      \cup {Content("result", id, text) : id \in {id \in CallIds : free /\ has("call", id) /\ ~answered(id)}}
      \cup {Content("mcp_result", id, text) : id \in {id \in CallIds : free /\ has("mcp", id) /\ ~answered(id)}}
      \cup {Content("code_result", id, text) : id \in {id \in CallIds : last.kind = "code" /\ last.id = id}}

(* A content is pushed, unless it is the result of a call for which a consent  *)
(* was reported: then the turn asks for the consent and the run is stopped     *)
(* once the other results have been pushed.                                    *)
SayContent(t) ==
  /\ turns[t].pc = "running" /\ pieces < MaxPieces
  /\ \E c \in Sayable(turns[t].said), needs \in BOOLEAN :
       LET s == [turns[t] EXCEPT !.said = Append(@, c)]
       IN  /\ needs => c.kind = "result"
           /\ s.refused # {} => c.kind = "result"
           /\ TurnIs(t, IF needs THEN [s EXCEPT !.refused = @ \cup {c.id}] ELSE Push(s, c))
  /\ pieces' = pieces + 1
  /\ UNCHANGED <<named, agent, snapshots, approvals>>

(* persistApprovals                                                            *)
Issued(t, s) == {[turn |-> t, wire |-> a.wire, request |-> a.request] : a \in s.surfaced}

(* Every refused call was refused for the same consent: it is asked for once.  *)
AskedFor(s) == IF s.refused = {} THEN s ELSE EmitItem(s, Item("consent", ""))

(* The run is over or stopped: what is open is closed, consents are asked for, *)
(* approval requests are kept, and then the terminal event is told.            *)
Tell(t) ==
  /\ turns[t].pc = "running"
  /\ LET s == AskedFor(CloseItem(turns[t]))
         reason == IF s.refused # {} THEN "consent" ELSE IF s.surfaced # {} THEN "approval" ELSE ""
     IN  /\ TurnIs(t, [s EXCEPT !.pc = "told", !.session.slot = Append(@, t), !.reason = reason,
                                !.status = IF reason = "" THEN "completed" ELSE "incomplete"])
         /\ approvals' = approvals \cup Issued(t, s)
  /\ UNCHANGED <<named, agent, snapshots, pieces>>

(* Deviation: what an unfinished turn surfaced is not kept.                    *)
IssuedWhenTold(t, s) == IF s.pc = "told" THEN Issued(t, s) ELSE {}

(* What the finally block keeps of the requests.                               *)
IssuedAtLast(t, s) == Issued(t, s)

(* Deviation: the session of a turn that was cut off is not saved.             *)
SavesWhenTold(s) == s.pc = "told"

Saves(s) == TRUE

(* finally: after the terminal event, or when the run is cut off, by a caller  *)
(* that is gone, a cancellation or a failure.                                  *)
FinallyKeep(t) ==
  /\ turns[t].pc \in {"told", "running"}
  /\ LET s == turns[t]
         cut == s.pc = "running"
     IN  /\ approvals' = approvals \cup IssuedAtLast(t, s)
         /\ snapshots' = IF Saves(s) THEN [snapshots EXCEPT ![WriteKey(t)] = ClearLocalHistory(s.session)] ELSE snapshots
         /\ TurnIs(t, [NewHosted EXCEPT !.line = s.line, !.pc = "over", !.given = s.given,
              !.session.memory = s.session.memory, !.surfaced = s.surfaced, !.decided = s.decided, !.heard = s.heard,
              !.status = IF cut THEN "incomplete" ELSE s.status, !.reason = IF cut THEN "aborted" ELSE s.reason])
  /\ UNCHANGED <<named, agent, pieces>>

HostedDone == Quiet /\ Len(turns) = MaxTurns /\ UNCHANGED hostedVars

HostedNext ==
  \/ BeginTurn \/ AskConsent \/ HostedDone
  \/ \E t \in DOMAIN turns : Abandon(t) \/ RunAgent(t) \/ SayContent(t) \/ Tell(t) \/ FinallyKeep(t)
HostedSpec == HostedInit /\ [][HostedNext]_hostedVars

-----------------------------------------------------------------------------
(* What the agent said, its fragments joined, the consents in place of the     *)
(* results they stand for.                                                     *)
Joined(said) ==
  FoldLeft(LAMBDA all, c :
    LET n == Len(all)
    IN  IF n > 0 /\ all[n].kind = c.kind
           /\ (c.kind = "text" \/ (c.kind \in {"call", "mcp"} /\ all[n].id = c.id)
                 \/ (c.kind = "reasoning" /\ c.id \in {"", all[n].id}))
        THEN [all EXCEPT ![n].text = @ \o c.text]
        ELSE Append(all, c), <<>>, said)
Spoken(s) ==
  SelectSeq(Joined(s.said), LAMBDA c : c.kind # "approval" /\ ~(c.kind = "result" /\ c.id \in s.refused))
    \o (IF s.reason = "consent" THEN <<Content("consent", "", <<>>)>> ELSE <<>>)

Telling(s) == SelectSeq(Messages(s.output), LAMBDA c : c.kind # "code_result" \/ c.text # <<>>)

(* What the agent said in a turn is what later turns replay of it, and what    *)
(* the caller has put together from the deltas; a turn that waits for somebody *)
(* says so.                                                                    *)
RepliesAreReplayed ==
  \A t \in DOMAIN turns : turns[t].pc = "told" =>
    LET s == turns[t]
    IN  /\ Telling(s) = Spoken(s)
        /\ s.streamed = [i \in DOMAIN s.output |-> s.output[i].text]
        /\ s.status = "incomplete" <=> \E i \in DOMAIN s.output : s.output[i].kind \in {"consent", "approval"}

(* A decision on a request that some turn told of, also one that was cut off,  *)
(* is a decision on the call as it was issued.                                 *)
DecisionsCount ==
  \A t \in DOMAIN turns : turns[t].status # "refused" =>
    turns[t].heard = UNION {{[turn |-> d.turn, wire |-> d.wire, request |-> a.request] :
                              a \in {b \in turns[d.turn].surfaced : b.wire = d.wire}} : d \in turns[t].decided}

(* No turn is refused for want of a session.                                   *)
AbandonedIsResumable == \A t \in DOMAIN turns : turns[t].status # "refused"

(* A turn goes on where the one before it stopped, finished or not: the        *)
(* session remembers the turns it continues that the agent ran in, in order,   *)
(* no turn of another branch, and the agent is given each transcript once.     *)
Ran(t) == t \in ToSet(turns[t].session.memory)
ContinuesTheConversation ==
  /\ AbandonedIsResumable
  /\ \A t \in DOMAIN turns : turns[t].given = turns[t].line
  /\ \A t \in DOMAIN turns : turns[t].pc = "running" =>
       LET memory == turns[t].session.memory
       IN  /\ ToSet(memory) = {t} \cup {i \in ToSet(turns[t].line) : Ran(i)}
           /\ \A i, j \in DOMAIN memory : i < j => memory[i] < memory[j]
=============================================================================
