-------------------------------- MODULE A2A --------------------------------
(* The A2A agent (packages/a2a): the turns of sessions with a remote agent     *)
(* that works on tasks (agent.ts), its payloads turned into updates            *)
(* (convert.ts), and what a session keeps of the task (session.ts).            *)
(*                                                                             *)
(* The remote agent is external.  The sessions are a conversation and one that *)
(* a tool runs with the caller's state (asTool with propagateSession): they    *)
(* share the partition, not the conversation.  Their runs do not overlap.      *)
LOCAL INSTANCE Naturals
LOCAL INSTANCE Sequences
LOCAL INSTANCE SequencesExt
LOCAL INSTANCE Updates
CONSTANTS Sessions, Contexts,
          Inputs,     \* the contents of a message
          Parts,      \* what an artifact of a session may be made of
          MaxTurns,   \* runs of each session
          MaxPieces   \* pieces of artifacts of one task

VARIABLES
  context,   \* serviceSessionId of each session
  link,      \* the partition that the sessions share
  task,      \* what the remote agent works on for each session
  sent,      \* the last message of each session
  observed,  \* ObservedTaskState of the run
  folded,    \* the response folded from its updates
  shown,     \* the contexts whose content was handed over in the run
  run,       \* [pc, stream, background, resumed, snapshots]
  turns
vars == <<context, link, task, sent, observed, folded, shown, run, turns>>

NoTask == <<"", "", 0>>
NoLink == [context |-> "", task |-> NoTask, state |-> ""]
Nothing == [context |-> "", task |-> NoTask, state |-> "", streamed |-> {}]
NoMessage == [context |-> "", task |-> NoTask, references |-> {}, parts |-> <<>>]
Idle == [pc |-> "idle", stream |-> FALSE, background |-> FALSE, resumed |-> FALSE, snapshots |-> 0]

Working == {"submitted", "working"}
Concat(s, Op(_)) == FoldLeft(LAMBDA all, x : all \o Op(x), <<>>, s)

-----------------------------------------------------------------------------
(* convert.ts: contents and parts.  props stands for the metadata.             *)
Part(type, text) == [type |-> type, text |-> text, media |-> "", name |-> ""]

ToPart(c) ==
  CASE c.type = "text" /\ c.text # <<>> -> <<Part("text", c.text)>>
    [] c.type = "error" -> <<Part("text", IF c.text = <<>> THEN <<"An error occurred.">> ELSE c.text)>>
    [] c.type = "uri" -> <<[Part("url", c.text) EXCEPT !.media = c.id, !.name = c.name]>>
    [] c.type = "data" -> <<[Part("raw", c.text) EXCEPT !.media = c.id, !.name = c.name]>>
    [] c.type = "hosted_file" -> <<[Part("url", <<c.id>>) EXCEPT !.name = c.name]>>
    [] OTHER -> <<>>

FromPart(p) ==
  CASE p.type \in {"text", "data"} -> Content("text", "", "", p.text)
    [] p.type = "url" -> Content("uri", p.media, p.name, p.text)
    [] p.type = "raw" ->
         Content("data", IF p.media = "" THEN "application/octet-stream" ELSE p.media, p.name, p.text)
    [] OTHER -> Content("unknown", "", p.type, p.text)
FromParts(parts) == [i \in DOMAIN parts |-> FromPart(parts[i])]

(* toA2AMessage: a task that waits for input is continued, any other is        *)
(* referenced.                                                                 *)
ToMessage(contents, of, ctx) ==
  LET continues == of.task # NoTask /\ of.state = "input-required"
  IN  [context |-> ctx, parts |-> Concat(contents, ToPart),
       task |-> IF continues THEN of.task ELSE NoTask,
       references |-> IF ~continues /\ of.task # NoTask THEN {of.task} ELSE {}]

StatusContents(state, message) ==
  IF state = "input-required" THEN FromParts(message) ELSE <<>>

FinishFor(state) == IF state = "completed" THEN "stop" ELSE ""
TokenFor(state) == IF state \in Working THEN "task" ELSE ""

ArtifactUpdate(a) == [Update("assistant", FromParts(a.parts)) EXCEPT !.messageId = a.id, !.responseId = "task"]

(* updatesFromTask: one update for each artifact not streamed yet, one for the *)
(* question; the last says how the task stands.                                *)
UpdatesFromTask(t, streamed) ==
  LET unseen == SelectSeq(t.artifacts, LAMBDA a : <<t.id, a.id>> \notin streamed)
      question == StatusContents(t.state, t.message)
      said == [i \in DOMAIN unseen |-> ArtifactUpdate(unseen[i])]
                \o (IF question = <<>> THEN <<>>
                    ELSE <<[Update("assistant", question) EXCEPT
                              !.messageId = "question", !.responseId = "task"]>>)
      all == IF said = <<>> THEN <<[Update("assistant", <<>>) EXCEPT !.responseId = "task"]>> ELSE said
  IN  [all EXCEPT ![Len(all)].finish = FinishFor(t.state), ![Len(all)].token = TokenFor(t.state)]

UpdateFromStatus(state, message) ==
  LET contents == StatusContents(state, message)
  IN  [Update("assistant", contents) EXCEPT
         !.responseId = "task", !.finish = FinishFor(state),
         !.messageId = IF contents = <<>> THEN "" ELSE "question"]

UpdateFromMessage(parts) ==
  [Update("assistant", FromParts(parts)) EXCEPT
     !.responseId = "message", !.messageId = "message", !.finish = "stop"]

UpdatesFromPayload(p, streamed) ==
  CASE p.kind = "task" -> UpdatesFromTask(p.task, streamed)
    [] p.kind = "status" -> <<UpdateFromStatus(p.task.state, p.task.message)>>
    [] p.kind = "artifact" -> <<ArtifactUpdate([id |-> p.id, parts |-> p.parts])>>
    [] p.kind = "message" -> <<UpdateFromMessage(p.parts)>>

(* observeContext, observeTask, observeTaskStatus and the streamed artifacts.  *)
Observed(o, p) ==
  CASE p.kind = "message" -> [o EXCEPT !.context = p.context]
    [] p.kind = "artifact" ->
         [o EXCEPT !.context = p.context, !.task = p.task.id,
                   !.streamed = @ \cup {<<p.task.id, p.id>>}]
    [] OTHER -> [o EXCEPT !.context = p.context, !.task = p.task.id, !.state = p.task.state]

-----------------------------------------------------------------------------
(* session.ts                                                                  *)

(* Deviation: the task is read whatever conversation it belongs to.            *)
ReadLinkOfAny(s) == link

ReadLink(s) == IF link.context # "" /\ link.context = context[s] THEN link ELSE NoLink

(* writeA2ASessionState: a turn that ended on no task clears the partition.    *)
Written(s, o) ==
  LET scope == IF context[s] = "" THEN o.context ELSE context[s]
  IN  IF scope = "" \/ o.task = NoTask THEN NoLink
      ELSE [context |-> scope, task |-> o.task, state |-> o.state]

-----------------------------------------------------------------------------
(* agent.ts *)
Running(s) == run[s].pc = "open"
Ready(s) == turns[s] < MaxTurns[s] /\ \A t \in Sessions : ~Running(t)
Payload(s, kind) == [kind |-> kind, context |-> task[s].context, task |-> task'[s], id |-> "", parts |-> <<>>]

Init ==
  /\ context = [s \in Sessions |-> ""] /\ link = NoLink
  /\ task = [s \in Sessions |-> [id |-> NoTask, context |-> "", state |-> "completed", artifacts |-> <<>>,
                                 message |-> <<>>, pieces |-> 0]]
  /\ sent = [s \in Sessions |-> NoMessage] /\ observed = [s \in Sessions |-> Nothing]
  /\ folded = [s \in Sessions |-> NoResponse] /\ shown = [s \in Sessions |-> {}]
  /\ run = [s \in Sessions |-> Idle] /\ turns = [s \in Sessions |-> 0]

Opened(s, stream, background, resumed) ==
  /\ run' = [run EXCEPT ![s] = [pc |-> "open", stream |-> stream, background |-> background,
                                resumed |-> resumed, snapshots |-> 0]]
  /\ observed' = [observed EXCEPT ![s] = Nothing]
  /\ folded' = [folded EXCEPT ![s] = NoResponse]
  /\ shown' = [shown EXCEPT ![s] = {}]
  /\ turns' = [turns EXCEPT ![s] = @ + 1]

(* The remote agent takes an answer to a task that waits for one.              *)
Accepts(s, m) ==
  m.task # NoTask => m.task = task[s].id /\ task[s].state = "input-required"

NewTask(s, c) ==
  [id |-> <<s, c, turns[s]>>, context |-> c, state |-> "submitted", artifacts |-> <<>>,
   message |-> <<>>, pieces |-> 0]

(* Nothing reads a task that ended once its run is over.                       *)
Over(t) == [t EXCEPT !.state = "completed", !.artifacts = <<>>, !.message = <<>>, !.pieces = 0]

(* run() and #send: the task that the message names goes on, or another one is *)
(* opened; a message without a conversation opens one.                         *)
Send(s) ==
  /\ Ready(s)
  /\ \E input \in Inputs, stream, background \in BOOLEAN, c \in Contexts :
       LET m == ToMessage(input, ReadLink(s), context[s])
       IN  /\ background => ~stream
           /\ m.parts # <<>> /\ Accepts(s, m)
           /\ IF m.context = "" THEN \A t \in Sessions \ {s} : task[t].context # c ELSE c = m.context
           /\ Opened(s, stream, background, FALSE)
           /\ sent' = [sent EXCEPT ![s] = m]
           /\ task' = [task EXCEPT ![s] = IF m.task # NoTask
                                         THEN [@ EXCEPT !.state = "submitted", !.message = <<>>]
                                         ELSE NewTask(s, c)]
  /\ UNCHANGED <<context, link>>

(* Nothing of the input can be sent, or the remote agent refuses it.           *)
Refuse(s) ==
  /\ Ready(s)
  /\ \E input \in Inputs :
       LET m == ToMessage(input, ReadLink(s), context[s])
       IN  m.parts = <<>> \/ ~Accepts(s, m)
  /\ run' = [run EXCEPT ![s].pc = "failed"]
  /\ turns' = [turns EXCEPT ![s] = @ + 1]
  /\ UNCHANGED <<context, link, task, sent, observed, folded, shown>>

(* #resume: by the token of the task; awaited reads it once, streamed          *)
(* subscribes to it again.  A task that ended cannot be subscribed to: it is   *)
(* read instead.                                                               *)
Resume(s) ==
  /\ Ready(s) /\ folded[s].token # ""
  /\ \E stream \in BOOLEAN :
       Opened(s, stream /\ task[s].state \in Working, TRUE, TRUE)
  /\ UNCHANGED <<context, link, task, sent>>

(* What outlives a run: its token.                                             *)
Closed(s, pc) ==
  /\ run' = [run EXCEPT ![s] = [Idle EXCEPT !.pc = pc]]
  /\ observed' = [observed EXCEPT ![s] = Nothing]
  /\ folded' = [folded EXCEPT ![s] = [NoResponse EXCEPT !.token = folded[s].token]]
  /\ shown' = [shown EXCEPT ![s] = {}]

(* #pipe: the conversation of a payload is checked before any of it is shown.  *)
Expected(s) == IF context[s] # "" THEN context[s] ELSE observed[s].context

Belongs(s, c) == Expected(s) \in {"", c}

Deliver(s, p) ==
  IF Belongs(s, p.context)
  THEN LET o == Observed(observed[s], p)
       IN  /\ observed' = [observed EXCEPT ![s] = o]
           /\ folded' = [folded EXCEPT ![s] = FoldLeft(FoldUpdate, @, UpdatesFromPayload(p, o.streamed))]
           /\ shown' = [shown EXCEPT ![s] = @ \cup {p.context}]
           /\ run' = [run EXCEPT ![s].snapshots =
                        CASE p.kind = "task" -> @ + 1 [] p.kind = "message" -> 2 [] OTHER -> @]
  ELSE Closed(s, "failed")

(* The task moves on by itself; whoever is subscribed is told.  Once nobody is *)
(* and no token leads back to it, what it does is of no consequence here.      *)
Silent(s) == UNCHANGED <<observed, folded, shown, run>>
Tell(s, p) == IF Running(s) /\ run[s].stream THEN run[s].snapshots > 0 /\ Deliver(s, p) ELSE Silent(s) /\ (Running(s) \/ folded[s].token # "")

Progress(s) ==
  /\ task[s].state \in Working
  /\ \E state \in {"working", "input-required", "completed", "failed"} \ {task[s].state} :
       task' = [task EXCEPT ![s].state = state, ![s].message = <<Part("text", <<state>>)>>]
  /\ Tell(s, Payload(s, "status"))
  /\ UNCHANGED <<context, link, sent, turns>>

(* Artifacts are produced one after the other, each piece by piece.            *)
Produce(s) ==
  /\ task[s].state = "working" /\ task[s].pieces < MaxPieces
  /\ \E part \in Parts[s], new \in BOOLEAN :
       LET as == task[s].artifacts
           n == Len(as)
           id == IF new THEN <<"a1", "a2", "a3", "a4">>[n + 1] ELSE as[n].id
       IN  /\ ~new => n > 0
           /\ task' = [task EXCEPT ![s].pieces = @ + 1,
                ![s].artifacts = IF new THEN Append(as, [id |-> id, parts |-> <<part>>])
                                 ELSE [as EXCEPT ![n].parts = Append(@, part)]]
           /\ Tell(s, [Payload(s, "artifact") EXCEPT !.id = id, !.parts = <<part>>])
  /\ UNCHANGED <<context, link, sent, turns>>

(* A stream begins with the task as it stands; one that ended may be repeated. *)
Snapshot(s) ==
  /\ Running(s) /\ run[s].stream
  /\ run[s].snapshots = 0 \/ (run[s].snapshots = 1 /\ task[s].state \in {"completed", "failed"})
  /\ UNCHANGED task
  /\ Deliver(s, Payload(s, "task"))
  /\ UNCHANGED <<context, link, sent, turns>>

(* A message instead of a task, or one of another conversation in a stream.    *)
Speak(s) ==
  /\ Running(s) /\ ~run[s].resumed
  /\ \E c \in Contexts, part \in Parts[s] :
       /\ run[s].snapshots = 0 \/ (run[s].stream /\ run[s].snapshots = 1 /\ c # task[s].context)
       /\ task' = [task EXCEPT ![s].state = "completed"]
       /\ Deliver(s, [Payload(s, "message") EXCEPT !.context = c, !.parts = <<part>>])
  /\ UNCHANGED <<context, link, sent, turns>>

(* An awaited request: the task once it rests, or as it stands when it runs in *)
(* the background or is only read.                                             *)
Return(s) ==
  /\ Running(s) /\ ~run[s].stream /\ run[s].snapshots = 0
  /\ run[s].background \/ task[s].state \notin Working
  /\ UNCHANGED task
  /\ Deliver(s, Payload(s, "task"))
  /\ UNCHANGED <<context, link, sent, turns>>

(* The source runs out: the session is written from what was observed.         *)
Finish(s) ==
  /\ Running(s) /\ run[s].snapshots > 0
  /\ run[s].stream => task[s].state \notin Working
  /\ context' = [context EXCEPT ![s] = IF @ = "" THEN observed[s].context ELSE @]
  /\ link' = Written(s, observed[s])
  /\ Closed(s, "ended")
  /\ task' = [task EXCEPT ![s] = IF @.state \in {"completed", "failed"} THEN Over(@) ELSE @]
  /\ UNCHANGED <<sent, turns>>

(* The caller stops reading, or the connection breaks.                         *)
Leave(s) ==
  /\ Running(s) /\ run[s].stream
  /\ Closed(s, "failed")
  /\ UNCHANGED <<context, link, task, sent, turns>>

Done ==
  /\ \A s \in Sessions : ~Running(s) /\ turns[s] = MaxTurns[s]
  /\ UNCHANGED vars

Next ==
  \/ \E s \in Sessions :
       \/ Send(s) \/ Refuse(s) \/ Resume(s) \/ Progress(s) \/ Produce(s) \/ Snapshot(s)
       \/ Speak(s) \/ Return(s) \/ Finish(s) \/ Leave(s)
  \/ Done
Spec == Init /\ [][Next]_vars

-----------------------------------------------------------------------------
(* A run that is streamed shows what an awaited one would: the pieces of an    *)
(* artifact are one message, and the task that ends the stream repeats none of *)
(* those that its events carried.  An artifact that came with the snapshot     *)
(* that opened the stream, and by no event, is exempt: the closing snapshot    *)
(* does repeat it, since only events count as streamed (convert.ts:310),       *)
(* although agent.ts:119-121 says it would not.                                *)
Streamed(s) ==
  /\ Running(s) /\ run[s].stream /\ task[s].state \notin Working
  /\ observed[s].task = task[s].id /\ run[s].snapshots > 0 /\ shown[s] = {task[s].context}
ByEvents(s) ==
  \A i \in DOMAIN task[s].artifacts : <<task[s].id, task[s].artifacts[i].id>> \in observed[s].streamed
AsAwaited(s) == Finalized(folded[s]) = MergeUpdates(UpdatesFromTask(task[s], {}))

StreamedIsAwaited ==
  \A s \in Sessions : Streamed(s) /\ (run[s].snapshots = 2 => ByEvents(s)) => AsAwaited(s)

(* What a message names is of the conversation it is sent into.                *)
RequestIsSendable ==
  \A s \in Sessions :
    \A t \in {sent[s].task} \cup sent[s].references : t # NoTask => t[2] = sent[s].context

(* No run hands over content of two conversations, or of another than its own. *)
OneConversation ==
  \A s \in Sessions :
    /\ \A c, d \in shown[s] : c = d
    /\ Running(s) /\ context[s] # "" => shown[s] \subseteq {context[s]}
=============================================================================
