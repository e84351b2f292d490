--------------------------- MODULE MessagesClient ---------------------------
(* The Anthropic Messages client (packages/anthropic): a conversation of       *)
(* requests built from a transcript (to-anthropic.ts, chat-client.ts) and of   *)
(* messages read whole or event by event (from-anthropic.ts).                  *)
(*                                                                             *)
(* The API is external: it answers with groups of blocks taken from Items,     *)
(* runs the calls of its own tools, and may pause a turn on one of them.       *)
LOCAL INSTANCE Naturals
LOCAL INSTANCE Sequences
LOCAL INSTANCE SequencesExt
LOCAL INSTANCE Functions
LOCAL INSTANCE Updates
CONSTANTS Items,      \* the groups of blocks a message is made of
          ResultOf,   \* the result block of each call that a turn may pause on
          MaxItems    \* groups of the first message; one less for each that follows,
                      \* down to a request that is only sent

VARIABLES
  history,   \* the transcript on this side
  request,   \* the messages of the last request
  output,    \* the blocks of the message being read
  used,      \* the groups sent so far: an id is used once
  snapshots, \* usage is reported while a block is still open
  arriving,  \* the events of the message that are still to come
  state, folded, turns,
  pc         \* "ask", "read", "answer", "sent", "refused"
vars == <<history, request, output, used, snapshots, arriving, state, folded, turns, pc>>

Concat(s, Op(_)) == FoldLeft(LAMBDA all, x : all \o Op(x), <<>>, s)

(* What a result block carries: an error code, outputs, files, spans of lines. *)
NoPayload(type) ==
  [type |-> type, code |-> "", out |-> <<>>, err |-> <<>>, rc |-> 0, files |-> <<>>, spans |-> <<>>]

(* A block of the wire.  text: what it says, or the JSON of its input.         *)
Block(type, id, name, text) ==
  [type |-> type, id |-> id, name |-> name, text |-> text, seal |-> "",
   payload |-> NoPayload("")]

IsCodeName(name) == name \in {"code_execution", "bash_code_execution", "text_editor_code_execution"}
IsProviderCall(b) ==
  b.type \in {"server_tool_use", "mcp_tool_use"} \/ (b.type = "tool_use" /\ IsCodeName(b.name))
ResultTypes ==
  {"mcp_tool_result", "code_execution_tool_result", "bash_code_execution_tool_result",
   "text_editor_code_execution_tool_result", "web_search_tool_result"}

-----------------------------------------------------------------------------
(* from-anthropic.ts: blocks into contents.                                    *)
Raw(c, b) == <<[c EXCEPT !.raw = <<b>>]>>
Unknown(type, object) == <<Content("unknown", "", type, <<object>>)>>

Spans(p) ==
  [i \in DOMAIN p.spans |->
     [role |-> p.spans[i].role, span |-> p.spans[i].span,
      snippet |-> p.spans[i].role = "inserted" /\ p.out # <<>>, raw |-> <<p>>]]

HostedFiles(p) ==
  Concat(p.files, LAMBDA f : IF f.id # "" THEN <<Content("hosted_file", f.id, f.type, <<>>)>>
                             ELSE Unknown(f.type, f))

CodeOutputs(p) ==
  CASE p.type = "code_execution_tool_result_error" -> <<Content("error", "", p.code, <<>>)>>
    [] p.type \in {"code_execution_result", "encrypted_code_execution_result"} ->
         (IF p.out = <<>> THEN <<>> ELSE <<Content("text", "", "", p.out)>>)
           \o (IF p.err = <<>> THEN <<>> ELSE <<Content("error", "", "", p.err)>>)
           \o HostedFiles(p)
    [] OTHER -> Unknown(p.type, p)

(* private: the command timed out.                                             *)
BashOutputs(p) ==
  CASE p.type = "bash_code_execution_tool_result_error" ->
         <<[Content("shell_output", "", p.code, <<>>) EXCEPT
              !.private = (p.code = "execution_time_exceeded")]>>
    [] p.type = "bash_code_execution_result" ->
         <<[Content("shell_output", "", "", p.out) EXCEPT !.props = <<p.err, p.rc>>]>>
    [] OTHER -> Unknown(p.type, p)

TextEditorOutputs(p) ==
  CASE p.type = "text_editor_code_execution_tool_result_error" ->
         <<Content("error", "", p.code, IF p.code = "" THEN <<>> ELSE p.err)>>
    [] p.type \in {"text_editor_code_execution_view_result",
                   "text_editor_code_execution_str_replace_result",
                   "text_editor_code_execution_create_result"} ->
         <<[Content("text", "", "", p.out) EXCEPT !.cites = Spans(p)]>>
    [] OTHER -> Unknown(p.type, p)

Result(type, b, outputs) ==
  Raw([Content(type, b.id, "", outputs) EXCEPT !.props = <<b.payload.type, b.payload.rc>>], b)

(* parseContentBlocks of one block.  streamed: the input is still to come.     *)
ParseBlock(b, streamed) ==
  CASE b.type \in {"text", "text_delta"} -> Raw(Content("text", "", "", b.text), b)
    [] b.type \in {"thinking", "thinking_delta", "signature_delta"} ->
         Raw([Content("text_reasoning", "", "", b.text) EXCEPT !.seal = b.seal], b)
    [] b.type \in {"tool_use", "server_tool_use"} /\ IsCodeName(b.name) ->
         Raw(Content("code_call", b.id, "", b.text), b)
    [] b.type \in {"tool_use", "server_tool_use"} /\ ~IsCodeName(b.name) ->
         Raw([Content("function_call", b.id, b.name, b.text) EXCEPT
                !.object = ~(streamed /\ b.text = <<>>), !.private = (b.type = "server_tool_use")], b)
    [] b.type = "mcp_tool_use" ->
         Raw([Content("mcp_call", b.id, b.name, b.text) EXCEPT !.object = TRUE], b)
    [] b.type = "mcp_tool_result" -> Raw(Content("mcp_result", b.id, "", b.text), b)
    [] b.type = "code_execution_tool_result" -> Result("code_result", b, CodeOutputs(b.payload))
    [] b.type = "bash_code_execution_tool_result" ->
         (IF b.payload.type = "bash_code_execution_result" THEN HostedFiles(b.payload) ELSE <<>>)
           \o Result("shell_tool_result", b, BashOutputs(b.payload))
    [] b.type = "text_editor_code_execution_tool_result" ->
         Result("function_result", b, TextEditorOutputs(b.payload))
    [] b.type = "web_search_tool_result" -> Raw(Content("function_result", b.id, "", b.text), b)
    [] OTHER -> Raw(Unknown(b.type, b)[1], b)

(* How the API ends the message that is being read.                            *)
Answered(blocks) == {blocks[i].id : i \in {j \in DOMAIN blocks : blocks[j].type \in ResultTypes}}
StopReason ==
  IF \E i \in DOMAIN output : output[i].type = "tool_use" /\ ~IsCodeName(output[i].name) THEN "tool_use"
  ELSE IF \E i \in DOMAIN output : IsProviderCall(output[i]) /\ output[i].id \notin Answered(output)
  THEN "pause_turn" ELSE "end_turn"
FinishReason == IF StopReason = "tool_use" THEN "tool_calls" ELSE "stop"
MessageId == "msg" \o ToString(turns)

(* Usage is cumulative on the wire: 1 at the start, one more for each block.   *)
ParseMessage ==
  [NoResponse EXCEPT
     !.messages = <<[role |-> "assistant", messageId |-> "",
                     contents |-> Concat(output, LAMBDA b : ParseBlock(b, FALSE))]>>,
     !.responseId = MessageId, !.finish = FinishReason, !.usage = 1 + Len(output)]

-----------------------------------------------------------------------------
(* The events of a message (external), one block after the other.              *)
Event(type, block, usage) == [type |-> type, block |-> block, usage |-> usage]
None == Block("none", "", "", <<>>)

Deltas(b) ==
  LET Delta(type, text) == <<Event("content_block_delta", Block(type, "", "", text), 0)>>
      Each(type) == Concat(b.text, LAMBDA t : Delta(type, <<t>>))
  IN  CASE b.type = "text" -> Each("text_delta")
        [] b.type = "thinking" ->
             Each("thinking_delta")
               \o <<Event("content_block_delta",
                          [Block("signature_delta", "", "", <<>>) EXCEPT !.seal = b.seal], 0)>>
        [] b.type \in {"tool_use", "server_tool_use", "mcp_tool_use"} -> Each("input_json_delta")
        [] OTHER -> <<>>

Events ==
  LET Open(b) == IF Deltas(b) = <<>> THEN b ELSE [b EXCEPT !.text = <<>>, !.seal = ""]
      Head1(b) == IF Deltas(b) = <<>> THEN <<>> ELSE <<Deltas(b)[1]>>
      Rest(b) == IF Deltas(b) = <<>> THEN <<>> ELSE Tail(Deltas(b))
      Script(i) ==
        <<Event("content_block_start", Open(output[i]), 0)>> \o Head1(output[i])
          \o (IF snapshots THEN <<Event("message_delta", None, 1 + i)>> ELSE <<>>)
          \o Rest(output[i])
          \o <<Event("content_block_stop", None, 0)>>
  IN  <<Event("message_start", None, 1)>> \o Concat([i \in DOMAIN output |-> i], Script)
        \o <<Event("message_delta", Block(StopReason, "", "", <<>>), 1 + Len(output)),
             Event("message_stop", None, 0)>>

(* StreamParseState.                                                           *)
NewState == [call |-> <<>>, pending |-> <<>>, emitted |-> 0]

(* flushPendingCall: the block with its input, which is JSON by then.          *)
Flushed(st) == Concat(st.pending, LAMBDA b : ParseBlock(b, FALSE))

(* Deviation: any message_delta closes the block that is open.                 *)
ClosesOnAny(e) == e.type \in {"content_block_stop", "message_stop", "content_block_start", "message_delta"}

(* Which events close the block that is open.                                  *)
Closes(e) ==
  \/ e.type \in {"content_block_stop", "message_stop", "content_block_start"}
  \/ e.type = "message_delta" /\ e.block # None

StartsCall(b) == b.type = "tool_use" /\ ~IsCodeName(b.name)

StateAfter(e, st) ==
  LET starts == e.type = "content_block_start"
  IN  [call |-> CASE starts /\ IsProviderCall(e.block) -> <<>>
                  [] starts /\ StartsCall(e.block) -> <<e.block.id>>
                  [] OTHER -> st.call,
       pending |-> CASE starts /\ IsProviderCall(e.block) -> <<e.block>>
                     [] Closes(e) /\ ~(starts /\ IsProviderCall(e.block)) -> <<>>
                     [] e.type = "content_block_delta" /\ e.block.type = "input_json_delta"
                          /\ st.pending # <<>> -> <<[st.pending[1] EXCEPT !.text = @ \o e.block.text]>>
                     [] OTHER -> st.pending,
       emitted |-> IF e.usage # 0 THEN e.usage ELSE st.emitted]

UsageContent(e, st) ==
  IF e.usage = 0 THEN <<>> ELSE <<Content("usage", "", "", <<e.usage - st.emitted>>)>>

(* parseStreamEvent.                                                           *)
StreamContents(e, st) ==
  LET json == e.block.type = "input_json_delta"
  IN  (IF Closes(e) THEN Flushed(st) ELSE <<>>)
        \o (CASE e.type = "content_block_start" /\ ~IsProviderCall(e.block) -> ParseBlock(e.block, TRUE)
              [] e.type = "content_block_delta" /\ ~json -> ParseBlock(e.block, TRUE)
              [] e.type = "content_block_delta" /\ json /\ st.pending = <<>> ->
                   Concat(st.call, LAMBDA id : Raw(Content("function_call", id, "", e.block.text), e.block))
              [] OTHER -> <<>>)
        \o UsageContent(e, st)

StreamUpdate(e, st) ==
  [Update("assistant", StreamContents(e, st)) EXCEPT
     !.responseId = IF e.type = "message_start" THEN MessageId ELSE "",
     !.finish = IF e.type = "message_delta" /\ e.block # None THEN FinishReason ELSE ""]

Visible(e, st) == e.type \in {"message_start", "message_delta"} \/ StreamContents(e, st) # <<>>

-----------------------------------------------------------------------------
(* to-anthropic.ts: the transcript into messages.                              *)
(* toolInput: what is not an object of JSON is wrapped in one.                 *)
IsJson(text) == text # <<>> /\ text[1] = "{" /\ text[Len(text)] = "}"
ToolInput(c) ==
  CASE c.text = <<>> -> <<"{", "}">>
    [] c.text # <<>> /\ IsJson(c.text) -> c.text
    [] OTHER -> <<"{", "raw">> \o c.text \o <<"}">>

(* serverToolCalls and codeExecutionFamilies: a server call is told by its raw *)
(* block, or by the prefix that the API gives the ids of those; its answer     *)
(* tells which of the three code tools ran.                                    *)
Of(transcript, types) == InMessages(transcript, types)
ServerIds ==
  {b.id : b \in {c \in UNION {{item[i] : i \in DOMAIN item} : item \in Items} : c.type = "server_tool_use"}}
IsServerToolCall(c) ==
  c.private /\ ((c.raw # <<>> /\ c.raw[1].type = "server_tool_use") \/ c.id \in ServerIds)
ServerCallIds(transcript) ==
  {c.id : c \in {d \in Of(transcript, {"function_call"}) : IsServerToolCall(d) /\ d.id # ""}}
Family(transcript, id) ==
  CASE id # "" /\ \E c \in Of(transcript, {"shell_tool_result"}) : c.id = id -> "bash_code_execution"
    [] id # "" /\ \E c \in Of(transcript, {"function_result"}) : c.id = id -> "text_editor_code_execution"
    [] OTHER -> "code_execution"
IsEditorResult(transcript, c) ==
  c.id # "" /\ \E d \in Of(transcript, {"code_call"}) : d.id = c.id

CodeErrors == {"invalid_tool_input", "unavailable", "too_many_requests", "execution_time_exceeded"}
ErrorPayload(type, code, codes) ==
  [NoPayload(type) EXCEPT !.code = IF code \in codes THEN code ELSE "unavailable"]

(* rebuiltFileEntries, preservedPayload.                                       *)
FileEntries(items, type) ==
  Concat(items, LAMBDA c : CASE c.type = "hosted_file" -> <<[type |-> type, id |-> c.id]>>
                             [] c.type = "unknown" -> c.text
                             [] OTHER -> <<>>)
Preserved(items) == Len(items) = 1 /\ items[1].type = "unknown"
TextOf(items, type) == AllOf(SelectSeq(items, LAMBDA c : c.type = type), LAMBDA c : c.text)

CodePayload(c) ==
  LET variant == c.props[1]
  IN  IF Preserved(c.text) THEN c.text[1].text[1]
      ELSE IF variant = "code_execution_tool_result_error"
      THEN ErrorPayload(variant, c.text[1].name, CodeErrors)
      ELSE [NoPayload(variant) EXCEPT
              !.out = TextOf(c.text, "text"), !.err = TextOf(c.text, "error"), !.rc = c.props[2],
              !.files = FileEntries(c.text, "code_execution_output")]

BashPayload(c, files) ==
  LET first == c.text[1]
      variant == c.props[1]
  IN  IF Preserved(c.text) THEN first.text[1]
      ELSE IF variant = "bash_code_execution_tool_result_error"
      THEN ErrorPayload(variant, IF first.private THEN "execution_time_exceeded" ELSE first.name,
                        CodeErrors \cup {"output_file_too_large"})
      ELSE [NoPayload(variant) EXCEPT
              !.out = first.text, !.err = first.props[1], !.rc = first.props[2],
              !.files = FileEntries(files, "bash_code_execution_output")]

(* rebuiltTextEditorResult.                                                    *)
EditorPayload(c) ==
  LET first == c.text[1]
      variant == c.props[1]
  IN  IF Preserved(c.text) THEN first.text[1]
      ELSE IF variant = "text_editor_code_execution_tool_result_error"
      THEN [ErrorPayload(variant, first.name, CodeErrors \cup {"file_not_found"}) EXCEPT !.err = first.text]
      ELSE [NoPayload(variant) EXCEPT
              !.out = first.text,
              !.spans = [i \in DOMAIN first.cites |->
                           [role |-> first.cites[i].role, span |-> first.cites[i].span]]]

(* The files of a shell result are the contents right before it.               *)
IsFileSibling(c) ==
  c.type = "hosted_file" \/ (c.type = "unknown" /\ c.name = "bash_code_execution_output")
FilesBefore(contents, i) ==
  LET from == {k \in 1..i : \A j \in k..(i - 1) : IsFileSibling(contents[j])}
  IN  SubSeq(contents, CHOOSE k \in from : \A j \in from : k <= j, i - 1)
FoldsIntoShell(contents, i) ==
  /\ contents[i].type = "unknown" /\ IsFileSibling(contents[i])
  /\ \E j \in (i + 1)..Len(contents) :
       contents[j].type = "shell_tool_result" /\ \A k \in (i + 1)..(j - 1) : IsFileSibling(contents[k])

(* providerExecutedBlock: the block the API sent is sent back as it was.       *)
RawTypes ==
  {"tool_use", "server_tool_use", "code_execution_tool_result", "bash_code_execution_tool_result",
   "text_editor_code_execution_tool_result", "web_search_tool_result"}
HeldRaw(c) ==
  /\ c.raw # <<>>
  /\ \/ c.type \in {"code_call", "code_result", "shell_tool_result", "function_result"}
          /\ c.raw[1].type \in RawTypes
     \/ c.type = "function_call" /\ c.private
     \/ c.type = "unknown"

(* A signature that comes alone is the previous thinking's.                    *)
Signed(blocks, seal) ==
  LET n == Len(blocks)
  IN  IF n > 0 /\ seal # "" /\ blocks[n].type = "thinking" /\ blocks[n].seal = ""
      THEN [blocks EXCEPT ![n].seal = seal] ELSE blocks

(* appendContent of what is rebuilt from its fields.                           *)
Rebuilt(transcript, contents, i) ==
  LET c == contents[i]
      WithPayload(type, payload) == <<[Block(type, c.id, "", <<>>) EXCEPT !.payload = payload]>>
  IN  CASE c.type = "code_call" -> <<Block("server_tool_use", c.id, Family(transcript, c.id), c.text)>>
        [] c.type = "code_result" -> WithPayload("code_execution_tool_result", CodePayload(c))
        [] c.type = "shell_tool_result" ->
             WithPayload("bash_code_execution_tool_result", BashPayload(c, FilesBefore(contents, i)))
        [] c.type = "text" /\ c.text # <<>> -> <<Block("text", "", "", c.text)>>
        [] c.type = "text_reasoning" /\ c.text # <<>> ->
             IF c.id # "" /\ c.seal = "" THEN <<Block("text", "", "", c.text)>>
             ELSE <<[Block("thinking", "", "", c.text) EXCEPT !.seal = c.seal]>>
        [] c.type = "function_call" /\ c.private -> <<Block("server_tool_use", c.id, c.name, c.text)>>
        [] c.type = "function_call" /\ ~c.private /\ c.id \in AnsweredCallIds(transcript) \ {""} ->
             <<Block("tool_use", c.id, c.name, ToolInput(c))>>
        [] c.type = "function_result" /\ c.id # "" ->
             IF IsEditorResult(transcript, c)
             THEN WithPayload("text_editor_code_execution_tool_result", EditorPayload(c))
             ELSE IF c.id \in ServerCallIds(transcript)
             THEN <<Block("web_search_tool_result", c.id, "", c.text)>>
             ELSE <<Block("tool_result", c.id, "", c.text)>>
        [] c.type = "mcp_call" -> <<Block("mcp_tool_use", c.id, c.name, ToolInput(c))>>
        [] c.type = "mcp_result" -> <<Block("mcp_tool_result", c.id, "", c.text)>>
        [] c.type = "unknown" /\ ~FoldsIntoShell(contents, i) -> c.text
        [] OTHER -> <<>>

AppendContent(transcript, contents, blocks, i) ==
  LET c == contents[i]
  IN  IF HeldRaw(c) /\ ~FoldsIntoShell(contents, i) THEN Append(blocks, c.raw[1])
      ELSE IF c.type = "text_reasoning" /\ c.text = <<>> THEN Signed(blocks, c.seal)
      ELSE blocks \o Rebuilt(transcript, contents, i)

(* messageGroups: a message may be several turns, by the role of its blocks.   *)
RoleOf(b, fallback) ==
  CASE b.type \in {"tool_use", "mcp_tool_use", "server_tool_use"} -> "assistant"
    [] b.type \in {"tool_result", "mcp_tool_result"} -> "user"
    [] OTHER -> fallback
MessageGroups(transcript, m) ==
  LET fallback == IF m.role = "assistant" THEN "assistant" ELSE "user"
      blocks == FoldLeft(LAMBDA all, i : AppendContent(transcript, m.contents, all, i), <<>>,
                         [i \in DOMAIN m.contents |-> i])
      Put(groups, b) ==
        LET n == Len(groups)
        IN  IF n > 0 /\ groups[n].role = RoleOf(b, fallback)
            THEN [groups EXCEPT ![n].content = Append(@, b)]
            ELSE Append(groups, [role |-> RoleOf(b, fallback), content |-> <<b>>])
  IN  FoldLeft(Put, <<>>, blocks)

(* The open turn: the trailing run of assistant messages, with nothing after   *)
(* it but local results.                                                       *)
OpenTurn(groups) ==
  LET Local(i) == \A j \in DOMAIN groups[i].content : groups[i].content[j].type = "tool_result"
      ends == {i \in 0..Len(groups) : \A j \in (i + 1)..Len(groups) : Local(j)}
      end == CHOOSE i \in ends : \A j \in ends : i <= j
  IN  {i \in 1..end : \A j \in i..end : groups[j].role = "assistant"}

BlocksOf(groups) ==
  UNION {{groups[i].content[j] : j \in DOMAIN groups[i].content} : i \in DOMAIN groups}
AnsweredIn(groups) == {b.id : b \in {c \in BlocksOf(groups) : c.type \in ResultTypes}}

Unanswered(groups, b) ==
  b.type # "mcp_tool_use" /\ IsProviderCall(b) /\ b.id \notin AnsweredIn(groups)

WithoutAbandoned(groups) ==
  LET Kept(i) == IF i \in OpenTurn(groups) THEN groups[i]
                 ELSE [groups[i] EXCEPT !.content = SelectSeq(@, LAMBDA b : ~Unanswered(groups, b))]
  IN  SelectSeq([i \in DOMAIN groups |-> Kept(i)], LAMBDA g : g.content # <<>>)

Pending(groups) ==
  \E i \in OpenTurn(groups) : \E j \in DOMAIN groups[i].content :
    Unanswered(groups, groups[i].content[j])

HasToolUse(g) ==
  \E i \in DOMAIN g.content : g.content[i].type \in {"tool_use", "mcp_tool_use", "server_tool_use"}

(* toAnthropicMessages: a request may end on the assistant only to go on with  *)
(* what the API has still to run.                                              *)
ToMessages(transcript) ==
  LET groups == Concat(transcript, LAMBDA m : MessageGroups(transcript, m))
      kept == WithoutAbandoned(groups)
      n == Len(kept)
  IN  IF n > 0 /\ kept[n].role = "assistant" /\ ~HasToolUse(kept[n]) /\ ~Pending(groups)
      THEN Append(kept, [role |-> "user", content |-> <<Block("text", "", "", <<"Continue">>)>>])
      ELSE kept

-----------------------------------------------------------------------------
Say(role, contents) == <<[role |-> role, messageId |-> "", contents |-> contents]>>

Init ==
  /\ history = Say("user", <<Content("text", "", "", <<"ask">>)>>)
  /\ request = <<>> /\ output = <<>> /\ used = {} /\ snapshots \in BOOLEAN
  /\ arriving = <<>> /\ state = NewState /\ folded = NoResponse /\ turns = 0 /\ pc = "ask"

(* What the API may answer: the calls of a local tool come last, after a call  *)
(* that it leaves open.                                                        *)
Rank(blocks) ==
  IF \E i \in DOMAIN blocks : StartsCall(blocks[i]) THEN 2
  ELSE IF \E i \in DOMAIN blocks : IsProviderCall(blocks[i]) /\ blocks[i].id \notin Answered(blocks)
  THEN 1 ELSE 0

Picks ==
  UNION {{p \in [1..n -> Items \ used] :
            IsInjective(p) /\ \A i \in 1..n : i > 1 => Rank(p[i - 1]) <= Rank(p[i])}
         : n \in 1..(MaxItems - turns)}

(* What the API has been left to run is answered first.                        *)
Resumed(groups) ==
  LET open == {b \in BlocksOf(groups) : Unanswered(groups, b)}
  IN  IF open = {} THEN <<>> ELSE <<ResultOf[(CHOOSE b \in open : TRUE).id]>>

(* getResponse: buildRequest refuses a request without messages.               *)
Ask ==
  /\ pc = "ask"
  /\ UNCHANGED <<history, snapshots>>
  /\ turns' = turns + 1
  /\ request' = ToMessages(history)
  /\ state' = NewState /\ folded' = NoResponse
  /\ IF request' = <<>> \/ turns = MaxItems
     THEN pc' = (IF request' = <<>> THEN "refused" ELSE "sent") /\ UNCHANGED <<output, arriving, used>>
     ELSE /\ pc' = "read"
          /\ \E p \in Picks :
               /\ output' = Resumed(request') \o Concat(p, LAMBDA blocks : blocks)
               /\ arriving' = Events'
               /\ used' = used \cup {p[i] : i \in DOMAIN p}

Consume ==
  /\ pc = "read" /\ arriving # <<>>
  /\ LET e == Head(arriving)
     IN  /\ state' = StateAfter(e, state)
         /\ folded' = IF Visible(e, state) THEN FoldUpdate(folded, StreamUpdate(e, state)) ELSE folded
  /\ arriving' = Tail(arriving)
  /\ UNCHANGED <<history, request, output, used, snapshots, turns, pc>>

(* The stream is left in the middle; what was read of it is kept, and the user *)
(* goes on.                                                                    *)
Abandon ==
  /\ pc = "read" /\ arriving # <<>> /\ folded.messages # <<>>
  /\ history' = history \o Finalized(folded).messages
                  \o Say("user", <<Content("text", "", "", <<"ask">>)>>)
  /\ pc' = "ask"
  /\ UNCHANGED <<request, output, used, snapshots, arriving, state, folded, turns>>

Finish ==
  /\ pc = "read" /\ arriving = <<>>
  /\ \E r \in {Finalized(folded), ParseMessage} : history' = history \o r.messages
  /\ pc' = "answer"
  /\ UNCHANGED <<request, output, used, snapshots, arriving, state, folded, turns>>

(* The local calls are executed, or the user goes on, or the paused turn does. *)
Answer ==
  /\ pc = "answer"
  /\ LET calls == SelectSeq(history[Len(history)].contents,
                            LAMBDA c : c.type = "function_call" /\ ~c.private)
         results == [i \in DOMAIN calls |-> Content("function_result", calls[i].id, "", <<"done">>)]
     IN  \/ calls # <<>> /\ history' = history \o Say("tool", results)
         \/ history' = history \o Say("user", <<Content("text", "", "", <<"ask">>)>>)
         \/ calls = <<>> /\ UNCHANGED history
  /\ pc' = "ask"
  /\ UNCHANGED <<request, output, used, snapshots, arriving, state, folded, turns>>

Done ==
  /\ pc \in {"refused", "sent"}
  /\ UNCHANGED vars

Next == Ask \/ Consume \/ Abandon \/ Finish \/ Answer \/ Done
Spec == Init /\ [][Next]_vars

-----------------------------------------------------------------------------
(* What a reader of a response can tell: what is said, each thought with its   *)
(* signature, each other content in order with the input it was called with,   *)
(* and the envelope.                                                           *)
View(r) ==
  LET cs == Concat(r.messages, LAMBDA m : m.contents)
      thoughts == SelectSeq(cs, LAMBDA c : c.type = "text_reasoning")
      others == SelectSeq(cs, LAMBDA c : c.type \notin {"text", "text_reasoning"})
      Calls(c) == c.type \in {"function_call", "mcp_call"}
  IN  <<TextOf(cs, "text"), [i \in DOMAIN thoughts |-> <<thoughts[i].text, thoughts[i].seal>>],
        [i \in DOMAIN others |-> <<others[i].type, others[i].id, others[i].name,
           IF Calls(others[i]) THEN ToolInput(others[i]) ELSE others[i].text>>],
        [r EXCEPT !.messages = <<>>]>>

(* A message read event by event is the message that an awaited request        *)
(* returns, its usage counted once.                                            *)
StreamedIsAwaited ==
  pc = "read" /\ arriving = <<>> => View(Finalized(folded)) = View(ParseMessage)

(* The turns the API sees: messages of one role that follow each other are one.*)
Turns ==
  FoldLeft(LAMBDA all, g : IF all # <<>> /\ all[Len(all)].role = g.role
                           THEN [all EXCEPT ![Len(all)].content = @ \o g.content]
                           ELSE Append(all, g), <<>>, request)

IdsOf(g, Is(_)) == {b.id : b \in {c \in BlocksOf(<<g>>) : Is(c)}}
Results(g) == IdsOf(g, LAMBDA b : b.type = "tool_result")

(* A request the API accepts: a local call is answered in the turn that        *)
(* follows it and nothing else is answered there; a call of the API has its    *)
(* result, or its turn is open; the last word is the user's, unless the turn   *)
(* is open or holds a call of the API.                                         *)
LocalResults == {b \in BlocksOf(request) : b.type = "tool_result"}
Sent == pc = "sent" \/ (pc = "read" /\ folded = NoResponse)
RequestIsSendable ==
  /\ pc # "refused"
  /\ Sent => \A i \in DOMAIN Turns :
       /\ i > 1 => Results(Turns[i]) \subseteq IdsOf(Turns[i - 1], StartsCall)
       /\ IdsOf(Turns[i], StartsCall) # {} =>
            i < Len(Turns) /\ IdsOf(Turns[i], StartsCall) \subseteq Results(Turns[i + 1])
       /\ IdsOf(Turns[i], LAMBDA b : Unanswered(request, b)) # {} =>
            \/ i = Len(Turns)
            \/ i = Len(Turns) - 1 /\ BlocksOf(<<Turns[i + 1]>>) \subseteq LocalResults
  /\ Sent => \/ Turns[Len(Turns)].role = "user"
             \/ Pending(request) \/ HasToolUse(request[Len(request)])

(* A transcript that was serialised and read back sends what it sent before:   *)
(* what is rebuilt from typed contents is the block the API had sent.          *)
RestoredIsReplayed == Sent => ToMessages(Restored(history)) = request
=============================================================================
