-------------------------- MODULE ResponsesClient --------------------------
(* The OpenAI Responses client (packages/openai): a conversation of requests   *)
(* built from a transcript (to-openai.ts, buildRequest of chat-client.ts) and  *)
(* of responses read whole or event by event (from-openai.ts).                 *)
(*                                                                             *)
(* The service is external: it picks the items of a response from Items, sends *)
(* the events of each item one after the other and may stop short.             *)
LOCAL INSTANCE Naturals
LOCAL INSTANCE Sequences
LOCAL INSTANCE SequencesExt
LOCAL INSTANCE Functions
LOCAL INSTANCE Updates
CONSTANTS Items,      \* the items a response may have
          MaxItems,   \* items of the first response; one less for each that follows
          MaxTurns    \* requests of one conversation

VARIABLES
  stored,    \* the requests leave store on
  conversation, \* the id the next request continues, "" for none
  history,   \* the transcript on this side
  messages,  \* what the last request was asked to carry
  request,   \* its input
  output,    \* the items of the response being read
  ending,    \* how the service ends it
  arriving,  \* its events that this connection has still to deliver
  state,     \* StreamParseState
  folded,    \* the response folded from the updates so far
  lost,      \* this response has been resumed
  turns,
  pc         \* "ask", "read", "answer", "over"
vars == <<stored, conversation, history, messages, request,
           output, ending, arriving, state, folded, lost, turns, pc>>

Concat(s, Op(_)) == FoldLeft(LAMBDA all, x : all \o Op(x), <<>>, s)

-----------------------------------------------------------------------------
(* What the service sends (external).                                          *)
Event(type, index, item) ==
  [type |-> type, index |-> index, item |-> item, text |-> <<>>, part |-> "", cite |-> <<>>]

Texts(type, k, item, tokens) ==
  [i \in DOMAIN tokens |-> [Event(type, k, item) EXCEPT !.text = <<tokens[i]>>]]

(* Announced without content; a quiet item has no deltas, its echo alone.      *)
Script(item, k) ==
  LET Begin == <<Event("output_item.added", k, [item EXCEPT !.content = <<>>, !.seal = ""])>>
      End == <<Event("output_item.done", k, item)>>
      Part(p) == <<[Event("content_part.added", k, item) EXCEPT !.part = p.type]>>
                   \o Texts(IF p.type = "refusal" THEN "refusal.delta" ELSE "output_text.delta", k, item, p.text)
                   \o [i \in DOMAIN p.cites |->
                         [Event("annotation.added", k, item) EXCEPT !.cite = <<p.cites[i]>>]]
      Reason(kind, t) == (IF item.quiet THEN <<>> ELSE Texts(kind \o ".delta", k, item, t))
                           \o <<[Event(kind \o ".done", k, item) EXCEPT !.text = t]>>
  IN  Begin
      \o (CASE item.type = "message" -> Concat(item.parts, Part)
            [] item.type = "reasoning" ->
                 Concat(item.summary, LAMBDA t : Reason("reasoning_summary_text", t))
                   \o Concat(item.content, LAMBDA t : Reason("reasoning_text", t))
            [] item.type = "function_call" -> Texts("arguments.delta", k, item, item.args)
            [] item.type = "image_generation_call" /\ item.quiet = FALSE ->
                 <<Event("partial_image", k, item)>>
            [] OTHER -> <<>>)
      \o End

Events ==
  LET none == [type |-> "none", id |-> ""]
  IN  <<Event("created", 0, none), Event("in_progress", 0, none)>>
        \o Concat([k \in DOMAIN output |-> <<output[k], k>>], LAMBDA p : Script(p[1], p[2]))
        \o <<Event(ending, 0, none)>>

-----------------------------------------------------------------------------
(* from-openai.ts: items into contents.                                        *)

(* parseAnnotations: which fields of each form are kept.                       *)
Kept(w) ==
  [w EXCEPT !.form = "citation", !.raw = <<w>>,
            !.title = IF w.form = "url_citation" THEN @ ELSE "",
            !.index = IF w.form \in {"file_path", "file_citation"} THEN @ ELSE "",
            !.url = IF w.form = "file_path" THEN "" ELSE @,
            !.file = IF w.form = "url_citation" THEN "" ELSE @,
            !.container = IF w.form = "container_file_citation" THEN @ ELSE "",
            !.spans = IF w.form \in {"url_citation", "container_file_citation"} THEN @ ELSE <<>>]
Cited(cites) == [i \in DOMAIN cites |-> Kept(cites[i])]

PartContent(p, cites) ==
  IF p.type \in {"output_text", "refusal"}
  THEN [Content("text", "", "", p.text) EXCEPT !.cites = cites]
  ELSE Content("unknown", "", p.type, <<>>)

Reasoning(id, text, private) ==
  [Content("text_reasoning", id, "", text) EXCEPT !.private = private]

(* reasoningContents: the payload rides on the first fragment.                 *)
ReasoningContents(item) ==
  LET cs == [i \in DOMAIN item.content |-> Reasoning(item.id, item.content[i], TRUE)]
              \o [i \in DOMAIN item.summary |-> Reasoning(item.id, item.summary[i], FALSE)]
      all == IF cs = <<>> THEN <<Reasoning(item.id, <<>>, FALSE)>> ELSE cs
  IN  [all EXCEPT ![1].seal = item.seal]

FirstNonEmpty(a, b) == IF a # "" THEN a ELSE b

(* searchCallContents, mcpCallContents, codeInterpreterCallContents and the    *)
(* image call: a call, and a result where the item has one.                    *)
HostedContents(item) ==
  LET id == FirstNonEmpty(item.id, item.callId)
      codeId == FirstNonEmpty(item.callId, item.id)
  IN  CASE item.type \in {"web_search_call", "file_search_call"} ->
             <<Content("search_call", id, item.type, item.args),
               Content("search_result", id, item.type, item.output)>>
        [] item.type = "mcp_call" ->
             <<Content("mcp_server_tool_call", id, item.name, item.args)>>
               \o (IF item.output = <<>> THEN <<>>
                   ELSE <<Content("mcp_server_tool_result", id, "", item.output)>>)
        [] item.type = "code_interpreter_call" ->
             (IF item.args = <<>> THEN <<>> ELSE <<Content("code_call", codeId, "", item.args)>>)
               \o <<Content("code_result", codeId, "", item.output)>>
        [] item.type = "mcp_approval_request" ->
             <<[Content("function_approval_request", item.id, item.name, item.args)
                  EXCEPT !.private = TRUE]>>
        [] item.type = "image_generation_call" ->
             <<Content("image_call", item.id, "", <<>>),
               Content("image_result", item.id, "", item.output)>>

HostedItemTypes ==
  {"web_search_call", "file_search_call", "code_interpreter_call", "mcp_call",
   "mcp_approval_request", "image_generation_call"}
StreamedItemTypes == {"message", "function_call", "reasoning"}

ItemContents(item) ==
  CASE item.type = "message" ->
         [i \in DOMAIN item.parts |-> PartContent(item.parts[i],
            IF item.parts[i].type = "output_text" THEN Cited(item.parts[i].cites) ELSE <<>>)]
    [] item.type = "reasoning" -> ReasoningContents(item)
    [] item.type = "function_call" ->
         <<Content("function_call", FirstNonEmpty(item.callId, item.id), item.name, item.args)>>
    [] item.type \in HostedItemTypes -> HostedContents(item)
    [] OTHER -> <<Content("unknown", item.id, item.type, item.args)>>

(* parseFinishReason, failureContent, parseConversationId.                     *)
FinishReason ==
  CASE ending = "incomplete" -> "length"
    [] ending = "completed" ->
         IF \E i \in DOMAIN output : output[i].type = "function_call" THEN "tool_calls" ELSE "stop"
    [] OTHER -> ""
Failure == IF ending = "failed" THEN <<Content("error", "", "failed", <<>>)>> ELSE <<>>
ResponseId == "resp" \o ToString(turns)
ConversationId == IF stored THEN ResponseId ELSE ""

Envelope(u) ==
  [u EXCEPT !.responseId = ResponseId, !.conversation = ConversationId, !.finish = FinishReason]

(* parseResponse of a response that has ended.                                 *)
ParseResponse ==
  [messages |-> <<[role |-> "assistant", messageId |-> "",
                   contents |-> Concat(output, ItemContents) \o Failure]>>,
   responseId |-> ResponseId, conversation |-> ConversationId,
   finish |-> FinishReason, token |-> "", usage |-> 1]

-----------------------------------------------------------------------------
(* parseStreamEvent.                                                           *)
NewState == [calls |-> {}, seen |-> {}]
Terminal == {"completed", "incomplete", "failed"}

Deltas == {"reasoning_summary_text.delta", "reasoning_text.delta"}
Echoes == {"reasoning_summary_text.done", "reasoning_text.done"}
Private(e) == e.type \in {"reasoning_text.delta", "reasoning_text.done"}

CallOf(st, e) == {c \in st.calls : c[1] = e.index}

(* FALSE for an event that makes no update.                                    *)
Visible(e, st) ==
  CASE e.type = "output_item.added" -> e.item.type = "reasoning"
    [] e.type \in Echoes -> e.item.id \notin st.seen
    [] e.type = "arguments.delta" -> CallOf(st, e) # {}
    [] e.type = "output_item.done" -> e.item.type \notin StreamedItemTypes \/ e.item.seal # ""
    [] OTHER -> TRUE

FinishedItem(item) ==
  IF item.type = "reasoning"
  THEN <<[Reasoning(item.id, <<>>, FALSE) EXCEPT !.seal = item.seal]>>
  ELSE ItemContents(item)

StreamContents(e, st) ==
  CASE e.type \in Deltas \cup Echoes -> <<Reasoning(e.item.id, e.text, Private(e))>>
    [] e.type = "content_part.added" -> <<PartContent([type |-> e.part, text |-> <<>>], <<>>)>>
    [] e.type \in {"output_text.delta", "refusal.delta"} -> <<Content("text", "", "", e.text)>>
    [] e.type = "annotation.added" -> <<[Content("text", "", "", <<>>) EXCEPT !.cites = Cited(e.cite)]>>
    [] e.type = "output_item.added" -> ReasoningContents([e.item EXCEPT !.summary = <<>>])
    [] e.type = "arguments.delta" ->
         LET c == CHOOSE x \in CallOf(st, e) : TRUE
         IN  <<Content("function_call", c[2], c[3], e.text)>>
    [] e.type = "partial_image" ->
         <<Content("image_call", e.item.id, "partial", <<>>),
           Content("image_result", e.item.id, "partial", <<>>)>>
    [] e.type = "output_item.done" -> FinishedItem(e.item)
    [] e.type = "error" -> <<Content("error", "", "failed", <<>>)>>
    [] e.type \in Terminal -> <<Content("usage", "", "", <<1>>)>> \o Failure
    [] OTHER -> <<>>

StateAfter(e, st) ==
  [calls |-> IF e.type = "output_item.added" /\ e.item.type = "function_call"
             THEN (st.calls \ CallOf(st, e))
                    \cup {<<e.index, FirstNonEmpty(e.item.callId, e.item.id), e.item.name>>}
             ELSE st.calls,
   seen |-> IF e.type \in Deltas THEN st.seen \cup {e.item.id} ELSE st.seen]

StreamUpdate(e, st) ==
  LET u == Update("assistant", StreamContents(e, st))
  IN  CASE e.type \in Terminal -> Envelope(u)
        [] e.type \in {"created", "in_progress"} ->
             [u EXCEPT !.responseId = ResponseId, !.conversation = ConversationId,
                       !.token = ResponseId]
        [] OTHER -> u

-----------------------------------------------------------------------------
(* to-openai.ts: the transcript into the items of a request.                   *)
Blank == [form |-> "", title |-> "", index |-> "", url |-> "", file |-> "",
          container |-> "", spans |-> <<>>, raw |-> <<>>]
Sent(c, form, fields) ==
  [[f \in DOMAIN Blank |-> IF f \in fields THEN c[f] ELSE Blank[f]] EXCEPT !.form = form]
PerSpan(w) == [i \in DOMAIN w.spans |-> [w EXCEPT !.spans = <<@[i]>>]]

(* Deviation: the container of a file is not looked at.                        *)
ToWireNoContainer(c) ==
  CASE c.raw # <<>> -> c.raw
    [] c.raw = <<>> /\ c.url # "" /\ c.file = "" /\ c.spans # <<>> ->
         PerSpan(Sent(c, "url_citation", {"url", "title", "spans"}))
    [] c.raw = <<>> /\ c.file # "" /\ c.url # "" ->
         <<Sent(c, "file_citation", {"file", "url", "index"})>>
    [] c.raw = <<>> /\ c.file # "" /\ c.url = "" -> <<Sent(c, "file_path", {"file", "index"})>>
    [] OTHER -> <<>>

(* toWireAnnotations: the provider's own object, else the form it had.         *)
ToWire(c) ==
  IF c.raw # <<>> THEN c.raw
  ELSE IF c.container # "" /\ c.file # ""
  THEN PerSpan(Sent(c, "container_file_citation", {"container", "file", "url", "spans"}))
  ELSE IF c.url # "" /\ c.file = "" /\ c.spans # <<>>
  THEN PerSpan(Sent(c, "url_citation", {"url", "title", "spans"}))
  ELSE IF c.file # "" /\ c.url # "" THEN <<Sent(c, "file_citation", {"file", "url", "index"})>>
  ELSE IF c.file # "" THEN <<Sent(c, "file_path", {"file", "index"})>>
  ELSE <<>>

Item(type, id, text) ==
  [type |-> type, id |-> id, text |-> text, seal |-> "", private |-> <<>>, cites |-> <<>>,
   output |-> <<>>]

(* contentToMessagePart: what has no form on the wire is left out.             *)
MessageParts(role, c) ==
  CASE c.type = "text" ->
         <<[Item(IF role = "assistant" THEN "output_text" ELSE "input_text", "", c.text)
              EXCEPT !.cites = IF role = "assistant" THEN Concat(c.cites, ToWire) ELSE <<>>]>>
    [] c.type = "data" /\ c.name \in {"image", "wav", "file"} -> <<Item("input_" \o c.name, "", c.text)>>
    [] OTHER -> <<>>

(* functionCallOutput: parts when an item of the result (its cites hold them)  *)
(* is an image or a file.                                                      *)
CallOutput(c) ==
  LET parts == Concat(c.cites, LAMBDA d : MessageParts("user", d))
      rich == \E i \in DOMAIN c.cites : c.cites[i].type = "data"
  IN  IF rich /\ parts # <<>> THEN parts ELSE c.text

Contents(transcript) == Concat(transcript, LAMBDA m : m.contents)

(* prepareReasoningItems: one item per id; the first payload of its fragments. *)
ReasoningItem(transcript, id) ==
  LET fragments == SelectSeq(Contents(transcript),
                             LAMBDA c : c.type = "text_reasoning" /\ c.id = id)
      sealed == SelectSeq(fragments, LAMBDA c : c.seal # "")
      Text(private) == AllOf(SelectSeq(fragments, LAMBDA c : c.private = private),
                             LAMBDA c : c.text)
  IN  IF sealed = <<>> THEN <<>>
      ELSE <<[Item("reasoning", id, Text(FALSE)) EXCEPT
                !.private = Text(TRUE), !.seal = sealed[1].seal]>>

(* validateReasoningGroupsForStatelessReplay.  A group is the position of the  *)
(* message that opens it; 0 is none.                                           *)
CallTypes == {"function_call", "function_result", "mcp_server_tool_call", "mcp_server_tool_result"}
Groups(transcript) ==
  LET Has(m, types) == \E i \in DOMAIN m.contents : m.contents[i].type \in types /\ m.contents[i].id # ""
      Opened(g, i) == IF g.pending # 0 THEN g.pending ELSE i
      Step(g, i) ==
        LET m == transcript[i]
            calls == Has(m, CallTypes)
        IN  CASE m.role = "assistant" /\ calls ->
                   [pending |-> 0, active |-> Opened(g, i), of |-> Append(g.of, Opened(g, i))]
              [] m.role = "assistant" /\ ~calls /\ Has(m, {"text_reasoning"}) ->
                   [g EXCEPT !.pending = Opened(g, i), !.of = Append(@, Opened(g, i))]
              [] m.role = "tool" /\ g.active # 0 -> [g EXCEPT !.of = Append(@, g.active)]
              [] OTHER -> [pending |-> 0, active |-> 0, of |-> Append(g.of, i)]
  IN  FoldLeft(Step, [pending |-> 0, active |-> 0, of |-> <<>>], [i \in DOMAIN transcript |-> i]).of

Replayable(transcript) ==
  LET group == Groups(transcript)
      OfGroup(g) == InMessages(SelectSeq([i \in DOMAIN transcript |->
                                            IF group[i] = g THEN transcript[i]
                                            ELSE [transcript[i] EXCEPT !.contents = <<>>]],
                                         LAMBDA m : m.contents # <<>>),
                               CallTypes \cup {"text_reasoning"})
  IN  \A g \in {group[i] : i \in DOMAIN group} :
        LET reasoning == {c \in OfGroup(g) : c.type = "text_reasoning"}
        IN  (\E c \in OfGroup(g) : c.type \in CallTypes) =>
              \A c \in reasoning : \E d \in reasoning : d.id = c.id /\ d.id # "" /\ d.seal # ""

ServiceHeld ==
  {"function_call", "function_approval_request", "mcp_server_tool_call",
   "mcp_server_tool_result", "text_reasoning"}

(* The items of one content; private marks an approval of a hosted tool.       *)
ContentItems(transcript, service, c) ==
  IF service /\ c.type \in ServiceHeld THEN <<>>
  ELSE CASE c.type = "function_call" ->
              IF c.id \in AnsweredCallIds(transcript) \ {""}
              THEN <<Item("function_call", c.id, c.text)>> ELSE <<>>
         [] c.type = "function_result" ->
              <<[Item("function_call_output", c.id, <<>>) EXCEPT !.output = CallOutput(c)]>>
         [] c.type = "function_approval_request" /\ c.private ->
              <<Item("mcp_approval_request", c.id, c.text)>>
         [] c.type = "function_approval_response" /\ c.private ->
              <<Item("mcp_approval_response", c.id, c.text)>>
         [] c.type = "mcp_server_tool_call" /\ c.id # "" -> <<Item("mcp_call", c.id, c.text)>>
         [] c.type = "text_reasoning" /\ c.id # "" -> ReasoningItem(transcript, c.id)
         [] OTHER -> <<>>

(* A reasoning item is sent once; what a message says follows its calls.       *)
MessageItems(transcript, service, items, m) ==
  LET parts == Concat(m.contents, LAMBDA c : MessageParts(m.role, c))
      Put(all, c) ==
        IF c.type = "text_reasoning" /\ \E i \in DOMAIN all : all[i].type = "reasoning" /\ all[i].id = c.id
        THEN all ELSE all \o ContentItems(transcript, service, c)
  IN  FoldLeft(Put, items, m.contents)
        \o (IF parts = <<>> THEN <<>>
            ELSE <<[Item("message", m.role, <<>>) EXCEPT !.output = parts]>>)

(* An MCP result is folded onto the last call of its id.                       *)
WithMcpOutputs(items, results) ==
  LET Put(all, r) ==
        LET of == {i \in DOMAIN all : all[i].type = "mcp_call" /\ all[i].id = r.id}
            last == CHOOSE i \in of : \A j \in of : j <= i
        IN  IF of = {} \/ all[last].output # <<>> THEN all ELSE [all EXCEPT ![last].output = r.text]
  IN  FoldLeft(Put, items, results)

ToInput(transcript, service) ==
  WithMcpOutputs(
    FoldLeft(LAMBDA items, m : MessageItems(transcript, service, items, m), <<>>, transcript),
    IF service THEN <<>>
    ELSE SelectSeq(Contents(transcript), LAMBDA c : c.type = "mcp_server_tool_result"))

-----------------------------------------------------------------------------
UsesServiceStorage == conversation # ""

(* include: the payload is asked for unless the service holds the transcript.  *)
WithoutPayload(item) == IF item.type = "reasoning" THEN [item EXCEPT !.seal = ""] ELSE item
Encrypted == ~UsesServiceStorage

Init ==
  /\ stored \in BOOLEAN
  /\ conversation = "" /\ messages = <<>> /\ request = <<>>
  /\ history = <<[role |-> "user", messageId |-> "",
                  contents |-> <<Content("text", "", "", <<"ask">>)>>]>>
  /\ output = <<>> /\ ending = "" /\ arriving = <<>> /\ state = NewState /\ folded = NoResponse
  /\ lost = FALSE /\ turns = 0 /\ pc = "ask"

(* What follows the last answer: all that a stored conversation needs.         *)
News(transcript) ==
  LET answers == {i \in DOMAIN transcript : transcript[i].role = "assistant"}
      from == IF answers = {} THEN 0 ELSE CHOOSE i \in answers : \A j \in answers : j <= i
  IN  SubSeq(transcript, from + 1, Len(transcript))

(* No item is sent twice by the service.                                       *)
Fresh == {item \in Items : \A i \in DOMAIN output : output[i].id # item.id}

(* getResponse: the request is built or refused; the service picks its answer. *)
Ask ==
  /\ pc = "ask" /\ turns < MaxTurns
  /\ turns' = turns + 1
  /\ messages' \in {history} \cup (IF UsesServiceStorage THEN {News(history)} ELSE {})
  /\ request' = ToInput(messages', UsesServiceStorage)
  /\ state' = NewState /\ folded' = NoResponse /\ lost' = FALSE
  /\ IF request' = <<>> \/ (~UsesServiceStorage /\ ~Replayable(messages'))
     THEN pc' = "refused" /\ output' = <<>> /\ ending' = "" /\ arriving' = <<>>
     ELSE /\ pc' = "read"
          /\ ending' \in Terminal \cup {"error"}
          /\ \E n \in 1..(MaxItems - turns) : \E picked \in [1..n -> Fresh] :
               /\ IsInjective(picked)
               /\ output' = [i \in 1..n |-> IF Encrypted THEN picked[i] ELSE WithoutPayload(picked[i])]
               /\ arriving' = Events'
  /\ UNCHANGED <<stored, conversation, history>>

(* #parseStream: one event of the connection, up to the terminal one.          *)
Consume ==
  /\ pc = "read" /\ arriving # <<>>
  /\ LET e == Head(arriving)
     IN  /\ state' = StateAfter(e, state)
         /\ folded' = IF Visible(e, state) THEN FoldUpdate(folded, StreamUpdate(e, state)) ELSE folded
  /\ arriving' = Tail(arriving)
  /\ UNCHANGED <<stored, conversation, history, messages, request, output, ending, lost, turns, pc>>

(* A background response outlives its connection: the token that its first     *)
(* updates carried retrieves it again, and the events are replayed from the    *)
(* first into a response of their own.                                         *)
Resume ==
  /\ pc = "read" /\ ~lost /\ stored /\ arriving # <<>> /\ Len(arriving) < Len(Events)
  /\ arriving' = Events /\ state' = NewState /\ folded' = NoResponse /\ lost' = TRUE
  /\ UNCHANGED <<stored, conversation, history, messages, request, output, ending, turns, pc>>

(* The end of the stream, or the answer of an awaited request.                 *)
Finish ==
  /\ pc = "read" /\ arriving = <<>>
  /\ LET streamed == Finalized(folded)
     IN  \E r \in {streamed} \cup (IF ending \in Terminal THEN {ParseResponse} ELSE {}) :
           /\ history' = history \o r.messages
           /\ conversation' = IF r.conversation # "" THEN r.conversation ELSE conversation
  /\ pc' = IF ending = "completed" THEN "answer" ELSE "over"
  /\ UNCHANGED <<stored, messages, request, output, ending, arriving, state, folded, lost, turns>>

Message(role, contents) == <<[role |-> role, messageId |-> "", contents |-> contents]>>
Results(calls) ==
  [i \in DOMAIN calls |-> Content("function_result", calls[i].id, "", <<"done">>)]
Responses(requests) ==
  [i \in DOMAIN requests |->
     [Content("function_approval_response", requests[i].id, "", <<"yes">>) EXCEPT !.private = TRUE]]

(* The calls are executed, or the user goes on without them.                   *)
Answer ==
  /\ pc = "answer"
  /\ LET said == history[Len(history)].contents
         calls == SelectSeq(said, LAMBDA c : c.type = "function_call")
         requests == SelectSeq(said, LAMBDA c : c.type = "function_approval_request")
         user == Responses(requests) \o <<Content("text", "", "", <<"ask">>)>>
     IN  \/ calls # <<>> /\ history' = history \o Message("tool", Results(calls))
         \/ history' = history \o Message("user", user)
  /\ pc' = "ask"
  /\ UNCHANGED <<stored, conversation, messages, request, output, ending, arriving, state, folded, lost, turns>>

Done ==
  /\ pc \in {"over", "refused"} \/ (pc = "ask" /\ turns = MaxTurns)
  /\ UNCHANGED vars

Next == Ask \/ Consume \/ Resume \/ Finish \/ Answer \/ Done
Spec == Init /\ [][Next]_vars

-----------------------------------------------------------------------------
(* What a reader of a response can tell: the text and its citations, each      *)
(* reasoning item by its id, everything else in order (but for the previews of *)
(* an image), and the envelope.                                                *)
View(r) ==
  LET cs == Contents(r.messages)
      Of(types) == SelectSeq(cs, LAMBDA c : c.type \in types)
      Thought(id, private) ==
        AllOf(SelectSeq(cs, LAMBDA c : c.type = "text_reasoning" /\ c.id = id /\ c.private = private),
              LAMBDA c : c.text)
      Seals(id) == {c.seal : c \in {d \in InMessages(r.messages, {"text_reasoning"}) : d.id = id}} \ {""}
      ids == {c.id : c \in InMessages(r.messages, {"text_reasoning"})}
  IN  <<AllOf(Of({"text"}), LAMBDA c : c.text), AllOf(Of({"text"}), LAMBDA c : c.cites),
        [id \in ids |-> <<Thought(id, TRUE), Thought(id, FALSE), Seals(id)>>],
        SelectSeq(cs, LAMBDA c : c.type \notin {"text", "text_reasoning"} /\ c.name # "partial"),
        [r EXCEPT !.messages = <<>>]>>

(* A response read event by event, over one connection or retrieved again over *)
(* another, is the response that an awaited request returns.                   *)
StreamedIsAwaited ==
  pc = "read" /\ arriving = <<>> /\ ending \in Terminal =>
    View(Finalized(folded)) = View(ParseResponse)

Positions(types) == {i \in DOMAIN request : request[i].type \in types}
Once(types) == \A i, j \in Positions(types) : request[i].id = request[j].id => i = j
Behind(type, types) ==
  \A i \in Positions({type}) : \E j \in Positions(types) : request[i].id = request[j].id /\ j < i

(* A request is never refused on this side, and what it carries the service    *)
(* can match: every call with its output behind it, every output and answer    *)
(* behind what it answers unless the service holds that, no item twice.        *)
Sending == pc = "read" /\ folded = NoResponse
RequestIsSendable ==
  /\ pc # "refused"
  /\ Sending => \A type \in {"function_call", "reasoning", "mcp_call", "function_call_output"} : Once({type})
  /\ Sending => \A i \in Positions({"function_call"}) :
       \E j \in Positions({"function_call_output"}) : request[i].id = request[j].id /\ i < j
  /\ Sending =>
       \/ /\ Behind("function_call_output", {"function_call"})
          /\ Behind("mcp_approval_response", {"mcp_approval_request"})
       \/ /\ stored
          /\ Positions({"reasoning", "function_call", "mcp_call", "mcp_approval_request"}) = {}

(* A transcript that was serialised and read back sends what it sent before.   *)
RestoredIsReplayed ==
  Sending => ToInput(Restored(messages), conversation # "") = request
=============================================================================
