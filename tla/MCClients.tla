------------------------------ MODULE MCClients ------------------------------
(***************************************************************************)
(* The clients of services for TLC: a behaviour is one of the client named *)
(* by "client", of a model with small responses of every item it can       *)
(* parse, of a remote agent, or of the response store of a hosted agent.   *)
(***************************************************************************)
EXTENDS FoundryStore, TLC
CONSTANT Contexts

-----------------------------------------------------------------------------
(* Items of the Responses API.                                             *)
Item(type, id) ==
  [type |-> type, id |-> id, callId |-> "", name |-> "", args |-> <<>>, output |-> <<>>,
   content |-> <<>>, summary |-> <<>>, seal |-> "", quiet |-> FALSE, parts |-> <<>>]
Part(type, text, cites) == [type |-> type, text |-> text, cites |-> cites]
Cite(form) ==
  [form |-> form, title |-> "", index |-> "", url |-> "", file |-> "", container |-> "", spans |-> <<>>, raw |-> <<>>]
Web   == [Cite("url_citation") EXCEPT !.url = "u", !.title = "t", !.spans = <<"0-1">>]
File  == [Cite("file_citation") EXCEPT !.file = "f", !.url = "n", !.index = "1"]
Boxed == [Cite("container_file_citation") EXCEPT !.file = "f", !.url = "n", !.container = "c", !.spans = <<"1-2">>]
Path  == [Cite("file_path") EXCEPT !.file = "f", !.index = "1"]
Json  == <<"{", "q", "}">>

Spoken == <<Part("output_text", <<"a", "b">>, <<Web, File>>), Part("refusal", <<"no">>, <<>>),
            Part("audio", <<>>, <<>>), Part("output_text", <<"c">>, <<Boxed, Path>>)>>
ResponseItems ==
  { [Item("message", "m") EXCEPT !.parts = Spoken],
    [Item("reasoning", "r1") EXCEPT !.content = <<<<"t", "u">>>>, !.summary = <<<<"s">>, <<"v">>>>, !.seal = "x"],
    [Item("reasoning", "r2") EXCEPT !.summary = <<<<"s">>>>, !.seal = "y", !.quiet = TRUE],
    [Item("reasoning", "r3") EXCEPT !.seal = "z"],
    [Item("function_call", "fc") EXCEPT !.callId = "call", !.name = "f", !.args = <<"{", "}">>],
    [Item("mcp_call", "mcp") EXCEPT !.name = "g", !.args = <<"{}">>, !.output = <<"ok">>],
    [Item("mcp_call", "mcq") EXCEPT !.name = "g", !.args = <<"{}">>],
    [Item("code_interpreter_call", "ci") EXCEPT !.args = <<"code">>, !.output = <<"log", "image">>],
    [Item("image_generation_call", "ig") EXCEPT !.output = <<"png">>],
    [Item("web_search_call", "ws") EXCEPT !.args = <<"q">>],
    [Item("mcp_approval_request", "ar") EXCEPT !.name = "g", !.args = <<"{}">>],
    Item("computer_call", "cc") }

-----------------------------------------------------------------------------
(* Blocks of the Messages API, in groups that come together.               *)
Empty(type) ==
  [type |-> type, code |-> "", out |-> <<>>, err |-> <<>>, rc |-> 0, files |-> <<>>, spans |-> <<>>]
Block(type, id, name, text) ==
  [type |-> type, id |-> id, name |-> name, text |-> text, seal |-> "", payload |-> Empty("")]
Run(id, name, payload) ==
  <<Block("server_tool_use", id, name, Json),
    [Block(name \o "_tool_result", id, "", <<>>) EXCEPT !.payload = payload]>>
Files(type) == <<[type |-> type, id |-> "f1"], [type |-> type, id |-> ""]>>
Output(type, files) ==
  [Empty(type) EXCEPT !.out = <<"o">>, !.err = <<"e">>, !.rc = 1, !.files = Files(files)]
Error(type, code, says) == [Empty(type) EXCEPT !.code = code, !.err = says]

Shell == Run("srv5", "bash_code_execution", Output("bash_code_execution_result", "bash_code_execution_output"))
Coded == Run("srv3", "code_execution", Output("encrypted_code_execution_result", "code_execution_output"))
Edited ==
  Run("srv7", "text_editor_code_execution",
      [Empty("text_editor_code_execution_str_replace_result") EXCEPT !.out = <<"l">>,
         !.spans = <<[role |-> "replaced", span |-> "1+2"], [role |-> "inserted", span |-> "1+1"]>>])
Failed ==
  Run("srv4", "code_execution", Error("code_execution_tool_result_error", "too_many_requests", <<>>))
    \o Run("srv6", "bash_code_execution", Error("bash_code_execution_tool_result_error", "execution_time_exceeded", <<>>))
    \o Run("srv8", "text_editor_code_execution",
           Error("text_editor_code_execution_tool_result_error", "file_not_found", <<"m">>))
    \o Run("srv9", "code_execution", Empty("future_result"))
MessageItems ==
  { <<Block("text", "", "", <<"a", "b">>)>>,
    <<[Block("thinking", "", "", <<"t", "u">>) EXCEPT !.seal = "sig"], Block("redacted_thinking", "", "", <<"x">>)>>,
    <<Block("tool_use", "call", "f", Json)>>,
    <<Block("tool_use", "call0", "f", <<>>)>>,
    <<Block("server_tool_use", "srv1", "web_search", Json)>>,
    <<Block("server_tool_use", "srv2", "web_search", Json), Block("web_search_tool_result", "srv2", "", <<"hit">>),
      Block("mcp_tool_use", "mcp1", "g", Json), Block("mcp_tool_result", "mcp1", "", <<"ok">>)>>,
    Shell \o Coded \o Edited, Failed }
PausedResults == [srv1 |-> Block("web_search_tool_result", "srv1", "", <<"hit">>)]

-----------------------------------------------------------------------------
(* Messages to a remote agent.                                             *)
Said(type, id) ==
  <<[type |-> type, id |-> id, name |-> "", text |-> <<"q">>, object |-> FALSE, seal |-> "",
     private |-> FALSE, cites |-> <<>>, props |-> <<>>, raw |-> <<>>]>>
AgentInputs == {Said("text", ""), Said("function_call", "c")}
AgentPart(media) == [type |-> "raw", text |-> <<"y">>, media |-> media, name |-> ""]
AgentParts  == [main |-> {AgentPart("text/plain")}, child |-> {AgentPart("")}]
AgentTurns  == [main |-> 2, child |-> 1]

-----------------------------------------------------------------------------
(* The writes of two sandboxes: a turn that is written twice, one without  *)
(* output, and one of the other sandbox in the same second.                *)
Write(turn, status, item) == [turn |-> turn, created |-> 1, status |-> status, item |-> item]
Written ==
  [b1 |-> <<Write(1, "in_progress", ""), Write(1, "completed", "i1"), Write(3, "completed", "")>>,
   b2 |-> <<Write(2, "completed", "i2")>>]

-----------------------------------------------------------------------------
VARIABLES client, stored, conversation, history, messages, request, output, ending, arriving, state, folded,
          lost, turns, pc, used, snapshots, context, link, task, sent, observed, shown, run

openai    == <<stored, conversation, messages, ending, lost>>
anthropic == <<used, snapshots>>
models    == <<history, request, output, arriving, state, pc>>
a2a       == <<context, link, task, sent, observed, shown, run>>
chat      == <<openai, anthropic, models, a2a, folded, turns>>

Responses == INSTANCE ResponsesClient WITH Items <- ResponseItems, MaxItems <- 2, MaxTurns <- 2
Messages  == INSTANCE MessagesClient WITH Items <- MessageItems, ResultOf <- PausedResults, MaxItems <- 2
Agents    == INSTANCE A2A WITH Sessions <- {"main", "child"}, Inputs <- AgentInputs, Parts <- AgentParts,
                               MaxTurns <- AgentTurns, MaxPieces <- 2

Unused(v) == v = "unused"
NoOpenai    == Unused(stored) /\ Unused(conversation) /\ Unused(messages) /\ Unused(ending) /\ Unused(lost)
NoAnthropic == Unused(used) /\ Unused(snapshots)
NoModel     == Unused(history) /\ Unused(request) /\ Unused(output) /\ Unused(arriving) /\ Unused(state) /\ Unused(pc)
NoAgent     == Unused(context) /\ Unused(link) /\ Unused(task) /\ Unused(sent) /\ Unused(observed)
                 /\ Unused(shown) /\ Unused(run)

NoChat == NoOpenai /\ NoAnthropic /\ NoModel /\ NoAgent /\ Unused(folded) /\ Unused(turns)

ClientsInit ==
  /\ Init
  /\ \/ client = "openai" /\ Responses!Init /\ NoAnthropic /\ NoAgent
     \/ client = "anthropic" /\ Messages!Init /\ NoOpenai /\ NoAgent
     \/ client = "a2a" /\ Agents!Init /\ NoOpenai /\ NoAnthropic /\ NoModel
     \/ client = "store" /\ NoChat

Chats ==
  \/ client = "openai" /\ Responses!Next /\ UNCHANGED <<client, anthropic, a2a>>
  \/ client = "anthropic" /\ Messages!Next /\ UNCHANGED <<client, openai, a2a>>
  \/ client = "a2a" /\ Agents!Next /\ UNCHANGED <<client, openai, anthropic, models>>
ClientsNext ==
  \/ Chats /\ UNCHANGED vars
  \/ client = "store" /\ Next /\ UNCHANGED <<client, chat>>
ClientsSpec == ClientsInit /\ [][ClientsNext]_<<client, chat, vars>>

-----------------------------------------------------------------------------
(* A stream folds into the response that an awaited request returns,       *)
(* whatever is announced before it comes; but for an artifact of a remote  *)
(* agent that only the opening snapshot carried, which the closing one     *)
(* repeats (A2A).                                                          *)
StreamedIsAwaited ==
  /\ client = "openai" => Responses!StreamedIsAwaited
  /\ client = "anthropic" => Messages!StreamedIsAwaited
  /\ client = "a2a" => Agents!StreamedIsAwaited

(* What a client sends can be matched: every call with its result and      *)
(* every result with its call, no item twice, nothing of another           *)
(* conversation.                                                           *)
RequestIsSendable ==
  /\ client = "openai" => Responses!RequestIsSendable
  /\ client = "anthropic" => Messages!RequestIsSendable
  /\ client = "a2a" => Agents!RequestIsSendable /\ Agents!OneConversation

(* A transcript that was serialised and read back sends what it sent       *)
(* before.                                                                 *)
RestoredIsReplayed ==
  /\ client = "openai" => Responses!RestoredIsReplayed
  /\ client = "anthropic" => Messages!RestoredIsReplayed
==============================================================================
