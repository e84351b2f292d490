------------------------------ MODULE Updates ------------------------------
(* Contents, the updates that carry them and the fold of a stream of updates   *)
(* into a response: coalesce.ts and response.ts of core/src/types.             *)
(*                                                                             *)
(* A text, the arguments of a call, the code an interpreter ran are sequences  *)
(* of tokens, so that concatenation is \o and nothing is spelled out.  A field *)
(* that is absent is empty.                                                    *)
LOCAL INSTANCE Naturals
LOCAL INSTANCE Sequences
LOCAL INSTANCE SequencesExt

(* object: the arguments are an object, not a string of JSON.  seal: the       *)
(* opaque payload of a reasoning fragment (protectedData).  private: a marker  *)
(* (reasoning_text of a reasoning, informationalOnly of a call, hosted of an   *)
(* approval).  props: additionalProperties.  raw: the provider's own object.   *)
Content(type, id, name, text) ==
  [type |-> type, id |-> id, name |-> name, text |-> text, object |-> FALSE,
   seal |-> "", private |-> FALSE, cites |-> <<>>, props |-> <<>>, raw |-> <<>>]

-----------------------------------------------------------------------------
(* coalesceContents: adjacent fragments of one logical item form a run.        *)
Coalescable(c) == c.cites = <<>> \/ (c.type = "text" /\ c.text = <<>>)

FirstId(run) ==
  LET named == SelectSeq(run, LAMBDA c : c.id # "")
  IN  IF named = <<>> THEN "" ELSE named[1].id
HasText(run) == \E i \in DOMAIN run : run[i].text # <<>>
IsPrivate(run) == \E i \in DOMAIN run : run[i].private

SameReasoning(run, c) ==
  /\ FirstId(run) = "" \/ c.id = "" \/ FirstId(run) = c.id
  /\ HasText(run) /\ c.text # <<>> => IsPrivate(run) = c.private
  /\ \A i \in DOMAIN run : run[i].seal = ""

SameCall(last, c) == (c.id = "" \/ last.id = c.id) /\ last.object = c.object

(* The id of a data content is its media type; only the bytes of text add up.  *)
TextMedia == {"text/plain", "text/csv"}
SameText(last, c) == last.id = c.id /\ c.id \in TextMedia /\ last.name = c.name

(* An id-less fragment continues the call before it, never a call beyond it.   *)
Joins(run, c) ==
  /\ c.type = run[1].type /\ Coalescable(run[1]) /\ Coalescable(c)
  /\ \/ c.type = "text"
     \/ c.type = "text_reasoning" /\ SameReasoning(run, c)
     \/ c.type = "function_call" /\ SameCall(run[Len(run)], c)
     \/ c.type = "data" /\ SameText(run[Len(run)], c)

AllOf(run, Field(_)) ==
  FoldLeft(LAMBDA all, c : all \o Field(c), <<>>, run)

Merged(run) ==
  IF Len(run) = 1 THEN run[1]
  ELSE [run[1] EXCEPT !.id = FirstId(run), !.text = AllOf(run, LAMBDA c : c.text),
                      !.seal = run[Len(run)].seal, !.private = IsPrivate(run),
                      !.cites = AllOf(run, LAMBDA c : c.cites), !.raw = <<>>]

Runs(cs) ==
  LET Put(runs, c) ==
        LET n == Len(runs)
        IN  IF n > 0 /\ Joins(runs[n], c) THEN [runs EXCEPT ![n] = Append(@, c)]
            ELSE Append(runs, <<c>>)
  IN  FoldLeft(Put, <<>>, cs)

(* Code interpreter fragments are keyed: one that names the call of an earlier *)
(* one is folded into that, wherever it is.  A list of text that repeats what  *)
(* came before replaces it.                                                    *)
IsCode(c) == c.type \in {"code_call", "code_result"} /\ c.id # ""
AllText(items) == "image" \notin {items[i] : i \in DOMAIN items}
FoldItems(a, b) ==
  CASE AllText(a \o b) /\ IsPrefix(a, b) -> b
    [] AllText(a \o b) /\ IsPrefix(b, a) -> a
    [] OTHER -> a \o b

PutContent(out, c) ==
  LET same == {i \in DOMAIN out : out[i].type = c.type /\ out[i].id = c.id}
  IN  IF IsCode(c) /\ same # {}
      THEN LET i == CHOOSE j \in same : TRUE
           IN  [out EXCEPT ![i].text = FoldItems(@, c.text), ![i].cites = @ \o c.cites]
      ELSE Append(out, c)

Coalesced(cs) ==
  LET runs == Runs(cs)
  IN  FoldLeft(PutContent, <<>>, [i \in DOMAIN runs |-> Merged(runs[i])])

-----------------------------------------------------------------------------
(* Updates and their fold.                                                     *)
Update(role, contents) ==
  [role |-> role, messageId |-> "", contents |-> contents, responseId |-> "",
   conversation |-> "", finish |-> "", token |-> ""]

NoResponse ==
  [messages |-> <<>>, responseId |-> "", conversation |-> "", finish |-> "",
   token |-> "", usage |-> 0]

Later(new, old) == IF new # "" THEN new ELSE old
Differ(a, b) == a # "" /\ b # "" /\ a # b
IsDifferentMessage(u, m) == Differ(u.messageId, m.messageId) \/ Differ(u.role, m.role)

Usage(cs) ==
  FoldLeft(LAMBDA sum, c : sum + (IF c.type = "usage" THEN c.text[1] ELSE 0), 0, cs)
Spoken(cs) == SelectSeq(cs, LAMBDA c : c.type # "usage")

FoldMessage(messages, u) ==
  LET n == Len(messages)
      Onto(m) == [m EXCEPT !.role = Later(u.role, @), !.messageId = Later(u.messageId, @),
                           !.contents = @ \o Spoken(u.contents)]
  IN  IF n > 0 /\ ~IsDifferentMessage(u, messages[n])
      THEN [messages EXCEPT ![n] = Onto(@)]
      ELSE Append(messages, Onto([role |-> "assistant", messageId |-> "", contents |-> <<>>]))

(* The continuation token is the latest update's, so that the end clears it.   *)
FoldUpdate(r, u) ==
  [messages |-> FoldMessage(r.messages, u),
   responseId |-> Later(u.responseId, r.responseId),
   conversation |-> Later(u.conversation, r.conversation),
   finish |-> Later(u.finish, r.finish), token |-> u.token,
   usage |-> r.usage + Usage(u.contents)]

(* The end of fold(): every message is coalesced.                              *)
Finalized(r) ==
  [r EXCEPT !.messages = [i \in DOMAIN @ |-> [@[i] EXCEPT !.contents = Coalesced(@)]]]

MergeUpdates(updates) == Finalized(FoldLeft(FoldUpdate, NoResponse, updates))

(* responseToUpdates: one update per message, then one for usage and token.    *)
ResponseToUpdates(r) ==
  LET Of(m) == [Update(m.role, m.contents) EXCEPT
                  !.messageId = m.messageId, !.responseId = r.responseId,
                  !.conversation = r.conversation, !.finish = r.finish]
      last == [Update("", IF r.usage = 0 THEN <<>>
                          ELSE <<Content("usage", "", "", <<r.usage>>)>>) EXCEPT
                 !.responseId = r.responseId, !.conversation = r.conversation,
                 !.token = r.token]
  IN  [i \in DOMAIN r.messages |-> Of(r.messages[i])]
        \o (IF r.usage = 0 /\ r.token = "" THEN <<>> ELSE <<last>>)

-----------------------------------------------------------------------------
(* answeredCallIds of core/src/client/function-invocation.ts.                  *)
InMessages(messages, types) ==
  UNION {{c \in {messages[i].contents[j] : j \in DOMAIN messages[i].contents} : c.type \in types}
          : i \in DOMAIN messages}
AnsweredCallIds(messages) == {c.id : c \in InMessages(messages, {"function_result"})}

(* What a session that was serialised and read back still has: everything but  *)
(* the provider's own objects.                                                 *)
Restored(messages) ==
  [i \in DOMAIN messages |-> [messages[i] EXCEPT
     !.contents = [j \in DOMAIN @ |-> [@[j] EXCEPT !.raw = <<>>,
        !.cites = [k \in DOMAIN @ |-> [@[k] EXCEPT !.raw = <<>>]]]]]]
=============================================================================
