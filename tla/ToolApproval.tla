----------------------------- MODULE ToolApproval -----------------------------
(***************************************************************************)
(* A session of packages/core and the turns that run on it: the approval   *)
(* layer (withToolApproval), the function-calling loop below it            *)
(* (withFunctionInvocation, runInvocationRound) and what the agent keeps   *)
(* of a turn (#notifyProvidersAfterRun).  The model asks for tool calls; a *)
(* call of a gated tool waits for a human, who answers on a later turn.    *)
(*                                                                         *)
(* One turn runs at a time.  It may fail at any step (an abort, an error   *)
(* of the model), and its caller may stop reading after any update.  The   *)
(* transcript is replayed by the framework or, when the service keeps the  *)
(* conversation, held by the service.                                      *)
(***************************************************************************)
EXTENDS ApprovalScan

CONSTANTS
  Ids,            \* call ids; a provider may use one again once it is answered
  Gated,          \* tools declared approvalMode: 'always_require'
  Free,           \* tools that run without being asked for
  Declared,       \* tools without an execute: the caller runs them
  Unknown,        \* names of no tool
  Policed,        \* free tools that a toolApprovalMiddleware rule sends to a human
  Insists,        \* tools that another middleware may defer though they are approved
  MaxIterations,  \* config.maxIterations
  MaxErrors,      \* config.maxConsecutiveErrors
  StopAtUnknown,  \* config.terminateOnUnknownCalls
  MaxTurns,       \* bound on the turns of the session
  MaxCalls        \* bound on the calls the model makes

ASSUME IdsAssumption == IsFiniteSet(Ids)
ASSUME KindsAssumption == Gated \cap Free = {}
ASSUME PolicedAssumption == Policed \subseteq Free
ASSUME InsistsAssumption == Insists \subseteq Gated \cup Free
ASSUME MaxIterationsAssumption == MaxIterations \in Nat \ {0}
ASSUME MaxErrorsAssumption == MaxErrors \in Nat
ASSUME BoundsAssumption == MaxTurns \in Nat /\ MaxCalls \in Nat

Tools == Gated \cup Free \cup Declared \cup Unknown
Runnable == Gated \cup Free
Nos == 1..MaxCalls

VARIABLES
  pending,       \* session.state._toolApproval.pending: requests shown and not answered
  autoApproved,  \* session.state._toolApproval.autoApproved: requests held back
  history,       \* the transcript of the in-memory history provider
  managed,       \* session.serviceSessionId is set
  keeps,         \* the service reports conversation ids
  owed,          \* the calls the service holds without a result
  pc,            \* the turn: "idle", "replay", "ask" or "round"
  input,         \* inputMessages of the turn
  messages,      \* the messages of the next request to the model
  calls,         \* the calls that are executed: a round, or the approved ones
  refused,       \* the calls a human turned down
  todo,          \* those not executed yet
  results,       \* the results of the round so far
  deferred,      \* the requests a middleware raised in the round
  asking,        \* the unanswered requests that go back to the caller
  iteration,     \* iteration of the loop
  errors,        \* errorCount
  failed,        \* an invocation of the round failed
  handled,       \* what passed the approval layer on its way to the caller
  hand,          \* the requests the caller holds
  ended,         \* how the last turn ended
  reply,         \* what the caller got from it, if it came to its end
  turns,         \* the number of turns
  made,          \* the calls the model made
  answers,       \* per call: the decisions sent, a sequence of booleans
  runs,          \* per call: how often its tool ran
  muddled        \* auxiliary, no guard reads it: the ids of which a request was
                 \* once left apart from the transcript (Apart)

slots   == <<pending, autoApproved, muddled>>
service == <<managed, keeps, owed>>
round   == <<calls, refused, todo, results, deferred, failed>>
turn    == <<input, messages, round, asking, iteration, errors, handled>>
caller  == <<hand, ended, reply, turns, answers>>
vars    == <<slots, history, service, pc, turn, caller, made, runs>>

Blank ==
  /\ input' = <<>> /\ messages' = <<>> /\ calls' = {} /\ refused' = {} /\ todo' = {}
  /\ results' = <<>> /\ deferred' = {} /\ asking' = {} /\ failed' = FALSE
  /\ iteration' = 0 /\ errors' = 0 /\ handled' = <<>>

Init ==
  /\ pending = {} /\ autoApproved = {} /\ history = <<>>
  /\ managed = FALSE /\ keeps \in BOOLEAN /\ owed = {}
  /\ pc = "idle" /\ input = <<>> /\ messages = <<>>
  /\ calls = {} /\ refused = {} /\ todo = {}
  /\ results = <<>> /\ deferred = {} /\ asking = {} /\ failed = FALSE
  /\ iteration = 0 /\ errors = 0 /\ handled = <<>>
  /\ hand = {} /\ ended = "none" /\ reply = <<>> /\ turns = 0
  /\ made = <<>> /\ answers = [n \in Nos |-> <<>>] /\ runs = [n \in Nos |-> 0]
  /\ muddled = {}

-----------------------------------------------------------------------------
(* Deviation: a request is held back whatever its tool needs.              *)
HeldBackWhatever(i) == i.kind = "request" /\ ~i.mw

(* The approval layer's handle: a request for a tool that needs no human   *)
(* is held back, unless a middleware raised it.                            *)
HeldBack(i) == i.kind = "request" /\ i.call.tool \in Free /\ ~i.mw
Shown(items) == At(items, {n \in DOMAIN items : ~HeldBack(items[n])})
Surfaced(items) == {i \in ToSet(items) : i.kind = "request" /\ ~HeldBack(i)}

(* A request that only the store has, its turn having failed, while the    *)
(* transcript has something of another call of its id; and a request held  *)
(* back while the transcript has one of another call of its id whose       *)
(* result a turn has lost.                                                 *)
Overshadowed(r) ==
  r \notin ToSet(history) /\ \E i \in ToSet(history) : i.call.id = r.call.id /\ i.call # r.call
Orphaned(r) ==
  \E i \in ToSet(history) :
    /\ i.kind = "request" /\ i.call.id = r.call.id /\ i.call # r.call
    /\ ResultOf(i.call) \notin ToSet(history)
Apart == CallIds({r \in pending : Overshadowed(r)} \cup {r \in autoApproved : Orphaned(r)})

(* The turn is over, items having passed the approval layer.  Its finally  *)
(* keeps the requests, however the turn ended; the history provider keeps  *)
(* nothing of a turn that failed or that the service holds.  The caller    *)
(* keeps the newest request of an id.                                      *)
End(how, items) ==
  /\ autoApproved' = {i \in ToSet(items) : HeldBack(i)}
  /\ pending' = pending \cup {i \in Surfaced(items) : i.call.id \notin CallIds(pending)}
  /\ history' = IF how = "failed" \/ managed' THEN history
                ELSE history \o input \o Shown(items)
  /\ hand' = Surfaced(items) \cup
       {r \in hand : /\ r.call.id \notin CallIds(Surfaced(items))
                     /\ how = "failed" \/ r.call \notin Calls(ToSet(input))}
  /\ muddled' = muddled \cup Apart'
  /\ ended' = how /\ reply' = (IF how = "done" THEN Shown(items) ELSE <<>>)
  /\ pc' = "idle" /\ Blank

(* The first k of the updates have passed.  The caller sees every update   *)
(* of which something is left: it may stop reading there, or the turn be   *)
(* aborted before the next one.                                            *)
Passed(updates, k) == handled \o FlattenSeq(SubSeq(updates, 1, k))
Cut(updates) ==
  \E k \in DOMAIN updates : \E how \in {"failed", "abandoned"} :
    /\ Shown(updates[k]) # <<>> \/ updates[k] = <<>>
    /\ End(how, Passed(updates, k))
Unless(S, items) == IF S = {} THEN <<>> ELSE <<items>>

-----------------------------------------------------------------------------
(* The transcript of a turn with what the caller says: decisions bound to  *)
(* their requests, and the requests held back approved by the framework.   *)
Prepared(said) ==
  LET bound == BoundDecisions((IF managed THEN <<>> ELSE history) \o said, pending)
  IN  bound \o Listed({Decision(r.call, TRUE) : r \in autoApproved})

(* agent.run: the caller answers some of the requests it holds, or none.   *)
(* Both slots are emptied; what nobody has answered goes back at once.     *)
Send ==
  /\ pc = "idle" /\ turns < MaxTurns
  /\ \E S \in SUBSET hand : \E yes \in SUBSET S :
       LET said == Listed({Decision(r.call, r \in yes) : r \in S})
           sent == Prepared(said)
           does == Decided(sent)
           back == Unanswered(sent)
       IN  /\ input' = said
           /\ pending' = StillPending((IF managed THEN <<>> ELSE history) \o said, pending)
           /\ messages' = Stripped(sent)
           /\ calls' = Calls({d \in does : d.yes})
           /\ refused' = Calls({d \in does : ~d.yes})
           /\ asking' = back
           /\ pc' = IF does = {} /\ back = {} THEN "ask" ELSE "replay"
           /\ answers' = [n \in Nos |->
                \* a call is asked for once in a hand
                IF \E r \in S : r.call.no = n
                  THEN Append(answers[n], \E r \in yes : r.call.no = n)
                  ELSE answers[n]]
  /\ todo' = calls' /\ autoApproved' = {} /\ turns' = turns + 1
  /\ ended' = "none" /\ reply' = <<>>
  /\ UNCHANGED <<history, service, results, deferred, failed, iteration, errors,
                 handled, hand, made, runs>>
  /\ muddled' = muddled \cup Apart'

(* One call is invoked.  Its result goes to the model, an exception among  *)
(* them; a policy asks a human instead, unless the call is a replayed one; *)
(* with the error budget spent an exception ends the turn.                 *)
Report(c, bad) ==
  /\ results' = Append(results, ResultOf(c)) /\ failed' = (failed \/ bad)
  /\ todo' = todo \ {c}
  /\ UNCHANGED <<slots, history, pc, input, messages, calls, refused, deferred, asking,
                 iteration, errors, handled, hand, ended, reply>>
Defer(c) ==
  /\ deferred' = deferred \cup {Request(c, TRUE)} /\ todo' = todo \ {c}
  /\ UNCHANGED <<slots, history, pc, input, messages, calls, refused, results, failed, asking,
                 iteration, errors, handled, hand, ended, reply>>
Except(c) == IF errors < MaxErrors THEN Report(c, TRUE) ELSE End("failed", handled)
Ran(c) == runs' = [runs EXCEPT ![c.no] = @ + 1]

MustAsk(c) == c.tool \in Policed /\ pc = "round"

NotFound(c)     == c.tool \notin Runnable /\ Report(c, FALSE) /\ UNCHANGED runs
Succeeds(c)     == c.tool \in Runnable /\ ~MustAsk(c) /\ Report(c, FALSE) /\ Ran(c)
Throws(c)       == c.tool \in Runnable /\ ~MustAsk(c) /\ Except(c) /\ Ran(c)
BadArguments(c) == c.tool \in Runnable /\ Except(c) /\ UNCHANGED runs
Deferred(c)     == /\ (MustAsk(c) \/ (pc = "replay" /\ c.tool \in Insists))
                   /\ Defer(c) /\ UNCHANGED runs

Invoke ==
  /\ pc \in {"replay", "round"}
  /\ UNCHANGED <<service, turns, made, answers>>
  /\ \E c \in todo :
       NotFound(c) \/ Succeeds(c) \/ Throws(c) \/ BadArguments(c) \/ Deferred(c)

(* A MiddlewareFailed ends the turn in the middle of a batch.  The service *)
(* gets an error result for each call of the batch, if that request works. *)
MiddlewareFails ==
  /\ pc \in {"replay", "round"} /\ \E c \in todo : c.tool \in Runnable
  /\ owed' \in {owed, IF managed THEN owed \ calls ELSE owed}
  /\ UNCHANGED <<managed, keeps, turns, made, answers, runs>>
  /\ End("failed", handled)

-----------------------------------------------------------------------------
(* The end of resolveInboundApprovals: the calls that were decided, their  *)
(* results, and the requests nobody has answered, which end the turn.      *)
FinishReplay ==
  LET both == calls \cup refused
      raws == Listed({Raw(c) : c \in both})
      told == Listed({ResultOf(c) : c \in refused}) \o results
      updates == (IF both = {} THEN <<>> ELSE <<raws, told>>)
                   \o Unless(deferred, Listed(deferred)) \o Unless(asking, Listed(asking))
      all == Passed(updates, Len(updates))
      stops == deferred \cup asking # {}
  IN  /\ pc = "replay" /\ todo = {}
      /\ UNCHANGED <<service, turns, made, answers, runs>>
      /\ \/ Cut(updates)
         \/ stops /\ End("done", all)
         \/ /\ ~stops
            /\ messages' = messages \o raws \o told
            /\ errors' = (IF failed THEN 1 ELSE 0)
            /\ calls' = {} /\ refused' = {} /\ results' = <<>> /\ failed' = FALSE
            /\ handled' = all /\ pc' = "ask"
            /\ UNCHANGED <<slots, history, input, todo, deferred, asking, iteration,
                           hand, ended, reply>>

(* The end of a round: the results go to the model with the next request,  *)
(* alone when the service holds the rest.                                  *)
FinishRound ==
  LET updates == (IF results = <<>> THEN <<>> ELSE <<results>>)
                   \o Unless(deferred, Listed(deferred))
      all == Passed(updates, Len(updates))
      raws == Listed({Raw(c) : c \in calls})
  IN  /\ pc = "round" /\ todo = {}
      /\ UNCHANGED <<service, turns, made, answers, runs>>
      /\ \/ Cut(updates)
         \/ deferred # {} /\ End("done", all)
         \/ /\ deferred = {}
            /\ messages' = IF managed THEN results ELSE messages \o raws \o results
            /\ errors' = (IF failed THEN errors + 1 ELSE 0)
            /\ iteration' = iteration + 1
            /\ calls' = {} /\ results' = <<>> /\ failed' = FALSE
            /\ handled' = all /\ pc' = "ask"
            /\ UNCHANGED <<slots, history, input, refused, todo, deferred, asking,
                           hand, ended, reply>>

-----------------------------------------------------------------------------
(* The model answers a request with calls, or with text alone.  It gives a *)
(* call the id of an earlier one only when that was answered.              *)
Answered(c) == (keeps /\ c \notin owed) \/ ResultOf(c) \in ToSet(messages)
Nameable == {id \in Ids : \A n \in DOMAIN made : made[n].id = id => Answered(made[n])}
NewCalls(S, tool) ==
  LET ids == Listed(S)
  IN  [i \in DOMAIN ids |-> [id |-> ids[i], tool |-> tool[ids[i]], no |-> Len(made) + i]]

(* One update for each call of the model, as the calls stream in.          *)
RawUpdates(new) == LET cs == Listed(new) IN [i \in DOMAIN cs |-> <<Raw(cs[i])>>]
(* Deviation: an unknown name always stops the loop.                        *)
StopsAtUnknown(new) ==
  new = {} \/ \E c \in new : c.tool \in Declared \cup Unknown
StopsLoop(new) ==
  \/ new = {}
  \/ \E c \in new : c.tool \in Declared
  \/ \E c \in new : c.tool \in Unknown /\ StopAtUnknown

(* The calls the service waits for, when it keeps the conversation.        *)
Holding(rest, new) == IF keeps THEN rest \cup new ELSE {}

(* The request of the final iteration has no tools: what the model asks    *)
(* for all the same is dropped, and settled with the service that has it.  *)
FinalAnswer(new, rest) ==
  /\ iteration >= MaxIterations
  /\ \/ /\ owed' \in {rest, Holding(rest, new)}
        /\ End("done", handled)
     \/ /\ owed' = Holding(rest, new)
        /\ \E how \in {"failed", "abandoned"} : End(how, handled)

(* One call of the round needs a human: the whole round becomes requests.  *)
ReleaseAsApprovals(new, rest) ==
  /\ iteration < MaxIterations /\ \E c \in new : c.tool \in Gated
  /\ owed' = Holding(rest, new)
  /\ LET updates == <<Listed({Request(c, FALSE) : c \in new})>>
     IN  Cut(updates) \/ End("done", Passed(updates, 1))

HandToCaller(new, rest) ==
  /\ iteration < MaxIterations /\ \A c \in new : c.tool \notin Gated
  /\ StopsLoop(new)
  /\ owed' = Holding(rest, new)
  /\ Cut(RawUpdates(new)) \/ End("done", Passed(RawUpdates(new), Cardinality(new)))

StartRound(new, rest) ==
  /\ iteration < MaxIterations /\ \A c \in new : c.tool \notin Gated
  /\ ~StopsLoop(new)
  /\ owed' = Holding(rest, new)
  /\ \/ Cut(RawUpdates(new))
     \/ /\ handled' = Passed(RawUpdates(new), Cardinality(new))
        /\ calls' = new /\ todo' = new /\ pc' = "round"
        /\ UNCHANGED <<slots, history, input, messages, refused, results, deferred, failed,
                       asking, iteration, errors, hand, ended, reply>>

(* A service that reports a conversation id holds the transcript from now  *)
(* on; it goes on owing what this request did not answer.                  *)
Ask ==
  /\ pc = "ask"
  /\ managed' = (managed \/ keeps)
  /\ \E S \in SUBSET Nameable : \E tool \in [S -> Tools] :
       LET new == NewCalls(S, tool)
           rest == {c \in owed : ResultOf(c) \notin ToSet(messages)}
       IN  /\ Len(made \o new) <= MaxCalls
           /\ made' = made \o new
           /\ \/ FinalAnswer(ToSet(new), rest)
              \/ ReleaseAsApprovals(ToSet(new), rest)
              \/ HandToCaller(ToSet(new), rest)
              \/ StartRound(ToSet(new), rest)
  /\ UNCHANGED <<keeps, turns, answers, runs>>

(* An abort, or an error of the model, at any step.                        *)
Fail ==
  /\ pc # "idle"
  /\ UNCHANGED <<service, turns, made, answers, runs>>
  /\ End("failed", handled)

Next == Send \/ Invoke \/ MiddlewareFails \/ FinishReplay \/ Ask \/ FinishRound \/ Fail
Spec == Init /\ [][Next]_vars

-----------------------------------------------------------------------------
Call == [id : Ids, tool : Tools, no : Nos]
Items(kind) == [kind : {kind}, call : Call, yes : BOOLEAN, mw : BOOLEAN]
AllItems == UNION {Items(k) : k \in {"call", "result", "request", "decision"}}
IsTranscript(s) == \A p \in DOMAIN s : s[p] \in AllItems

Yeses(n) == {i \in DOMAIN answers[n] : answers[n][i]}

(* A call of a gated tool runs only if a human said yes to that very call, *)
(* and once per yes, unless the caller stopped reading between the call    *)
(* and its result, which the transcript then lacks.  Of a muddled id this  *)
(* is not so (ConsentOfItsCall).                                           *)
Clear(c) == c.id \notin muddled
Interrupted(c) ==
  {p \in DOMAIN history :
     /\ history[p] = Raw(c)
     /\ \A r \in (p + 1)..Len(history) :
          history[r] = ResultOf(c) => Has(history, "call", c.id, p + 1, r - 1)}
OnlyWithConsent ==
  \A n \in DOMAIN made :
    made[n].tool \in Gated /\ Clear(made[n]) =>
      /\ runs[n] > 0 => Yeses(n) # {}
      /\ Interrupted(made[n]) = {} => runs[n] <= Cardinality(Yeses(n))

(* Whatever becomes of an id, a call of a gated tool runs only if a human  *)
(* said yes to some call of its id.                                        *)
OfId(id) == {n \in DOMAIN made : made[n].id = id}
ConsentOfItsId ==
  \A n \in DOMAIN made :
    made[n].tool \in Gated /\ runs[n] > 0 => \E m \in OfId(made[n].id) : Yeses(m) # {}

(* Whatever becomes of an id, its calls of gated tools do not run more     *)
(* often than a human said yes to one of them, unless the caller stopped   *)
(* reading between a call and its result.                                  *)
NoMoreRunsThanYeses ==
  \A id \in Ids :
    (\A n \in OfId(id) : Interrupted(made[n]) = {}) =>
      SumFunctionOnSet(runs, {n \in OfId(id) : made[n].tool \in Gated})
        <= SumFunctionOnSet([n \in Nos |-> Cardinality(Yeses(n))], OfId(id))

(* What the model is sent is a transcript it can read: no approval item,   *)
(* no result twice, and no result without its call before it (which the    *)
(* service has when it keeps the conversation).                            *)
ReadableRequest ==
  /\ \A p \in DOMAIN messages : messages[p].kind \in {"call", "result"}
  /\ \A p, q \in DOMAIN messages :
       messages[p].kind = "result" /\ messages[p] = messages[q] => p = q
  /\ \A q \in DOMAIN messages :
       messages[q].kind = "result" /\ ~managed
         => \E p \in 1..(q - 1) : messages[p] = Raw(messages[q].call)

(* A turn left the call in the transcript with neither a result nor a      *)
(* request to a human, having been cut short there or having left it to    *)
(* the caller.                                                             *)
LeftOpen(c) ==
  {p \in DOMAIN history :
     /\ history[p] = Raw(c)
     /\ \A r \in (p + 1)..Len(history) :
          history[r] \in {ResultOf(c), Request(c, TRUE), Request(c, FALSE)}
            => \E q \in (p + 1)..(r - 1) : history[q] = Raw(c)}
Twice(s, i) == \E p, q \in DOMAIN s : p < q /\ s[p] = i /\ s[q] = i

(* Moreover every call has its result behind it, unless a turn left it     *)
(* open, and is sent once, unless the transcript has it more than once:    *)
(* what a decision puts back takes the place of what is there.  (Of clear  *)
(* ids.  A call that a middleware has deferred on its replay is twice in   *)
(* the transcript: SentOnce.)                                              *)
WellFormedRequest ==
  pc = "ask" =>
    /\ ReadableRequest
    /\ \A p \in DOMAIN messages :
         LET i == messages[p]
         IN  i.kind = "call" /\ Clear(i.call) =>
               /\ LeftOpen(i.call) = {} => \E q \in DOMAIN messages : p < q /\ messages[q] = ResultOf(i.call)
               /\ Twice(messages, i) => Twice(history, i)

(* A request that the caller holds and has never answered stays open,      *)
(* through turns that failed, were abandoned or were about something else: *)
(* a yes given now would run the call.  (Of clear ids.)                    *)
Counts(r) == Decision(r.call, TRUE) \in Decided(Prepared(<<Decision(r.call, TRUE)>>))
AnAnswerCounts ==
  pc = "idle" => \A r \in hand : answers[r.call.no] = <<>> /\ Clear(r.call) => Counts(r)

(* A turn that comes to its end leaves the caller with no call that nobody *)
(* is going to run: it has a result, or waits for a human, or the round    *)
(* had a call that the loop leaves to the caller.                          *)
EndsOnAnAnswer ==
  ended = "done" =>
    \A i \in ToSet(reply) :
      i.kind = "call" =>
        \/ ResultOf(i.call) \in ToSet(reply)
        \/ \E j \in Surfaced(reply) : j.call = i.call
        \/ \E j \in ToSet(reply) :
             /\ j.kind = "call"
             /\ j.call.tool \in Declared \/ (j.call.tool \in Unknown /\ StopAtUnknown)

(* A call that a policy sends to a human runs only if the human said yes.  *)
PolicyNeedsHuman ==
  \A n \in DOMAIN made : made[n].tool \in Policed /\ runs[n] > 0 => Yeses(n) # {}

(* The decision that authorized a call cannot authorize another one: a     *)
(* gated call runs only if a human said yes to it, whatever its id.        *)
ConsentOfItsCall ==
  \A n \in DOMAIN made : made[n].tool \in Gated /\ runs[n] > 0 => Yeses(n) # {}

(* The model is not sent a call twice.                                     *)
SentOnce ==
  pc = "ask" => \A p \in DOMAIN messages : messages[p].kind = "call" => ~Twice(messages, messages[p])
===============================================================================
