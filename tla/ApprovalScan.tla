----------------------------- MODULE ApprovalScan -----------------------------
(***************************************************************************)
(* What the approval layer and the function-calling loop of packages/core  *)
(* (tool-approval.ts, function-invocation.ts) read off a transcript: which *)
(* approval request is still open, which decision settles which request,   *)
(* what a decision is bound to, and what of it the model may see.          *)
(*                                                                         *)
(* A transcript is a sequence of items.  Text is left out: nothing here    *)
(* looks at it.  A call is one request of the model; its id may be the id  *)
(* of an earlier call, its number stands for its arguments.  A request has *)
(* the id of its call (approvalRequestId).  The items of provider-hosted   *)
(* tools, which every operator below would keep in place, are left out.    *)
(***************************************************************************)
EXTENDS Sequences, Integers, FiniteSets, SequencesExt

Item(kind, call, yes, mw) == [kind |-> kind, call |-> call, yes |-> yes, mw |-> mw]
Raw(c)         == Item("call", c, FALSE, FALSE)
ResultOf(c)    == Item("result", c, FALSE, FALSE)
Request(c, mw) == Item("request", c, FALSE, mw)      \* mw: isMiddlewareApproval
Decision(c, y) == Item("decision", c, y, FALSE)

(* The members of a set one after the other, and what s has at the         *)
(* positions P, in order.                                                  *)
Listed(S)   == SetToSeq(S)
At(s, P) ==
  LET size == Len(s)
      upTo[n \in 0..size] ==
        IF n = 0 THEN <<>>
        ELSE IF n \in P THEN Append(upTo[n - 1], s[n]) ELSE upTo[n - 1]
  IN  upTo[size]
Calls(S)    == {i.call : i \in S}
CallIds(S)  == {i.call.id : i \in S}

(* s has an item of the kind for the id at one of the positions a..b, and  *)
(* the last position of one in s, or 0.                                    *)
Has(s, kind, id, a, b) == \E p \in a..b : s[p].kind = kind /\ s[p].call.id = id
LastOf(s, kind, id) ==
  LET P == {p \in DOMAIN s : s[p].kind = kind /\ s[p].call.id = id}
  IN  IF P = {} THEN 0 ELSE CHOOSE p \in P : \A q \in P : q <= p

-----------------------------------------------------------------------------
(* scanOccurrences.  A request opens an occurrence unless one of its id is *)
(* open: only a result closes one.                                         *)
Opens(s, q) ==
  /\ s[q].kind = "request"
  /\ \A p \in 1..(q - 1) :
       s[p].kind = "request" /\ s[p].call.id = s[q].call.id
         => Has(s, "result", s[q].call.id, p + 1, q - 1)
Occurrences(s) == {q \in DOMAIN s : Opens(s, q)}
Closed(s, q) == Has(s, "result", s[q].call.id, q + 1, Len(s))

(* The first decision after the occurrence opened, and before it closed,   *)
(* settles it.  A decision that settles none is unbound.                   *)
Settles(s, p, q) ==
  /\ s[p].kind = "decision" /\ s[p].call.id = s[q].call.id
  /\ q < p
  /\ ~Has(s, "result", s[q].call.id, q + 1, p - 1)
  /\ ~Has(s, "decision", s[q].call.id, q + 1, p - 1)
Unbound(s) == {p \in DOMAIN s : /\ s[p].kind = "decision"
                                /\ ~\E q \in Occurrences(s) : Settles(s, p, q)}
HasDecision(s) == \E p \in DOMAIN s : s[p].kind = "decision"

(* mergeStoredRequests.  The stored request stands in for the occurrence   *)
(* still open under its id; with none open it is an occurrence of its own, *)
(* settled by the first unbound decision that names it.                    *)
OpenOnes(s) == {q \in Occurrences(s) : ~Closed(s, q)}
RequestAt(s, stored, q) ==
  IF ~Closed(s, q) /\ \E r \in stored : r.call.id = s[q].call.id
    THEN CHOOSE r \in stored : r.call.id = s[q].call.id
    ELSE s[q]
OnlyStored(s, stored) == {r \in stored : \A q \in OpenOnes(s) : s[q].call.id # r.call.id}
SettlesStored(s, p, r) ==
  /\ p \in Unbound(s) /\ s[p].call.id = r.call.id
  /\ \A o \in Unbound(s) : s[o].call.id = r.call.id => p <= o

(* bindInboundDecisions.  The requests a decision at p settles (at most    *)
(* one), the requests nobody has answered, and the messages with every     *)
(* decision rebound to the recorded call, or dropped.                      *)
BoundTo(s, stored, p) ==
  {RequestAt(s, stored, q) : q \in {o \in Occurrences(s) : Settles(s, p, o)}}
    \cup {r \in OnlyStored(s, stored) : SettlesStored(s, p, r)}
(* Deviation: what only the store has is forgotten when it goes unanswered. *)
StillInTranscript(s, stored) ==
  {RequestAt(s, stored, q) : q \in {o \in OpenOnes(s) : \A p \in DOMAIN s : ~Settles(s, p, o)}}
StillPending(s, stored) ==
  {RequestAt(s, stored, q) : q \in {o \in OpenOnes(s) : \A p \in DOMAIN s : ~Settles(s, p, o)}}
    \cup {r \in OnlyStored(s, stored) : \A p \in DOMAIN s : ~SettlesStored(s, p, r)}
Kept(s, stored) == {p \in DOMAIN s : s[p].kind = "decision" => BoundTo(s, stored, p) # {}}
Rebound(s, stored) ==
  LET bound == [p \in DOMAIN s |->
                  IF s[p].kind = "decision" /\ p \in Kept(s, stored)
                    THEN Decision((CHOOSE r \in BoundTo(s, stored, p) : TRUE).call, s[p].yes)
                    ELSE s[p]]
  IN  At(bound, Kept(s, stored))
BoundDecisions(s, stored) ==
  IF HasDecision(s) THEN Rebound(s, stored) \o Listed(StillPending(s, stored)) ELSE s

-----------------------------------------------------------------------------
(* resolveInboundApprovals.  A decision is acted on when it comes after    *)
(* the opening of the newest occurrence of its call, which comes after the *)
(* last result, or when nothing at all is known of its call.               *)
OpenedAt(s, id) ==
  LET Q == {q \in Occurrences(s) : s[q].call.id = id}
  IN  IF Q = {} THEN 0 ELSE CHOOSE q \in Q : \A o \in Q : o <= q
(* Deviation: a decision made before the newest request counts for it.      *)
ActionableLate(s, p) ==
  LET id == s[p].call.id
  IN  /\ s[p].kind = "decision"
      /\ IF OpenedAt(s, id) = 0
           THEN LastOf(s, "result", id) = 0
           ELSE OpenedAt(s, id) > LastOf(s, "result", id)
Actionable(s, p) ==
  LET id == s[p].call.id
  IN  /\ s[p].kind = "decision"
      /\ IF OpenedAt(s, id) = 0
           THEN LastOf(s, "result", id) = 0
           ELSE OpenedAt(s, id) > LastOf(s, "result", id) /\ p > OpenedAt(s, id)
Responded(s) == {s[p].call.id : p \in {o \in DOMAIN s : Actionable(s, o)}}

(* The last such decision of each id counts.                               *)
Decided(s) ==
  {s[p] : p \in {o \in DOMAIN s :
     /\ Actionable(s, o)
     /\ \A n \in DOMAIN s : Actionable(s, n) /\ s[n].call.id = s[o].call.id => n <= o}}

(* The requests that go back to the caller, the newest copy of each.       *)
Unanswered(s) ==
  {s[p] : p \in {o \in DOMAIN s :
     /\ s[o].kind = "request" /\ s[o].call.id \notin Responded(s)
     /\ o > LastOf(s, "result", s[o].call.id)
     /\ o > LastOf(s, "decision", s[o].call.id)
     /\ o = LastOf(s, "request", s[o].call.id)}}

(* Deviation: the raw call stays beside the one that is put back.           *)
StrippedOfAsides(s) == At(s, {p \in DOMAIN s : s[p].kind \notin {"request", "decision"}})

(* Deviation: calls answered long ago go with it.                           *)
StrippedOfAll(s) ==
  At(s, {p \in DOMAIN s :
     /\ s[p].kind \notin {"request", "decision"}
     /\ ~(s[p].kind = "call" /\ s[p].call.id \in Responded(s))})

(* What is left for the model: no request, no decision, and not the raw    *)
(* call that a decision is about to put back.                              *)
Stripped(s) ==
  At(s, {p \in DOMAIN s :
     /\ s[p].kind \notin {"request", "decision"}
     /\ ~(/\ s[p].kind = "call" /\ s[p].call.id \in Responded(s)
          /\ p > LastOf(s, "result", s[p].call.id))})
===============================================================================
