------------------------------ MODULE Turns_proof ------------------------------
(***************************************************************************)
(* Proofs about the turns of an agent: one that a program runs itself, one *)
(* behind the Responses protocol, one behind the Invocations protocol, and *)
(* what the server makes of a handler's events; for any number of runs,    *)
(* turns, requests, sessions, crashes, items and events.                   *)
(*                                                                         *)
(* Four inductive invariants, one for each.                                *)
(*                                                                         *)
(* AgentInv: what a run, a token or an operation in the queue of the file  *)
(* may still write of an exchange is not in the file yet, and whoever was  *)
(* answered has its exchange there.                                        *)
(*                                                                         *)
(* HostedBase and ContinuesInv: turns come one after another, an approval  *)
(* that is kept is of a turn that told of it or has ended, and the         *)
(* snapshot under the response of a turn remembers the turns that led to   *)
(* it.                                                                     *)
(*                                                                         *)
(* InvokedInv: the requests of a key are a queue, of which only the head   *)
(* has the session, and the session of the head is neither evicted nor     *)
(* another's.                                                              *)
(*                                                                         *)
(* EventsInv: the generator's three flags say what the wire already        *)
(* carries, and an event that waits behind its prefix is one that may      *)
(* still be sent.                                                          *)
(***************************************************************************)
EXTENDS Lifecycle, AgentRun, HostedTurn, Invocations, SequenceLemmas

-----------------------------------------------------------------------------
(* An agent that a program runs.                                           *)

RunFields == {"pc", "stream", "background", "x", "input", "updates", "next", "owned", "before", "sees",
              "lines", "kept", "notified", "later", "span", "result", "told"}
TokenFields == {"held", "input", "updates", "next"}
Lines == [x : AgentRuns \cup {NoRun}, part : {"in", "out", "torn"}, chunks : Seq(Nat)]
AgentTypeInv ==
  /\ DOMAIN run = AgentRuns /\ DOMAIN token = AgentRuns
  /\ \A r \in AgentRuns : DOMAIN run[r] = RunFields /\ run[r].updates \in Seq(Nat) /\ run[r].next \in Nat
  /\ \A x \in AgentRuns : DOMAIN token[x] = TokenFields /\ token[x].updates \in Seq(Nat) /\ token[x].next \in Nat
  /\ file \in Seq(Lines) /\ queue \in Seq(AgentRuns)

(* What is told of a run, and when.                                        *)
ToldInv(r) ==
  /\ run[r].pc \in {"idle", "reading", "open", "storing", "stored", "over", "dead"}
  /\ run[r].result \in {"ok", "error"} /\ run[r].told \subseteq {run[r].result}
  /\ run[r].pc # "over" => run[r].told = {} /\ run[r].result = "ok"
  /\ run[r].pc \in {"idle", "reading", "dead"} => run[r].notified = 0 /\ run[r].span = "none"
  /\ run[r].pc = "open" => run[r].notified = 0 /\ run[r].span = "open"
  /\ run[r].pc \in {"storing", "stored"} => run[r].notified = 1 /\ run[r].span = "open"
  /\ run[r].pc \in {"idle", "reading", "open", "storing", "dead"} => run[r].later = 0
  /\ run[r].pc = "stored" \/ (run[r].pc = "over" /\ run[r].result = "ok") => run[r].later = 1
  /\ run[r].pc = "over" =>
       /\ run[r].span \in {"none", "ended"} /\ run[r].notified \in {0, 1}
       /\ run[r].notified = 0 => run[r].span = "none" /\ run[r].result = "error"

(* Exchanges.  Nothing is known of one that has not begun, and one run at  *)
(* a time is about it.                                                     *)
Begun(x) == x \in AgentRuns /\ run[x].pc # "idle"
BegunInv ==
  /\ \A r \in AgentRuns : run[r].pc # "idle" => Begun(run[r].x)
  /\ \A x \in AgentRuns : token[x].held => Begun(x)
  /\ \A i \in DOMAIN file : file[i].part \in {"in", "out"} => Begun(file[i].x)
  /\ \A r, q \in AgentRuns : Active(r) /\ Active(q) /\ run[r].x = run[q].x => r = q

(* Chunks that are not in the file yet, each once, of a service that sends *)
(* a resumed run what is left.                                             *)
Unwritten(x, updates) == Replay = "rest" =>
  /\ \A k, l \in DOMAIN updates : updates[k] = updates[l] => k = l
  /\ \A i \in Replied(x) : \A c \in DOMAIN file[i].chunks : \A k \in DOMAIN updates :
       updates[k] # file[i].chunks[c]
Below(updates, next) == Replay = "rest" => \A k \in DOMAIN updates : updates[k] < next
Clean(x, updates, next) ==
  /\ Unwritten(x, updates) /\ Below(updates, next)
  /\ \A i \in Replied(x) : Below(file[i].chunks, next)

(* What a run and a token may still write: what is not in the file.        *)
OutLine(r) == Line(run[r].x, "out", run[r].updates)
PendingInv(r) ==
  /\ run[r].pc \in {"reading", "open"} =>
       /\ Asked(run[r].x) # {} => ~run[r].input
       /\ Clean(run[r].x, run[r].updates, run[r].next)
  /\ run[r].pc = "storing" =>
       /\ Unwritten(run[r].x, run[r].updates) /\ (run[r].kept => run[r].updates # <<>>)
       /\ ~token[run[r].x].input
       /\ token[run[r].x].held => token[run[r].x].updates = <<>> /\ Below(run[r].updates, token[run[r].x].next)
       /\ \/ /\ run[r].lines = LinesOf(run[r]) /\ run[r].lines # <<>>
             /\ run[r].input => Asked(run[r].x) = {}
          \/ run[r].lines = <<OutLine(r)>>
TokenInv(x) ==
  /\ token[x].input => token[x].held
  /\ token[x].held => /\ Asked(x) # {} => ~token[x].input
                      /\ Clean(x, token[x].updates, token[x].next)

(* The operations on the file: the answer to the last question is written  *)
(* by the first of them.                                                   *)
OrderInv ==
  /\ \A i, j \in 1 .. Len(queue) : queue[i] = queue[j] => i = j
  /\ \A i \in 1 .. Len(queue) : run[queue[i]].pc \in {"reading", "storing"}
AnswersOf(r, x) ==
  /\ queue # <<>> /\ queue[1] = r /\ run[r].pc = "storing" /\ run[r].x = x
  /\ run[r].input /\ run[r].lines = <<OutLine(r)>>
FileInv(x) ==
  /\ \A i, j \in Asked(x) : i = j
  /\ Replay = "rest" =>
       \A i, j \in Replied(x) : \A c \in DOMAIN file[i].chunks : \A d \in DOMAIN file[j].chunks :
         file[i].chunks[c] = file[j].chunks[d] => i = j /\ c = d
  /\ ~CutShort(x) => \A i \in Asked(x) : file[i].chunks # <<>> =>
       /\ i < Len(file) => i + 1 \in Replied(x)
       /\ i = Len(file) => \E r \in AgentRuns : AnswersOf(r, x)

(* What the caller was answered is in the file, and is read.               *)
Has(r, x) == \E i \in DOMAIN run[r].sees : run[r].sees[i].x = x /\ run[r].sees[i].part = "out"
HasAnswered(r, i) ==
  run[r].sees[i].part = "in" /\ run[r].sees[i].chunks # <<>> /\ ~CutShort(run[r].sees[i].x) => Has(r, run[r].sees[i].x)
AnsweredInv(r) ==
  /\ run[r].kept /\ run[r].pc # "storing" /\ run[r].result = "ok" => Replied(run[r].x) # {}
  /\ run[r].kept => run[r].pc \in {"storing", "stored", "over"}
  /\ run[r].pc = "reading" => \A x \in run[r].before : x \in AgentRuns /\ Replied(x) # {}
  /\ run[r].pc = "open" /\ run[r].x = r /\ run[r].owned =>
       /\ \A x \in run[r].before : Has(r, x)
       /\ \A i \in DOMAIN run[r].sees : HasAnswered(r, i)

AgentInv ==
  /\ AgentTypeInv /\ BegunInv /\ OrderInv
  /\ \A r \in AgentRuns : ToldInv(r) /\ PendingInv(r) /\ AnsweredInv(r)
  /\ \A x \in AgentRuns : TokenInv(x) /\ FileInv(x)

-----------------------------------------------------------------------------
(* No run has begun.                                                       *)
LEMMA AgentInitInv == ASSUME AgentInit PROVE AgentInv
<1>1. /\ DOMAIN run = AgentRuns /\ DOMAIN token = AgentRuns /\ file = <<>> /\ queue = <<>>
      /\ \A r \in AgentRuns : run[r] = Fresh /\ token[r] = NoToken
  BY DEF AgentInit
<1>2. /\ DOMAIN Fresh = RunFields /\ Fresh.pc = "idle" /\ Fresh.updates = <<>> /\ Fresh.next = 1
      /\ Fresh.notified = 0 /\ Fresh.span = "none" /\ Fresh.result = "ok" /\ Fresh.told = {} /\ ~Fresh.kept
      /\ Fresh.later = 0 /\ DOMAIN NoToken = TokenFields /\ ~NoToken.held /\ ~NoToken.input /\ NoToken.updates = <<>>
      /\ NoToken.next = 1
  BY DEF Fresh, RunFields, NoToken, TokenFields
<1>3. <<>> \in Seq(Nat) /\ <<>> \in Seq(Lines) /\ <<>> \in Seq(AgentRuns) OBVIOUS
<1>4. AgentTypeInv
  <2>1. \A r \in AgentRuns : run[r].updates \in Seq(Nat) /\ token[r].updates \in Seq(Nat)
    BY <1>1, <1>2, <1>3, Zenon
  <2>2. file \in Seq(Lines) /\ queue \in Seq(AgentRuns) BY <1>1, <1>3, Zenon
  <2> QED BY <1>1, <1>2, <2>1, <2>2 DEF AgentTypeInv
<1>5. Len(queue) = 0 /\ DOMAIN file = {} BY <1>1
<1>6. BegunInv /\ OrderInv BY <1>1, <1>2, <1>5 DEF BegunInv, OrderInv, Active
<1>7. \A r \in AgentRuns : ToldInv(r) /\ PendingInv(r) /\ AnsweredInv(r)
  BY <1>1, <1>2 DEF ToldInv, PendingInv, AnsweredInv
<1>8. \A x \in AgentRuns : TokenInv(x) /\ FileInv(x)
  BY <1>1, <1>2, <1>5 DEF TokenInv, FileInv, Asked, Replied
<1> QED BY <1>4, <1>6, <1>7, <1>8 DEF AgentInv

-----------------------------------------------------------------------------
(* The queue of the operations on the file.                                *)
QueueMoves(r) ==
  /\ queue' \in Seq(AgentRuns) /\ OrderInv'
  /\ \A q \in AgentRuns : q # r /\ queue # <<>> /\ queue[1] = q => queue' # <<>> /\ queue'[1] = q

Alters(r) ==
  /\ DOMAIN run' = AgentRuns /\ \A q \in AgentRuns : q # r => run'[q] = run[q]

LEMMA Alteration ==
  ASSUME AgentTypeInv, NEW r \in AgentRuns, NEW now, Become(r, now) PROVE Alters(r) /\ run'[r] = now
BY DEF AgentTypeInv, Become, Alters

(* A run that is in no operation does not wait for one,                    *)
LEMMA QueueStays ==
  ASSUME AgentInv, NEW r \in AgentRuns, Alters(r), queue' = queue, run[r].pc \notin {"reading", "storing"}
  PROVE  QueueMoves(r)
<1>1. queue \in Seq(AgentRuns) /\ \A i \in 1 .. Len(queue) : queue[i] \in AgentRuns
  BY DEF AgentInv, AgentTypeInv
<1> QED BY <1>1 DEF AgentInv, OrderInv, QueueMoves, Alters

(* or is the last to do so,                                                *)
LEMMA QueueGrows ==
  ASSUME AgentInv, NEW r \in AgentRuns, Alters(r), queue' = Append(queue, r),
         run[r].pc \notin {"reading", "storing"}, run'[r].pc \in {"reading", "storing"}
  PROVE  QueueMoves(r)
<1>1. queue \in Seq(AgentRuns) /\ Len(queue) \in Nat /\ \A i \in 1 .. Len(queue) : queue[i] \in AgentRuns
  BY DEF AgentInv, AgentTypeInv
<1>2. /\ queue' \in Seq(AgentRuns) /\ queue' # <<>> /\ Len(queue') = Len(queue) + 1
      /\ queue'[Len(queue) + 1] = r /\ \A i \in 1 .. Len(queue) : queue'[i] = queue[i]
  BY <1>1, AppendProperties
<1>3. \A i \in 1 .. Len(queue) : queue[i] # r BY DEF AgentInv, OrderInv
<1>4. \A i \in 1 .. Len(queue') : i \in 1 .. Len(queue) \/ i = Len(queue) + 1 BY <1>1, <1>2
<1>5. OrderInv'
  <2>1. \A i, j \in 1 .. Len(queue') : queue'[i] = queue'[j] => i = j BY <1>2, <1>3, <1>4 DEF AgentInv, OrderInv
  <2>2. \A i \in 1 .. Len(queue') : run'[queue'[i]].pc \in {"reading", "storing"}
    BY <1>1, <1>2, <1>3, <1>4 DEF AgentInv, OrderInv, Alters
  <2> QED BY <2>1, <2>2 DEF OrderInv
<1>6. queue # <<>> => 1 \in 1 .. Len(queue) BY <1>1
<1> QED BY <1>2, <1>5, <1>6 DEF QueueMoves

(* or has been the first.                                                  *)
LEMMA QueueShrinks ==
  ASSUME AgentInv, NEW r \in AgentRuns, Alters(r), queue # <<>>, queue[1] = r, queue' = Tail(queue)
  PROVE  QueueMoves(r)
<1>1. queue \in Seq(AgentRuns) /\ Len(queue) \in Nat /\ \A i \in 1 .. Len(queue) : queue[i] \in AgentRuns
  BY DEF AgentInv, AgentTypeInv
<1>2. /\ queue' \in Seq(AgentRuns) /\ Len(queue') = Len(queue) - 1 /\ Len(queue) >= 1
      /\ \A i \in 1 .. Len(queue') : queue'[i] = queue[i + 1]
  BY <1>1, HeadTailProperties
<1>3. \A i \in 1 .. Len(queue') : i + 1 \in 1 .. Len(queue) /\ i + 1 # 1 BY <1>1, <1>2
<1>4. 1 \in 1 .. Len(queue) BY <1>1, <1>2
<1>5. \A i \in 1 .. Len(queue') : queue'[i] # r BY <1>2, <1>3, <1>4 DEF AgentInv, OrderInv
<1>6. OrderInv'
  <2>1. \A i, j \in 1 .. Len(queue') : queue'[i] = queue'[j] => i = j
    <3>1. \A i, j \in 1 .. Len(queue') : i + 1 = j + 1 => i = j BY <1>2
    <3> QED BY <3>1, <1>2, <1>3 DEF AgentInv, OrderInv
  <2>2. \A i \in 1 .. Len(queue') : run'[queue'[i]].pc \in {"reading", "storing"}
    BY <1>1, <1>2, <1>3, <1>5 DEF AgentInv, OrderInv, Alters
  <2> QED BY <2>1, <2>2 DEF OrderInv
<1> QED BY <1>2, <1>6 DEF QueueMoves

-----------------------------------------------------------------------------
(* A step of one run, about exchange x, that writes nothing.               *)
Only(r, x) == \A q \in AgentRuns : q # r /\ Active(q) => run[q].x # x
AgentMoves(r, x) ==
  /\ file' = file /\ Alters(r) /\ QueueMoves(r)
  /\ DOMAIN run'[r] = RunFields /\ run'[r].updates \in Seq(Nat) /\ run'[r].next \in Nat
  /\ run[r].pc # "dead" /\ run'[r].pc # "idle"
  /\ x \in AgentRuns /\ run'[r].x = x /\ run'[x].pc # "idle"
  /\ run[r].pc = "idle" \/ run[r].x = x
  /\ run'[r].pc \notin {"over", "dead"} \/ token' # token => Only(r, x)
  /\ DOMAIN token' = AgentRuns /\ \A y \in AgentRuns : y # x => token'[y] = token[y]
  /\ DOMAIN token'[x] = TokenFields /\ token'[x].updates \in Seq(Nat) /\ token'[x].next \in Nat
  /\ TokenInv(x)'
  /\ \A y \in AgentRuns : ~AnswersOf(r, y)
  /\ ToldInv(r)' /\ PendingInv(r)' /\ AnsweredInv(r)'

LEMMA AgentMovesInv == ASSUME AgentInv, NEW r \in AgentRuns, NEW x, AgentMoves(r, x) PROVE AgentInv'
<1>1. /\ \A y : Asked(y)' = Asked(y) /\ Replied(y)' = Replied(y)
      /\ file' = file /\ \A q \in AgentRuns : q # r => run'[q] = run[q]
  BY DEF AgentMoves, Alters, Asked, Replied
<1>2. \A y : CutShort(y) => CutShort(y)'
  <2>1. \A q \in AgentRuns : run[q].pc = "dead" => run'[q] = run[q] BY <1>1 DEF AgentMoves
  <2> QED BY <2>1 DEF CutShort
<1>3. AgentTypeInv' BY DEF AgentInv, AgentTypeInv, AgentMoves, Alters, QueueMoves
<1>4. BegunInv'
  <2>1. \A y : Begun(y) => Begun(y)' BY <1>1 DEF Begun, AgentMoves
  <2>2. ASSUME NEW q \in AgentRuns, run'[q].pc # "idle" PROVE run'[q].x \in AgentRuns /\ run'[run'[q].x].pc # "idle"
    <3>1. CASE q = r BY <3>1 DEF AgentMoves
    <3>2. CASE q # r
      <4>1. PICK y : y = run[q].x OBVIOUS
      <4>2. run'[q].x = y /\ Begun(y) BY <1>1, <2>2, <3>2, <4>1 DEF AgentInv, BegunInv
      <4>3. Begun(y)' BY <2>1, <4>2
      <4> QED BY <4>2, <4>3 DEF Begun
    <3> QED BY <3>1, <3>2
  <2>3. \A y \in AgentRuns : token'[y].held => y \in AgentRuns /\ run'[y].pc # "idle"
    BY <2>1 DEF AgentInv, BegunInv, AgentMoves, Begun
  <2>4. ASSUME NEW i \in DOMAIN file, file[i].part \in {"in", "out"}
        PROVE  file[i].x \in AgentRuns /\ run'[file[i].x].pc # "idle"
    <3>1. PICK y : y = file[i].x OBVIOUS
    <3>2. Begun(y) BY <2>4, <3>1 DEF AgentInv, BegunInv
    <3>3. Begun(y)' BY <2>1, <3>2
    <3> QED BY <3>1, <3>3 DEF Begun
  <2>5. ASSUME NEW p \in AgentRuns, NEW q \in AgentRuns, Active(p)', Active(q)', run'[p].x = run'[q].x PROVE p = q
    <3>1. CASE p # r /\ q # r BY <1>1, <2>5, <3>1 DEF AgentInv, BegunInv, Active
    <3>2. CASE p = r \/ q = r
      <4>1. run'[r].pc \notin {"over", "dead"} BY <2>5, <3>2 DEF Active
      <4>2. Only(r, x) /\ run'[r].x = x BY <4>1 DEF AgentMoves
      <4> QED BY <1>1, <2>5, <3>2, <4>2 DEF Only, Active
    <3> QED BY <3>1, <3>2
  <2> QED BY <1>1, <2>2, <2>3, <2>4, <2>5 DEF BegunInv, Begun
<1>5. ASSUME NEW q \in AgentRuns, q # r PROVE ToldInv(q)' /\ PendingInv(q)' /\ AnsweredInv(q)'
  <2>1. run'[q] = run[q] BY <1>1, <1>5
  <2>2. ToldInv(q)' BY <2>1 DEF AgentInv, ToldInv
  <2>3. AnsweredInv(q)' BY <1>1, <1>2, <2>1 DEF AgentInv, AnsweredInv, Has, HasAnswered
  <2>4. PendingInv(q)'
    <3>1. run[q].pc = "storing" => run[q].x \in AgentRuns /\ Active(q) BY DEF AgentInv, BegunInv, Begun, Active
    <3>2. run[q].pc = "storing" => token'[run[q].x] = token[run[q].x]
      BY <1>5, <3>1 DEF AgentMoves, Only
    <3>3. PendingInv(q) BY DEF AgentInv
    <3>4. ASSUME NEW y, NEW updates, NEW next
          PROVE  (Clean(y, updates, next)' <=> Clean(y, updates, next)) /\ (Unwritten(y, updates)' <=> Unwritten(y, updates))
      BY <1>1 DEF Clean, Unwritten, Below
    <3> QED BY <1>1, <2>1, <3>2, <3>3, <3>4 DEF PendingInv, OutLine, LinesOf, Clean, Unwritten, Below
  <2> QED BY <2>2, <2>3, <2>4
<1>6. ASSUME NEW y \in AgentRuns PROVE TokenInv(y)'
  <2>1. CASE y = x BY <2>1 DEF AgentMoves
  <2>2. CASE y # x
    <3>1. token'[y] = token[y] BY <2>2 DEF AgentMoves
    <3> QED BY <1>1, <3>1 DEF AgentInv, TokenInv, Clean, Unwritten, Below
  <2> QED BY <2>1, <2>2
<1>7. ASSUME NEW y \in AgentRuns PROVE FileInv(y)'
  <2>1. \A q \in AgentRuns : AnswersOf(q, y) => AnswersOf(q, y)'
    BY <1>1 DEF AnswersOf, AgentMoves, QueueMoves, OutLine
  <2> QED BY <1>1, <1>2, <2>1 DEF AgentInv, FileInv
<1>8. OrderInv' /\ ToldInv(r)' /\ PendingInv(r)' /\ AnsweredInv(r)' BY DEF AgentMoves, QueueMoves
<1> QED BY <1>3, <1>4, <1>5, <1>6, <1>7, <1>8 DEF AgentInv

-----------------------------------------------------------------------------
(* Nobody has heard of a run that is idle, and it answers nothing.         *)
LEMMA IdleUnknown ==
  ASSUME AgentInv, NEW r \in AgentRuns, run[r].pc = "idle"
  PROVE  Asked(r) = {} /\ Replied(r) = {} /\ ~token[r].held /\ ~token[r].input /\ Only(r, r)
<1>1. ~Begun(r) BY DEF Begun
<1>2. ~token[r].held /\ ~token[r].input BY <1>1 DEF AgentInv, BegunInv, TokenInv
<1>3. \A i \in DOMAIN file : file[i].part \in {"in", "out"} => file[i].x # r BY <1>1 DEF AgentInv, BegunInv
<1>4. \A q \in AgentRuns : Active(q) => run[q].x # r BY <1>1 DEF AgentInv, BegunInv, Active
<1> QED BY <1>2, <1>3, <1>4 DEF Asked, Replied, Only

LEMMA FreshFields ==
  /\ DOMAIN Fresh = RunFields /\ Fresh.pc = "idle" /\ Fresh.updates = <<>> /\ Fresh.next = 1 /\ Fresh.x = NoRun
  /\ Fresh.notified = 0 /\ Fresh.span = "none" /\ Fresh.result = "ok" /\ Fresh.told = {} /\ ~Fresh.kept
  /\ Fresh.later = 0 /\ Fresh.before = {} /\ Fresh.sees = <<>> /\ Fresh.lines = <<>>
  /\ Fresh.updates \in Seq(Nat) /\ Fresh.next \in Nat
<1>1. <<>> \in Seq(Nat) /\ 1 \in Nat OBVIOUS
<1>2. /\ DOMAIN Fresh = RunFields /\ Fresh.pc = "idle" /\ Fresh.updates = <<>> /\ Fresh.next = 1 /\ Fresh.x = NoRun
      /\ Fresh.notified = 0 /\ Fresh.span = "none" /\ Fresh.result = "ok" /\ Fresh.told = {} /\ ~Fresh.kept
      /\ Fresh.later = 0 /\ Fresh.before = {} /\ Fresh.sees = <<>> /\ Fresh.lines = <<>>
  BY DEF Fresh, RunFields
<1>3. Fresh.updates \in Seq(Nat) /\ Fresh.next \in Nat BY <1>1, <1>2, Zenon
<1> QED BY <1>2, <1>3

LEMMA StartInv == ASSUME AgentInv, NEW r \in AgentRuns, Start(r) PROVE AgentInv'
<1>1. run[r].pc = "idle" /\ file' = file /\ token' = token BY DEF Start
<1>2. PICK s : /\ \E stream, background \in BOOLEAN :
                    s = [Fresh EXCEPT !.stream = stream, !.background = background, !.x = r,
                                      !.before = Answered, !.owned = ~conversation]
               /\ \/ Become(r, [LeftOver(s) EXCEPT !.result = "error", !.told = {"error"}]) /\ UNCHANGED queue
                  \/ s.owned /\ Become(r, [s EXCEPT !.pc = "reading"]) /\ queue' = Append(queue, r)
                  \/ ~s.owned /\ Become(r, [s EXCEPT !.pc = "open", !.span = "open"]) /\ UNCHANGED queue
  <2>1. PICK stream, background, s :
          /\ stream \in BOOLEAN /\ background \in BOOLEAN
          /\ s = [Fresh EXCEPT !.stream = stream, !.background = background, !.x = r,
                               !.before = Answered, !.owned = ~conversation]
          /\ \/ Become(r, [LeftOver(s) EXCEPT !.result = "error", !.told = {"error"}]) /\ UNCHANGED queue
             \/ s.owned /\ Become(r, [s EXCEPT !.pc = "reading"]) /\ queue' = Append(queue, r)
             \/ ~s.owned /\ Become(r, [s EXCEPT !.pc = "open", !.span = "open"]) /\ UNCHANGED queue
    BY DEF Start
  <2> QED BY <2>1
<1>3. /\ DOMAIN s = RunFields /\ s.x = r /\ s.updates = <<>> /\ s.next = 1 /\ s.notified = 0 /\ s.span = "none"
      /\ s.later = 0 /\ s.result = "ok" /\ s.told = {} /\ ~s.kept /\ s.before = Answered
  BY <1>2, FreshFields DEF RunFields
<1>4. PICK now : /\ Become(r, now)
                 /\ \/ now = [LeftOver(s) EXCEPT !.result = "error", !.told = {"error"}] /\ UNCHANGED queue
                    \/ now = [s EXCEPT !.pc = "reading"] /\ queue' = Append(queue, r)
                    \/ ~s.owned /\ now = [s EXCEPT !.pc = "open", !.span = "open"] /\ UNCHANGED queue
  BY <1>2
<1>5. Alters(r) /\ run'[r] = now BY <1>4, Alteration DEF AgentInv
<1>6. /\ DOMAIN now = RunFields /\ now.x = r /\ now.updates = <<>> /\ now.next = 1 /\ ~now.kept
      /\ \/ /\ now.pc = "over" /\ now.notified = 0 /\ now.span = "none" /\ now.result = "error"
            /\ now.told = {"error"} /\ queue' = queue
         \/ /\ now.pc = "reading" /\ now.notified = 0 /\ now.span = "none" /\ now.result = "ok"
            /\ now.later = 0 /\ now.told = {} /\ now.before = Answered /\ queue' = Append(queue, r)
         \/ /\ now.pc = "open" /\ now.notified = 0 /\ now.span = "open" /\ now.result = "ok"
            /\ now.later = 0 /\ now.told = {} /\ ~now.owned /\ queue' = queue
  BY <1>3, <1>4, FreshFields DEF RunFields, LeftOver
<1>7. QueueMoves(r) BY <1>1, <1>5, <1>6, QueueStays, QueueGrows
<1>8. Asked(r) = {} /\ Replied(r) = {} /\ ~token[r].held /\ ~token[r].input /\ Only(r, r) BY <1>1, IdleUnknown
<1>9. Asked(r)' = {} /\ Replied(r)' = {} BY <1>1, <1>8 DEF Asked, Replied
<1>10. ToldInv(r)' BY <1>5, <1>6 DEF ToldInv
<1>11. PendingInv(r)' BY <1>5, <1>6, <1>9 DEF PendingInv, Clean, Unwritten, Below
<1>12. AnsweredInv(r)'
  <2>1. \A x \in Answered : x \in AgentRuns /\ Replied(x) # {}
    <3>1. ASSUME NEW q \in AgentRuns, "ok" \in run[q].told, run[q].kept
          PROVE  run[q].x \in AgentRuns /\ Replied(run[q].x) # {}
      BY <3>1 DEF AgentInv, ToldInv, AnsweredInv, BegunInv, Begun
    <3> QED BY <3>1 DEF Answered
  <2>2. \A x : Replied(x)' = Replied(x) BY <1>1 DEF Replied
  <2> QED BY <1>5, <1>6, <2>1, <2>2 DEF AnsweredInv
<1>13. TokenInv(r)' BY <1>1, <1>8 DEF TokenInv
<1>14. \A y \in AgentRuns : ~AnswersOf(r, y) BY <1>1 DEF AnswersOf
<1>15. now.updates \in Seq(Nat) /\ now.next \in Nat
  <2>1. <<>> \in Seq(Nat) /\ 1 \in Nat OBVIOUS
  <2> QED BY <1>6, <2>1, Zenon
<1>16. AgentMoves(r, r)
  BY <1>1, <1>5, <1>6, <1>7, <1>8, <1>10, <1>11, <1>12, <1>13, <1>14, <1>15 DEF AgentMoves, AgentInv, AgentTypeInv
<1> QED BY <1>16, AgentMovesInv

LEMMA ResumeRunInv == ASSUME AgentInv, NEW r \in AgentRuns, ResumeRun(r) PROVE AgentInv'
<1>1. run[r].pc = "idle" /\ file' = file /\ token' = token /\ queue' = queue BY DEF ResumeRun
<1>2. PICK x \in AgentRuns, stream \in BOOLEAN :
        /\ token[x].held /\ \A q \in AgentRuns : run[q].x = x => ~Active(q)
        /\ Become(r, [Fresh EXCEPT
             !.pc = "open", !.span = "open", !.stream = stream, !.background = TRUE, !.x = x,
             !.owned = ~conversation, !.input = token[x].input, !.updates = token[x].updates,
             !.next = IF Replay = "all" THEN 1 ELSE token[x].next])
  BY DEF ResumeRun
<1>3. PICK now : /\ Become(r, now)
                 /\ now = [Fresh EXCEPT
                      !.pc = "open", !.span = "open", !.stream = stream, !.background = TRUE, !.x = x,
                      !.owned = ~conversation, !.input = token[x].input, !.updates = token[x].updates,
                      !.next = IF Replay = "all" THEN 1 ELSE token[x].next]
  BY <1>2
<1>4. Alters(r) /\ run'[r] = now BY <1>3, Alteration DEF AgentInv
<1>5. /\ DOMAIN now = RunFields /\ now.pc = "open" /\ now.x = x /\ now.input = token[x].input
      /\ now.updates = token[x].updates /\ (Replay = "rest" => now.next = token[x].next) /\ ~now.kept
      /\ now.next \in {1, token[x].next} /\ now.notified = 0 /\ now.later = 0 /\ now.span = "open"
      /\ now.result = "ok" /\ now.told = {}
  BY <1>3, FreshFields DEF RunFields
<1>6. ~token[r].held /\ x # r BY <1>1, <1>2, IdleUnknown
<1>7. Begun(x) /\ TokenInv(x) BY <1>2 DEF AgentInv, BegunInv
<1>8. QueueMoves(r) BY <1>1, <1>4, QueueStays
<1>9. ToldInv(r)' BY <1>4, <1>5 DEF ToldInv
<1>10. \A y : Asked(y)' = Asked(y) /\ Replied(y)' = Replied(y) BY <1>1 DEF Asked, Replied
<1>11. PendingInv(r)'
  BY <1>1, <1>2, <1>4, <1>5, <1>7, <1>10 DEF PendingInv, TokenInv, Clean, Unwritten, Below
<1>12. AnsweredInv(r)' BY <1>4, <1>5, <1>6 DEF AnsweredInv
<1>13. TokenInv(x)' BY <1>1, <1>7, <1>10 DEF TokenInv, Clean, Unwritten, Below
<1>14. \A y \in AgentRuns : ~AnswersOf(r, y) BY <1>1 DEF AnswersOf
<1>15. Only(r, x) BY <1>2 DEF Only
<1>16. run'[x].pc # "idle" BY <1>4, <1>6, <1>7 DEF Begun, Alters
<1>17. AgentMoves(r, x)
  BY <1>1, <1>4, <1>5, <1>8, <1>9, <1>11, <1>12, <1>13, <1>14, <1>15, <1>16 DEF AgentMoves, AgentInv, AgentTypeInv
<1> QED BY <1>17, AgentMovesInv

-----------------------------------------------------------------------------
(* A run that fails is over.                                               *)
LEMMA FailedFields ==
  ASSUME NEW s, s.notified \in {0, 1}, s.span \in {"none", "open"}
  PROVE  /\ DOMAIN Failed(s) = RunFields /\ Failed(s).pc = "over" /\ Failed(s).x = s.x
         /\ Failed(s).updates = <<>> /\ Failed(s).next = 1
         /\ Failed(s).updates \in Seq(Nat) /\ Failed(s).next \in Nat
         /\ Failed(s).notified = 1 /\ Failed(s).span \in {"none", "ended"}
         /\ Failed(s).result = "error" /\ Failed(s).told = {"error"}
<1>1. PICK left : left = LeftOver(s) OBVIOUS
<1>2. /\ DOMAIN left = RunFields /\ left.pc = "over" /\ left.x = s.x /\ left.updates = <<>> /\ left.next = 1
      /\ left.notified = s.notified /\ left.span \in {"none", "ended"} /\ left.updates \in Seq(Nat) /\ left.next \in Nat
  BY <1>1, FreshFields DEF LeftOver, RunFields
<1>3. PICK failed : failed = [left EXCEPT !.notified = Notified(Notified(@)), !.later = NotifiedToTheLast(s),
                                         !.result = "error", !.told = {"error"}]
  OBVIOUS
<1>4. failed = Failed(s) BY <1>1, <1>3 DEF Failed
<1>5. Notified(Notified(s.notified)) = 1 BY DEF Notified
<1>6. /\ DOMAIN failed = RunFields /\ failed.pc = "over" /\ failed.x = s.x /\ failed.updates = <<>> /\ failed.next = 1
      /\ failed.notified = 1 /\ failed.span \in {"none", "ended"} /\ failed.updates \in Seq(Nat) /\ failed.next \in Nat
      /\ failed.result = "error" /\ failed.told = {"error"}
  BY <1>2, <1>3, <1>5 DEF RunFields
<1> QED BY <1>4, <1>6

(* It has written nothing, and what may be written of its exchange is its  *)
(* token's.                                                                *)
LEMMA FailedInv ==
  ASSUME AgentInv, NEW r \in AgentRuns, NEW s, Become(r, Failed(s)), file' = file, QueueMoves(r),
         Active(r), s.x = run[r].x, s.notified \in {0, 1}, s.span \in {"none", "open"},
         \A y \in AgentRuns : ~AnswersOf(r, y),
         DOMAIN token' = AgentRuns, \A y \in AgentRuns : y # run[r].x => token'[y] = token[y],
         DOMAIN token'[run[r].x] = TokenFields, token'[run[r].x].updates \in Seq(Nat),
         token'[run[r].x].next \in Nat, NEW x, x = run[r].x, TokenInv(x)'
  PROVE  AgentInv'
<1>1. PICK now : now = Failed(s) OBVIOUS
<1>2. Alters(r) /\ run'[r] = now BY <1>1, Alteration DEF AgentInv
<1>3. /\ DOMAIN now = RunFields /\ now.pc = "over" /\ now.x = x /\ now.notified = 1
      /\ now.span \in {"none", "ended"} /\ now.result = "error" /\ now.told = {"error"}
      /\ now.updates \in Seq(Nat) /\ now.next \in Nat
  BY <1>1, FailedFields
<1>4. Begun(x) /\ Only(r, x) BY DEF AgentInv, BegunInv, Active, Only
<1>5. ToldInv(r)' BY <1>2, <1>3 DEF ToldInv
<1>6. PendingInv(r)' BY <1>2, <1>3 DEF PendingInv
<1>7. AnsweredInv(r)' BY <1>2, <1>3 DEF AnsweredInv
<1>8. run'[x].pc # "idle" BY <1>2, <1>3, <1>4 DEF Begun, Alters
<1>9. AgentMoves(r, x) BY <1>2, <1>3, <1>4, <1>5, <1>6, <1>7, <1>8 DEF AgentMoves, Active, Begun
<1> QED BY <1>9, AgentMovesInv

(* The token of an exchange on which nothing happens.                      *)
LEMMA TokenStays ==
  ASSUME AgentInv, token' = token, file' = file, NEW x \in AgentRuns
  PROVE  /\ DOMAIN token' = AgentRuns /\ \A y \in AgentRuns : token'[y] = token[y]
         /\ DOMAIN token'[x] = TokenFields /\ token'[x].updates \in Seq(Nat) /\ token'[x].next \in Nat
         /\ TokenInv(x)'
<1>1. \A y : Asked(y)' = Asked(y) /\ Replied(y)' = Replied(y) BY DEF Asked, Replied
<1> QED BY <1>1 DEF AgentInv, AgentTypeInv, TokenInv, Clean, Unwritten, Below

LEMMA FailInv == ASSUME AgentInv, NEW r \in AgentRuns, Fail(r) PROVE AgentInv'
<1>1. run[r].pc = "open" /\ Become(r, Failed(run[r])) /\ file' = file /\ token' = token /\ queue' = queue
  BY DEF Fail
<1>2. PICK x : x = run[r].x OBVIOUS
<1>3. x \in AgentRuns /\ Active(r) BY <1>1, <1>2 DEF AgentInv, BegunInv, Begun, Active
<1>4. run[r].notified \in {0, 1} /\ run[r].span \in {"none", "open"} BY <1>1 DEF AgentInv, ToldInv
<1>5. Alters(r) BY <1>1, Alteration DEF AgentInv
<1>6. QueueMoves(r) BY <1>1, <1>5, QueueStays
<1>7. \A y \in AgentRuns : ~AnswersOf(r, y) BY <1>1 DEF AnswersOf
<1> QED BY <1>1, <1>2, <1>3, <1>4, <1>6, <1>7, TokenStays, FailedInv

LEMMA ReadInv == ASSUME AgentInv, NEW r \in AgentRuns, Read(r) PROVE AgentInv'
<1>1. /\ run[r].pc = "reading" /\ file' = file /\ token' = token
      /\ Become(r, IF Torn \in ToSet(file) THEN Failed(run[r])
                   ELSE [run[r] EXCEPT !.pc = "open", !.span = "open", !.sees = file])
  BY DEF Read
<1>2. queue # <<>> /\ queue[1] = r /\ queue' = RemoveAt(queue, 1)
  <2>1. PICK place \in DOMAIN queue : queue[place] = r /\ place = 1 /\ queue' = RemoveAt(queue, place)
    BY DEF Read, MayRead
  <2>2. queue \in Seq(AgentRuns) BY DEF AgentInv, AgentTypeInv
  <2> QED BY <2>1, <2>2
<1>3. queue' = Tail(queue) BY <1>2, FirstRemoved DEF AgentInv, AgentTypeInv
<1>4. Alters(r)
  <2>1. PICK now : Become(r, now) BY <1>1
  <2> QED BY <2>1, Alteration DEF AgentInv
<1>5. QueueMoves(r) BY <1>2, <1>3, <1>4, QueueShrinks
<1>6. PICK x : x = run[r].x OBVIOUS
<1>7. x \in AgentRuns /\ Active(r) /\ Begun(x) /\ Only(r, x)
  BY <1>1, <1>6 DEF AgentInv, BegunInv, Begun, Active, Only
<1>8. run[r].notified = 0 /\ run[r].span = "none" BY <1>1 DEF AgentInv, ToldInv
<1>9. \A y \in AgentRuns : ~AnswersOf(r, y) BY <1>1 DEF AnswersOf
<1>10. CASE Become(r, Failed(run[r]))
  BY <1>1, <1>5, <1>6, <1>7, <1>8, <1>9, <1>10, TokenStays, FailedInv
<1>11. CASE Become(r, [run[r] EXCEPT !.pc = "open", !.span = "open", !.sees = file])
  <2>1. PICK now : now = [run[r] EXCEPT !.pc = "open", !.span = "open", !.sees = file] OBVIOUS
  <2>2. run'[r] = now BY <1>11, <2>1, Alteration DEF AgentInv
  <2>3. DOMAIN run[r] = RunFields /\ run[r].updates \in Seq(Nat) /\ run[r].next \in Nat BY DEF AgentInv, AgentTypeInv
  <2>4. /\ DOMAIN now = RunFields /\ now.pc = "open" /\ now.span = "open" /\ now.sees = file
        /\ now.x = x /\ now.input = run[r].input /\ now.updates = run[r].updates /\ now.next = run[r].next
        /\ now.owned = run[r].owned /\ now.before = run[r].before /\ now.kept = run[r].kept
        /\ now.notified = run[r].notified /\ now.later = run[r].later
        /\ now.result = run[r].result /\ now.told = run[r].told
    BY <1>6, <2>1, <2>3 DEF RunFields
  <2>5. ToldInv(r)' BY <1>1, <2>2, <2>4 DEF AgentInv, ToldInv
  <2>6. \A y : Asked(y)' = Asked(y) /\ Replied(y)' = Replied(y) BY <1>1 DEF Asked, Replied
  <2>7. PendingInv(r)'
    <3>1. (Asked(x) # {} => ~run[r].input) /\ Clean(x, run[r].updates, run[r].next)
      BY <1>1, <1>6 DEF AgentInv, PendingInv
    <3> QED BY <1>1, <2>2, <2>4, <2>6, <3>1 DEF PendingInv, Clean, Unwritten, Below
  <2>8. \A y \in AgentRuns : CutShort(y) => CutShort(y)' BY <1>4, <2>2, <2>4, <1>1 DEF CutShort, Alters
  <2>9. AnsweredInv(r)'
    <3>1. AnsweredInv(r) BY DEF AgentInv
    <3>2. \A y : Replied(y) # {} => Has(r, y)' BY <2>2, <2>4 DEF Replied, Has
    <3>3. ASSUME NEW i \in DOMAIN file, file[i].part = "in", file[i].chunks # <<>>,
                 NEW y, y = file[i].x, ~CutShort(y)'
          PROVE  Has(r, y)'
      <4>1. y \in AgentRuns /\ i \in Asked(y) BY <3>3 DEF AgentInv, BegunInv, Begun, Asked
      <4>2. file \in Seq(Lines) BY DEF AgentInv, AgentTypeInv
      <4>3. i < Len(file) \/ i = Len(file) BY <4>1, <4>2
      <4>4. ~CutShort(y) BY <2>8, <3>3, <4>1
      <4>5. i # Len(file) BY <1>1, <1>2, <3>3, <4>1, <4>4 DEF AgentInv, FileInv, AnswersOf
      <4>6. i + 1 \in Replied(y) BY <3>3, <4>1, <4>3, <4>4, <4>5 DEF AgentInv, FileInv
      <4> QED BY <3>2, <4>6
    <3>4. ASSUME NEW i \in DOMAIN file PROVE HasAnswered(r, i)'
      <4>1. PICK y : y = file[i].x OBVIOUS
      <4>2. run'[r].sees[i] = file[i] BY <2>2, <2>4
      <4> QED BY <3>3, <4>1, <4>2 DEF HasAnswered, Has, CutShort
    <3> QED BY <1>1, <2>2, <2>4, <3>1, <3>2, <3>4 DEF AnsweredInv
  <2>10. run'[x].pc # "idle" BY <1>4, <1>7, <2>2, <2>4 DEF Begun, Alters
  <2>11. AgentMoves(r, x)
    BY <1>1, <1>4, <1>5, <1>6, <1>7, <1>9, <2>2, <2>3, <2>4, <2>5, <2>7, <2>9, <2>10, TokenStays DEF AgentMoves
  <2> QED BY <2>11, AgentMovesInv
<1> QED BY <1>1, <1>10, <1>11

-----------------------------------------------------------------------------
(* What is received is new, and the token of it is as good as the run.     *)
TokenMoves(x) ==
  /\ DOMAIN token' = AgentRuns /\ \A y \in AgentRuns : y # x => token'[y] = token[y]
  /\ DOMAIN token'[x] = TokenFields /\ token'[x].updates \in Seq(Nat) /\ token'[x].next \in Nat
  /\ TokenInv(x)'

(* What the run of s has received.                                         *)
HasReceived(r, s) ==
  /\ DOMAIN s = RunFields /\ s.x = run[r].x /\ s.updates \in Seq(Nat) /\ s.next \in Nat
  /\ s.input = run[r].input /\ s.notified = 0 /\ s.later = 0 /\ s.span = "open" /\ s.pc = "open" /\ s.told = {}
  /\ s.stream = run[r].stream /\ s.background = run[r].background /\ s.owned = run[r].owned
  /\ s.before = run[r].before /\ s.sees = run[r].sees /\ s.kept = run[r].kept /\ s.result = "ok"
  /\ Clean(s.x, s.updates, s.next)

(* The run is over, or what it has received is to be written: if that goes *)
(* into the token as well, it is not to be written again.                  *)
LEMMA OnResultInv ==
  ASSUME AgentInv, NEW r \in AgentRuns, run[r].pc = "open", NEW s, HasReceived(r, s), NEW hold,
         OnResult(r, s, hold), file' = file, NEW x, x = run[r].x, TokenMoves(x),
         Stores(s, hold) => /\ ~token'[x].input
                            /\ token'[x].held => token'[x].updates = <<>> /\ Below(s.updates, token'[x].next)
  PROVE  AgentInv'
<1>1. /\ s.x = x /\ s.updates \in Seq(Nat) /\ s.next \in Nat /\ s.input = run[r].input
      /\ s.notified = 0 /\ s.later = 0 /\ s.span = "open" /\ Clean(x, s.updates, s.next)
  BY DEF HasReceived
<1>2. x \in AgentRuns /\ Active(r) /\ Begun(x) /\ Only(r, x) /\ (Asked(x) # {} => ~s.input)
  BY <1>1 DEF AgentInv, BegunInv, Begun, Active, Only, PendingInv
<1>3. \A y \in AgentRuns : ~AnswersOf(r, y) BY DEF AnswersOf
<1>4. CASE Become(r, Failed(s)) /\ UNCHANGED queue
  <2>1. Alters(r) BY <1>4, Alteration DEF AgentInv
  <2>2. QueueMoves(r) BY <1>4, <2>1, QueueStays
  <2> QED BY <1>1, <1>2, <1>3, <1>4, <2>2, FailedInv DEF TokenMoves
<1>5. CASE \/ /\ Stores(s, hold) /\ LinesOf(s) # <<>> /\ queue' = Append(queue, r)
              /\ Become(r, [Ended(s) EXCEPT !.pc = "storing", !.kept = s.updates # <<>>, !.lines = LinesOf(s),
                                            !.notified = Notified(@)])
           \/ /\ Become(r, [Ended(s) EXCEPT !.pc = "stored", !.notified = Notified(@), !.later = NotifiedToTheLast(s)])
              /\ UNCHANGED queue
  <2>1. PICK ended : ended = Ended(s) OBVIOUS
  <2>2. /\ DOMAIN ended = RunFields /\ ended.x = x /\ ended.input = s.input /\ ended.updates = s.updates
        /\ ended.span = "open" /\ ended.notified = 0 /\ ended.later = 0 /\ ended.next = 1 /\ ended.result = "ok" /\ ended.told = {}
        /\ ~ended.kept
    BY <1>1, <2>1, FreshFields DEF Ended, RunFields
  <2>0. PICK kept, lines, later :
          kept = (s.updates # <<>>) /\ lines = LinesOf(s) /\ later = NotifiedToTheLast(s) /\ later = 1
    BY <1>1 DEF NotifiedToTheLast
  <2>3. PICK now : /\ Become(r, now)
                   /\ \/ /\ Stores(s, hold) /\ lines # <<>> /\ queue' = Append(queue, r)
                         /\ now = [ended EXCEPT !.pc = "storing", !.kept = kept, !.lines = lines, !.notified = Notified(@)]
                      \/ /\ now = [ended EXCEPT !.pc = "stored", !.notified = Notified(@), !.later = later]
                         /\ queue' = queue
    BY <1>5, <2>0, <2>1
  <2>4. Notified(0) = 1 BY DEF Notified
  <2>5. /\ DOMAIN now = RunFields /\ now.x = x /\ now.input = s.input /\ now.updates = s.updates /\ now.next = 1
        /\ now.span = "open" /\ now.notified = 1 /\ now.result = "ok" /\ now.told = {}
        /\ \/ /\ now.pc = "storing" /\ now.lines = LinesOf(s) /\ Stores(s, hold) /\ queue' = Append(queue, r)
              /\ now.later = 0 /\ now.lines # <<>> /\ (now.kept => s.updates # <<>>)
           \/ now.pc = "stored" /\ now.later = 1 /\ ~now.kept /\ queue' = queue
    <3>1. CASE /\ Stores(s, hold) /\ lines # <<>> /\ queue' = Append(queue, r)
               /\ now = [ended EXCEPT !.pc = "storing", !.kept = kept, !.lines = lines, !.notified = Notified(@)]
      BY <2>0, <2>2, <2>4, <3>1 DEF RunFields
    <3>2. CASE /\ now = [ended EXCEPT !.pc = "stored", !.notified = Notified(@), !.later = later]
               /\ queue' = queue
      BY <2>0, <2>2, <2>4, <3>2 DEF RunFields
    <3> QED BY <2>3, <3>1, <3>2
  <2>6. Alters(r) /\ run'[r] = now BY <2>3, Alteration DEF AgentInv
  <2>7. QueueMoves(r) BY <2>5, <2>6, QueueStays, QueueGrows
  <2>8. ToldInv(r)' BY <2>5, <2>6 DEF ToldInv
  <2>9. Asked(x)' = Asked(x) /\ Replied(x)' = Replied(x) BY DEF Asked, Replied
  <2>10. PendingInv(r)'
    <3>1. CASE now.pc = "stored" BY <2>6, <3>1 DEF PendingInv
    <3>2. CASE now.pc = "storing"
      <4>1. LinesOf(now) = LinesOf(s) BY <1>1, <2>5 DEF LinesOf
      <4>2. now.lines = LinesOf(now) /\ (now.input => Asked(x)' = {}) BY <1>2, <2>5, <2>9, <3>2, <4>1
      <4>3. Unwritten(x, s.updates)' BY <1>1, <2>9 DEF Clean, Unwritten
      <4>4. /\ ~token'[x].input
            /\ token'[x].held => token'[x].updates = <<>> /\ Below(s.updates, token'[x].next)
        BY <2>5, <3>2
      <4>5. LinesOf(run'[r]) = LinesOf(now) BY <2>6
      <4> QED BY <2>5, <2>6, <3>2, <4>2, <4>3, <4>4, <4>5 DEF PendingInv, Unwritten, Below, LinesOf
    <3> QED BY <2>5, <3>1, <3>2
  <2>11. AnsweredInv(r)' BY <2>5, <2>6 DEF AnsweredInv
  <2>12. run'[x].pc # "idle" BY <1>2, <2>5, <2>6 DEF Begun, Alters
  <2>13. AgentMoves(r, x)
    BY <1>1, <1>2, <1>3, <2>5, <2>6, <2>7, <2>8, <2>10, <2>11, <2>12 DEF AgentMoves, TokenMoves
  <2> QED BY <2>13, AgentMovesInv
<1> QED BY <1>4, <1>5 DEF OnResult

(* A run has received what it has.                                         *)
LEMMA OpenHasReceived == ASSUME AgentInv, NEW r \in AgentRuns, run[r].pc = "open" PROVE HasReceived(r, run[r])
BY DEF AgentInv, AgentTypeInv, PendingInv, ToldInv, HasReceived

(* It holds a token of that, or none.                                      *)
LEMMA TokenOfInv ==
  ASSUME AgentInv, NEW r \in AgentRuns, run[r].pc = "open", NEW s, HasReceived(r, s), NEW t, t \in {TokenOf(s), NoToken},
         file' = file, NEW x, x = run[r].x, token' = [token EXCEPT ![x] = t]
  PROVE  TokenMoves(x) /\ token'[x] = t
<1>1. x \in AgentRuns BY DEF AgentInv, BegunInv, Begun
<1>2. /\ DOMAIN token' = AgentRuns /\ token'[x] = t /\ \A y \in AgentRuns : y # x => token'[y] = token[y]
  BY <1>1 DEF AgentInv, AgentTypeInv
<1>3. <<>> \in Seq(Nat) /\ 1 \in Nat OBVIOUS
<1>4. Asked(x)' = Asked(x) /\ Replied(x)' = Replied(x) BY DEF Asked, Replied
<1>5. (Asked(x) # {} => ~s.input) /\ Clean(x, s.updates, s.next) /\ s.updates \in Seq(Nat) /\ s.next \in Nat
  BY DEF HasReceived, AgentInv, PendingInv
<1>6. Clean(x, <<>>, s.next) BY <1>5 DEF Clean, Unwritten, Below
<1>7. CASE t = NoToken
  <2>1. DOMAIN t = TokenFields /\ t.updates = <<>> /\ t.next = 1 /\ ~t.held /\ ~t.input
    BY <1>7 DEF NoToken, TokenFields
  <2>2. t.updates \in Seq(Nat) /\ t.next \in Nat BY <1>3, <2>1, Zenon
  <2>3. TokenInv(x)' BY <1>2, <2>1 DEF TokenInv
  <2> QED BY <1>2, <2>1, <2>2, <2>3 DEF TokenMoves
<1>8. CASE t = TokenOf(s)
  <2>1. /\ DOMAIN t = TokenFields /\ t.next = s.next /\ (t.input => s.input) /\ t.held
        /\ t.updates = IF s.stream THEN s.updates ELSE <<>>
    BY <1>8 DEF TokenOf, TokenFields
  <2>2. t.updates \in {s.updates, <<>>} BY <2>1
  <2>3. t.updates \in Seq(Nat) /\ t.next \in Nat BY <1>3, <1>5, <2>1, <2>2, Zenon
  <2>4. Clean(x, t.updates, t.next) BY <1>5, <1>6, <2>1, <2>2, Zenon
  <2>5. TokenInv(x)' BY <1>2, <1>4, <1>5, <2>1, <2>4 DEF TokenInv, Clean, Unwritten, Below
  <2> QED BY <1>2, <2>1, <2>3, <2>5 DEF TokenMoves
<1> QED BY <1>7, <1>8

(* More chunks, each of them new.                                          *)
LEMMA MoreIsClean ==
  ASSUME AgentTypeInv, NEW x, NEW u \in Seq(Nat), NEW n \in Nat, Clean(x, u, n), NEW k \in Nat, NEW more \in Seq(Nat),
         Len(more) = k, \A i \in 1 .. k : more[i] = n + i - 1
  PROVE  u \o more \in Seq(Nat) /\ Clean(x, u \o more, n + k)
<1>1. PICK v : v = u \o more OBVIOUS
<1>2. /\ v \in Seq(Nat) /\ Len(v) = Len(u) + k /\ Len(u) \in Nat
      /\ \A i \in 1 .. Len(u) + k : v[i] = IF i <= Len(u) THEN u[i] ELSE more[i - Len(u)]
  <2>1. /\ v \in Seq(Nat) /\ Len(v) = Len(u) + Len(more)
        /\ \A i \in 1 .. Len(u) + Len(more) : v[i] = IF i <= Len(u) THEN u[i] ELSE more[i - Len(u)]
    BY <1>1, ConcatProperties
  <2>2. Len(more) = k /\ Len(u) \in Nat OBVIOUS
  <2> QED BY <2>1, <2>2, Zenon
<1>3. /\ DOMAIN u = 1 .. Len(u) /\ DOMAIN v = 1 .. Len(u) + k /\ \A i \in DOMAIN u : u[i] \in Nat
  BY <1>2
<1>4. ASSUME NEW i \in DOMAIN v
      PROVE  /\ i \in DOMAIN u => v[i] = u[i]
             /\ i \notin DOMAIN u => v[i] = n + (i - Len(u)) - 1 /\ i > Len(u)
  <2>1. i <= Len(u) => i \in DOMAIN u /\ v[i] = u[i] BY <1>2, <1>3
  <2>2. i > Len(u) => i - Len(u) \in 1 .. k /\ i \notin DOMAIN u /\ v[i] = more[i - Len(u)] BY <1>2, <1>3
  <2> QED BY <1>2, <1>3, <2>1, <2>2
<1>5. ASSUME Replay = "rest" PROVE Clean(x, v, n + k)
  <2>1. Below(u, n) BY DEF Clean
  <2>2. \A i \in DOMAIN v : v[i] \in Nat /\ v[i] < n + k /\ (i \in DOMAIN u => v[i] < n) /\ (i \notin DOMAIN u => v[i] >= n)
    BY <1>2, <1>3, <1>4, <1>5, <2>1 DEF Below
  <2>3. \A i, j \in DOMAIN v : v[i] = v[j] => i = j
    <3> SUFFICES ASSUME NEW i \in DOMAIN v, NEW j \in DOMAIN v, v[i] = v[j] PROVE i = j OBVIOUS
    <3>1. CASE i \in DOMAIN u /\ j \in DOMAIN u BY <1>4, <1>5, <3>1 DEF Clean, Unwritten
    <3>2. CASE i \notin DOMAIN u /\ j \notin DOMAIN u BY <1>2, <1>3, <1>4, <3>2
    <3>3. CASE (i \in DOMAIN u) # (j \in DOMAIN u) BY <2>2, <3>3
    <3> QED BY <3>1, <3>2, <3>3
  <2>4. ASSUME NEW i \in Replied(x), NEW c \in DOMAIN file[i].chunks
        PROVE  file[i].chunks[c] \in Nat /\ file[i].chunks[c] < n /\ \A j \in DOMAIN v : v[j] # file[i].chunks[c]
    <3>1. file[i].chunks \in Seq(Nat)
      <4>1. file \in Seq(Lines) /\ i \in DOMAIN file BY DEF AgentTypeInv, Replied
      <4>2. file[i] \in Lines BY <4>1
      <4> QED BY <4>2 DEF Lines
    <3>2. file[i].chunks[c] \in Nat /\ file[i].chunks[c] < n BY <1>5, <3>1 DEF Clean, Below
    <3>3. ASSUME NEW j \in DOMAIN v PROVE v[j] # file[i].chunks[c]
      <4>1. CASE j \in DOMAIN u
        <5>1. v[j] = u[j] BY <1>4, <4>1
        <5>2. Unwritten(x, u) BY DEF Clean
        <5>3. u[j] # file[i].chunks[c] BY <1>5, <4>1, <5>2 DEF Unwritten
        <5> QED BY <5>1, <5>3
      <4>2. CASE j \notin DOMAIN u BY <2>2, <3>2, <4>2
      <4> QED BY <4>1, <4>2
    <3> QED BY <3>2, <3>3
  <2>5. Clean(x, v, n + k) BY <2>2, <2>3, <2>4 DEF Clean, Unwritten, Below
  <2> QED BY <2>5
<1>6. Replay # "rest" => Clean(x, v, n + k) BY DEF Clean, Unwritten, Below
<1> QED BY <1>1, <1>2, <1>5, <1>6

LEMMA PullInv == ASSUME AgentInv, NEW r \in AgentRuns, Pull(r) PROVE AgentInv'
<1>1. run[r].pc = "open" /\ file' = file /\ queue' = queue BY DEF Pull
<1>2. PICK s, x : s = Received(r) /\ x = run[r].x OBVIOUS
<1>3. HasReceived(r, run[r]) BY <1>1, OpenHasReceived
<1>4. HasReceived(r, s)
  <2>1. PICK more : more = <<run[r].next>> OBVIOUS
  <2>2. /\ run[r].next \in Nat /\ run[r].updates \in Seq(Nat) /\ Clean(run[r].x, run[r].updates, run[r].next)
        /\ DOMAIN run[r] = RunFields
    BY <1>3 DEF HasReceived
  <2>3. more \in Seq(Nat) /\ Len(more) = 1 /\ \A i \in 1 .. 1 : more[i] = run[r].next + i - 1 BY <2>1, <2>2
  <2>4. /\ run[r].updates \o more \in Seq(Nat) /\ Clean(run[r].x, run[r].updates \o more, run[r].next + 1)
    BY <2>2, <2>3, MoreIsClean DEF AgentInv
  <2>5. Append(run[r].updates, run[r].next) = run[r].updates \o more BY <2>1, <2>2, AppendIsConcat
  <2>6. s = [run[r] EXCEPT !.updates = run[r].updates \o more, !.next = run[r].next + 1]
    BY <1>2, <2>5 DEF Received
  <2>7. run[r].next + 1 \in Nat BY <2>2
  <2> QED BY <1>3, <2>2, <2>4, <2>6, <2>7 DEF HasReceived, RunFields
<1>5. PICK t \in {TokenOf(s), NoToken} : token' = [token EXCEPT ![x] = t]
  <2>1. s.x = x BY <1>2, <1>4 DEF HasReceived
  <2> QED BY <1>2, <2>1 DEF Pull, HoldToken
<1>6. TokenMoves(x) BY <1>1, <1>2, <1>4, <1>5, TokenOfInv
<1>7. Alters(r) /\ run'[r] = s BY <1>2, Alteration DEF AgentInv, Pull
<1>8. x \in AgentRuns /\ Begun(x) /\ Only(r, x) /\ (Asked(x) # {} => ~run[r].input)
  BY <1>1, <1>2 DEF AgentInv, BegunInv, Begun, Active, Only, PendingInv
<1>9. /\ DOMAIN s = RunFields /\ s.x = x /\ s.updates \in Seq(Nat) /\ s.next \in Nat /\ s.pc = "open"
      /\ s.input = run[r].input /\ Clean(x, s.updates, s.next)
  BY <1>2, <1>4 DEF HasReceived
<1>10. ToldInv(r)' BY <1>4, <1>7 DEF ToldInv, HasReceived
<1>11. Asked(x)' = Asked(x) /\ Replied(x)' = Replied(x) BY <1>1 DEF Asked, Replied
<1>12. PendingInv(r)' BY <1>1, <1>7, <1>8, <1>9, <1>11 DEF PendingInv, Clean, Unwritten, Below
<1>13. AnsweredInv(r)'
  <2>1. AnsweredInv(r) /\ ~run[r].kept BY <1>1 DEF AgentInv, AnsweredInv
  <2>2. \A y : CutShort(y) => CutShort(y)' BY <1>1, <1>7 DEF CutShort, Alters
  <2>3. run'[r].sees = run[r].sees /\ run'[r].before = run[r].before BY <1>4, <1>7 DEF HasReceived
  <2>4. \A y : Has(r, y) => Has(r, y)' BY <2>3 DEF Has
  <2>5. ASSUME NEW i \in DOMAIN run[r].sees, HasAnswered(r, i) PROVE HasAnswered(r, i)'
    <3>1. PICK y : y = run[r].sees[i].x OBVIOUS
    <3>2. CutShort(y) => CutShort(y)' BY <2>2
    <3> QED BY <2>3, <2>4, <2>5, <3>1, <3>2 DEF HasAnswered, CutShort
  <2> QED BY <1>1, <1>4, <1>7, <2>1, <2>3, <2>4, <2>5 DEF AnsweredInv, HasReceived
<1>14. QueueMoves(r) /\ \A y \in AgentRuns : ~AnswersOf(r, y) BY <1>1, <1>7, QueueStays DEF AnswersOf
<1>15. run'[x].pc # "idle" BY <1>7, <1>8, <1>9 DEF Begun, Alters
<1>16. AgentMoves(r, x)
  BY <1>1, <1>2, <1>6, <1>7, <1>8, <1>9, <1>10, <1>12, <1>13, <1>14, <1>15 DEF AgentMoves, TokenMoves
<1> QED BY <1>16, AgentMovesInv

LEMMA EndInv == ASSUME AgentInv, NEW r \in AgentRuns, End(r) PROVE AgentInv'
<1>1. run[r].pc = "open" /\ run[r].stream /\ file' = file BY DEF End
<1>2. PICK x : x = run[r].x OBVIOUS
<1>3. HasReceived(r, run[r]) BY <1>1, OpenHasReceived
<1>4. CASE token' = [token EXCEPT ![x] = NoToken] /\ OnResult(r, run[r], FALSE)
  <2>1. TokenMoves(x) /\ token'[x] = NoToken BY <1>1, <1>2, <1>3, <1>4, TokenOfInv
  <2>2. ~token'[x].held /\ ~token'[x].input BY <2>1 DEF NoToken
  <2> QED BY <1>1, <1>2, <1>3, <1>4, <2>1, <2>2, OnResultInv
<1>5. CASE run[r].background /\ HoldToken(run[r]) /\ OnResult(r, run[r], TRUE)
  <2>1. token' = [token EXCEPT ![x] = TokenOf(run[r])] BY <1>2, <1>5 DEF HoldToken
  <2>2. TokenMoves(x) BY <1>1, <1>2, <1>3, <2>1, TokenOfInv
  <2>3. ~Stores(run[r], TRUE) BY <1>1 DEF Stores
  <2> QED BY <1>1, <1>2, <1>3, <1>5, <2>2, <2>3, OnResultInv
<1> QED BY <1>2, <1>4, <1>5 DEF End

LEMMA ReturnAllInv == ASSUME AgentInv, NEW r \in AgentRuns, ReturnAll(r) PROVE AgentInv'
<1>1. run[r].pc = "open" /\ ~run[r].stream /\ file' = file BY DEF ReturnAll
<1>2. PICK x : x = run[r].x OBVIOUS
<1>3. HasReceived(r, run[r]) BY <1>1, OpenHasReceived
<1>4. PICK n, hold, s :
        /\ n \in run[r].next - 1 .. Chunks /\ hold \in BOOLEAN
        /\ s = [run[r] EXCEPT !.next = n + 1,
                              !.updates = @ \o [i \in 1 .. n + 1 - run[r].next |-> run[r].next + i - 1]]
        /\ token' = [token EXCEPT ![s.x] = IF hold THEN TokenOf(s) ELSE NoToken]
        /\ OnResult(r, s, hold)
  BY DEF ReturnAll
<1>5. /\ run[r].next \in Nat /\ run[r].updates \in Seq(Nat) /\ Clean(x, run[r].updates, run[r].next)
      /\ DOMAIN run[r] = RunFields
  BY <1>2, <1>3 DEF HasReceived
<1>6. PICK k \in Nat : n + 1 = run[r].next + k /\ k = n + 1 - run[r].next BY <1>4, <1>5, AgentRunAssumption
<1>7. PICK more : more = [i \in 1 .. k |-> run[r].next + i - 1] OBVIOUS
<1>8. more \in Seq(Nat) /\ Len(more) = k /\ \A i \in 1 .. k : more[i] = run[r].next + i - 1
  <2>1. \A i \in 1 .. k : run[r].next + i - 1 \in Nat BY <1>5
  <2> QED BY <1>7, <2>1
<1>9. PICK all : all = run[r].updates \o more OBVIOUS
<1>10. all \in Seq(Nat) /\ Clean(x, all, n + 1) BY <1>5, <1>6, <1>8, <1>9, MoreIsClean DEF AgentInv
<1>11. s = [run[r] EXCEPT !.next = n + 1, !.updates = all] BY <1>4, <1>6, <1>7, <1>9
<1>12. n + 1 \in Nat BY <1>5, <1>6
<1>13. HasReceived(r, s) BY <1>2, <1>3, <1>5, <1>10, <1>11, <1>12 DEF HasReceived, RunFields
<1>14. PICK t \in {TokenOf(s), NoToken} : token' = [token EXCEPT ![x] = t]
  BY <1>2, <1>4, <1>13 DEF HasReceived
<1>15. TokenMoves(x) /\ token'[x] = t BY <1>1, <1>2, <1>13, <1>14, TokenOfInv
<1>16. ~t.input /\ (t.held => t.updates = <<>> /\ Below(s.updates, t.next))
  <2>1. ~s.stream /\ Below(s.updates, s.next) BY <1>1, <1>13 DEF HasReceived, Clean
  <2>2. ~NoToken.input /\ ~NoToken.held BY DEF NoToken
  <2>3. ~TokenOf(s).input /\ TokenOf(s).updates = <<>> /\ TokenOf(s).next = s.next BY <2>1 DEF TokenOf
  <2> QED BY <2>1, <2>2, <2>3
<1> QED BY <1>1, <1>2, <1>4, <1>13, <1>15, <1>16, OnResultInv

LEMMA BreakInv == ASSUME AgentInv, NEW r \in AgentRuns, Break(r) PROVE AgentInv'
<1>1. run[r].pc = "open" /\ run[r].stream /\ file' = file /\ token' = token BY DEF Break
<1>2. PICK x : x = run[r].x OBVIOUS
<1>3. HasReceived(r, run[r]) BY <1>1, OpenHasReceived
<1>4. x \in AgentRuns BY <1>1, <1>2 DEF AgentInv, BegunInv, Begun
<1>5. TokenMoves(x) BY <1>1, <1>4, TokenStays DEF TokenMoves
<1>6. Stores(run[r], token[x].held) => ~token[x].held BY <1>1 DEF Stores
<1>7. ~token[x].held => ~token[x].input BY <1>4 DEF AgentInv, TokenInv
<1>8. OnResult(r, run[r], token[x].held) BY <1>2 DEF Break
<1> QED BY <1>1, <1>2, <1>3, <1>5, <1>6, <1>7, <1>8, OnResultInv

-----------------------------------------------------------------------------
(* The caller is answered.                                                 *)
LEMMA ToldAgain ==
  ASSUME AgentInv, NEW r \in AgentRuns, run[r].pc \in {"stored", "over"}, NEW now, Become(r, now),
         DOMAIN now = RunFields, now.pc = "over", now.x = run[r].x, now.updates \in Seq(Nat), now.next \in Nat,
         now.notified = run[r].notified, now.later = run[r].later, now.span \in {"none", "ended"}, now.result \in {"ok", "error"},
         now.told \subseteq {now.result}, now.kept => run[r].kept, run[r].pc = "over" => now.result = run[r].result,
         run[r].pc = "over" => now.span = run[r].span,
         file' = file, queue' = queue, token' = token
  PROVE  AgentInv'
<1>1. Alters(r) /\ run'[r] = now BY Alteration DEF AgentInv
<1>2. PICK x : x = run[r].x OBVIOUS
<1>3. x \in AgentRuns /\ Begun(x) BY <1>2 DEF AgentInv, BegunInv, Begun
<1>4. ToldInv(r)' BY <1>1 DEF AgentInv, ToldInv
<1>5. PendingInv(r)' BY <1>1 DEF PendingInv
<1>6. Replied(x)' = Replied(x) BY DEF Replied
<1>7. AnsweredInv(r)'
  <2>1. now.kept /\ now.result = "ok" => Replied(x) # {}
    BY <1>2 DEF AgentInv, AnsweredInv, ToldInv
  <2> QED BY <1>1, <1>2, <1>6, <2>1 DEF AnsweredInv
<1>8. QueueMoves(r) /\ \A y \in AgentRuns : ~AnswersOf(r, y) BY <1>1, QueueStays DEF AnswersOf
<1>9. run'[x].pc # "idle" BY <1>1, <1>3 DEF Begun, Alters
<1>10. AgentMoves(r, x) BY <1>1, <1>2, <1>3, <1>4, <1>5, <1>7, <1>8, <1>9, TokenStays DEF AgentMoves
<1> QED BY <1>10, AgentMovesInv

LEMMA DeliverInv == ASSUME AgentInv, NEW r \in AgentRuns, Deliver(r) PROVE AgentInv'
<1>1. run[r].pc = "stored" /\ file' = file /\ queue' = queue /\ token' = token BY DEF Deliver
<1>2. PICK result \in {"ok", "error"} : Become(r, [LeftOver(run[r]) EXCEPT !.result = result, !.told = @ \cup {result}])
  BY DEF Deliver
<1>3. PICK left : left = LeftOver(run[r]) OBVIOUS
<1>4. run[r].span = "open" /\ run[r].told = {} /\ run[r].notified = 1 BY <1>1 DEF AgentInv, ToldInv
<1>5. /\ DOMAIN left = RunFields /\ left.pc = "over" /\ left.x = run[r].x /\ left.kept = run[r].kept
      /\ left.notified = run[r].notified /\ left.later = run[r].later /\ left.told = {} /\ left.span = "ended"
      /\ left.updates \in Seq(Nat) /\ left.next \in Nat
  BY <1>3, <1>4, FreshFields DEF LeftOver, RunFields
<1>6. PICK now : now = [left EXCEPT !.result = result, !.told = @ \cup {result}] OBVIOUS
<1>7. Become(r, now) BY <1>2, <1>3, <1>6
<1>8. /\ DOMAIN now = RunFields /\ now.pc = "over" /\ now.x = run[r].x /\ (now.kept => run[r].kept)
      /\ now.notified = run[r].notified /\ now.later = run[r].later /\ now.result = result /\ now.told = {result}
      /\ now.span = "ended" /\ now.updates \in Seq(Nat) /\ now.next \in Nat
  BY <1>5, <1>6 DEF RunFields
<1> QED BY <1>1, <1>7, <1>8, ToldAgain

LEMMA FinalResponseInv == ASSUME AgentInv, NEW r \in AgentRuns, FinalResponse(r) PROVE AgentInv'
<1>1. run[r].pc = "over" /\ file' = file /\ queue' = queue /\ token' = token BY DEF FinalResponse
<1>2. PICK now : Become(r, now) /\ now = [run[r] EXCEPT !.told = @ \cup {run[r].result}] BY DEF FinalResponse
<1>3. DOMAIN run[r] = RunFields /\ run[r].updates \in Seq(Nat) /\ run[r].next \in Nat BY DEF AgentInv, AgentTypeInv
<1>4. run[r].told \subseteq {run[r].result} /\ run[r].result \in {"ok", "error"} /\ run[r].span \in {"none", "ended"}
  BY <1>1 DEF AgentInv, ToldInv
<1>5. /\ DOMAIN now = RunFields /\ now.pc = "over" /\ now.x = run[r].x /\ (now.kept => run[r].kept)
      /\ now.notified = run[r].notified /\ now.later = run[r].later
      /\ now.result = run[r].result /\ now.told = {now.result}
      /\ now.span = run[r].span /\ now.updates \in Seq(Nat) /\ now.next \in Nat
  BY <1>1, <1>2, <1>3, <1>4 DEF RunFields
<1> QED BY <1>1, <1>2, <1>4, <1>5, ToldAgain

-----------------------------------------------------------------------------
(* The lines of an exchange.                                               *)
LEMMA LinesAre ==
  ASSUME NEW s
  PROVE  /\ s.input /\ s.updates # <<>> =>
              LinesOf(s) = <<Line(s.x, "in", s.updates), Line(s.x, "out", s.updates)>>
         /\ s.input /\ s.updates = <<>> => LinesOf(s) = <<Line(s.x, "in", s.updates)>>
         /\ ~s.input /\ s.updates # <<>> => LinesOf(s) = <<Line(s.x, "out", s.updates)>>
         /\ ~s.input /\ s.updates = <<>> => LinesOf(s) = <<>>
<1>1. PICK a, b : a = Line(s.x, "in", s.updates) /\ b = Line(s.x, "out", s.updates) OBVIOUS
<1>2. <<a>> \o <<b>> = <<a, b>>
  <2>1. <<a>> \in Seq({a, b}) /\ b \in {a, b} OBVIOUS
  <2>2. Append(<<a>>, b) = <<a>> \o <<b>> BY <2>1, AppendIsConcat
  <2>3. PICK c : c = Append(<<a>>, b) OBVIOUS
  <2>4. c \in Seq({a, b}) /\ Len(c) = 2 /\ c[1] = a /\ c[2] = b BY <2>1, <2>3, AppendProperties
  <2>5. PICK d : d = <<a, b>> OBVIOUS
  <2>6. d \in Seq({a, b}) /\ Len(d) = 2 /\ d[1] = a /\ d[2] = b BY <2>5
  <2>7. \A i \in 1 .. 2 : i = 1 \/ i = 2 OBVIOUS
  <2>8. \A i \in 1 .. 2 : c[i] = d[i] BY <2>4, <2>6, <2>7
  <2>9. c = d BY <2>4, <2>6, <2>8, SeqEqual
  <2> QED BY <2>2, <2>3, <2>5, <2>9
<1>3. <<>> \o <<b>> = <<b>> /\ <<a>> \o <<>> = <<a>> /\ <<>> \o <<>> = <<>> OBVIOUS
<1> QED BY <1>1, <1>2, <1>3 DEF LinesOf

(* A line is added to the file.                                            *)
LEMMA LineAdded ==
  ASSUME AgentTypeInv, NEW line \in Lines, file' = Append(file, line)
  PROVE  /\ file' \in Seq(Lines) /\ Len(file) \in Nat /\ Len(file') = Len(file) + 1
         /\ DOMAIN file = 1 .. Len(file) /\ DOMAIN file' = 1 .. Len(file) + 1
         /\ \A i \in DOMAIN file : i \in DOMAIN file' /\ file'[i] = file[i] /\ i <= Len(file)
         /\ \A i \in DOMAIN file' : i \in DOMAIN file \/ i = Len(file) + 1
         /\ file'[Len(file) + 1] = line
         /\ \A y : Asked(y)' = Asked(y) \cup (IF line.x = y /\ line.part = "in" THEN {Len(file) + 1} ELSE {})
         /\ \A y : Replied(y)' = Replied(y) \cup (IF line.x = y /\ line.part = "out" THEN {Len(file) + 1} ELSE {})
<1>1. file \in Seq(Lines) BY DEF AgentTypeInv
<1>2. /\ file' \in Seq(Lines) /\ Len(file) \in Nat /\ Len(file') = Len(file) + 1
      /\ file'[Len(file) + 1] = line /\ \A i \in 1 .. Len(file) : file'[i] = file[i]
  BY <1>1, AppendProperties
<1>3. DOMAIN file = 1 .. Len(file) /\ DOMAIN file' = 1 .. Len(file) + 1 BY <1>1, <1>2
<1>4. /\ \A i \in DOMAIN file : i \in DOMAIN file' /\ file'[i] = file[i] /\ i <= Len(file)
      /\ \A i \in DOMAIN file' : i \in DOMAIN file \/ i = Len(file) + 1
      /\ Len(file) + 1 \in DOMAIN file'
  BY <1>2, <1>3
<1>5. \A y : Asked(y)' = Asked(y) \cup (IF line.x = y /\ line.part = "in" THEN {Len(file) + 1} ELSE {})
  BY <1>2, <1>4 DEF Asked
<1>6. \A y : Replied(y)' = Replied(y) \cup (IF line.x = y /\ line.part = "out" THEN {Len(file) + 1} ELSE {})
  BY <1>2, <1>4 DEF Replied
<1> QED BY <1>2, <1>3, <1>4, <1>5, <1>6

(* A run adds a line of its exchange x.                                    *)
Adds(r, x, line) ==
  /\ file' = Append(file, line) /\ line \in Lines /\ line.x = x /\ line.part \in {"in", "out"}
  /\ run[r].x = x /\ run[r].pc = "storing" /\ queue # <<>> /\ queue[1] = r
  /\ Alters(r) /\ token' = token /\ queue' \in Seq(AgentRuns) /\ OrderInv'
  /\ DOMAIN run'[r] = RunFields /\ run'[r].updates \in Seq(Nat) /\ run'[r].next \in Nat
  /\ run'[r].pc \in {"storing", "stored"} /\ run'[r].x = x
  /\ ToldInv(r)' /\ PendingInv(r)' /\ AnsweredInv(r)' /\ TokenInv(x)' /\ FileInv(x)'

LEMMA AddsInv == ASSUME AgentInv, NEW r \in AgentRuns, NEW x, NEW line, Adds(r, x, line) PROVE AgentInv'
<1>1. /\ AgentTypeInv /\ \A q \in AgentRuns : q # r => run'[q] = run[q]
      /\ line \in Lines /\ file' = Append(file, line) /\ line.x = x
  BY DEF AgentInv, Adds, Alters
<1>2. x \in AgentRuns /\ Begun(x) /\ Only(r, x) BY DEF AgentInv, BegunInv, Begun, Active, Only, Adds
<1>3. /\ file' \in Seq(Lines) /\ Len(file) \in Nat /\ Len(file') = Len(file) + 1
      /\ \A i \in DOMAIN file : i \in DOMAIN file' /\ file'[i] = file[i] /\ i <= Len(file)
      /\ \A i \in DOMAIN file' : i \in DOMAIN file \/ i = Len(file) + 1
      /\ file'[Len(file) + 1] = line
      /\ \A y : y # x => Asked(y)' = Asked(y) /\ Replied(y)' = Replied(y)
      /\ \A y : Asked(y) \subseteq Asked(y)' /\ Replied(y) \subseteq Replied(y)'
  <2>1. AgentTypeInv /\ line \in Lines /\ file' = Append(file, line) /\ line.x = x BY <1>1
  <2> QED BY <2>1, LineAdded
<1>4. \A y : CutShort(y) => CutShort(y)' BY <1>1 DEF CutShort, Adds
<1>5. AgentTypeInv' BY <1>1, <1>3 DEF AgentTypeInv, Adds, Alters
<1>6. BegunInv'
  <2>1. \A y : Begun(y) => Begun(y)' BY <1>1 DEF Begun, Adds
  <2>2. ASSUME NEW q \in AgentRuns, run'[q].pc # "idle" PROVE run'[q].x \in AgentRuns /\ run'[run'[q].x].pc # "idle"
    <3>1. PICK y : y = run[q].x OBVIOUS
    <3>2. run'[q].x = y /\ Begun(y) BY <1>1, <1>2, <2>2, <3>1 DEF AgentInv, BegunInv, Adds
    <3>3. Begun(y)' BY <2>1, <3>2
    <3> QED BY <3>2, <3>3 DEF Begun
  <2>3. \A y \in AgentRuns : token'[y].held => y \in AgentRuns /\ run'[y].pc # "idle"
    BY <2>1 DEF AgentInv, BegunInv, Begun, Adds
  <2>4. ASSUME NEW i \in DOMAIN file', file'[i].part \in {"in", "out"}
        PROVE  file'[i].x \in AgentRuns /\ run'[file'[i].x].pc # "idle"
    <3>1. PICK y : y = file'[i].x OBVIOUS
    <3>2. Begun(y) BY <1>1, <1>2, <1>3, <2>4, <3>1 DEF AgentInv, BegunInv
    <3>3. Begun(y)' BY <2>1, <3>2
    <3> QED BY <3>1, <3>3 DEF Begun
  <2>5. ASSUME NEW p \in AgentRuns, NEW q \in AgentRuns, Active(p)', Active(q)', run'[p].x = run'[q].x PROVE p = q
    BY <1>1, <2>5 DEF AgentInv, BegunInv, Active, Adds
  <2> QED BY <2>2, <2>3, <2>4, <2>5 DEF BegunInv, Begun
<1>7. ASSUME NEW q \in AgentRuns, q # r PROVE ToldInv(q)' /\ PendingInv(q)' /\ AnsweredInv(q)'
  <2>1. run'[q] = run[q] BY <1>1, <1>7
  <2>2. ToldInv(q)' BY <2>1 DEF AgentInv, ToldInv
  <2>3. AnsweredInv(q)'
    <3>1. AnsweredInv(q) BY DEF AgentInv
    <3>2. \A y : Replied(y) # {} => Replied(y)' # {} BY <1>3
    <3> QED BY <1>4, <2>1, <3>1, <3>2 DEF AnsweredInv, Has, HasAnswered
  <2>4. PendingInv(q)'
    <3>1. CASE ~Active(q) BY <2>1, <3>1 DEF PendingInv, Active
    <3>2. CASE Active(q)
      <4>1. PICK y : y = run[q].x OBVIOUS
      <4>2. y # x /\ PendingInv(q) BY <1>2, <1>7, <3>2, <4>1 DEF Only, AgentInv
      <4>3. \A i \in Replied(y) : file'[i] = file[i] BY <1>3 DEF Replied
      <4>4. ASSUME NEW updates, NEW next
            PROVE  (Clean(y, updates, next) => Clean(y, updates, next)') /\ (Unwritten(y, updates) => Unwritten(y, updates)')
        BY <1>3, <4>2, <4>3 DEF Clean, Unwritten, Below
      <4>5. Asked(y)' = Asked(y) /\ token' = token BY <1>3, <4>2 DEF Adds
      <4> QED BY <2>1, <4>1, <4>2, <4>4, <4>5 DEF PendingInv, OutLine, LinesOf, Below
    <3> QED BY <3>1, <3>2
  <2> QED BY <2>2, <2>3, <2>4
<1>8. ASSUME NEW y \in AgentRuns PROVE TokenInv(y)'
  <2>1. CASE y = x BY <2>1 DEF Adds
  <2>2. CASE y # x
    <3>1. \A i \in Replied(y) : file'[i] = file[i] BY <1>3 DEF Replied
    <3>2. token' = token BY DEF Adds
    <3> QED BY <1>3, <2>2, <3>1, <3>2 DEF AgentInv, TokenInv, Clean, Unwritten, Below
  <2> QED BY <2>1, <2>2
<1>9. ASSUME NEW y \in AgentRuns PROVE FileInv(y)'
  <2>1. CASE y = x BY <2>1 DEF Adds
  <2>2. CASE y # x
    <3>1. Asked(y)' = Asked(y) /\ Replied(y)' = Replied(y) /\ FileInv(y) BY <1>3, <2>2 DEF AgentInv
    <3>2. \A i \in Replied(y) : file'[i] = file[i] BY <1>3 DEF Replied
    <3>3. ASSUME ~CutShort(y)', NEW i \in Asked(y), file[i].chunks # <<>> PROVE i < Len(file) /\ i + 1 \in Replied(y)
      <4>1. i <= Len(file) /\ i \in Nat BY <1>1, <1>3 DEF Asked, AgentTypeInv
      <4>2. ~CutShort(y) BY <1>4, <3>3
      <4>3. i # Len(file)
        <5>1. \A q \in AgentRuns : ~AnswersOf(q, y) BY <2>2 DEF AnswersOf, Adds
        <5> QED BY <3>1, <3>3, <4>2, <5>1 DEF FileInv
      <4>4. i < Len(file) BY <1>3, <4>1, <4>3
      <4> QED BY <3>1, <3>3, <4>2, <4>4 DEF FileInv
    <3>4. ASSUME NEW i \in Asked(y), i < Len(file) PROVE i < Len(file') /\ i # Len(file')
      BY <1>3, <3>4 DEF Asked
    <3>5. \A i \in Asked(y) : file'[i] = file[i] BY <1>3 DEF Asked
    <3> QED BY <3>1, <3>2, <3>3, <3>4, <3>5 DEF FileInv
  <2> QED BY <2>1, <2>2
<1>10. OrderInv' /\ ToldInv(r)' /\ PendingInv(r)' /\ AnsweredInv(r)' BY DEF Adds
<1> QED BY <1>5, <1>6, <1>7, <1>8, <1>9, <1>10 DEF AgentInv

(* What an appended line leaves of a run.                                  *)
LineWritten(r) ==
  [run[r] EXCEPT !.lines = Tail(run[r].lines), !.pc = IF Tail(run[r].lines) = <<>> THEN "stored" ELSE @,
                 !.later = IF Tail(run[r].lines) = <<>> THEN @ + 1 ELSE @]

LEMMA AppendLineInv == ASSUME AgentInv, NEW r \in AgentRuns, AppendLine(r) PROVE AgentInv'
<1>1. /\ run[r].pc = "storing" /\ queue # <<>> /\ queue[1] = r /\ token' = token
      /\ \/ /\ file' = Append(file, run[r].lines[1])
            /\ Become(r, LineWritten(r))
            /\ queue' = IF Tail(run[r].lines) = <<>> THEN Tail(queue) ELSE queue
         \/ run[r].lines = LinesOf(run[r]) /\ Become(r, Failed(run[r])) /\ queue' = Tail(queue) /\ file' = file
  BY DEF AppendLine, LineWritten
<1>2. PICK x : x = run[r].x OBVIOUS
<1>3. /\ x \in AgentRuns /\ Begun(x) /\ Active(r) /\ DOMAIN run[r] = RunFields /\ ToldInv(r) /\ FileInv(x) /\ TokenInv(x)
      /\ run[r].updates \in Seq(Nat) /\ run[r].next \in Nat
  BY <1>1, <1>2 DEF AgentInv, AgentTypeInv, BegunInv, Begun, Active
<1>4. PICK in, out : in = Line(x, "in", run[r].updates) /\ out = Line(x, "out", run[r].updates) OBVIOUS
<1>5. /\ Unwritten(x, run[r].updates) /\ ~token[x].input /\ (run[r].kept => run[r].updates # <<>>)
      /\ token[x].held => token[x].updates = <<>> /\ Below(run[r].updates, token[x].next)
      /\ \/ run[r].lines = LinesOf(run[r]) /\ run[r].lines # <<>> /\ (run[r].input => Asked(x) = {})
         \/ run[r].lines = <<out>>
  BY <1>1, <1>2, <1>4 DEF AgentInv, PendingInv, OutLine
<1>6. /\ run[r].input /\ run[r].updates # <<>> => LinesOf(run[r]) = <<in, out>>
      /\ run[r].input /\ run[r].updates = <<>> => LinesOf(run[r]) = <<in>>
      /\ ~run[r].input => LinesOf(run[r]) = <<out>> \/ LinesOf(run[r]) = <<>>
  BY <1>2, <1>4, LinesAre
<1>7. /\ in \in Lines /\ in.x = x /\ in.part = "in" /\ in.chunks = run[r].updates
      /\ out \in Lines /\ out.x = x /\ out.part = "out" /\ out.chunks = run[r].updates
  BY <1>3, <1>4 DEF Line, Lines
<1>8. AgentTypeInv /\ run[r].later = 0 BY <1>1, <1>3 DEF AgentInv, ToldInv
<1>9. CASE run[r].lines = LinesOf(run[r]) /\ Become(r, Failed(run[r])) /\ queue' = Tail(queue) /\ file' = file
  <2>1. Alters(r) BY <1>8, <1>9, Alteration
  <2>2. QueueMoves(r) BY <1>1, <1>9, <2>1, QueueShrinks
  <2>3. \A y \in AgentRuns : ~AnswersOf(r, y)
    <3>1. <<in, out>> # <<out>> /\ <<in>> # <<out>> BY <1>7
    <3> QED BY <1>2, <1>4, <1>6, <1>9, <3>1 DEF AnswersOf, OutLine
  <2>4. run[r].notified \in {0, 1} /\ run[r].span \in {"none", "open"} BY <1>1, <1>3 DEF ToldInv
  <2> QED BY <1>1, <1>2, <1>3, <1>9, <2>2, <2>3, <2>4, TokenStays, FailedInv
<1>10. CASE run[r].lines = <<in, out>> /\ run[r].input /\ Asked(x) = {} /\ file' = Append(file, in)
            /\ Become(r, LineWritten(r))
            /\ queue' = IF Tail(run[r].lines) = <<>> THEN Tail(queue) ELSE queue
  <2>1. Tail(run[r].lines) = <<out>> /\ <<out>> # <<>> BY <1>10
  <2>2. PICK now : Become(r, now) /\ now = [run[r] EXCEPT !.lines = <<out>>] /\ queue' = queue
    <3>1. PICK now : Become(r, now) /\ now = [run[r] EXCEPT !.lines = <<out>>, !.pc = run[r].pc, !.later = run[r].later]
      BY <1>10, <2>1 DEF LineWritten
    <3>2. now = [run[r] EXCEPT !.lines = <<out>>] BY <1>3, <3>1 DEF RunFields
    <3> QED BY <1>10, <2>1, <3>1, <3>2
  <2>3. Alters(r) /\ run'[r] = now BY <1>8, <2>2, Alteration
  <2>4. /\ DOMAIN now = RunFields /\ now.lines = <<out>> /\ now.pc = "storing" /\ now.x = x /\ now.input = run[r].input
        /\ now.later = 0 /\ now.updates = run[r].updates /\ now.next = run[r].next /\ now.kept = run[r].kept
        /\ now.notified = run[r].notified /\ now.span = run[r].span /\ now.result = run[r].result /\ now.told = run[r].told
    BY <1>1, <1>2, <1>3, <1>8, <2>2 DEF RunFields
  <2>5. /\ Len(file) \in Nat /\ Len(file') = Len(file) + 1 /\ \A i \in DOMAIN file : file'[i] = file[i]
        /\ \A y : Replied(y)' = Replied(y) \cup (IF in.x = y /\ in.part = "out" THEN {Len(file) + 1} ELSE {})
        /\ \A y : Asked(y)' = Asked(y) \cup (IF in.x = y /\ in.part = "in" THEN {Len(file) + 1} ELSE {})
    BY <1>7, <1>8, <1>10, LineAdded
  <2>6. Asked(x)' = {Len(file) + 1} /\ Replied(x)' = Replied(x) /\ \A i \in Replied(x) : file'[i] = file[i]
    BY <1>7, <1>10, <2>5 DEF Replied
  <2>7. ToldInv(r)' BY <1>1, <1>3, <2>3, <2>4 DEF ToldInv
  <2>8. PendingInv(r)'
    <3>1. Unwritten(x, run[r].updates)' BY <1>5, <2>3, <2>4, <2>6 DEF Unwritten
    <3>2. now.lines = <<Line(x, "out", now.updates)>> BY <1>4, <2>4
    <3>3. run'[r].kept => run'[r].updates # <<>> BY <1>5, <2>3, <2>4
    <3> QED BY <1>1, <1>5, <2>3, <2>4, <3>1, <3>2, <3>3 DEF PendingInv, OutLine, Unwritten, Below
  <2>9. AnsweredInv(r)' BY <2>3, <2>4 DEF AnsweredInv
  <2>10. TokenInv(x)' BY <1>1, <1>3, <1>5, <2>6 DEF TokenInv, Clean, Unwritten, Below
  <2>11. FileInv(x)'
    <3>1. AnswersOf(r, x)' BY <1>1, <1>4, <1>10, <2>2, <2>3, <2>4 DEF AnswersOf, OutLine
    <3>2. \A i \in Asked(x)' : i = Len(file') /\ ~(i < Len(file')) BY <2>5, <2>6
    <3> QED BY <1>3, <2>6, <3>1, <3>2 DEF FileInv
  <2>12. queue' \in Seq(AgentRuns) /\ OrderInv'
    <3>1. \A i \in 1 .. Len(queue) : queue[i] \in AgentRuns BY <1>8 DEF AgentTypeInv
    <3> QED BY <1>8, <2>2, <2>3, <2>4, <3>1 DEF AgentTypeInv, AgentInv, OrderInv, Alters
  <2>13. Adds(r, x, in)
    BY <1>1, <1>2, <1>3, <1>7, <1>10, <2>3, <2>4, <2>7, <2>8, <2>9, <2>10, <2>11, <2>12 DEF Adds
  <2> QED BY <2>13, AddsInv
<1>11. CASE run[r].lines = <<out>> /\ file' = Append(file, out)
            /\ Become(r, LineWritten(r))
            /\ queue' = IF Tail(run[r].lines) = <<>> THEN Tail(queue) ELSE queue
  <2>1. Tail(run[r].lines) = <<>> BY <1>11
  <2>2. PICK now : /\ Become(r, now) /\ queue' = Tail(queue)
                   /\ now = [run[r] EXCEPT !.lines = <<>>, !.pc = "stored", !.later = @ + 1]
    BY <1>11, <2>1 DEF LineWritten
  <2>3. Alters(r) /\ run'[r] = now BY <1>8, <2>2, Alteration
  <2>4. /\ DOMAIN now = RunFields /\ now.pc = "stored" /\ now.x = x /\ now.input = run[r].input
        /\ now.later = 1 /\ now.updates = run[r].updates /\ now.next = run[r].next /\ now.kept = run[r].kept
        /\ now.notified = run[r].notified /\ now.span = run[r].span /\ now.result = run[r].result /\ now.told = run[r].told
    BY <1>1, <1>2, <1>3, <1>8, <2>2 DEF RunFields
  <2>5. /\ Len(file) \in Nat /\ Len(file') = Len(file) + 1 /\ file'[Len(file) + 1] = out
        /\ \A i \in DOMAIN file : file'[i] = file[i] /\ i <= Len(file)
        /\ DOMAIN file = 1 .. Len(file)
        /\ \A y : Replied(y)' = Replied(y) \cup (IF out.x = y /\ out.part = "out" THEN {Len(file) + 1} ELSE {})
        /\ \A y : Asked(y)' = Asked(y) \cup (IF out.x = y /\ out.part = "in" THEN {Len(file) + 1} ELSE {})
    BY <1>7, <1>8, <1>11, LineAdded
  <2>6. /\ Asked(x)' = Asked(x) /\ Replied(x)' = Replied(x) \cup {Len(file) + 1}
        /\ \A i \in Replied(x) : file'[i] = file[i] /\ i # Len(file) + 1
        /\ \A i \in Asked(x) : i \in Nat /\ i <= Len(file)
    BY <1>7, <2>5 DEF Replied, Asked
  <2>7. ToldInv(r)' BY <1>1, <1>3, <2>3, <2>4 DEF ToldInv
  <2>8. PendingInv(r)' BY <2>3, <2>4 DEF PendingInv
  <2>9. AnsweredInv(r)' BY <2>3, <2>4, <2>6 DEF AnsweredInv
  <2>10. TokenInv(x)'
    <3>1. ASSUME token[x].held PROVE Clean(x, <<>>, token[x].next)'
      <4>1. Clean(x, token[x].updates, token[x].next) /\ Below(run[r].updates, token[x].next) /\ token' = token
        BY <1>1, <1>3, <1>5, <3>1 DEF TokenInv
      <4>2. \A i \in Replied(x)' : Below(file'[i].chunks, token[x].next)
        BY <1>7, <2>5, <2>6, <4>1 DEF Clean, Below
      <4> QED BY <4>1, <4>2 DEF Clean, Unwritten, Below
    <3>2. token'[x] = token[x] BY <1>1
    <3> QED BY <1>3, <1>5, <2>6, <3>1, <3>2 DEF TokenInv, Clean, Unwritten, Below
  <2>11. FileInv(x)'
    <3>1. \A i, j \in Asked(x)' : i = j BY <1>3, <2>6 DEF FileInv
    <3>2. ASSUME NEW i \in Replied(x)', NEW j \in Replied(x)', NEW c \in DOMAIN file'[i].chunks, NEW d \in DOMAIN file'[j].chunks,
                 file'[i].chunks[c] = file'[j].chunks[d], Replay = "rest"
          PROVE  i = j /\ c = d
      <4>1. CASE i \in Replied(x) /\ j \in Replied(x) BY <1>3, <2>6, <3>2, <4>1 DEF FileInv
      <4>2. CASE i = Len(file) + 1 /\ j = Len(file) + 1
        <5>1. file'[i].chunks = run[r].updates /\ file'[j].chunks = run[r].updates BY <1>7, <2>5, <4>2
        <5> QED BY <1>5, <3>2, <4>2, <5>1 DEF Unwritten
      <4>3. CASE i \in Replied(x) /\ j = Len(file) + 1
        <5>1. file'[i] = file[i] /\ file'[j].chunks = run[r].updates BY <1>7, <2>5, <2>6, <4>3
        <5> QED BY <1>5, <3>2, <4>3, <5>1 DEF Unwritten
      <4>4. CASE i = Len(file) + 1 /\ j \in Replied(x)
        <5>1. file'[j] = file[j] /\ file'[i].chunks = run[r].updates BY <1>7, <2>5, <2>6, <4>4
        <5> QED BY <1>5, <3>2, <4>4, <5>1 DEF Unwritten
      <4> QED BY <2>6, <4>1, <4>2, <4>3, <4>4
    <3>3. ASSUME ~CutShort(x)', NEW i \in Asked(x)', file'[i].chunks # <<>>
          PROVE  i + 1 \in Replied(x)' /\ i # Len(file')
      <4>1. ~CutShort(x) BY <1>1, <2>3, <3>3 DEF CutShort, Alters
      <4>2. i \in Asked(x) /\ i \in Nat /\ i <= Len(file) /\ file[i].chunks # <<>>
        BY <2>5, <2>6, <3>3 DEF Asked
      <4>3. i < Len(file) => i + 1 \in Replied(x) BY <1>3, <4>1, <4>2 DEF FileInv
      <4>4. (i < Len(file) \/ i = Len(file)) /\ i # Len(file) + 1
        <5>1. PICK old \in Nat : old = Len(file) BY <2>5
        <5>2. PICK k \in Nat : k = i /\ k <= old BY <4>2, <5>1
        <5>3. (k < old \/ k = old) /\ k # old + 1 BY <5>2
        <5> QED BY <5>1, <5>2, <5>3
      <4>5. Len(file) + 1 \in Replied(x)' /\ Replied(x) \subseteq Replied(x)' BY <2>6
      <4>6. i + 1 \in Replied(x)'
        <5>1. CASE i < Len(file) BY <4>3, <4>5, <5>1
        <5>2. CASE i = Len(file) BY <4>5, <5>2
        <5> QED BY <4>4, <5>1, <5>2
      <4>7. i # Len(file') BY <2>5, <4>4
      <4> QED BY <4>6, <4>7
    <3> QED BY <3>1, <3>2, <3>3 DEF FileInv
  <2>12. queue' \in Seq(AgentRuns) /\ OrderInv' BY <1>1, <2>2, <2>3, QueueShrinks DEF QueueMoves
  <2>13. Adds(r, x, out)
    BY <1>1, <1>2, <1>3, <1>7, <1>11, <2>3, <2>4, <2>7, <2>8, <2>9, <2>10, <2>11, <2>12 DEF Adds
  <2> QED BY <2>13, AddsInv
<1>12. CASE run[r].lines = <<in>> /\ run[r].updates = <<>> /\ Asked(x) = {} /\ file' = Append(file, in)
            /\ Become(r, LineWritten(r))
            /\ queue' = IF Tail(run[r].lines) = <<>> THEN Tail(queue) ELSE queue
  <2>1. Tail(run[r].lines) = <<>> BY <1>12
  <2>2. PICK now : /\ Become(r, now) /\ queue' = Tail(queue)
                   /\ now = [run[r] EXCEPT !.lines = <<>>, !.pc = "stored", !.later = @ + 1]
    BY <1>12, <2>1 DEF LineWritten
  <2>3. Alters(r) /\ run'[r] = now BY <1>8, <2>2, Alteration
  <2>4. /\ DOMAIN now = RunFields /\ now.pc = "stored" /\ now.x = x /\ ~now.kept
        /\ now.later = 1 /\ now.updates = run[r].updates /\ now.next = run[r].next
        /\ now.notified = run[r].notified /\ now.span = run[r].span /\ now.result = run[r].result /\ now.told = run[r].told
    BY <1>1, <1>2, <1>3, <1>5, <1>8, <1>12, <2>2 DEF RunFields
  <2>5. /\ Len(file) \in Nat /\ Len(file') = Len(file) + 1 /\ file'[Len(file) + 1] = in
        /\ \A i \in DOMAIN file : file'[i] = file[i]
        /\ \A y : Replied(y)' = Replied(y) \cup (IF in.x = y /\ in.part = "out" THEN {Len(file) + 1} ELSE {})
        /\ \A y : Asked(y)' = Asked(y) \cup (IF in.x = y /\ in.part = "in" THEN {Len(file) + 1} ELSE {})
    BY <1>7, <1>8, <1>12, LineAdded
  <2>6. Asked(x)' = {Len(file) + 1} /\ Replied(x)' = Replied(x) /\ \A i \in Replied(x) : file'[i] = file[i]
    BY <1>7, <1>12, <2>5 DEF Replied
  <2>7. ToldInv(r)' BY <1>1, <1>3, <2>3, <2>4 DEF ToldInv
  <2>8. PendingInv(r)' BY <2>3, <2>4 DEF PendingInv
  <2>9. AnsweredInv(r)' BY <2>3, <2>4 DEF AnsweredInv
  <2>10. TokenInv(x)' BY <1>1, <1>3, <1>5, <2>6 DEF TokenInv, Clean, Unwritten, Below
  <2>11. FileInv(x)'
    <3>1. \A i \in Asked(x)' : file'[i].chunks = <<>> BY <1>7, <1>12, <2>5, <2>6
    <3> QED BY <1>3, <2>6, <3>1 DEF FileInv
  <2>12. queue' \in Seq(AgentRuns) /\ OrderInv' BY <1>1, <2>2, <2>3, QueueShrinks DEF QueueMoves
  <2>13. Adds(r, x, in)
    BY <1>1, <1>2, <1>3, <1>7, <1>12, <2>3, <2>4, <2>7, <2>8, <2>9, <2>10, <2>11, <2>12 DEF Adds
  <2> QED BY <2>13, AddsInv
<1>13. <<in, out>>[1] = in /\ <<out>>[1] = out /\ <<in>>[1] = in OBVIOUS
<1> QED
  <2>1. CASE run[r].lines = <<out>> BY <1>1, <1>9, <1>11, <1>13, <2>1
  <2>2. CASE run[r].lines = <<in, out>> /\ run[r].input /\ Asked(x) = {} BY <1>1, <1>9, <1>10, <1>13, <2>2
  <2>3. CASE run[r].lines = <<in>> /\ run[r].updates = <<>> /\ Asked(x) = {} BY <1>1, <1>9, <1>12, <1>13, <2>3
  <2> QED BY <1>5, <1>6, <2>1, <2>2, <2>3

LEMMA CrashInv == ASSUME AgentInv, Crash PROVE AgentInv'
<1>1. /\ queue' = <<>> /\ token' = token /\ DOMAIN run' = AgentRuns
      /\ \A r \in AgentRuns : ~Active(r) => run'[r] = run[r]
      /\ \A r \in AgentRuns : Active(r) => run'[r] = [Fresh EXCEPT !.pc = "dead", !.x = run[r].x]
      /\ file' = file \/ file' = Append(file, Torn)
  BY DEF Crash
<1>2. ASSUME NEW r \in AgentRuns, Active(r)
      PROVE  /\ DOMAIN run'[r] = RunFields /\ run'[r].pc = "dead" /\ run'[r].x = run[r].x /\ run'[r].updates \in Seq(Nat)
             /\ run'[r].next \in Nat /\ run'[r].notified = 0 /\ run'[r].span = "none" /\ run'[r].result = "ok"
             /\ run'[r].later = 0 /\ run'[r].told = {} /\ ~run'[r].kept
  <2>1. PICK now : now = [Fresh EXCEPT !.pc = "dead", !.x = run[r].x] OBVIOUS
  <2>2. run'[r] = now BY <1>1, <1>2, <2>1
  <2>3. /\ DOMAIN now = RunFields /\ now.pc = "dead" /\ now.x = run[r].x /\ now.updates = Fresh.updates
        /\ now.next = 1 /\ now.notified = 0 /\ now.span = "none" /\ now.result = "ok"
        /\ now.later = 0 /\ now.told = {} /\ ~now.kept
    BY <2>1, FreshFields DEF RunFields
  <2>4. now.updates \in Seq(Nat) /\ now.next \in Nat BY <2>3, FreshFields
  <2> QED BY <2>2, <2>3, <2>4, Zenon
<1>3. AgentTypeInv BY DEF AgentInv
<1>4. /\ file' \in Seq(Lines) /\ \A y \in AgentRuns : Asked(y)' = Asked(y) /\ Replied(y)' = Replied(y)
      /\ \A i \in DOMAIN file : file'[i] = file[i]
      /\ \A i \in DOMAIN file' : file'[i].part \in {"in", "out"} => i \in DOMAIN file
      /\ Len(file') >= Len(file) /\ Len(file) \in Nat /\ Len(file') \in Nat /\ DOMAIN file = 1 .. Len(file)
  <2>1. CASE file' = file BY <1>3, <2>1 DEF AgentTypeInv, Asked, Replied
  <2>2. CASE file' = Append(file, Torn)
    <3>1. PICK line : line = Torn OBVIOUS
    <3>2. <<>> \in Seq(Nat) OBVIOUS
    <3>3. line \in Lines /\ line.part = "torn" BY <3>1, <3>2 DEF Torn, Line, Lines
    <3>4. file' = Append(file, line) BY <2>2, <3>1
    <3>5. /\ file' \in Seq(Lines) /\ Len(file) \in Nat /\ Len(file') = Len(file) + 1
          /\ DOMAIN file = 1 .. Len(file) /\ DOMAIN file' = 1 .. Len(file) + 1
          /\ \A i \in DOMAIN file : i \in DOMAIN file' /\ file'[i] = file[i] /\ i <= Len(file)
          /\ \A i \in DOMAIN file' : i \in DOMAIN file \/ i = Len(file) + 1
          /\ file'[Len(file) + 1] = line
          /\ \A y : Asked(y)' = Asked(y) \cup (IF line.x = y /\ line.part = "in" THEN {Len(file) + 1} ELSE {})
          /\ \A y : Replied(y)' = Replied(y) \cup (IF line.x = y /\ line.part = "out" THEN {Len(file) + 1} ELSE {})
      BY <1>3, <3>3, <3>4, LineAdded
    <3>6. \A y \in AgentRuns : Asked(y)' = Asked(y) /\ Replied(y)' = Replied(y) BY <3>3, <3>5
    <3> QED BY <3>3, <3>5, <3>6
  <2> QED BY <1>1, <2>1, <2>2
<1>5. \A r \in AgentRuns : run'[r].x = run[r].x /\ (run'[r].pc = "idle" <=> run[r].pc = "idle")
  BY <1>1, <1>2 DEF Active
<1>6. \A y : CutShort(y) => CutShort(y)' BY <1>1, <1>5 DEF CutShort, Active
<1>7. AgentTypeInv'
  <2>1. <<>> \in Seq(AgentRuns) OBVIOUS
  <2>2. queue' \in Seq(AgentRuns) BY <1>1, <2>1, Zenon
  <2> QED BY <1>1, <1>2, <1>3, <1>4, <2>2 DEF AgentTypeInv
<1>8. BegunInv'
  <2>1. \A y : Begun(y) => Begun(y)' BY <1>5 DEF Begun
  <2>2. ASSUME NEW q \in AgentRuns, run'[q].pc # "idle" PROVE run'[q].x \in AgentRuns /\ run'[run'[q].x].pc # "idle"
    BY <1>5, <2>2 DEF AgentInv, BegunInv, Begun
  <2>3. \A y \in AgentRuns : token'[y].held => y \in AgentRuns /\ run'[y].pc # "idle"
    BY <1>1, <2>1 DEF AgentInv, BegunInv, Begun
  <2>4. ASSUME NEW i \in DOMAIN file', file'[i].part \in {"in", "out"}
        PROVE  file'[i].x \in AgentRuns /\ run'[file'[i].x].pc # "idle"
    BY <1>4, <1>5, <2>4 DEF AgentInv, BegunInv, Begun
  <2>5. \A q \in AgentRuns : ~Active(q)' BY <1>1, <1>2 DEF Active
  <2> QED BY <2>2, <2>3, <2>4, <2>5 DEF BegunInv, Begun
<1>9. OrderInv'
  <2>1. Len(queue') = 0 BY <1>1
  <2> QED BY <2>1 DEF OrderInv
<1>10. ASSUME NEW r \in AgentRuns PROVE ToldInv(r)' /\ PendingInv(r)' /\ AnsweredInv(r)'
  <2>1. CASE Active(r) BY <1>2, <2>1 DEF ToldInv, PendingInv, AnsweredInv
  <2>2. CASE ~Active(r)
    <3>1. run'[r] = run[r] /\ run[r].pc \in {"idle", "over", "dead"} BY <1>1, <2>2 DEF Active
    <3>2. ToldInv(r)' BY <3>1 DEF AgentInv, ToldInv
    <3>3. PendingInv(r)' BY <3>1 DEF PendingInv
    <3>4. AnsweredInv(r)' BY <1>4, <3>1 DEF AgentInv, AnsweredInv, BegunInv, Begun
    <3> QED BY <3>2, <3>3, <3>4
  <2> QED BY <2>1, <2>2
<1>11. ASSUME NEW y \in AgentRuns PROVE TokenInv(y)' /\ FileInv(y)'
  <2>1. /\ Asked(y)' = Asked(y) /\ Replied(y)' = Replied(y) /\ FileInv(y) /\ TokenInv(y)
        /\ \A i \in Replied(y) : file'[i] = file[i]
    BY <1>4 DEF AgentInv, Replied
  <2>2. TokenInv(y)'
    <3>1. ASSUME NEW updates, NEW next, Clean(y, updates, next) PROVE Clean(y, updates, next)'
      BY <2>1, <3>1 DEF Clean, Unwritten, Below
    <3>2. PICK t : t = token[y] OBVIOUS
    <3>3. /\ t.input => t.held
          /\ t.held => (Asked(y) # {} => ~t.input) /\ Clean(y, t.updates, t.next)
      BY <2>1, <3>2 DEF TokenInv
    <3>4. t.held => Clean(y, t.updates, t.next)' BY <3>1, <3>3
    <3>5. token'[y] = t BY <1>1, <3>2
    <3> QED BY <2>1, <3>3, <3>4, <3>5 DEF TokenInv, Clean, Unwritten, Below
  <2>3. ASSUME ~CutShort(y)', NEW i \in Asked(y), file[i].chunks # <<>> PROVE i + 1 \in Replied(y) /\ i # Len(file')
    <3>0. PICK old \in Nat, new \in Nat : old = Len(file) /\ new = Len(file') /\ new >= old BY <1>4
    <3>1. i \in Nat /\ i <= Len(file) BY <1>4 DEF Asked
    <3>2. ~CutShort(y) BY <1>6, <2>3
    <3>3. \A q \in AgentRuns : ~AnswersOf(q, y) BY <1>2, <2>3 DEF AnswersOf, Active, CutShort
    <3>4. i # Len(file) BY <2>1, <2>3, <3>2, <3>3 DEF FileInv
    <3>5. i < old /\ i # new BY <3>0, <3>1, <3>4
    <3>6. i + 1 \in Replied(y) BY <2>1, <2>3, <3>0, <3>2, <3>5 DEF FileInv
    <3> QED BY <3>0, <3>5, <3>6
  <2>4. FileInv(y)'
    <3>1. \A i \in Asked(y) : file'[i] = file[i] BY <1>4 DEF Asked
    <3> QED BY <2>1, <2>3, <3>1 DEF FileInv
  <2> QED BY <2>2, <2>4
<1> QED BY <1>7, <1>8, <1>9, <1>10, <1>11 DEF AgentInv

-----------------------------------------------------------------------------
(* Every step keeps the invariant.                                         *)
LEMMA AgentNextInv == ASSUME AgentInv, [AgentNext]_agentVars PROVE AgentInv'
<1>1. ASSUME NEW r \in AgentRuns, Start(r) PROVE AgentInv' BY <1>1, StartInv
<1>2. ASSUME NEW r \in AgentRuns, ResumeRun(r) PROVE AgentInv' BY <1>2, ResumeRunInv
<1>3. ASSUME NEW r \in AgentRuns, Read(r) PROVE AgentInv' BY <1>3, ReadInv
<1>4. ASSUME NEW r \in AgentRuns, Pull(r) PROVE AgentInv' BY <1>4, PullInv
<1>5. ASSUME NEW r \in AgentRuns, End(r) PROVE AgentInv' BY <1>5, EndInv
<1>6. ASSUME NEW r \in AgentRuns, ReturnAll(r) PROVE AgentInv' BY <1>6, ReturnAllInv
<1>7. ASSUME NEW r \in AgentRuns, Break(r) PROVE AgentInv' BY <1>7, BreakInv
<1>8. ASSUME NEW r \in AgentRuns, Fail(r) PROVE AgentInv' BY <1>8, FailInv
<1>9. ASSUME NEW r \in AgentRuns, AppendLine(r) PROVE AgentInv' BY <1>9, AppendLineInv
<1>10. ASSUME NEW r \in AgentRuns, Deliver(r) PROVE AgentInv' BY <1>10, DeliverInv
<1>11. ASSUME NEW r \in AgentRuns, FinalResponse(r) PROVE AgentInv' BY <1>11, FinalResponseInv
<1>12. ASSUME Crash PROVE AgentInv' BY <1>12, CrashInv
<1>13. ASSUME AgentDone \/ UNCHANGED agentVars PROVE AgentInv'
  <2>1. run' = run /\ token' = token /\ file' = file /\ queue' = queue BY <1>13 DEF AgentDone, agentVars
  <2>2. AgentTypeInv' /\ BegunInv' /\ OrderInv'
    BY <2>1 DEF AgentInv, AgentTypeInv, BegunInv, Begun, Active, OrderInv
  <2>3. \A y : Asked(y)' = Asked(y) /\ Replied(y)' = Replied(y) /\ (CutShort(y)' <=> CutShort(y))
    BY <2>1 DEF Asked, Replied, CutShort
  <2>4. ASSUME NEW r \in AgentRuns PROVE ToldInv(r)' /\ PendingInv(r)' /\ AnsweredInv(r)'
    <3>1. ToldInv(r)' BY <2>1 DEF AgentInv, ToldInv
    <3>2. PendingInv(r)'
      <4>1. PendingInv(r) BY DEF AgentInv
      <4> QED BY <2>1, <2>3, <4>1 DEF PendingInv, OutLine, LinesOf, Clean, Unwritten, Below
    <3>3. AnsweredInv(r)'
      <4>1. AnsweredInv(r) BY DEF AgentInv
      <4> QED BY <2>1, <2>3, <4>1 DEF AnsweredInv, Has, HasAnswered
    <3> QED BY <3>1, <3>2, <3>3
  <2>5. ASSUME NEW y \in AgentRuns PROVE TokenInv(y)' /\ FileInv(y)'
    <3>1. TokenInv(y) /\ FileInv(y) BY DEF AgentInv
    <3>2. TokenInv(y)' BY <2>1, <2>3, <3>1 DEF TokenInv, Clean, Unwritten, Below
    <3>3. \A q : AnswersOf(q, y) => AnswersOf(q, y)' BY <2>1 DEF AnswersOf, OutLine
    <3>4. FileInv(y)' BY <2>1, <2>3, <3>1, <3>3 DEF FileInv
    <3> QED BY <3>2, <3>4
  <2> QED BY <2>2, <2>4, <2>5 DEF AgentInv
<1> QED BY <1>1, <1>2, <1>3, <1>4, <1>5, <1>6, <1>7, <1>8, <1>9, <1>10, <1>11, <1>12, <1>13 DEF AgentNext

(* An exchange is stored once, its question before its answer, by a        *)
(* service that sends a resumed run what is left: for any number of runs,  *)
(* chunks and crashes.                                                     *)
THEOREM StoredOnceAlways == ASSUME Replay = "rest" PROVE AgentSpec => []StoredOnce
<1>1. AgentInit => AgentInv BY AgentInitInv
<1>2. AgentInv /\ [AgentNext]_agentVars => AgentInv' BY AgentNextInv
<1>3. AgentInv => StoredOnce BY DEF AgentInv, FileInv, StoredOnce
<1> QED BY <1>1, <1>2, <1>3, PTL DEF AgentSpec

(* A run replays whole exchanges, and all that the caller was answered.    *)
THEOREM WholeExchangesReplayed == AgentSpec => []ReplaysWholeExchanges
<1>1. AgentInit => AgentInv BY AgentInitInv
<1>2. AgentInv /\ [AgentNext]_agentVars => AgentInv' BY AgentNextInv
<1>3. AgentInv => ReplaysWholeExchanges
  <2>1. ASSUME AgentInv, NEW r \in AgentRuns, run[r].pc = "open" /\ run[r].x = r /\ run[r].owned
        PROVE  /\ \A x \in run[r].before : \E l \in ToSet(run[r].sees) : l.x = x /\ l.part = "out"
               /\ \A l \in ToSet(run[r].sees) :
                    l.part = "in" /\ l.chunks # <<>> /\ ~CutShort(l.x) =>
                      \E m \in ToSet(run[r].sees) : m.x = l.x /\ m.part = "out"
    <3>1. \A x : Has(r, x) => \E l \in ToSet(run[r].sees) : l.x = x /\ l.part = "out" BY DEF Has, ToSet
    <3>2. /\ \A x \in run[r].before : Has(r, x)
          /\ \A i \in DOMAIN run[r].sees : HasAnswered(r, i)
      BY <2>1 DEF AgentInv, AnsweredInv
    <3>3. \A l \in ToSet(run[r].sees) : l.part = "in" /\ l.chunks # <<>> /\ ~CutShort(l.x) => Has(r, l.x)
      BY <3>2 DEF ToSet, HasAnswered
    <3> QED BY <3>1, <3>2, <3>3
  <2> QED BY <2>1 DEF ReplaysWholeExchanges
<1> QED BY <1>1, <1>2, <1>3, PTL DEF AgentSpec

(* The providers of a run that is over have been told, once, and all who   *)
(* ask hear the same.                                                      *)
THEOREM ProvidersToldOnce == AgentSpec => []ToldOnce
<1>1. AgentInit => AgentInv BY AgentInitInv
<1>2. AgentInv /\ [AgentNext]_agentVars => AgentInv' BY AgentNextInv
<1>3. AgentInv => ToldOnce BY DEF AgentInv, ToldInv, ToldOnce
<1> QED BY <1>1, <1>2, <1>3, PTL DEF AgentSpec

-----------------------------------------------------------------------------
(* An agent behind the Responses protocol.                                 *)
HostedFields == {"line", "pc", "session", "given", "decided", "heard", "said", "refused", "item", "streamed",
                 "output", "surfaced", "status", "reason"}
SnapshotFields == {"kind", "memory", "slot"}

(* The output of a turn is apart from the conversation it is of.           *)
SameTurn(s, r) ==
  /\ DOMAIN r = HostedFields
  /\ r.line = s.line /\ r.pc = s.pc /\ r.session = s.session /\ r.given = s.given
  /\ r.decided = s.decided /\ r.heard = s.heard /\ r.status = s.status

LEMMA CloseItemIs == ASSUME NEW s, DOMAIN s = HostedFields PROVE SameTurn(s, CloseItem(s))
BY DEF CloseItem, SameTurn, HostedFields
LEMMA EmitItemIs == ASSUME NEW s, DOMAIN s = HostedFields, NEW item PROVE SameTurn(s, EmitItem(s, item))
<1>1. PICK r : r = CloseItem(s) OBVIOUS
<1>2. SameTurn(s, r) BY <1>1, CloseItemIs
<1> QED BY <1>1, <1>2 DEF EmitItem, SameTurn, HostedFields
LEMMA OpenItemIs == ASSUME NEW s, DOMAIN s = HostedFields, NEW c PROVE SameTurn(s, OpenItem(s, c))
BY DEF OpenItem, SameTurn, HostedFields
LEMMA ExtendIs == ASSUME NEW s, DOMAIN s = HostedFields, NEW c PROVE SameTurn(s, Extend(s, c))
BY DEF Extend, SameTurn, HostedFields

LEMMA PushIs == ASSUME NEW s, DOMAIN s = HostedFields, NEW c PROVE SameTurn(s, Push(s, c))
<1>1. SameTurn(s, s) BY DEF SameTurn
<1>2. \A a, b : SameTurn(s, a) /\ SameTurn(a, b) => SameTurn(s, b) BY DEF SameTurn
<1>3. PICK folded : folded = [s EXCEPT !.item.output = c.text] OBVIOUS
<1>4. SameTurn(s, folded) BY <1>3 DEF SameTurn, HostedFields
<1>5. SameTurn(s, CloseItem(folded)) BY <1>2, <1>4, CloseItemIs DEF SameTurn
<1>6. \A item : SameTurn(s, EmitItem(s, item)) BY EmitItemIs
<1>7. PICK t : t = IF s.item # NoItem /\ ~CanExtend(s.item, c) THEN CloseItem(s) ELSE s OBVIOUS
<1>8. SameTurn(s, t) BY <1>1, <1>7, CloseItemIs
<1>9. PICK u : u = IF t.item = NoItem THEN OpenItem(t, c) ELSE t OBVIOUS
<1>10. SameTurn(s, u) BY <1>2, <1>8, <1>9, OpenItemIs DEF SameTurn
<1>11. SameTurn(s, Extend(u, c)) BY <1>2, <1>10, ExtendIs DEF SameTurn
<1>12. \/ Push(s, c) = CloseItem(folded) \/ Push(s, c) = s \/ Push(s, c) = Extend(u, c)
       \/ \E item : Push(s, c) = EmitItem(s, item)
  BY <1>3, <1>7, <1>9, Zenon DEF Push
<1> QED BY <1>1, <1>5, <1>6, <1>11, <1>12

-----------------------------------------------------------------------------
(* Turns come one after another; what is decided is of earlier ones; the   *)
(* requests that are kept are those that turns which told of theirs, or    *)
(* ended, had surfaced.                                                    *)
SnapshotOK(k) == DOMAIN k = SnapshotFields /\ k.memory \in Seq(Nat)
TurnOK(s, t) ==
  /\ DOMAIN s = HostedFields /\ SnapshotOK(s.session)
  /\ s.line \in Seq(Nat) /\ \A x \in ToSet(s.line) : x \in 1 .. t - 1
  /\ s.pc \in {"starting", "running", "told", "over"}
  /\ s.pc = "starting" => s.surfaced = {}
  /\ \A d \in s.decided : d.turn \in 1 .. t - 1
DecidedOn(all, decided) ==
  UNION {{[turn |-> d.turn, wire |-> d.wire, request |-> a.request] :
            a \in {b \in all[d.turn].surfaced : b.wire = d.wire}} : d \in decided}
HostedBase ==
  /\ IsSequence(turns) /\ Len(turns) <= MaxTurns
  /\ DOMAIN snapshots = 0 .. MaxTurns /\ \A k \in 0 .. MaxTurns : SnapshotOK(snapshots[k])
  /\ \A t \in DOMAIN turns : TurnOK(turns[t], t)
  /\ \A t \in DOMAIN turns : t < Len(turns) => turns[t].pc = "over"
  /\ \A t \in DOMAIN turns : turns[t].heard = DecidedOn(turns, turns[t].decided)
  /\ \A a : a \in approvals <=> \E t \in DOMAIN turns : turns[t].pc \in {"told", "over"} /\ a \in Issued(t, turns[t])

LEMMA HostedInitBase == ASSUME HostedInit PROVE HostedBase
<1>1. /\ turns = <<>> /\ approvals = {} /\ DOMAIN snapshots = 0 .. MaxTurns
      /\ \A k \in 0 .. MaxTurns : snapshots[k] = NoSnapshot
  BY DEF HostedInit
<1>2. SnapshotOK(NoSnapshot)
  <2>1. DOMAIN NoSnapshot = SnapshotFields /\ NoSnapshot.memory = <<>> BY DEF NoSnapshot, SnapshotFields
  <2>2. <<>> \in Seq(Nat) OBVIOUS
  <2> QED BY <2>1, <2>2, Zenon DEF SnapshotOK
<1>3. IsSequence(turns)
  <2>1. <<>> \in Seq(Nat) OBVIOUS
  <2> QED BY <1>1, <2>1, Zenon DEF IsSequence
<1>4. Len(turns) = 0 /\ DOMAIN turns = {} BY <1>1
<1>5. Len(turns) <= MaxTurns BY <1>4, HostedTurnAssumption
<1> QED BY <1>1, <1>2, <1>3, <1>4, <1>5 DEF HostedBase

(* The turns that a new one continues.                                     *)
LEMMA LineageIs ==
  ASSUME HostedBase, NEW previous \in IF named THEN {0} ELSE 0 .. Len(turns)
  PROVE  /\ Lineage(previous) \in Seq(Nat) /\ \A x \in ToSet(Lineage(previous)) : x \in 1 .. Len(turns)
         /\ named => ToSet(Lineage(previous)) = 1 .. Len(turns)
         /\ ~named /\ previous = 0 => ToSet(Lineage(previous)) = {}
         /\ ~named /\ previous # 0 =>
              /\ previous \in DOMAIN turns
              /\ ToSet(Lineage(previous)) = ToSet(turns[previous].line) \cup {previous}
<1>1. Len(turns) \in Nat /\ DOMAIN turns = 1 .. Len(turns) BY AppendGrows DEF HostedBase
<1>2. CASE named
  <2>1. PICK l : l = [i \in 1 .. Len(turns) |-> i] OBVIOUS
  <2>2. l = Lineage(previous) BY <1>2, <2>1 DEF Lineage
  <2>3. l \in Seq(Nat) BY <1>1, <2>1
  <2>4. ToSet(l) = 1 .. Len(turns) BY <1>1, <2>1 DEF ToSet
  <2> QED BY <1>2, <2>2, <2>3, <2>4
<1>3. CASE ~named /\ previous = 0
  <2>1. Lineage(previous) = <<>> BY <1>3 DEF Lineage
  <2>2. <<>> \in Seq(Nat) /\ ToSet(<<>>) = {} BY DEF ToSet
  <2> QED BY <1>3, <2>1, <2>2, Zenon
<1>4. CASE ~named /\ previous # 0
  <2>1. previous \in DOMAIN turns /\ previous \in Nat BY <1>1, <1>4
  <2>2. PICK l : l = turns[previous].line OBVIOUS
  <2>3. l \in Seq(Nat) /\ \A x \in ToSet(l) : x \in 1 .. previous - 1 BY <2>1, <2>2 DEF HostedBase, TurnOK
  <2>4. PICK m : m = Append(l, previous) OBVIOUS
  <2>5. m = Lineage(previous) BY <1>4, <2>2, <2>4 DEF Lineage
  <2>6. m \in Seq(Nat) BY <2>1, <2>3, <2>4
  <2>7. ToSet(m) = ToSet(l) \cup {previous}
    <3>1. Len(l) \in Nat /\ Len(m) = Len(l) + 1 /\ DOMAIN l = 1 .. Len(l) /\ DOMAIN m = 1 .. Len(l) + 1
      BY <2>1, <2>3, <2>4
    <3>2. m[Len(l) + 1] = previous /\ \A i \in 1 .. Len(l) : m[i] = l[i] BY <2>1, <2>3, <2>4
    <3>3. \A i : i \in 1 .. Len(l) + 1 <=> i \in 1 .. Len(l) \/ i = Len(l) + 1 BY <3>1
    <3> QED BY <3>1, <3>2, <3>3 DEF ToSet
  <2>8. \A x \in ToSet(m) : x \in 1 .. Len(turns) BY <1>1, <2>1, <2>3, <2>7
  <2> QED BY <1>4, <2>1, <2>2, <2>5, <2>6, <2>7, <2>8
<1> QED BY <1>2, <1>3, <1>4

(* A turn comes when the others are over,                                  *)
LEMMA TurnComes ==
  ASSUME HostedBase, Quiet, Len(turns) < MaxTurns, NEW s, turns' = Append(turns, s), approvals' = approvals,
         TurnOK(s, Len(turns) + 1), s.surfaced = {}, s.heard = DecidedOn(turns, s.decided),
         DOMAIN snapshots' = 0 .. MaxTurns, \A k \in 0 .. MaxTurns : SnapshotOK(snapshots'[k])
  PROVE  HostedBase'
<1>1. Len(turns) \in Nat /\ DOMAIN turns = 1 .. Len(turns) BY AppendGrows DEF HostedBase
<1>2. Grows(turns, s, turns') BY AppendGrows DEF HostedBase
<1>3. PICK n \in Nat : n = Len(turns) BY <1>1
<1>4. /\ IsSequence(turns') /\ Len(turns') = n + 1 /\ DOMAIN turns' = 1 .. n + 1
      /\ turns'[n + 1] = s /\ \A i \in 1 .. n : turns'[i] = turns[i]
  BY <1>2, <1>3 DEF Grows
<1>5. \A t \in 1 .. n + 1 : t \in 1 .. n \/ t = n + 1 BY <1>3
<1>6. \A t \in DOMAIN turns' : TurnOK(turns'[t], t) BY <1>1, <1>3, <1>4, <1>5 DEF HostedBase
<1>7. \A t \in DOMAIN turns' : t < Len(turns') => turns'[t].pc = "over" BY <1>1, <1>3, <1>4, <1>5 DEF Quiet
<1>8. ASSUME NEW t \in DOMAIN turns' PROVE turns'[t].heard = DecidedOn(turns', turns'[t].decided)
  <2>1. PICK decided : decided = turns'[t].decided OBVIOUS
  <2>2. \A d \in decided : d.turn \in 1 .. n
    <3>1. \A d \in decided : d.turn \in 1 .. t - 1 BY <1>6, <2>1 DEF TurnOK
    <3> QED BY <1>3, <1>4, <3>1
  <2>3. DecidedOn(turns', decided) = DecidedOn(turns, decided) BY <1>4, <2>2 DEF DecidedOn
  <2>4. turns'[t].heard = DecidedOn(turns, decided)
    <3>1. CASE t = n + 1 BY <1>4, <2>1, <3>1
    <3>2. CASE t \in 1 .. n BY <1>1, <1>3, <1>4, <2>1, <3>2 DEF HostedBase
    <3> QED BY <1>4, <1>5, <3>1, <3>2
  <2> QED BY <2>1, <2>3, <2>4
<1>9. ASSUME NEW a PROVE a \in approvals' <=> \E t \in DOMAIN turns' : turns'[t].pc \in {"told", "over"} /\ a \in Issued(t, turns'[t])
  <2>1. Issued(n + 1, s) = {} BY DEF Issued
  <2>2. a \in approvals <=> \E t \in 1 .. n : turns[t].pc \in {"told", "over"} /\ a \in Issued(t, turns[t])
    BY <1>1, <1>3 DEF HostedBase
  <2>3. 1 .. n \subseteq DOMAIN turns' BY <1>3, <1>4
  <2> QED BY <1>4, <1>5, <2>1, <2>2, <2>3
<1>10. Len(turns') <= MaxTurns BY <1>3, <1>4, HostedTurnAssumption
<1> QED BY <1>4, <1>6, <1>7, <1>8, <1>9, <1>10 DEF HostedBase

(* and the last of them moves.                                             *)
LEMMA TurnMoves ==
  ASSUME HostedBase, NEW t \in DOMAIN turns, turns[t].pc # "over", NEW s, turns' = [turns EXCEPT ![t] = s],
         TurnOK(s, t), s.decided = turns[t].decided, s.heard = turns[t].heard,
         approvals' = IF s.pc \in {"told", "over"} THEN approvals \cup Issued(t, s) ELSE approvals,
         turns[t].pc = "told" => s.pc = "over" /\ s.surfaced = turns[t].surfaced,
         DOMAIN snapshots' = 0 .. MaxTurns, \A k \in 0 .. MaxTurns : SnapshotOK(snapshots'[k])
  PROVE  HostedBase'
<1>1. Len(turns) \in Nat /\ DOMAIN turns = 1 .. Len(turns) /\ Changes(turns, t, s, turns')
  BY ExceptChanges DEF HostedBase
<1>2. PICK n \in Nat : n = Len(turns) BY <1>1
<1>3. /\ IsSequence(turns') /\ Len(turns') = n /\ DOMAIN turns = 1 .. n /\ DOMAIN turns' = 1 .. n
      /\ turns'[t] = s /\ \A i \in 1 .. n : i # t => turns'[i] = turns[i]
  BY <1>1, <1>2 DEF Changes
<1>4. t \in 1 .. n /\ t = n
  <2>1. ~(t < n) BY <1>2 DEF HostedBase
  <2> QED BY <1>2, <1>3, <2>1
<1>5. \A i \in 1 .. n : TurnOK(turns'[i], i) BY <1>3 DEF HostedBase
<1>6. \A i \in 1 .. n : i < n => turns'[i].pc = "over" BY <1>2, <1>3, <1>4 DEF HostedBase
<1>7. ASSUME NEW i \in 1 .. n PROVE turns'[i].heard = DecidedOn(turns', turns'[i].decided)
  <2>1. PICK decided : decided = turns'[i].decided OBVIOUS
  <2>2. \A d \in decided : d.turn \in 1 .. n /\ d.turn # t
    <3>1. \A d \in decided : d.turn \in 1 .. i - 1 BY <1>5, <2>1 DEF TurnOK
    <3> QED BY <1>2, <1>4, <3>1
  <2>3. DecidedOn(turns', decided) = DecidedOn(turns, decided) BY <1>3, <2>2 DEF DecidedOn
  <2>4. decided = turns[i].decided /\ turns'[i].heard = turns[i].heard BY <1>3, <2>1
  <2>5. turns[i].heard = DecidedOn(turns, turns[i].decided) BY <1>3 DEF HostedBase
  <2> QED BY <2>1, <2>3, <2>4, <2>5
<1>8. ASSUME NEW a PROVE a \in approvals' <=> \E i \in 1 .. n : turns'[i].pc \in {"told", "over"} /\ a \in Issued(i, turns'[i])
  <2>1. a \in approvals <=> \E i \in 1 .. n : turns[i].pc \in {"told", "over"} /\ a \in Issued(i, turns[i])
    BY <1>3 DEF HostedBase
  <2>2. turns[t].pc = "told" => s.pc = "over" /\ Issued(t, s) = Issued(t, turns[t]) BY DEF Issued
  <2>3. CASE s.pc \in {"told", "over"}
    <3>1. a \in approvals' <=> a \in approvals \/ a \in Issued(t, s) BY <2>3
    <3> QED BY <1>3, <1>4, <2>1, <2>2, <2>3, <3>1
  <2>4. CASE s.pc \notin {"told", "over"}
    <3>1. approvals' = approvals /\ turns[t].pc \notin {"told", "over"} BY <2>4
    <3> QED BY <1>3, <1>4, <2>1, <2>4, <3>1
  <2> QED BY <2>3, <2>4
<1>9. Len(turns') <= MaxTurns BY <1>2, <1>3 DEF HostedBase
<1> QED BY <1>3, <1>5, <1>6, <1>7, <1>8, <1>9 DEF HostedBase

-----------------------------------------------------------------------------
LEMMA NewHostedIs ==
  /\ DOMAIN NewHosted = HostedFields /\ NewHosted.pc = "starting" /\ NewHosted.session = NewSession
  /\ NewHosted.decided = {} /\ NewHosted.heard = {} /\ NewHosted.surfaced = {} /\ NewHosted.given = <<>>
  /\ NewHosted.line = <<>> /\ NewHosted.status = ""
BY DEF NewHosted, HostedFields
LEMMA NewSessionIs ==
  /\ DOMAIN NewSession = SnapshotFields /\ NewSession.kind = "session"
  /\ NewSession.memory = <<>> /\ NewSession.slot = <<>> /\ SnapshotOK(NewSession)
<1>1. /\ DOMAIN NewSession = SnapshotFields /\ NewSession.kind = "session"
      /\ NewSession.memory = <<>> /\ NewSession.slot = <<>>
  BY DEF NewSession, NoSnapshot, SnapshotFields
<1>2. <<>> \in Seq(Nat) OBVIOUS
<1>3. SnapshotOK(NewSession) BY <1>1, <1>2, Zenon DEF SnapshotOK
<1> QED BY <1>1, <1>3

(* The session that a turn begins with.                                    *)
StartOf(previous) ==
  ClearLocalHistory(IF snapshots[ReadKey(previous)].kind = "session" THEN snapshots[ReadKey(previous)] ELSE NewSession)
LEMMA StartOfIs ==
  ASSUME HostedBase, Len(turns) < MaxTurns, NEW previous \in IF named THEN {0} ELSE 0 .. Len(turns)
  PROVE  /\ ReadKey(previous) \in 0 .. MaxTurns /\ StartOf(previous).slot = <<>>
         /\ SnapshotOK(StartOf(previous)) /\ StartOf(previous).kind = "session"
         /\ StartOf(previous).memory = IF snapshots[ReadKey(previous)].kind = "session"
                                       THEN snapshots[ReadKey(previous)].memory ELSE <<>>
<1>1. ReadKey(previous) \in 0 .. MaxTurns
  <2>1. Len(turns) \in Nat BY AppendGrows DEF HostedBase
  <2> QED BY <2>1, HostedTurnAssumption DEF ReadKey
<1>2. PICK k : k = IF snapshots[ReadKey(previous)].kind = "session" THEN snapshots[ReadKey(previous)] ELSE NewSession OBVIOUS
<1>3. SnapshotOK(k) /\ k.kind = "session" BY <1>1, <1>2, NewSessionIs DEF HostedBase
<1>4. StartOf(previous) = [k EXCEPT !.slot = <<>>] BY <1>2 DEF StartOf, ClearLocalHistory
<1>5. /\ DOMAIN StartOf(previous) = SnapshotFields /\ StartOf(previous).slot = <<>>
      /\ StartOf(previous).memory = k.memory /\ StartOf(previous).kind = k.kind
  BY <1>3, <1>4 DEF SnapshotOK, SnapshotFields
<1>6. SnapshotOK(StartOf(previous)) BY <1>3, <1>5 DEF SnapshotOK
<1> QED BY <1>1, <1>2, <1>3, <1>5, <1>6, NewSessionIs

(* What a begin, and an ask for a consent, make of the turns.              *)
BeginsWith(previous, decided, s) ==
  /\ turns' = Append(turns, s) /\ snapshots' = snapshots /\ approvals' = approvals
  /\ DOMAIN s = HostedFields /\ s.line = Lineage(previous) /\ s.surfaced = {}
  /\ IF previous > 0 /\ snapshots[ReadKey(previous)].kind = "none"
     THEN s.pc = "over" /\ s.status = "refused" /\ s.decided = {} /\ s.heard = {} /\ s.session = NewSession
     ELSE /\ s.pc = "starting" /\ s.status = "" /\ s.decided = decided /\ s.heard = Resolved(decided)
          /\ s.session = StartOf(previous) /\ s.given = Lineage(previous) \o StartOf(previous).slot
LEMMA BeginIs ==
  ASSUME BeginTurn
  PROVE  /\ Quiet /\ Len(turns) < MaxTurns
         /\ \E previous \in IF named THEN {0} ELSE 0 .. Len(turns) : \E decided \in SUBSET Decidable(Lineage(previous)) :
              \E s : BeginsWith(previous, decided, s)
<1>1. Quiet /\ Len(turns) < MaxTurns /\ snapshots' = snapshots /\ approvals' = approvals BY DEF BeginTurn
<1>8. PICK previous \in IF named THEN {0} ELSE 0 .. Len(turns) : \E decided \in SUBSET Decidable(Lineage(previous)) :
        turns' = Append(turns,
          IF previous > 0 /\ snapshots[ReadKey(previous)].kind = "none"
          THEN [[NewHosted EXCEPT !.line = Lineage(previous)] EXCEPT !.pc = "over", !.status = "refused"]
          ELSE [[NewHosted EXCEPT !.line = Lineage(previous)] EXCEPT
                  !.session = StartOf(previous), !.decided = decided, !.heard = Resolved(decided),
                  !.given = Lineage(previous) \o StartOf(previous).slot])
  BY DEF BeginTurn, StartOf
<1>2. PICK decided \in SUBSET Decidable(Lineage(previous)) :
        turns' = Append(turns,
          IF previous > 0 /\ snapshots[ReadKey(previous)].kind = "none"
          THEN [[NewHosted EXCEPT !.line = Lineage(previous)] EXCEPT !.pc = "over", !.status = "refused"]
          ELSE [[NewHosted EXCEPT !.line = Lineage(previous)] EXCEPT
                  !.session = StartOf(previous), !.decided = decided, !.heard = Resolved(decided),
                  !.given = Lineage(previous) \o StartOf(previous).slot])
  BY <1>8
<1>3. PICK f : f = [NewHosted EXCEPT !.line = Lineage(previous)] OBVIOUS
<1>4. PICK s : s = IF previous > 0 /\ snapshots[ReadKey(previous)].kind = "none"
          THEN [f EXCEPT !.pc = "over", !.status = "refused"]
          ELSE [f EXCEPT !.session = StartOf(previous), !.decided = decided, !.heard = Resolved(decided),
                         !.given = Lineage(previous) \o StartOf(previous).slot]
  OBVIOUS
<1>5. turns' = Append(turns, s) BY <1>2, <1>3, <1>4
<1>6. /\ DOMAIN f = HostedFields /\ f.line = Lineage(previous) /\ f.pc = "starting" /\ f.session = NewSession
      /\ f.decided = {} /\ f.heard = {} /\ f.surfaced = {} /\ f.status = ""
  BY <1>3, NewHostedIs DEF HostedFields
<1>7. BeginsWith(previous, decided, s) BY <1>1, <1>4, <1>5, <1>6 DEF BeginsWith, HostedFields
<1> QED BY <1>1, <1>7

StoredOrNew(previous) ==
  IF snapshots[ReadKey(previous)].kind = "session" THEN snapshots[ReadKey(previous)] ELSE NewSession
AsksWith(previous, s) ==
  /\ turns' = Append(turns, s) /\ approvals' = approvals
  /\ snapshots' = [snapshots EXCEPT ![WriteKey(Len(turns) + 1)] = StoredOrNew(previous)]
  /\ DOMAIN s = HostedFields /\ s.line = Lineage(previous) /\ s.given = Lineage(previous) /\ s.pc = "over"
  /\ s.status = "incomplete" /\ s.session = NewSession
  /\ s.decided = {} /\ s.heard = {} /\ s.surfaced = {}
LEMMA AskIs ==
  ASSUME AskConsent
  PROVE  /\ Quiet /\ Len(turns) < MaxTurns
         /\ \E previous \in IF named THEN {0} ELSE 0 .. Len(turns) : \E s : AsksWith(previous, s)
<1>1. Quiet /\ Len(turns) < MaxTurns /\ approvals' = approvals BY DEF AskConsent
<1>2. PICK previous \in IF named THEN {0} ELSE 0 .. Len(turns) :
        /\ turns' = Append(turns, [NewHosted EXCEPT !.line = Lineage(previous), !.pc = "over", !.given = Lineage(previous),
                                                    !.status = "incomplete", !.reason = "consent"])
        /\ snapshots' = [snapshots EXCEPT ![WriteKey(Len(turns) + 1)] = StoredOrNew(previous)]
  BY DEF AskConsent, StoredOrNew
<1>3. PICK s : s = [NewHosted EXCEPT !.line = Lineage(previous), !.pc = "over", !.given = Lineage(previous),
                                     !.status = "incomplete", !.reason = "consent"]
  OBVIOUS
<1>4. AsksWith(previous, s) BY <1>1, <1>2, <1>3, NewHostedIs DEF AsksWith, HostedFields
<1> QED BY <1>1, <1>4

(* What the steps of a turn make of it.                                    *)
MovesTo(t, s) ==
  /\ turns' = [turns EXCEPT ![t] = s] /\ DOMAIN s = HostedFields /\ DOMAIN s.session = SnapshotFields
  /\ s.line = turns[t].line /\ s.given = turns[t].given
  /\ s.decided = turns[t].decided /\ s.heard = turns[t].heard
  /\ s.status \in {turns[t].status, "completed", "incomplete"}
  /\ s.session.kind \in {turns[t].session.kind, "session"}
AbandonsWith(t, s) ==
  /\ MovesTo(t, s) /\ turns[t].pc = "starting" /\ s.pc = "over" /\ s.session = turns[t].session
  /\ s.surfaced = turns[t].surfaced /\ snapshots' = snapshots /\ approvals' = approvals
RunsWith(t, s) ==
  /\ MovesTo(t, s) /\ turns[t].pc = "starting" /\ s.pc = "running"
  /\ s.session.memory = Append(turns[t].session.memory, t)
  /\ s.surfaced = turns[t].surfaced /\ snapshots' = snapshots /\ approvals' = approvals
SaysWith(t, s) ==
  /\ MovesTo(t, s) /\ turns[t].pc = "running" /\ s.pc = "running" /\ s.session = turns[t].session
  /\ snapshots' = snapshots /\ approvals' = approvals
TellsWith(t, s) ==
  /\ MovesTo(t, s) /\ turns[t].pc = "running" /\ s.pc = "told"
  /\ s.session.memory = turns[t].session.memory
  /\ snapshots' = snapshots /\ approvals' = approvals \cup Issued(t, s)
EndsWith(t, s) ==
  /\ MovesTo(t, s) /\ turns[t].pc \in {"told", "running"} /\ s.pc = "over"
  /\ s.session.memory = turns[t].session.memory /\ s.session.kind = "session"
  /\ s.surfaced = turns[t].surfaced /\ approvals' = approvals \cup Issued(t, s)
  /\ snapshots' = [snapshots EXCEPT ![WriteKey(t)] = ClearLocalHistory(turns[t].session)]

LEMMA FieldsAre == ASSUME HostedBase, NEW t \in DOMAIN turns
  PROVE DOMAIN turns[t] = HostedFields /\ DOMAIN turns[t].session = SnapshotFields
BY DEF HostedBase, TurnOK, SnapshotOK

LEMMA AbandonIs == ASSUME HostedBase, NEW t \in DOMAIN turns, Abandon(t) PROVE EarlyAbandon /\ \E s : AbandonsWith(t, s)
<1>1. PICK s : s = [turns[t] EXCEPT !.pc = "over", !.status = "incomplete", !.reason = "aborted"] OBVIOUS
<1>2. /\ EarlyAbandon /\ turns[t].pc = "starting" /\ turns' = [turns EXCEPT ![t] = s]
      /\ snapshots' = snapshots /\ approvals' = approvals
  BY <1>1, Zenon DEF Abandon, TurnIs
<1>3. /\ DOMAIN s = HostedFields /\ s.pc = "over" /\ s.session = turns[t].session /\ s.surfaced = turns[t].surfaced
      /\ s.line = turns[t].line /\ s.given = turns[t].given
      /\ s.decided = turns[t].decided /\ s.heard = turns[t].heard /\ s.status = "incomplete"
  BY <1>1, FieldsAre DEF HostedFields
<1> QED BY <1>2, <1>3, FieldsAre DEF AbandonsWith, MovesTo

LEMMA RunIs == ASSUME HostedBase, NEW t \in DOMAIN turns, RunAgent(t) PROVE \E s : RunsWith(t, s)
<1>1. PICK s : s = [turns[t] EXCEPT !.pc = "running", !.session.memory = Append(@, t)] OBVIOUS
<1>2. /\ turns[t].pc = "starting" /\ turns' = [turns EXCEPT ![t] = s]
      /\ snapshots' = snapshots /\ approvals' = approvals
  BY <1>1 DEF RunAgent, TurnIs
<1>3. /\ DOMAIN s = HostedFields /\ s.pc = "running" /\ s.surfaced = turns[t].surfaced
      /\ s.session = [turns[t].session EXCEPT !.memory = Append(@, t)]
      /\ s.line = turns[t].line /\ s.given = turns[t].given
      /\ s.decided = turns[t].decided /\ s.heard = turns[t].heard /\ s.status = turns[t].status
  BY <1>1, FieldsAre DEF HostedFields
<1>4. /\ DOMAIN s.session = SnapshotFields /\ s.session.memory = Append(turns[t].session.memory, t)
      /\ s.session.kind = turns[t].session.kind
  BY <1>3, FieldsAre DEF SnapshotFields
<1> QED BY <1>2, <1>3, <1>4 DEF RunsWith, MovesTo

LEMMA SayIs == ASSUME HostedBase, NEW t \in DOMAIN turns, SayContent(t) PROVE \E s : SaysWith(t, s)
<1>1. turns[t].pc = "running" /\ snapshots' = snapshots /\ approvals' = approvals BY DEF SayContent
<1>2. PICK c, needs :
        turns' = [turns EXCEPT ![t] = IF needs THEN [[turns[t] EXCEPT !.said = Append(@, c)] EXCEPT !.refused = @ \cup {c.id}]
                                      ELSE Push([turns[t] EXCEPT !.said = Append(@, c)], c)]
  BY DEF SayContent, TurnIs
<1>3. PICK f : f = [turns[t] EXCEPT !.said = Append(@, c)] OBVIOUS
<1>4. SameTurn(turns[t], f) BY <1>3, FieldsAre DEF SameTurn, HostedFields
<1>5. PICK s : s = IF needs THEN [f EXCEPT !.refused = @ \cup {c.id}] ELSE Push(f, c) OBVIOUS
<1>6. turns' = [turns EXCEPT ![t] = s] BY <1>2, <1>3, <1>5
<1>7. SameTurn(f, s)
  <2>1. DOMAIN f = HostedFields BY <1>4 DEF SameTurn
  <2>2. SameTurn(f, Push(f, c)) BY <2>1, PushIs
  <2>3. SameTurn(f, [f EXCEPT !.refused = @ \cup {c.id}]) BY <2>1 DEF SameTurn, HostedFields
  <2> QED BY <1>5, <2>2, <2>3
<1>8. SameTurn(turns[t], s) BY <1>4, <1>7 DEF SameTurn
<1> QED BY <1>1, <1>6, <1>8, FieldsAre DEF SaysWith, MovesTo, SameTurn

LEMMA TellIs == ASSUME HostedBase, NEW t \in DOMAIN turns, Tell(t) PROVE \E s : TellsWith(t, s)
<1>1. PICK f : f = AskedFor(CloseItem(turns[t])) OBVIOUS
<1>2. PICK reason : reason = IF f.refused # {} THEN "consent" ELSE IF f.surfaced # {} THEN "approval" ELSE "" OBVIOUS
<1>3. PICK s : s = [f EXCEPT !.pc = "told", !.session.slot = Append(@, t), !.reason = reason,
                             !.status = IF reason = "" THEN "completed" ELSE "incomplete"]
  OBVIOUS
<1>4. /\ turns[t].pc = "running" /\ turns' = [turns EXCEPT ![t] = s]
      /\ snapshots' = snapshots /\ approvals' = approvals \cup Issued(t, f)
  BY <1>1, <1>2, <1>3 DEF Tell, TurnIs
<1>5. SameTurn(turns[t], f)
  <2>1. SameTurn(turns[t], CloseItem(turns[t])) BY FieldsAre, CloseItemIs
  <2>2. SameTurn(CloseItem(turns[t]), f)
    <3>1. DOMAIN CloseItem(turns[t]) = HostedFields BY <2>1 DEF SameTurn
    <3>2. \A item : SameTurn(CloseItem(turns[t]), EmitItem(CloseItem(turns[t]), item)) BY <3>1, EmitItemIs
    <3>3. SameTurn(CloseItem(turns[t]), CloseItem(turns[t])) BY <3>1 DEF SameTurn
    <3> QED BY <1>1, <3>2, <3>3 DEF AskedFor
  <2> QED BY <2>1, <2>2 DEF SameTurn
<1>6. /\ DOMAIN s = HostedFields /\ s.pc = "told" /\ s.surfaced = f.surfaced
      /\ s.session = [f.session EXCEPT !.slot = Append(@, t)]
      /\ s.line = f.line /\ s.given = f.given /\ s.decided = f.decided /\ s.heard = f.heard
      /\ s.status \in {"completed", "incomplete"}
  BY <1>3, <1>5 DEF SameTurn, HostedFields
<1>7. /\ DOMAIN s.session = SnapshotFields /\ s.session.memory = turns[t].session.memory
      /\ s.session.kind = turns[t].session.kind
  BY <1>5, <1>6, FieldsAre DEF SameTurn, SnapshotFields
<1>8. Issued(t, s) = Issued(t, f) BY <1>6 DEF Issued
<1> QED BY <1>4, <1>5, <1>6, <1>7, <1>8 DEF TellsWith, MovesTo, SameTurn

LEMMA FinallyIs == ASSUME HostedBase, NEW t \in DOMAIN turns, FinallyKeep(t) PROVE \E s : EndsWith(t, s)
<1>1. PICK old : old = turns[t] OBVIOUS
<1>2. PICK cut : cut = (old.pc = "running") OBVIOUS
<1>3. PICK s : s = [NewHosted EXCEPT !.line = old.line, !.pc = "over", !.given = old.given,
              !.session.memory = old.session.memory, !.surfaced = old.surfaced, !.decided = old.decided, !.heard = old.heard,
              !.status = IF cut THEN "incomplete" ELSE old.status, !.reason = IF cut THEN "aborted" ELSE old.reason]
  OBVIOUS
<1>4. /\ old.pc \in {"told", "running"} /\ turns' = [turns EXCEPT ![t] = s]
      /\ approvals' = approvals \cup Issued(t, old)
      /\ snapshots' = [snapshots EXCEPT ![WriteKey(t)] = ClearLocalHistory(old.session)]
  BY <1>1, <1>2, <1>3 DEF FinallyKeep, TurnIs, IssuedAtLast, Saves
<1>5. /\ DOMAIN s = HostedFields /\ s.pc = "over" /\ s.surfaced = old.surfaced
      /\ s.session = [NewSession EXCEPT !.memory = old.session.memory]
      /\ s.line = old.line /\ s.given = old.given /\ s.decided = old.decided /\ s.heard = old.heard
      /\ s.status \in {old.status, "incomplete"}
  BY <1>3, NewHostedIs DEF HostedFields
<1>6. DOMAIN s.session = SnapshotFields /\ s.session.memory = old.session.memory /\ s.session.kind = "session"
  BY <1>5, NewSessionIs DEF SnapshotFields
<1>7. Issued(t, s) = Issued(t, old) BY <1>5 DEF Issued
<1> QED BY <1>1, <1>4, <1>5, <1>6, <1>7 DEF EndsWith, MovesTo

-----------------------------------------------------------------------------
LEMMA BeginBase == ASSUME HostedBase, BeginTurn PROVE HostedBase'
<1>1. Quiet /\ Len(turns) < MaxTurns BY BeginIs
<1>2. PICK previous \in IF named THEN {0} ELSE 0 .. Len(turns) :
        \E decided \in SUBSET Decidable(Lineage(previous)) : \E s : BeginsWith(previous, decided, s)
  BY BeginIs
<1>15. PICK decided \in SUBSET Decidable(Lineage(previous)) : \E s : BeginsWith(previous, decided, s) BY <1>2
<1>3. PICK s : BeginsWith(previous, decided, s) BY <1>15
<1>4. PICK n \in Nat : n = Len(turns) /\ DOMAIN turns = 1 .. n BY AppendGrows DEF HostedBase
<1>5. Lineage(previous) \in Seq(Nat) /\ \A x \in ToSet(Lineage(previous)) : x \in 1 .. n BY <1>4, LineageIs
<1>6. ASSUME NEW d \in decided PROVE d.turn \in 1 .. n
  <2>1. PICK i \in DOMAIN Lineage(previous) : \E w : d = [turn |-> Lineage(previous)[i], wire |-> w]
    BY DEF Decidable
  <2>2. d.turn \in ToSet(Lineage(previous)) BY <2>1 DEF ToSet
  <2> QED BY <1>5, <2>2
<1>7. Resolved(decided) = DecidedOn(turns, decided)
  <2>1. ASSUME NEW x \in Resolved(decided) PROVE x \in DecidedOn(turns, decided)
    <3>1. x \in approvals /\ \E d \in decided : d.turn = x.turn /\ d.wire = x.wire BY DEF Resolved
    <3>2. PICK d \in decided : d.turn = x.turn /\ d.wire = x.wire BY <3>1
    <3>3. PICK t \in DOMAIN turns : x \in Issued(t, turns[t]) BY <3>1 DEF HostedBase
    <3>4. PICK a \in turns[t].surfaced : x = [turn |-> t, wire |-> a.wire, request |-> a.request] BY <3>3 DEF Issued
    <3>5. d.turn = t /\ d.wire = a.wire BY <3>2, <3>4
    <3>6. a \in {b \in turns[d.turn].surfaced : b.wire = d.wire} BY <3>5
    <3>7. x = [turn |-> d.turn, wire |-> d.wire, request |-> a.request] BY <3>4, <3>5
    <3> QED BY <3>6, <3>7 DEF DecidedOn
  <2>2. ASSUME NEW x \in DecidedOn(turns, decided) PROVE x \in Resolved(decided)
    <3>1. PICK d \in decided : x \in {[turn |-> d.turn, wire |-> d.wire, request |-> a.request] :
                                      a \in {b \in turns[d.turn].surfaced : b.wire = d.wire}}
      BY DEF DecidedOn
    <3>2. PICK a \in turns[d.turn].surfaced : a.wire = d.wire /\ x = [turn |-> d.turn, wire |-> d.wire, request |-> a.request]
      BY <3>1
    <3>3. d.turn \in DOMAIN turns BY <1>4, <1>6
    <3>4. turns[d.turn].pc = "over" BY <1>1, <3>3 DEF Quiet
    <3>5. x \in Issued(d.turn, turns[d.turn]) BY <3>2 DEF Issued
    <3>6. x \in approvals BY <3>3, <3>4, <3>5 DEF HostedBase
    <3> QED BY <3>2, <3>6 DEF Resolved
  <2> QED BY <2>1, <2>2
<1>8. /\ turns' = Append(turns, s) /\ snapshots' = snapshots /\ approvals' = approvals /\ s.surfaced = {}
      /\ DOMAIN s = HostedFields /\ s.line = Lineage(previous) /\ s.pc \in {"over", "starting"}
      /\ s.session \in {NewSession, StartOf(previous)}
      /\ \/ s.decided = {} /\ s.heard = {}
         \/ s.decided = decided /\ s.heard = Resolved(decided)
  <2>1. CASE previous > 0 /\ snapshots[ReadKey(previous)].kind = "none" BY <1>3, <2>1 DEF BeginsWith
  <2>2. CASE ~(previous > 0 /\ snapshots[ReadKey(previous)].kind = "none") BY <1>3, <2>2 DEF BeginsWith
  <2> QED BY <2>1, <2>2
<1>9. SnapshotOK(s.session) BY <1>1, <1>8, StartOfIs, NewSessionIs
<1>10. \A d \in s.decided : d.turn \in 1 .. n + 1 - 1 BY <1>4, <1>6, <1>8
<1>11. \A x \in ToSet(s.line) : x \in 1 .. n + 1 - 1 BY <1>4, <1>5, <1>8
<1>12. TurnOK(s, n + 1) BY <1>5, <1>8, <1>9, <1>10, <1>11 DEF TurnOK
<1>13. s.heard = DecidedOn(turns, s.decided)
  <2>1. DecidedOn(turns, {}) = {} BY DEF DecidedOn
  <2> QED BY <1>7, <1>8, <2>1
<1>14. DOMAIN snapshots' = 0 .. MaxTurns /\ \A k \in 0 .. MaxTurns : SnapshotOK(snapshots'[k])
  BY <1>8 DEF HostedBase
<1> QED BY <1>1, <1>4, <1>8, <1>12, <1>13, <1>14, TurnComes

LEMMA AskBase == ASSUME HostedBase, AskConsent PROVE HostedBase'
<1>1. Quiet /\ Len(turns) < MaxTurns BY AskIs
<1>0. PICK previous \in IF named THEN {0} ELSE 0 .. Len(turns) : \E s : AsksWith(previous, s) BY AskIs
<1>2. PICK s : AsksWith(previous, s) BY <1>0
<1>3. PICK n \in Nat : n = Len(turns) /\ DOMAIN turns = 1 .. n BY AppendGrows DEF HostedBase
<1>4. Lineage(previous) \in Seq(Nat) /\ \A x \in ToSet(Lineage(previous)) : x \in 1 .. n BY <1>3, LineageIs
<1>5. /\ turns' = Append(turns, s) /\ approvals' = approvals /\ s.surfaced = {}
      /\ DOMAIN s = HostedFields /\ s.line = Lineage(previous) /\ s.pc = "over"
      /\ s.session = NewSession /\ s.decided = {} /\ s.heard = {}
      /\ snapshots' = [snapshots EXCEPT ![WriteKey(n + 1)] = StoredOrNew(previous)]
  BY <1>2, <1>3 DEF AsksWith
<1>6. \A x \in ToSet(s.line) : x \in 1 .. n + 1 - 1 BY <1>3, <1>4, <1>5
<1>7. TurnOK(s, n + 1) BY <1>4, <1>5, <1>6, NewSessionIs DEF TurnOK
<1>8. s.heard = DecidedOn(turns, s.decided) BY <1>5 DEF DecidedOn
<1>9. SnapshotOK(StoredOrNew(previous))
  <2>1. ReadKey(previous) \in 0 .. MaxTurns BY <1>1, StartOfIs
  <2> QED BY <2>1, NewSessionIs DEF StoredOrNew, HostedBase
<1>10. DOMAIN snapshots' = 0 .. MaxTurns /\ \A k \in 0 .. MaxTurns : SnapshotOK(snapshots'[k])
  BY <1>5, <1>9 DEF HostedBase
<1> QED BY <1>1, <1>3, <1>5, <1>7, <1>8, <1>10, TurnComes

LEMMA StepBase ==
  ASSUME HostedBase, NEW t \in DOMAIN turns, NEW s,
         AbandonsWith(t, s) \/ RunsWith(t, s) \/ SaysWith(t, s) \/ TellsWith(t, s) \/ EndsWith(t, s)
  PROVE  HostedBase'
<1>1. TurnOK(turns[t], t) BY DEF HostedBase
<1>2. MovesTo(t, s) BY DEF AbandonsWith, RunsWith, SaysWith, TellsWith, EndsWith
<1>3. t \in Nat BY AppendGrows DEF HostedBase
<1>4. s.session.memory \in Seq(Nat)
  <2>1. turns[t].session.memory \in Seq(Nat) BY <1>1 DEF TurnOK, SnapshotOK
  <2>2. Append(turns[t].session.memory, t) \in Seq(Nat) BY <1>3, <2>1
  <2>3. s.session.memory \in {turns[t].session.memory, Append(turns[t].session.memory, t)}
    BY DEF AbandonsWith, RunsWith, SaysWith, TellsWith, EndsWith
  <2> QED BY <2>1, <2>2, <2>3
<1>5. s.pc \in {"running", "told", "over"} BY DEF AbandonsWith, RunsWith, SaysWith, TellsWith, EndsWith
<1>6. SnapshotOK(s.session) BY <1>2, <1>4 DEF SnapshotOK, MovesTo
<1>7. TurnOK(s, t) BY <1>1, <1>2, <1>5, <1>6 DEF TurnOK, MovesTo
<1>8. DOMAIN snapshots' = 0 .. MaxTurns /\ \A k \in 0 .. MaxTurns : SnapshotOK(snapshots'[k])
  <2>1. CASE snapshots' = snapshots BY <2>1 DEF HostedBase
  <2>2. CASE EndsWith(t, s)
    <3>1. PICK k : k = ClearLocalHistory(turns[t].session) OBVIOUS
    <3>2. SnapshotOK(k) BY <1>1, <3>1 DEF TurnOK, SnapshotOK, ClearLocalHistory, SnapshotFields
    <3>3. snapshots' = [snapshots EXCEPT ![WriteKey(t)] = k] BY <2>2, <3>1 DEF EndsWith
    <3> QED BY <3>2, <3>3 DEF HostedBase
  <2> QED BY <2>1, <2>2 DEF AbandonsWith, RunsWith, SaysWith, TellsWith
<1>9. approvals' = IF s.pc \in {"told", "over"} THEN approvals \cup Issued(t, s) ELSE approvals
  <2>1. CASE AbandonsWith(t, s)
    <3>1. s.surfaced = {} BY <1>1, <2>1 DEF AbandonsWith, TurnOK
    <3>2. Issued(t, s) = {} BY <3>1 DEF Issued
    <3> QED BY <2>1, <3>2 DEF AbandonsWith
  <2>2. CASE RunsWith(t, s) \/ SaysWith(t, s) BY <2>2 DEF RunsWith, SaysWith
  <2>3. CASE TellsWith(t, s) \/ EndsWith(t, s) BY <2>3 DEF TellsWith, EndsWith
  <2> QED BY <2>1, <2>2, <2>3
<1>10. /\ turns[t].pc # "over"
       /\ turns[t].pc = "told" => s.pc = "over" /\ s.surfaced = turns[t].surfaced
  BY DEF AbandonsWith, RunsWith, SaysWith, TellsWith, EndsWith
<1>11. turns' = [turns EXCEPT ![t] = s] /\ s.decided = turns[t].decided /\ s.heard = turns[t].heard BY <1>2 DEF MovesTo
<1> QED BY <1>7, <1>8, <1>9, <1>10, <1>11, TurnMoves

LEMMA HostedNextBase == ASSUME HostedBase, [HostedNext]_hostedVars PROVE HostedBase'
<1>1. CASE BeginTurn BY <1>1, BeginBase
<1>2. CASE AskConsent BY <1>2, AskBase
<1>3. CASE \E t \in DOMAIN turns : Abandon(t) BY <1>3, AbandonIs, StepBase
<1>4. CASE \E t \in DOMAIN turns : RunAgent(t) BY <1>4, RunIs, StepBase
<1>5. CASE \E t \in DOMAIN turns : SayContent(t) BY <1>5, SayIs, StepBase
<1>6. CASE \E t \in DOMAIN turns : Tell(t) BY <1>6, TellIs, StepBase
<1>7. CASE \E t \in DOMAIN turns : FinallyKeep(t) BY <1>7, FinallyIs, StepBase
<1>8. CASE UNCHANGED hostedVars BY <1>8 DEF hostedVars, HostedBase
<1> QED BY <1>1, <1>2, <1>3, <1>4, <1>5, <1>6, <1>7, <1>8 DEF HostedNext, HostedDone

(* A decision on a request that some turn told of, also one that was cut   *)
(* off, is a decision on the call as it was issued (handler.ts,            *)
(* persistApprovals, resolveApprovals).                                    *)
THEOREM DecisionsHeard == HostedSpec => []DecisionsCount
<1>1. HostedInit => HostedBase BY HostedInitBase
<1>2. HostedBase /\ [HostedNext]_hostedVars => HostedBase' BY HostedNextBase
<1>3. HostedBase => DecisionsCount BY DEF HostedBase, DecidedOn, DecisionsCount
<1> QED BY <1>1, <1>2, <1>3, PTL DEF HostedSpec

-----------------------------------------------------------------------------
(* What a session remembers: of a turn that works, the turns it continues; *)
(* of a snapshot, those and the turn that left it.                         *)
RanOf(all, S) == {i \in S : i \in ToSet(all[i].session.memory)}
Increasing(m) == \A i, j \in DOMAIN m : i < j => m[i] < m[j]
OverOf(all) == {i \in DOMAIN all : all[i].pc = "over"}
LineInv(s) == s.status # "refused" /\ s.given = s.line /\ s.session.kind = "session"
MemoryInv(all, t) ==
  LET s == all[t]
  IN  s.pc # "over" =>
        /\ Increasing(s.session.memory)
        /\ ToSet(s.session.memory) = (IF s.pc = "starting" THEN {} ELSE {t}) \cup RanOf(all, ToSet(s.line))
KeptInv(all, kept) ==
  /\ \A k \in 0 .. MaxTurns :
       /\ kept[k].kind \in {"none", "session"} /\ Increasing(kept[k].memory)
       /\ kept[k].kind # "session" => kept[k].memory = <<>>
  /\ ~named => ToSet(kept[0].memory) = {}
  /\ ~named => \A p \in OverOf(all) :
       kept[p].kind = "session" /\ ToSet(kept[p].memory) = RanOf(all, ToSet(all[p].line) \cup {p})
  /\ named => ToSet(kept[0].memory) = RanOf(all, OverOf(all))
ContinuesInv ==
  /\ \A t \in DOMAIN turns : LineInv(turns[t]) /\ MemoryInv(turns, t)
  /\ named => \A t \in DOMAIN turns : ToSet(turns[t].line) = 1 .. t - 1
  /\ KeptInv(turns, snapshots)

LEMMA EmptyIs == <<>> \in Seq(Nat) /\ ToSet(<<>>) = {} /\ Increasing(<<>>)
BY DEF ToSet, Increasing

LEMMA HostedInitContinues == ASSUME HostedInit PROVE ContinuesInv
<1>1. /\ turns = <<>> /\ \A k \in 0 .. MaxTurns : snapshots[k] = NoSnapshot
  BY DEF HostedInit
<1>2. NoSnapshot.kind = "none" /\ NoSnapshot.memory = <<>> BY DEF NoSnapshot
<1>3. DOMAIN turns = {} /\ OverOf(turns) = {} /\ RanOf(turns, {}) = {} BY <1>1 DEF OverOf, RanOf
<1>4. 0 \in 0 .. MaxTurns BY HostedTurnAssumption
<1>5. KeptInv(turns, snapshots)
  <2>1. \A k \in 0 .. MaxTurns :
          /\ snapshots[k].kind \in {"none", "session"} /\ Increasing(snapshots[k].memory)
          /\ snapshots[k].kind # "session" => snapshots[k].memory = <<>>
    BY <1>1, <1>2, EmptyIs
  <2>2. ToSet(snapshots[0].memory) = {} BY <1>1, <1>2, <1>4, EmptyIs
  <2> QED BY <1>3, <2>1, <2>2 DEF KeptInv
<1> QED BY <1>3, <1>5 DEF ContinuesInv

(* The snapshot that a new turn begins with.                               *)
LEMMA StoredRemembers ==
  ASSUME HostedBase, ContinuesInv, Quiet, Len(turns) < MaxTurns, NEW previous \in IF named THEN {0} ELSE 0 .. Len(turns)
  PROVE  LET k == snapshots[ReadKey(previous)]
         IN  /\ ToSet(k.memory) = RanOf(turns, ToSet(Lineage(previous))) /\ Increasing(k.memory)
             /\ k.kind # "session" => k.memory = <<>>
             /\ previous > 0 => k.kind = "session"
<1>1. PICK k : k = snapshots[ReadKey(previous)] OBVIOUS
<1>2. ReadKey(previous) \in 0 .. MaxTurns BY StartOfIs
<1>3. Increasing(k.memory) /\ (k.kind # "session" => k.memory = <<>>) BY <1>1, <1>2 DEF ContinuesInv, KeptInv
<1>4. PICK n \in Nat : n = Len(turns) /\ DOMAIN turns = 1 .. n BY AppendGrows DEF HostedBase
<1>5. OverOf(turns) = 1 .. n BY <1>4 DEF Quiet, OverOf
<1>6. KeptInv(turns, snapshots) BY DEF ContinuesInv
<1>7. CASE named
  <2>1. previous = 0 /\ ReadKey(previous) = 0 BY <1>7 DEF ReadKey
  <2>2. ToSet(Lineage(previous)) = 1 .. n BY <1>4, <1>7, LineageIs
  <2>3. ToSet(snapshots[0].memory) = RanOf(turns, 1 .. n) BY <1>5, <1>6, <1>7 DEF KeptInv
  <2> QED BY <1>1, <1>3, <2>1, <2>2, <2>3
<1>8. CASE ~named /\ previous = 0
  <2>1. ReadKey(previous) = 0 /\ ToSet(Lineage(previous)) = {} BY <1>8, LineageIs DEF ReadKey
  <2>2. ToSet(snapshots[0].memory) = {} BY <1>6, <1>8 DEF KeptInv
  <2>3. RanOf(turns, {}) = {} BY DEF RanOf
  <2>4. k = snapshots[0] BY <1>1, <2>1
  <2>5. ToSet(k.memory) = RanOf(turns, ToSet(Lineage(previous))) BY <2>1, <2>2, <2>3, <2>4
  <2>6. ~(previous > 0) BY <1>8
  <2> QED BY <1>1, <1>3, <2>5, <2>6
<1>9. CASE ~named /\ previous # 0
  <2>1. ReadKey(previous) = previous /\ previous \in 1 .. n BY <1>4, <1>9 DEF ReadKey
  <2>2. ToSet(Lineage(previous)) = ToSet(turns[previous].line) \cup {previous} BY <1>9, LineageIs
  <2>3. snapshots[previous].kind = "session" /\ ToSet(snapshots[previous].memory) = RanOf(turns, ToSet(turns[previous].line) \cup {previous})
    BY <1>5, <1>6, <1>9, <2>1 DEF KeptInv
  <2>4. k = snapshots[previous] BY <1>1, <2>1
  <2>5. ToSet(k.memory) = RanOf(turns, ToSet(Lineage(previous))) /\ k.kind = "session" BY <2>2, <2>3, <2>4
  <2> QED BY <1>1, <1>3, <2>5
<1> QED BY <1>7, <1>8, <1>9

(* A turn that comes, with or without a snapshot of its own.               *)
LEMMA ComesContinues ==
  ASSUME HostedBase, ContinuesInv, Quiet, Len(turns) < MaxTurns, NEW s, Grows(turns, s, turns'), named' <=> named,
         LineInv(s), ToSet(s.line) \subseteq DOMAIN turns, named => ToSet(s.line) = DOMAIN turns,
         s.pc = "over" => s.session.memory = <<>>,
         s.pc # "over" => /\ s.pc = "starting" /\ snapshots' = snapshots /\ Increasing(s.session.memory)
                          /\ ToSet(s.session.memory) = RanOf(turns, ToSet(s.line)),
         s.pc = "over" => \E k : /\ snapshots' = [snapshots EXCEPT ![WriteKey(Len(turns) + 1)] = k]
                                 /\ k.kind = "session" /\ Increasing(k.memory)
                                 /\ ToSet(k.memory) = RanOf(turns, ToSet(s.line))
  PROVE  ContinuesInv'
<1>1. PICK n \in Nat : n = Len(turns) /\ DOMAIN turns = 1 .. n BY AppendGrows DEF HostedBase
<1>2. /\ DOMAIN turns' = 1 .. n + 1 /\ turns'[n + 1] = s /\ \A i \in 1 .. n : turns'[i] = turns[i]
      /\ \A i \in 1 .. n + 1 : i \in 1 .. n \/ i = n + 1
  BY <1>1 DEF Grows
<1>3. \A S \in SUBSET (1 .. n) : RanOf(turns', S) = RanOf(turns, S) BY <1>1, <1>2 DEF RanOf
<1>4. /\ OverOf(turns) = 1 .. n /\ OverOf(turns') \subseteq 1 .. n + 1 /\ 1 .. n \subseteq OverOf(turns')
      /\ n + 1 \in OverOf(turns') <=> s.pc = "over"
  BY <1>1, <1>2 DEF OverOf, Quiet
<1>5. \A i \in 1 .. n : ToSet(turns[i].line) \subseteq 1 .. n
  <2>1. \A i \in 1 .. n : \A x \in ToSet(turns[i].line) : x \in 1 .. i - 1 BY <1>1 DEF HostedBase, TurnOK
  <2> QED BY <1>1, <2>1
<1>6. ASSUME NEW i \in 1 .. n + 1 PROVE LineInv(turns'[i]) /\ MemoryInv(turns', i)
  <2>1. CASE i \in 1 .. n
    <3>1. turns'[i] = turns[i] /\ turns[i].pc = "over" BY <1>1, <1>2, <2>1 DEF Quiet
    <3>2. LineInv(turns[i]) BY <1>1, <2>1 DEF ContinuesInv
    <3> QED BY <3>1, <3>2 DEF MemoryInv
  <2>2. CASE i = n + 1
    <3>1. RanOf(turns', ToSet(s.line)) = RanOf(turns, ToSet(s.line)) BY <1>1, <1>3
    <3>2. MemoryInv(turns', i) BY <1>2, <2>2, <3>1 DEF MemoryInv
    <3> QED BY <1>2, <2>2, <3>2
  <2> QED BY <1>2, <2>1, <2>2
<1>7. named' => \A i \in 1 .. n + 1 : ToSet(turns'[i].line) = 1 .. i - 1
  <2>1. ASSUME named, NEW i \in 1 .. n + 1 PROVE ToSet(turns'[i].line) = 1 .. i - 1
    <3>1. CASE i \in 1 .. n BY <1>1, <1>2, <2>1, <3>1 DEF ContinuesInv
    <3>2. CASE i = n + 1
      <4>1. n + 1 - 1 = n BY <1>1
      <4> QED BY <1>1, <1>2, <2>1, <3>2, <4>1
    <3> QED BY <1>2, <3>1, <3>2
  <2> QED BY <2>1
<1>8. KeptInv(turns, snapshots) BY DEF ContinuesInv
<1>9. 0 \in 0 .. MaxTurns /\ 1 .. n + 1 \subseteq 0 .. MaxTurns /\ n + 1 # 0 /\ n + 1 \notin 1 .. n
  BY <1>1, HostedTurnAssumption
<1>10. CASE s.pc # "over"
  <2>1. snapshots' = snapshots /\ OverOf(turns') = OverOf(turns) BY <1>2, <1>4, <1>10
  <2>2. \A p \in 1 .. n : RanOf(turns', ToSet(turns'[p].line) \cup {p}) = RanOf(turns, ToSet(turns[p].line) \cup {p})
    <3>1. ASSUME NEW p \in 1 .. n
          PROVE  RanOf(turns', ToSet(turns'[p].line) \cup {p}) = RanOf(turns, ToSet(turns[p].line) \cup {p})
      <4>1. ToSet(turns[p].line) \cup {p} \in SUBSET (1 .. n) BY <1>5
      <4> QED BY <1>2, <1>3, <4>1
    <3> QED BY <3>1
  <2>3. RanOf(turns', OverOf(turns')) = RanOf(turns, OverOf(turns)) BY <1>3, <1>4, <2>1
  <2>4. KeptInv(turns, snapshots)' BY <1>4, <1>8, <2>1, <2>2, <2>3 DEF KeptInv
  <2> QED BY <1>2, <1>6, <1>7, <2>4 DEF ContinuesInv
<1>11. CASE s.pc = "over"
  <2>1. OverOf(turns') = 1 .. n + 1 BY <1>2, <1>4, <1>11
  <2>2. PICK k : /\ snapshots' = [snapshots EXCEPT ![WriteKey(n + 1)] = k]
                 /\ k.kind = "session" /\ Increasing(k.memory) /\ ToSet(k.memory) = RanOf(turns, ToSet(s.line))
    BY <1>1, <1>11
  <2>3. DOMAIN snapshots = 0 .. MaxTurns BY DEF HostedBase
  <2>4. n + 1 \notin ToSet(turns'[n + 1].session.memory) BY <1>2, <1>11, EmptyIs
  <2>5. \A S \in SUBSET (1 .. n) : RanOf(turns', S \cup {n + 1}) = RanOf(turns, S) BY <1>1, <1>2, <2>4 DEF RanOf
  <2>6. \A i \in 0 .. MaxTurns : /\ snapshots'[i].kind \in {"none", "session"} /\ Increasing(snapshots'[i].memory)
                                 /\ snapshots'[i].kind # "session" => snapshots'[i].memory = <<>>
    BY <1>8, <2>2, <2>3 DEF KeptInv
  <2>7. CASE named
    <3>1. snapshots'[0] = k BY <1>9, <2>2, <2>3, <2>7 DEF WriteKey
    <3>2. 1 .. n + 1 = (1 .. n) \cup {n + 1} BY <1>1
    <3>3. ToSet(k.memory) = RanOf(turns', OverOf(turns')) BY <1>1, <2>1, <2>2, <2>5, <2>7, <3>2
    <3>4. KeptInv(turns, snapshots)' BY <2>6, <2>7, <3>1, <3>3 DEF KeptInv
    <3> QED BY <1>2, <1>6, <1>7, <3>4 DEF ContinuesInv
  <2>8. CASE ~named
    <3>1. snapshots'[n + 1] = k /\ \A p \in 0 .. n : snapshots'[p] = snapshots[p]
      BY <1>1, <1>9, <2>2, <2>3, <2>8, HostedTurnAssumption DEF WriteKey
    <3>2. ToSet(snapshots'[0].memory) = {} BY <1>1, <1>8, <2>8, <3>1 DEF KeptInv
    <3>3. ASSUME NEW p \in 1 .. n + 1
          PROVE  snapshots'[p].kind = "session" /\ ToSet(snapshots'[p].memory) = RanOf(turns', ToSet(turns'[p].line) \cup {p})
      <4>1. CASE p = n + 1 BY <1>1, <1>2, <2>2, <2>5, <3>1, <4>1
      <4>2. CASE p \in 1 .. n
        <5>1. ToSet(turns[p].line) \cup {p} \in SUBSET (1 .. n) BY <1>5, <4>2
        <5>2. RanOf(turns', ToSet(turns'[p].line) \cup {p}) = RanOf(turns, ToSet(turns[p].line) \cup {p}) BY <1>2, <1>3, <4>2, <5>1
        <5>3. snapshots'[p] = snapshots[p] BY <1>1, <3>1, <4>2
        <5> QED BY <1>4, <1>8, <2>8, <4>2, <5>2, <5>3 DEF KeptInv
      <4> QED BY <1>2, <4>1, <4>2
    <3>4. KeptInv(turns, snapshots)' BY <2>1, <2>6, <2>8, <3>2, <3>3 DEF KeptInv
    <3> QED BY <1>2, <1>6, <1>7, <3>4 DEF ContinuesInv
  <2> QED BY <2>7, <2>8
<1> QED BY <1>10, <1>11

LEMMA BeginContinues == ASSUME HostedBase, ContinuesInv, BeginTurn PROVE ContinuesInv'
<1>1. Quiet /\ Len(turns) < MaxTurns BY BeginIs
<1>2. PICK previous \in IF named THEN {0} ELSE 0 .. Len(turns) :
        \E decided \in SUBSET Decidable(Lineage(previous)) : \E s : BeginsWith(previous, decided, s)
  BY BeginIs
<1>3. PICK decided, s : BeginsWith(previous, decided, s) BY <1>2
<1>4. PICK n \in Nat : n = Len(turns) /\ DOMAIN turns = 1 .. n BY AppendGrows DEF HostedBase
<1>5. PICK k : k = snapshots[ReadKey(previous)] OBVIOUS
<1>6. /\ ToSet(k.memory) = RanOf(turns, ToSet(Lineage(previous))) /\ Increasing(k.memory)
      /\ k.kind # "session" => k.memory = <<>>
      /\ previous > 0 => k.kind = "session"
  BY <1>1, <1>5, StoredRemembers
<1>7. /\ turns' = Append(turns, s) /\ snapshots' = snapshots /\ s.line = Lineage(previous)
      /\ s.pc = "starting" /\ s.status = ""
      /\ s.session = StartOf(previous) /\ s.given = Lineage(previous) \o StartOf(previous).slot
  BY <1>3, <1>5, <1>6 DEF BeginsWith
<1>8. /\ StartOf(previous).slot = <<>> /\ StartOf(previous).kind = "session"
      /\ StartOf(previous).memory = IF k.kind = "session" THEN k.memory ELSE <<>>
  BY <1>1, <1>5, StartOfIs
<1>9. s.session.memory = k.memory /\ s.session.kind = "session" BY <1>6, <1>7, <1>8
<1>10. Lineage(previous) \in Seq(Nat) /\ ToSet(Lineage(previous)) \subseteq 1 .. n /\ (named => ToSet(Lineage(previous)) = 1 .. n)
  BY <1>4, LineageIs
<1>11. s.given = s.line
  <2>1. Lineage(previous) \o <<>> = Lineage(previous) BY <1>10
  <2> QED BY <1>7, <1>8, <2>1
<1>12. LineInv(s) BY <1>7, <1>9, <1>11 DEF LineInv
<1>13. Grows(turns, s, turns') BY <1>7, AppendGrows DEF HostedBase
<1>14. named' <=> named BY Zenon DEF BeginTurn
<1>15. ToSet(s.line) \subseteq DOMAIN turns /\ (named => ToSet(s.line) = DOMAIN turns) BY <1>4, <1>7, <1>10
<1>16. s.pc # "over" => /\ s.pc = "starting" /\ snapshots' = snapshots /\ Increasing(s.session.memory)
                        /\ ToSet(s.session.memory) = RanOf(turns, ToSet(s.line))
  BY <1>6, <1>7, <1>9
<1>17. s.pc # "over" BY <1>7
<1> QED BY <1>1, <1>12, <1>13, <1>14, <1>15, <1>16, <1>17, ComesContinues

LEMMA AskContinues == ASSUME HostedBase, ContinuesInv, AskConsent PROVE ContinuesInv'
<1>1. Quiet /\ Len(turns) < MaxTurns BY AskIs
<1>0. PICK previous \in IF named THEN {0} ELSE 0 .. Len(turns) : \E s : AsksWith(previous, s) BY AskIs
<1>2. PICK s : AsksWith(previous, s) BY <1>0
<1>4. PICK n \in Nat : n = Len(turns) /\ DOMAIN turns = 1 .. n BY AppendGrows DEF HostedBase
<1>5. PICK k : k = snapshots[ReadKey(previous)] OBVIOUS
<1>6. /\ ToSet(k.memory) = RanOf(turns, ToSet(Lineage(previous))) /\ Increasing(k.memory)
      /\ k.kind # "session" => k.memory = <<>>
  BY <1>1, <1>5, StoredRemembers
<1>7. /\ turns' = Append(turns, s) /\ s.line = Lineage(previous) /\ s.given = s.line
      /\ s.pc = "over" /\ s.status = "incomplete" /\ s.session = NewSession
      /\ snapshots' = [snapshots EXCEPT ![WriteKey(Len(turns) + 1)] = StoredOrNew(previous)]
  BY <1>2 DEF AsksWith
<1>8. /\ StoredOrNew(previous).kind = "session" /\ Increasing(StoredOrNew(previous).memory)
      /\ ToSet(StoredOrNew(previous).memory) = RanOf(turns, ToSet(s.line))
  BY <1>5, <1>6, <1>7, NewSessionIs DEF StoredOrNew
<1>10. ToSet(Lineage(previous)) \subseteq 1 .. n /\ (named => ToSet(Lineage(previous)) = 1 .. n)
  BY <1>4, LineageIs
<1>12. LineInv(s) /\ s.session.memory = <<>> BY <1>7, NewSessionIs DEF LineInv
<1>13. Grows(turns, s, turns') BY <1>7, AppendGrows DEF HostedBase
<1>14. named' <=> named BY Zenon DEF AskConsent
<1>15. ToSet(s.line) \subseteq DOMAIN turns /\ (named => ToSet(s.line) = DOMAIN turns) BY <1>4, <1>7, <1>10
<1>16. \E c : /\ snapshots' = [snapshots EXCEPT ![WriteKey(Len(turns) + 1)] = c]
             /\ c.kind = "session" /\ Increasing(c.memory)
             /\ ToSet(c.memory) = RanOf(turns, ToSet(s.line))
  BY <1>7, <1>8
<1> QED BY <1>1, <1>7, <1>12, <1>13, <1>14, <1>15, <1>16, ComesContinues

(* A turn that moves.                                                      *)
LEMMA StepContinues ==
  ASSUME HostedBase, ContinuesInv, NEW t \in DOMAIN turns, NEW s, named' <=> named,
         RunsWith(t, s) \/ SaysWith(t, s) \/ TellsWith(t, s) \/ EndsWith(t, s)
  PROVE  ContinuesInv'
<1>1. MovesTo(t, s) /\ turns[t].pc # "over" BY DEF RunsWith, SaysWith, TellsWith, EndsWith
<1>2. PICK n \in Nat : n = Len(turns) /\ DOMAIN turns = 1 .. n BY AppendGrows DEF HostedBase
<1>3. Changes(turns, t, s, turns') BY <1>1, ExceptChanges DEF HostedBase, MovesTo
<1>4. /\ DOMAIN turns' = 1 .. n /\ turns'[t] = s /\ \A i \in 1 .. n : i # t => turns'[i] = turns[i]
  BY <1>2, <1>3 DEF Changes
<1>5. t = n /\ t \in 1 .. n /\ \A i \in 1 .. n : i # t => turns[i].pc = "over"
  <2>1. ~(t < n) BY <1>1, <1>2 DEF HostedBase
  <2>2. t \in 1 .. n /\ t = n BY <1>2, <2>1
  <2>3. \A i \in 1 .. n : i # t => i < Len(turns) BY <1>2, <2>2
  <2> QED BY <1>2, <2>2, <2>3 DEF HostedBase
<1>6. /\ LineInv(turns[t]) /\ MemoryInv(turns, t) /\ KeptInv(turns, snapshots)
      /\ named => ToSet(turns[t].line) = 1 .. t - 1
      /\ turns[t].session.memory \in Seq(Nat) /\ \A i \in 1 .. n : \A x \in ToSet(turns[i].line) : x \in 1 .. i - 1
  BY <1>2 DEF ContinuesInv, HostedBase, TurnOK, SnapshotOK
<1>7. LineInv(s) BY <1>1, <1>6 DEF LineInv, MovesTo
<1>8. \A S \in SUBSET (1 .. t - 1) : RanOf(turns', S) = RanOf(turns, S)
  <2>1. \A x \in 1 .. t - 1 : x \in 1 .. n /\ x # t BY <1>2, <1>5
  <2> QED BY <1>4, <2>1 DEF RanOf
<1>9. PICK S : S = RanOf(turns, ToSet(turns[t].line)) OBVIOUS
<1>10. S \subseteq 1 .. t - 1 /\ S = RanOf(turns', ToSet(s.line))
  <2>1. s.line = turns[t].line BY <1>1 DEF MovesTo
  <2> QED BY <1>5, <1>6, <1>8, <1>9, <2>1 DEF RanOf
<1>11. Increasing(s.session.memory) /\ ToSet(s.session.memory) = {t} \cup S
  <2>1. PICK m : m = turns[t].session.memory OBVIOUS
  <2>2. Increasing(m) /\ ToSet(m) = (IF turns[t].pc = "starting" THEN {} ELSE {t}) \cup S
    BY <1>1, <1>6, <1>9, <2>1 DEF MemoryInv
  <2>3. CASE RunsWith(t, s)
    <3>1. s.session.memory = Append(m, t) /\ ToSet(m) = S BY <2>1, <2>2, <2>3 DEF RunsWith
    <3>2. m \in Seq(Nat) /\ t \in Nat BY <1>5, <1>6, <2>1
    <3>3. PICK r : r = Append(m, t) OBVIOUS
    <3>4. PICK l \in Nat : l = Len(m) BY <3>2
    <3>5. /\ DOMAIN r = 1 .. l + 1 /\ DOMAIN m = 1 .. l /\ r[l + 1] = t /\ \A i \in 1 .. l : r[i] = m[i]
      BY <3>2, <3>3, <3>4
    <3>6. \A i \in 1 .. l + 1 : i \in 1 .. l \/ i = l + 1 BY <3>4
    <3>7. ToSet(r) = ToSet(m) \cup {t} BY <3>5, <3>6 DEF ToSet
    <3>8. \A i \in 1 .. l : m[i] \in S BY <3>1, <3>5 DEF ToSet
    <3>9. \A i \in 1 .. l : m[i] \in Nat /\ m[i] < t BY <1>2, <1>5, <1>10, <3>8
    <3>10. ASSUME NEW i \in 1 .. l + 1, NEW j \in 1 .. l + 1, i < j PROVE r[i] < r[j]
      <4>1. i \in 1 .. l BY <3>4, <3>10
      <4>2. CASE j = l + 1 BY <3>5, <3>9, <4>1, <4>2
      <4>3. CASE j \in 1 .. l BY <2>2, <3>5, <3>10, <4>1, <4>3 DEF Increasing
      <4> QED BY <3>6, <4>2, <4>3
    <3>11. Increasing(r) BY <3>5, <3>10 DEF Increasing
    <3> QED BY <3>1, <3>3, <3>7, <3>11
  <2>4. CASE SaysWith(t, s) \/ TellsWith(t, s) \/ EndsWith(t, s)
    <3>1. s.session.memory = m /\ turns[t].pc # "starting" BY <2>1, <2>4 DEF SaysWith, TellsWith, EndsWith
    <3> QED BY <2>2, <3>1
  <2> QED BY <2>3, <2>4
<1>12. ASSUME NEW i \in 1 .. n PROVE LineInv(turns'[i]) /\ MemoryInv(turns', i)
  <2>1. CASE i = t
    <3>1. s.pc # "starting" BY DEF RunsWith, SaysWith, TellsWith, EndsWith
    <3> QED BY <1>4, <1>7, <1>10, <1>11, <2>1, <3>1 DEF MemoryInv
  <2>2. CASE i # t
    <3>1. turns'[i] = turns[i] /\ turns[i].pc = "over" BY <1>4, <1>5, <2>2
    <3>2. LineInv(turns[i]) BY <1>2 DEF ContinuesInv
    <3> QED BY <3>1, <3>2 DEF MemoryInv
  <2> QED BY <2>1, <2>2
<1>13. named' => \A i \in 1 .. n : ToSet(turns'[i].line) = 1 .. i - 1
  <2>1. \A i \in 1 .. n : turns'[i].line = turns[i].line BY <1>1, <1>4 DEF MovesTo
  <2> QED BY <1>2, <2>1 DEF ContinuesInv
<1>14. \A p \in 1 .. t - 1 :
         /\ turns'[p] = turns[p] /\ ToSet(turns[p].line) \cup {p} \subseteq 1 .. t - 1
         /\ RanOf(turns', ToSet(turns'[p].line) \cup {p}) = RanOf(turns, ToSet(turns[p].line) \cup {p})
  <2>1. ASSUME NEW p \in 1 .. t - 1 PROVE turns'[p] = turns[p] /\ ToSet(turns[p].line) \cup {p} \subseteq 1 .. t - 1
    <3>1. p \in 1 .. n /\ p # t /\ 1 .. p - 1 \subseteq 1 .. t - 1 BY <1>2, <1>5
    <3> QED BY <1>4, <1>6, <3>1
  <2> QED BY <1>8, <2>1
<1>15. OverOf(turns) = 1 .. t - 1
  <2>1. 1 .. n = (1 .. t - 1) \cup {t} /\ t \notin 1 .. t - 1 BY <1>2, <1>5
  <2> QED BY <1>1, <1>2, <1>5, <2>1 DEF OverOf
<1>16. KeptInv(turns, snapshots)'
  <2>1. CASE RunsWith(t, s) \/ SaysWith(t, s) \/ TellsWith(t, s)
    <3>1. snapshots' = snapshots /\ s.pc # "over" BY <2>1 DEF RunsWith, SaysWith, TellsWith
    <3>2. OverOf(turns') = 1 .. t - 1
      <4>1. 1 .. n = (1 .. t - 1) \cup {t} /\ t \notin 1 .. t - 1 BY <1>2, <1>5
      <4> QED BY <1>4, <1>5, <3>1, <4>1 DEF OverOf
    <3>3. RanOf(turns', OverOf(turns')) = RanOf(turns, OverOf(turns)) BY <1>8, <1>15, <3>2
    <3> QED BY <1>6, <1>14, <1>15, <3>1, <3>2, <3>3 DEF KeptInv
  <2>2. CASE EndsWith(t, s)
    <3>1. PICK k : k = ClearLocalHistory(turns[t].session) OBVIOUS
    <3>2. snapshots' = [snapshots EXCEPT ![WriteKey(t)] = k] /\ s.pc = "over" /\ s.session.memory = turns[t].session.memory
      BY <2>2, <3>1 DEF EndsWith
    <3>3. k.kind = "session" /\ k.memory = s.session.memory
      <4>1. k = [turns[t].session EXCEPT !.slot = <<>>] BY <3>1 DEF ClearLocalHistory
      <4>2. k.kind = turns[t].session.kind /\ k.memory = turns[t].session.memory BY <4>1, FieldsAre DEF SnapshotFields
      <4> QED BY <1>6, <3>2, <4>2 DEF LineInv
    <3>4. 1 .. n = (1 .. t - 1) \cup {t} /\ t \notin 1 .. t - 1 BY <1>2, <1>5
    <3>5. OverOf(turns') = 1 .. n BY <1>4, <1>5, <3>2 DEF OverOf
    <3>6. DOMAIN snapshots = 0 .. MaxTurns /\ 0 \in 0 .. MaxTurns /\ 1 .. n \subseteq 0 .. MaxTurns
      <4>1. n <= MaxTurns BY <1>2 DEF HostedBase
      <4>2. DOMAIN snapshots = 0 .. MaxTurns BY DEF HostedBase
      <4> QED BY <1>2, <4>1, <4>2, HostedTurnAssumption
    <3>7. t \in ToSet(turns'[t].session.memory) BY <1>4, <1>11
    <3>8. \A T \in SUBSET (1 .. t - 1) : RanOf(turns', T \cup {t}) = RanOf(turns, T) \cup {t}
      BY <1>8, <3>7 DEF RanOf
    <3>9. \A i \in 0 .. MaxTurns : /\ snapshots'[i].kind \in {"none", "session"} /\ Increasing(snapshots'[i].memory)
                                   /\ snapshots'[i].kind # "session" => snapshots'[i].memory = <<>>
      BY <1>6, <1>11, <3>2, <3>3, <3>6 DEF KeptInv
    <3>10. CASE named
      <4>1. snapshots'[0] = k BY <3>2, <3>6, <3>10 DEF WriteKey
      <4>2. RanOf(turns', OverOf(turns')) = RanOf(turns, 1 .. t - 1) \cup {t} BY <3>4, <3>5, <3>8
      <4>3. S = RanOf(turns, 1 .. t - 1) BY <1>6, <1>9, <3>10
      <4>4. ToSet(snapshots'[0].memory) = RanOf(turns', OverOf(turns')) BY <1>11, <3>3, <4>1, <4>2, <4>3
      <4> QED BY <3>9, <3>10, <4>4 DEF KeptInv
    <3>11. CASE ~named
      <4>1. snapshots'[t] = k /\ \A p \in 0 .. t - 1 : snapshots'[p] = snapshots[p]
        <5>1. WriteKey(t) = t /\ t \in DOMAIN snapshots BY <1>5, <3>6, <3>11 DEF WriteKey
        <5>2. \A p \in 0 .. t - 1 : p # t /\ p \in DOMAIN snapshots BY <1>2, <1>5, <3>6
        <5> QED BY <3>2, <5>1, <5>2
      <4>2. ToSet(snapshots'[0].memory) = {}
        <5>1. 0 \in 0 .. t - 1 BY <1>5
        <5> QED BY <1>6, <3>11, <4>1, <5>1 DEF KeptInv
      <4>3. ASSUME NEW p \in 1 .. n
            PROVE  snapshots'[p].kind = "session" /\ ToSet(snapshots'[p].memory) = RanOf(turns', ToSet(turns'[p].line) \cup {p})
        <5>1. CASE p = t
          <6>1. turns'[t].line = turns[t].line BY <1>1, <1>4 DEF MovesTo
          <6>2. RanOf(turns', ToSet(turns[t].line) \cup {t}) = S \cup {t} BY <1>5, <1>6, <1>9, <3>8
          <6> QED BY <1>11, <3>3, <4>1, <5>1, <6>1, <6>2
        <5>2. CASE p # t
          <6>1. p \in 1 .. t - 1 /\ p \in 0 .. t - 1 BY <1>2, <1>5, <5>2
          <6>2. snapshots'[p] = snapshots[p] BY <4>1, <6>1
          <6>3. snapshots[p].kind = "session" /\ ToSet(snapshots[p].memory) = RanOf(turns, ToSet(turns[p].line) \cup {p})
            BY <1>6, <1>15, <3>11, <6>1 DEF KeptInv
          <6> QED BY <1>14, <6>1, <6>2, <6>3
        <5> QED BY <5>1, <5>2
      <4> QED BY <3>5, <3>9, <3>11, <4>2, <4>3 DEF KeptInv
    <3> QED BY <3>10, <3>11
  <2> QED BY <2>1, <2>2
<1> QED BY <1>4, <1>12, <1>13, <1>16 DEF ContinuesInv

LEMMA HostedNextContinues ==
  ASSUME ~EarlyAbandon, HostedBase, ContinuesInv, [HostedNext]_hostedVars
  PROVE  ContinuesInv'
<1>1. CASE BeginTurn BY <1>1, BeginContinues
<1>2. CASE AskConsent BY <1>2, AskContinues
<1>3. CASE \E t \in DOMAIN turns : Abandon(t) BY <1>3 DEF Abandon
<1>4. CASE \E t \in DOMAIN turns : RunAgent(t)
  <2>1. PICK t \in DOMAIN turns : RunAgent(t) BY <1>4
  <2>2. named' <=> named BY <2>1, Zenon DEF RunAgent
  <2> QED BY <2>1, <2>2, RunIs, StepContinues
<1>5. CASE \E t \in DOMAIN turns : SayContent(t)
  <2>1. PICK t \in DOMAIN turns : SayContent(t) BY <1>5
  <2>2. named' <=> named BY <2>1, Zenon DEF SayContent
  <2> QED BY <2>1, <2>2, SayIs, StepContinues
<1>6. CASE \E t \in DOMAIN turns : Tell(t)
  <2>1. PICK t \in DOMAIN turns : Tell(t) BY <1>6
  <2>2. named' <=> named BY <2>1, Zenon DEF Tell
  <2> QED BY <2>1, <2>2, TellIs, StepContinues
<1>7. CASE \E t \in DOMAIN turns : FinallyKeep(t)
  <2>1. PICK t \in DOMAIN turns : FinallyKeep(t) BY <1>7
  <2>2. named' <=> named BY <2>1, Zenon DEF FinallyKeep
  <2> QED BY <2>1, <2>2, FinallyIs, StepContinues
<1>8. CASE UNCHANGED hostedVars
  <2>1. turns' = turns /\ snapshots' = snapshots BY <1>8 DEF hostedVars
  <2>2. named' <=> named BY <1>8, Zenon DEF hostedVars
  <2> QED BY <2>1, <2>2 DEF ContinuesInv, KeptInv
<1> QED BY <1>1, <1>2, <1>3, <1>4, <1>5, <1>6, <1>7, <1>8 DEF HostedNext, HostedDone

(* A turn goes on where the one before it stopped, finished or not, and no *)
(* turn is refused for want of a session, when no caller is gone before    *)
(* the agent runs (handler.ts, the finally block; session-store.ts).       *)
THEOREM Continues == ASSUME ~EarlyAbandon PROVE HostedSpec => []ContinuesTheConversation
<1>1. HostedInit => HostedBase /\ ContinuesInv BY HostedInitBase, HostedInitContinues
<1>2. HostedBase /\ ContinuesInv /\ [HostedNext]_hostedVars => (HostedBase /\ ContinuesInv)'
  BY HostedNextBase, HostedNextContinues
<1>3. HostedBase /\ ContinuesInv => ContinuesTheConversation
  BY DEF ContinuesInv, LineInv, MemoryInv, RanOf, Increasing, ContinuesTheConversation, AbandonedIsResumable, Ran
<1> QED BY <1>1, <1>2, <1>3, PTL DEF HostedSpec

-----------------------------------------------------------------------------
(* An agent behind the Invocations protocol.                               *)

Fields == {"pc", "key", "behind", "session", "run", "said", "inner", "source", "read", "text",
           "pulling", "body", "told"}
InvokedTypeInv ==
  /\ DOMAIN turn = Requests /\ \A r \in Requests : DOMAIN turn[r] = Fields
  /\ locks \in [Keys -> Requests \cup {NoRequest}] /\ released \subseteq Requests
  /\ \A r \in Requests : turn[r].pc # "new" => turn[r].key \in Keys

(* A request is in the queue of its key until it has released the session. *)
Queued(r) == r \in Requests \ released /\ turn[r].pc # "new"
InQueue(k, r) == Queued(r) /\ Key(r) = k

(* The queue of each key, in the order at: its tail is the last, and who   *)
(* has somebody before it waits for one of them.                           *)
QueueInv(rk) ==
  \A k \in Keys :
    /\ locks[k] = NoRequest => \A r \in Requests : ~InQueue(k, r)
    /\ locks[k] # NoRequest => InQueue(k, locks[k])
    /\ \A r \in Requests : InQueue(k, r) => rk[r] <= rk[locks[k]]
    /\ \A r, q \in Requests : InQueue(k, r) /\ InQueue(k, q) /\ r # q =>
         /\ rk[r] # rk[q]
         /\ rk[r] < rk[q] => InQueue(k, turn[q].behind) /\ rk[r] <= rk[turn[q].behind]

(* Who has a turn was granted the session, and keeps it until it has       *)
(* released it; who has none has released it or waits for it.              *)
TurnInv(r) ==
  /\ turn[r].pc \in {"new", "waiting", "answering", "streaming", "over"}
  /\ turn[r].pc \in {"new", "waiting"} => r \notin released
  /\ turn[r].pc = "over" => r \in released
  /\ turn[r].behind \in Requests => turn[turn[r].behind].pc # "new"
  /\ turn[r].pc \in {"answering", "streaming"} => ~Queued(turn[r].behind)
  /\ turn[r].pc = "answering" => turn[r].run = "starting" /\ r \notin released
  /\ turn[r].pc \notin {"answering", "streaming"} => turn[r].run = "none"
  /\ Working(r) /\ ~Hurried(r) => r \notin released

(* The stream of a turn is over with its run, or cancelled with its body.  *)
Unused(r) ==
  /\ turn[r].body = "open" /\ turn[r].source = "open" /\ turn[r].read = "none" /\ turn[r].said = 0
  /\ turn[r].inner = <<>> /\ turn[r].text = <<>> /\ turn[r].told = <<>>
StreamInv(r) ==
  /\ turn[r].pc \in {"new", "waiting"} => Unused(r)
  /\ turn[r].body = "open" => turn[r].source # "cancelled" /\ turn[r].run # "left"
  /\ turn[r].source = "open" => turn[r].body = "open"
  /\ turn[r].source = "cancelled" /\ turn[r].run # "ending" => Hurried(r)
  /\ turn[r].source \notin {"open", "cancelled"} \/ turn[r].run = "left" => r \in released

(* What a turn holds of the texts on their way.                            *)
TextInv(r) ==
  /\ turn[r].said \in Nat /\ turn[r].told \in Seq(Nat)
  /\ turn[r].text \in Seq(Nat) /\ turn[r].inner \in Seq(Nat)
  /\ Open(r) =>
       /\ turn[r].run \in {"starting", "busy"} => turn[r].inner = <<>>
       /\ turn[r].read # "settled" => turn[r].text = <<>>
       /\ turn[r].read = "settled" /\ turn[r].text = <<>> => turn[r].source # "open"
       /\ turn[r].told \o turn[r].text \o turn[r].inner = [i \in 1 .. turn[r].said |-> i]

(* The session of who has a turn is kept.                                  *)
SessionInv ==
  /\ sessions \in Seq([key : Keys, by : Requests])
  /\ Len(sessions) <= MaxSessions
  /\ \A r \in Requests : Working(r) /\ r \notin released =>
       \E i \in 1 .. Len(sessions) : sessions[i] = [key |-> Key(r), by |-> turn[r].session]

InvokedInv ==
  /\ InvokedTypeInv /\ SessionInv
  /\ \E rk \in [Requests -> Nat] : QueueInv(rk)
  /\ \A r \in Requests : TurnInv(r) /\ StreamInv(r) /\ TextInv(r)

-----------------------------------------------------------------------------
(* Nothing is asked for, and nobody waits.                                 *)
LEMMA InvokedInitInv == ASSUME InvokedInit PROVE InvokedInv
<1>1. /\ DOMAIN turn = Requests /\ locks \in [Keys -> {NoRequest}] /\ released = {} /\ sessions = <<>>
      /\ \A r \in Requests : turn[r] = NewTurn
  BY DEF InvokedInit
<1>2. /\ DOMAIN NewTurn = Fields /\ NewTurn.pc = "new" /\ NewTurn.behind = NoRequest /\ NewTurn.run = "none"
      /\ NewTurn.said = 0 /\ NewTurn.inner = <<>> /\ NewTurn.text = <<>> /\ NewTurn.told = <<>>
      /\ NewTurn.body = "open" /\ NewTurn.source = "open" /\ NewTurn.read = "none"
  BY DEF NewTurn, Fields
<1>3. InvokedTypeInv BY <1>1, <1>2 DEF InvokedTypeInv
<1>4. SessionInv
  <2>1. sessions \in Seq([key : Keys, by : Requests]) /\ Len(sessions) = 0 BY <1>1
  <2> QED BY <1>1, <1>2, <2>1, InvocationsAssumption DEF SessionInv, Working
<1>5. \E rk \in [Requests -> Nat] : QueueInv(rk)
  <2>1. QueueInv([r \in Requests |-> 0]) BY <1>1, <1>2 DEF QueueInv, InQueue, Queued
  <2> QED BY <2>1
<1>6. ASSUME NEW r \in Requests PROVE TurnInv(r) /\ StreamInv(r) /\ TextInv(r)
  <2>1. TurnInv(r) BY <1>1, <1>2, InvocationsAssumption DEF TurnInv, Working
  <2>2. StreamInv(r) BY <1>1, <1>2 DEF StreamInv, Unused
  <2>3. TextInv(r)
    <3>1. <<>> \in Seq(Nat) OBVIOUS
    <3>2. ~Open(r) BY <1>1, <1>2 DEF Open, Streams
    <3>4. turn[r] = NewTurn BY <1>1
    <3>3. turn[r].said \in Nat BY <1>2, <3>4
    <3>5. turn[r].told \in Seq(Nat) /\ turn[r].text \in Seq(Nat) /\ turn[r].inner \in Seq(Nat)
      BY <1>2, <3>1, <3>4, Zenon
    <3> QED BY <3>2, <3>3, <3>5, Zenon DEF TextInv
  <2> QED BY <2>1, <2>2, <2>3
<1> QED BY <1>3, <1>4, <1>5, <1>6 DEF InvokedInv

-----------------------------------------------------------------------------
(* The queues.  Of a key at most one request waits for nobody.             *)
LEMMA OneHead ==
  ASSUME NEW rk \in [Requests -> Nat], QueueInv(rk), NEW k \in Keys, NEW r \in Requests, NEW q \in Requests,
         InQueue(k, r), InQueue(k, q), ~Queued(turn[r].behind), ~Queued(turn[q].behind)
  PROVE  r = q
<1> SUFFICES ASSUME r # q PROVE FALSE OBVIOUS
<1>1. rk[r] \in Nat /\ rk[q] \in Nat OBVIOUS
<1>2. ~(rk[r] < rk[q]) /\ ~(rk[q] < rk[r]) BY DEF QueueInv, InQueue
<1> QED BY <1>1, <1>2 DEF QueueInv

(* A request stays where it is in its queue.                               *)
Stays(q) ==
  /\ turn'[q].pc = "new" <=> turn[q].pc = "new"
  /\ turn'[q].key = turn[q].key /\ turn'[q].behind = turn[q].behind

LEMMA QueueKept ==
  ASSUME NEW rk \in [Requests -> Nat], QueueInv(rk), UNCHANGED <<locks, released>>,
         \A q \in Requests \ released : Stays(q)
  PROVE  QueueInv(rk)'
<1>1. \A k \in Keys : \A q : InQueue(k, q)' <=> InQueue(k, q) BY DEF InQueue, Queued, Stays, Key
<1>2. \A k \in Keys : \A q : InQueue(k, q) => turn'[q].behind = turn[q].behind BY DEF InQueue, Queued, Stays
<1> QED BY <1>1, <1>2 DEF QueueInv

(* The head of a queue leaves it, and its tail with it if it was the last. *)
LEMMA HeadLeaves ==
  ASSUME InvokedTypeInv, NEW rk \in [Requests -> Nat], QueueInv(rk), NEW h \in Requests, Unlocks(h),
         Queued(h), ~Queued(turn[h].behind), \A q \in Requests \ released' : Stays(q)
  PROVE  QueueInv(rk)'
<1>0. PICK k \in Keys : k = Key(h) BY DEF InvokedTypeInv, Queued, Key
<1>1. InQueue(k, h) BY <1>0 DEF Queued, InQueue
<1>2. released' = released \cup {h} BY DEF Unlocks
<1>3. /\ \A l \in Keys : l # k => locks'[l] = locks[l]
      /\ locks'[k] = IF locks[k] = h THEN NoRequest ELSE locks[k]
  BY <1>0 DEF Unlocks, InvokedTypeInv
<1>4. \A l \in Keys : \A q : InQueue(l, q)' <=> InQueue(l, q) /\ q # h BY <1>2 DEF InQueue, Queued, Stays, Key
<1>5. \A l \in Keys : \A q : InQueue(l, q)' => turn'[q].behind = turn[q].behind BY DEF InQueue, Queued, Stays
<1>6. \A l \in Keys : l # k => ~InQueue(l, h) BY <1>0 DEF InQueue
<1>7. ASSUME NEW q \in Requests, InQueue(k, q), q # h PROVE rk[h] < rk[q]
  <2>1. rk[h] \in Nat /\ rk[q] \in Nat /\ rk[h] # rk[q] BY <1>1, <1>7 DEF QueueInv
  <2>2. ~(rk[q] < rk[h]) BY <1>1, <1>7 DEF QueueInv, InQueue
  <2> QED BY <2>1, <2>2
<1>8. ASSUME NEW l \in Keys
      PROVE  /\ locks'[l] = NoRequest => \A r \in Requests : ~InQueue(l, r)'
             /\ locks'[l] # NoRequest => InQueue(l, locks[l])'
             /\ \A r \in Requests : InQueue(l, r)' => rk[r] <= rk[locks'[l]]
  <2>1. CASE l # k BY <2>1, <1>3, <1>4, <1>6 DEF QueueInv
  <2>2. CASE l = k /\ locks[k] # h
    <3>1. locks'[k] = locks[k] BY <2>2, <1>3
    <3> QED BY <2>2, <3>1, <1>1, <1>4 DEF QueueInv
  <2>3. CASE l = k /\ locks[k] = h
    <3>1. locks'[k] = NoRequest BY <2>3, <1>3
    <3>2. ASSUME NEW r \in Requests, InQueue(k, r)' PROVE FALSE
      <4>1. InQueue(k, r) /\ r # h BY <3>2, <1>1, <1>4
      <4>2. rk[h] < rk[r] BY <4>1, <1>7
      <4>3. rk[r] <= rk[h] BY <4>1, <1>1, <2>3 DEF QueueInv
      <4> QED BY <4>2, <4>3
    <3> QED BY <2>3, <3>1, <3>2
  <2> QED BY <2>1, <2>2, <2>3
<1>9. ASSUME NEW l \in Keys, NEW r \in Requests, NEW q \in Requests, InQueue(l, r)', InQueue(l, q)', r # q
      PROVE  /\ rk[r] # rk[q]
             /\ rk[r] < rk[q] => InQueue(l, turn[q].behind)' /\ rk[r] <= rk[turn'[q].behind]
  <2>1. InQueue(l, r) /\ InQueue(l, q) /\ r # h /\ q # h BY <1>4, <1>9
  <2>2. rk[r] # rk[q] BY <2>1, <1>9 DEF QueueInv
  <2>3. ASSUME rk[r] < rk[q] PROVE InQueue(l, turn[q].behind)' /\ rk[r] <= rk[turn'[q].behind]
    <3>1. InQueue(l, turn[q].behind) /\ rk[r] <= rk[turn[q].behind] BY <2>1, <2>3, <1>9 DEF QueueInv
    <3>2. turn'[q].behind = turn[q].behind BY <1>5, <1>9
    <3>3. turn[q].behind # h
      <4> SUFFICES ASSUME turn[q].behind = h PROVE FALSE OBVIOUS
      <4>1. l = k BY <3>1, <1>6
      <4>2. rk[h] < rk[r] BY <4>1, <2>1, <1>7
      <4>3. rk[r] \in Nat /\ rk[h] \in Nat OBVIOUS
      <4> QED BY <3>1, <4>2, <4>3
    <3> QED BY <3>1, <3>2, <3>3, <1>4
  <2> QED BY <2>2, <2>3
<1> QED BY <1>8, <1>9 DEF QueueInv

(* Who releases again what it has released changes nothing.                *)
LEMMA UnlockedBefore ==
  ASSUME InvokedTypeInv, NEW rk \in [Requests -> Nat], QueueInv(rk), NEW r \in Requests, r \in released,
         turn[r].pc # "new", Unlocks(r)
  PROVE  UNCHANGED <<locks, released>>
<1>1. Key(r) \in Keys BY DEF InvokedTypeInv, Key
<1>2. locks[Key(r)] # r BY <1>1, InvocationsAssumption DEF QueueInv, InQueue, Queued
<1>3. locks' = locks BY <1>1, <1>2 DEF Unlocks, InvokedTypeInv
<1> QED BY <1>3 DEF Unlocks

(* A request joins the queue of its key.                                   *)
LEMMA JoinsQueue ==
  ASSUME InvokedTypeInv, NEW rk \in [Requests -> Nat], QueueInv(rk), NEW r \in Requests, NEW k \in Keys,
         r \notin released, turn[r].pc = "new", turn'[r].pc # "new", turn'[r].key = k, turn'[r].behind = locks[k],
         locks' = [locks EXCEPT ![k] = r], released' = released,
         \A q \in Requests : q # r => turn'[q] = turn[q]
  PROVE  \E new \in [Requests -> Nat] : QueueInv(new)'
<1>1. PICK place \in Nat : place = IF locks[k] = NoRequest THEN 0 ELSE rk[locks[k]] + 1
  BY DEF InvokedTypeInv
<1>2. PICK new \in [Requests -> Nat] : new[r] = place /\ \A q \in Requests : q # r => new[q] = rk[q]
  <2>1. [rk EXCEPT ![r] = place] \in [Requests -> Nat] OBVIOUS
  <2> QED BY <2>1
<1>3. \A l \in Keys : ~InQueue(l, r) BY DEF InQueue, Queued
<1>4. \A l \in Keys, q \in Requests : q # r => (InQueue(l, q)' <=> InQueue(l, q))
  BY DEF InQueue, Queued, Key
<1>5. \A l \in Keys : InQueue(l, r)' <=> l = k BY DEF InQueue, Queued, Key
<1>6. \A l \in Keys : locks'[l] = IF l = k THEN r ELSE locks[l] BY DEF InvokedTypeInv
<1>7. \A l \in Keys : locks[l] # r BY <1>3, InvocationsAssumption DEF QueueInv
<1>8. \A l \in Keys : \A q : InQueue(l, q) => q \in Requests BY DEF InQueue, Queued
<1>9. ASSUME NEW q \in Requests, InQueue(k, q) PROVE rk[q] < place
  <2>1. locks[k] # NoRequest BY <1>9 DEF QueueInv
  <2>2. rk[q] <= rk[locks[k]] /\ locks[k] \in Requests BY <2>1, <1>9 DEF QueueInv, InvokedTypeInv
  <2> QED BY <2>1, <2>2, <1>1
<1>10. ASSUME NEW l \in Keys
       PROVE  /\ locks'[l] = NoRequest => \A q \in Requests : ~InQueue(l, q)'
              /\ locks'[l] # NoRequest => InQueue(l, locks[l])'
              /\ \A q \in Requests : InQueue(l, q)' => new[q] <= new[locks'[l]]
  <2>1. CASE l # k
    <3>1. locks'[l] = locks[l] /\ locks[l] # r BY <2>1, <1>6, <1>7
    <3>2. \A q \in Requests : InQueue(l, q)' => q # r /\ InQueue(l, q) BY <2>1, <1>4, <1>5
    <3>3. locks[l] # NoRequest => locks[l] \in Requests BY DEF InvokedTypeInv
    <3>4. locks[l] # NoRequest => InQueue(l, locks[l])' BY <3>1, <3>3, <1>4 DEF QueueInv
    <3>5. \A q \in Requests : InQueue(l, q)' => locks[l] # NoRequest /\ rk[q] <= rk[locks[l]] BY <3>2 DEF QueueInv
    <3>6. \A q \in Requests : InQueue(l, q)' => new[q] <= new[locks'[l]] BY <3>1, <3>2, <3>3, <3>5, <1>2
    <3> QED BY <3>1, <3>4, <3>5, <3>6
  <2>2. CASE l = k
    <3>1. locks'[l] = r /\ r # NoRequest BY <2>2, <1>6, InvocationsAssumption
    <3>2. \A q \in Requests : InQueue(l, q)' => new[q] <= new[r]
      BY <2>2, <1>1, <1>2, <1>4, <1>9
    <3> QED BY <2>2, <3>1, <3>2, <1>5
  <2> QED BY <2>1, <2>2
<1>11. ASSUME NEW l \in Keys, NEW p \in Requests, NEW q \in Requests, InQueue(l, p)', InQueue(l, q)', p # q
       PROVE  /\ new[p] # new[q]
              /\ new[p] < new[q] => InQueue(l, turn[q].behind)' /\ new[p] <= new[turn'[q].behind]
  <2>1. CASE p = r
    <3>1. l = k /\ InQueue(k, q) BY <2>1, <1>4, <1>5, <1>11
    <3>2. new[p] = place /\ new[q] = rk[q] /\ rk[q] < place BY <2>1, <3>1, <1>2, <1>9, <1>11
    <3> QED BY <3>2, <1>1
  <2>2. CASE q = r
    <3>1. l = k /\ InQueue(k, p) BY <2>2, <1>4, <1>5, <1>11
    <3>2. locks[k] # NoRequest /\ InQueue(k, locks[k]) /\ rk[p] <= rk[locks[k]] BY <3>1 DEF QueueInv
    <3>3. locks[k] \in Requests /\ locks[k] # r /\ turn'[q].behind = locks[k] BY <2>2, <3>2, <1>7, <1>8
    <3>4. InQueue(k, turn[q].behind)' BY <3>2, <3>3, <1>4
    <3>5. new[p] = rk[p] /\ new[locks[k]] = rk[locks[k]] /\ new[q] = place BY <2>2, <3>3, <1>2, <1>11
    <3>6. new[p] # new[q] BY <3>1, <3>5, <1>1, <1>9
    <3> QED BY <3>1, <3>2, <3>3, <3>4, <3>5, <3>6
  <2>3. CASE p # r /\ q # r
    <3>1. InQueue(l, p) /\ InQueue(l, q) /\ new[p] = rk[p] /\ new[q] = rk[q] /\ turn'[q] = turn[q]
      BY <2>3, <1>2, <1>4, <1>11
    <3>2. rk[p] # rk[q] BY <3>1, <1>11 DEF QueueInv
    <3>3. ASSUME rk[p] < rk[q] PROVE InQueue(l, turn[q].behind)' /\ new[p] <= new[turn'[q].behind]
      <4>1. InQueue(l, turn[q].behind) /\ rk[p] <= rk[turn[q].behind] BY <3>1, <3>3, <1>11 DEF QueueInv
      <4>2. turn[q].behind \in Requests /\ turn[q].behind # r BY <4>1, <1>3, <1>8
      <4> QED BY <3>1, <4>1, <4>2, <1>2, <1>4
    <3> QED BY <3>1, <3>2, <3>3
  <2> QED BY <2>1, <2>2, <2>3
<1>12. QueueInv(new)' BY <1>10, <1>11 DEF QueueInv
<1> QED BY <1>2, <1>12

-----------------------------------------------------------------------------
(* The texts: what is said next comes last, and a text that moves on stays *)
(* where it was among the others.                                          *)
Count(n) == [i \in 1 .. n |-> i]
LEMMA TextsMove ==
  ASSUME NEW a \in Seq(Nat), NEW b \in Seq(Nat), NEW n \in Nat
  PROVE  /\ a \o b \o <<>> = Count(n) => a \o b \o <<n + 1>> = Count(n + 1)
         /\ a \o <<>> \o b = a \o b \o <<>>
         /\ a \o b \o <<>> = a \o b
<1>1. a \o b \in Seq(Nat) /\ a \o <<>> = a /\ (a \o b) \o <<>> = a \o b BY ConcatEmptySeq
<1>2. ASSUME a \o b = Count(n) PROVE (a \o b) \o <<n + 1>> = Count(n + 1)
  <2>1. PICK c \in Seq(Nat) : c = a \o b BY <1>1
  <2>2. Len(c) = n /\ \A i \in 1 .. n : c[i] = i BY <2>1, <1>2 DEF Count
  <2>3. PICK d \in Seq(Nat) : d = c \o <<n + 1>>
    <3>1. <<n + 1>> \in Seq(Nat) OBVIOUS
    <3> QED BY <3>1, ConcatProperties
  <2>4. Len(d) = n + 1 /\ \A i \in 1 .. n + 1 : d[i] = i BY <2>2, <2>3
  <2>5. Count(n + 1) \in Seq(Nat) /\ Len(Count(n + 1)) = n + 1 /\ \A i \in 1 .. n + 1 : Count(n + 1)[i] = i
    BY DEF Count
  <2>6. d = Count(n + 1) BY <2>4, <2>5, SeqEqual
  <2> QED BY <2>1, <2>3, <2>6
<1> QED BY <1>1, <1>2

-----------------------------------------------------------------------------
(* What a turn is like when it stays as it was.                            *)
TurnsInv == \A r \in Requests : TurnInv(r) /\ StreamInv(r) /\ TextInv(r)
LEMMA OthersStay ==
  ASSUME TurnsInv, NEW q \in Requests, turn'[q] = turn[q], q \in released' <=> q \in released,
         \A p \in Requests : turn[p].pc # "new" => turn'[p].pc # "new" /\ (Queued(p)' => Queued(p))
  PROVE  TurnInv(q)' /\ StreamInv(q)' /\ TextInv(q)'
<1>1. TurnInv(q) /\ StreamInv(q) /\ TextInv(q) BY DEF TurnsInv
<1>2. TurnInv(q)' BY <1>1 DEF TurnInv, Working, Hurried, Queued
<1>3. StreamInv(q)' BY <1>1 DEF StreamInv, Unused, Hurried
<1>4. TextInv(q)' BY <1>1 DEF TextInv, Open, Streams
<1> QED BY <1>2, <1>3, <1>4

(* A turn that was granted its session goes on with it, or is over, while  *)
(* the sessions stay as they are.                                          *)
Moves(r) ==
  /\ UNCHANGED sessions /\ (Keeps \/ Unlocks(r))
  /\ turn[r].pc # "new" /\ ~Queued(turn[r].behind)
  /\ DOMAIN turn' = Requests /\ DOMAIN turn'[r] = Fields
  /\ \A q \in Requests : q # r => turn'[q] = turn[q]
  /\ turn'[r].pc # "new" /\ turn'[r].key = turn[r].key
  /\ r \in released' \/ turn'[r].behind = turn[r].behind
  /\ r \notin released' /\ Working(r)' => Working(r) /\ turn'[r].session = turn[r].session

LEMMA MovesInv ==
  ASSUME InvokedInv, NEW r \in Requests, Moves(r), TurnInv(r)', StreamInv(r)', TextInv(r)'
  PROVE  InvokedInv'
<1> USE DEF InvokedInv
<1>1. released' \in {released, released \cup {r}} BY DEF Moves, Keeps, Unlocks
<1>2. \A p \in Requests : turn[p].pc # "new" => turn'[p].pc # "new" /\ (Queued(p)' => Queued(p))
  BY <1>1 DEF Moves, Queued
<1>3. \A q \in Requests : TurnInv(q)' /\ StreamInv(q)' /\ TextInv(q)'
  <2> SUFFICES ASSUME NEW q \in Requests, q # r PROVE TurnInv(q)' /\ StreamInv(q)' /\ TextInv(q)' OBVIOUS
  <2>1. turn'[q] = turn[q] /\ (q \in released' <=> q \in released) BY <1>1 DEF Moves
  <2> QED BY <2>1, <1>2, OthersStay DEF TurnsInv
<1>4. InvokedTypeInv'
  <2>1. locks' \in [Keys -> Requests \cup {NoRequest}] BY DEF Moves, Keeps, Unlocks, InvokedTypeInv
  <2>2. released' \subseteq Requests BY <1>1 DEF InvokedTypeInv
  <2>3. \A q \in Requests : DOMAIN turn'[q] = Fields /\ (turn'[q].pc # "new" => turn'[q].key \in Keys)
    BY DEF Moves, InvokedTypeInv
  <2> QED BY <2>1, <2>2, <2>3 DEF Moves, InvokedTypeInv
<1>5. \E rk \in [Requests -> Nat] : QueueInv(rk)'
  <2>1. PICK rk \in [Requests -> Nat] : QueueInv(rk) OBVIOUS
  <2>2. \A q \in Requests \ released' : Stays(q) BY DEF Moves, Stays
  <2>3. CASE Keeps
    <3>1. UNCHANGED <<locks, released>> BY <2>3 DEF Keeps
    <3> QED BY <2>1, <2>2, <3>1, QueueKept
  <2>4. CASE Unlocks(r) /\ r \notin released
    <3>1. Queued(r) /\ ~Queued(turn[r].behind) BY <2>4 DEF Queued, Moves
    <3> QED BY <2>1, <2>2, <2>4, <3>1, HeadLeaves
  <2>5. CASE Unlocks(r) /\ r \in released
    <3>1. UNCHANGED <<locks, released>> BY <2>1, <2>5, UnlockedBefore DEF Moves
    <3> QED BY <2>1, <2>2, <3>1, QueueKept
  <2> QED BY <2>3, <2>4, <2>5 DEF Moves
<1>6. SessionInv'
  <2>1. \A q \in Requests : Working(q)' /\ q \notin released' =>
          Working(q) /\ q \notin released /\ turn'[q].key = turn[q].key /\ turn'[q].session = turn[q].session
    BY <1>1 DEF Moves, Working
  <2> QED BY <2>1 DEF Moves, SessionInv, Key
<1> QED BY <1>3, <1>4, <1>5, <1>6

-----------------------------------------------------------------------------
(* The steps.                                                              *)
LEMMA ArriveInv ==
  ASSUME InvokedInv, NEW r \in Requests, NEW k \in Keys, Arrive(r, k)
  PROVE  InvokedInv'
<1> USE DEF InvokedInv
<1>1. /\ DOMAIN turn' = Requests /\ \A q \in Requests : DOMAIN turn'[q] = Fields
      /\ \A q \in Requests : q # r => turn'[q] = turn[q]
      /\ turn'[r].pc = "waiting" /\ turn'[r].key = k /\ turn'[r].behind = locks[k]
      /\ turn'[r].run = turn[r].run /\ turn'[r].source = turn[r].source /\ turn'[r].body = turn[r].body
      /\ turn'[r].read = turn[r].read /\ turn'[r].said = turn[r].said
      /\ turn'[r].inner = turn[r].inner /\ turn'[r].text = turn[r].text /\ turn'[r].told = turn[r].told
  BY DEF Arrive, Set, InvokedTypeInv, Fields
<1>2. TurnInv(r) /\ StreamInv(r) /\ TextInv(r) /\ turn[r].pc = "new" BY DEF Arrive
<1>3. r \notin released /\ released' = released /\ sessions' = sessions /\ locks' = [locks EXCEPT ![k] = r]
  BY <1>2 DEF Arrive, TurnInv
<1>4. PICK rk \in [Requests -> Nat] : QueueInv(rk) OBVIOUS
<1>5. locks[k] # NoRequest => Queued(locks[k]) BY <1>4 DEF QueueInv, InQueue
<1>6. InvokedTypeInv' BY <1>1, <1>3 DEF InvokedTypeInv
<1>7. \E new \in [Requests -> Nat] : QueueInv(new)' BY <1>1, <1>2, <1>3, <1>4, JoinsQueue
<1>8. \A p \in Requests : turn[p].pc # "new" => turn'[p].pc # "new" /\ (Queued(p)' => Queued(p))
  BY <1>1, <1>3 DEF Queued
<1>9. TurnInv(r)'
  <2>1. turn[r].run = "none" BY <1>2 DEF TurnInv
  <2>2. turn'[r].behind \in Requests => turn'[turn'[r].behind].pc # "new"
    BY <1>1, <1>5, <1>8, InvocationsAssumption DEF Queued
  <2> QED BY <1>1, <1>3, <2>1, <2>2 DEF TurnInv, Working
<1>10. StreamInv(r)' BY <1>1, <1>2, <1>3 DEF StreamInv, Unused, TurnInv
<1>11. TextInv(r)' BY <1>1, <1>2 DEF TextInv, Open, Streams
<1>12. ASSUME NEW q \in Requests PROVE TurnInv(q)' /\ StreamInv(q)' /\ TextInv(q)'
  <2>1. CASE q = r BY <2>1, <1>9, <1>10, <1>11
  <2>2. CASE q # r BY <2>2, <1>1, <1>3, <1>8, OthersStay DEF TurnsInv
  <2> QED BY <2>1, <2>2
<1>13. SessionInv'
  <2>1. ~Working(r)' BY <1>1, <1>2 DEF Working, TurnInv
  <2>2. \A q \in Requests : Working(q)' => Working(q) /\ turn'[q] = turn[q] BY <2>1, <1>1 DEF Working
  <2> QED BY <2>2, <1>3 DEF SessionInv, Key
<1> QED BY <1>6, <1>7, <1>12, <1>13

(* A turn that is over is nothing but that.                                *)
LEMMA GoneInv ==
  ASSUME InvokedInv, NEW r \in Requests, Set(r, Gone(turn[r])), r \in released', released \subseteq released',
         turn[r].pc # "new"
  PROVE  /\ DOMAIN turn' = Requests /\ DOMAIN turn'[r] = Fields
         /\ \A q \in Requests : q # r => turn'[q] = turn[q]
         /\ turn'[r].pc = "over" /\ turn'[r].key = turn[r].key
         /\ TurnInv(r)' /\ StreamInv(r)' /\ TextInv(r)'
<1> USE DEF InvokedInv
<1>1. /\ DOMAIN turn' = Requests /\ DOMAIN turn'[r] = Fields /\ turn'[r] = Gone(turn[r])
      /\ \A q \in Requests : q # r => turn'[q] = turn[q]
  BY DEF Set, InvokedTypeInv, Gone, NewTurn, Fields
<1>2. /\ turn'[r].pc = "over" /\ turn'[r].key = turn[r].key /\ turn'[r].behind = NoRequest
      /\ turn'[r].run = "none" /\ turn'[r].source = "open" /\ turn'[r].body = "open" /\ turn'[r].said = 0
      /\ turn'[r].told = <<>> /\ turn'[r].text = <<>> /\ turn'[r].inner = <<>>
  BY <1>1 DEF Gone, NewTurn
<1>3. TurnInv(r)' BY <1>2, InvocationsAssumption DEF TurnInv, Working
<1>4. StreamInv(r)' BY <1>2 DEF StreamInv
<1>5. TextInv(r)'
  <2>1. <<>> \in Seq(Nat) OBVIOUS
  <2>2. turn'[r].said \in Nat BY <1>2
  <2>3. turn'[r].told \in Seq(Nat) /\ turn'[r].text \in Seq(Nat) /\ turn'[r].inner \in Seq(Nat) BY <1>2, <2>1, Zenon
  <2>4. ~Open(r)' BY <1>2 DEF Open, Streams
  <2> QED BY <2>2, <2>3, <2>4, Zenon DEF TextInv
<1> QED BY <1>1, <1>2, <1>3, <1>4, <1>5

(* A turn that ends is over, and its session released.                     *)
LEMMA EndsInv ==
  ASSUME InvokedInv, NEW r \in Requests, Set(r, Gone(turn[r])), UNCHANGED sessions,
         \/ Unlocks(r)
         \/ Keeps /\ r \in released,
         turn[r].pc # "new", ~Queued(turn[r].behind)
  PROVE  InvokedInv'
<1>1. r \in released' /\ released \subseteq released' BY DEF Unlocks, Keeps
<1>2. /\ DOMAIN turn' = Requests /\ DOMAIN turn'[r] = Fields
      /\ \A q \in Requests : q # r => turn'[q] = turn[q]
      /\ turn'[r].pc = "over" /\ turn'[r].key = turn[r].key
      /\ TurnInv(r)' /\ StreamInv(r)' /\ TextInv(r)'
  BY <1>1, GoneInv
<1>3. Moves(r) BY <1>1, <1>2 DEF Moves
<1> QED BY <1>2, <1>3, MovesInv

(* Who is granted the session waits for nobody in its queue.               *)
LEMMA GrantedIsHead == ASSUME NEW r \in Requests, Granted(r) PROVE ~Queued(turn[r].behind)
BY InvocationsAssumption DEF Granted, Queued

LEMMA RefuseInv == ASSUME InvokedInv, NEW r \in Requests, Refuse(r) PROVE InvokedInv'
<1>1. ~Queued(turn[r].behind) /\ turn[r].pc # "new" BY GrantedIsHead DEF Refuse, Granted
<1> QED BY <1>1, EndsInv DEF Refuse

LEMMA AnswerInv == ASSUME InvokedInv, NEW r \in Requests, Answer(r) PROVE InvokedInv'
<1>1. ~Queued(turn[r].behind) /\ turn[r].pc # "new" BY DEF Answer, InvokedInv, TurnInv
<1> QED BY <1>1, EndsInv DEF Answer

LEMMA LeftBehindInv == ASSUME InvokedInv, NEW r \in Requests, LeftBehind(r) PROVE InvokedInv'
<1>1. TurnInv(r) /\ StreamInv(r) BY DEF InvokedInv
<1>2. ~Queued(turn[r].behind) /\ turn[r].pc # "new" /\ r \in released
  BY <1>1 DEF LeftBehind, Streams, TurnInv, StreamInv
<1> QED BY <1>2, EndsInv DEF LeftBehind

(* A stream that goes on, of which only this may have changed.             *)
LEMMA StreamsOn ==
  ASSUME InvokedInv, NEW r \in Requests, Streams(r), UNCHANGED sessions, Keeps \/ Unlocks(r),
         NEW now, Set(r, now), DOMAIN now = Fields, now.pc = "streaming",
         now.key = turn[r].key, now.behind = turn[r].behind, now.session = turn[r].session,
         r \notin released' /\ Working(r)' => Working(r),
         Working(r)' /\ ~Hurried(r)' => r \notin released',
         StreamInv(r)', TextInv(r)'
  PROVE  InvokedInv'
<1>1. TurnInv(r) /\ released \subseteq Requests /\ DOMAIN turn = Requests BY DEF InvokedInv, InvokedTypeInv
<1>2. /\ DOMAIN turn' = Requests /\ turn'[r] = now /\ \A q \in Requests : q # r => turn'[q] = turn[q]
  BY <1>1 DEF Set
<1>3. ~Queued(turn[r].behind) BY <1>1 DEF TurnInv, Streams
<1>4. Moves(r) BY <1>2, <1>3 DEF Moves, Streams
<1>5. released' \in {released, released \cup {r}} BY DEF Keeps, Unlocks
<1>6. \A p \in Requests : turn[p].pc # "new" => turn'[p].pc # "new" /\ (Queued(p)' => Queued(p))
  BY <1>2, <1>5 DEF Queued
<1>7. TurnInv(r)'
  <2>1. turn'[r].pc = "streaming" /\ turn'[r].behind = turn[r].behind BY <1>2
  <2>2. turn'[r].behind \in Requests => turn'[turn'[r].behind].pc # "new" BY <2>1, <1>1, <1>6 DEF TurnInv
  <2>3. ~Queued(turn[r].behind)'
    <3>1. PICK b : b = turn[r].behind OBVIOUS
    <3>2. ~Queued(b) /\ (b \in Requests => turn[b].pc # "new") BY <1>1, <1>3, <3>1 DEF TurnInv
    <3>3. ~Queued(b)' BY <3>2, <1>6 DEF Queued
    <3> QED BY <2>1, <3>1, <3>3
  <2> QED BY <2>1, <2>2, <2>3 DEF TurnInv, Queued
<1> QED BY <1>4, <1>7, MovesInv

LEMMA BeginRunInv == ASSUME InvokedInv, NEW r \in Requests, BeginRun(r) PROVE InvokedInv'
<1>1. TurnInv(r) /\ StreamInv(r) /\ TextInv(r) /\ DOMAIN turn[r] = Fields /\ DOMAIN turn = Requests
  BY DEF InvokedInv, InvokedTypeInv
<1>2. PICK now : now = [turn[r] EXCEPT !.run = "busy"] OBVIOUS
<1>3. Set(r, now) /\ turn'[r] = now BY <1>1, <1>2 DEF BeginRun, Set
<1>4. /\ DOMAIN now = Fields /\ now.pc = "streaming" /\ now.run = "busy" /\ now.key = turn[r].key
      /\ now.behind = turn[r].behind /\ now.session = turn[r].session /\ now.body = turn[r].body
      /\ now.source = turn[r].source /\ now.read = turn[r].read /\ now.said = turn[r].said
      /\ now.inner = turn[r].inner /\ now.text = turn[r].text /\ now.told = turn[r].told
  BY <1>1, <1>2 DEF Fields, BeginRun, Streams
<1>5. released' = released /\ turn[r].run = "starting" /\ Streams(r) BY DEF BeginRun, Keeps
<1>6. Working(r) /\ (~Hurried(r)' => ~Hurried(r)) BY <1>3, <1>4, <1>5 DEF Working, Hurried
<1>7. StreamInv(r)' BY <1>1, <1>3, <1>4, <1>5 DEF StreamInv, Hurried
<1>8. TextInv(r)' BY <1>1, <1>3, <1>4, <1>5 DEF TextInv, Open, Streams
<1>9. Working(r)' /\ ~Hurried(r)' => r \notin released' BY <1>1, <1>5, <1>6 DEF TurnInv
<1> QED BY <1>3, <1>4, <1>5, <1>6, <1>7, <1>8, <1>9, StreamsOn DEF BeginRun

LEMMA AskInv == ASSUME InvokedInv, NEW r \in Requests, Ask(r) PROVE InvokedInv'
<1>1. TurnInv(r) /\ StreamInv(r) /\ TextInv(r) /\ DOMAIN turn[r] = Fields /\ DOMAIN turn = Requests
  BY DEF InvokedInv, InvokedTypeInv
<1>2. PICK now : now = [turn[r] EXCEPT !.run = IF draining THEN "ending" ELSE "busy"] OBVIOUS
<1>3. Set(r, now) /\ turn'[r] = now BY <1>1, <1>2 DEF Ask, Set
<1>4. /\ DOMAIN now = Fields /\ now.pc = "streaming" /\ now.run \in {"ending", "busy"} /\ now.key = turn[r].key
      /\ now.behind = turn[r].behind /\ now.session = turn[r].session /\ now.body = turn[r].body
      /\ now.source = turn[r].source /\ now.read = turn[r].read /\ now.said = turn[r].said
      /\ now.inner = turn[r].inner /\ now.text = turn[r].text /\ now.told = turn[r].told
  BY <1>1, <1>2 DEF Fields, Ask, Streams
<1>5. released' = released /\ turn[r].run = "parked" /\ turn[r].source = "open" /\ turn[r].inner = <<>> /\ Streams(r)
  BY DEF Ask, Keeps
<1>6. Working(r) /\ (~Hurried(r)' => ~Hurried(r)) BY <1>3, <1>4, <1>5 DEF Working, Hurried
<1>7. StreamInv(r)' BY <1>1, <1>3, <1>4, <1>5 DEF StreamInv, Hurried
<1>8. TextInv(r)' BY <1>1, <1>3, <1>4, <1>5 DEF TextInv, Open, Streams
<1>9. Working(r)' /\ ~Hurried(r)' => r \notin released' BY <1>1, <1>5, <1>6 DEF TurnInv
<1> QED BY <1>3, <1>4, <1>5, <1>6, <1>7, <1>8, <1>9, StreamsOn DEF Ask

LEMMA LastUpdateInv == ASSUME InvokedInv, NEW r \in Requests, LastUpdate(r) PROVE InvokedInv'
<1>1. TurnInv(r) /\ StreamInv(r) /\ TextInv(r) /\ DOMAIN turn[r] = Fields /\ DOMAIN turn = Requests
  BY DEF InvokedInv, InvokedTypeInv
<1>2. PICK now : now = [turn[r] EXCEPT !.run = "ending"] OBVIOUS
<1>3. Set(r, now) /\ turn'[r] = now BY <1>1, <1>2 DEF LastUpdate, Set
<1>4. /\ DOMAIN now = Fields /\ now.pc = "streaming" /\ now.run = "ending" /\ now.key = turn[r].key
      /\ now.behind = turn[r].behind /\ now.session = turn[r].session /\ now.body = turn[r].body
      /\ now.source = turn[r].source /\ now.read = turn[r].read /\ now.said = turn[r].said
      /\ now.inner = turn[r].inner /\ now.text = turn[r].text /\ now.told = turn[r].told
  BY <1>1, <1>2 DEF Fields, LastUpdate, Streams
<1>5. released' = released /\ turn[r].run = "busy" /\ Streams(r) BY DEF LastUpdate, Keeps
<1>6. Working(r) /\ (~Hurried(r)' => ~Hurried(r)) BY <1>3, <1>4, <1>5 DEF Working, Hurried
<1>7. StreamInv(r)' BY <1>1, <1>3, <1>4, <1>5 DEF StreamInv, Hurried
<1>8. TextInv(r)' BY <1>1, <1>3, <1>4, <1>5 DEF TextInv, Open, Streams
<1>9. Working(r)' /\ ~Hurried(r)' => r \notin released' BY <1>1, <1>5, <1>6 DEF TurnInv
<1> QED BY <1>3, <1>4, <1>5, <1>6, <1>7, <1>8, <1>9, StreamsOn DEF LastUpdate

LEMMA SayInv == ASSUME InvokedInv, NEW r \in Requests, Say(r) PROVE InvokedInv'
<1>1. TurnInv(r) /\ StreamInv(r) /\ TextInv(r) /\ DOMAIN turn[r] = Fields /\ DOMAIN turn = Requests
  BY DEF InvokedInv, InvokedTypeInv
<1>2. turn[r].run = "busy" /\ Streams(r) /\ Working(r) /\ sessions' = sessions BY DEF Say, Working
<1>3. CASE turn[r].source = "cancelled"
  <2>1. PICK now : now = [turn[r] EXCEPT !.run = "ending"] OBVIOUS
  <2>2. Set(r, now) /\ turn'[r] = now /\ Unlocks(r) BY <1>1, <1>3, <2>1 DEF Say, Set
  <2>3. /\ DOMAIN now = Fields /\ now.pc = "streaming" /\ now.run = "ending" /\ now.key = turn[r].key
        /\ now.behind = turn[r].behind /\ now.session = turn[r].session /\ now.body = turn[r].body
        /\ now.source = turn[r].source /\ now.read = turn[r].read /\ now.said = turn[r].said
        /\ now.inner = turn[r].inner /\ now.text = turn[r].text /\ now.told = turn[r].told
    BY <1>1, <1>2, <2>1 DEF Fields, Streams
  <2>4. Hurried(r) /\ Hurried(r)' BY <1>1, <1>2, <1>3, <2>2, <2>3 DEF StreamInv, Hurried
  <2>5. StreamInv(r)' BY <1>1, <1>2, <1>3, <2>2, <2>3, <2>4 DEF StreamInv, Hurried
  <2>6. TextInv(r)' BY <1>1, <2>2, <2>3, <2>4 DEF TextInv, Open, Streams, Hurried
  <2> QED BY <1>2, <2>2, <2>3, <2>4, <2>5, <2>6, StreamsOn
<1>4. CASE turn[r].source # "cancelled"
  <2>1. PICK now : now = [turn[r] EXCEPT !.run = "parked", !.said = @ + 1, !.inner = <<turn[r].said + 1>>] OBVIOUS
  <2>2. Set(r, now) /\ turn'[r] = now /\ Keeps BY <1>1, <1>4, <2>1 DEF Say, Set
  <2>3. /\ DOMAIN now = Fields /\ now.pc = "streaming" /\ now.run = "parked" /\ now.key = turn[r].key
        /\ now.behind = turn[r].behind /\ now.session = turn[r].session /\ now.body = turn[r].body
        /\ now.source = turn[r].source /\ now.read = turn[r].read /\ now.said = turn[r].said + 1
        /\ now.inner = <<turn[r].said + 1>> /\ now.text = turn[r].text /\ now.told = turn[r].told
    BY <1>1, <1>2, <2>1 DEF Fields, Streams
  <2>4. released' = released /\ (~Hurried(r)' => ~Hurried(r)) BY <2>2, <2>3 DEF Keeps, Hurried
  <2>5. StreamInv(r)' BY <1>1, <1>2, <1>4, <2>2, <2>3, <2>4 DEF StreamInv, Hurried, Streams
  <2>6. TextInv(r)'
    <3>1. /\ turn[r].said \in Nat /\ turn[r].told \in Seq(Nat) /\ turn[r].text \in Seq(Nat)
      BY <1>1 DEF TextInv
    <3>2. now.inner \in Seq(Nat) /\ now.said \in Nat BY <2>3, <3>1
    <3>3. ASSUME Open(r)
          PROVE  /\ turn[r].inner = <<>>
                 /\ turn[r].read # "settled" => turn[r].text = <<>>
                 /\ turn[r].read = "settled" /\ turn[r].text = <<>> => turn[r].source # "open"
                 /\ turn[r].told \o turn[r].text \o turn[r].inner = Count(turn[r].said)
      BY <1>1, <1>2, <3>3 DEF TextInv, Count
    <3>4. Open(r) => now.told \o now.text \o now.inner = Count(now.said)
      BY <2>3, <3>1, <3>3, TextsMove
    <3> QED BY <2>2, <2>3, <3>1, <3>2, <3>3, <3>4, <1>2 DEF TextInv, Open, Streams, Count
  <2>7. Working(r)' /\ ~Hurried(r)' => r \notin released' BY <1>1, <1>2, <2>4 DEF TurnInv
  <2> QED BY <1>2, <2>2, <2>3, <2>4, <2>5, <2>6, <2>7, StreamsOn
<1> QED BY <1>3, <1>4

LEMMA RunEndsInv == ASSUME InvokedInv, NEW r \in Requests, RunEnds(r) PROVE InvokedInv'
<1>1. TurnInv(r) /\ StreamInv(r) /\ TextInv(r) /\ DOMAIN turn[r] = Fields /\ DOMAIN turn = Requests
  BY DEF InvokedInv, InvokedTypeInv
<1>2. turn[r].run = "ending" /\ Streams(r) /\ sessions' = sessions /\ Unlocks(r) BY DEF RunEnds
<1>3. CASE turn[r].source = "cancelled"
  <2>1. Set(r, Gone(turn[r])) /\ ~Queued(turn[r].behind) /\ turn[r].pc # "new"
    BY <1>1, <1>2, <1>3 DEF RunEnds, TurnInv, Streams
  <2> QED BY <1>2, <2>1, EndsInv
<1>4. CASE turn[r].source # "cancelled"
  <2>0. PICK source \in {"closed", "errored"} : Set(r, [turn[r] EXCEPT !.run = "over", !.source = source])
    BY <1>4 DEF RunEnds
  <2>1. PICK now : now = [turn[r] EXCEPT !.run = "over", !.source = source] OBVIOUS
  <2>2. Set(r, now) /\ turn'[r] = now /\ r \in released' BY <1>1, <1>2, <2>0, <2>1 DEF Set, Unlocks
  <2>3. /\ DOMAIN now = Fields /\ now.pc = "streaming" /\ now.run = "over" /\ now.key = turn[r].key
        /\ now.behind = turn[r].behind /\ now.session = turn[r].session /\ now.body = turn[r].body
        /\ now.source = source /\ now.read = turn[r].read /\ now.said = turn[r].said
        /\ now.inner = turn[r].inner /\ now.text = turn[r].text /\ now.told = turn[r].told
    BY <1>1, <1>2, <2>1 DEF Fields, Streams
  <2>4. ~Working(r)' BY <2>2, <2>3 DEF Working
  <2>5. StreamInv(r)' BY <1>1, <1>2, <1>4, <2>2, <2>3 DEF StreamInv
  <2>6. TextInv(r)' BY <1>1, <1>2, <2>2, <2>3 DEF TextInv, Open, Streams
  <2> QED BY <1>2, <2>2, <2>3, <2>4, <2>5, <2>6, StreamsOn
<1> QED BY <1>3, <1>4

LEMMA PullBodyInv == ASSUME InvokedInv, NEW r \in Requests, PullBody(r) PROVE InvokedInv'
<1>1. TurnInv(r) /\ StreamInv(r) /\ TextInv(r) /\ DOMAIN turn[r] = Fields /\ DOMAIN turn = Requests
  BY DEF InvokedInv, InvokedTypeInv
<1>2. PICK now : now = [turn[r] EXCEPT !.pulling = TRUE, !.read = IF @ = "none" THEN "reading" ELSE @] OBVIOUS
<1>3. Set(r, now) /\ turn'[r] = now BY <1>1, <1>2 DEF PullBody, Set
<1>4. Streams(r) /\ Open(r) /\ released' = released BY DEF PullBody, Keeps, Open
<1>5. /\ DOMAIN now = Fields /\ now.pc = "streaming" /\ now.run = turn[r].run /\ now.key = turn[r].key
      /\ now.behind = turn[r].behind /\ now.session = turn[r].session /\ now.body = turn[r].body
      /\ now.source = turn[r].source /\ now.said = turn[r].said
      /\ now.inner = turn[r].inner /\ now.text = turn[r].text /\ now.told = turn[r].told
  BY <1>1, <1>2, <1>4 DEF Fields, Streams
<1>6. now.read = "settled" <=> turn[r].read = "settled" BY <1>1, <1>2 DEF Fields
<1>7. StreamInv(r)' BY <1>1, <1>3, <1>4, <1>5 DEF StreamInv, Hurried
<1>8. TextInv(r)' BY <1>1, <1>3, <1>4, <1>5, <1>6 DEF TextInv, Open, Streams
<1>9. /\ Working(r)' => Working(r)
      /\ Working(r)' /\ ~Hurried(r)' => r \notin released'
  BY <1>1, <1>3, <1>4, <1>5 DEF TurnInv, Working, Hurried
<1> QED BY <1>3, <1>4, <1>5, <1>7, <1>8, <1>9, StreamsOn DEF PullBody

LEMMA KeepAliveInv == ASSUME InvokedInv, NEW r \in Requests, KeepAlive(r) PROVE InvokedInv'
<1>1. TurnInv(r) /\ StreamInv(r) /\ TextInv(r) /\ DOMAIN turn[r] = Fields /\ DOMAIN turn = Requests
  BY DEF InvokedInv, InvokedTypeInv
<1>2. PICK now : now = [turn[r] EXCEPT !.pulling = FALSE] OBVIOUS
<1>3. Set(r, now) /\ turn'[r] = now BY <1>1, <1>2 DEF KeepAlive, Set
<1>4. Streams(r) /\ Open(r) /\ released' = released BY DEF KeepAlive, Keeps, Open
<1>5. /\ DOMAIN now = Fields /\ now.pc = "streaming" /\ now.run = turn[r].run /\ now.key = turn[r].key
      /\ now.behind = turn[r].behind /\ now.session = turn[r].session /\ now.body = turn[r].body
      /\ now.source = turn[r].source /\ now.read = turn[r].read /\ now.said = turn[r].said
      /\ now.inner = turn[r].inner /\ now.text = turn[r].text /\ now.told = turn[r].told
  BY <1>1, <1>2, <1>4 DEF Fields, Streams
<1>6. StreamInv(r)' BY <1>1, <1>3, <1>4, <1>5 DEF StreamInv, Hurried
<1>7. TextInv(r)' BY <1>1, <1>3, <1>4, <1>5 DEF TextInv, Open, Streams
<1>8. /\ Working(r)' => Working(r)
      /\ Working(r)' /\ ~Hurried(r)' => r \notin released'
  BY <1>1, <1>3, <1>4, <1>5 DEF TurnInv, Working, Hurried
<1> QED BY <1>3, <1>4, <1>5, <1>6, <1>7, <1>8, StreamsOn DEF KeepAlive

LEMMA SettleInv == ASSUME InvokedInv, NEW r \in Requests, Settle(r) PROVE InvokedInv'
<1>1. TurnInv(r) /\ StreamInv(r) /\ TextInv(r) /\ DOMAIN turn[r] = Fields /\ DOMAIN turn = Requests
  BY DEF InvokedInv, InvokedTypeInv
<1>2. PICK now : now = [turn[r] EXCEPT !.read = "settled", !.text = turn[r].inner, !.inner = <<>>] OBVIOUS
<1>3. Set(r, now) /\ turn'[r] = now BY <1>1, <1>2 DEF Settle, Set
<1>4. /\ Streams(r) /\ Open(r) /\ released' = released /\ turn[r].read = "reading"
      /\ turn[r].inner # <<>> \/ turn[r].source # "open"
  BY DEF Settle, Keeps, Open
<1>5. /\ DOMAIN now = Fields /\ now.pc = "streaming" /\ now.run = turn[r].run /\ now.key = turn[r].key
      /\ now.behind = turn[r].behind /\ now.session = turn[r].session /\ now.body = turn[r].body
      /\ now.source = turn[r].source /\ now.read = "settled" /\ now.said = turn[r].said
      /\ now.inner = <<>> /\ now.text = turn[r].inner /\ now.told = turn[r].told
  BY <1>1, <1>2, <1>4 DEF Fields, Streams
<1>6. StreamInv(r)' BY <1>1, <1>3, <1>4, <1>5 DEF StreamInv, Hurried
<1>7. TextInv(r)'
  <2>1. /\ turn[r].said \in Nat /\ turn[r].told \in Seq(Nat) /\ turn[r].inner \in Seq(Nat)
        /\ turn[r].text = <<>> /\ turn[r].told \o turn[r].text \o turn[r].inner = Count(turn[r].said)
    BY <1>1, <1>4 DEF TextInv, Count
  <2>2. <<>> \in Seq(Nat) OBVIOUS
  <2>3. now.inner \in Seq(Nat) BY <1>5, <2>2, Zenon
  <2>4. now.told \o now.text \o now.inner = Count(now.said) BY <1>5, <2>1, TextsMove
  <2>5. /\ now.said \in Nat /\ now.told \in Seq(Nat) /\ now.text \in Seq(Nat)
        /\ now.text = <<>> => now.source # "open"
    BY <1>4, <1>5, <2>1
  <2> QED BY <1>3, <1>5, <2>3, <2>4, <2>5 DEF TextInv, Count
<1>8. /\ Working(r)' => Working(r)
      /\ Working(r)' /\ ~Hurried(r)' => r \notin released'
  BY <1>1, <1>3, <1>4, <1>5 DEF TurnInv, Working, Hurried
<1> QED BY <1>3, <1>4, <1>5, <1>6, <1>7, <1>8, StreamsOn DEF Settle

LEMMA WakeInv == ASSUME InvokedInv, NEW r \in Requests, Wake(r) PROVE InvokedInv'
<1>1. TurnInv(r) /\ StreamInv(r) /\ TextInv(r) /\ DOMAIN turn[r] = Fields /\ DOMAIN turn = Requests
  BY DEF InvokedInv, InvokedTypeInv
<1>2. Streams(r) /\ Open(r) /\ Keeps /\ released' = released /\ sessions' = sessions /\ turn[r].read = "settled"
  BY DEF Wake, Keeps, Open
<1>3. CASE turn[r].text = <<>>
  <2>1. r \in released BY <1>1, <1>2, <1>3 DEF TextInv, StreamInv, Open
  <2>2. Set(r, Gone(turn[r])) /\ ~Queued(turn[r].behind) /\ turn[r].pc # "new"
    BY <1>1, <1>2, <1>3 DEF Wake, TurnInv, Streams
  <2> QED BY <1>2, <2>1, <2>2, EndsInv
<1>4. CASE turn[r].text # <<>>
  <2>1. PICK now : now = [turn[r] EXCEPT !.pulling = FALSE, !.read = "none", !.told = @ \o turn[r].text, !.text = <<>>]
    OBVIOUS
  <2>2. Set(r, now) /\ turn'[r] = now BY <1>1, <1>4, <2>1 DEF Wake, Set
  <2>3. /\ DOMAIN now = Fields /\ now.pc = "streaming" /\ now.run = turn[r].run /\ now.key = turn[r].key
        /\ now.behind = turn[r].behind /\ now.session = turn[r].session /\ now.body = turn[r].body
        /\ now.source = turn[r].source /\ now.read = "none" /\ now.said = turn[r].said
        /\ now.inner = turn[r].inner /\ now.text = <<>> /\ now.told = turn[r].told \o turn[r].text
    BY <1>1, <1>2, <2>1 DEF Fields, Streams
  <2>4. StreamInv(r)' BY <1>1, <1>2, <2>2, <2>3 DEF StreamInv, Hurried
  <2>5. TextInv(r)'
    <3>1. /\ turn[r].said \in Nat /\ turn[r].told \in Seq(Nat) /\ turn[r].text \in Seq(Nat)
          /\ turn[r].inner \in Seq(Nat) /\ turn[r].told \o turn[r].text \o turn[r].inner = Count(turn[r].said)
          /\ turn[r].run \in {"starting", "busy"} => turn[r].inner = <<>>
      BY <1>1, <1>2 DEF TextInv, Count
    <3>2. <<>> \in Seq(Nat) OBVIOUS
    <3>3. now.text \in Seq(Nat) BY <2>3, <3>2, Zenon
    <3>4. PICK said \in Seq(Nat) : said = turn[r].told \o turn[r].text BY <3>1, ConcatProperties
    <3>5. said \o <<>> = said BY ConcatEmptySeq
    <3>6. now.told \o now.text \o now.inner = Count(now.said) BY <2>3, <3>1, <3>4, <3>5
    <3> QED BY <2>2, <2>3, <3>1, <3>3, <3>4, <3>6 DEF TextInv, Count
  <2>6. /\ Working(r)' => Working(r)
        /\ Working(r)' /\ ~Hurried(r)' => r \notin released'
    BY <1>1, <1>2, <2>2, <2>3 DEF TurnInv, Working, Hurried
  <2> QED BY <1>2, <2>2, <2>3, <2>4, <2>5, <2>6, StreamsOn
<1> QED BY <1>3, <1>4

LEMMA CancelInv == ASSUME InvokedInv, NEW r \in Requests, Cancel(r) PROVE InvokedInv'
<1>1. TurnInv(r) /\ StreamInv(r) /\ TextInv(r) /\ DOMAIN turn[r] = Fields /\ DOMAIN turn = Requests
  BY DEF InvokedInv, InvokedTypeInv
<1>2. Streams(r) /\ Open(r) /\ sessions' = sessions BY DEF Cancel, Open
<1>3. CASE turn[r].source # "open"
  <2>1. r \in released BY <1>1, <1>2, <1>3 DEF StreamInv, Open
  <2>2. Set(r, Gone(turn[r])) /\ Keeps /\ ~Queued(turn[r].behind) /\ turn[r].pc # "new"
    BY <1>1, <1>2, <1>3 DEF Cancel, TurnInv, Streams
  <2> QED BY <1>2, <2>1, <2>2, EndsInv
<1>4. CASE turn[r].source = "open"
  <2>1. PICK ends, body : Set(r, HungUp(r, ends, body)) /\
           \/ turn[r].run = "parked" /\ ends = "ending" /\ body = "cancelled" /\ Keeps
           \/ turn[r].run = "busy" /\ ends = "busy" /\ body = "hurried" /\ Keeps
           \/ turn[r].run = "starting" /\ ends = "left" /\ body = "hurried" /\ Unlocks(r)
           \/ turn[r].run = "ending" /\ ends = "ending" /\ body = "hurried" /\ Unlocks(r)
    BY <1>4 DEF Cancel
  <2>2. PICK now : now = HungUp(r, ends, body) OBVIOUS
  <2>3. Set(r, now) /\ turn'[r] = now BY <1>1, <2>1, <2>2 DEF Set
  <2>4. /\ DOMAIN now = Fields /\ now.pc = "streaming" /\ now.run = ends /\ now.key = turn[r].key
        /\ now.behind = turn[r].behind /\ now.session = turn[r].session /\ now.body = body
        /\ now.source = "cancelled" /\ now.said = turn[r].said
        /\ now.inner = turn[r].inner /\ now.text = turn[r].text /\ now.told = turn[r].told
    BY <1>1, <1>2, <2>2 DEF Fields, Streams, HungUp
  <2>5. Working(r) BY <2>1 DEF Working
  <2>6. ~Hurried(r) /\ ~Open(r)' BY <1>2, <2>1, <2>3, <2>4 DEF Hurried, Open
  <2>7. r \notin released BY <1>1, <2>5, <2>6 DEF TurnInv
  <2>8. StreamInv(r)' BY <1>1, <2>1, <2>3, <2>4 DEF StreamInv, Hurried, Unlocks
  <2>9. TextInv(r)' BY <1>1, <2>3, <2>4, <2>6 DEF TextInv
  <2>10. Working(r)' /\ ~Hurried(r)' => r \notin released' BY <2>1, <2>3, <2>4, <2>7 DEF Hurried, Keeps
  <2> QED BY <1>2, <2>1, <2>3, <2>4, <2>5, <2>8, <2>9, <2>10, StreamsOn
<1> QED BY <1>3, <1>4

-----------------------------------------------------------------------------
(* The sessions of the keys.                                              *)
Entry == [key : Keys, by : Requests]
LEMMA SessionIsThere ==
  ASSUME SessionInv, NEW r \in Requests, Key(r) \in Keys, SessionFor(r)
  PROVE  /\ sessions' \in Seq(Entry) /\ Len(sessions') <= MaxSessions
         /\ Len(sessions') >= 1 /\ sessions'[Len(sessions')].key = Key(r)
         /\ \A j \in 1 .. Len(sessions) : sessions[j].key # Key(r) /\ locks[sessions[j].key] # NoRequest =>
              \E m \in 1 .. Len(sessions') : sessions'[m] = sessions[j]
<1>1. /\ sessions \in Seq(Entry) /\ Len(sessions) \in Nat /\ Len(sessions) <= MaxSessions /\ MaxSessions \in Nat
      /\ \A j \in 1 .. Len(sessions) : sessions[j] \in Entry
  <2>1. sessions \in Seq(Entry) BY DEF SessionInv, Entry
  <2>2. Len(sessions) \in Nat /\ \A j \in 1 .. Len(sessions) : sessions[j] \in Entry BY <2>1
  <2> QED BY <2>1, <2>2, InvocationsAssumption DEF SessionInv
<1>2. PICK new \in Entry : new = [key |-> Key(r), by |-> r] BY DEF Entry
<1>3. CASE \E i \in 1 .. Len(sessions) : sessions[i].key = Key(r) /\ Moved(i, sessions[i])
  <2>1. PICK i \in 1 .. Len(sessions) : sessions[i].key = Key(r) /\ Moved(i, sessions[i]) BY <1>3
  <2>2. /\ sessions' \in Seq(Entry) /\ Len(sessions') = Len(sessions)
        /\ sessions'[Len(sessions')] = sessions[i]
        /\ \A j \in 1 .. Len(sessions) : j # i => \E m \in 1 .. Len(sessions') : sessions'[m] = sessions[j]
    <3>1. sessions' = Append(RemoveAt(sessions, i), sessions[i]) BY <2>1 DEF Moved
    <3>2. sessions[i] \in Entry BY <1>1
    <3>3. Places(Entry, sessions, i, sessions[i], Append(RemoveAt(sessions, i), sessions[i]))
      BY <3>2, <1>1, OthersKeepPlaces
    <3> QED BY <3>1, <3>3 DEF Places
  <2>3. \A j \in 1 .. Len(sessions) : sessions[j].key # Key(r) => j # i BY <2>1
  <2> QED BY <2>1, <2>2, <2>3, <1>1
<1>4. CASE Len(sessions) < MaxSessions /\ sessions' = Append(sessions, new)
  <2>1. /\ sessions' \in Seq(Entry) /\ Len(sessions') = Len(sessions) + 1 /\ sessions'[Len(sessions')] = new
        /\ \A j \in 1 .. Len(sessions) : sessions'[j] = sessions[j]
    BY <1>1, <1>4
  <2> QED BY <2>1, <1>1, <1>2, <1>4
<1>5. CASE \E i \in Evictable : Moved(i, new)
  <2>1. PICK i \in 1 .. Len(sessions) : locks[sessions[i].key] = NoRequest /\ Moved(i, new) BY <1>5 DEF Evictable
  <2>2. /\ sessions' \in Seq(Entry) /\ Len(sessions') = Len(sessions)
        /\ sessions'[Len(sessions')] = new
        /\ \A j \in 1 .. Len(sessions) : j # i => \E m \in 1 .. Len(sessions') : sessions'[m] = sessions[j]
    <3>1. sessions' = Append(RemoveAt(sessions, i), new) BY <2>1 DEF Moved
    <3>2. Places(Entry, sessions, i, new, Append(RemoveAt(sessions, i), new))
      BY <1>1, <1>2, OthersKeepPlaces
    <3> QED BY <3>1, <3>2 DEF Places
  <2>3. \A j \in 1 .. Len(sessions) : locks[sessions[j].key] # NoRequest => j # i BY <2>1
  <2> QED BY <2>2, <2>3, <1>1, <1>2
<1> QED BY <1>2, <1>3, <1>4, <1>5 DEF SessionFor

LEMMA StartTurnInv == ASSUME InvokedInv, NEW r \in Requests, StartTurn(r) PROVE InvokedInv'
<1>1. TurnInv(r) /\ StreamInv(r) /\ TextInv(r) /\ DOMAIN turn[r] = Fields /\ DOMAIN turn = Requests
  BY DEF InvokedInv, InvokedTypeInv
<1>2. PICK pc \in {"answering", "streaming"} :
        Set(r, [turn[r] EXCEPT !.pc = pc, !.session = Last(sessions').by, !.run = "starting"])
  BY DEF StartTurn
<1>3. PICK now : now = [turn[r] EXCEPT !.pc = pc, !.session = Last(sessions').by, !.run = "starting"] OBVIOUS
<1>4. turn'[r] = now /\ DOMAIN turn' = Requests /\ \A q \in Requests : q # r => turn'[q] = turn[q]
  BY <1>1, <1>2, <1>3 DEF Set
<1>5. /\ DOMAIN now = Fields /\ now.pc = pc /\ now.run = "starting" /\ now.key = turn[r].key
      /\ now.behind = turn[r].behind /\ now.session = sessions'[Len(sessions')].by /\ now.body = turn[r].body
      /\ now.source = turn[r].source /\ now.read = turn[r].read /\ now.said = turn[r].said
      /\ now.inner = turn[r].inner /\ now.text = turn[r].text /\ now.told = turn[r].told
  BY <1>1, <1>3 DEF Fields, Last
<1>6. turn[r].pc = "waiting" /\ released' = released /\ locks' = locks BY DEF StartTurn, Granted
<1>7. r \notin released /\ Unused(r) /\ Queued(r) /\ ~Queued(turn[r].behind)
  BY <1>1, <1>6, GrantedIsHead DEF TurnInv, StreamInv, StartTurn, Queued
<1>8. Key(r) \in Keys BY <1>6 DEF InvokedInv, InvokedTypeInv, Key
<1>9. /\ sessions' \in Seq(Entry) /\ Len(sessions') <= MaxSessions
      /\ Len(sessions') >= 1 /\ sessions'[Len(sessions')].key = Key(r)
      /\ \A j \in 1 .. Len(sessions) : sessions[j].key # Key(r) /\ locks[sessions[j].key] # NoRequest =>
           \E m \in 1 .. Len(sessions') : sessions'[m] = sessions[j]
  BY <1>8, SessionIsThere DEF StartTurn, InvokedInv
<1>10. PICK rk \in [Requests -> Nat] : QueueInv(rk) BY DEF InvokedInv
<1>11. QueueInv(rk)'
  <2>1. \A q \in Requests \ released : Stays(q) BY <1>4, <1>5, <1>6 DEF Stays
  <2> QED BY <2>1, <1>6, <1>10, QueueKept
<1>12. InvokedTypeInv' BY <1>4, <1>5, <1>6 DEF InvokedInv, InvokedTypeInv
<1>13. \A p \in Requests : turn[p].pc # "new" => turn'[p].pc # "new" /\ (Queued(p)' => Queued(p))
  BY <1>4, <1>5, <1>6 DEF Queued
<1>14. TurnInv(r)'
  <2>1. PICK b : b = turn[r].behind OBVIOUS
  <2>2. ~Queued(b) /\ (b \in Requests => turn[b].pc # "new") BY <1>1, <1>7, <2>1 DEF TurnInv
  <2>3. ~Queued(b)' /\ (b \in Requests => turn'[b].pc # "new") BY <2>2, <1>13 DEF Queued
  <2>4. turn'[r].behind = b BY <1>4, <1>5, <2>1
  <2> QED BY <1>4, <1>5, <1>6, <1>7, <2>3, <2>4 DEF TurnInv
<1>15. StreamInv(r)' BY <1>4, <1>5, <1>7 DEF StreamInv, Unused
<1>16. TextInv(r)'
  <2>1. /\ turn'[r].said = 0 /\ turn'[r].told = <<>> /\ turn'[r].text = <<>> /\ turn'[r].inner = <<>>
        /\ turn'[r].read = "none"
    BY <1>4, <1>5, <1>7 DEF Unused
  <2>2. <<>> \in Seq(Nat) OBVIOUS
  <2>3. turn'[r].told \in Seq(Nat) /\ turn'[r].text \in Seq(Nat) /\ turn'[r].inner \in Seq(Nat)
    BY <2>1, <2>2, Zenon
  <2>4. turn'[r].told \o turn'[r].text \o turn'[r].inner = Count(turn'[r].said)
    <3>1. Count(0) = <<>> BY DEF Count
    <3>2. <<>> \o <<>> \o <<>> = <<>> BY <2>2, ConcatEmptySeq
    <3> QED BY <2>1, <3>1, <3>2
  <2>5. turn'[r].said \in Nat BY <2>1
  <2> QED BY <2>1, <2>3, <2>4, <2>5 DEF TextInv, Count
<1>17. ASSUME NEW q \in Requests PROVE TurnInv(q)' /\ StreamInv(q)' /\ TextInv(q)'
  <2>1. CASE q = r BY <2>1, <1>14, <1>15, <1>16
  <2>2. CASE q # r BY <2>2, <1>4, <1>6, <1>13, OthersStay DEF TurnsInv, InvokedInv
  <2> QED BY <2>1, <2>2
<1>18. ASSUME NEW q \in Requests, Working(q)', q \notin released'
       PROVE  \E i \in 1 .. Len(sessions') : sessions'[i] = [key |-> turn'[q].key, by |-> turn'[q].session]
  <2>1. CASE q = r
    <3>1. sessions'[Len(sessions')] \in Entry /\ Len(sessions') \in Nat BY <1>9
    <3>2. sessions'[Len(sessions')] = [key |-> turn'[r].key, by |-> turn'[r].session]
      BY <3>1, <1>4, <1>5, <1>9 DEF Entry, Key
    <3> QED BY <2>1, <3>1, <3>2, <1>9
  <2>2. CASE q # r
    <3>1. turn'[q] = turn[q] /\ Working(q) /\ q \notin released BY <2>2, <1>4, <1>6, <1>18 DEF Working
    <3>2. TurnInv(q) /\ turn[q].pc \in {"answering", "streaming"} BY <3>1 DEF InvokedInv, TurnInv, Working
    <3>3. Queued(q) /\ ~Queued(turn[q].behind) /\ Key(q) \in Keys
      BY <3>1, <3>2 DEF TurnInv, Queued, InvokedInv, InvokedTypeInv, Key
    <3>4. Key(q) # Key(r)
      <4> SUFFICES ASSUME Key(q) = Key(r) PROVE FALSE OBVIOUS
      <4>1. InQueue(Key(r), q) /\ InQueue(Key(r), r) BY <3>3, <1>7 DEF InQueue
      <4> QED BY <4>1, <1>7, <1>8, <1>10, <3>3, <2>2, OneHead
    <3>5. locks[Key(q)] # NoRequest BY <3>3, <1>10 DEF QueueInv, InQueue
    <3>6. PICK j \in 1 .. Len(sessions) : sessions[j] = [key |-> Key(q), by |-> turn[q].session]
      BY <3>1 DEF InvokedInv, SessionInv
    <3>7. \E m \in 1 .. Len(sessions') : sessions'[m] = sessions[j] BY <3>4, <3>5, <3>6, <1>9
    <3> QED BY <3>1, <3>6, <3>7 DEF Key
  <2> QED BY <2>1, <2>2
<1>19. SessionInv' BY <1>9, <1>18 DEF SessionInv, Entry, Key
<1> QED BY <1>11, <1>12, <1>17, <1>19 DEF InvokedInv

-----------------------------------------------------------------------------
(* Nothing happens to a turn.                                              *)
LEMMA NothingHappens == ASSUME InvokedInv, UNCHANGED <<sessions, locks, released, turn>> PROVE InvokedInv'
<1>1. InvokedTypeInv' /\ SessionInv'
  BY DEF InvokedInv, InvokedTypeInv, SessionInv, Working, Key
<1>2. \E rk \in [Requests -> Nat] : QueueInv(rk)' BY DEF InvokedInv, QueueInv, InQueue, Queued, Key
<1>3. \A q \in Requests : TurnInv(q)' /\ StreamInv(q)' /\ TextInv(q)'
  <2>1. \A p \in Requests : turn[p].pc # "new" => turn'[p].pc # "new" /\ (Queued(p)' => Queued(p)) BY DEF Queued
  <2> QED BY <2>1, OthersStay DEF TurnsInv, InvokedInv
<1> QED BY <1>1, <1>2, <1>3 DEF InvokedInv

(* Every step keeps the invariant.                                         *)
LEMMA InvokedNextInv == ASSUME InvokedInv, [InvokedNext]_invokedVars PROVE InvokedInv'
<1>1. ASSUME NEW r \in Requests, NEW k \in Keys, Arrive(r, k) PROVE InvokedInv' BY <1>1, ArriveInv
<1>2. ASSUME NEW r \in Requests, Refuse(r) PROVE InvokedInv' BY <1>2, RefuseInv
<1>3. ASSUME NEW r \in Requests, StartTurn(r) PROVE InvokedInv' BY <1>3, StartTurnInv
<1>4. ASSUME NEW r \in Requests, Answer(r) PROVE InvokedInv' BY <1>4, AnswerInv
<1>5. ASSUME NEW r \in Requests, BeginRun(r) PROVE InvokedInv' BY <1>5, BeginRunInv
<1>6. ASSUME NEW r \in Requests, Ask(r) PROVE InvokedInv' BY <1>6, AskInv
<1>7. ASSUME NEW r \in Requests, Say(r) PROVE InvokedInv' BY <1>7, SayInv
<1>8. ASSUME NEW r \in Requests, LastUpdate(r) PROVE InvokedInv' BY <1>8, LastUpdateInv
<1>9. ASSUME NEW r \in Requests, RunEnds(r) PROVE InvokedInv' BY <1>9, RunEndsInv
<1>10. ASSUME NEW r \in Requests, PullBody(r) PROVE InvokedInv' BY <1>10, PullBodyInv
<1>11. ASSUME NEW r \in Requests, Settle(r) PROVE InvokedInv' BY <1>11, SettleInv
<1>12. ASSUME NEW r \in Requests, KeepAlive(r) PROVE InvokedInv' BY <1>12, KeepAliveInv
<1>13. ASSUME NEW r \in Requests, Wake(r) PROVE InvokedInv' BY <1>13, WakeInv
<1>14. ASSUME NEW r \in Requests, Cancel(r) PROVE InvokedInv' BY <1>14, CancelInv
<1>15. ASSUME NEW r \in Requests, LeftBehind(r) PROVE InvokedInv' BY <1>15, LeftBehindInv
<1>16. ASSUME Drain \/ InvokedDone \/ UNCHANGED invokedVars PROVE InvokedInv'
  BY <1>16, NothingHappens DEF Drain, InvokedDone, invokedVars
<1> QED BY <1>1, <1>2, <1>3, <1>4, <1>5, <1>6, <1>7, <1>8, <1>9, <1>10, <1>11, <1>12, <1>13, <1>14, <1>15, <1>16
        DEF InvokedNext

(* The invariant keeps the turns apart.                                    *)
LEMMA InvokedInvImplies == ASSUME InvokedInv PROVE TurnsStayApart
<1>1. PICK rk \in [Requests -> Nat] : QueueInv(rk) BY DEF InvokedInv
<1>2. \A r \in Requests : TurnInv(r) /\ StreamInv(r) /\ TextInv(r) BY DEF InvokedInv
<1>3. ASSUME NEW r \in Requests, Working(r), ~Hurried(r)
      PROVE  Queued(r) /\ ~Queued(turn[r].behind) /\ Key(r) \in Keys
  <2>1. r \notin released /\ turn[r].pc \in {"answering", "streaming"} BY <1>2, <1>3 DEF TurnInv, Working
  <2> QED BY <2>1, <1>2 DEF Queued, TurnInv, InvokedInv, InvokedTypeInv, Key
<1>4. OneAfterTheOther
  <2> SUFFICES ASSUME NEW r \in Requests, Working(r), ~Hurried(r)
               PROVE  /\ \A q \in Requests : Alone(r, q) \/ Hurried(q)
                      /\ \E i \in 1 .. Len(sessions) : sessions[i] = [key |-> Key(r), by |-> turn[r].session]
    BY DEF OneAfterTheOther
  <2>1. ASSUME NEW q \in Requests, ~Hurried(q), r # q, Working(q), Key(r) = Key(q) PROVE FALSE
    <3>1. InQueue(Key(r), r) /\ InQueue(Key(r), q) BY <1>3, <2>1 DEF InQueue
    <3> QED BY <3>1, <1>1, <1>3, <2>1, OneHead
  <2>2. \A q \in Requests : Alone(r, q) \/ Hurried(q) BY <2>1 DEF Alone
  <2>3. r \notin released BY <1>3 DEF Queued
  <2> QED BY <2>2, <2>3 DEF InvokedInv, SessionInv
<1>5. NoneWaitsForever
  <2>1. \A r \in Requests : turn[r].pc = "over" => r \in released BY <1>2 DEF TurnInv
  <2>2. \A k \in Keys : locks[k] # NoRequest => locks[k] \notin released BY <1>1 DEF QueueInv, InQueue, Queued
  <2> QED BY <2>1, <2>2 DEF NoneWaitsForever, InvokedInv, SessionInv
<1>6. SaysAll BY <1>2 DEF SaysAll, TextInv
<1> QED BY <1>4, <1>5, <1>6 DEF TurnsStayApart

(* The turns of a session come one after the other, and the session of one *)
(* is not evicted under it; nobody is left to wait; a client reads each    *)
(* text once and in order: for any number of requests, keys, sessions and  *)
(* texts.                                                                  *)
THEOREM TurnsApart == InvokedSpec => []TurnsStayApart
<1>1. InvokedInit => InvokedInv BY InvokedInitInv
<1>2. InvokedInv /\ [InvokedNext]_invokedVars => InvokedInv' BY InvokedNextInv
<1>3. InvokedInv => TurnsStayApart BY InvokedInvImplies
<1> QED BY <1>1, <1>2, <1>3, PTL DEF InvokedSpec

-----------------------------------------------------------------------------
(* What the server makes of a handler's events.                            *)

(* The flags and the wire.                                                 *)
FlagsInv ==
  /\ created <=> wire # <<>>
  /\ inProgress => \E j \in 1..Len(wire) : wire[j] = "in_progress"
  /\ ~terminated => \A k \in 1..Len(wire) : wire[k] \notin Terminals
  /\ terminated => wire # <<>> /\ wire[Len(wire)] \in Terminals

(* An event waits only for its prefix; once the handler is over only a     *)
(* terminal event is left to send.                                         *)
HeldInv ==
  /\ held # None => held.type # "created" /\ created /\ ~terminated
  /\ (handler = "over" /\ at = "open") => held # None /\ held.type \in Terminals

EndedInv ==
  /\ at = "ended" => terminated
  /\ at = "threw" => ~created

(* No item is twice in the output, and what was reported is there.         *)
Distinct(output) ==
  \A k, l \in 1..Len(output) :
     k # l /\ output[k].id # NoId => output[k].id # output[l].id
Kept(output, items) == \A item \in items : \E k \in 1..Len(output) : output[k] = item
OutputInv == Distinct(tracked.output) /\ Kept(tracked.output, reported)

EventsInv ==
  /\ TypeOK /\ WellFormed /\ TerminalIsTheResource
  /\ FlagsInv /\ HeldInv /\ EndedInv /\ OutputInv

-----------------------------------------------------------------------------
(* What an event may carry.                                                *)
LEMMA EventFields ==
  ASSUME NEW e \in Events
  PROVE  /\ e.type \in Types
         /\ e.type \in Prefix \cup Terminals => e.response \in Carried \cup {None}
         /\ e.type = "item_done" => e.item \in Items
<1>1. CASE e \in [type : Prefix, response : [status : {"queued", "in_progress"}, output : Outputs] \cup {None}]
  BY <1>1 DEF Types, Prefix, Terminals, Carried, Statuses
<1>2. CASE e \in [type : Terminals, response : Carried \cup {None}]
  BY <1>2 DEF Types, Prefix, Terminals
<1>3. CASE e \in [type : {"item_done"}, item : Items]
  BY <1>3 DEF Types, Prefix, Terminals
<1>4. CASE e \in [type : {"delta"}]
  BY <1>4 DEF Types, Prefix, Terminals
<1> QED
  BY <1>1, <1>2, <1>3, <1>4 DEF Events

(* #appendItem: the item is in the output that results, and so is all that *)
(* the output had of other ids.                                            *)
LEMMA AppendItemKeeps ==
  ASSUME NEW output \in Seq(Items), NEW item \in Items, Distinct(output)
  PROVE  /\ AppendItem(output, item) \in Seq(Items)
         /\ Distinct(AppendItem(output, item))
         /\ \E k \in 1..Len(AppendItem(output, item)) : AppendItem(output, item)[k] = item
         /\ \A k \in 1..Len(output) :
               output[k].id = NoId \/ output[k].id # item.id
               => \E l \in 1..Len(AppendItem(output, item)) :
                     AppendItem(output, item)[l] = output[k]
<1> DEFINE longer == AppendItem(output, item)
<1>0. Len(output) \in Nat
  BY LenProperties
<1>1. CASE SameId(output, item) = {}
  <2>1. /\ longer \in Seq(Items) /\ Len(longer) = Len(output) + 1
        /\ \A k \in 1..Len(output) : longer[k] = output[k]
        /\ longer[Len(output) + 1] = item
    BY <1>0, <1>1, AppendProperties DEF AppendItem
  <2> HIDE DEF longer
  <2>2. \A k \in 1..Len(output) : item.id # NoId => output[k].id # item.id
    BY <1>1 DEF SameId
  <2>3. Distinct(longer)
    <3> SUFFICES ASSUME NEW k \in 1..Len(longer), NEW l \in 1..Len(longer),
                        k # l, longer[k].id # NoId
                 PROVE  longer[k].id # longer[l].id
      BY DEF Distinct
    <3>1. CASE k \in 1..Len(output) /\ l \in 1..Len(output)
      BY <3>1, <2>1 DEF Distinct
    <3>2. CASE k \in 1..Len(output) /\ l = Len(output) + 1
      BY <3>2, <2>1, <2>2
    <3>3. CASE k = Len(output) + 1 /\ l \in 1..Len(output)
      BY <3>3, <2>1, <2>2
    <3> QED
      BY <3>1, <3>2, <3>3, <2>1, <1>0
  <2>4. Len(output) + 1 \in 1..Len(longer) /\ 1..Len(output) \subseteq 1..Len(longer)
    BY <2>1, <1>0
  <2> QED
    BY <2>1, <2>3, <2>4 DEF longer
<1>2. CASE SameId(output, item) # {}
  <2>1. PICK j \in SameId(output, item) : TRUE
    BY <1>2
  <2>2. j \in 1..Len(output) /\ item.id # NoId /\ output[j].id = item.id
    BY <2>1 DEF SameId
  <2>3. \A l \in SameId(output, item) : l = j
    BY <2>2 DEF SameId, Distinct
  <2>4. (CHOOSE k \in SameId(output, item) : \A l \in SameId(output, item) : k <= l) = j
    <3>1. j \in Nat BY <2>2, <1>0
    <3>2. \A l \in SameId(output, item) : j <= l BY <2>3, <3>1
    <3>3. \E k \in SameId(output, item) : \A l \in SameId(output, item) : k <= l BY <2>1, <3>2
    <3>4. (CHOOSE k \in SameId(output, item) : \A l \in SameId(output, item) : k <= l) \in SameId(output, item)
      BY <3>3, Zenon
    <3> QED BY <2>3, <3>4, Zenon
  <2>5. longer = [output EXCEPT ![j] = item]
    BY <1>2, <2>4 DEF AppendItem
  <2>6. /\ longer \in Seq(Items) /\ Len(longer) = Len(output)
        /\ \A k \in 1..Len(output) : longer[k] = IF k = j THEN item ELSE output[k]
    BY <2>2, <2>5, ExceptSeq
  <2> HIDE DEF longer
  <2>7. \A k \in 1..Len(output) : longer[k].id = output[k].id
    BY <2>2, <2>6
  <2>8. Distinct(longer)
    BY <2>6, <2>7 DEF Distinct
  <2>9. longer[j] = item /\ j \in 1..Len(longer)
    BY <2>2, <2>6
  <2>10. ASSUME NEW k \in 1..Len(output), output[k].id = NoId \/ output[k].id # item.id
         PROVE  \E l \in 1..Len(longer) : longer[l] = output[k]
    BY <2>10, <2>2, <2>6
  <2> QED
    BY <2>6, <2>8, <2>9, <2>10 DEF longer
<1> QED
  BY <1>1, <1>2

(* Folding an event gives a resource; a terminal event decides its status. *)
LEMMA FoldedResource ==
  ASSUME TypeOK, Distinct(tracked.output), NEW e \in Events
  PROVE  /\ Folded(e) \in Resources
         /\ e.type \in Terminals => Folded(e).status = e.type
<1>1. /\ tracked.status \in Statuses /\ tracked.output \in Seq(Items)
  BY DEF TypeOK, Resources
<1>2. FoldedStatus(e) \in Statuses
  BY <1>1, EventFields DEF FoldedStatus, Carries, Statuses, Terminals, Prefix, Carried
<1>3. FoldedOutput(e) \in Seq(Items)
  <2>1. CASE HasOutput(e)
    <3>1. e.response \in Carried
      BY <2>1, EventFields DEF HasOutput, Carries
    <3>2. e.type # "item_done"
      BY <2>1 DEF HasOutput, Carries, Prefix, Terminals
    <3>3. FoldedOutput(e) = e.response.output
      BY <2>1, <3>2 DEF FoldedOutput
    <3> QED
      BY <3>1, <3>3, OutputsAssumption DEF Carried
  <2>2. CASE ~HasOutput(e) /\ e.type = "item_done"
    BY <2>2, <1>1, EventFields, AppendItemKeeps DEF FoldedOutput
  <2>3. CASE ~HasOutput(e) /\ e.type # "item_done"
    BY <2>3, <1>1 DEF FoldedOutput
  <2> QED
    BY <2>1, <2>2, <2>3
<1>4. e.type \in Terminals => FoldedStatus(e) = e.type
  BY DEF FoldedStatus, Terminals
<1> QED
  BY <1>2, <1>3, <1>4 DEF Folded, Resources

-----------------------------------------------------------------------------
(* Sending one more event keeps the wire well formed.                      *)
Formed(w) ==
  \A k \in 1..Len(w) :
     /\ (w[k] = "created") <=> (k = 1)
     /\ w[k] \notin Prefix => \E j \in 1..(k - 1) : w[j] = "in_progress"
     /\ w[k] \in Terminals => k = Len(w)

(* One more event keeps a stream well formed, if it is created exactly     *)
(* when it is the first and only a prefix event comes before in_progress.  *)
LEMMA Sent ==
  ASSUME NEW w \in Seq(Types), NEW type \in Types, Formed(w),
         \A k \in 1..Len(w) : w[k] \notin Terminals,
         type = "created" <=> w = <<>>,
         type \notin Prefix => \E j \in 1..Len(w) : w[j] = "in_progress"
  PROVE  /\ Append(w, type) \in Seq(Types)
         /\ Append(w, type) # <<>>
         /\ Formed(Append(w, type))
         /\ Append(w, type)[Len(Append(w, type))] = type
         /\ (\E j \in 1..Len(w) : w[j] = "in_progress") \/ type = "in_progress"
            => \E j \in 1..Len(Append(w, type)) : Append(w, type)[j] = "in_progress"
         /\ type \notin Terminals
            => \A k \in 1..Len(Append(w, type)) : Append(w, type)[k] \notin Terminals
<1> DEFINE v == Append(w, type)
<1>1. Len(w) \in Nat
  BY LenProperties
<1>2. /\ v \in Seq(Types) /\ v # <<>> /\ Len(v) = Len(w) + 1
      /\ \A k \in 1..Len(w) : v[k] = w[k]
      /\ v[Len(w) + 1] = type
  BY <1>1, AppendProperties
<1> HIDE DEF v
<1>3. w = <<>> <=> Len(w) = 0
  BY EmptySeq
<1>4. ASSUME NEW k \in 1..Len(v)
      PROVE  /\ (v[k] = "created") <=> (k = 1)
             /\ v[k] \notin Prefix => \E j \in 1..(k - 1) : v[j] = "in_progress"
             /\ v[k] \in Terminals => k = Len(v)
  <2>1. CASE k \in 1..Len(w)
    <3>1. /\ (w[k] = "created") <=> (k = 1)
          /\ w[k] \notin Prefix => \E j \in 1..(k - 1) : w[j] = "in_progress"
          /\ w[k] \notin Terminals /\ v[k] = w[k]
      BY <2>1, <1>2 DEF Formed
    <3>2. \A j \in 1..(k - 1) : v[j] = w[j]
      BY <2>1, <1>1, <1>2
    <3> QED
      BY <3>1, <3>2
  <2>2. CASE k = Len(w) + 1
    <3>1. v[k] = type /\ k - 1 = Len(w)
      BY <2>2, <1>1, <1>2
    <3>2. (type = "created") <=> (k = 1)
      BY <2>2, <1>1, <1>3
    <3> QED
      BY <3>1, <3>2, <1>2, <2>2
  <2> QED
    BY <2>1, <2>2, <1>1, <1>2
<1>5. Formed(v)
  BY <1>4 DEF Formed
<1>6. v[Len(v)] = type
  BY <1>2
<1>7. (\E j \in 1..Len(w) : w[j] = "in_progress") \/ type = "in_progress"
      => \E j \in 1..Len(v) : v[j] = "in_progress"
  BY <1>1, <1>2
<1>8. type \notin Terminals => \A k \in 1..Len(v) : v[k] \notin Terminals
  BY <1>1, <1>2
<1> QED
  BY <1>2, <1>5, <1>6, <1>7, <1>8 DEF v

(* The first event of a stream is created.                                 *)
LEMMA SentFirst ==
  ASSUME NEW w, NEW after, w = <<>>, after = Append(w, "created")
  PROVE  /\ after \in Seq(Types) /\ after # <<>> /\ Formed(after)
         /\ \A k \in 1..Len(after) : after[k] \notin Terminals
<1>1. after = <<"created">> /\ Len(after) = 1 /\ \A k \in 1..Len(after) : k = 1 /\ after[k] = "created"
  OBVIOUS
<1>2. after \in Seq(Types)
  BY <1>1 DEF Types, Prefix
<1>3. Formed(after)
  BY <1>1 DEF Formed, Prefix
<1> QED
  BY <1>1, <1>2, <1>3 DEF Terminals

-----------------------------------------------------------------------------
(* What is sent, by the generator itself or for the handler, leaves the    *)
(* resource and the wire as the invariant wants them.                      *)
SendInv(type) ==
  /\ tracked' \in Resources /\ told' \in Resources \cup {None}
  /\ wire' = Append(wire, type)
  /\ reported' \subseteq Items
  /\ OutputInv'
  /\ type \in Terminals => /\ tracked'.status = type
                           /\ told' # None => told' = tracked'

(* An event the generator makes itself leaves what SendInv says.           *)
LEMMA MakeSends ==
  ASSUME TypeOK, OutputInv, NEW type \in Types, NEW status \in Statuses,
         type \in Terminals => status = type, Make(type, status)
  PROVE  SendInv(type)
<1>1. tracked' = [tracked EXCEPT !.status = status] /\ tracked \in Resources
  BY DEF Make, TypeOK
<1>2. /\ tracked' \in Resources /\ tracked'.status = status
      /\ tracked'.output = tracked.output
  BY <1>1 DEF Resources
<1>3. OutputInv'
  BY <1>2 DEF Make, OutputInv
<1> QED
  BY <1>2, <1>3 DEF Make, SendInv, TypeOK

(* An event of the handler that is forwarded leaves what SendInv says.     *)
LEMMA ObserveSends ==
  ASSUME TypeOK, OutputInv, NEW e \in Events, Observe(e)
  PROVE  SendInv(e.type)
<1>1. reported' \subseteq Items
  BY EventFields DEF Observe, Report, TypeOK, HasOutput, Carries, Prefix, Terminals
<1>2. tracked'.output = FoldedOutput(e)
  BY DEF Observe, Folded
<1>3. OutputInv'
  <2>1. CASE HasOutput(e)
    <3>1. e.response \in Carried /\ e.type # "item_done"
      BY <2>1, EventFields DEF HasOutput, Carries, Prefix, Terminals
    <3>2. tracked'.output \in Outputs /\ reported' = {}
      BY <1>2, <2>1, <3>1 DEF FoldedOutput, Carried, Observe, Report
    <3> QED
      BY <3>2, OutputsAssumption DEF OutputInv, Distinct, Kept
  <2>2. CASE ~HasOutput(e) /\ e.type = "item_done"
    <3>1. PICK output \in Seq(Items), item \in Items :
             output = tracked.output /\ item = e.item /\ Distinct(output)
      BY <2>2, EventFields DEF TypeOK, Resources, OutputInv
    <3>2. PICK longer : longer = AppendItem(output, item)
      OBVIOUS
    <3>4. tracked'.output = longer
      BY <1>2, <2>2, <3>1, <3>2 DEF FoldedOutput
    <3>3. reported' = {i \in reported : i.id = NoId \/ i.id # e.item.id} \cup {e.item}
      BY <2>2 DEF Observe, Report
    <3>5. /\ Distinct(longer)
          /\ \E k \in 1..Len(longer) : longer[k] = item
          /\ \A k \in 1..Len(output) :
                output[k].id = NoId \/ output[k].id # item.id
                => \E l \in 1..Len(longer) : longer[l] = output[k]
      <4>1. /\ Distinct(AppendItem(output, item))
            /\ \E k \in 1..Len(AppendItem(output, item)) : AppendItem(output, item)[k] = item
            /\ \A k \in 1..Len(output) :
                  output[k].id = NoId \/ output[k].id # item.id
                  => \E l \in 1..Len(AppendItem(output, item)) :
                        AppendItem(output, item)[l] = output[k]
        <5>1. Distinct(output)
          BY <3>1
        <5> QED
          BY <5>1, AppendItemKeeps
      <4> QED
        BY <4>1, <3>2
    <3>6. Kept(output, reported)
      BY <3>1 DEF OutputInv
    <3>7. Kept(longer, reported')
      BY <3>1, <3>3, <3>5, <3>6 DEF Kept
    <3> QED
      BY <3>4, <3>5, <3>7 DEF OutputInv
  <2>3. CASE ~HasOutput(e) /\ e.type # "item_done"
    BY <1>2, <2>3 DEF FoldedOutput, Observe, Report, OutputInv
  <2> QED
    BY <2>1, <2>2, <2>3
<1> QED
  BY <1>1, <1>3, FoldedResource DEF Observe, SendInv, OutputInv

(* Of an event that stands at the head of the generator's work.            *)
Due(e) ==
  /\ e \in Events /\ e.type # "created"
  /\ at = "open" /\ ~terminated
  /\ handler' \in {"open", "over"} /\ count' \in 0..MaxEvents
  /\ handler' = "over" => e.type \in Terminals

(* Sending created keeps the invariant.                                    *)
LEMMA CreatedKeepsInv ==
  ASSUME EventsInv, NEW e, Due(e), SendCreated(e)
  PROVE  EventsInv'
<1> USE DEF EventsInv
<1>1. SendInv("created")
  BY MakeSends DEF SendCreated, Types, Statuses, Prefix, Terminals
<1>2. wire = <<>> /\ ~created /\ ~terminated /\ ~inProgress
  <2>1. wire = <<>> /\ ~created /\ ~terminated
    BY DEF SendCreated, FlagsInv, Due
  <2> QED
    BY <2>1, EmptySeq DEF FlagsInv
<1>3. /\ wire' \in Seq(Types) /\ wire' # <<>> /\ Formed(wire')
      /\ \A k \in 1..Len(wire') : wire'[k] \notin Terminals
  BY <1>1, <1>2, SentFirst DEF SendInv
<1>4. /\ created' = TRUE /\ inProgress' = FALSE /\ terminated' = FALSE
      /\ held' = e /\ e # None /\ at' = "open"
  BY <1>2, NoneAssumption DEF SendCreated, Due, TypeOK
<1>5. TypeOK'
  BY <1>1, <1>3, <1>4 DEF TypeOK, SendInv, Due
<1>6. WellFormed'
  BY <1>3 DEF WellFormed, Formed
<1>7. TerminalIsTheResource' /\ FlagsInv' /\ HeldInv' /\ EndedInv'
  BY <1>3, <1>4 DEF TerminalIsTheResource, FlagsInv, HeldInv, EndedInv, Due
<1> QED
  BY <1>1, <1>5, <1>6, <1>7 DEF SendInv

(* Sending in_progress keeps the invariant.                                *)
LEMMA InProgressKeepsInv ==
  ASSUME EventsInv, NEW e, Due(e), SendInProgress(e)
  PROVE  EventsInv'
<1> USE DEF EventsInv
<1>1. SendInv("in_progress")
  BY MakeSends DEF SendInProgress, Types, Statuses, Prefix, Terminals
<1>2. wire # <<>> /\ created /\ ~terminated
  BY DEF SendInProgress, FlagsInv, Due
<1>3. /\ wire' \in Seq(Types) /\ wire' # <<>> /\ Formed(wire')
      /\ \E j \in 1..Len(wire') : wire'[j] = "in_progress"
      /\ \A k \in 1..Len(wire') : wire'[k] \notin Terminals
  <2>1. wire \in Seq(Types) /\ Formed(wire) /\ \A k \in 1..Len(wire) : wire[k] \notin Terminals
    BY <1>2 DEF TypeOK, FlagsInv, WellFormed, Formed
  <2> QED
    BY <2>1, <1>1, <1>2, Sent DEF SendInv, Types, Prefix, Terminals
<1>4. /\ created' = TRUE /\ inProgress' = TRUE /\ terminated' = FALSE
      /\ held' = e /\ e # None /\ at' = "open"
  BY <1>2, NoneAssumption DEF SendInProgress, Due, TypeOK
<1>5. TypeOK'
  BY <1>1, <1>3, <1>4 DEF TypeOK, SendInv, Due
<1>6. WellFormed'
  BY <1>3 DEF WellFormed, Formed
<1>7. TerminalIsTheResource' /\ FlagsInv' /\ HeldInv' /\ EndedInv'
  BY <1>3, <1>4 DEF TerminalIsTheResource, FlagsInv, HeldInv, EndedInv, Due
<1> QED
  BY <1>1, <1>5, <1>6, <1>7 DEF SendInv

(* Sending any other event keeps the invariant.                            *)
LEMMA EventKeepsInv ==
  ASSUME EventsInv, NEW e, Due(e), SendEvent(e)
  PROVE  EventsInv'
<1> USE DEF EventsInv
<1>1. e \in Events /\ e.type \in Types
  BY EventFields DEF Due
<1>2. SendInv(e.type)
  <2>1. CASE handler' = "over"
    <3>1. Make(e.type, e.type) /\ e.type \in Statuses
      BY <2>1 DEF SendEvent, Due, Statuses
    <3> QED
      BY <3>1, <1>1, MakeSends
  <2>2. CASE handler' # "over"
    BY <2>2, <1>1, ObserveSends DEF SendEvent
  <2> QED
    BY <2>1, <2>2
<1>3. wire # <<>> /\ created /\ created' /\ ~terminated
  BY DEF SendEvent, FlagsInv, Due
<1>4. e.type \notin Prefix => \E j \in 1..Len(wire) : wire[j] = "in_progress"
  BY DEF SendEvent, NeedsInProgress, FlagsInv, Prefix
<1>5. /\ wire' \in Seq(Types) /\ wire' # <<>> /\ Formed(wire')
      /\ wire'[Len(wire')] = e.type
      /\ (\E j \in 1..Len(wire) : wire[j] = "in_progress") \/ e.type = "in_progress"
         => \E j \in 1..Len(wire') : wire'[j] = "in_progress"
      /\ e.type \notin Terminals => \A k \in 1..Len(wire') : wire'[k] \notin Terminals
  <2>1. wire \in Seq(Types) /\ Formed(wire) /\ \A k \in 1..Len(wire) : wire[k] \notin Terminals
    BY <1>3 DEF TypeOK, FlagsInv, WellFormed, Formed
  <2>2. e.type # "created"
    BY DEF Due
  <2> QED
    BY <2>1, <2>2, <1>1, <1>2, <1>3, <1>4, Sent DEF SendInv
<1>6. /\ created' \in BOOLEAN /\ inProgress' \in BOOLEAN /\ terminated' \in BOOLEAN
      /\ inProgress' => inProgress \/ e.type = "in_progress"
      /\ terminated' <=> e.type \in Terminals
      /\ held' = None
      /\ handler' = "over" => at' = "ended" /\ e.type \in Terminals
      /\ handler' # "over" => at' = "open"
  <2>1. /\ created' \in BOOLEAN
        /\ inProgress' = (inProgress \/ e.type = "in_progress")
        /\ terminated' = (e.type \in Terminals)
    BY DEF SendEvent, TypeOK
  <2>2. /\ held' = None
        /\ handler' = "over" => at' = "ended" /\ e.type \in Terminals
        /\ handler' # "over" => at' = "open"
    BY DEF SendEvent, Due
  <2>3. inProgress' \in BOOLEAN /\ terminated' \in BOOLEAN
    BY <2>1
  <2>4. /\ inProgress' => inProgress \/ e.type = "in_progress"
        /\ terminated' <=> e.type \in Terminals
    BY <2>1
  <2> QED
    BY <2>1, <2>2, <2>3, <2>4
<1>7. TypeOK'
  BY <1>2, <1>3, <1>5, <1>6 DEF TypeOK, SendInv, Due
<1>8. WellFormed'
  BY <1>5 DEF WellFormed, Formed
<1>9. TerminalIsTheResource'
  BY <1>2, <1>5, <1>6 DEF TerminalIsTheResource, SendInv
<1>10. FlagsInv'
  BY <1>3, <1>5, <1>6 DEF FlagsInv
<1>11. HeldInv' /\ EndedInv'
  BY <1>6, <1>3 DEF HeldInv, EndedInv
<1> QED
  BY <1>2, <1>7, <1>8, <1>9, <1>10, <1>11 DEF SendInv

(* Whatever a pulled event is answered with keeps the invariant.           *)
LEMMA ProcessKeepsInv ==
  ASSUME EventsInv, NEW e, Due(e), Process(e)
  PROVE  EventsInv'
BY CreatedKeepsInv, InProgressKeepsInv, EventKeepsInv DEF Process
-----------------------------------------------------------------------------
(* Steps that send nothing.                                                *)
LEMMA SilentKeepsInv ==
  ASSUME EventsInv, handler' \in {"open", "over"}, count' \in 0..MaxEvents,
         at' \in {"open", "ended", "threw", "returned"},
         (handler' = "over" /\ at' = "open") => held # None /\ held.type \in Terminals,
         at' = "ended" => terminated, at' = "threw" => ~created,
         UNCHANGED <<flags, held, tracked, wire, told, reported>>
  PROVE  EventsInv'
<1>1. TypeOK'
  BY DEF EventsInv, TypeOK, flags
<1>2. WellFormed' /\ TerminalIsTheResource' /\ FlagsInv'
  BY DEF EventsInv, WellFormed, TerminalIsTheResource, FlagsInv, flags
<1>3. HeldInv' /\ EndedInv' /\ OutputInv'
  BY DEF EventsInv, HeldInv, EndedInv, OutputInv, flags
<1> QED
  BY <1>1, <1>2, <1>3 DEF EventsInv

(* A handler's own created event keeps the invariant.                      *)
LEMMA FirstCreatedKeepsInv ==
  ASSUME EventsInv, NEW e \in Events, CreatedEvent(e)
  PROVE  EventsInv'
<1>0. count' \in 0..MaxEvents /\ Pulling /\ ~terminated /\ e.type = "created"
  BY MaxEventsAssumption DEF CreatedEvent, Take, EventsInv, TypeOK
<1>1. CASE created
  <2>1. Nothing
    BY <1>1 DEF CreatedEvent, Duplicate
  <2> QED
    BY <2>1, <1>0, SilentKeepsInv DEF Nothing, EventsInv, TypeOK, HeldInv, EndedInv, Pulling
<1>2. CASE ~created
  <2>1. /\ created' = TRUE /\ Observe(e)
        /\ UNCHANGED <<inProgress, terminated, handler, at, held>>
    BY <1>2 DEF CreatedEvent, Duplicate
  <2>2. SendInv("created")
    BY <2>1, <1>0, ObserveSends DEF EventsInv
  <2>3. wire = <<>> /\ ~terminated /\ ~inProgress
    <3>1. wire = <<>>
      BY <1>2 DEF EventsInv, FlagsInv
    <3> QED
      BY <3>1, <1>0, EmptySeq DEF EventsInv, FlagsInv
  <2>4. /\ wire' \in Seq(Types) /\ wire' # <<>> /\ Formed(wire')
        /\ \A k \in 1..Len(wire') : wire'[k] \notin Terminals
    BY <2>2, <2>3, SentFirst DEF SendInv
  <2>5. inProgress' = FALSE /\ terminated' = FALSE
    BY <2>1, <2>3 DEF EventsInv, TypeOK
  <2>6. TypeOK'
    BY <2>1, <2>2, <2>4, <1>0 DEF EventsInv, TypeOK, SendInv
  <2>7. WellFormed'
    BY <2>4 DEF WellFormed, Formed
  <2>8. TerminalIsTheResource' /\ FlagsInv'
    BY <2>1, <2>4, <2>5 DEF TerminalIsTheResource, FlagsInv
  <2>9. HeldInv' /\ EndedInv'
    BY <2>1, <2>3, <1>0 DEF EventsInv, HeldInv, EndedInv, Pulling
  <2> QED
    BY <2>2, <2>6, <2>7, <2>8, <2>9 DEF EventsInv, SendInv
<1> QED
  BY <1>1, <1>2

(* The generator closes with a terminal event, unless one was sent.        *)
LEMMA CloseKeepsInv ==
  ASSUME EventsInv, Pulling, NEW type \in {"failed", "incomplete"}, Close(type)
  PROVE  EventsInv'
<1>1. handler' = "over" /\ count' \in 0..MaxEvents /\ at = "open" /\ held = None
  BY DEF Close, Pulling, EventsInv, TypeOK
<1>2. CASE terminated
  <2>1. at' = "ended" /\ UNCHANGED <<flags, held, tracked, wire, told, reported>>
    BY <1>2 DEF Close
  <2> QED
    BY <2>1, <1>1, <1>2, SilentKeepsInv
<1>3. CASE ~terminated
  <2> DEFINE e == [type |-> type, response |-> None]
  <2>1. Process(e)
    BY <1>3 DEF Close
  <2>2. e \in Events /\ e.type \in Terminals /\ e.type # "created"
    BY DEF Events, Terminals
  <2>3. Due(e)
    BY <2>2, <1>1, <1>3 DEF Due
  <2> QED
    BY <2>1, <2>3, ProcessKeepsInv
<1> QED
  BY <1>2, <1>3

(* Every step keeps the invariant.                                         *)
LEMMA StepKeepsInv ==
  ASSUME EventsInv, [Next]_vars
  PROVE  EventsInv'
<1>1. ASSUME NEW e \in Events, LateEvent(e)
      PROVE  EventsInv'
  BY <1>1, MaxEventsAssumption, SilentKeepsInv
     DEF LateEvent, Take, Pulling, Ignore, Nothing, EventsInv, TypeOK, HeldInv, EndedInv
<1>2. ASSUME NEW e \in Events, CreatedEvent(e)
      PROVE  EventsInv'
  BY <1>2, FirstCreatedKeepsInv
<1>3. ASSUME NEW e \in Events, OtherEvent(e)
      PROVE  EventsInv'
  <2>1. Process(e) /\ Pulling /\ e.type # "created" /\ ~terminated /\ handler' = handler
    BY <1>3 DEF OtherEvent, Take
  <2>2. count' \in 0..MaxEvents
    BY <1>3, MaxEventsAssumption DEF OtherEvent, Take, EventsInv, TypeOK
  <2>3. Due(e)
    BY <2>1, <2>2 DEF Due, Pulling
  <2> QED
    BY <2>1, <2>3, ProcessKeepsInv
<1>4. CASE Prefixed
  <2>1. /\ at = "open" /\ held # None /\ Process(held)
        /\ UNCHANGED <<handler, count>>
    BY <1>4 DEF Prefixed
  <2>2. Due(held)
    BY <2>1 DEF Due, EventsInv, TypeOK, HeldInv
  <2> QED
    BY <2>1, <2>2, ProcessKeepsInv
<1>5. CASE HandlerReturns
  BY <1>5, CloseKeepsInv DEF HandlerReturns
<1>6. ASSUME NEW abort \in BOOLEAN, HandlerThrows(abort)
      PROVE  EventsInv'
  <2>1. CASE ~created
    <3>1. /\ at' = "threw" /\ handler' = "over"
          /\ UNCHANGED <<flags, held, tracked, wire, told, reported, count>>
      BY <1>6, <2>1 DEF HandlerThrows
    <3> QED
      BY <3>1, <2>1, SilentKeepsInv DEF EventsInv, TypeOK
  <2>2. CASE created
    <3>1. Pulling /\ Close(IF abort THEN "incomplete" ELSE "failed")
      BY <1>6, <2>2 DEF HandlerThrows
    <3> QED
      BY <3>1, CloseKeepsInv
  <2> QED
    BY <2>1, <2>2
<1>7. CASE Return
  BY <1>7, SilentKeepsInv DEF Return, EventsInv, TypeOK
<1>8. CASE Over \/ UNCHANGED vars
  <2>1. UNCHANGED vars
    BY <1>8 DEF Over
  <2> QED
    BY <2>1, SilentKeepsInv DEF vars, flags, EventsInv, TypeOK, HeldInv, EndedInv
<1> QED
  BY <1>1, <1>2, <1>3, <1>4, <1>5, <1>6, <1>7, <1>8 DEF Next

(* Nothing has been pulled or sent at the start.                           *)
LEMMA InitKeepsInv ==
  ASSUME Init
  PROVE  EventsInv
<1>1. /\ wire \in Seq(Types) /\ tracked.output \in Seq(Items)
      /\ Len(wire) = 0 /\ Len(tracked.output) = 0
  BY EmptySeq DEF Init
<1>2. tracked \in Resources
  BY <1>1 DEF Init, Resources, Statuses
<1>3. TypeOK
  <2>1. count \in 0..MaxEvents
    BY MaxEventsAssumption DEF Init
  <2>2. /\ created \in BOOLEAN /\ inProgress \in BOOLEAN /\ terminated \in BOOLEAN
        /\ handler = "open" /\ at = "open" /\ held = None /\ told = None /\ reported = {}
    BY DEF Init
  <2> QED
    BY <1>1, <1>2, <2>1, <2>2 DEF TypeOK
<1>4. OutputInv
  BY <1>1 DEF Init, OutputInv, Distinct, Kept
<1> QED
  BY <1>1, <1>3, <1>4 DEF Init, EventsInv, WellFormed, TerminalIsTheResource, FlagsInv, HeldInv, EndedInv

-----------------------------------------------------------------------------
(* The invariant holds in every reachable state, for every handler.        *)
THEOREM EventsInvariance == Spec => []EventsInv
<1>1. Init => EventsInv
  BY InitKeepsInv
<1>2. EventsInv /\ [Next]_vars => EventsInv'
  BY StepKeepsInv
<1> QED
  BY <1>1, <1>2, PTL DEF Spec

(* Every variable keeps its type; the tracked resource in particular is    *)
(* always a resource, whatever the handler's events carry.                 *)
THEOREM EventsTypeCorrect == Spec => []TypeOK
<1>1. EventsInv => TypeOK
  BY DEF EventsInv
<1> QED
  BY <1>1, EventsInvariance, PTL

(* Whatever a handler yields, the stream that leaves enforceLifecycle      *)
(* begins with created, is in progress before its output, and has nothing  *)
(* behind its terminal event.                                              *)
THEOREM StreamIsWellFormed == Spec => []WellFormed
<1>1. EventsInv => WellFormed
  BY DEF EventsInv
<1> QED
  BY <1>1, EventsInvariance, PTL

(* However a handler ends, the stream ends with a terminal event, unless   *)
(* the handler failed before anything was sent.                            *)
THEOREM StreamEndsWell == Spec => []EndsWell
<1>1. EventsInv => EndsWell
  BY DEF EventsInv, FlagsInv, EndedInv, EndsWell
<1> QED
  BY <1>1, EventsInvariance, PTL

(* The terminal event is sent with the resource that the tracker keeps for *)
(* the store and for later reads.                                          *)
THEOREM TerminalTellsTheResource == Spec => []TerminalIsTheResource
<1>1. EventsInv => TerminalIsTheResource
  BY DEF EventsInv
<1> QED
  BY <1>1, EventsInvariance, PTL

(* What a handler has reported as done stays in the resource, in its       *)
(* latest form and no other, unless the handler carries its own output.    *)
THEOREM ReportedOutputIsKept == Spec => []OutputIsKept
<1>1. EventsInv => OutputIsKept
  <2> SUFFICES ASSUME EventsInv, NEW item \in reported
               PROVE  \E k \in 1..Len(tracked.output) :
                         /\ tracked.output[k] = item
                         /\ \A l \in 1..Len(tracked.output) :
                               l # k /\ item.id # NoId => tracked.output[l].id # item.id
    BY DEF OutputIsKept
  <2>1. PICK k \in 1..Len(tracked.output) : tracked.output[k] = item
    BY DEF EventsInv, OutputInv, Kept
  <2>2. \A l \in 1..Len(tracked.output) :
           l # k /\ item.id # NoId => tracked.output[l].id # item.id
    BY <2>1 DEF EventsInv, OutputInv, Distinct
  <2> QED
    BY <2>1, <2>2
<1> QED
  BY <1>1, EventsInvariance, PTL

(* What a stream tells of the resource is what the store keeps, whatever   *)
(* a handler does: the four parts, each of them a theorem above.           *)
THEOREM StreamTellsTheResource == Spec => []TellsTheResource
<1>1. WellFormed /\ EndsWell /\ TerminalIsTheResource /\ OutputIsKept => TellsTheResource
  BY DEF TellsTheResource
<1> QED
  BY <1>1, StreamIsWellFormed, StreamEndsWell, TerminalTellsTheResource, ReportedOutputIsKept, PTL
=============================================================================
