------------------------------ MODULE Providers_proof ------------------------------
(***************************************************************************)
(* Proofs about what providers bring into a run, for any number of runs,   *)
(* sessions, scopes and isolation keys and however long the program runs.  *)
(*                                                                         *)
(* The memory of a session is its own, by the inductive invariant          *)
(* MemoryIInv. The scope of a session is pinned by its first run, and      *)
(* whatever a run, an update or the memory of the session carries is of    *)
(* that scope. As long as the runs of a session do not overlap, what its   *)
(* memory knows is the newest update that was told, and a run that has     *)
(* sent one is the last to have done so.                                   *)
(*                                                                         *)
(* Runs share their loads of skills and retry the ones that failed, by the *)
(* inductive invariant SkillsIInv. The cache holds the newest load of a    *)
(* key; where it holds none, every load of the key is failed or out of     *)
(* date. A run starts at most one load, and a failed load that the cache   *)
(* still holds is one whose run has not heard of it, so that nobody can be *)
(* given a failure of the past.                                            *)
(***************************************************************************)
EXTENDS MemoryProvider, Skills, TLAPS

-----------------------------------------------------------------------------
Statuses == {"queued", "completed", "failed", "superseded"}
Update == [session : Sessions, scope : Scopes, follows : Nat, status : Statuses, told : BOOLEAN]
State == [pc : {"new", "profile", "contextual", "working", "updating", "arrived", "over"},
          session : Sessions \cup {Absent}, scope : Scopes \cup {Absent}, follows : Nat,
          anchor : Scopes \cup {Absent}, profile : Scopes \cup {Absent}]
Memories == [scope : Scopes \cup {Absent}, profile : Scopes \cup {Absent}, initialized : BOOLEAN,
             search : Scopes \cup {Absent}, update : Nat]

MemoryTypeInv ==
  /\ mode \in {"continue", "throw"}
  /\ memory \in [Sessions -> Memories] /\ call \in [Callers -> State]
  /\ updates \in Seq(Update) /\ pendingId \in Nat /\ newest \in Nat /\ waiter \in Nat
  /\ answers \in [Sessions -> SUBSET (Scopes \cup {Absent})]
  /\ overlapped \subseteq Sessions

IsOf(i, s) == i \in DOMAIN updates /\ updates[i].session = s

(* What a session keeps is of its scope, or nothing.                       *)
MemoryInv ==
  \A s \in Sessions :
    /\ memory[s].profile \in {Absent, memory[s].scope}
    /\ memory[s].search \in {Absent, memory[s].scope}
    /\ memory[s].update # 0 => IsOf(memory[s].update, s)

(* A run under way is of the scope of its session; the update that it      *)
(* continues, and the one that it has sent, are of its session.            *)
Blank(r) == /\ call[r].session = Absent /\ call[r].follows = 0
            /\ call[r].anchor = Absent /\ call[r].profile = Absent
Belongs(r) ==
  /\ call[r].session \in Sessions /\ call[r].scope \in Scopes
  /\ call[r].scope = memory[call[r].session].scope
  /\ call[r].profile \in {Absent, call[r].scope} /\ call[r].anchor \in {Absent, call[r].scope}
  /\ call[r].pc = "updating" /\ call[r].follows # 0 => IsOf(call[r].follows, call[r].session)
  /\ call[r].pc = "arrived" => IsOf(call[r].follows, call[r].session)
MemoryRunInv == \A r \in Callers : IF call[r].pc \in {"new", "over"} THEN Blank(r) ELSE Belongs(r)

(* An update is of the scope of its session, and so is what it continues.  *)
UpdateInv ==
  \A i \in DOMAIN updates :
    /\ updates[i].scope = memory[updates[i].session].scope
    /\ updates[i].follows # 0 => IsOf(updates[i].follows, updates[i].session)

PendingInv ==
  /\ newest # 0 => newest \in DOMAIN updates
  /\ waiter # 0 => waiter \in DOMAIN updates
  /\ pendingId \in {0, newest}
  /\ newest # 0 /\ pendingId = 0 => updates[newest].status \in {"completed", "superseded"}

(* A session is initialized by an answer, or by a failure that is survived.*)
ProfileInv ==
  \A s \in Sessions :
    /\ mode = "throw" /\ memory[s].initialized => answers[s] # {}
    /\ s \notin overlapped =>
         /\ answers[s] \subseteq {memory[s].profile}
         /\ ~memory[s].initialized => answers[s] = {}

Told(s, n) == {j \in 1 .. n : updates[j].session = s /\ updates[j].told}

(* Of a session whose runs have never overlapped: one run is under way at  *)
(* most, and the memory knows the newest update that was told.             *)
Alone(s) ==
  /\ \A q, r \in UnderWay(s) : q = r
  /\ \A r \in UnderWay(s) :
       /\ call[r].pc = "profile" => ~memory[s].initialized
       /\ call[r].pc = "updating" => call[r].follows = memory[s].update
       /\ call[r].pc = "arrived" =>
            \A i \in DOMAIN updates : updates[i].session = s => i <= call[r].follows
Chained(s) ==
  /\ IsNewest(memory[s].update, Told(s, Len(updates)))
  /\ \A i \in DOMAIN updates : updates[i].session = s => IsNewest(updates[i].follows, Told(s, i - 1))
PastInv == \A s \in Sessions : s \notin overlapped => Alone(s) /\ Chained(s)

MemoryIInv == MemoryTypeInv /\ MemoryInv /\ MemoryRunInv /\ UpdateInv /\ PendingInv /\ ProfileInv /\ PastInv

-----------------------------------------------------------------------------
(* The invariant holds before the first run.                               *)
LEMMA MemoryInitInv == ASSUME Named, MemoryInit PROVE MemoryIInv
<1>1. NewMemory \in Memories /\ NewCall \in State
  BY DEF NewMemory, NewCall, Memories, State
<1>2. MemoryTypeInv
  <2>1. updates \in Seq(Update) BY DEF MemoryInit
  <2> QED BY <1>1, <2>1 DEF MemoryTypeInv, MemoryInit
<1>3. \A s \in Sessions : memory[s] = NewMemory BY DEF MemoryInit
<1>4. \A r \in Callers : call[r].pc = "new" /\ Blank(r) BY DEF MemoryInit, NewCall, Blank
<1>5. /\ NewMemory.profile = Absent /\ NewMemory.search = Absent /\ NewMemory.update = 0
      /\ NewMemory.initialized = FALSE
  BY DEF NewMemory
<1>6. DOMAIN updates = {} /\ Len(updates) = 0 BY DEF MemoryInit
<1>7. MemoryInv BY <1>3, <1>5 DEF MemoryInv
<1>8. MemoryRunInv BY <1>4 DEF MemoryRunInv, Blank
<1>9. UpdateInv BY <1>6 DEF UpdateInv
<1>10. PendingInv BY DEF PendingInv, MemoryInit
<1>11. ProfileInv
  <2> SUFFICES ASSUME NEW s \in Sessions
               PROVE  /\ mode = "throw" /\ memory[s].initialized => answers[s] # {}
                      /\ s \notin overlapped =>
                           /\ answers[s] \subseteq {memory[s].profile}
                           /\ ~memory[s].initialized => answers[s] = {}
    BY DEF ProfileInv
  <2>1. answers[s] = {} BY DEF MemoryInit
  <2>2. ~memory[s].initialized BY <1>3, <1>5, Zenon
  <2> QED BY <2>1, <2>2
<1>12. PastInv
  <2> SUFFICES ASSUME NEW s \in Sessions PROVE Alone(s) /\ Chained(s) BY DEF PastInv
  <2>1. Told(s, Len(updates)) = {} BY <1>6 DEF Told
  <2>2. UnderWay(s) = {} BY <1>4 DEF UnderWay, Blank, Named
  <2> QED BY <2>1, <2>2, <1>3, <1>5, <1>6 DEF IsNewest, Alone, Chained
<1> QED BY <1>2, <1>7, <1>8, <1>9, <1>10, <1>11, <1>12 DEF MemoryIInv

(* What the state is made of.                                              *)
LEMMA Types ==
  ASSUME MemoryTypeInv
  PROVE  /\ Len(updates) \in Nat /\ DOMAIN updates = 1 .. Len(updates)
         /\ \A i \in DOMAIN updates : updates[i] \in Update
         /\ \A s \in Sessions : memory[s] \in Memories
         /\ \A r \in Callers : call[r] \in State
BY DEF MemoryTypeInv

(* The scope of a session is pinned, and updates are only added.           *)
Pinned == \A s \in Sessions : memory[s].scope # Absent => memory'[s].scope = memory[s].scope
Grown ==
  /\ DOMAIN updates \subseteq DOMAIN updates'
  /\ \A i \in DOMAIN updates :
       /\ updates'[i].session = updates[i].session /\ updates'[i].scope = updates[i].scope
       /\ updates'[i].follows = updates[i].follows

(* A run that does not move stays where it belongs.                        *)
LEMMA StaysWhereItBelongs ==
  ASSUME Named, MemoryTypeInv, MemoryRunInv, Pinned, Grown, NEW q \in Callers, call'[q] = call[q]
  PROVE  IF call'[q].pc \in {"new", "over"} THEN Blank(q)' ELSE Belongs(q)'
<1>1. CASE call[q].pc \in {"new", "over"} BY <1>1 DEF MemoryRunInv, Blank
<1>2. CASE call[q].pc \notin {"new", "over"}
  <2>1. Belongs(q) BY <1>2 DEF MemoryRunInv
  <2>2. memory[call[q].session].scope # Absent BY <2>1 DEF Belongs, Named
  <2>3. memory'[call[q].session].scope = memory[call[q].session].scope BY <2>1, <2>2 DEF Pinned, Belongs
  <2>4. \A i : IsOf(i, call[q].session) => IsOf(i, call[q].session)' BY DEF Grown, IsOf
  <2> QED BY <1>2, <2>1, <2>3, <2>4 DEF Belongs, IsOf, Grown
<1> QED BY <1>1, <1>2

(* What was sent stays of its scope.                                       *)
LEMMA UpdatesStay ==
  ASSUME Named, MemoryTypeInv, UpdateInv, Pinned, UNCHANGED updates
  PROVE  UpdateInv'
<1> SUFFICES ASSUME NEW i \in DOMAIN updates
             PROVE  /\ updates[i].scope = memory'[updates[i].session].scope
                    /\ updates[i].follows # 0 => IsOf(updates[i].follows, updates[i].session)'
  BY DEF UpdateInv
<1>1. updates[i].session \in Sessions /\ updates[i].scope \in Scopes BY Types DEF Update
<1>2. updates[i].scope = memory[updates[i].session].scope BY DEF UpdateInv
<1>3. memory'[updates[i].session].scope = updates[i].scope BY <1>1, <1>2 DEF Pinned, Named
<1> QED BY <1>3 DEF UpdateInv, IsOf

(* Who goes on alone.                                                      *)
LEMMA PastStays ==
  ASSUME PastInv, UNCHANGED updates, overlapped \subseteq overlapped',
         \A s \in Sessions : s \notin overlapped' => memory'[s].update = memory[s].update /\ Alone(s)'
  PROVE  PastInv'
<1> SUFFICES ASSUME NEW s \in Sessions, s \notin overlapped' PROVE Alone(s)' /\ Chained(s)'
  BY DEF PastInv
<1>1. Chained(s) BY DEF PastInv
<1>2. Chained(s)' BY <1>1 DEF Chained, Told, IsNewest
<1> QED BY <1>2

(* A run that is over carries nothing.                                     *)
LEMMA Ended ==
  ASSUME MemoryTypeInv, NEW r \in Callers, Leaves(r)
  PROVE  /\ call' \in [Callers -> State] /\ Blank(r)' /\ call'[r].pc = "over"
         /\ \A q \in Callers : q # r => call'[q] = call[q]
<1>1. [NewCall EXCEPT !.pc = "over"] \in State BY DEF NewCall, State
<1> QED BY <1>1 DEF Leaves, MemoryTypeInv, Blank, NewCall

(* When a run ends, and the memory of no session changes, all stays.       *)
LEMMA LeavesInv ==
  ASSUME Named, MemoryIInv, NEW r \in Callers, Leaves(r),
         UNCHANGED <<mode, memory, pendingId, updates, newest, waiter, answers, overlapped>>
  PROVE  MemoryIInv'
<1> USE DEF MemoryIInv
<1>1. /\ call' \in [Callers -> State] /\ Blank(r)' /\ call'[r].pc = "over"
      /\ \A q \in Callers : q # r => call'[q] = call[q]
  BY Ended
<1>2. MemoryTypeInv' BY <1>1 DEF MemoryTypeInv
<1>3. Pinned /\ Grown BY DEF Pinned, Grown
<1>4. MemoryInv' BY DEF MemoryInv, IsOf
<1>5. MemoryRunInv'
  <2>1. ASSUME NEW q \in Callers PROVE IF call'[q].pc \in {"new", "over"} THEN Blank(q)' ELSE Belongs(q)'
    <3>1. CASE q = r BY <3>1, <1>1
    <3>2. CASE q # r BY <3>2, <1>1, <1>3, StaysWhereItBelongs
    <3> QED BY <3>1, <3>2
  <2> QED BY <2>1 DEF MemoryRunInv
<1>6. UpdateInv' BY <1>3, UpdatesStay
<1>7. PendingInv' /\ ProfileInv' BY DEF PendingInv, ProfileInv
<1>8. PastInv'
  <2>1. ASSUME NEW s \in Sessions, s \notin overlapped' PROVE Alone(s)'
    <3>1. Alone(s) BY <2>1 DEF PastInv
    <3>2. r \notin UnderWay(s)' BY <1>1 DEF UnderWay, Blank, Named
    <3>3. UnderWay(s)' \subseteq UnderWay(s) BY <1>1, <3>2 DEF UnderWay
    <3>4. \A q \in UnderWay(s)' : call'[q] = call[q] BY <1>1, <3>2 DEF UnderWay
    <3> QED BY <3>1, <3>3, <3>4 DEF Alone
  <2> QED BY <2>1, PastStays
<1> QED BY <1>2, <1>4, <1>5, <1>6, <1>7, <1>8

(* A run of a session goes on, and its memory with it.                     *)
Going == {"profile", "contextual", "working", "updating"}
Goes(r, s, m, st) ==
  /\ m \in Memories /\ memory' = [memory EXCEPT ![s] = m]
  /\ st \in State /\ call' = [call EXCEPT ![r] = st]
  /\ m.update = memory[s].update /\ (memory[s].scope # Absent => m.scope = memory[s].scope)
  /\ m.profile \in {Absent, m.scope} /\ m.search \in {Absent, m.scope}
  /\ st.session = s /\ st.scope = m.scope /\ st.scope \in Scopes /\ st.pc \in Going
  /\ st.profile \in {Absent, st.scope} /\ st.anchor \in {Absent, st.scope}
  /\ st.pc = "updating" => st.follows = m.update
  /\ overlapped \subseteq overlapped' /\ overlapped' \subseteq Sessions
  /\ s \notin overlapped' => UnderWay(s) \subseteq {r} /\ (st.pc = "profile" => ~m.initialized)
  /\ answers' \in [Sessions -> SUBSET (Scopes \cup {Absent})] /\ ProfileInv'

(* Such a step keeps the invariant.                                        *)
LEMMA GoesInv ==
  ASSUME Named, MemoryIInv, NEW r \in Callers, NEW s \in Sessions, NEW m, NEW st, Goes(r, s, m, st),
         UNCHANGED <<mode, pendingId, updates, newest, waiter>>
  PROVE  MemoryIInv'
<1> USE DEF MemoryIInv, Goes
<1>1. memory'[s] = m /\ call'[r] = st BY DEF MemoryTypeInv
<1>2. \A t \in Sessions : t # s => memory'[t] = memory[t] BY DEF MemoryTypeInv
<1>3. \A q \in Callers : q # r => call'[q] = call[q] BY DEF MemoryTypeInv
<1>4. MemoryTypeInv'
  <2>1. memory' \in [Sessions -> Memories] /\ call' \in [Callers -> State] BY DEF MemoryTypeInv
  <2> QED BY <2>1 DEF MemoryTypeInv
<1>5. Pinned /\ Grown BY <1>1, <1>2 DEF Pinned, Grown
<1>6. MemoryInv'
  <2> SUFFICES ASSUME NEW t \in Sessions
               PROVE  /\ memory'[t].profile \in {Absent, memory'[t].scope}
                      /\ memory'[t].search \in {Absent, memory'[t].scope}
                      /\ memory'[t].update # 0 => IsOf(memory'[t].update, t)
    BY DEF MemoryInv, IsOf
  <2>1. CASE t = s BY <2>1, <1>1 DEF MemoryInv
  <2>2. CASE t # s BY <2>2, <1>2 DEF MemoryInv
  <2> QED BY <2>1, <2>2
<1>7. MemoryRunInv'
  <2>1. ASSUME NEW q \in Callers PROVE IF call'[q].pc \in {"new", "over"} THEN Blank(q)' ELSE Belongs(q)'
    <3>1. CASE q = r
      <4>1. st.pc = "updating" /\ st.follows # 0 => IsOf(st.follows, s)' BY DEF MemoryInv, IsOf
      <4>2. Belongs(r)' BY <1>1, <4>1 DEF Belongs, Going
      <4>3. call'[r].pc \notin {"new", "over"} BY <1>1 DEF Going
      <4> QED BY <3>1, <4>2, <4>3
    <3>2. CASE q # r BY <3>2, <1>3, <1>5, StaysWhereItBelongs
    <3> QED BY <3>1, <3>2
  <2> QED BY <2>1 DEF MemoryRunInv
<1>8. UpdateInv' BY <1>5, UpdatesStay
<1>9. PendingInv' BY DEF PendingInv
<1>10. PastInv'
  <2>1. ASSUME NEW t \in Sessions, t \notin overlapped' PROVE memory'[t].update = memory[t].update
    BY <1>1, <1>2
  <2>2. ASSUME NEW t \in Sessions, t \notin overlapped' PROVE Alone(t)'
    <3>1. CASE t = s
      <4>1. UnderWay(s)' \subseteq {r} BY <3>1, <2>2, <1>3 DEF UnderWay
      <4>2. st.pc # "arrived" BY DEF Going
      <4>3. st.pc = "profile" => ~memory'[s].initialized BY <3>1, <2>2, <1>1, Zenon
      <4> QED BY <3>1, <4>1, <4>2, <4>3, <1>1 DEF Alone
    <3>2. CASE t # s
      <4>1. Alone(t) BY <2>2 DEF PastInv
      <4>2. r \notin UnderWay(t)' BY <3>2, <1>1 DEF UnderWay
      <4>3. UnderWay(t)' \subseteq UnderWay(t) /\ \A q \in UnderWay(t)' : call'[q] = call[q]
        BY <4>2, <1>3 DEF UnderWay
      <4> QED BY <4>1, <4>3, <3>2, <1>2 DEF Alone
    <3> QED BY <3>1, <3>2
  <2> QED BY <2>1, <2>2, PastStays
<1> QED BY <1>4, <1>6, <1>7, <1>8, <1>9, <1>10

(* A run under way is one of its session, and the only one if none of them *)
(* have overlapped.                                                        *)
LEMMA Mine ==
  ASSUME Named, MemoryIInv, NEW r \in Callers, call[r].pc \notin {"new", "over"}
  PROVE  /\ Of(r) \in Sessions /\ call[r].session = Of(r) /\ Belongs(r)
         /\ memory[Of(r)].scope = call[r].scope /\ call[r].scope \in Scopes /\ call[r].scope # Absent
         /\ Of(r) \notin overlapped => UnderWay(Of(r)) \subseteq {r} /\ Alone(Of(r))
<1>1. Belongs(r) BY DEF MemoryIInv, MemoryRunInv
<1>2. Of(r) \in Sessions /\ r \in UnderWay(Of(r)) BY <1>1 DEF Belongs, Of, UnderWay
<1> QED BY <1>1, <1>2 DEF MemoryIInv, PastInv, Alone, Belongs, Of, Named

(* beforeRun: a session that is new is pinned, one of another scope turned *)
(* away.                                                                   *)
LEMMA BeginInv ==
  ASSUME Named, MemoryIInv, NEW r \in Callers, NEW s \in Sessions, NEW scope \in Scopes, Begin(r, s, scope)
  PROVE  MemoryIInv'
<1> USE DEF MemoryIInv
<1>1. call[r].pc = "new" /\ UNCHANGED <<mode, pendingId, updates, newest, waiter, answers>> BY DEF Begin
<1>2. CASE ~Resolves(s, scope)
  <2>1. Leaves(r) /\ UNCHANGED <<memory, overlapped>> BY <1>2 DEF Begin
  <2> QED BY <1>1, <2>1, LeavesInv
<1>3. CASE Resolves(s, scope)
  <2>1. PICK begun : begun = [call[r] EXCEPT !.session = s, !.scope = scope] OBVIOUS
  <2>2. /\ memory' = [memory EXCEPT ![s].scope = scope]
        /\ call' = [call EXCEPT ![r] = IF memory[s].initialized THEN Contextual(r, begun)
                                     ELSE [begun EXCEPT !.pc = "profile"]]
        /\ overlapped' = IF UnderWay(s) = {} THEN overlapped ELSE overlapped \cup {s}
    BY <1>3, <2>1 DEF Begin
  <2>3. call[r] \in State /\ memory[s] \in Memories BY Types
  <2>4. Blank(r) BY <1>1 DEF MemoryRunInv
  <2>5. /\ begun \in State /\ begun.session = s /\ begun.scope = scope
        /\ begun.profile = Absent /\ begun.anchor = Absent
    BY <2>1, <2>3, <2>4 DEF State, Blank
  <2>6. PICK m : m = [memory[s] EXCEPT !.scope = scope] OBVIOUS
  <2>7. m \in Memories BY <2>3, <2>6, Zenon DEF Memories
  <2>8. /\ m.scope = scope /\ m.profile = memory[s].profile /\ m.search = memory[s].search
        /\ m.update = memory[s].update
    BY <2>3, <2>6 DEF Memories
  <2>9. m.initialized = memory[s].initialized BY <2>3, <2>6 DEF Memories
  <2>10. memory' = [memory EXCEPT ![s] = m] /\ memory'[s] = m BY <2>2, <2>6 DEF MemoryTypeInv
  <2>11. /\ memory[s].scope # Absent => m.scope = memory[s].scope
         /\ m.profile \in {Absent, m.scope} /\ m.search \in {Absent, m.scope}
    BY <1>3, <2>8 DEF Resolves, MemoryInv
  <2>12. ProfileInv'
    <3> SUFFICES ASSUME NEW t \in Sessions
                 PROVE  /\ mode = "throw" /\ memory'[t].initialized => answers[t] # {}
                        /\ t \notin overlapped' =>
                             /\ answers[t] \subseteq {memory'[t].profile}
                             /\ ~memory'[t].initialized => answers[t] = {}
      BY <1>1 DEF ProfileInv
    <3>1. memory'[t].profile = memory[t].profile BY <2>8, <2>10 DEF MemoryTypeInv
    <3>2. memory'[t].initialized = memory[t].initialized
      <4>1. CASE t = s BY <4>1, <2>9, <2>10
      <4>2. CASE t # s BY <4>2, <2>10 DEF MemoryTypeInv
      <4> QED BY <4>1, <4>2
    <3>3. t \notin overlapped' => t \notin overlapped BY <2>2
    <3>4. /\ mode = "throw" /\ memory[t].initialized => answers[t] # {}
          /\ t \notin overlapped =>
               /\ answers[t] \subseteq {memory[t].profile}
               /\ ~memory[t].initialized => answers[t] = {}
      BY DEF ProfileInv
    <3> QED BY <3>1, <3>2, <3>3, <3>4, Zenon
  <2>13. overlapped \subseteq overlapped' /\ overlapped' \subseteq Sessions
         /\ (s \notin overlapped' => UnderWay(s) = {})
    BY <2>2 DEF MemoryTypeInv
  <2>14. answers' \in [Sessions -> SUBSET (Scopes \cup {Absent})] BY <1>1 DEF MemoryTypeInv
  <2>15. PICK st : /\ call' = [call EXCEPT ![r] = st] /\ st \in State /\ st.session = s /\ st.scope = scope
                   /\ st.profile = Absent /\ st.anchor \in {Absent, scope}
                   /\ st.pc \in {"profile", "contextual"} /\ (st.pc = "profile" => ~m.initialized)
    <3>1. CASE memory[s].initialized
      <4>1. PICK st : st = [begun EXCEPT !.pc = "contextual", !.anchor = m.search] OBVIOUS
      <4>2. Contextual(r, begun) = st BY <4>1, <2>5, <2>10 DEF Contextual
      <4>3. call' = [call EXCEPT ![r] = st] BY <3>1, <2>2, <4>2
      <4>4. m.search \in Scopes \cup {Absent} BY <2>7 DEF Memories
      <4>5. /\ st \in State /\ st.session = s /\ st.scope = scope /\ st.profile = Absent
            /\ st.anchor = m.search /\ st.pc = "contextual"
        BY <4>1, <4>4, <2>5 DEF State
      <4> QED BY <4>3, <4>5, <2>8, <2>11
    <3>2. CASE ~memory[s].initialized
      <4>1. PICK st : st = [begun EXCEPT !.pc = "profile"] OBVIOUS
      <4>2. call' = [call EXCEPT ![r] = st] BY <3>2, <2>2, <4>1
      <4>3. /\ st \in State /\ st.session = s /\ st.scope = scope /\ st.profile = Absent
            /\ st.anchor = Absent /\ st.pc = "profile"
        BY <4>1, <2>5 DEF State
      <4>4. ~m.initialized BY <3>2, <2>9, Zenon
      <4> QED BY <4>2, <4>3, <4>4
    <3> QED BY <3>1, <3>2
  <2>16. st.pc \in Going /\ st.pc # "updating" BY <2>15 DEF Going
  <2>17. Goes(r, s, m, st)
    BY <2>7, <2>8, <2>10, <2>11, <2>12, <2>13, <2>14, <2>15, <2>16 DEF Goes
  <2> QED BY <1>1, <2>17, GoesInv
<1> QED BY <1>2, <1>3

(* The profile search has come to p, and X is what it adds to the answers. *)
Comes(r, p, X) ==
  /\ memory' = [memory EXCEPT ![Of(r)].profile = p, ![Of(r)].initialized = TRUE]
  /\ answers' = [answers EXCEPT ![Of(r)] = @ \cup X]
  /\ call' = [call EXCEPT ![r] = Contextual(r, @)]
  /\ X \subseteq {p} /\ (mode = "throw" => X # {})

(* The first profile of a session that is not shared is the one it keeps.  *)
LEMMA ComesInv ==
  ASSUME Named, MemoryIInv, NEW r \in Callers, call[r].pc = "profile",
         NEW p \in {Absent, call[r].scope}, NEW X, Comes(r, p, X),
         UNCHANGED <<mode, pendingId, updates, newest, waiter, overlapped>>
  PROVE  MemoryIInv'
<1> USE DEF MemoryIInv
<1>1. PICK s \in Sessions : s = Of(r) BY Mine
<1>2. /\ call[r].session = s /\ Belongs(r) /\ memory[s].scope = call[r].scope
      /\ call[r].scope \in Scopes /\ call[r].scope # Absent
      /\ s \notin overlapped => UnderWay(s) \subseteq {r} /\ Alone(s)
  BY <1>1, Mine
<1>3. call[r] \in State /\ memory[s] \in Memories BY Types
<1>4. PICK m : m = [memory[s] EXCEPT !.profile = p, !.initialized = TRUE] OBVIOUS
<1>5. m \in Memories BY <1>2, <1>3, <1>4, Zenon DEF Memories
<1>6. /\ m.scope = memory[s].scope /\ m.profile = p /\ m.search = memory[s].search
      /\ m.update = memory[s].update /\ m.initialized = TRUE
  BY <1>3, <1>4 DEF Memories
<1>7. memory' = [memory EXCEPT ![s] = m] BY <1>1, <1>4 DEF Comes
<1>8. memory'[s] = m /\ \A t \in Sessions : t # s => memory'[t] = memory[t] BY <1>7 DEF MemoryTypeInv
<1>9. m.search \in {Absent, m.scope} /\ m.profile \in {Absent, m.scope}
  BY <1>2, <1>6 DEF MemoryInv
<1>10. PICK st : st = [call[r] EXCEPT !.pc = "contextual", !.anchor = m.search] OBVIOUS
<1>11. Contextual(r, call[r]) = st BY <1>2, <1>8, <1>10 DEF Contextual
<1>12. call' = [call EXCEPT ![r] = st] BY <1>11 DEF Comes
<1>13. m.search \in Scopes \cup {Absent} BY <1>5 DEF Memories
<1>14. /\ st \in State /\ st.session = s /\ st.scope = call[r].scope /\ st.profile = call[r].profile
       /\ st.anchor = m.search /\ st.pc = "contextual"
  BY <1>2, <1>3, <1>10, <1>13 DEF State
<1>15. answers'[s] = answers[s] \cup X /\ \A t \in Sessions : t # s => answers'[t] = answers[t]
  BY <1>1 DEF Comes, MemoryTypeInv
<1>16. answers' \in [Sessions -> SUBSET (Scopes \cup {Absent})]
  BY <1>1, <1>2 DEF Comes, MemoryTypeInv
<1>17. s \notin overlapped => answers[s] = {}
  <2> SUFFICES ASSUME s \notin overlapped PROVE answers[s] = {} OBVIOUS
  <2>1. r \in UnderWay(s) BY <1>2 DEF UnderWay
  <2>2. ~memory[s].initialized BY <1>2, <2>1 DEF Alone
  <2> QED BY <2>2 DEF ProfileInv
<1>18. ProfileInv'
  <2> SUFFICES ASSUME NEW t \in Sessions
               PROVE  /\ mode = "throw" /\ memory'[t].initialized => answers'[t] # {}
                      /\ t \notin overlapped =>
                           /\ answers'[t] \subseteq {memory'[t].profile}
                           /\ ~memory'[t].initialized => answers'[t] = {}
    BY DEF ProfileInv
  <2>1. CASE t = s BY <2>1, <1>6, <1>8, <1>15, <1>17 DEF Comes
  <2>2. CASE t # s
    <3>1. /\ mode = "throw" /\ memory[t].initialized => answers[t] # {}
          /\ t \notin overlapped =>
               /\ answers[t] \subseteq {memory[t].profile}
               /\ ~memory[t].initialized => answers[t] = {}
      BY DEF ProfileInv
    <3> QED BY <3>1, <2>2, <1>8, <1>15
  <2> QED BY <2>1, <2>2
<1>19. overlapped' \subseteq Sessions /\ overlapped \subseteq overlapped' BY DEF MemoryTypeInv
<1>20. st.profile \in {Absent, st.scope} BY <1>2, <1>14 DEF Belongs
<1>21. st.pc \in Going /\ st.pc # "updating" /\ st.pc # "profile" BY <1>14 DEF Going
<1>22. Goes(r, s, m, st)
  BY <1>2, <1>5, <1>6, <1>7, <1>9, <1>12, <1>14, <1>16, <1>18, <1>19, <1>20, <1>21 DEF Goes
<1> QED BY <1>22, GoesInv

(* The profile search: answered, failed or cancelled.                      *)
LEMMA ProfileActInv == ASSUME Named, MemoryIInv, NEW r \in Callers, Profile(r) PROVE MemoryIInv'
<1>1. call[r].pc = "profile" /\ UNCHANGED <<mode, pendingId, updates, newest, waiter, overlapped>>
  BY DEF Profile
<1>2. Of(r) \in Sessions BY <1>1, Mine
<1>3. CASE \E p \in {Absent, call[r].scope} :
             /\ memory' = [memory EXCEPT ![Of(r)].profile = p, ![Of(r)].initialized = TRUE]
             /\ answers' = [answers EXCEPT ![Of(r)] = @ \cup {p}]
             /\ call' = [call EXCEPT ![r] = Contextual(r, @)]
  <2>1. PICK p \in {Absent, call[r].scope} : Comes(r, p, {p}) BY <1>3 DEF Comes
  <2> QED BY <1>1, <2>1, ComesInv
<1>4. CASE ProfileFailed(r) /\ UNCHANGED answers /\ mode = "continue"
           /\ call' = [call EXCEPT ![r] = Contextual(r, @)]
  <2>1. answers' = [answers EXCEPT ![Of(r)] = @ \cup {}] BY <1>2, <1>4 DEF MemoryIInv, MemoryTypeInv
  <2>2. Comes(r, Absent, {}) BY <1>4, <2>1 DEF Comes, ProfileFailed
  <2> QED BY <1>1, <2>2, ComesInv
<1>5. CASE Leaves(r) /\ UNCHANGED <<memory, answers>> BY <1>1, <1>5, LeavesInv
<1> QED BY <1>3, <1>4, <1>5 DEF Profile, ProfileFailed

(* The run is told what the memory of its session holds.                   *)
LEMMA SearchInv == ASSUME Named, MemoryIInv, NEW r \in Callers, Search(r) PROVE MemoryIInv'
<1> USE DEF MemoryIInv
<1>1. /\ call[r].pc = "contextual"
      /\ UNCHANGED <<mode, pendingId, updates, newest, waiter, answers, overlapped>>
  BY DEF Search
<1>2. CASE Leaves(r) /\ UNCHANGED memory BY <1>1, <1>2, LeavesInv
<1>3. CASE Works(r) /\ (memory' = [memory EXCEPT ![Of(r)].search = call[r].scope] \/ UNCHANGED memory)
  <2>1. PICK s \in Sessions : s = Of(r) BY <1>1, Mine
  <2>2. /\ call[r].session = s /\ Belongs(r) /\ memory[s].scope = call[r].scope
        /\ call[r].scope \in Scopes /\ call[r].scope # Absent
        /\ s \notin overlapped => UnderWay(s) \subseteq {r}
    BY <1>1, <2>1, Mine
  <2>3. call[r] \in State /\ memory[s] \in Memories BY Types
  <2>4. PICK m : m \in {memory[s], [memory[s] EXCEPT !.search = call[r].scope]}
                 /\ memory' = [memory EXCEPT ![s] = m]
    BY <1>3, <2>1 DEF MemoryTypeInv
  <2>5. m \in Memories BY <2>2, <2>3, <2>4, Zenon DEF Memories
  <2>6. /\ m.scope = memory[s].scope /\ m.profile = memory[s].profile
        /\ m.update = memory[s].update /\ m.search \in {memory[s].search, call[r].scope}
    BY <2>3, <2>4 DEF Memories
  <2>7. m.initialized = memory[s].initialized BY <2>3, <2>4 DEF Memories
  <2>8. memory'[s] = m /\ \A t \in Sessions : t # s => memory'[t] = memory[t] BY <2>4 DEF MemoryTypeInv
  <2>9. m.search \in {Absent, m.scope} /\ m.profile \in {Absent, m.scope} BY <2>2, <2>6 DEF MemoryInv
  <2>10. PICK st : st = [call[r] EXCEPT !.pc = "working", !.profile = memory[s].profile] OBVIOUS
  <2>11. call' = [call EXCEPT ![r] = st] BY <1>3, <2>1, <2>10 DEF Works
  <2>12. memory[s].profile \in Scopes \cup {Absent} BY <2>3 DEF Memories
  <2>13. /\ st \in State /\ st.session = s /\ st.scope = call[r].scope /\ st.profile = memory[s].profile
         /\ st.anchor = call[r].anchor /\ st.pc = "working"
    BY <2>2, <2>3, <2>10, <2>12 DEF State
  <2>14. ProfileInv'
    <3> SUFFICES ASSUME NEW t \in Sessions
                 PROVE  /\ mode = "throw" /\ memory'[t].initialized => answers[t] # {}
                        /\ t \notin overlapped =>
                             /\ answers[t] \subseteq {memory'[t].profile}
                             /\ ~memory'[t].initialized => answers[t] = {}
      BY <1>1 DEF ProfileInv
    <3>1. memory'[t].profile = memory[t].profile BY <2>6, <2>8
    <3>2. memory'[t].initialized = memory[t].initialized
      <4>1. CASE t = s BY <4>1, <2>7, <2>8
      <4>2. CASE t # s BY <4>2, <2>8
      <4> QED BY <4>1, <4>2
    <3>3. /\ mode = "throw" /\ memory[t].initialized => answers[t] # {}
          /\ t \notin overlapped =>
               /\ answers[t] \subseteq {memory[t].profile}
               /\ ~memory[t].initialized => answers[t] = {}
      BY DEF ProfileInv
    <3> QED BY <3>1, <3>2, <3>3, Zenon
  <2>15. /\ overlapped' \subseteq Sessions /\ overlapped \subseteq overlapped'
         /\ answers' \in [Sessions -> SUBSET (Scopes \cup {Absent})]
    BY <1>1 DEF MemoryTypeInv
  <2>16. st.anchor \in {Absent, st.scope} /\ st.profile \in {Absent, st.scope}
    BY <2>2, <2>6, <2>9, <2>13 DEF Belongs
  <2>17. st.pc \in Going /\ st.pc # "updating" /\ st.pc # "profile" BY <2>13 DEF Going
  <2>18. Goes(r, s, m, st)
    BY <1>1, <2>2, <2>4, <2>5, <2>6, <2>9, <2>11, <2>13, <2>14, <2>15, <2>16, <2>17 DEF Goes
  <2> QED BY <1>1, <2>18, GoesInv
<1> QED BY <1>2, <1>3 DEF Search

(* afterRun: the update continues the one that the session knows of.       *)
LEMMA EndsInv == ASSUME Named, MemoryIInv, NEW r \in Callers, Ends(r) PROVE MemoryIInv'
<1> USE DEF MemoryIInv
<1>1. /\ call[r].pc = "working"
      /\ UNCHANGED <<mode, pendingId, updates, newest, waiter, answers, overlapped>>
  BY DEF Ends
<1>2. CASE Leaves(r) /\ UNCHANGED memory BY <1>1, <1>2, LeavesInv
<1>3. ASSUME NEW scope \in Scopes, Resolves(Of(r), scope), memory' = [memory EXCEPT ![Of(r)].scope = scope],
             call' = [call EXCEPT ![r].pc = "updating", ![r].scope = scope, ![r].follows = Follows(r)]
      PROVE  MemoryIInv'
  <2>1. PICK s \in Sessions : s = Of(r) BY <1>1, Mine
  <2>2. /\ call[r].session = s /\ Belongs(r) /\ memory[s].scope = call[r].scope
        /\ call[r].scope \in Scopes /\ call[r].scope # Absent
        /\ s \notin overlapped => UnderWay(s) \subseteq {r}
    BY <1>1, <2>1, Mine
  <2>3. call[r] \in State /\ memory[s] \in Memories BY Types
  <2>4. scope = memory[s].scope BY <1>3, <2>1, <2>2 DEF Resolves
  <2>5. PICK m \in Memories : m = memory[s] BY <2>3
  <2>6. memory' = [memory EXCEPT ![s] = m] /\ memory' = memory
    <3>1. [m EXCEPT !.scope = scope] = m BY <2>4, <2>5 DEF Memories
    <3>2. memory' = [memory EXCEPT ![s] = m] BY <1>3, <2>1, <2>5, <3>1
    <3> QED BY <3>2, <2>5 DEF MemoryTypeInv
  <2>7. PICK st : st = [call[r] EXCEPT !.pc = "updating", !.scope = scope, !.follows = memory[s].update]
    OBVIOUS
  <2>8. call' = [call EXCEPT ![r] = st] BY <1>3, <2>1, <2>7 DEF Follows
  <2>9. memory[s].update \in Nat BY <2>3 DEF Memories
  <2>10. /\ st \in State /\ st.session = s /\ st.scope = scope /\ st.profile = call[r].profile
         /\ st.anchor = call[r].anchor /\ st.pc = "updating" /\ st.follows = memory[s].update
    BY <2>2, <2>3, <2>7, <2>9 DEF State
  <2>11. m.search \in {Absent, m.scope} /\ m.profile \in {Absent, m.scope} BY <2>5 DEF MemoryInv
  <2>12. ProfileInv' BY <1>1, <2>6 DEF ProfileInv
  <2>13. /\ overlapped' \subseteq Sessions /\ overlapped \subseteq overlapped'
         /\ answers' \in [Sessions -> SUBSET (Scopes \cup {Absent})]
    BY <1>1 DEF MemoryTypeInv
  <2>14. st.anchor \in {Absent, st.scope} /\ st.profile \in {Absent, st.scope}
    BY <2>2, <2>4, <2>10 DEF Belongs
  <2>15. st.pc \in Going /\ st.pc # "profile" BY <2>10 DEF Going
  <2>16. Goes(r, s, m, st)
    BY <1>1, <2>2, <2>4, <2>5, <2>6, <2>8, <2>10, <2>11, <2>12, <2>13, <2>14, <2>15 DEF Goes
  <2> QED BY <1>1, <2>16, GoesInv
<1> QED BY <1>2, <1>3 DEF Ends

LEMMA UpdateFailsInv == ASSUME Named, MemoryIInv, NEW r \in Callers, UpdateFails(r) PROVE MemoryIInv'
BY LeavesInv DEF UpdateFails

-----------------------------------------------------------------------------
(* What the service does to the updates that it has: they may settle, and  *)
(* one may be told.                                                        *)
Settles(us) ==
  \A i \in DOMAIN updates :
    /\ us[i] \in Update /\ us[i].session = updates[i].session /\ us[i].scope = updates[i].scope
    /\ us[i].follows = updates[i].follows
    /\ updates[i].status # "queued" => us[i].status = updates[i].status

LEMMA PendingStays ==
  ASSUME PendingInv, Settles(updates'), DOMAIN updates \subseteq DOMAIN updates',
         UNCHANGED <<pendingId, newest, waiter>>
  PROVE  PendingInv'
BY DEF PendingInv, Settles

(* The service takes an update in.                                         *)
LEMMA ArrivesInv == ASSUME Named, MemoryIInv, NEW r \in Callers, Arrives(r) PROVE MemoryIInv'
<1> USE DEF MemoryIInv
<1>1. /\ call[r].pc = "updating"
      /\ UNCHANGED <<mode, memory, pendingId, newest, waiter, answers, overlapped>>
  BY DEF Arrives
<1>2. PICK s \in Sessions : s = Of(r) BY <1>1, Mine
<1>3. /\ call[r].session = s /\ Belongs(r) /\ memory[s].scope = call[r].scope /\ call[r].scope \in Scopes
      /\ s \notin overlapped => UnderWay(s) \subseteq {r} /\ Alone(s)
  BY <1>1, <1>2, Mine
<1>4. call[r] \in State /\ call[r].follows \in Nat BY Types DEF State
<1>5. PICK update : update = [session |-> s, scope |-> call[r].scope, follows |-> call[r].follows,
                              status |-> "queued", told |-> FALSE]
  OBVIOUS
<1>6. update \in Update BY <1>3, <1>4, <1>5 DEF Update, Statuses
<1>7. PICK marked : marked = [i \in DOMAIN updates |->
                      IF i = update.follows /\ updates[i].status = "queued"
                      THEN [updates[i] EXCEPT !.status = "superseded"] ELSE updates[i]]
  OBVIOUS
<1>8. updates' = Append(marked, update) BY <1>2, <1>5, <1>7 DEF Arrives
<1>9. ASSUME NEW i \in DOMAIN updates
      PROVE  /\ marked[i] \in Update /\ marked[i].session = updates[i].session
             /\ marked[i].scope = updates[i].scope /\ marked[i].follows = updates[i].follows
             /\ updates[i].status # "queued" => marked[i].status = updates[i].status
             /\ marked[i].told = updates[i].told
  <2>1. updates[i] \in Update BY Types
  <2>2. CASE i = update.follows /\ updates[i].status = "queued"
    <3>1. marked[i] = [updates[i] EXCEPT !.status = "superseded"] BY <1>7, <2>2
    <3>2. marked[i] \in Update BY <2>1, <3>1, Zenon DEF Update, Statuses
    <3>3. marked[i].told = updates[i].told BY <2>1, <3>1 DEF Update
    <3> QED BY <2>1, <2>2, <3>1, <3>2, <3>3 DEF Update
  <2>3. CASE ~(i = update.follows /\ updates[i].status = "queued") BY <1>7, <2>1, <2>3
  <2> QED BY <2>2, <2>3
<1>10. PICK n \in Nat : n = Len(updates) /\ DOMAIN updates = 1 .. n BY Types
<1>11. marked \in Seq(Update) /\ Len(marked) = n
  <2>1. marked \in [1 .. n -> Update] BY <1>7, <1>9, <1>10
  <2> QED BY <2>1
<1>12. /\ updates' \in Seq(Update) /\ Len(updates') = n + 1 /\ DOMAIN updates' = 1 .. n + 1
       /\ updates'[n + 1] = update /\ \A i \in 1 .. n : updates'[i] = marked[i]
  BY <1>6, <1>8, <1>11
<1>13. Settles(updates') BY <1>9, <1>10, <1>12 DEF Settles
<1>14. Pinned /\ Grown BY <1>1, <1>10, <1>12, <1>13 DEF Pinned, Grown, Settles
<1>15. PICK st : st = [call[r] EXCEPT !.pc = "arrived", !.follows = n + 1] OBVIOUS
<1>16. call' = [call EXCEPT ![r] = st] BY <1>12, <1>15 DEF Arrives
<1>17. st \in State
  <2>1. n + 1 \in Nat BY <1>10
  <2> QED BY <2>1, <1>4, <1>15 DEF State
<1>18. /\ st.pc = "arrived" /\ st.follows = n + 1 /\ st.session = s /\ st.scope = call[r].scope
       /\ st.profile = call[r].profile /\ st.anchor = call[r].anchor
  BY <1>3, <1>4, <1>15 DEF State
<1>19. call'[r] = st /\ \A q \in Callers : q # r => call'[q] = call[q] BY <1>16 DEF MemoryTypeInv
<1>20. MemoryTypeInv' BY <1>1, <1>12, <1>16, <1>17 DEF MemoryTypeInv
<1>21. \A i, t : IsOf(i, t) => IsOf(i, t)' BY <1>14 DEF Grown, IsOf
<1>22. MemoryInv' BY <1>1, <1>21 DEF MemoryInv
<1>23. MemoryRunInv'
  <2>1. ASSUME NEW q \in Callers PROVE IF call'[q].pc \in {"new", "over"} THEN Blank(q)' ELSE Belongs(q)'
    <3>1. CASE q = r
      <4>1. IsOf(n + 1, s)' BY <1>5, <1>10, <1>12 DEF IsOf
      <4>2. Belongs(r)' BY <1>1, <1>3, <1>18, <1>19, <4>1 DEF Belongs
      <4> QED BY <3>1, <4>2, <1>18, <1>19
    <3>2. CASE q # r BY <3>2, <1>14, <1>19, StaysWhereItBelongs
    <3> QED BY <3>1, <3>2
  <2> QED BY <2>1 DEF MemoryRunInv
<1>24. UpdateInv'
  <2> SUFFICES ASSUME NEW i \in DOMAIN updates'
               PROVE  /\ updates'[i].scope = memory'[updates'[i].session].scope
                      /\ updates'[i].follows # 0 => IsOf(updates[i].follows, updates[i].session)'
    BY DEF UpdateInv
  <2>1. CASE i = n + 1
    <3>1. call[r].follows # 0 => IsOf(call[r].follows, s) BY <1>1, <1>3 DEF Belongs
    <3>2. /\ updates'[i].scope = call[r].scope /\ updates'[i].session = s
          /\ updates'[i].follows = call[r].follows
      BY <2>1, <1>5, <1>12
    <3> QED BY <3>1, <3>2, <1>1, <1>3, <1>21
  <2>2. CASE i # n + 1
    <3>1. i \in DOMAIN updates BY <2>2, <1>10, <1>12
    <3> QED BY <3>1, <1>1, <1>14, <1>21 DEF UpdateInv, Grown
  <2> QED BY <2>1, <2>2
<1>25. PendingInv' BY <1>1, <1>13, <1>14, PendingStays DEF Grown
<1>26. ProfileInv' BY <1>1 DEF ProfileInv
<1>27. PastInv'
  <2> SUFFICES ASSUME NEW t \in Sessions, t \notin overlapped PROVE Alone(t)' /\ Chained(t)'
    BY <1>1 DEF PastInv
  <2>1. Alone(t) /\ Chained(t) BY DEF PastInv
  <2>2. UnderWay(t)' = UnderWay(t) BY <1>3, <1>18, <1>19 DEF UnderWay
  <2>3. Alone(t)'
    <3>1. CASE t = s
      <4>1. UnderWay(t)' \subseteq {r} BY <2>2, <3>1, <1>3
      <4>2. \A i \in DOMAIN updates' : i <= n + 1 BY <1>10, <1>12
      <4> QED BY <4>1, <4>2, <1>18, <1>19 DEF Alone
    <3>2. CASE t # s
      <4>1. r \notin UnderWay(t) BY <3>2, <1>3 DEF UnderWay
      <4>2. \A q \in UnderWay(t) : call'[q] = call[q] BY <4>1, <1>19 DEF UnderWay
      <4>3. \A i \in DOMAIN updates' : updates'[i].session = t =>
              i \in DOMAIN updates /\ updates[i].session = t
        BY <3>2, <1>5, <1>9, <1>10, <1>12
      <4> QED BY <2>1, <2>2, <4>2, <4>3, <1>1 DEF Alone
    <3> QED BY <3>1, <3>2
  <2>4. ASSUME NEW k \in 0 .. n PROVE Told(t, k)' = Told(t, k)
    BY <1>9, <1>10, <1>12 DEF Told
  <2>5. Told(t, n + 1)' = Told(t, n)
    <3>1. ~updates'[n + 1].told BY <1>5, <1>12
    <3>2. Told(t, n + 1)' = Told(t, n)' BY <3>1, <1>10 DEF Told
    <3> QED BY <3>2, <2>4, <1>10
  <2>6. IsNewest(memory'[t].update, Told(t, n + 1)') BY <2>1, <2>5, <1>1, <1>10 DEF Chained
  <2>7. ASSUME NEW i \in DOMAIN updates', updates'[i].session = t
        PROVE  IsNewest(updates'[i].follows, Told(t, i - 1)')
    <3>1. CASE i = n + 1
      <4>1. t = s BY <3>1, <2>7, <1>5, <1>12
      <4>2. r \in UnderWay(t) BY <4>1, <1>3 DEF UnderWay
      <4>3. updates'[i].follows = memory[t].update BY <3>1, <4>2, <2>1, <1>1, <1>5, <1>12 DEF Alone
      <4>4. i - 1 = n /\ n \in 0 .. n BY <3>1, <1>10
      <4> QED BY <4>3, <4>4, <2>1, <2>4, <1>10 DEF Chained
    <3>2. CASE i # n + 1
      <4>1. i \in DOMAIN updates /\ i - 1 \in 0 .. n BY <3>2, <1>10, <1>12
      <4>2. updates[i].session = t /\ updates'[i].follows = updates[i].follows
        BY <4>1, <2>7, <1>9, <1>10, <1>12
      <4> QED BY <4>1, <4>2, <2>1, <2>4 DEF Chained
    <3> QED BY <3>1, <3>2
  <2>8. Chained(t)' BY <2>6, <2>7, <1>12 DEF Chained
  <2> QED BY <2>3, <2>8
<1> QED BY <1>20, <1>22, <1>23, <1>24, <1>25, <1>26, <1>27

(* The session learns of its update.                                       *)
LEMMA UpdatedInv == ASSUME Named, MemoryIInv, NEW r \in Callers, Updated(r) PROVE MemoryIInv'
<1> USE DEF MemoryIInv
<1>1. call[r].pc = "arrived" /\ Leaves(r) /\ UNCHANGED <<mode, waiter, answers, overlapped>>
  BY DEF Updated
<1>2. PICK s \in Sessions : s = Of(r) BY <1>1, Mine
<1>3. /\ call[r].session = s /\ Belongs(r)
      /\ s \notin overlapped => UnderWay(s) \subseteq {r} /\ Alone(s)
  BY <1>1, <1>2, Mine
<1>4. PICK id \in Nat : id = call[r].follows BY Types DEF State
<1>5. PICK n \in Nat : n = Len(updates) /\ DOMAIN updates = 1 .. n BY Types
<1>6. id \in 1 .. n /\ updates[id].session = s BY <1>1, <1>3, <1>4, <1>5 DEF Belongs, IsOf
<1>7. /\ memory' = [memory EXCEPT ![s].update = id] /\ pendingId' = id /\ newest' = id
      /\ updates' = [updates EXCEPT ![id].told = TRUE]
  BY <1>2, <1>4 DEF Updated
<1>8. PICK told : told = [updates[id] EXCEPT !.told = TRUE] OBVIOUS
<1>9. updates[id] \in Update BY <1>5, <1>6, Types
<1>10. told \in Update BY <1>8, <1>9, Zenon DEF Update
<1>11. /\ told.session = updates[id].session /\ told.scope = updates[id].scope
       /\ told.follows = updates[id].follows /\ told.status = updates[id].status
  BY <1>8, <1>9 DEF Update
<1>12. told.told = TRUE BY <1>8, <1>9 DEF Update
<1>13. updates' = [updates EXCEPT ![id] = told] BY <1>7, <1>8
<1>14. /\ updates' \in Seq(Update) /\ DOMAIN updates' = 1 .. n /\ Len(updates') = n
       /\ updates'[id] = told /\ \A i \in 1 .. n : i # id => updates'[i] = updates[i]
  BY <1>5, <1>6, <1>10, <1>13 DEF MemoryTypeInv
<1>15. \A i \in 1 .. n : updates[i] \in Update BY <1>5, Types
<1>16. Settles(updates') BY <1>5, <1>10, <1>11, <1>14, <1>15 DEF Settles
<1>17. PICK m : m = [memory[s] EXCEPT !.update = id] OBVIOUS
<1>18. memory[s] \in Memories BY Types
<1>19. m \in Memories BY <1>17, <1>18, Zenon DEF Memories
<1>20. /\ m.scope = memory[s].scope /\ m.profile = memory[s].profile /\ m.search = memory[s].search
       /\ m.update = id
  BY <1>17, <1>18 DEF Memories
<1>21. m.initialized = memory[s].initialized BY <1>17, <1>18 DEF Memories
<1>22. memory' = [memory EXCEPT ![s] = m] BY <1>7, <1>17
<1>23. memory'[s] = m /\ \A t \in Sessions : t # s => memory'[t] = memory[t] BY <1>22 DEF MemoryTypeInv
<1>24. /\ call' \in [Callers -> State] /\ Blank(r)' /\ call'[r].pc = "over"
       /\ \A q \in Callers : q # r => call'[q] = call[q]
  BY <1>1, Ended
<1>25. Pinned /\ Grown BY <1>5, <1>14, <1>16, <1>20, <1>23 DEF Pinned, Grown, Settles
<1>26. \A i, t : IsOf(i, t) => IsOf(i, t)' BY <1>25 DEF Grown, IsOf
<1>27. MemoryTypeInv'
  <2>1. memory' \in [Sessions -> Memories] BY <1>19, <1>22 DEF MemoryTypeInv
  <2> QED BY <2>1, <1>1, <1>7, <1>14, <1>24 DEF MemoryTypeInv
<1>28. MemoryInv'
  <2> SUFFICES ASSUME NEW t \in Sessions
               PROVE  /\ memory'[t].profile \in {Absent, memory'[t].scope}
                      /\ memory'[t].search \in {Absent, memory'[t].scope}
                      /\ memory'[t].update # 0 => IsOf(memory[t].update, t)'
    BY DEF MemoryInv
  <2>1. CASE t = s
    <3>1. IsOf(id, s)' BY <1>5, <1>6, <1>26 DEF IsOf
    <3> QED BY <2>1, <3>1, <1>20, <1>23 DEF MemoryInv
  <2>2. CASE t # s BY <2>2, <1>23, <1>26 DEF MemoryInv
  <2> QED BY <2>1, <2>2
<1>29. MemoryRunInv'
  <2>1. ASSUME NEW q \in Callers PROVE IF call'[q].pc \in {"new", "over"} THEN Blank(q)' ELSE Belongs(q)'
    <3>1. CASE q = r BY <3>1, <1>24
    <3>2. CASE q # r BY <3>2, <1>24, <1>25, StaysWhereItBelongs
    <3> QED BY <3>1, <3>2
  <2> QED BY <2>1 DEF MemoryRunInv
<1>30. UpdateInv'
  <2> SUFFICES ASSUME NEW i \in DOMAIN updates'
               PROVE  /\ updates'[i].scope = memory'[updates'[i].session].scope
                      /\ updates'[i].follows # 0 => IsOf(updates[i].follows, updates[i].session)'
    BY DEF UpdateInv
  <2>1. i \in DOMAIN updates /\ updates[i].session \in Sessions BY <1>5, <1>14, <1>15 DEF Update
  <2>2. memory'[updates[i].session].scope = memory[updates[i].session].scope BY <2>1, <1>20, <1>23
  <2> QED BY <2>1, <2>2, <1>25, <1>26 DEF UpdateInv, Grown
<1>31. PendingInv' BY <1>1, <1>5, <1>6, <1>7, <1>14 DEF PendingInv
<1>32. ProfileInv'
  <2> SUFFICES ASSUME NEW t \in Sessions
               PROVE  /\ mode = "throw" /\ memory'[t].initialized => answers[t] # {}
                      /\ t \notin overlapped =>
                           /\ answers[t] \subseteq {memory'[t].profile}
                           /\ ~memory'[t].initialized => answers[t] = {}
    BY <1>1 DEF ProfileInv
  <2>1. memory'[t].profile = memory[t].profile BY <1>20, <1>23
  <2>2. memory'[t].initialized = memory[t].initialized
    <3>1. CASE t = s BY <3>1, <1>21, <1>23
    <3>2. CASE t # s BY <3>2, <1>23
    <3> QED BY <3>1, <3>2
  <2>3. /\ mode = "throw" /\ memory[t].initialized => answers[t] # {}
        /\ t \notin overlapped =>
             /\ answers[t] \subseteq {memory[t].profile}
             /\ ~memory[t].initialized => answers[t] = {}
    BY DEF ProfileInv
  <2> QED BY <2>1, <2>2, <2>3, Zenon
<1>33. PastInv'
  <2> SUFFICES ASSUME NEW t \in Sessions, t \notin overlapped PROVE Alone(t)' /\ Chained(t)'
    BY <1>1 DEF PastInv
  <2>1. Alone(t) /\ Chained(t) BY DEF PastInv
  <2>2. r \notin UnderWay(t)' BY <1>24 DEF UnderWay, Blank, Named
  <2>3. UnderWay(t)' \subseteq UnderWay(t) /\ \A q \in UnderWay(t)' : call'[q] = call[q]
    BY <2>2, <1>24 DEF UnderWay
  <2>4. CASE t = s
    <3>1. UnderWay(t)' = {} BY <2>2, <2>3, <2>4, <1>3
    <3>2. Alone(t)' BY <3>1 DEF Alone
    <3>3. \A i \in 1 .. n : updates[i].session = t => i <= id
      <4>1. r \in UnderWay(t) BY <2>4, <1>3 DEF UnderWay
      <4> QED BY <4>1, <2>1, <1>1, <1>4, <1>5 DEF Alone
    <3>4. ASSUME NEW k \in 0 .. n, k < id PROVE Told(t, k)' = Told(t, k)
      BY <3>4, <1>14 DEF Told
    <3>5. Told(t, n)' \subseteq {i \in 1 .. n : updates[i].session = t}
      BY <1>5, <1>11, <1>14 DEF Told
    <3>6. id \in Told(t, n)' BY <2>4, <1>6, <1>11, <1>12, <1>14 DEF Told
    <3>7. IsNewest(id, Told(t, n)') BY <3>3, <3>5, <3>6 DEF IsNewest
    <3>8. ASSUME NEW i \in 1 .. n, updates'[i].session = t
          PROVE  IsNewest(updates'[i].follows, Told(t, i - 1)')
      <4>1. updates[i].session = t /\ updates'[i].follows = updates[i].follows
        BY <3>8, <1>11, <1>14
      <4>2. i - 1 \in 0 .. n /\ i - 1 < id BY <4>1, <3>3
      <4> QED BY <4>1, <4>2, <3>4, <2>1, <1>5 DEF Chained
    <3>9. Chained(t)' BY <2>4, <3>7, <3>8, <1>14, <1>20, <1>23 DEF Chained
    <3> QED BY <3>2, <3>9
  <2>5. CASE t # s
    <3>1. \A i \in DOMAIN updates' : updates'[i].session = t => i # id /\ updates'[i] = updates[i]
      BY <2>5, <1>6, <1>11, <1>14
    <3>2. Alone(t)' BY <2>1, <2>3, <2>5, <3>1, <1>5, <1>14, <1>23 DEF Alone
    <3>3. ASSUME NEW k \in 0 .. n PROVE Told(t, k)' = Told(t, k)
      BY <2>5, <1>6, <1>11, <1>14 DEF Told
    <3>4. IsNewest(memory'[t].update, Told(t, n)') BY <2>1, <2>5, <3>3, <1>5, <1>23 DEF Chained
    <3>5. ASSUME NEW i \in 1 .. n, updates'[i].session = t
          PROVE  IsNewest(updates'[i].follows, Told(t, i - 1)')
      <4>1. i - 1 \in 0 .. n /\ updates'[i] = updates[i] BY <3>1, <3>5, <1>14
      <4> QED BY <4>1, <3>3, <3>5, <2>1, <1>5 DEF Chained
    <3>6. Chained(t)' BY <3>4, <3>5, <1>14 DEF Chained
    <3> QED BY <3>2, <3>6
  <2> QED BY <2>4, <2>5
<1> QED BY <1>27, <1>28, <1>29, <1>30, <1>31, <1>32, <1>33

(* The service settles an update that was queued.                          *)
LEMMA ExtractInv == ASSUME Named, MemoryIInv, Extract PROVE MemoryIInv'
<1> USE DEF MemoryIInv
<1>1. UNCHANGED <<mode, memory, pendingId, newest, call, waiter, answers, overlapped>> BY DEF Extract
<1>2. PICK i \in DOMAIN updates, status \in {"completed", "failed"} :
        updates[i].status = "queued" /\ updates' = [updates EXCEPT ![i].status = status]
  BY DEF Extract
<1>3. PICK settled : settled = [updates[i] EXCEPT !.status = status] OBVIOUS
<1>4. updates[i] \in Update BY Types
<1>5. settled \in Update BY <1>3, <1>4, Zenon DEF Update, Statuses
<1>6. /\ settled.session = updates[i].session /\ settled.scope = updates[i].scope
      /\ settled.follows = updates[i].follows
  BY <1>3, <1>4 DEF Update
<1>7. settled.told = updates[i].told BY <1>3, <1>4 DEF Update
<1>8. /\ updates' \in Seq(Update) /\ DOMAIN updates' = DOMAIN updates /\ Len(updates') = Len(updates)
      /\ updates'[i] = settled /\ \A j \in DOMAIN updates : j # i => updates'[j] = updates[j]
  BY <1>2, <1>3, <1>5 DEF MemoryTypeInv
<1>9. \A j \in DOMAIN updates : updates[j] \in Update BY Types
<1>10. Settles(updates') BY <1>2, <1>5, <1>6, <1>8, <1>9 DEF Settles
<1>11. Grown BY <1>8, <1>10 DEF Grown, Settles
<1>12. \A j, t : IsOf(j, t) = IsOf(j, t)' BY <1>8, <1>11 DEF Grown, IsOf
<1>13. MemoryTypeInv' BY <1>1, <1>8 DEF MemoryTypeInv
<1>14. MemoryInv' BY <1>1, <1>12 DEF MemoryInv
<1>15. MemoryRunInv' BY <1>1, <1>12 DEF MemoryRunInv, Blank, Belongs
<1>16. UpdateInv'
  <2> SUFFICES ASSUME NEW j \in DOMAIN updates'
               PROVE  /\ updates'[j].scope = memory'[updates'[j].session].scope
                      /\ updates'[j].follows # 0 => IsOf(updates[j].follows, updates[j].session)'
    BY DEF UpdateInv
  <2> QED BY <1>1, <1>8, <1>11, <1>12 DEF UpdateInv, Grown
<1>17. PendingInv' BY <1>1, <1>8, <1>10, PendingStays
<1>18. ProfileInv' BY <1>1 DEF ProfileInv
<1>19. PastInv'
  <2> SUFFICES ASSUME NEW t \in Sessions, t \notin overlapped PROVE Alone(t)' /\ Chained(t)'
    BY <1>1 DEF PastInv
  <2>1. Alone(t) /\ Chained(t) BY DEF PastInv
  <2>2. \A j \in DOMAIN updates : updates'[j].session = updates[j].session
                                 /\ updates'[j].follows = updates[j].follows
    BY <1>11 DEF Grown
  <2>3. \A j \in DOMAIN updates : updates'[j].told = updates[j].told
    <3>1. ASSUME NEW j \in DOMAIN updates PROVE updates'[j].told = updates[j].told
      <4>1. CASE j = i BY <4>1, <1>7, <1>8
      <4>2. CASE j # i BY <4>2, <1>8
      <4> QED BY <4>1, <4>2
    <3> QED BY <3>1
  <2>4. UnderWay(t)' = UnderWay(t) BY <1>1 DEF UnderWay
  <2>5. Alone(t)' BY <2>1, <2>2, <2>4, <1>1, <1>8 DEF Alone
  <2>6. PICK n \in Nat : n = Len(updates) /\ DOMAIN updates = 1 .. n BY Types
  <2>7. ASSUME NEW k \in 0 .. n PROVE Told(t, k)' = Told(t, k)
    <3>1. \A j \in 1 .. k : j \in DOMAIN updates BY <2>6
    <3>2. \A j \in 1 .. k : (updates'[j].session = t /\ updates'[j].told)
                          <=> (updates[j].session = t /\ updates[j].told)
      BY <2>2, <2>3, <3>1, Zenon
    <3> QED BY <3>2, Zenon DEF Told
  <2>8. ASSUME NEW j \in DOMAIN updates, updates[j].session = t
        PROVE  IsNewest(updates[j].follows, Told(t, j - 1)')
    <3>1. j - 1 \in 0 .. n BY <2>6
    <3> QED BY <3>1, <2>1, <2>7, <2>8 DEF Chained
  <2>9. Chained(t)' BY <2>1, <2>2, <2>6, <2>7, <2>8, <1>1, <1>8 DEF Chained
  <2> QED BY <2>5, <2>9
<1> QED BY <1>13, <1>14, <1>15, <1>16, <1>17, <1>18, <1>19

(* whenUpdatesCompleted: only what was waited for is forgotten.            *)
LEMMA WaitInv == ASSUME MemoryIInv, Wait \/ Waited PROVE MemoryIInv'
<1> USE DEF MemoryIInv
<1>1. UNCHANGED <<mode, memory, updates, newest, call, answers, overlapped>> BY DEF Wait, Waited
<1>2. /\ pendingId' \in {0, pendingId} /\ waiter' \in {0, pendingId}
      /\ pendingId' = 0 /\ pendingId # 0 =>
           pendingId = waiter /\ updates[waiter].status \in {"completed", "superseded"}
  BY DEF Wait, Waited, Forgets
<1>3. MemoryTypeInv' BY <1>1, <1>2 DEF MemoryTypeInv
<1>4. MemoryInv' /\ UpdateInv' BY <1>1 DEF MemoryInv, UpdateInv, IsOf
<1>5. MemoryRunInv' BY <1>1 DEF MemoryRunInv, Blank, Belongs, IsOf
<1>6. PendingInv' BY <1>1, <1>2 DEF PendingInv
<1>7. ProfileInv' BY <1>1 DEF ProfileInv
<1>8. PastInv'
  <2> SUFFICES ASSUME NEW t \in Sessions, t \notin overlapped PROVE Alone(t)' /\ Chained(t)'
    BY <1>1 DEF PastInv
  <2>1. Alone(t) /\ Chained(t) BY DEF PastInv
  <2>2. UnderWay(t)' = UnderWay(t) BY <1>1 DEF UnderWay
  <2>3. Alone(t)' BY <2>1, <2>2, <1>1 DEF Alone
  <2>4. Chained(t)' BY <2>1, <1>1 DEF Chained, Told, IsNewest
  <2> QED BY <2>3, <2>4
<1> QED BY <1>3, <1>4, <1>5, <1>6, <1>7, <1>8

(* Every step keeps the invariant.                                         *)
LEMMA MemoryNextInv == ASSUME Named, MemoryIInv, [MemoryNext]_memoryVars PROVE MemoryIInv'
<1>1. CASE \E r \in Callers, s \in Sessions, scope \in Scopes : Begin(r, s, scope) BY <1>1, BeginInv
<1>2. CASE \E r \in Callers : Profile(r) BY <1>2, ProfileActInv
<1>3. CASE \E r \in Callers : Search(r) BY <1>3, SearchInv
<1>4. CASE \E r \in Callers : Ends(r) BY <1>4, EndsInv
<1>5. CASE \E r \in Callers : Arrives(r) BY <1>5, ArrivesInv
<1>6. CASE \E r \in Callers : Updated(r) BY <1>6, UpdatedInv
<1>7. CASE \E r \in Callers : UpdateFails(r) BY <1>7, UpdateFailsInv
<1>8. CASE Extract BY <1>8, ExtractInv
<1>9. CASE Wait \/ Waited BY <1>9, WaitInv
<1>10. CASE UNCHANGED memoryVars
  <2>1. UNCHANGED memoryVars BY <1>10
  <2> QED BY <2>1 DEF memoryVars, MemoryIInv, MemoryTypeInv, MemoryInv, MemoryRunInv, UpdateInv, PendingInv, ProfileInv, PastInv,
                      Blank, Belongs, IsOf, Alone, Chained, Told, IsNewest, UnderWay
<1> QED BY <1>1, <1>2, <1>3, <1>4, <1>5, <1>6, <1>7, <1>8, <1>9, <1>10 DEF MemoryNext, MemoryDone

-----------------------------------------------------------------------------
(* What sessions, runs and updates carry belongs together at every step.   *)
THEOREM MemoryInvariance == MemorySpec => []MemoryIInv
<1>1. MemoryInit => MemoryIInv BY MemoryInitInv, NamedAssumption
<1>2. MemoryIInv /\ [MemoryNext]_memoryVars => MemoryIInv' BY MemoryNextInv, NamedAssumption
<1> QED BY <1>1, <1>2, PTL DEF MemorySpec

(* A run is told of memories of its own scope, continues a search of its   *)
(* scope and an update of its session; a session that is not shared keeps  *)
(* its first profile and continues its newest update; and the provider's   *)
(* last update is not forgotten before it is settled, however the runs of  *)
(* the sessions and the answers interleave.                                *)
THEOREM MemoryIsItsOwn == MemorySpec => []RemembersItsOwn
<1>1. MemoryIInv => OfItsScope
  <2> SUFFICES ASSUME MemoryIInv PROVE OfItsScope OBVIOUS
  <2>1. ASSUME NEW r \in Callers, call[r].pc \notin {"new", "over"}
        PROVE  call[r].profile \in {Absent, call[r].scope} /\ call[r].anchor \in {Absent, call[r].scope}
    BY <2>1 DEF MemoryIInv, MemoryRunInv, Belongs
  <2>2. ASSUME NEW i \in DOMAIN updates, updates[i].follows # 0
        PROVE  /\ updates[updates[i].follows].session = updates[i].session
               /\ updates[updates[i].follows].scope = updates[i].scope
    BY <2>2 DEF MemoryIInv, UpdateInv, IsOf
  <2> QED BY <2>1, <2>2 DEF OfItsScope
<1>2. MemoryIInv => OfItsPast
  <2> SUFFICES ASSUME MemoryIInv PROVE OfItsPast OBVIOUS
  <2>1. ASSUME NEW s \in Sessions, s \notin overlapped, NEW i \in DOMAIN updates, updates[i].session = s
        PROVE  IsNewest(updates[i].follows, {j \in 1 .. i - 1 : updates[j].session = s /\ updates[j].told})
    BY <2>1 DEF MemoryIInv, PastInv, Chained, Told
  <2>2. ASSUME NEW s \in Sessions
        PROVE  /\ mode = "throw" /\ memory[s].initialized => answers[s] # {}
               /\ s \notin overlapped => answers[s] \subseteq {memory[s].profile}
    BY DEF MemoryIInv, ProfileInv
  <2> QED BY <2>1, <2>2 DEF OfItsPast
<1>3. MemoryIInv => PendingIsKept BY DEF MemoryIInv, PendingInv, PendingIsKept
<1>4. MemoryIInv => RemembersItsOwn BY <1>1, <1>2, <1>3 DEF RemembersItsOwn
<1> QED BY <1>4, MemoryInvariance, PTL


-----------------------------------------------------------------------------
Load(skills) == [tenant : Tenants, at : Nat, by : Runs,
                 status : {"reading", "done", "failed"}, skills : skills]
Ask == [pc : {"new", "asking", "ready", "failed"}, tenant : Tenants \cup {""}, at : Nat,
        load : Nat, aborted : BOOLEAN, late : BOOLEAN]

SkillsTypeInv ==
  /\ refreshes \in BOOLEAN /\ clock \in Nat
  /\ \E skills : loads \in Seq(Load(skills))
  /\ entries \in [Tenants -> Nat] /\ asks \in [Runs -> Ask]

(* A load that is superseded by one made at a time.                        *)
Superseded(k, at) == loads[k].status = "failed" \/ (refreshes /\ loads[k].at < at)

LoadInv ==
  /\ \A l \in DOMAIN loads : loads[l].at <= clock
  /\ \A k, l \in DOMAIN loads :
       k < l /\ loads[k].tenant = loads[l].tenant => Superseded(k, loads[l].at)

(* The cache holds the newest load of a key, or all of them are over.      *)
EntryInv ==
  \A t \in Tenants :
    /\ entries[t] # 0 => entries[t] \in DOMAIN loads /\ loads[entries[t]].tenant = t
    /\ \A k \in DOMAIN loads : loads[k].tenant = t =>
         IF entries[t] = 0 THEN Superseded(k, clock) ELSE k <= entries[t]

(* A load is its run's only one, which waits for it as long as it reads,   *)
(* and while the cache holds its failure.                                  *)
SkillsRunInv ==
  /\ \A r \in Runs : asks[r].pc # "new" => asks[r].load \in DOMAIN loads
  /\ \A l \in DOMAIN loads :
       /\ asks[loads[l].by].pc # "new" /\ asks[loads[l].by].load = l
       /\ loads[l].status = "reading" => asks[loads[l].by].pc = "asking"
       /\ loads[l].status = "failed" /\ entries[loads[l].tenant] = l => asks[loads[l].by].pc = "asking"
  /\ \A r \in Runs : ~asks[r].late

(* What a load has come to: skills of its key, and always the program's own.*)
Whole(l) ==
  /\ DOMAIN loads[l].skills \subseteq 1 .. 4
  /\ \A i \in DOMAIN loads[l].skills : loads[l].skills[i].tenant = loads[l].tenant
  /\ ~alone => \E i \in DOMAIN loads[l].skills : loads[l].skills[i].name = "y"
SkillInv == \A l \in DOMAIN loads : loads[l].status = "done" => Whole(l)

(* A run waits for a load of its key that was fresh when it asked.         *)
AskInv ==
  \A r \in Runs : asks[r].pc # "new" =>
    /\ loads[asks[r].load].tenant = asks[r].tenant
    /\ refreshes => loads[asks[r].load].at = asks[r].at
    /\ asks[r].pc = "ready" => loads[asks[r].load].status = "done"

SkillsIInv == SkillsTypeInv /\ LoadInv /\ EntryInv /\ SkillsRunInv /\ SkillInv /\ AskInv

-----------------------------------------------------------------------------
(* The invariant holds before the first run asks.                          *)
LEMMA SkillsInitInv == SkillsInit => SkillsIInv
<1> SUFFICES ASSUME SkillsInit PROVE SkillsIInv OBVIOUS
<1>1. SkillsTypeInv
  <2>1. loads \in Seq(Load({})) BY DEF SkillsInit
  <2>2. NewAsk \in Ask BY DEF NewAsk, Ask
  <2> QED BY <2>1, <2>2 DEF SkillsTypeInv, SkillsInit
<1>2. LoadInv /\ EntryInv BY DEF LoadInv, EntryInv, SkillsInit
<1>3. SkillsRunInv
  <2>1. \A r \in Runs : asks[r] = NewAsk BY DEF SkillsInit
  <2>2. NewAsk.pc = "new" /\ NewAsk.late = FALSE BY DEF NewAsk
  <2>3. \A r \in Runs : asks[r].pc = "new" /\ asks[r].late = FALSE BY <2>1, <2>2
  <2>4. DOMAIN loads = {} BY DEF SkillsInit
  <2> QED BY <2>3, <2>4 DEF SkillsRunInv
<1>4. SkillInv BY DEF SkillInv, SkillsInit
<1>5. AskInv
  <2>1. \A r \in Runs : asks[r].pc = "new" BY DEF SkillsInit, NewAsk
  <2> QED BY <2>1 DEF AskInv
<1> QED BY <1>1, <1>2, <1>3, <1>4, <1>5 DEF SkillsIInv

(* What the loads are.                                                     *)
LEMMA LoadTypes ==
  ASSUME SkillsTypeInv
  PROVE  /\ Len(loads) \in Nat /\ DOMAIN loads = 1 .. Len(loads)
         /\ \A l \in DOMAIN loads :
              /\ loads[l].tenant \in Tenants /\ loads[l].at \in Nat /\ loads[l].by \in Runs
              /\ loads[l].status \in {"reading", "done", "failed"}
<1>1. PICK skills : loads \in Seq(Load(skills)) BY DEF SkillsTypeInv
<1>2. \A l \in DOMAIN loads : loads[l] \in Load(skills) BY <1>1
<1> QED BY <1>1, <1>2 DEF Load

(* A sequence is one over every set that has its elements.                 *)
LEMMA Widened ==
  ASSUME NEW S, NEW T, NEW s \in Seq(S), \A k \in DOMAIN s : s[k] \in T
  PROVE  s \in Seq(T)
<1>1. Len(s) \in Nat /\ DOMAIN s = 1 .. Len(s) OBVIOUS
<1>2. s = [k \in 1 .. Len(s) |-> s[k]] OBVIOUS
<1> QED BY <1>1, <1>2

(* A run that asks while the cache has something fresh.                    *)
LEMMA FindsInv ==
  ASSUME SkillsIInv, NEW r \in Runs, NEW tenant \in Tenants, asks[r].pc = "new",
         entries[tenant] # 0, IsFresh(entries[tenant]),
         UNCHANGED <<alone, refreshes, clock, loads, entries>>,
         asks' = [asks EXCEPT ![r] = [NewAsk EXCEPT !.pc = "asking", !.tenant = tenant, !.at = clock,
                   !.load = entries[tenant],
                   !.late = /\ loads[entries[tenant]].status = "failed"
                            /\ asks[loads[entries[tenant]].by].pc = "failed"]]
  PROVE  SkillsIInv'
<1> USE DEF SkillsIInv
<1>1. PICK l : l = entries[tenant] OBVIOUS
<1>2. l \in DOMAIN loads /\ loads[l].tenant = tenant /\ l \in Nat
  BY <1>1 DEF EntryInv, SkillsTypeInv
<1>3. ~(loads[l].status = "failed" /\ asks[loads[l].by].pc = "failed")
  BY <1>1, <1>2 DEF SkillsRunInv
<1>4. asks' = [asks EXCEPT ![r] = [NewAsk EXCEPT !.pc = "asking", !.tenant = tenant, !.at = clock,
                !.load = l, !.late = FALSE]]
  BY <1>1, <1>3
<1>5. PICK ask : ask = [pc |-> "asking", tenant |-> tenant, at |-> clock, load |-> l,
                        aborted |-> FALSE, late |-> FALSE] OBVIOUS
<1>6. asks' = [asks EXCEPT ![r] = ask] BY <1>4, <1>5 DEF NewAsk
<1>7. ask \in Ask /\ ask.pc = "asking" /\ ask.load = l /\ ~ask.late
  BY <1>2, <1>5 DEF Ask, SkillsTypeInv
<1>8. asks' \in [Runs -> Ask] BY <1>6, <1>7 DEF SkillsTypeInv
<1>9. \A q \in Runs : asks'[q] = IF q = r THEN ask ELSE asks[q] BY <1>6 DEF SkillsTypeInv
<1>10. SkillsTypeInv' BY <1>8 DEF SkillsTypeInv
<1>11. LoadInv' /\ EntryInv' BY DEF LoadInv, EntryInv, Superseded
<1>12. \A k \in DOMAIN loads : loads[k].by # r /\ loads[k].by \in Runs
  BY LoadTypes DEF SkillsRunInv
<1>13. SkillsRunInv'
  <2>1. \A q \in Runs : asks'[q].pc # "new" => asks'[q].load \in DOMAIN loads
    <3> SUFFICES ASSUME NEW q \in Runs, asks'[q].pc # "new" PROVE asks'[q].load \in DOMAIN loads
      OBVIOUS
    <3>1. CASE q = r BY <1>2, <1>7, <1>9, <3>1
    <3>2. CASE q # r
      <4>1. asks'[q] = asks[q] BY <1>9, <3>2
      <4> QED BY <4>1 DEF SkillsRunInv
    <3> QED BY <3>1, <3>2
  <2>2. ASSUME NEW q \in Runs PROVE ~asks'[q].late
    <3>1. CASE q = r
      <4>1. asks'[q] = ask BY <1>9, <3>1
      <4> QED BY <4>1, <1>7, Zenon
    <3>2. CASE q # r
      <4>1. asks'[q] = asks[q] BY <1>9, <3>2
      <4>2. ~asks[q].late BY Zenon DEF SkillsRunInv
      <4> QED BY <4>1, <4>2, Zenon
    <3> QED BY <3>1, <3>2
  <2>3. \A k \in DOMAIN loads : asks'[loads[k].by] = asks[loads[k].by] BY <1>9, <1>12
  <2> QED BY <2>1, <2>2, <2>3 DEF SkillsRunInv
<1>14. SkillInv' BY DEF SkillInv, Whole
<1>15. AskInv'
  <2> SUFFICES ASSUME NEW q \in Runs, asks'[q].pc # "new"
               PROVE  /\ loads[asks'[q].load].tenant = asks'[q].tenant
                      /\ refreshes => loads[asks'[q].load].at = asks'[q].at
                      /\ asks'[q].pc = "ready" => loads[asks'[q].load].status = "done"
    BY DEF AskInv
  <2>1. CASE q = r
    <3>1. asks'[q] = ask /\ ask.tenant = tenant /\ ask.at = clock BY <2>1, <1>5, <1>9
    <3>2. refreshes => loads[l].at = clock BY <1>1 DEF IsFresh
    <3> QED BY <3>1, <3>2, <1>2, <1>7
  <2>2. CASE q # r
    <3>1. asks'[q] = asks[q] BY <2>2, <1>9
    <3> QED BY <3>1 DEF AskInv
  <2> QED BY <2>1, <2>2
<1> QED BY <1>10, <1>11, <1>13, <1>14, <1>15

(* A run that asks and makes a load of its own: whatever was loaded for    *)
(* the key before has failed or is out of date.                            *)
LEMMA StartsInv ==
  ASSUME SkillsIInv, NEW r \in Runs, NEW tenant \in Tenants, asks[r].pc = "new",
         entries[tenant] = 0 \/ ~IsFresh(entries[tenant]), UNCHANGED <<alone, refreshes, clock>>,
         loads' = Append(loads, NewLoad(r, tenant)),
         entries' = [entries EXCEPT ![tenant] = Len(loads) + 1],
         asks' = [asks EXCEPT ![r] = [NewAsk EXCEPT !.pc = "asking", !.tenant = tenant, !.at = clock,
                   !.load = Len(loads) + 1, !.late = FALSE]]
  PROVE  SkillsIInv'
<1> USE DEF SkillsIInv
<1>1. PICK l : l = Len(loads) + 1 OBVIOUS
<1>2. l \in Nat /\ DOMAIN loads = 1 .. (l - 1) /\ l \notin DOMAIN loads BY <1>1, LoadTypes
<1>3. PICK new : new = NewLoad(r, tenant) OBVIOUS
<1>4. /\ new.tenant = tenant /\ new.at = clock /\ new.by = r /\ new.status = "reading"
      /\ new.skills = <<>>
  BY <1>3 DEF NewLoad
<1>5. /\ DOMAIN loads' = 1 .. l /\ loads'[l] = new
      /\ \A k \in DOMAIN loads : loads'[k] = loads[k]
  <2>1. PICK skills : loads \in Seq(Load(skills)) BY DEF SkillsTypeInv
  <2> QED BY <1>1, <1>3, <2>1
<1>6. \A k \in DOMAIN loads : Superseded(k, clock) \/ loads[k].tenant # tenant
  <2> SUFFICES ASSUME NEW k \in DOMAIN loads, loads[k].tenant = tenant PROVE Superseded(k, clock)
    OBVIOUS
  <2>1. CASE entries[tenant] = 0 BY <2>1 DEF EntryInv
  <2>2. CASE entries[tenant] # 0 /\ ~IsFresh(entries[tenant])
    <3>1. PICK held : held = entries[tenant] OBVIOUS
    <3>2. held \in DOMAIN loads /\ loads[held].tenant = tenant /\ k <= held
      BY <2>2, <3>1 DEF EntryInv
    <3>3. refreshes /\ loads[held].at # clock BY <2>2, <3>1 DEF IsFresh
    <3>4. loads[held].at \in Nat /\ loads[held].at < clock
      BY <3>2, <3>3, LoadTypes DEF LoadInv, SkillsTypeInv
    <3>5. CASE k = held BY <3>3, <3>4, <3>5 DEF Superseded
    <3>6. CASE k < held
      <4>1. Superseded(k, loads[held].at) BY <3>2, <3>6 DEF LoadInv
      <4>2. loads[k].at \in Nat /\ clock \in Nat BY LoadTypes DEF SkillsTypeInv
      <4> QED BY <4>1, <4>2, <3>3, <3>4 DEF Superseded
    <3> QED BY <3>2, <3>5, <3>6, <1>2
  <2> QED BY <2>1, <2>2
<1>7. PICK ask : ask = [pc |-> "asking", tenant |-> tenant, at |-> clock, load |-> l,
                        aborted |-> FALSE, late |-> FALSE] OBVIOUS
<1>8. asks' = [asks EXCEPT ![r] = ask]
  <2>1. asks' = [asks EXCEPT ![r] = [NewAsk EXCEPT !.pc = "asking", !.tenant = tenant, !.at = clock,
                   !.load = l, !.late = FALSE]]
    BY <1>1
  <2> QED BY <2>1, <1>7 DEF NewAsk
<1>9. ask \in Ask /\ ask.pc = "asking" /\ ask.load = l /\ ~ask.late
  BY <1>2, <1>7 DEF Ask, SkillsTypeInv
<1>10. \A q \in Runs : asks'[q] = IF q = r THEN ask ELSE asks[q] BY <1>8 DEF SkillsTypeInv
<1>11. SkillsTypeInv'
  <2>1. PICK skills : loads \in Seq(Load(skills)) BY DEF SkillsTypeInv
  <2>2. new \in Load(skills \cup {<<>>})
    BY <1>3 DEF NewLoad, Load, SkillsTypeInv
  <2>3. \A k \in DOMAIN loads : loads[k] \in Load(skills \cup {<<>>})
    <3> SUFFICES ASSUME NEW k \in DOMAIN loads PROVE loads[k] \in Load(skills \cup {<<>>}) OBVIOUS
    <3>1. loads[k] \in Load(skills) BY <2>1
    <3> QED BY <3>1 DEF Load
  <2>4. loads \in Seq(Load(skills \cup {<<>>})) BY <2>1, <2>3, Widened
  <2>5. loads' \in Seq(Load(skills \cup {<<>>})) BY <1>3, <2>2, <2>4
  <2>6. entries' \in [Tenants -> Nat] BY <1>1, <1>2 DEF SkillsTypeInv
  <2>7. asks' \in [Runs -> Ask] BY <1>8, <1>9 DEF SkillsTypeInv
  <2> QED BY <2>5, <2>6, <2>7 DEF SkillsTypeInv
<1>12. LoadInv'
  <2>1. \A k \in DOMAIN loads' : loads'[k].at <= clock BY <1>2, <1>4, <1>5 DEF LoadInv, SkillsTypeInv
  <2>2. ASSUME NEW k \in DOMAIN loads', NEW j \in DOMAIN loads', k < j,
               loads'[k].tenant = loads'[j].tenant
        PROVE  Superseded(k, loads[j].at)'
    <3>1. k \in DOMAIN loads /\ loads'[k] = loads[k] BY <2>2, <1>2, <1>5
    <3>2. CASE j = l BY <3>1, <3>2, <2>2, <1>4, <1>5, <1>6 DEF Superseded
    <3>3. CASE j # l
      <4>1. j \in DOMAIN loads /\ loads'[j] = loads[j] BY <3>3, <1>2, <1>5
      <4>2. Superseded(k, loads[j].at) BY <2>2, <3>1, <4>1 DEF LoadInv
      <4> QED BY <3>1, <4>1, <4>2 DEF Superseded
    <3> QED BY <3>2, <3>3
  <2> QED BY <2>1, <2>2 DEF LoadInv
<1>13. EntryInv'
  <2> SUFFICES ASSUME NEW t \in Tenants
               PROVE  /\ entries'[t] # 0 => entries'[t] \in DOMAIN loads' /\ loads'[entries'[t]].tenant = t
                      /\ \A k \in DOMAIN loads' : loads'[k].tenant = t =>
                           IF entries'[t] = 0 THEN Superseded(k, clock)' ELSE k <= entries'[t]
    BY DEF EntryInv
  <2>1. CASE t = tenant
    <3>1. entries'[t] = l BY <2>1, <1>1 DEF SkillsTypeInv
    <3> QED BY <3>1, <2>1, <1>2, <1>4, <1>5
  <2>2. CASE t # tenant
    <3>1. entries'[t] = entries[t] BY <2>2 DEF SkillsTypeInv
    <3>2. \A k \in DOMAIN loads' : loads'[k].tenant = t => k \in DOMAIN loads
      BY <2>2, <1>2, <1>4, <1>5
    <3>3. \A k \in DOMAIN loads : Superseded(k, clock) => Superseded(k, clock)'
      BY <1>5 DEF Superseded
    <3>4. entries[t] # 0 => entries[t] \in DOMAIN loads /\ loads[entries[t]].tenant = t BY DEF EntryInv
    <3>5. \A k \in DOMAIN loads : loads[k].tenant = t =>
            IF entries[t] = 0 THEN Superseded(k, clock) ELSE k <= entries[t] BY DEF EntryInv
    <3> QED BY <3>1, <3>2, <3>3, <3>4, <3>5, <1>2, <1>5
  <2> QED BY <2>1, <2>2
<1>14. SkillsRunInv'
  <2>1. ASSUME NEW q \in Runs, asks'[q].pc # "new" PROVE asks'[q].load \in DOMAIN loads'
    <3>1. CASE q = r BY <3>1, <1>2, <1>5, <1>9, <1>10
    <3>2. CASE q # r
      <4>1. asks'[q] = asks[q] BY <1>10, <3>2
      <4>2. asks[q].load \in DOMAIN loads BY <4>1, <2>1 DEF SkillsRunInv
      <4> QED BY <4>1, <4>2, <1>2, <1>5
    <3> QED BY <3>1, <3>2
  <2>2. ASSUME NEW q \in Runs PROVE ~asks'[q].late
    <3>1. CASE q = r
      <4>1. asks'[q] = ask BY <1>10, <3>1
      <4> QED BY <4>1, <1>9, Zenon
    <3>2. CASE q # r
      <4>1. asks'[q] = asks[q] BY <1>10, <3>2
      <4>2. ~asks[q].late BY Zenon DEF SkillsRunInv
      <4> QED BY <4>1, <4>2, Zenon
    <3> QED BY <3>1, <3>2
  <2>3. ASSUME NEW k \in DOMAIN loads'
        PROVE  /\ asks'[loads'[k].by].pc # "new" /\ asks'[loads'[k].by].load = k
               /\ loads'[k].status = "reading" => asks'[loads'[k].by].pc = "asking"
               /\ loads'[k].status = "failed" /\ entries'[loads'[k].tenant] = k
                    => asks'[loads'[k].by].pc = "asking"
    <3>1. CASE k = l
      <4>1. asks'[r] = ask BY <1>10
      <4> QED BY <3>1, <4>1, <1>4, <1>5, <1>9
    <3>2. CASE k # l
      <4>1. k \in DOMAIN loads /\ loads'[k] = loads[k] BY <3>2, <1>2, <1>5
      <4>2. loads[k].by \in Runs /\ loads[k].by # r /\ loads[k].tenant \in Tenants
        BY <4>1, LoadTypes DEF SkillsRunInv
      <4>3. asks'[loads[k].by] = asks[loads[k].by] BY <4>2, <1>10
      <4>4. entries'[loads[k].tenant] = k => entries[loads[k].tenant] = k
        BY <3>2, <4>2, <1>1 DEF SkillsTypeInv
      <4> QED BY <4>1, <4>3, <4>4 DEF SkillsRunInv
    <3> QED BY <3>1, <3>2
  <2> QED BY <2>1, <2>2, <2>3 DEF SkillsRunInv
<1>15. SkillInv'
  <2> SUFFICES ASSUME NEW k \in DOMAIN loads', loads'[k].status = "done" PROVE Whole(k)'
    BY DEF SkillInv
  <2>1. k \in DOMAIN loads /\ loads'[k] = loads[k] BY <1>2, <1>4, <1>5
  <2>2. Whole(k) BY <2>1 DEF SkillInv
  <2> QED BY <2>1, <2>2 DEF Whole
<1>16. AskInv'
  <2> SUFFICES ASSUME NEW q \in Runs, asks'[q].pc # "new"
               PROVE  /\ loads'[asks'[q].load].tenant = asks'[q].tenant
                      /\ refreshes => loads'[asks'[q].load].at = asks'[q].at
                      /\ asks'[q].pc = "ready" => loads'[asks'[q].load].status = "done"
    BY DEF AskInv
  <2>1. CASE q = r
    <3>1. asks'[q] = ask /\ ask.tenant = tenant /\ ask.at = clock BY <2>1, <1>7, <1>10
    <3> QED BY <3>1, <1>4, <1>5, <1>9
  <2>2. CASE q # r
    <3>1. asks'[q] = asks[q] BY <2>2, <1>10
    <3>2. asks[q].load \in DOMAIN loads BY <3>1 DEF SkillsRunInv
    <3>3. loads'[asks[q].load] = loads[asks[q].load] BY <3>2, <1>5
    <3>4. /\ loads[asks[q].load].tenant = asks[q].tenant
          /\ refreshes => loads[asks[q].load].at = asks[q].at
          /\ asks[q].pc = "ready" => loads[asks[q].load].status = "done"
      BY <3>1 DEF AskInv
    <3> QED BY <3>1, <3>3, <3>4
  <2> QED BY <2>1, <2>2
<1> QED BY <1>11, <1>12, <1>13, <1>14, <1>15, <1>16

(* beforeRun: either way.                                                  *)
LEMMA BeforeRunInv == ASSUME SkillsIInv, NEW r \in Runs, BeforeRun(r) PROVE SkillsIInv'
<1>1. asks[r].pc = "new" /\ UNCHANGED <<alone, refreshes, clock>> BY DEF BeforeRun
<1>2. PICK tenant \in Tenants :
        LET held  == entries[tenant]
            finds == held # 0 /\ IsFresh(held)
            l     == IF finds THEN held ELSE Len(loads) + 1
        IN  /\ loads' = IF finds THEN loads ELSE Append(loads, NewLoad(r, tenant))
            /\ entries' = [entries EXCEPT ![tenant] = l]
            /\ asks' = [asks EXCEPT ![r] = [NewAsk EXCEPT !.pc = "asking", !.tenant = tenant, !.at = clock,
                          !.load = l, !.late = finds /\ loads[l].status = "failed" /\ asks[loads[l].by].pc = "failed"]]
  BY DEF BeforeRun
<1>3. CASE entries[tenant] # 0 /\ IsFresh(entries[tenant])
  <2>1. entries' = entries BY <1>2, <1>3 DEF SkillsIInv, SkillsTypeInv
  <2>2. asks' = [asks EXCEPT ![r] = [NewAsk EXCEPT !.pc = "asking", !.tenant = tenant, !.at = clock,
                   !.load = entries[tenant],
                   !.late = /\ loads[entries[tenant]].status = "failed"
                            /\ asks[loads[entries[tenant]].by].pc = "failed"]]
    BY <1>2, <1>3
  <2> QED BY <1>1, <1>2, <1>3, <2>1, <2>2, FindsInv
<1>4. CASE ~(entries[tenant] # 0 /\ IsFresh(entries[tenant]))
  <2>1. asks' = [asks EXCEPT ![r] = [NewAsk EXCEPT !.pc = "asking", !.tenant = tenant, !.at = clock,
                   !.load = Len(loads) + 1, !.late = FALSE]]
    BY <1>2, <1>4
  <2> QED BY <1>1, <1>2, <1>4, <2>1, StartsInv
<1> QED BY <1>3, <1>4

-----------------------------------------------------------------------------
(* Skills as a load that is done holds them.                               *)
IsBuilt(built, tenant) ==
  /\ DOMAIN built \subseteq 1 .. 4
  /\ \A i \in DOMAIN built : built[i].tenant = tenant
  /\ ~alone => \E i \in DOMAIN built : built[i].name = "y"

(* What is built of a catalogue, and of none.                              *)
LEMMA BuiltIsWhole ==
  ASSUME NEW listed \in Catalogues \cup {<<>>}, NEW tenant, NEW built, built = Built(listed, tenant)
  PROVE  IsBuilt(built, tenant)
<1>1. Len(listed) \in {0, 3} /\ DOMAIN listed = 1 .. Len(listed)
  <2>1. CASE listed = <<>> BY <2>1
  <2>2. CASE listed = <<"y", "bad", "x">>
    <3>1. listed \in Seq({"y", "bad", "x"}) /\ Len(listed) = 3 BY <2>2
    <3> QED BY <3>1
  <2>3. CASE listed = <<"x", "y", "x">>
    <3>1. listed \in Seq({"y", "x"}) /\ Len(listed) = 3 BY <2>3
    <3> QED BY <3>1
  <2> QED BY <2>1, <2>2, <2>3 DEF Catalogues
<1>2. DOMAIN built = Usable(listed) \cup Own(listed) BY DEF Built
<1>3. DOMAIN built \subseteq 1 .. 4
  <2>1. PICK n \in {0, 3} : n = Len(listed) BY <1>1
  <2>2. DOMAIN listed \subseteq 1 .. n BY <1>1, <2>1
  <2>3. Usable(listed) \subseteq 1 .. n BY <2>2 DEF Usable
  <2>4. Own(listed) \subseteq {n + 1} BY <2>1 DEF Own
  <2>5. DOMAIN built \subseteq (1 .. n) \cup {n + 1} BY <2>3, <2>4, <1>2
  <2>6. (1 .. n) \cup {n + 1} \subseteq 1 .. 4 BY <2>1
  <2> QED BY <2>5, <2>6
<1>4. \A i \in DOMAIN built :
        built[i] = IF i \in DOMAIN listed THEN Skill(listed[i], "server", tenant) ELSE Skill("y", "local", tenant)
  BY DEF Built
<1>5. \A i \in DOMAIN built : built[i].tenant = tenant BY <1>4 DEF Skill
<1>6. ASSUME ~alone PROVE \E i \in DOMAIN built : built[i].name = "y"
  <2>1. PICK i : i = Len(listed) + 1 OBVIOUS
  <2>2. i \in DOMAIN built /\ i \notin DOMAIN listed BY <2>1, <1>1, <1>2, <1>6 DEF Own
  <2>3. built[i].name = "y" BY <2>2, <1>4 DEF Skill
  <2> QED BY <2>2, <2>3
<1> QED BY <1>3, <1>5, <1>6 DEF IsBuilt

(* readIndex: a load that was reading is done, or has failed while its run *)
(* still waits for it.                                                     *)
LEMMA ReadIndexInv == ASSUME SkillsIInv, NEW l \in DOMAIN loads, ReadIndex(l) PROVE SkillsIInv'
<1> USE DEF SkillsIInv
<1>1. loads[l].status = "reading" /\ UNCHANGED <<alone, refreshes, clock, entries, asks>>
  BY DEF ReadIndex
<1>2. PICK built, status :
        /\ status \in {"done", "failed"}
        /\ loads' = [loads EXCEPT ![l].status = status, ![l].skills = built]
        /\ status = "done" => \E listed \in Catalogues \cup {<<>>} : built = Built(listed, loads[l].tenant)
  <2>1. CASE \E listed \in Catalogues \cup {<<>>} : Loaded(l, listed) BY <2>1 DEF Loaded
  <2>2. CASE loads' = [loads EXCEPT ![l].status = "failed"]
    <3>1. PICK skills : loads \in Seq(Load(skills)) BY DEF SkillsTypeInv
    <3>2. loads[l] \in Load(skills) BY <3>1
    <3>3. [loads[l] EXCEPT !.status = "failed", !.skills = loads[l].skills]
            = [loads[l] EXCEPT !.status = "failed"]
      BY <3>2 DEF Load
    <3>4. loads' = [loads EXCEPT ![l] = [loads[l] EXCEPT !.status = "failed"]] BY <2>2, <3>1
    <3>5. loads' = [loads EXCEPT ![l] = [loads[l] EXCEPT !.status = "failed", !.skills = loads[l].skills]]
      BY <3>3, <3>4
    <3>6. loads' = [loads EXCEPT ![l].status = "failed", ![l].skills = loads[l].skills] BY <3>1, <3>5
    <3> QED BY <3>6
  <2> QED BY <2>1, <2>2 DEF ReadIndex, HasIndex, HasNoIndex, Refuses
<1>3. PICK skills : loads \in Seq(Load(skills)) BY DEF SkillsTypeInv
<1>4. loads[l] \in Load(skills) BY <1>3
<1>5. PICK new : new = [loads[l] EXCEPT !.status = status, !.skills = built] OBVIOUS
<1>6. new \in Load(skills \cup {built}) BY <1>2, <1>4, <1>5 DEF Load
<1>7. /\ new.tenant = loads[l].tenant /\ new.at = loads[l].at /\ new.by = loads[l].by
      /\ new.status = status
  BY <1>4, <1>5 DEF Load
<1>8. loads' = [loads EXCEPT ![l] = new] BY <1>2, <1>3, <1>5
<1>9. DOMAIN loads' = DOMAIN loads /\ \A k \in DOMAIN loads : loads'[k] = IF k = l THEN new ELSE loads[k]
  BY <1>3, <1>8
<1>10. SkillsTypeInv'
  <2>1. \A k \in DOMAIN loads : loads[k] \in Load(skills \cup {built})
    <3> SUFFICES ASSUME NEW k \in DOMAIN loads PROVE loads[k] \in Load(skills \cup {built}) OBVIOUS
    <3>1. loads[k] \in Load(skills) BY <1>3
    <3> QED BY <3>1 DEF Load
  <2>2. loads \in Seq(Load(skills \cup {built})) BY <1>3, <2>1, Widened
  <2>3. loads' \in Seq(Load(skills \cup {built})) BY <1>6, <1>8, <2>2
  <2> QED BY <1>1, <2>3 DEF SkillsTypeInv
<1>11. \A k \in DOMAIN loads :
         /\ loads'[k].tenant = loads[k].tenant /\ loads'[k].at = loads[k].at /\ loads'[k].by = loads[k].by
         /\ loads[k].status = "failed" => loads'[k].status = "failed"
         /\ k # l => loads'[k].status = loads[k].status
  BY <1>1, <1>7, <1>9
<1>12. \A k \in DOMAIN loads : \A at : Superseded(k, at) => Superseded(k, at)'
  BY <1>1, <1>11 DEF Superseded
<1>13. LoadInv'
  <2>1. \A k \in DOMAIN loads' : loads'[k].at <= clock' BY <1>1, <1>9, <1>11 DEF LoadInv
  <2>2. ASSUME NEW k \in DOMAIN loads', NEW j \in DOMAIN loads', k < j,
               loads'[k].tenant = loads'[j].tenant
        PROVE  Superseded(k, loads[j].at)'
    <3>1. Superseded(k, loads[j].at) BY <2>2, <1>9, <1>11 DEF LoadInv
    <3>2. loads'[j].at = loads[j].at BY <1>9, <1>11
    <3> QED BY <3>1, <3>2, <1>1, <1>9, <1>11 DEF Superseded
  <2> QED BY <2>1, <2>2 DEF LoadInv
<1>14. EntryInv'
  <2> SUFFICES ASSUME NEW t \in Tenants
               PROVE  /\ entries'[t] # 0 => entries'[t] \in DOMAIN loads' /\ loads'[entries'[t]].tenant = t
                      /\ \A k \in DOMAIN loads' : loads'[k].tenant = t =>
                           IF entries'[t] = 0 THEN Superseded(k, clock)' ELSE k <= entries'[t]
    BY DEF EntryInv
  <2>1. \A k \in DOMAIN loads : Superseded(k, clock) => Superseded(k, clock)'
    BY <1>1, <1>11 DEF Superseded
  <2>2. entries[t] # 0 => entries[t] \in DOMAIN loads /\ loads[entries[t]].tenant = t BY DEF EntryInv
  <2>3. \A k \in DOMAIN loads : loads[k].tenant = t =>
          IF entries[t] = 0 THEN Superseded(k, clock) ELSE k <= entries[t] BY DEF EntryInv
  <2> QED BY <2>1, <2>2, <2>3, <1>1, <1>9, <1>11
<1>15. SkillsRunInv'
  <2>1. asks[loads[l].by].pc = "asking" BY <1>1 DEF SkillsRunInv
  <2>2. \A r \in Runs : asks'[r].pc # "new" => asks'[r].load \in DOMAIN loads'
    BY <1>1, <1>9 DEF SkillsRunInv
  <2>3. \A r \in Runs : ~asks'[r].late BY <1>1, Zenon DEF SkillsRunInv
  <2>4. ASSUME NEW k \in DOMAIN loads'
        PROVE  /\ asks'[loads'[k].by].pc # "new" /\ asks'[loads'[k].by].load = k
               /\ loads'[k].status = "reading" => asks'[loads'[k].by].pc = "asking"
               /\ loads'[k].status = "failed" /\ entries'[loads'[k].tenant] = k
                    => asks'[loads'[k].by].pc = "asking"
    <3>1. CASE k = l BY <3>1, <2>1, <1>1, <1>9, <1>11 DEF SkillsRunInv
    <3>2. CASE k # l BY <3>2, <1>1, <1>9, <1>11 DEF SkillsRunInv
    <3> QED BY <3>1, <3>2
  <2> QED BY <2>2, <2>3, <2>4 DEF SkillsRunInv
<1>16. SkillInv'
  <2> SUFFICES ASSUME NEW k \in DOMAIN loads, loads'[k].status = "done" PROVE Whole(k)'
    BY <1>9 DEF SkillInv
  <2>1. CASE k = l
    <3>1. new.skills = built BY <1>4, <1>5 DEF Load
    <3>2. status = "done" BY <2>1, <1>7, <1>9
    <3>3. PICK tenant : tenant = loads[l].tenant OBVIOUS
    <3>4. PICK listed \in Catalogues \cup {<<>>} : built = Built(listed, tenant) BY <3>2, <3>3, <1>2
    <3>5. IsBuilt(built, tenant) BY <3>4, BuiltIsWhole
    <3>6. loads'[k] = new BY <2>1, <1>9
    <3> QED BY <3>1, <3>3, <3>5, <3>6, <1>1, <1>7 DEF Whole, IsBuilt
  <2>2. CASE k # l
    <3>1. loads'[k] = loads[k] BY <2>2, <1>9
    <3>2. Whole(k) BY <3>1 DEF SkillInv
    <3> QED BY <3>1, <3>2, <1>1 DEF Whole
  <2> QED BY <2>1, <2>2
<1>17. AskInv'
  <2> SUFFICES ASSUME NEW r \in Runs, asks[r].pc # "new"
               PROVE  /\ loads'[asks[r].load].tenant = asks[r].tenant
                      /\ refreshes => loads'[asks[r].load].at = asks[r].at
                      /\ asks[r].pc = "ready" => loads'[asks[r].load].status = "done"
    BY <1>1 DEF AskInv
  <2>1. asks[r].load \in DOMAIN loads BY DEF SkillsRunInv
  <2>2. loads[asks[r].load].status = "done" => asks[r].load # l BY <1>1
  <2> QED BY <2>1, <2>2, <1>11 DEF AskInv
<1> QED BY <1>10, <1>13, <1>14, <1>15, <1>16, <1>17

(* The answer of a load reaches a run; the one that started it evicts a    *)
(* load that failed.                                                       *)
LEMMA ResumeInv == ASSUME SkillsIInv, NEW r \in Runs, Resume(r) PROVE SkillsIInv'
<1> USE DEF SkillsIInv
<1>1. PICK l : l = asks[r].load OBVIOUS
<1>2. /\ asks[r].pc = "asking" /\ loads[l].status # "reading"
      /\ asks' = [asks EXCEPT ![r].pc = IF loads[l].status = "done" THEN "ready" ELSE "failed"]
      /\ entries' = IF loads[l].by = r /\ loads[l].status = "failed" THEN Evicted(l) ELSE entries
      /\ UNCHANGED <<alone, refreshes, clock, loads>>
  BY <1>1 DEF Resume
<1>3. l \in DOMAIN loads BY <1>1, <1>2 DEF SkillsRunInv
<1>4. loads[l].tenant \in Tenants /\ loads[l].status \in {"done", "failed"} /\ loads[l].by \in Runs
  BY <1>2, <1>3, LoadTypes
<1>5. PICK pc \in {"ready", "failed"} :
        /\ pc = IF loads[l].status = "done" THEN "ready" ELSE "failed"
        /\ asks' = [asks EXCEPT ![r].pc = pc]
  BY <1>2, <1>4
<1>6. asks[r] \in Ask BY DEF SkillsTypeInv
<1>7. /\ asks' \in [Runs -> Ask] /\ asks'[r].pc = pc /\ asks'[r].load = l
      /\ \A q \in Runs : q # r => asks'[q] = asks[q]
  <2>1. [asks[r] EXCEPT !.pc = pc] \in Ask BY <1>6 DEF Ask
  <2>2. asks' = [asks EXCEPT ![r] = [asks[r] EXCEPT !.pc = pc]] BY <1>5, <1>6 DEF SkillsTypeInv
  <2>3. [asks[r] EXCEPT !.pc = pc].pc = pc /\ [asks[r] EXCEPT !.pc = pc].load = l
    BY <1>1, <1>6 DEF Ask
  <2> QED BY <2>1, <2>2, <2>3 DEF SkillsTypeInv
<1>8. \A q \in Runs : ~asks'[q].late
  <2> SUFFICES ASSUME NEW q \in Runs PROVE ~asks'[q].late OBVIOUS
  <2>1. ~asks[q].late BY Zenon DEF SkillsRunInv
  <2>2. CASE q = r
    <3>1. asks'[r].late = asks[r].late BY <1>5, <1>6 DEF SkillsTypeInv, Ask
    <3> QED BY <3>1, <2>1, <2>2, Zenon
  <2>3. CASE q # r BY <2>1, <2>3, <1>7, Zenon
  <2> QED BY <2>2, <2>3
<1>9. \A t \in Tenants :
        \/ entries'[t] = entries[t]
        \/ entries'[t] = 0 /\ entries[t] = l /\ t = loads[l].tenant /\ loads[l].status = "failed"
  BY <1>2, <1>4 DEF Evicted, SkillsTypeInv
<1>10. entries' \in [Tenants -> Nat] BY <1>2, <1>4 DEF Evicted, SkillsTypeInv
<1>11. SkillsTypeInv' BY <1>2, <1>7, <1>10 DEF SkillsTypeInv
<1>12. LoadInv' BY <1>2 DEF LoadInv, Superseded
<1>13. EntryInv'
  <2> SUFFICES ASSUME NEW t \in Tenants
               PROVE  /\ entries'[t] # 0 => entries'[t] \in DOMAIN loads /\ loads[entries'[t]].tenant = t
                      /\ \A k \in DOMAIN loads : loads[k].tenant = t =>
                           IF entries'[t] = 0 THEN Superseded(k, clock) ELSE k <= entries'[t]
    BY <1>2 DEF EntryInv, Superseded
  <2>1. CASE entries'[t] = entries[t] BY <2>1 DEF EntryInv
  <2>2. CASE entries'[t] = 0 /\ entries[t] = l /\ loads[l].status = "failed"
    <3> SUFFICES ASSUME NEW k \in DOMAIN loads, loads[k].tenant = t PROVE Superseded(k, clock)
      BY <2>2
    <3>1. l \in Nat /\ l # 0 /\ k \in Nat BY <1>3, LoadTypes
    <3>2. loads[l].tenant = t /\ k <= l BY <2>2, <3>1 DEF EntryInv
    <3>3. CASE k = l BY <2>2, <3>3 DEF Superseded
    <3>4. CASE k < l
      <4>1. Superseded(k, loads[l].at) BY <1>3, <3>2, <3>4 DEF LoadInv
      <4>2. loads[l].at <= clock BY <1>3 DEF LoadInv
      <4>3. loads[k].at \in Nat /\ loads[l].at \in Nat /\ clock \in Nat
        BY <1>3, LoadTypes DEF SkillsTypeInv
      <4> QED BY <4>1, <4>2, <4>3 DEF Superseded
    <3> QED BY <3>1, <3>2, <3>3, <3>4
  <2> QED BY <2>1, <2>2, <1>9
<1>14. SkillsRunInv'
  <2>1. ASSUME NEW q \in Runs, asks'[q].pc # "new" PROVE asks'[q].load \in DOMAIN loads'
    <3>1. CASE q = r BY <3>1, <1>2, <1>3, <1>7
    <3>2. CASE q # r
      <4>1. asks'[q] = asks[q] BY <3>2, <1>7
      <4> QED BY <4>1, <2>1, <1>2 DEF SkillsRunInv
    <3> QED BY <3>1, <3>2
  <2>2. ASSUME NEW k \in DOMAIN loads
        PROVE  /\ asks'[loads[k].by].pc # "new" /\ asks'[loads[k].by].load = k
               /\ loads[k].status = "reading" => asks'[loads[k].by].pc = "asking"
               /\ loads[k].status = "failed" /\ entries'[loads[k].tenant] = k
                    => asks'[loads[k].by].pc = "asking"
    <3>1. loads[k].by \in Runs /\ loads[k].tenant \in Tenants BY LoadTypes
    <3>2. CASE loads[k].by = r
      <4>1. k = l BY <3>2, <1>1 DEF SkillsRunInv
      <4>2. loads[k].status = "failed" => entries'[loads[k].tenant] # k
        <5>1. l \in Nat /\ l # 0 BY <1>3, LoadTypes
        <5> QED BY <3>2, <4>1, <5>1, <1>2, <1>4 DEF Evicted, SkillsTypeInv
      <4> QED BY <3>2, <4>1, <4>2, <1>2, <1>7
    <3>3. CASE loads[k].by # r
      <4>1. asks'[loads[k].by] = asks[loads[k].by] BY <3>1, <3>3, <1>7
      <4>2. k # 0 BY LoadTypes
      <4>3. entries'[loads[k].tenant] = k => entries[loads[k].tenant] = k BY <3>1, <4>2, <1>9
      <4> QED BY <4>1, <4>3 DEF SkillsRunInv
    <3> QED BY <3>2, <3>3
  <2> QED BY <2>1, <2>2, <1>2, <1>8 DEF SkillsRunInv
<1>15. SkillInv' BY <1>2 DEF SkillInv, Whole
<1>16. AskInv'
  <2> SUFFICES ASSUME NEW q \in Runs, asks'[q].pc # "new"
               PROVE  /\ loads[asks'[q].load].tenant = asks'[q].tenant
                      /\ refreshes => loads[asks'[q].load].at = asks'[q].at
                      /\ asks'[q].pc = "ready" => loads[asks'[q].load].status = "done"
    BY <1>2 DEF AskInv
  <2>1. CASE q = r
    <3>1. asks'[r].tenant = asks[r].tenant /\ asks'[r].at = asks[r].at BY <1>5, <1>6 DEF SkillsTypeInv, Ask
    <3>2. pc = "ready" => loads[l].status = "done" BY <1>5
    <3> QED BY <2>1, <3>1, <3>2, <1>1, <1>2, <1>7 DEF AskInv
  <2>2. CASE q # r
    <3>1. asks'[q] = asks[q] BY <2>2, <1>7
    <3> QED BY <3>1 DEF AskInv
  <2> QED BY <2>1, <2>2
<1> QED BY <1>11, <1>12, <1>13, <1>14, <1>15, <1>16

(* A run that is aborted goes on waiting.                                  *)
LEMMA AbortInv == ASSUME SkillsIInv, NEW r \in Runs, Abort(r) PROVE SkillsIInv'
<1> USE DEF SkillsIInv
<1>1. /\ asks' = [asks EXCEPT ![r].aborted = TRUE]
      /\ UNCHANGED <<alone, refreshes, clock, loads, entries>>
  BY DEF Abort
<1>2. asks[r] \in Ask BY DEF SkillsTypeInv
<1>3. PICK ask : ask = [asks[r] EXCEPT !.aborted = TRUE] OBVIOUS
<1>4. asks' = [asks EXCEPT ![r] = ask] BY <1>1, <1>2, <1>3 DEF SkillsTypeInv
<1>5. ask \in Ask BY <1>2, <1>3, Zenon DEF Ask
<1>6. ask.pc = asks[r].pc /\ ask.load = asks[r].load BY <1>2, <1>3 DEF Ask
<1>7. ask.late = asks[r].late BY <1>2, <1>3 DEF Ask
<1>8. \A q \in Runs : asks'[q].pc = asks[q].pc /\ asks'[q].load = asks[q].load
  BY <1>4, <1>6 DEF SkillsTypeInv
<1>9. ASSUME NEW q \in Runs PROVE ~asks'[q].late
  <2>1. ~asks[q].late BY Zenon DEF SkillsRunInv
  <2>2. asks'[q] = IF q = r THEN ask ELSE asks[q] BY <1>4 DEF SkillsTypeInv
  <2> QED BY <2>1, <2>2, <1>7, Zenon
<1>10. SkillsTypeInv' BY <1>1, <1>4, <1>5 DEF SkillsTypeInv
<1>11. LoadInv' /\ EntryInv' BY <1>1 DEF LoadInv, EntryInv, Superseded
<1>12. \A k \in DOMAIN loads : loads[k].by \in Runs BY LoadTypes
<1>13. SkillsRunInv' BY <1>1, <1>8, <1>9, <1>12 DEF SkillsRunInv
<1>14. SkillInv' BY <1>1 DEF SkillInv, Whole
<1>15. \A q \in Runs : asks'[q].tenant = asks[q].tenant /\ asks'[q].at = asks[q].at
  BY <1>2, <1>3, <1>4 DEF SkillsTypeInv, Ask
<1>16. AskInv' BY <1>1, <1>8, <1>15 DEF AskInv
<1> QED BY <1>10, <1>11, <1>13, <1>14, <1>16

(* Time passes: what is out of date stays so.                              *)
LEMMA TickInv == ASSUME SkillsIInv, Tick PROVE SkillsIInv'
<1> USE DEF SkillsIInv
<1>1. clock' = clock + 1 /\ UNCHANGED <<alone, refreshes, loads, entries, asks>> BY DEF Tick
<1>2. SkillsTypeInv' BY <1>1 DEF SkillsTypeInv
<1>3. \A l \in DOMAIN loads : loads[l].at \in Nat BY LoadTypes
<1>4. LoadInv' BY <1>1, <1>3 DEF LoadInv, Superseded, SkillsTypeInv
<1>5. EntryInv' BY <1>1, <1>3 DEF EntryInv, Superseded, SkillsTypeInv
<1>6. SkillsRunInv' BY <1>1 DEF SkillsRunInv
<1>7. SkillInv' /\ AskInv' BY <1>1 DEF SkillInv, Whole, AskInv
<1> QED BY <1>2, <1>4, <1>5, <1>6, <1>7

(* Every step keeps the invariant.                                         *)
LEMMA SkillsNextInv == ASSUME SkillsIInv, [SkillsNext]_skillVars PROVE SkillsIInv'
<1>1. CASE \E r \in Runs : BeforeRun(r) \/ Resume(r) \/ Abort(r)
  BY <1>1, BeforeRunInv, ResumeInv, AbortInv
<1>2. CASE \E l \in DOMAIN loads : ReadIndex(l) BY <1>2, ReadIndexInv
<1>3. CASE Tick BY <1>3, TickInv
<1>4. CASE UNCHANGED skillVars
  BY <1>4 DEF skillVars, SkillsIInv, SkillsTypeInv, LoadInv, EntryInv, SkillsRunInv, Superseded, SkillInv, Whole, AskInv
<1> QED BY <1>1, <1>2, <1>3, <1>4 DEF SkillsNext, SkillsDone

-----------------------------------------------------------------------------
(* The cache, the loads and the runs that wait for them are in step.       *)
THEOREM SkillsInvariance == SkillsSpec => []SkillsIInv
<1>1. SkillsInit => SkillsIInv BY SkillsInitInv
<1>2. SkillsIInv /\ [SkillsNext]_skillVars => SkillsIInv' BY SkillsNextInv
<1> QED BY <1>1, <1>2, PTL DEF SkillsSpec

(* cacheSkills: the source is asked a second time for a key only when what *)
(* it gave before has failed or is out of date.                            *)
THEOREM LoadsServeAll == SkillsSpec => []LoadsAreShared
<1>1. SkillsIInv => LoadsAreShared
  BY DEF SkillsIInv, LoadInv, LoadsAreShared, Superseded
<1> QED BY <1>1, SkillsInvariance, PTL

(* cacheSkills: nobody is given the failure of a load that its own run has *)
(* heard of; the next run makes a load of its own.                         *)
THEOREM FailedLoadsAreRetried == SkillsSpec => []FailuresAreRetried
<1>1. SkillsIInv => FailuresAreRetried BY Zenon DEF SkillsIInv, SkillsRunInv, FailuresAreRetried
<1> QED BY <1>1, SkillsInvariance, PTL

(* skillsProvider over the cache: a run is told of skills of its own key,  *)
(* of the interval it asked in, the program's own among them; and the two  *)
(* theorems above.                                                         *)
THEOREM SkillsStayApart == SkillsSpec => []SkillsAreItsOwn
<1>1. SkillsIInv => SkillsAreItsOwn
  <2> SUFFICES ASSUME SkillsIInv PROVE ListIsItsOwn
    BY Zenon DEF SkillsIInv, LoadInv, SkillsRunInv, SkillsAreItsOwn, LoadsAreShared, Superseded, FailuresAreRetried
  <2> SUFFICES ASSUME NEW r \in Runs, asks[r].pc = "ready"
               PROVE  /\ \A s \in SkillsOf(r) : s.tenant = asks[r].tenant
                      /\ refreshes => loads[asks[r].load].at = asks[r].at
                      /\ ~alone => \E s \in SkillsOf(r) : s.name = "y"
    BY DEF ListIsItsOwn
  <2>1. PICK l \in DOMAIN loads : l = asks[r].load BY DEF SkillsIInv, SkillsRunInv
  <2>2. loads[l].tenant = asks[r].tenant /\ (refreshes => loads[l].at = asks[r].at)
        /\ loads[l].status = "done"
    BY <2>1 DEF SkillsIInv, AskInv
  <2>3. Whole(l) BY <2>2 DEF SkillsIInv, SkillInv
  <2>4. PICK skills : skills = loads[l].skills OBVIOUS
  <2>5. SkillsOf(r) = Deduplicated(skills) BY <2>1, <2>4 DEF SkillsOf
  <2>6. \A s \in Deduplicated(skills) : s.tenant = asks[r].tenant
    BY <2>2, <2>3, <2>4 DEF Deduplicated, Whole
  <2>7. ASSUME ~alone PROVE \E s \in Deduplicated(skills) : s.name = "y"
    <3>1. DOMAIN skills \subseteq 1 .. 4 BY <2>3, <2>4 DEF Whole
    <3>2. PICK first \in DOMAIN skills :
            skills[first].name = "y" /\ \A j \in DOMAIN skills : j < first => skills[j].name # "y"
      <4>1. \E i \in 1 .. 4 : i \in DOMAIN skills /\ skills[i].name = "y"
        BY <3>1, <2>3, <2>4, <2>7 DEF Whole
      <4> QED BY <4>1, <3>1
    <3>3. skills[first] \in Deduplicated(skills) BY <3>2 DEF Deduplicated
    <3> QED BY <3>2, <3>3
  <2> QED BY <2>1, <2>2, <2>5, <2>6, <2>7
<1> QED BY <1>1, SkillsInvariance, PTL
=============================================================================
