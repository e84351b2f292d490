------------------------- MODULE ResponsesServer_proof -------------------------
(***************************************************************************)
(* Theorems about ResponsesServer, for any set of servers, ids, owners,    *)
(* turns, cancels and deletes.                                             *)
(*                                                                         *)
(* What makes the properties inductive is what connects the three places a *)
(* turn is known in: the registry, its own progress and the writes that    *)
(* are on their way to the store.                                          *)
(***************************************************************************)
EXTENDS ResponsesServer, TLAPS

(* Whoever issued an access to the store waits for it.                     *)
Waits(a) ==
  \/ a.op = "put" /\ a.by = a.turn /\ stage[a.turn] = "persisting"
  \/ /\ a.op = "put" /\ a.by \in Cancels /\ a.by # a.turn
     /\ cancel[a.by].state = "persisting" /\ cancel[a.by].turn = a.turn
  \/ a.op = "putEvents" /\ a.by = a.turn /\ stage[a.turn] = "logging"
  \/ a.op = "delete" /\ delete[a.by].state = "deleting"

IdOf(a) == IF a.op = "delete" THEN a.by.id ELSE a.turn.id
SameRequest(a, b) == a.op = b.op /\ a.by = b.by
OwnPut(a, t) == a.op = "put" /\ a.by = t /\ a.turn = t

QueueWaits ==
  \A i \in Ids : \A m \in 1..Len(queue[i]) : Waits(queue[i][m]) /\ IdOf(queue[i][m]) = i

(* Nobody has two accesses of one kind under way.                          *)
QueueOnce ==
  \A i \in Ids : \A m, n \in 1..Len(queue[i]) :
    SameRequest(queue[i][m], queue[i][n]) => m = n

(* A turn that waits for its put has one.                                  *)
PutIsQueued ==
  \A t \in Turns : stage[t] = "persisting" =>
    t.id \in Ids /\ \E m \in 1..Len(queue[t.id]) : OwnPut(queue[t.id][m], t)

(* A DELETE that found a run still being persisted is behind its put.      *)
DeleteBehindPut ==
  \A i \in Ids : \A m \in 1..Len(queue[i]) : \A t \in Turns :
    ( /\ queue[i][m].op = "delete" /\ delete[queue[i][m].by].run = t
      /\ ~cancelRequested[t] /\ stage[t] = "persisting" )
    => \E n \in 1..Len(queue[i]) : n < m /\ OwnPut(queue[i][n], t)

QueueInv == QueueWaits /\ QueueOnce /\ PutIsQueued /\ DeleteBehindPut

(* Only a DELETE takes the id away from a turn at work, and only from a    *)
(* cancelled one.                                                          *)
AtWork(t) == Working(t) \/ (stage[t] = "tail" /\ ~t.background)
HeldAtWork == \A t \in Turns : ~cancelRequested[t] /\ AtWork(t) => Holds(t)

(* A turn's flags, status and answer follow its progress.                  *)
TurnInv ==
  \A t \in Turns :
    /\ cancelRequested[t] => /\ t.background
                             /\ stage[t] \in {"running", "persisting", "tail", "logging", "done"}
                             /\ status[t] \in {"queued", "in_progress", "cancelled"}
    /\ ~cancelRequested[t] /\ ~Decided(t) => status[t] \notin TerminalStatuses
    /\ Decided(t) => status[t] \in TerminalStatuses
    /\ ~cancelRequested[t] => status[t] # "cancelled"
    /\ wire[t] # "none" => /\ stage[t] \in {"tail", "logging", "done"}
                           /\ ~t.background => stage[t] = "done"

(* A cancel works on a cancelled turn, a DELETE on a finished or cancelled *)
(* run of its id.                                                          *)
RequestInv ==
  /\ \A c \in Cancels : cancel[c].state \in {"grace", "persisting", "answered", "repeated"} =>
       cancel[c].turn \in Turns /\ cancelRequested[cancel[c].turn]
  /\ \A d \in Deletes : \A t \in Turns : delete[d].run = t =>
       t.background /\ t.id = d.id /\ (cancelRequested[t] \/ Decided(t))

(* What is stored, and what is about to be, is the verdict.                *)
Agrees(r) == /\ r.status = Verdict(r.turn)
             /\ r.status = "cancelled" => r.items = 0
FiledInv ==
  /\ \A i \in Ids : record[i] # NoRecord => Agrees(record[i])
  /\ \A i \in Ids : \A m \in 1..Len(queue[i]) : queue[i][m].op = "put" => Agrees(queue[i][m])

(* drain() waits for whoever holds an id, and does not end before them.    *)
DrainInv ==
  \A s \in Servers :
    /\ draining[s] => \A t \in Turns : t.server = s /\ Holds(t) => t \in drainWait[s]
    /\ drained[s] => draining[s] /\ \A t \in drainWait[s] : Settled(t)

IInv == /\ TypeOK
        /\ ClaimsAreLive
        /\ QueueInv
        /\ HeldAtWork
        /\ TurnInv
        /\ RequestInv
        /\ FiledInv
        /\ DrainInv
        /\ NoOrphanLog

-----------------------------------------------------------------------------
(* Constants.                                                              *)

(* Turns, cancels and deletes are what the routes make of them; a create   *)
(* is not a cancel, and no turn is NoTurn.                                 *)
LEMMA Requests ==
  /\ \A t \in Turns : t.server \in Servers /\ t.id \in Ids /\ t # NoTurn
                      /\ t.background \in BOOLEAN /\ t.store \in BOOLEAN /\ t.stream \in BOOLEAN
  /\ \A t \in Turns : t.background => t.store
  /\ \A c \in Cancels : c.server \in Servers /\ c.id \in Ids /\ c \notin Turns
  /\ \A d \in Deletes : d.server \in Servers /\ d.id \in Ids
<1>1. \A c \in Address : c \notin Create
  <2>1. ASSUME NEW c, c \in Address, c \in Create PROVE FALSE
    <3>1. DOMAIN c = {"n", "server", "id", "owner"}
      BY <2>1 DEF Address
    <3>2. "background" \in DOMAIN c
      BY <2>1 DEF Create
    <3> QED BY <3>1, <3>2
  <2> QED BY <2>1
<1> QED BY <1>1, TurnsAssumption, ClientsAssumption DEF Address, Create

(* The fields of an access.                                                *)
LEMMA AccessFields ==
  ASSUME NEW a \in Accesses
  PROVE  /\ a.op \in {"put", "putEvents", "delete"}
         /\ a.op # "delete" => a.turn \in Turns
         /\ a.op = "put" => a.status \in Statuses /\ a.items \in 0..MaxItems
                            /\ a.by \in Turns \cup Cancels
         /\ a.op = "putEvents" => a.by \in Turns
         /\ a.op = "delete" => a.by \in Deletes
  BY DEF Accesses

-----------------------------------------------------------------------------
(* The queues of the store.                                                *)

(* Every entry of the queue of an id is an access.                         *)
LEMMA Entries ==
  ASSUME TypeOK
  PROVE  \A i \in Ids : /\ queue[i] \in Seq(Accesses) /\ Len(queue[i]) \in Nat
                        /\ \A m \in 1..Len(queue[i]) : queue[i][m] \in Accesses
  BY DEF TypeOK

(* After an access was applied, each entry is the one that was next.       *)
LEMMA SettleEntries ==
  ASSUME TypeOK, NEW i \in Ids, queue[i] # <<>>, Settle(i)
  PROVE  /\ queue' \in [Ids -> Seq(Accesses)]
         /\ 1 \in 1..Len(queue[i]) /\ Head(queue[i]) = queue[i][1]
         /\ Head(queue[i]) \in Accesses
         /\ Len(queue'[i]) = Len(queue[i]) - 1
         /\ \A m \in 1..Len(queue'[i]) : m + 1 \in 1..Len(queue[i]) /\ queue'[i][m] = queue[i][m + 1]
         /\ \A j \in Ids : j # i => queue'[j] = queue[j]
<1>1. queue[i] \in Seq(Accesses) /\ queue' = [queue EXCEPT ![i] = Tail(@)]
  BY DEF TypeOK, Settle
<1>2. queue'[i] = Tail(queue[i]) /\ \A j \in Ids : j # i => queue'[j] = queue[j]
  BY <1>1 DEF TypeOK
<1>3. Len(queue[i]) \in Nat /\ Len(queue[i]) > 0
  BY <1>1
<1> HIDE DEF Accesses
<1>4. /\ Tail(queue[i]) \in Seq(Accesses) /\ Head(queue[i]) = queue[i][1]
      /\ Len(Tail(queue[i])) = Len(queue[i]) - 1
      /\ \A m \in 1..Len(Tail(queue[i])) : Tail(queue[i])[m] = queue[i][m + 1]
  BY <1>1, <1>3
<1>5. Head(queue[i]) \in Accesses
  BY <1>1, <1>3, <1>4
<1>6. queue' \in [Ids -> Seq(Accesses)]
  BY <1>1, <1>4 DEF TypeOK
<1> QED BY <1>2, <1>3, <1>4, <1>5, <1>6

(* After an access was issued, it is the last entry.                       *)
LEMMA IssueEntries ==
  ASSUME TypeOK, NEW i \in Ids, NEW a \in Accesses, Issue(i, a)
  PROVE  /\ queue' \in [Ids -> Seq(Accesses)]
         /\ Len(queue'[i]) = Len(queue[i]) + 1
         /\ queue'[i][Len(queue[i]) + 1] = a
         /\ \A m \in 1..Len(queue[i]) : m \in 1..Len(queue'[i]) /\ queue'[i][m] = queue[i][m]
         /\ \A j \in Ids : j # i => queue'[j] = queue[j]
<1>1. queue[i] \in Seq(Accesses) /\ queue' = [queue EXCEPT ![i] = Append(@, a)]
  BY DEF TypeOK, Issue
<1>2. queue'[i] = Append(queue[i], a) /\ \A j \in Ids : j # i => queue'[j] = queue[j]
  BY <1>1 DEF TypeOK
<1>3. Len(queue[i]) \in Nat
  BY <1>1
<1>4. /\ Append(queue[i], a) \in Seq(Accesses)
      /\ Len(Append(queue[i], a)) = Len(queue[i]) + 1
      /\ Append(queue[i], a)[Len(queue[i]) + 1] = a
      /\ \A m \in 1..Len(queue[i]) : Append(queue[i], a)[m] = queue[i][m]
  BY <1>1, <1>3
<1>5. queue' \in [Ids -> Seq(Accesses)]
  BY <1>1, <1>4 DEF TypeOK
<1> QED BY <1>2, <1>3, <1>4, <1>5

(* A step that issues and settles nothing.                                 *)
LEMMA QuietKeepsQueue ==
  ASSUME TypeOK, QueueInv,
         queue' = queue,
         \A a \in Accesses : Waits(a) => Waits(a)',
         \A t \in Turns : stage'[t] = "persisting" => stage[t] = "persisting",
         \A t \in Turns : cancelRequested[t] => cancelRequested'[t],
         \A d \in Deletes : delete[d].state = "deleting" => delete'[d].run = delete[d].run
  PROVE  QueueInv'
<1>1. QueueWaits'
  BY Entries DEF QueueInv, QueueWaits, IdOf
<1>2. QueueOnce' /\ PutIsQueued'
  BY DEF QueueInv, QueueOnce, PutIsQueued, SameRequest, OwnPut
<1>3. DeleteBehindPut'
  <2> SUFFICES ASSUME NEW i \in Ids, NEW m \in 1..Len(queue[i]), NEW t \in Turns,
                      queue[i][m].op = "delete", delete'[queue[i][m].by].run = t,
                      ~cancelRequested'[t], stage'[t] = "persisting"
               PROVE  \E n \in 1..Len(queue[i]) : n < m /\ OwnPut(queue[i][n], t)
    BY DEF DeleteBehindPut, OwnPut
  <2>1. queue[i][m].by \in Deletes /\ delete[queue[i][m].by].state = "deleting"
    BY Entries, AccessFields DEF QueueInv, QueueWaits, Waits
  <2> QED BY <2>1 DEF QueueInv, DeleteBehindPut
<1> QED BY <1>1, <1>2, <1>3 DEF QueueInv

(* A step that applies the oldest access to an id and lets its issuer go   *)
(* on.                                                                     *)
LEMMA SettleKeepsQueue ==
  ASSUME TypeOK, QueueInv,
         NEW i \in Ids, queue[i] # <<>>, Settle(i),
         \A a \in Accesses : Waits(a) /\ ~SameRequest(a, Head(queue[i])) => Waits(a)',
         \A t \in Turns : stage'[t] = "persisting" =>
           stage[t] = "persisting" /\ ~OwnPut(Head(queue[i]), t),
         \A t \in Turns : cancelRequested[t] => cancelRequested'[t],
         \A d \in Deletes : delete'[d].run = delete[d].run
  PROVE  QueueInv'
<1> DEFINE h == Head(queue[i])
<1>1. /\ h = queue[i][1] /\ 1 \in 1..Len(queue[i])
      /\ Len(queue'[i]) = Len(queue[i]) - 1
      /\ \A m \in 1..Len(queue'[i]) : m + 1 \in 1..Len(queue[i]) /\ queue'[i][m] = queue[i][m + 1]
      /\ \A j \in Ids : j # i => queue'[j] = queue[j]
  BY SettleEntries
<1>2. \A j \in Ids : Len(queue[j]) \in Nat /\ \A m \in 1..Len(queue[j]) : queue[j][m] \in Accesses
  BY Entries
<1>3. \A j \in Ids : \A m \in 1..Len(queue[j]) :
        SameRequest(queue[j][m], h) => j = i /\ m = 1
  <2> SUFFICES ASSUME NEW j \in Ids, NEW m \in 1..Len(queue[j]), SameRequest(queue[j][m], h)
               PROVE  j = i /\ m = 1
    OBVIOUS
  <2>1. /\ Waits(queue[j][m]) /\ IdOf(queue[j][m]) = j
        /\ Waits(h) /\ IdOf(h) = i
    BY <1>1 DEF QueueInv, QueueWaits
  <2>2. queue[j][m] \in Accesses /\ h \in Accesses
    BY <1>1, <1>2
  <2>3. j = i
    <3>1. h.op = queue[j][m].op /\ h.by = queue[j][m].by
      BY DEF SameRequest
    <3>2. CASE h.op = "delete"
      BY <2>1, <3>1, <3>2 DEF IdOf
    <3>3. CASE h.op = "putEvents"
      BY <2>1, <3>1, <3>3 DEF Waits, IdOf
    <3>4. CASE h.op = "put"
      <4>1. h.turn = queue[j][m].turn
        BY <2>1, <2>2, <3>1, <3>4, Requests, AccessFields DEF Waits
      <4> QED BY <2>1, <3>1, <3>4, <4>1 DEF IdOf
    <3> QED BY <2>2, <3>2, <3>3, <3>4, AccessFields
  <2> QED BY <1>1, <2>3 DEF QueueInv, QueueOnce
<1> HIDE DEF h
<1>h. \A a \in Accesses : Waits(a) /\ ~SameRequest(a, h) => Waits(a)'
  BY DEF h
<1>4. QueueWaits'
  <2>1. ASSUME NEW m \in 1..Len(queue'[i])
        PROVE  (Waits(queue[i][m]) /\ IdOf(queue[i][m]) = i)'
    <3>1. PICK a \in Accesses : a = queue[i][m + 1]
      BY <1>1, <1>2
    <3>2. Waits(a) /\ IdOf(a) = i /\ ~SameRequest(a, h)
      BY <1>1, <1>2, <1>3, <3>1 DEF QueueInv, QueueWaits
    <3>3. Waits(a)'
      BY <1>h, <3>2
    <3> QED BY <1>1, <3>1, <3>2, <3>3 DEF Waits, IdOf
  <2>2. ASSUME NEW j \in Ids, j # i, NEW m \in 1..Len(queue[j])
        PROVE  (Waits(queue[j][m]) /\ IdOf(queue[j][m]) = j)'
    <3>1. PICK a \in Accesses : a = queue[j][m]
      BY <1>2
    <3>2. Waits(a) /\ IdOf(a) = j /\ ~SameRequest(a, h)
      BY <1>3, <2>2, <3>1 DEF QueueInv, QueueWaits
    <3>3. Waits(a)'
      BY <1>h, <3>2
    <3> QED BY <1>1, <2>2, <3>1, <3>2, <3>3 DEF Waits, IdOf
  <2>3. SUFFICES ASSUME NEW j \in Ids, NEW m \in 1..Len(queue'[j])
               PROVE  (Waits(queue[j][m]) /\ IdOf(queue[j][m]) = j)'
    BY DEF QueueWaits
  <2>4. CASE j = i
    BY <2>1, <2>4
  <2>5. CASE j # i
    BY <1>1, <2>2, <2>5
  <2> QED BY <2>4, <2>5
<1>5. QueueOnce'
  <2> SUFFICES ASSUME NEW j \in Ids, NEW m \in 1..Len(queue'[j]), NEW n \in 1..Len(queue'[j]),
                      SameRequest(queue'[j][m], queue'[j][n])
               PROVE  m = n
    BY DEF QueueOnce, SameRequest
  <2>1. CASE j # i
    BY <1>1, <2>1 DEF QueueInv, QueueOnce
  <2>2. CASE j = i
    <3>1. /\ m + 1 \in 1..Len(queue[i]) /\ n + 1 \in 1..Len(queue[i])
          /\ SameRequest(queue[i][m + 1], queue[i][n + 1])
      BY <1>1, <2>2
    <3>2. m + 1 = n + 1
      BY <3>1 DEF QueueInv, QueueOnce
    <3> QED BY <3>2
  <2> QED BY <2>1, <2>2
<1>6. PutIsQueued'
  <2> SUFFICES ASSUME NEW t \in Turns, stage'[t] = "persisting"
               PROVE  t.id \in Ids /\ \E m \in 1..Len(queue'[t.id]) : OwnPut(queue'[t.id][m], t)
    BY DEF PutIsQueued, OwnPut
  <2>1. t.id \in Ids /\ ~OwnPut(h, t)
    BY DEF QueueInv, PutIsQueued, h
  <2>2. PICK m \in 1..Len(queue[t.id]) : OwnPut(queue[t.id][m], t)
    BY DEF QueueInv, PutIsQueued
  <2>3. CASE t.id # i
    BY <1>1, <2>1, <2>2, <2>3
  <2>4. CASE t.id = i
    <3>1. m # 1 /\ m - 1 \in 1..Len(queue'[i]) /\ queue'[i][m - 1] = queue[i][m]
      BY <1>1, <1>2, <2>1, <2>2, <2>4
    <3> QED BY <2>1, <2>2, <2>4, <3>1
  <2> QED BY <2>3, <2>4
<1>7. DeleteBehindPut'
  <2> SUFFICES ASSUME NEW j \in Ids, NEW m \in 1..Len(queue'[j]), NEW t \in Turns,
                      queue'[j][m].op = "delete", delete'[queue'[j][m].by].run = t,
                      ~cancelRequested'[t], stage'[t] = "persisting"
               PROVE  \E n \in 1..Len(queue'[j]) : n < m /\ OwnPut(queue'[j][n], t)
    BY DEF DeleteBehindPut, OwnPut
  <2>1. ~cancelRequested[t] /\ stage[t] = "persisting" /\ ~OwnPut(h, t)
    BY DEF h
  <2>2. CASE j # i
    <3>1. queue'[j] = queue[j]
      BY <1>1, <2>2
    <3>2. queue[j][m].by \in Deletes
      BY <1>2, <3>1, AccessFields
    <3> QED BY <2>1, <3>1, <3>2 DEF QueueInv, DeleteBehindPut
  <2>3. CASE j = i
    <3>1. m + 1 \in 1..Len(queue[i]) /\ queue'[i][m] = queue[i][m + 1]
      BY <1>1, <2>3
    <3>2. queue[i][m + 1].by \in Deletes
      BY <1>2, <2>3, <3>1, AccessFields
    <3>3. PICK n \in 1..Len(queue[i]) : n < m + 1 /\ OwnPut(queue[i][n], t)
      BY <2>1, <2>3, <3>1, <3>2 DEF QueueInv, DeleteBehindPut
    <3>4. n # 1 /\ n - 1 \in 1..Len(queue'[i]) /\ queue'[i][n - 1] = queue[i][n] /\ n - 1 < m
      BY <1>1, <1>2, <2>1, <3>1, <3>3
    <3> QED BY <2>3, <3>3, <3>4
  <2> QED BY <2>2, <2>3
<1> QED BY <1>4, <1>5, <1>6, <1>7 DEF QueueInv

(* A step that issues an access on behalf of someone who waits for none of *)
(* the kind.                                                               *)
LEMMA IssueKeepsQueue ==
  ASSUME TypeOK, QueueInv,
         NEW a \in Accesses, IdOf(a) \in Ids, Issue(IdOf(a), a), Waits(a)',
         \A b \in Accesses : SameRequest(a, b) => ~Waits(b),
         \A b \in Accesses : Waits(b) => Waits(b)',
         \A t \in Turns : stage'[t] = "persisting" => stage[t] = "persisting" \/ OwnPut(a, t),
         \A t \in Turns : OwnPut(a, t) =>
           \A d \in Deletes : delete[d].run = t => cancelRequested[t],
         \A t \in Turns : cancelRequested[t] => cancelRequested'[t],
         \A d \in Deletes : delete'[d].run = delete[d].run \/ (a.op = "delete" /\ a.by = d),
         a.op = "delete" =>
           \A t \in Turns : delete'[a.by].run = t => t.id = IdOf(a)
  PROVE  QueueInv'
<1> DEFINE i == IdOf(a)
<1>1. /\ Len(queue'[i]) = Len(queue[i]) + 1
      /\ queue'[i][Len(queue[i]) + 1] = a
      /\ \A m \in 1..Len(queue[i]) : m \in 1..Len(queue'[i]) /\ queue'[i][m] = queue[i][m]
      /\ \A j \in Ids : j # i => queue'[j] = queue[j]
  BY IssueEntries
<1>2. /\ \A j \in Ids : Len(queue[j]) \in Nat
      /\ \A j \in Ids : \A m \in 1..Len(queue[j]) : queue[j][m] \in Accesses
      /\ i \in Ids
  BY Entries
<1>3. \A j \in Ids : \A m \in 1..Len(queue[j]) : ~SameRequest(a, queue[j][m])
  BY <1>2 DEF QueueInv, QueueWaits
<1>4. \A j \in Ids : \A m \in 1..Len(queue'[j]) :
        \/ m \in 1..Len(queue[j]) /\ queue'[j][m] = queue[j][m]
        \/ j = i /\ m = Len(queue[i]) + 1 /\ queue'[j][m] = a
  BY <1>1, <1>2
<1>w. Waits(a)' /\ IdOf(a) = i
  OBVIOUS
<1> HIDE DEF i
<1>5. QueueWaits'
  <2> SUFFICES ASSUME NEW j \in Ids, NEW m \in 1..Len(queue'[j])
               PROVE  (Waits(queue[j][m]) /\ IdOf(queue[j][m]) = j)'
    BY DEF QueueWaits
  <2>1. CASE m \in 1..Len(queue[j]) /\ queue'[j][m] = queue[j][m]
    <3>1. PICK b \in Accesses : b = queue[j][m]
      BY <1>2, <2>1
    <3>2. Waits(b) /\ IdOf(b) = j
      BY <2>1, <3>1 DEF QueueInv, QueueWaits
    <3>3. Waits(b)'
      BY <3>2
    <3> QED BY <2>1, <3>1, <3>2, <3>3 DEF Waits, IdOf
  <2>2. CASE j = i /\ queue'[j][m] = a
    BY <1>w, <2>2 DEF Waits, IdOf
  <2> QED BY <1>4, <2>1, <2>2
<1>6. QueueOnce'
  <2> SUFFICES ASSUME NEW j \in Ids, NEW m \in 1..Len(queue'[j]), NEW n \in 1..Len(queue'[j]),
                      SameRequest(queue'[j][m], queue'[j][n])
               PROVE  m = n
    BY DEF QueueOnce, SameRequest
  <2>1. CASE m \in 1..Len(queue[j]) /\ n \in 1..Len(queue[j])
    <3>1. queue'[j][m] = queue[j][m] /\ queue'[j][n] = queue[j][n]
      BY <1>1, <2>1
    <3>2. SameRequest(queue[j][m], queue[j][n])
      BY <3>1 DEF SameRequest
    <3> QED BY <2>1, <3>2 DEF QueueInv, QueueOnce
  <2>2. CASE m \notin 1..Len(queue[j]) /\ n \in 1..Len(queue[j])
    <3>1. queue'[j][m] = a
      BY <1>4, <2>2
    <3>2. queue'[j][n] = queue[j][n]
      BY <1>1, <2>2
    <3>3. SameRequest(a, queue[j][n])
      BY <3>1, <3>2 DEF SameRequest
    <3> QED BY <1>3, <2>2, <3>3
  <2>3. CASE m \in 1..Len(queue[j]) /\ n \notin 1..Len(queue[j])
    <3>1. queue'[j][n] = a
      BY <1>4, <2>3
    <3>2. queue'[j][m] = queue[j][m]
      BY <1>1, <2>3
    <3>3. SameRequest(a, queue[j][m])
      BY <3>1, <3>2 DEF SameRequest
    <3> QED BY <1>3, <2>3, <3>3
  <2>4. CASE m \notin 1..Len(queue[j]) /\ n \notin 1..Len(queue[j])
    BY <1>4, <2>4
  <2> QED BY <2>1, <2>2, <2>3, <2>4
<1>7. PutIsQueued'
  <2> SUFFICES ASSUME NEW t \in Turns, stage'[t] = "persisting"
               PROVE  t.id \in Ids /\ \E m \in 1..Len(queue'[t.id]) : OwnPut(queue'[t.id][m], t)
    BY DEF PutIsQueued, OwnPut
  <2>1. CASE stage[t] = "persisting"
    <3>1. PICK m \in 1..Len(queue[t.id]) : OwnPut(queue[t.id][m], t)
      BY <2>1 DEF QueueInv, PutIsQueued
    <3>2. t.id \in Ids
      BY <2>1 DEF QueueInv, PutIsQueued
    <3> QED BY <1>1, <3>1, <3>2
  <2>2. CASE OwnPut(a, t)
    <3>1. t.id = i
      BY <1>w, <2>2 DEF OwnPut, IdOf
    <3>2. Len(queue[i]) + 1 \in 1..Len(queue'[i])
      BY <1>1, <1>2
    <3> QED BY <1>1, <1>2, <2>2, <3>1, <3>2
  <2> QED BY <2>1, <2>2
<1>8. DeleteBehindPut'
  <2> SUFFICES ASSUME NEW j \in Ids, NEW m \in 1..Len(queue'[j]), NEW t \in Turns,
                      queue'[j][m].op = "delete", delete'[queue'[j][m].by].run = t,
                      ~cancelRequested'[t], stage'[t] = "persisting"
               PROVE  \E n \in 1..Len(queue'[j]) : n < m /\ OwnPut(queue'[j][n], t)
    BY DEF DeleteBehindPut, OwnPut
  <2>1. CASE m \in 1..Len(queue[j]) /\ queue'[j][m] = queue[j][m]
    <3>1. queue[j][m].by \in Deletes
      BY <1>2, <2>1, AccessFields
    <3>2. delete[queue[j][m].by].run = t
      BY <1>3, <2>1, <3>1 DEF SameRequest
    <3>3. stage[t] = "persisting"
      BY <3>1, <3>2
    <3>4. PICK n \in 1..Len(queue[j]) : n < m /\ OwnPut(queue[j][n], t)
      BY <2>1, <3>2, <3>3 DEF QueueInv, DeleteBehindPut
    <3>5. n \in 1..Len(queue'[j]) /\ queue'[j][n] = queue[j][n]
      BY <1>1, <3>4
    <3> QED BY <3>4, <3>5
  <2>2. CASE j = i /\ m = Len(queue[i]) + 1 /\ queue'[j][m] = a
    <3>1. t.id = i /\ ~OwnPut(a, t)
      BY <1>w, <2>2 DEF OwnPut
    <3>2. PICK n \in 1..Len(queue[i]) : OwnPut(queue[i][n], t)
      BY <3>1 DEF QueueInv, PutIsQueued
    <3> QED BY <1>1, <1>2, <2>2, <3>2
  <2> QED BY <1>4, <2>1, <2>2
<1> QED BY <1>5, <1>6, <1>7, <1>8 DEF QueueInv

-----------------------------------------------------------------------------
(* The other parts of the invariant, for steps that leave most of the      *)
(* state alone.                                                            *)

Registry == ClaimsAreLive /\ HeldAtWork /\ DrainInv
Live(t) == stage[t] \in {"setup", "running", "persisting", "tail", "logging"}

(* A step that neither takes nor gives back an id.                         *)
LEMMA QuietKeepsRegistry ==
  ASSUME TypeOK, Registry,
         UNCHANGED serverVars,
         \A t \in Turns : Live(t) => Live(t)',
         \A t \in Turns : Settled(t) => Settled(t)',
         \A t \in Turns : (~cancelRequested[t] /\ AtWork(t))'
                          => (~cancelRequested[t] /\ AtWork(t)) \/ Holds(t)
  PROVE  Registry'
<1>1. ClaimsAreLive'
  BY DEF Registry, ClaimsAreLive, Live, serverVars, TypeOK
<1>2. HeldAtWork'
  BY DEF Registry, HeldAtWork, Holds, serverVars
<1>3. DrainInv'
  BY DEF Registry, DrainInv, Holds, serverVars, TypeOK
<1> QED BY <1>1, <1>2, <1>3 DEF Registry

(* A turn ends and gives its id back.                                      *)
LEMMA ReleaseKeepsRegistry ==
  ASSUME TypeOK, Registry,
         NEW t \in Turns, Release(t),
         UNCHANGED <<draining, drainWait, drained, cancelRequested>>,
         \E end \in {"done", "refused"} : stage' = [stage EXCEPT ![t] = end]
  PROVE  Registry'
<1>1. PICK end \in {"done", "refused"} : stage' = [stage EXCEPT ![t] = end]
  OBVIOUS
<1>2. /\ stage'[t] = end /\ \A u \in Turns : u # t => stage'[u] = stage[u]
      /\ t.server \in Servers /\ t.id \in Ids /\ t # NoTurn
  BY <1>1, Requests DEF TypeOK
<1>3. \A s \in Servers, i \in Ids :
        \/ claims'[s][i] = claims[s][i] /\ claims[s][i] # t
        \/ claims'[s][i] = NoTurn
  BY <1>2 DEF Release, Holds, TypeOK, Registry, ClaimsAreLive
<1>4. \A u \in Turns : Holds(u)' => Holds(u)
  BY <1>3, Requests DEF Holds
<1>5. \A u \in Turns : Holds(u) /\ u # t => Holds(u)'
  BY <1>2, Requests DEF Holds, Release, TypeOK
<1>6. ClaimsAreLive'
  BY <1>2, <1>3 DEF Registry, ClaimsAreLive, TypeOK
<1>7. HeldAtWork'
  BY <1>2, <1>5 DEF Registry, HeldAtWork, AtWork, Working
<1>8. DrainInv'
  BY <1>2, <1>4 DEF Registry, DrainInv, Settled, TypeOK
<1> QED BY <1>6, <1>7, <1>8 DEF Registry

(* Cancels and deletes go on working on the turns they work on.            *)
Worked == {"grace", "persisting", "answered", "repeated"}
(* Cancels and DELETEs go on with the turns they found while these stay    *)
(* decided.                                                                *)
LEMMA RequestsKept ==
  ASSUME RequestInv,
         \A c \in Cancels : cancel'[c].turn = cancel[c].turn
                            /\ (cancel'[c].state \in Worked => cancel[c].state \in Worked),
         \A d \in Deletes : delete'[d].run = delete[d].run,
         \A t \in Turns : cancelRequested[t] => cancelRequested'[t],
         \A t \in Turns : Decided(t) => Decided(t)'
  PROVE  RequestInv'
  BY DEF RequestInv, Worked

VerdictsStay == \A t \in Turns : Verdict(t) # "none" => Verdict(t)' = Verdict(t)

(* What agrees with a verdict keeps agreeing with it.                      *)
LEMMA FiledKept ==
  ASSUME TypeOK, FiledInv, VerdictsStay,
         \A j \in Ids : \A m \in 1..Len(queue'[j]) : queue'[j][m].op = "put" =>
           \/ \E n \in 1..Len(queue[j]) : queue[j][n] = queue'[j][m]
           \/ Agrees(queue[j][m])',
         \A j \in Ids : record'[j] \in {record[j], NoRecord} \/ Agrees(record[j])'
  PROVE  FiledInv'
<1>1. ASSUME NEW j \in Ids, record'[j] # NoRecord PROVE Agrees(record[j])'
  <2>1. CASE record'[j] = record[j]
    <3>1. record[j] \in Records /\ Agrees(record[j])
      BY <1>1, <2>1 DEF TypeOK, FiledInv
    <3>2. PICK t \in Turns : t = record[j].turn
      BY <3>1 DEF Records
    <3>3. Verdict(t) = record[j].status /\ Verdict(t) # "none"
      BY <3>1, <3>2 DEF Agrees, Records, Statuses, TerminalStatuses, HandlerTerminals
    <3>4. Verdict(t)' = record[j].status
      BY <3>3 DEF VerdictsStay
    <3> QED BY <2>1, <3>1, <3>2, <3>4 DEF Agrees, Verdict, Decided
  <2> QED BY <1>1, <2>1
<1>2. ASSUME NEW j \in Ids, NEW m \in 1..Len(queue'[j]), queue'[j][m].op = "put"
      PROVE  Agrees(queue[j][m])'
  <2>1. CASE \E n \in 1..Len(queue[j]) : queue[j][n] = queue'[j][m]
    <3>1. PICK n \in 1..Len(queue[j]) : queue[j][n] = queue'[j][m]
      BY <2>1
    <3>2. queue[j][n] \in Accesses /\ Agrees(queue[j][n])
      BY <1>2, <3>1, Entries DEF FiledInv
    <3>3. PICK t \in Turns : t = queue[j][n].turn
      BY <1>2, <3>1, <3>2, AccessFields
    <3>4. queue[j][n].status \in Statuses
      BY <1>2, <3>1, <3>2, AccessFields
    <3>5. Verdict(t) = queue[j][n].status /\ Verdict(t) # "none"
      BY <3>2, <3>3, <3>4 DEF Agrees, Statuses, TerminalStatuses, HandlerTerminals
    <3>6. Verdict(t)' = queue[j][n].status
      BY <3>5 DEF VerdictsStay
    <3> QED BY <3>1, <3>2, <3>3, <3>6 DEF Agrees, Verdict, Decided
  <2> QED BY <1>2, <2>1
<1> QED BY <1>1, <1>2 DEF FiledInv

(* A step of a turn that touches neither the registry nor the store and    *)
(* is not about to decide anything it has decided.                         *)
LEMMA QuietKeepsInv ==
  ASSUME IInv, TypeOK', TurnInv',
         UNCHANGED <<serverVars, cancelRequested, storeVars, cancel, delete>>,
         NEW t \in Turns,
         \A u \in Turns : u # t => stage'[u] = stage[u] /\ status'[u] = status[u],
         stage[t] \notin {"persisting", "logging", "done", "refused"},
         stage'[t] \notin {"persisting", "logging"},
         Decided(t) => Decided(t)' /\ status'[t] = status[t],
         Live(t) => Live(t)',
         AtWork(t)' => AtWork(t)
  PROVE  IInv'
<1>1. QueueInv'
  <2>1. \A a \in Accesses : Waits(a) => Waits(a)'
    BY AccessFields DEF Waits
  <2>2. \A u \in Turns : stage'[u] = "persisting" => stage[u] = "persisting"
    OBVIOUS
  <2> QED BY <2>1, <2>2, QuietKeepsQueue DEF IInv, storeVars
<1>2. Registry'
  <2>1. \A u \in Turns : Live(u) => Live(u)'
    BY DEF Live
  <2>2. \A u \in Turns : Settled(u) => Settled(u)'
    BY DEF Settled
  <2>3. \A u \in Turns : (~cancelRequested[u] /\ AtWork(u))' => ~cancelRequested[u] /\ AtWork(u)
    BY DEF AtWork, Working
  <2> QED BY <2>1, <2>2, <2>3, QuietKeepsRegistry DEF IInv, Registry
<1>3. RequestInv'
  <2>1. \A u \in Turns : Decided(u) => Decided(u)'
    BY DEF Decided
  <2> QED BY <2>1, RequestsKept DEF IInv
<1>4. FiledInv'
  <2>1. VerdictsStay
    BY DEF VerdictsStay, Verdict, Decided
  <2> QED BY <2>1, FiledKept DEF IInv, storeVars
<1> QED BY <1>1, <1>2, <1>3, <1>4 DEF IInv, Registry, NoOrphanLog, storeVars

(* A turn ends with no access under way.                                   *)
LEMMA EndKeepsInv ==
  ASSUME IInv, TypeOK', TurnInv',
         NEW t \in Turns, Release(t),
         UNCHANGED <<draining, drainWait, drained, status, cancelRequested, storeVars, cancel, delete>>,
         NEW end \in {"done", "refused"}, stage' = [stage EXCEPT ![t] = end],
         stage[t] \notin {"persisting", "logging"},
         Decided(t) => end = "done"
  PROVE  IInv'
<1>1. stage'[t] = end /\ \A u \in Turns : u # t => stage'[u] = stage[u]
  BY DEF IInv, TypeOK
<1>2. QueueInv'
  <2>1. \A a \in Accesses : Waits(a) => Waits(a)'
    BY <1>1, AccessFields DEF Waits
  <2>2. \A u \in Turns : stage'[u] = "persisting" => stage[u] = "persisting"
    BY <1>1
  <2> QED BY <2>1, <2>2, QuietKeepsQueue DEF IInv, storeVars
<1>3. Registry'
  BY ReleaseKeepsRegistry DEF IInv, Registry
<1>4. RequestInv'
  <2>1. \A u \in Turns : Decided(u) => Decided(u)'
    BY <1>1 DEF Decided
  <2> QED BY <2>1, RequestsKept DEF IInv
<1>5. FiledInv'
  <2>1. VerdictsStay
    BY <1>1 DEF VerdictsStay, Verdict, Decided
  <2> QED BY <2>1, FiledKept DEF IInv, storeVars
<1> QED BY <1>2, <1>3, <1>4, <1>5 DEF IInv, Registry, NoOrphanLog, storeVars

-----------------------------------------------------------------------------
(* Admission.                                                              *)

(* Nothing has been received at the start.                                 *)
LEMMA InitInv == Init => IInv
<1> SUFFICES ASSUME Init PROVE IInv
  OBVIOUS
<1>1. TypeOK
  <2>1. /\ draining \in [Servers -> BOOLEAN] /\ drainWait \in [Servers -> SUBSET Turns]
        /\ drained \in [Servers -> BOOLEAN]
        /\ claims \in [Servers -> [Ids -> Turns \cup {NoTurn}]]
    BY DEF Init
  <2>2. /\ stage \in [Turns -> Stages]
        /\ phase \in [Turns -> {"none", "created", "in_progress"}]
        /\ status \in [Turns -> Statuses] /\ items \in [Turns -> 0..MaxItems]
        /\ cancelRequested \in [Turns -> BOOLEAN]
        /\ wire \in [Turns -> {"none", "unstored"} \cup TerminalStatuses]
    BY BoundsAssumption DEF Init, Stages, Statuses
  <2>3. /\ record \in [Ids -> Records \cup {NoRecord}] /\ log \in [Ids -> Turns \cup {NoTurn}]
        /\ queue \in [Ids -> Seq(Accesses)]
    BY DEF Init
  <2>4. /\ cancel \in [Cancels -> [state : {"idle", "grace", "persisting", "answered", "repeated", "refused"},
                                   turn : Turns \cup {NoTurn}]]
        /\ delete \in [Deletes -> [state : {"idle", "deleting", "deleted", "notfound", "failed", "refused"},
                                   run : Turns \cup {NoTurn}]]
    BY DEF Init
  <2> QED BY <2>1, <2>2, <2>3, <2>4 DEF TypeOK
<1>2. Registry
  BY Requests DEF Init, Registry, ClaimsAreLive, HeldAtWork, AtWork, Working, DrainInv, Holds
<1>3. QueueInv
  BY DEF Init, QueueInv, QueueWaits, QueueOnce, PutIsQueued, DeleteBehindPut
<1>4. TurnInv
  BY DEF Init, TurnInv, Decided, TerminalStatuses, HandlerTerminals
<1>5. RequestInv
  BY Requests DEF Init, RequestInv
<1>6. FiledInv /\ NoOrphanLog
  BY DEF Init, FiledInv, NoOrphanLog
<1> QED BY <1>1, <1>2, <1>3, <1>4, <1>5, <1>6 DEF IInv, Registry

(* A create that arrives is only set up.                                   *)
LEMMA ReceiveInv == ASSUME IInv, NEW t \in Turns, Receive(t) PROVE IInv'
<1>1. PICK to \in {"refused", "received"} : stage' = [stage EXCEPT ![t] = to]
  BY DEF Receive
<1>2. /\ stage[t] = "absent"
      /\ UNCHANGED <<serverVars, phase, status, items, cancelRequested, wire, storeVars, cancel, delete>>
  BY DEF Receive
<1>3. stage'[t] = to /\ \A u \in Turns : u # t => stage'[u] = stage[u]
  BY <1>1 DEF IInv, TypeOK
<1>4. TypeOK'
  BY <1>1, <1>2 DEF IInv, TypeOK, Stages, serverVars, storeVars
<1>5. TurnInv'
  BY <1>2, <1>3 DEF IInv, TurnInv, Decided
<1> QED BY <1>2, <1>3, <1>4, <1>5, QuietKeepsInv DEF Decided, Live, AtWork, Working

(* A claimed turn starts to run.                                           *)
LEMMA StartInv == ASSUME IInv, NEW t \in Turns, Start(t) PROVE IInv'
<1>1. /\ stage[t] = "setup" /\ stage' = [stage EXCEPT ![t] = "running"]
      /\ UNCHANGED <<serverVars, phase, status, items, cancelRequested, wire, storeVars, cancel, delete>>
  BY DEF Start
<1>2. stage'[t] = "running" /\ \A u \in Turns : u # t => stage'[u] = stage[u]
  BY <1>1 DEF IInv, TypeOK
<1>3. TypeOK'
  BY <1>1 DEF IInv, TypeOK, Stages, serverVars, storeVars
<1>4. TurnInv'
  BY <1>1, <1>2 DEF IInv, TurnInv, Decided
<1> QED BY <1>1, <1>2, <1>3, <1>4, QuietKeepsInv DEF Decided, Live, AtWork, Working

(* A turn takes the id on its server, or is refused while the id is held   *)
(* or the server drains.                                                   *)
LEMMA ClaimInv == ASSUME IInv, NEW t \in Turns, Claim(t) PROVE IInv'
<1>1. CASE Admissible(t)
  <2>1. /\ stage[t] = "received" /\ stage' = [stage EXCEPT ![t] = "setup"]
        /\ claims' = [claims EXCEPT ![t.server][t.id] = t]
        /\ ~draining[t.server] /\ claims[t.server][t.id] = NoTurn
        /\ UNCHANGED <<draining, drainWait, drained, phase, status, items, cancelRequested,
                       wire, storeVars, cancel, delete>>
    BY <1>1 DEF Claim, Admissible
  <2>2. /\ stage'[t] = "setup" /\ \A u \in Turns : u # t => stage'[u] = stage[u]
        /\ t.server \in Servers /\ t.id \in Ids
    BY <2>1, Requests DEF IInv, TypeOK
  <2>3. TypeOK'
    <3>1. claims' \in [Servers -> [Ids -> Turns \cup {NoTurn}]]
      BY <2>1, <2>2 DEF IInv, TypeOK
    <3>2. stage' \in [Turns -> Stages]
      BY <2>1 DEF IInv, TypeOK, Stages
    <3> QED BY <2>1, <3>1, <3>2 DEF IInv, TypeOK, storeVars
  <2>4. TurnInv'
    BY <2>1, <2>2 DEF IInv, TurnInv, Decided
  <2>5. QueueInv'
    <3>1. \A a \in Accesses : Waits(a) => Waits(a)'
      BY <2>1, <2>2, AccessFields DEF Waits
    <3>2. \A u \in Turns : stage'[u] = "persisting" => stage[u] = "persisting"
      BY <2>2
    <3> QED BY <2>1, <3>1, <3>2, QuietKeepsQueue DEF IInv, storeVars
  <2>6. Registry'
    <3>1. \A s \in Servers, i \in Ids :
            \/ s = t.server /\ i = t.id /\ claims'[s][i] = t
            \/ claims'[s][i] = claims[s][i] /\ ~(s = t.server /\ i = t.id)
      BY <2>1, <2>2 DEF IInv, TypeOK
    <3>2. \A u \in Turns : Holds(u)' <=> (Holds(u) \/ u = t)
      BY <2>1, <2>2, <3>1, Requests DEF Holds
    <3>3. ClaimsAreLive'
      BY <2>1, <2>2, <3>1 DEF IInv, ClaimsAreLive, TypeOK
    <3>4. HeldAtWork'
      BY <2>1, <2>2, <3>2 DEF IInv, HeldAtWork, AtWork, Working
    <3>5. DrainInv'
      BY <2>1, <2>2, <3>2 DEF IInv, DrainInv, Settled, TypeOK
    <3> QED BY <3>3, <3>4, <3>5 DEF Registry
  <2>7. RequestInv'
    <3>1. \A u \in Turns : Decided(u) => Decided(u)'
      BY <2>1, <2>2 DEF Decided
    <3> QED BY <2>1, <3>1, RequestsKept DEF IInv
  <2>8. FiledInv'
    <3>1. VerdictsStay
      BY <2>1, <2>2 DEF VerdictsStay, Verdict, Decided
    <3> QED BY <2>1, <3>1, FiledKept DEF IInv, storeVars
  <2> QED BY <2>1, <2>3, <2>4, <2>5, <2>6, <2>7, <2>8 DEF IInv, Registry, NoOrphanLog, storeVars
<1>2. CASE ~Admissible(t)
  <2>1. /\ stage[t] = "received" /\ stage' = [stage EXCEPT ![t] = "refused"]
        /\ UNCHANGED <<serverVars, phase, status, items, cancelRequested, wire, storeVars, cancel, delete>>
    BY <1>2 DEF Claim, serverVars
  <2>2. stage'[t] = "refused" /\ \A u \in Turns : u # t => stage'[u] = stage[u]
    BY <2>1 DEF IInv, TypeOK
  <2>3. TypeOK'
    BY <2>1 DEF IInv, TypeOK, Stages, serverVars, storeVars
  <2>4. TurnInv'
    BY <2>1, <2>2 DEF IInv, TurnInv, Decided
  <2> QED BY <2>1, <2>2, <2>3, <2>4, QuietKeepsInv DEF Decided, Live, AtWork, Working
<1> QED BY <1>1, <1>2

(* Giving up the claim leaves a well-typed registry.                       *)
LEMMA ReleaseType ==
  ASSUME TypeOK, NEW t \in Turns, Release(t)
  PROVE  claims' \in [Servers -> [Ids -> Turns \cup {NoTurn}]]
  BY Requests DEF Release, TypeOK

(* A turn that is refused gives up its claim.                              *)
LEMMA RefuseInv ==
  ASSUME IInv, NEW t \in Turns, Refuse(t), stage[t] \in {"setup", "running"}, ~cancelRequested[t]
  PROVE  IInv'
<1>1. /\ stage' = [stage EXCEPT ![t] = "refused"] /\ Release(t)
      /\ UNCHANGED <<draining, drainWait, drained, phase, status, items, cancelRequested,
                     wire, storeVars, cancel, delete>>
  BY DEF Refuse
<1>2. stage'[t] = "refused" /\ \A u \in Turns : u # t => stage'[u] = stage[u]
  BY <1>1 DEF IInv, TypeOK
<1>3. TypeOK'
  <2>1. stage' \in [Turns -> Stages]
    BY <1>1 DEF IInv, TypeOK, Stages
  <2> QED BY <1>1, <2>1, ReleaseType DEF IInv, TypeOK, storeVars
<1>4. TurnInv'
  BY <1>1, <1>2 DEF IInv, TurnInv, Decided
<1> QED BY <1>1, <1>3, <1>4, EndKeepsInv DEF Decided

(* A turn whose setup throws is refused.                                   *)
LEMMA SetupFailsInv == ASSUME IInv, NEW t \in Turns, SetupFails(t) PROVE IInv'
  BY RefuseInv DEF SetupFails, IInv, TurnInv

-----------------------------------------------------------------------------
(* The handler.                                                            *)

(* The created and in_progress events of the handler.                      *)
LEMMA EmitPrefixInv == ASSUME IInv, NEW t \in Turns, EmitPrefix(t) PROVE IInv'
<1>1. PICK st \in {"queued", "in_progress"} : status' = [status EXCEPT ![t] = st]
  BY DEF EmitPrefix
<1>2. PICK ph \in {"created", "in_progress"} : phase' = [phase EXCEPT ![t] = ph]
  BY DEF EmitPrefix
<1>3. /\ stage[t] = "running"
      /\ UNCHANGED <<serverVars, stage, items, cancelRequested, wire, storeVars, cancel, delete>>
  BY DEF EmitPrefix
<1>4. status'[t] = st /\ \A u \in Turns : u # t => status'[u] = status[u]
  BY <1>1 DEF IInv, TypeOK
<1>5. TypeOK'
  BY <1>1, <1>2, <1>3 DEF IInv, TypeOK, Statuses, serverVars, storeVars
<1>6. TurnInv'
  BY <1>3, <1>4 DEF IInv, TurnInv, Decided, TerminalStatuses, HandlerTerminals
<1> QED BY <1>3, <1>4, <1>5, <1>6, QuietKeepsInv DEF Decided, Live, AtWork, Working

(* An output item of the handler.                                          *)
LEMMA EmitItemInv == ASSUME IInv, NEW t \in Turns, EmitItem(t) PROVE IInv'
<1>1. /\ stage[t] = "running" /\ items[t] < MaxItems
      /\ items' = [items EXCEPT ![t] = @ + 1]
      /\ UNCHANGED <<serverVars, stage, phase, status, cancelRequested, wire, storeVars, cancel, delete>>
  BY DEF EmitItem
<1>2. TypeOK'
  <2>1. items[t] + 1 \in 0..MaxItems
    BY <1>1, BoundsAssumption DEF IInv, TypeOK
  <2>2. items' \in [Turns -> 0..MaxItems]
    BY <1>1, <2>1 DEF IInv, TypeOK
  <2> QED BY <1>1, <2>2 DEF IInv, TypeOK, serverVars, storeVars
<1>3. TurnInv'
  BY <1>1 DEF IInv, TurnInv, Decided
<1> QED BY <1>1, <1>2, <1>3, QuietKeepsInv DEF Decided, Live, AtWork, Working

(* What is about to be stored agrees with the verdict.                     *)
LEMMA IssueKeepsFiled ==
  ASSUME TypeOK, FiledInv, VerdictsStay, record' = record,
         NEW i \in Ids, NEW a \in Accesses, Issue(i, a), a.op = "put" => Agrees(a)'
  PROVE  FiledInv'
<1>1. /\ Len(queue'[i]) = Len(queue[i]) + 1
      /\ queue'[i][Len(queue[i]) + 1] = a
      /\ \A m \in 1..Len(queue[i]) : queue'[i][m] = queue[i][m]
      /\ \A j \in Ids : j # i => queue'[j] = queue[j]
  BY IssueEntries
<1>2. Len(queue[i]) \in Nat
  BY Entries
<1>3. ASSUME NEW j \in Ids, NEW m \in 1..Len(queue'[j]), queue'[j][m].op = "put"
      PROVE  \/ \E n \in 1..Len(queue[j]) : queue[j][n] = queue'[j][m]
             \/ Agrees(queue[j][m])'
  <2>1. CASE m \in 1..Len(queue[j]) /\ queue'[j][m] = queue[j][m]
    BY <2>1
  <2>2. CASE queue'[j][m] = a
    BY <1>3, <2>2 DEF Agrees, Verdict, Decided
  <2>3. \/ m \in 1..Len(queue[j]) /\ queue'[j][m] = queue[j][m]
        \/ queue'[j][m] = a
    BY <1>1, <1>2
  <2> QED BY <2>1, <2>2, <2>3
<1> QED BY <1>3, FiledKept

(* A put of a turn's result is a well-typed access to the turn's id.       *)
LEMMA PutIsAccess ==
  ASSUME NEW t \in Turns, NEW by \in Turns \cup Cancels, NEW st \in Statuses, NEW n \in 0..MaxItems
  PROVE  /\ Put(t, by, st, n) \in Accesses
         /\ IdOf(Put(t, by, st, n)) = t.id
         /\ Put(t, by, st, n).op = "put" /\ Put(t, by, st, n).by = by
         /\ Put(t, by, st, n).turn = t
         /\ Put(t, by, st, n).status = st /\ Put(t, by, st, n).items = n
  BY DEF Put, Accesses, IdOf

(* A turn at work that holds its id issues its terminal put.               *)
LEMMA TerminalPutInv ==
  ASSUME IInv, TypeOK', TurnInv',
         NEW t \in Turns, NEW st \in TerminalStatuses, NEW n \in 0..MaxItems,
         Holds(t), AtWork(t), stage[t] \in {"running", "tail"},
         Issue(t.id, Put(t, t, st, n)),
         stage' = [stage EXCEPT ![t] = "persisting"],
         status'[t] = st, cancelRequested[t] => st = "cancelled", st = "cancelled" => n = 0,
         \A u \in Turns : u # t => status'[u] = status[u],
         Decided(t) => status'[t] = status[t],
         UNCHANGED <<serverVars, cancelRequested, record, log, cancel, delete>>
  PROVE  IInv'
<1> DEFINE a == Put(t, t, st, n)
<1>1. stage'[t] = "persisting" /\ \A u \in Turns : u # t => stage'[u] = stage[u]
  BY DEF IInv, TypeOK
<1>2. /\ a \in Accesses /\ IdOf(a) = t.id /\ t.id \in Ids
      /\ a.op = "put" /\ a.by = t /\ a.turn = t /\ a.status = st /\ a.items = n
  <2>1. t \in Turns \cup Cancels /\ st \in Statuses
    BY DEF Statuses
  <2>2. t.id \in Ids
    BY Requests
  <2> HIDE DEF a
  <2> QED BY <2>1, <2>2, PutIsAccess DEF a
<1>i. Issue(IdOf(a), a)
  BY <1>2
<1> HIDE DEF a
<1>3. QueueInv'
  <2>1. Waits(a)'
    BY <1>1, <1>2 DEF Waits
  <2>2. \A b \in Accesses : SameRequest(a, b) => ~Waits(b)
    BY <1>2, Requests DEF SameRequest, Waits
  <2>3. \A b \in Accesses : Waits(b) => Waits(b)'
    BY <1>1, AccessFields DEF Waits
  <2>4. \A u \in Turns : stage'[u] = "persisting" => stage[u] = "persisting" \/ OwnPut(a, u)
    BY <1>1, <1>2 DEF OwnPut
  <2>5. \A u \in Turns : OwnPut(a, u) =>
           \A d \in Deletes : delete[d].run = u => cancelRequested[u]
    BY <1>2 DEF OwnPut, IInv, RequestInv, AtWork, Working, Decided
  <2> QED BY <1>2, <1>i, <2>1, <2>2, <2>3, <2>4, <2>5, IssueKeepsQueue DEF IInv
<1>4. Registry'
  <2>1. \A u \in Turns : Live(u) => Live(u)'
    BY <1>1 DEF Live
  <2>2. \A u \in Turns : Settled(u) => Settled(u)'
    BY <1>1 DEF Settled
  <2>3. \A u \in Turns : (~cancelRequested[u] /\ AtWork(u))'
                         => (~cancelRequested[u] /\ AtWork(u)) \/ Holds(u)
    BY <1>1 DEF AtWork, Working
  <2> QED BY <2>1, <2>2, <2>3, QuietKeepsRegistry DEF IInv, Registry
<1>5. RequestInv'
  <2>1. \A u \in Turns : Decided(u) => Decided(u)'
    BY <1>1 DEF Decided
  <2> QED BY <2>1, RequestsKept DEF IInv
<1>6. FiledInv'
  <2>1. VerdictsStay
    BY <1>1 DEF VerdictsStay, Verdict, Decided
  <2>2. Agrees(a)'
    BY <1>1, <1>2 DEF Agrees, Verdict, Decided, IInv, TypeOK
  <2> QED BY <1>2, <1>i, <2>1, <2>2, IssueKeepsFiled DEF IInv
<1> QED BY <1>3, <1>4, <1>5, <1>6 DEF IInv, Registry, NoOrphanLog

(* The terminal of a background turn is issued as a put, with a            *)
(* cancellation taking precedence.                                         *)
LEMMA DriveTerminalInv ==
  ASSUME IInv, NEW t \in Turns, NEW st \in HandlerTerminals,
         t.background, stage[t] = "running", DriveTerminal(t, st)
  PROVE  IInv'
<1> DEFINE to == TerminalOf(t, st)
           n  == ItemsOf(t)
<1>1. /\ to \in TerminalStatuses
      /\ cancelRequested[t] <=> to = "cancelled"
      /\ n \in 0..MaxItems
      /\ to = "cancelled" => n = 0
  BY BoundsAssumption DEF TerminalOf, ItemsOf, TerminalStatuses, HandlerTerminals, IInv, TypeOK
<1>2. /\ status' = [status EXCEPT ![t] = to]
      /\ items' = [items EXCEPT ![t] = n]
      /\ UNCHANGED <<serverVars, phase, cancelRequested, record, log, cancel, delete>>
  BY DEF DriveTerminal
<1>c. CASE Holds(t)
  <2>1. /\ Issue(t.id, Put(t, t, to, n))
        /\ stage' = [stage EXCEPT ![t] = "persisting"]
        /\ UNCHANGED wire
    BY <1>c DEF DriveTerminal
  <2> HIDE DEF to, n
  <2>2. /\ stage'[t] = "persisting" /\ \A u \in Turns : u # t => stage'[u] = stage[u]
        /\ status'[t] = to /\ \A u \in Turns : u # t => status'[u] = status[u]
    BY <1>2, <2>1 DEF IInv, TypeOK
  <2>3. TypeOK'
    <3>1. queue' \in [Ids -> Seq(Accesses)]
      BY <1>1, <2>1, IssueEntries, PutIsAccess, Requests DEF IInv, Statuses
    <3>2. stage' \in [Turns -> Stages] /\ status' \in [Turns -> Statuses]
          /\ items' \in [Turns -> 0..MaxItems]
      BY <1>1, <1>2, <2>1 DEF IInv, TypeOK, Stages, Statuses
    <3> QED BY <1>2, <2>1, <3>1, <3>2 DEF IInv, TypeOK, serverVars
  <2>4. TurnInv'
    BY <1>1, <1>2, <2>1, <2>2 DEF IInv, TurnInv, Decided, TerminalStatuses, HandlerTerminals
  <2>5. AtWork(t) /\ ~Decided(t)
    BY DEF AtWork, Working, Decided
  <2> QED BY <1>1, <1>2, <1>c, <2>1, <2>2, <2>3, <2>4, <2>5, TerminalPutInv
<1>n. CASE ~Holds(t)
  <2>1. /\ stage' = [stage EXCEPT ![t] = "tail"]
        /\ wire' = [wire EXCEPT ![t] = to]
        /\ UNCHANGED queue
    BY <1>n DEF DriveTerminal
  <2> HIDE DEF to, n
  <2>2. cancelRequested[t]
    BY <1>n DEF IInv, HeldAtWork, AtWork, Working
  <2>3. /\ stage'[t] = "tail" /\ \A u \in Turns : u # t => stage'[u] = stage[u]
        /\ status'[t] = to /\ \A u \in Turns : u # t => status'[u] = status[u]
        /\ wire'[t] = to /\ \A u \in Turns : u # t => wire'[u] = wire[u]
    BY <1>2, <2>1 DEF IInv, TypeOK
  <2>4. TypeOK'
    <3>1. stage' \in [Turns -> Stages] /\ status' \in [Turns -> Statuses]
          /\ items' \in [Turns -> 0..MaxItems]
          /\ wire' \in [Turns -> {"none", "unstored"} \cup TerminalStatuses]
      BY <1>1, <1>2, <2>1 DEF IInv, TypeOK, Stages, Statuses
    <3> QED BY <1>2, <2>1, <3>1 DEF IInv, TypeOK, serverVars
  <2>5. TurnInv'
    BY <1>1, <1>2, <2>1, <2>2, <2>3 DEF IInv, TurnInv, Decided, TerminalStatuses, HandlerTerminals
  <2> QED BY <1>2, <2>1, <2>3, <2>4, <2>5, QuietKeepsInv
          DEF Decided, Live, AtWork, Working, storeVars
<1> QED BY <1>c, <1>n

(* The terminal of a collected foreground turn.                            *)
LEMMA CollectTerminalInv ==
  ASSUME IInv, NEW t \in Turns, NEW st \in HandlerTerminals,
         ~t.background, stage[t] = "running", CollectTerminal(t, st)
  PROVE  IInv'
<1>1. /\ status' = [status EXCEPT ![t] = st] /\ stage' = [stage EXCEPT ![t] = "tail"]
      /\ UNCHANGED <<serverVars, phase, items, cancelRequested, wire, storeVars, cancel, delete>>
  BY DEF CollectTerminal
<1>2. /\ stage'[t] = "tail" /\ \A u \in Turns : u # t => stage'[u] = stage[u]
      /\ status'[t] = st /\ \A u \in Turns : u # t => status'[u] = status[u]
  BY <1>1 DEF IInv, TypeOK
<1>3. TypeOK'
  <2>1. stage' \in [Turns -> Stages] /\ status' \in [Turns -> Statuses]
    BY <1>1 DEF IInv, TypeOK, Stages, Statuses, TerminalStatuses
  <2> QED BY <1>1, <2>1 DEF IInv, TypeOK, serverVars, storeVars
<1>4. TurnInv'
  BY <1>1, <1>2 DEF IInv, TurnInv, Decided, TerminalStatuses, HandlerTerminals
<1> QED BY <1>1, <1>2, <1>3, <1>4, QuietKeepsInv DEF Decided, Live, AtWork, Working

(* Any terminal of the handler.                                            *)
LEMMA HandlerTerminatesInv ==
  ASSUME IInv, NEW t \in Turns, NEW st \in HandlerTerminals, HandlerTerminates(t, st)
  PROVE  IInv'
<1>1. CASE t.background
  BY <1>1, DriveTerminalInv DEF HandlerTerminates
<1>2. CASE ~t.background
  BY <1>2, CollectTerminalInv DEF HandlerTerminates
<1> QED BY <1>1, <1>2

(* A handler that throws before its first event.                           *)
LEMMA HandlerThrowsEarlyInv ==
  ASSUME IInv, NEW t \in Turns, HandlerThrowsEarly(t) PROVE IInv'
<1>1. CASE t.background
  BY <1>1, DriveTerminalInv DEF HandlerThrowsEarly, HandlerTerminals
<1>2. CASE ~t.background
  BY <1>2, RefuseInv DEF HandlerThrowsEarly, IInv, TurnInv
<1> QED BY <1>1, <1>2

-----------------------------------------------------------------------------
(* The end of a turn.                                                      *)

(* A background run ends: its replay log is stored first, or its claim     *)
(* given up.                                                               *)
LEMMA RunEndsInv ==
  ASSUME IInv, NEW t \in Turns, NEW overflowed \in BOOLEAN, RunEnds(t, overflowed)
  PROVE  IInv'
<1>1. /\ stage[t] = "tail" /\ t.background
      /\ UNCHANGED <<draining, drainWait, drained, phase, status, items, cancelRequested,
                     wire, record, log, cancel, delete>>
  BY DEF RunEnds
<1>2. CASE t.stream /\ ~overflowed /\ Holds(t)
  <2> DEFINE a == PutEvents(t)
  <2>1. Issue(t.id, a) /\ stage' = [stage EXCEPT ![t] = "logging"] /\ UNCHANGED claims
    BY <1>2 DEF RunEnds
  <2>2. /\ a \in Accesses /\ IdOf(a) = t.id /\ t.id \in Ids
        /\ a.op = "putEvents" /\ a.by = t /\ a.turn = t
    BY Requests DEF PutEvents, Accesses, IdOf
  <2> HIDE DEF a
  <2>3. stage'[t] = "logging" /\ \A u \in Turns : u # t => stage'[u] = stage[u]
    BY <2>1 DEF IInv, TypeOK
  <2>4. TypeOK'
    <3>1. queue' \in [Ids -> Seq(Accesses)]
      BY <2>1, <2>2, IssueEntries DEF IInv
    <3>2. stage' \in [Turns -> Stages]
      BY <2>1 DEF IInv, TypeOK, Stages
    <3> QED BY <1>1, <2>1, <3>1, <3>2 DEF IInv, TypeOK
  <2>5. TurnInv'
    BY <1>1, <2>3 DEF IInv, TurnInv, Decided
  <2>6. QueueInv'
    <3>1. Waits(a)'
      BY <2>2, <2>3 DEF Waits
    <3>2. \A b \in Accesses : SameRequest(a, b) => ~Waits(b)
      BY <1>1, <2>2 DEF SameRequest, Waits
    <3>3. \A b \in Accesses : Waits(b) => Waits(b)'
      BY <1>1, <2>3, AccessFields DEF Waits
    <3>4. \A u \in Turns : stage'[u] = "persisting" => stage[u] = "persisting" \/ OwnPut(a, u)
      BY <2>3
    <3>5. \A u \in Turns : ~OwnPut(a, u)
      BY <2>2 DEF OwnPut
    <3>6. Issue(IdOf(a), a)
      BY <2>1, <2>2
    <3> QED BY <1>1, <2>2, <3>1, <3>2, <3>3, <3>4, <3>5, <3>6, IssueKeepsQueue DEF IInv
  <2>7. Registry'
    <3>1. \A u \in Turns : Live(u) => Live(u)'
      BY <2>3 DEF Live
    <3>2. \A u \in Turns : Settled(u) => Settled(u)'
      BY <1>1, <2>3 DEF Settled
    <3>3. \A u \in Turns : (~cancelRequested[u] /\ AtWork(u))' => ~cancelRequested[u] /\ AtWork(u)
      BY <1>1, <2>3 DEF AtWork, Working
    <3> QED BY <1>1, <2>1, <3>1, <3>2, <3>3, QuietKeepsRegistry DEF IInv, Registry, serverVars
  <2>8. RequestInv'
    <3>1. \A u \in Turns : Decided(u) => Decided(u)'
      BY <2>3 DEF Decided
    <3> QED BY <1>1, <3>1, RequestsKept DEF IInv
  <2>9. FiledInv'
    <3>1. VerdictsStay
      BY <1>1, <2>3 DEF VerdictsStay, Verdict, Decided
    <3> QED BY <1>1, <2>1, <2>2, <3>1, IssueKeepsFiled DEF IInv
  <2> QED BY <1>1, <2>4, <2>5, <2>6, <2>7, <2>8, <2>9 DEF IInv, Registry, NoOrphanLog
<1>3. CASE ~(t.stream /\ ~overflowed /\ Holds(t))
  <2>1. stage' = [stage EXCEPT ![t] = "done"] /\ Release(t) /\ UNCHANGED queue
    BY <1>3 DEF RunEnds, Finish
  <2>2. stage'[t] = "done" /\ \A u \in Turns : u # t => stage'[u] = stage[u]
    BY <2>1 DEF IInv, TypeOK
  <2>3. TypeOK'
    <3>1. stage' \in [Turns -> Stages]
      BY <2>1 DEF IInv, TypeOK, Stages
    <3> QED BY <1>1, <2>1, <3>1, ReleaseType DEF IInv, TypeOK
  <2>4. TurnInv'
    BY <1>1, <2>2 DEF IInv, TurnInv, Decided
  <2> QED BY <1>1, <2>1, <2>3, <2>4, EndKeepsInv DEF storeVars
<1> QED BY <1>2, <1>3

(* A collected foreground turn ends: its result is stored, or told.        *)
LEMMA CollectEndsInv == ASSUME IInv, NEW t \in Turns, CollectEnds(t) PROVE IInv'
<1>1. /\ stage[t] = "tail" /\ ~t.background
      /\ UNCHANGED <<draining, drainWait, drained, phase, status, items, cancelRequested,
                     record, log, cancel, delete>>
  BY DEF CollectEnds
<1>2. status[t] \in TerminalStatuses /\ ~cancelRequested[t] /\ status[t] # "cancelled"
  BY <1>1 DEF IInv, TurnInv, Decided
<1>3. CASE t.store /\ Holds(t)
  <2>1. /\ Issue(t.id, Put(t, t, status[t], items[t]))
        /\ stage' = [stage EXCEPT ![t] = "persisting"]
        /\ UNCHANGED <<claims, wire>>
    BY <1>3 DEF CollectEnds
  <2>2. stage'[t] = "persisting" /\ \A u \in Turns : u # t => stage'[u] = stage[u]
    BY <2>1 DEF IInv, TypeOK
  <2>3. TypeOK'
    <3>1. status[t] \in Statuses /\ items[t] \in 0..MaxItems
      BY DEF IInv, TypeOK
    <3>2. queue' \in [Ids -> Seq(Accesses)]
      BY <2>1, <3>1, IssueEntries, PutIsAccess, Requests DEF IInv
    <3>3. stage' \in [Turns -> Stages]
      BY <2>1 DEF IInv, TypeOK, Stages
    <3> QED BY <1>1, <2>1, <3>2, <3>3 DEF IInv, TypeOK
  <2>4. TurnInv'
    <3>1. wire[t] = "none"
      BY <1>1 DEF IInv, TurnInv
    <3> QED BY <1>1, <2>1, <2>2, <3>1 DEF IInv, TurnInv, Decided
  <2>5. AtWork(t) /\ items[t] \in 0..MaxItems
    BY <1>1 DEF AtWork, IInv, TypeOK
  <2> QED BY <1>1, <1>2, <1>3, <2>1, <2>3, <2>4, <2>5, TerminalPutInv DEF serverVars
<1>4. CASE ~(t.store /\ Holds(t))
  <2>1. /\ stage' = [stage EXCEPT ![t] = "done"] /\ Release(t)
        /\ wire' = [wire EXCEPT ![t] = status[t]] /\ UNCHANGED queue
    BY <1>4 DEF CollectEnds, Finish
  <2>2. stage'[t] = "done" /\ \A u \in Turns : u # t => stage'[u] = stage[u]
    BY <2>1 DEF IInv, TypeOK
  <2>3. TypeOK'
    <3>1. stage' \in [Turns -> Stages] /\ wire' \in [Turns -> {"none", "unstored"} \cup TerminalStatuses]
      BY <1>2, <2>1 DEF IInv, TypeOK, Stages
    <3> QED BY <1>1, <2>1, <3>1, ReleaseType DEF IInv, TypeOK
  <2>4. TurnInv'
    BY <1>1, <1>2, <2>1, <2>2 DEF IInv, TypeOK, TurnInv, Decided
  <2> QED BY <1>1, <2>1, <2>3, <2>4, EndKeepsInv DEF storeVars
<1> QED BY <1>3, <1>4

-----------------------------------------------------------------------------
(* The store.                                                              *)

(* What is left in the queue is as before.                                 *)
LEMMA SettleKeepsFiled ==
  ASSUME TypeOK, FiledInv, VerdictsStay,
         NEW i \in Ids, queue[i] # <<>>, Settle(i),
         \A j \in Ids : record'[j] \in {record[j], NoRecord} \/ Agrees(record[j])'
  PROVE  FiledInv'
<1>1. ASSUME NEW j \in Ids, NEW m \in 1..Len(queue'[j])
      PROVE  \E n \in 1..Len(queue[j]) : queue[j][n] = queue'[j][m]
  <2>1. CASE j = i
    <3>1. m + 1 \in 1..Len(queue[i]) /\ queue'[i][m] = queue[i][m + 1]
      BY <2>1, SettleEntries
    <3> QED BY <2>1, <3>1
  <2>2. CASE j # i
    BY <2>2, SettleEntries
  <2> QED BY <2>1, <2>2
<1> QED BY <1>1, FiledKept

(* The issuer of a put goes on, whatever became of it.                     *)
LEMMA PutSettlesInv ==
  ASSUME IInv,
         NEW i \in Ids, queue[i] # <<>>, Settle(i),
         NEW w \in Accesses, w = Head(queue[i]), w.op = "put",
         NEW outcome \in {"unstored"} \cup TerminalStatuses,
         PutSettles(w, outcome),
         UNCHANGED <<draining, drainWait, drained, phase, status, items, cancelRequested, log, delete>>
  PROVE  /\ record' \in [Ids -> Records \cup {NoRecord}] => TypeOK'
         /\ TurnInv' /\ QueueInv' /\ Registry' /\ RequestInv' /\ VerdictsStay
<1>1. /\ w = queue[i][1] /\ 1 \in 1..Len(queue[i])
      /\ queue' \in [Ids -> Seq(Accesses)]
      /\ Waits(w)
  BY SettleEntries DEF IInv, QueueInv, QueueWaits
<1>2. w.turn \in Turns /\ w.by \in Turns \cup Cancels
  BY AccessFields
<1>3. CASE w.by = w.turn
  <2> DEFINE t == w.turn
             to == IF t.background THEN "tail" ELSE "done"
  <2>1. /\ wire' = [wire EXCEPT ![t] = outcome]
        /\ stage' = [stage EXCEPT ![t] = to]
        /\ t.background => UNCHANGED claims
        /\ ~t.background => Release(t)
        /\ UNCHANGED cancel
    BY <1>3, <1>2, Requests DEF PutSettles, Finish
  <2>2. t \in Turns /\ stage[t] = "persisting" /\ OwnPut(w, t)
    BY <1>1, <1>2, <1>3 DEF Waits, OwnPut
  <2>t. PICK u \in Turns : u = t
    BY <2>2
  <2> HIDE DEF t
  <2>3. /\ stage'[u] = to /\ \A v \in Turns : v # u => stage'[v] = stage[v]
        /\ wire'[u] = outcome /\ \A v \in Turns : v # u => wire'[v] = wire[v]
        /\ stage[u] = "persisting" /\ OwnPut(w, u)
        /\ to \in {"tail", "done"} /\ (u.background <=> to = "tail")
    BY <2>1, <2>2, <2>t DEF IInv, TypeOK
  <2> HIDE DEF to
  <2>4. claims' \in [Servers -> [Ids -> Turns \cup {NoTurn}]]
    BY <2>1, <2>t, ReleaseType DEF IInv, TypeOK
  <2>5. record' \in [Ids -> Records \cup {NoRecord}] => TypeOK'
    <3>1. stage' \in [Turns -> Stages]
          /\ wire' \in [Turns -> {"none", "unstored"} \cup TerminalStatuses]
      BY <2>1, <2>3 DEF IInv, TypeOK, Stages
    <3> QED BY <1>1, <2>1, <2>4, <3>1 DEF IInv, TypeOK
  <2>6. TurnInv'
    BY <2>3 DEF IInv, TurnInv, Decided
  <2>7. QueueInv'
    <3>1. \A a \in Accesses : Waits(a) /\ ~SameRequest(a, w) => Waits(a)'
      BY <2>1, <2>3, AccessFields DEF Waits, SameRequest, OwnPut
    <3>2. \A v \in Turns : stage'[v] = "persisting" => stage[v] = "persisting" /\ ~OwnPut(w, v)
      BY <2>3 DEF OwnPut
    <3> QED BY <3>1, <3>2, SettleKeepsQueue DEF IInv
  <2>8. Registry'
    <3>1. CASE u.background
      <4>1. \A v \in Turns : Live(v) => Live(v)'
        BY <2>3, <3>1 DEF Live
      <4>2. \A v \in Turns : Settled(v) => Settled(v)'
        BY <2>3 DEF Settled
      <4>3. \A v \in Turns : (~cancelRequested[v] /\ AtWork(v))' => ~cancelRequested[v] /\ AtWork(v)
        BY <2>3, <3>1 DEF AtWork, Working
      <4> QED BY <2>1, <2>t, <3>1, <4>1, <4>2, <4>3, QuietKeepsRegistry DEF IInv, Registry, serverVars
    <3>2. CASE ~u.background
      <4>1. stage' = [stage EXCEPT ![u] = "done"] /\ Release(u)
        BY <2>1, <2>3, <2>t, <3>2
      <4> QED BY <4>1, ReleaseKeepsRegistry DEF IInv, Registry
    <3> QED BY <3>1, <3>2
  <2>9. RequestInv'
    <3>1. \A v \in Turns : Decided(v) => Decided(v)'
      BY <2>3 DEF Decided
    <3> QED BY <2>1, <3>1, RequestsKept DEF IInv
  <2>10. VerdictsStay
    BY <2>3 DEF VerdictsStay, Verdict, Decided
  <2> QED BY <2>5, <2>6, <2>7, <2>8, <2>9, <2>10
<1>4. CASE w.by # w.turn
  <2>1. /\ cancel' = [cancel EXCEPT ![w.by].state = "answered"]
        /\ UNCHANGED <<wire, stage, claims>>
    BY <1>4 DEF PutSettles
  <2>2. PICK c \in Cancels : c = w.by
    BY <1>1, <1>4 DEF Waits
  <2>3. /\ cancel[c].state = "persisting" /\ cancel'[c].state = "answered"
        /\ cancel'[c].turn = cancel[c].turn
        /\ \A d \in Cancels : d # c => cancel'[d] = cancel[d]
        /\ cancel' \in [Cancels -> [state : {"idle", "grace", "persisting", "answered", "repeated", "refused"},
                                    turn : Turns \cup {NoTurn}]]
    <3>1. cancel[c].state = "persisting"
      BY <1>1, <1>4, <2>2 DEF Waits
    <3>2. cancel' = [cancel EXCEPT ![c].state = "answered"]
      BY <2>1, <2>2
    <3>3. /\ cancel[c] \in [state : {"idle", "grace", "persisting", "answered", "repeated", "refused"},
                             turn : Turns \cup {NoTurn}]
          /\ cancel \in [Cancels -> [state : {"idle", "grace", "persisting", "answered", "repeated", "refused"},
                                     turn : Turns \cup {NoTurn}]]
      BY DEF IInv, TypeOK
    <3> QED BY <3>1, <3>2, <3>3
  <2>4. record' \in [Ids -> Records \cup {NoRecord}] => TypeOK'
    BY <1>1, <2>1, <2>3 DEF IInv, TypeOK
  <2>5. TurnInv'
    BY <2>1 DEF IInv, TurnInv, Decided
  <2>6. QueueInv'
    <3>1. \A a \in Accesses : Waits(a) /\ ~SameRequest(a, w) => Waits(a)'
      BY <2>1, <2>2, <2>3, AccessFields DEF Waits, SameRequest
    <3>2. \A v \in Turns : ~OwnPut(w, v)
      BY <1>4 DEF OwnPut
    <3> QED BY <2>1, <3>1, <3>2, SettleKeepsQueue DEF IInv
  <2>7. Registry'
    <3>1. \A v \in Turns : (Live(v) => Live(v)') /\ (Settled(v) => Settled(v)') /\ (AtWork(v)' => AtWork(v))
      BY <2>1 DEF Live, Settled, AtWork, Working
    <3> QED BY <2>1, <3>1, QuietKeepsRegistry DEF IInv, Registry, serverVars
  <2>8. RequestInv'
    <3>1. \A v \in Turns : Decided(v) => Decided(v)'
      BY <2>1 DEF Decided
    <3>2. \A d \in Cancels : cancel'[d].turn = cancel[d].turn
                             /\ (cancel'[d].state \in Worked => cancel[d].state \in Worked)
      BY <2>3 DEF Worked
    <3> QED BY <3>1, <3>2, RequestsKept DEF IInv
  <2>9. VerdictsStay
    BY <2>1 DEF VerdictsStay, Verdict, Decided
  <2> QED BY <2>4, <2>5, <2>6, <2>7, <2>8, <2>9
<1> QED BY <1>3, <1>4

(* The store takes in the put at the head of a queue.                      *)
LEMMA ApplyPutInv == ASSUME IInv, NEW i \in Ids, ApplyPut(i) PROVE IInv'
<1> DEFINE h == Head(queue[i])
<1>1. /\ queue[i] # <<>> /\ h.op = "put" /\ Settle(i)
      /\ record' = [record EXCEPT ![i] = [turn |-> h.turn, status |-> h.status, items |-> h.items]]
      /\ PutSettles(h, h.status)
      /\ UNCHANGED <<draining, drainWait, drained, phase, status, items, cancelRequested, log, delete>>
  BY DEF ApplyPut, Await
<1>2. h \in Accesses /\ h = queue[i][1] /\ 1 \in 1..Len(queue[i])
  BY <1>1, SettleEntries DEF IInv
<1>3. PICK w \in Accesses : w = h
  BY <1>2
<1> HIDE DEF h
<1>4. Agrees(w) /\ w.turn \in Turns /\ w.status \in Statuses /\ w.items \in 0..MaxItems
  BY <1>1, <1>2, <1>3, AccessFields DEF IInv, FiledInv
<1>5. w.status \in TerminalStatuses
  <2>1. PICK t \in Turns : t = w.turn
    BY <1>4
  <2>2. Verdict(t) = w.status /\ Verdict(t) # "none"
    BY <1>4, <2>1 DEF Agrees, Statuses, TerminalStatuses, HandlerTerminals
  <2> QED BY <2>2 DEF Verdict, IInv, TurnInv, TerminalStatuses
<1> DEFINE r == [turn |-> w.turn, status |-> w.status, items |-> w.items]
<1>6. record' \in [Ids -> Records \cup {NoRecord}]
  <2>1. r \in Records
    BY <1>4 DEF Records
  <2> HIDE DEF r
  <2> QED BY <1>1, <1>3, <2>1 DEF IInv, TypeOK, r
<1>7. /\ TypeOK' /\ TurnInv' /\ QueueInv' /\ Registry' /\ RequestInv' /\ VerdictsStay
  BY <1>1, <1>3, <1>5, <1>6, PutSettlesInv DEF h
<1>8. FiledInv'
  <2>1. Agrees(record[i])'
    <3>1. record'[i] = r
      BY <1>1, <1>3 DEF IInv, TypeOK
    <3>2. PICK t \in Turns : t = w.turn
      BY <1>4
    <3>3. Verdict(t) = w.status /\ Verdict(t) # "none"
      BY <1>4, <3>2 DEF Agrees, Statuses, TerminalStatuses, HandlerTerminals
    <3>4. Verdict(t)' = w.status
      BY <1>7, <3>3 DEF VerdictsStay
    <3> QED BY <1>4, <3>1, <3>2, <3>4 DEF Agrees, Verdict, Decided
  <2>2. \A j \in Ids : j # i => record'[j] = record[j]
    BY <1>1 DEF IInv, TypeOK
  <2> QED BY <1>1, <1>7, <2>1, <2>2, SettleKeepsFiled DEF IInv
<1>9. NoOrphanLog'
  <2>1. record'[i] # NoRecord /\ \A j \in Ids : j # i => record'[j] = record[j]
    <3>1. r # NoRecord
      BY <1>4, NoRecordAssumption DEF Records
    <3> QED BY <1>1, <1>3, <3>1 DEF IInv, TypeOK
  <2> QED BY <1>1, <2>1 DEF IInv, NoOrphanLog
<1> QED BY <1>7, <1>8, <1>9 DEF IInv, Registry

(* The put at the head of a queue fails and changes no record.             *)
LEMMA RejectPutInv == ASSUME IInv, NEW i \in Ids, RejectPut(i) PROVE IInv'
<1> DEFINE h == Head(queue[i])
<1>1. /\ queue[i] # <<>> /\ h.op = "put" /\ Settle(i)
      /\ PutSettles(h, "unstored")
      /\ UNCHANGED <<draining, drainWait, drained, phase, status, items, cancelRequested, record, log, delete>>
  BY DEF RejectPut, Await
<1>2. PICK w \in Accesses : w = h
  BY <1>1, SettleEntries DEF IInv
<1>3. /\ TypeOK' /\ TurnInv' /\ QueueInv' /\ Registry' /\ RequestInv' /\ VerdictsStay
  BY <1>1, <1>2, PutSettlesInv DEF IInv, TypeOK
<1>4. FiledInv'
  BY <1>1, <1>3, SettleKeepsFiled DEF IInv
<1> QED BY <1>1, <1>3, <1>4 DEF IInv, Registry, NoOrphanLog

(* The log at the head of a queue is stored under its own record, or       *)
(* dropped.                                                                *)
LEMMA ApplyPutEventsInv == ASSUME IInv, NEW i \in Ids, ApplyPutEvents(i) PROVE IInv'
<1> DEFINE h == Head(queue[i])
<1>1. /\ queue[i] # <<>> /\ h.op = "putEvents" /\ Settle(i)
      /\ \/ log' = [log EXCEPT ![i] = IF Fenced(i, h.turn) THEN h.turn ELSE @]
         \/ UNCHANGED log
      /\ Finish(h.turn)
      /\ UNCHANGED <<draining, drainWait, drained, phase, status, items, cancelRequested,
                     wire, record, cancel, delete>>
  BY DEF ApplyPutEvents, Await
<1>2. /\ h = queue[i][1] /\ 1 \in 1..Len(queue[i]) /\ h \in Accesses
      /\ queue' \in [Ids -> Seq(Accesses)]
  BY <1>1, SettleEntries DEF IInv
<1>3. Waits(h) /\ h.turn \in Turns
  BY <1>1, <1>2, AccessFields DEF IInv, QueueInv, QueueWaits
<1>4. PICK t \in Turns : t = h.turn
  BY <1>3
<1>5. h.by = t /\ stage[t] = "logging"
  BY <1>1, <1>3, <1>4 DEF Waits
<1>6. stage' = [stage EXCEPT ![t] = "done"] /\ Release(t)
  BY <1>1, <1>4 DEF Finish
<1> HIDE DEF h
<1>7. stage'[t] = "done" /\ \A u \in Turns : u # t => stage'[u] = stage[u]
  BY <1>6 DEF IInv, TypeOK
<1>8. TypeOK'
  <2>1. log' \in [Ids -> Turns \cup {NoTurn}] /\ stage' \in [Turns -> Stages]
    BY <1>1, <1>3, <1>6 DEF IInv, TypeOK, Stages
  <2> QED BY <1>1, <1>2, <1>6, <2>1, ReleaseType DEF IInv, TypeOK
<1>9. TurnInv'
  BY <1>1, <1>5, <1>7 DEF IInv, TurnInv, Decided
<1>10. QueueInv'
  <2>1. \A a \in Accesses : Waits(a) /\ ~SameRequest(a, h) => Waits(a)'
    BY <1>1, <1>5, <1>7, AccessFields DEF Waits, SameRequest
  <2>2. \A u \in Turns : stage'[u] = "persisting" => stage[u] = "persisting" /\ ~OwnPut(h, u)
    BY <1>1, <1>7 DEF OwnPut
  <2> QED BY <1>1, <2>1, <2>2, SettleKeepsQueue DEF IInv, h
<1>11. Registry'
  BY <1>1, <1>6, ReleaseKeepsRegistry DEF IInv, Registry
<1>12. RequestInv'
  <2>1. \A u \in Turns : Decided(u) => Decided(u)'
    BY <1>7 DEF Decided
  <2> QED BY <1>1, <2>1, RequestsKept DEF IInv
<1>13. FiledInv'
  <2>1. VerdictsStay
    BY <1>1, <1>7 DEF VerdictsStay, Verdict, Decided
  <2> QED BY <1>1, <2>1, SettleKeepsFiled DEF IInv
<1>14. NoOrphanLog'
  BY <1>1 DEF IInv, TypeOK, NoOrphanLog, Fenced
<1> QED BY <1>8, <1>9, <1>10, <1>11, <1>12, <1>13, <1>14 DEF IInv, Registry

(* A DELETE is applied behind the puts of the run it found: the id it      *)
(* gives back is not that of a turn at work, unless that was cancelled.    *)
LEMMA ApplyDeleteInv == ASSUME IInv, NEW i \in Ids, ApplyDelete(i) PROVE IInv'
<1> DEFINE h == Head(queue[i])
<1>1. /\ queue[i] # <<>> /\ h.op = "delete" /\ Settle(i)
      /\ UNCHANGED <<draining, drainWait, drained, turnVars, cancel>>
  BY DEF ApplyDelete, Await
<1>2. /\ h = queue[i][1] /\ 1 \in 1..Len(queue[i]) /\ h \in Accesses
      /\ queue' \in [Ids -> Seq(Accesses)]
  BY <1>1, SettleEntries DEF IInv
<1>3. PICK d \in Deletes : d = h.by
  BY <1>1, <1>2, AccessFields
<1>4. PICK answer \in {"deleted", "notfound", "failed"} : DeleteAnswers(d, answer)
  BY <1>3 DEF ApplyDelete
<1>5. /\ claims' = claims \/ Drop(delete[d].run)
      /\ \/ record' = record
         \/ /\ record' = [record EXCEPT ![i] = NoRecord]
            /\ log' = [log EXCEPT ![i] = NoTurn]
      /\ log' \in {log, [log EXCEPT ![i] = NoTurn]}
  BY <1>3 DEF ApplyDelete
<1>6. /\ delete'[d].state = answer
      /\ \A e \in Deletes : delete'[e].run = delete[e].run
      /\ \A e \in Deletes : e # d => delete'[e] = delete[e]
      /\ delete' \in [Deletes -> [state : {"idle", "deleting", "deleted", "notfound", "failed", "refused"},
                                  run : Turns \cup {NoTurn}]]
  <2>1. delete[d] \in [state : {"idle", "deleting", "deleted", "notfound", "failed", "refused"},
                       run : Turns \cup {NoTurn}]
    BY DEF IInv, TypeOK
  <2>2. delete' = [delete EXCEPT ![d].state = answer]
    BY <1>4 DEF DeleteAnswers
  <2> QED BY <2>1, <2>2 DEF IInv, TypeOK
<1>7. \A s \in Servers, j \in Ids :
        \/ claims'[s][j] = claims[s][j]
        \/ claims'[s][j] = NoTurn /\ claims[s][j] = delete[d].run /\ delete[d].run \in Turns
  <2>1. CASE claims' = claims
    BY <2>1
  <2>2. CASE Drop(delete[d].run)
    <3>1. delete[d].run \in Turns \cup {NoTurn}
      BY DEF IInv, TypeOK
    <3> QED BY <2>2, <3>1, Requests DEF Drop, Holds, IInv, TypeOK
  <2> QED BY <1>5, <2>1, <2>2
<1>8. claims' \in [Servers -> [Ids -> Turns \cup {NoTurn}]]
  <2>1. CASE claims' = claims
    BY <2>1 DEF IInv, TypeOK
  <2>2. CASE Drop(delete[d].run)
    <3>1. delete[d].run \in Turns \cup {NoTurn}
      BY DEF IInv, TypeOK
    <3> QED BY <2>2, <3>1, Requests DEF Drop, IInv, TypeOK
  <2> QED BY <1>5, <2>1, <2>2
<1>9. ASSUME NEW t \in Turns, delete[d].run = t, AtWork(t) PROVE cancelRequested[t]
  <2>1. t.background /\ (cancelRequested[t] \/ stage[t] = "persisting")
    BY <1>9 DEF IInv, RequestInv, AtWork, Working, Decided
  <2>2. CASE stage[t] = "persisting" /\ ~cancelRequested[t]
    BY <1>1, <1>2, <1>3, <1>9, <2>2 DEF IInv, QueueInv, DeleteBehindPut
  <2> QED BY <2>1, <2>2
<1>t. UNCHANGED <<stage, phase, status, items, cancelRequested, wire>>
  BY <1>1 DEF turnVars
<1> HIDE DEF h
<1>10. TypeOK'
  <2>1. record' \in [Ids -> Records \cup {NoRecord}] /\ log' \in [Ids -> Turns \cup {NoTurn}]
    BY <1>5 DEF IInv, TypeOK
  <2> QED BY <1>1, <1>t, <1>2, <1>6, <1>8, <2>1 DEF IInv, TypeOK
<1>11. TurnInv'
  BY <1>t DEF IInv, TurnInv, Decided
<1>12. QueueInv'
  <2>1. \A a \in Accesses : Waits(a) /\ ~SameRequest(a, h) => Waits(a)'
    BY <1>1, <1>t, <1>3, <1>6, AccessFields DEF Waits, SameRequest
  <2>2. \A u \in Turns : ~OwnPut(h, u)
    BY <1>1 DEF OwnPut
  <2> QED BY <1>1, <1>t, <1>6, <2>1, <2>2, SettleKeepsQueue DEF IInv, h
<1>13. Registry'
  <2>1. \A u \in Turns : Holds(u)' => Holds(u)
    BY <1>7, Requests DEF Holds
  <2>2. \A u \in Turns : Holds(u) /\ ~Holds(u)' => delete[d].run = u
    BY <1>7, Requests DEF Holds
  <2>3. ClaimsAreLive'
    BY <1>7, <1>t DEF IInv, ClaimsAreLive
  <2>4. HeldAtWork'
    BY <1>9, <1>t, <2>2 DEF IInv, HeldAtWork, AtWork, Working
  <2>5. DrainInv'
    BY <1>1, <1>t, <2>1 DEF IInv, DrainInv, Settled
  <2> QED BY <2>3, <2>4, <2>5 DEF Registry
<1>14. RequestInv'
  <2>1. \A u \in Turns : Decided(u) => Decided(u)'
    BY <1>t DEF Decided
  <2> QED BY <1>1, <1>t, <1>6, <2>1, RequestsKept DEF IInv
<1>15. FiledInv'
  <2>1. VerdictsStay
    BY <1>t DEF VerdictsStay, Verdict, Decided
  <2>2. \A j \in Ids : record'[j] \in {record[j], NoRecord}
    BY <1>5 DEF IInv, TypeOK
  <2> QED BY <1>1, <2>1, <2>2, SettleKeepsFiled DEF IInv
<1>16. NoOrphanLog'
  BY <1>5 DEF IInv, TypeOK, NoOrphanLog
<1> QED BY <1>10, <1>11, <1>12, <1>13, <1>14, <1>15, <1>16 DEF IInv, Registry

-----------------------------------------------------------------------------
(* The routes.                                                             *)

(* The run an address finds.                                               *)
LEMMA FoundRun ==
  ASSUME TypeOK, ClaimsAreLive, NEW a, a.server \in Servers, a.id \in Ids,
         RunFor(a) # NoTurn
  PROVE  /\ RunFor(a) \in Turns /\ HasRun(RunFor(a))
         /\ RunFor(a).id = a.id /\ RunFor(a) = claims[a.server][a.id]
<1>1. RunFor(a) = claims[a.server][a.id] /\ HasRun(RunFor(a))
  BY DEF RunFor
<1>2. claims[a.server][a.id] \in Turns
  BY <1>1 DEF TypeOK
<1> QED BY <1>1, <1>2 DEF ClaimsAreLive

(* A DELETE joins the queue of its id, behind the puts of the run it       *)
(* found.                                                                  *)
LEMMA DeleteArrivesInv == ASSUME IInv, NEW d \in Deletes, DeleteArrives(d) PROVE IInv'
<1>1. /\ delete[d].state = "idle"
      /\ UNCHANGED <<serverVars, turnVars, record, log, cancel>>
  BY DEF DeleteArrives
<1>t. UNCHANGED <<draining, drainWait, drained, claims, stage, phase, status, items, cancelRequested, wire>>
  BY <1>1 DEF serverVars, turnVars
<1>2. TurnInv' /\ Registry' /\ VerdictsStay /\ \A u \in Turns : Decided(u) => Decided(u)'
  <2>1. \A v \in Turns : (Live(v) => Live(v)') /\ (Settled(v) => Settled(v)') /\ (AtWork(v)' => AtWork(v))
    BY <1>t DEF Live, Settled, AtWork, Working
  <2>2. Registry'
    BY <1>1, <1>t, <2>1, QuietKeepsRegistry DEF IInv, Registry
  <2> QED BY <1>t, <2>2 DEF IInv, TurnInv, Decided, VerdictsStay, Verdict
<1>3. delete[d] \in [state : {"idle", "deleting", "deleted", "notfound", "failed", "refused"},
                     run : Turns \cup {NoTurn}]
  BY DEF IInv, TypeOK
<1>4. CASE ~draining[d.server] /\ Deletable(RunFor(d))
  <2> DEFINE run == RunFor(d)
             a   == Remove(d)
  <2>1. delete' = [delete EXCEPT ![d] = [state |-> "deleting", run |-> run]] /\ Issue(d.id, a)
    BY <1>4 DEF DeleteArrives
  <2>2. run # NoTurn => /\ run \in Turns /\ run.background /\ run.id = d.id
                        /\ cancelRequested[run] \/ Decided(run)
    <3> SUFFICES ASSUME run # NoTurn
                 PROVE  /\ run \in Turns /\ run.background /\ run.id = d.id
                        /\ cancelRequested[run] \/ Decided(run)
      OBVIOUS
    <3>1. run \in Turns /\ HasRun(run) /\ run.id = d.id
      BY FoundRun, Requests DEF IInv
    <3>2. RunStatus(run) \in TerminalStatuses
      BY <1>4 DEF Deletable
    <3> HIDE DEF run
    <3>3. cancelRequested[run] \/ Decided(run)
      BY <3>1, <3>2 DEF RunStatus, IInv, TurnInv
    <3> QED BY <3>1, <3>3 DEF HasRun
  <2>3. /\ a \in Accesses /\ IdOf(a) = d.id /\ d.id \in Ids /\ a.op = "delete" /\ a.by = d
    BY Requests DEF Remove, Accesses, IdOf
  <2> HIDE DEF run, a
  <2>4. run \in Turns \cup {NoTurn}
    BY <2>2
  <2>5. /\ delete'[d].state = "deleting" /\ delete'[d].run = run
        /\ \A e \in Deletes : e # d => delete'[e] = delete[e]
        /\ delete' \in [Deletes -> [state : {"idle", "deleting", "deleted", "notfound", "failed", "refused"},
                                    run : Turns \cup {NoTurn}]]
    BY <2>1, <2>4 DEF IInv, TypeOK
  <2>6. TypeOK'
    <3>1. queue' \in [Ids -> Seq(Accesses)]
      BY <2>1, <2>3, IssueEntries DEF IInv
    <3> QED BY <1>1, <1>t, <2>5, <3>1 DEF IInv, TypeOK
  <2>7. QueueInv'
    <3>1. Waits(a)'
      BY <2>3, <2>5 DEF Waits
    <3>2. \A b \in Accesses : SameRequest(a, b) => ~Waits(b)
      BY <1>1, <2>3 DEF SameRequest, Waits
    <3>3. \A b \in Accesses : Waits(b) => Waits(b)'
      BY <1>1, <1>t, <2>5, AccessFields DEF Waits
    <3>4. \A u \in Turns : ~OwnPut(a, u)
      BY <2>3 DEF OwnPut
    <3>5. \A u \in Turns : delete'[a.by].run = u => u.id = IdOf(a)
      BY <2>2, <2>3, <2>5, Requests
    <3>6. Issue(IdOf(a), a)
      BY <2>1, <2>3
    <3> QED BY <1>t, <2>3, <2>5, <3>1, <3>2, <3>3, <3>4, <3>5, <3>6, IssueKeepsQueue DEF IInv
  <2>8. RequestInv'
    <3>1. \A u \in Turns : run = u => u.background /\ u.id = d.id /\ (cancelRequested[u] \/ Decided(u))
      BY <2>2, Requests
    <3> QED BY <1>1, <1>t, <1>2, <2>5, <3>1 DEF IInv, RequestInv
  <2>9. FiledInv'
    BY <1>1, <1>2, <2>1, <2>3, IssueKeepsFiled DEF IInv
  <2> QED BY <1>1, <1>2, <2>6, <2>7, <2>8, <2>9 DEF IInv, Registry, NoOrphanLog
<1>5. CASE ~(~draining[d.server] /\ Deletable(RunFor(d)))
  <2>1. delete' = [delete EXCEPT ![d].state = "refused"] /\ UNCHANGED queue
    BY <1>5 DEF DeleteArrives, DeleteAnswers
  <2>2. /\ delete'[d].state = "refused"
        /\ \A e \in Deletes : delete'[e].run = delete[e].run
        /\ \A e \in Deletes : e # d => delete'[e] = delete[e]
        /\ delete' \in [Deletes -> [state : {"idle", "deleting", "deleted", "notfound", "failed", "refused"},
                                    run : Turns \cup {NoTurn}]]
    BY <1>3, <2>1 DEF IInv, TypeOK
  <2>3. TypeOK'
    BY <1>1, <1>t, <2>1, <2>2 DEF IInv, TypeOK
  <2>4. QueueInv'
    <3>1. \A b \in Accesses : Waits(b) => Waits(b)'
      BY <1>1, <1>t, <2>2, AccessFields DEF Waits
    <3> QED BY <1>t, <2>1, <2>2, <3>1, QuietKeepsQueue DEF IInv
  <2>5. RequestInv'
    BY <1>1, <1>t, <1>2, <2>2, RequestsKept DEF IInv
  <2>6. FiledInv'
    BY <1>1, <1>2, <2>1, FiledKept DEF IInv
  <2> QED BY <1>1, <1>2, <2>3, <2>4, <2>5, <2>6 DEF IInv, Registry, NoOrphanLog
<1> QED BY <1>4, <1>5

(* A cancel is accepted, answered at once or refused.                      *)
LEMMA CancelArrivesInv == ASSUME IInv, NEW c \in Cancels, CancelArrives(c) PROVE IInv'
<1> DEFINE run == RunFor(c)
<1>1. /\ cancel[c].state = "idle"
      /\ UNCHANGED <<serverVars, stage, phase, status, items, wire, storeVars, delete>>
  BY DEF CancelArrives
<1>2. run # NoTurn => run \in Turns /\ HasRun(run)
  BY FoundRun, Requests DEF IInv
<1>3. /\ \A u \in Turns : (Live(u) => Live(u)') /\ (Settled(u) => Settled(u)') /\ (AtWork(u)' => AtWork(u))
      /\ \A u \in Turns : Decided(u) => Decided(u)'
  BY <1>1 DEF Live, Settled, AtWork, Working, Decided
<1> DEFINE CancelType == [Cancels -> [state : {"idle", "grace", "persisting", "answered", "repeated", "refused"},
                                      turn : Turns \cup {NoTurn}]]
<1>4. ASSUME NEW st \in {"grace", "repeated", "refused"}, NEW t \in Turns \cup {NoTurn},
             CancelAnswers(c, st, t),
             \A u \in Turns : cancelRequested[u] => cancelRequested'[u],
             cancelRequested' \in [Turns -> BOOLEAN],
             TurnInv', VerdictsStay,
             st # "refused" => t \in Turns /\ cancelRequested'[t]
      PROVE  IInv'
  <2>1. /\ cancel' \in CancelType
        /\ cancel'[c].state = st /\ cancel'[c].turn = t
        /\ \A e \in Cancels : e # c => cancel'[e] = cancel[e]
    BY <1>4 DEF CancelAnswers, IInv, TypeOK
  <2>2. TypeOK'
    BY <1>1, <1>4, <2>1 DEF IInv, TypeOK, serverVars, storeVars
  <2>3. QueueInv'
    <3>1. \A b \in Accesses : Waits(b) => Waits(b)'
      BY <1>1, <2>1, AccessFields DEF Waits
    <3> QED BY <1>1, <1>4, <3>1, QuietKeepsQueue DEF IInv, storeVars
  <2>4. Registry'
    <3>1. \A u \in Turns : (~cancelRequested[u] /\ AtWork(u))' => ~cancelRequested[u] /\ AtWork(u)
      BY <1>3, <1>4
    <3> QED BY <1>1, <1>3, <3>1, QuietKeepsRegistry DEF IInv, Registry
  <2>5. RequestInv'
    BY <1>1, <1>3, <1>4, <2>1 DEF IInv, RequestInv
  <2>6. FiledInv'
    BY <1>1, <1>4, FiledKept DEF IInv, storeVars
  <2> QED BY <1>1, <1>4, <2>2, <2>3, <2>4, <2>5, <2>6 DEF IInv, Registry, NoOrphanLog, storeVars
<1>5. ASSUME UNCHANGED cancelRequested
      PROVE  /\ \A u \in Turns : cancelRequested[u] => cancelRequested'[u]
             /\ cancelRequested' \in [Turns -> BOOLEAN]
             /\ TurnInv' /\ VerdictsStay
  BY <1>1, <1>5 DEF IInv, TypeOK, TurnInv, VerdictsStay, Verdict, Decided
<1>6. CASE /\ run # NoTurn /\ RunStatus(run) \notin TerminalStatuses
           /\ cancelRequested' = [cancelRequested EXCEPT ![run] = TRUE]
           /\ CancelAnswers(c, "grace", run)
  <2>1. PICK t \in Turns : t = run
    BY <1>2, <1>6
  <2>2. /\ t.background /\ stage[t] = "running" /\ ~cancelRequested[t]
        /\ status[t] \in {"queued", "in_progress"}
    <3> HIDE DEF run
    <3>1. status[t] \notin TerminalStatuses /\ ~cancelRequested[t]
      BY <1>6, <2>1 DEF RunStatus, TerminalStatuses
    <3>2. HasRun(t) /\ ~Decided(t)
      BY <1>2, <1>6, <2>1, <3>1 DEF IInv, TurnInv
    <3> QED BY <3>1, <3>2 DEF HasRun, Decided, IInv, TypeOK, Statuses
  <2> HIDE DEF run
  <2>3. /\ cancelRequested'[t] = TRUE
        /\ \A u \in Turns : u # t => cancelRequested'[u] = cancelRequested[u]
        /\ cancelRequested' \in [Turns -> BOOLEAN]
    BY <1>6, <2>1 DEF IInv, TypeOK
  <2>4. TurnInv'
    BY <1>1, <2>2, <2>3 DEF IInv, TurnInv, Decided
  <2>5. VerdictsStay
    BY <1>1, <2>2, <2>3 DEF VerdictsStay, Verdict, Decided
  <2>6. \A u \in Turns : cancelRequested[u] => cancelRequested'[u]
    BY <2>3
  <2> QED BY <1>4, <1>6, <2>1, <2>3, <2>4, <2>5, <2>6
<1>7. CASE /\ run # NoTurn /\ RunStatus(run) = "cancelled"
           /\ CancelAnswers(c, "repeated", run)
           /\ UNCHANGED cancelRequested
  <2>1. PICK t \in Turns : t = run
    BY <1>2, <1>7
  <2> HIDE DEF run
  <2>2. cancelRequested[t]
    BY <1>7, <2>1 DEF RunStatus, IInv, TurnInv
  <2> QED BY <1>4, <1>5, <1>7, <2>1, <2>2
<1>8. CASE /\ run = NoTurn /\ GetStatus(c) = "cancelled"
           /\ CancelAnswers(c, "repeated", record[c.id].turn)
           /\ UNCHANGED cancelRequested
  <2>1. Stored(c.id, c.owner) /\ record[c.id].status = "cancelled"
    BY <1>8 DEF GetStatus
  <2>2. c.id \in Ids /\ record[c.id] \in Records /\ Agrees(record[c.id])
    BY <2>1, Requests DEF Stored, IInv, TypeOK, FiledInv
  <2>3. PICK t \in Turns : t = record[c.id].turn
    BY <2>2 DEF Records
  <2>4. Verdict(t) = "cancelled"
    BY <2>1, <2>2, <2>3 DEF Agrees
  <2>5. cancelRequested[t]
    BY <2>4 DEF Verdict, IInv, TurnInv
  <2> QED BY <1>4, <1>5, <1>8, <2>3, <2>5
<1>9. CASE CancelAnswers(c, "refused", NoTurn) /\ UNCHANGED cancelRequested
  BY <1>4, <1>5, <1>9
<1> QED BY <1>6, <1>7, <1>8, <1>9 DEF CancelArrives

(* Cancellation wins when the grace is over.                               *)
LEMMA GraceEndsInv == ASSUME IInv, NEW c \in Cancels, GraceEnds(c) PROVE IInv'
<1>1. /\ cancel[c].state = "grace"
      /\ cancel[c].turn \in Turns /\ cancelRequested[cancel[c].turn]
      /\ UNCHANGED <<serverVars, stage, phase, cancelRequested, wire, record, log, delete>>
  BY DEF GraceEnds, GraceOver, IInv, RequestInv
<1>2. PICK t \in Turns : t = cancel[c].turn
  BY <1>1
<1>3. /\ status' = [status EXCEPT ![t] = "cancelled"] /\ items' = [items EXCEPT ![t] = 0]
  BY <1>2 DEF GraceEnds
<1>4. status'[t] = "cancelled" /\ \A u \in Turns : u # t => status'[u] = status[u]
  BY <1>3 DEF IInv, TypeOK
<1>5. /\ \A u \in Turns : (Live(u) => Live(u)') /\ (Settled(u) => Settled(u)') /\ (AtWork(u)' => AtWork(u))
      /\ \A u \in Turns : Decided(u) => Decided(u)'
  BY <1>1 DEF Live, Settled, AtWork, Working, Decided
<1>6. TurnInv'
  BY <1>1, <1>2, <1>4 DEF IInv, TurnInv, Decided, TerminalStatuses
<1>7. VerdictsStay
  BY <1>1, <1>2, <1>4 DEF VerdictsStay, Verdict, Decided
<1>8. Registry'
  BY <1>1, <1>5, QuietKeepsRegistry DEF IInv, Registry
<1>9. status' \in [Turns -> Statuses] /\ items' \in [Turns -> 0..MaxItems]
  BY <1>3, BoundsAssumption DEF IInv, TypeOK, Statuses, TerminalStatuses
<1>t. cancel[c] \in [state : {"idle", "grace", "persisting", "answered", "repeated", "refused"},
                     turn : Turns \cup {NoTurn}]
  BY DEF IInv, TypeOK
<1>10. ASSUME NEW st \in {"persisting", "answered"}, cancel' = [cancel EXCEPT ![c].state = st]
       PROVE  /\ cancel' \in [Cancels -> [state : {"idle", "grace", "persisting", "answered", "repeated", "refused"},
                                          turn : Turns \cup {NoTurn}]]
              /\ cancel'[c].state = st /\ cancel'[c].turn = t
              /\ \A e \in Cancels : e # c => cancel'[e] = cancel[e]
              /\ RequestInv'
  <2>1. /\ cancel' \in [Cancels -> [state : {"idle", "grace", "persisting", "answered", "repeated", "refused"},
                                    turn : Turns \cup {NoTurn}]]
        /\ cancel'[c].state = st /\ cancel'[c].turn = t
        /\ \A e \in Cancels : e # c => cancel'[e] = cancel[e]
    BY <1>2, <1>t, <1>10 DEF IInv, TypeOK
  <2>2. \A e \in Cancels : cancel'[e].turn = cancel[e].turn
                           /\ (cancel'[e].state \in Worked => cancel[e].state \in Worked)
    BY <1>1, <1>2, <2>1 DEF Worked
  <2> QED BY <1>1, <1>5, <2>1, <2>2, RequestsKept DEF IInv
<1>11. CASE Holds(t)
  <2> DEFINE a == Put(t, c, "cancelled", 0)
  <2>1. Issue(t.id, a) /\ cancel' = [cancel EXCEPT ![c].state = "persisting"]
    BY <1>2, <1>11 DEF GraceEnds
  <2>2. /\ a \in Accesses /\ IdOf(a) = t.id
        /\ a.op = "put" /\ a.by = c /\ a.turn = t /\ a.status = "cancelled" /\ a.items = 0
    <3>1. c \in Turns \cup Cancels /\ "cancelled" \in Statuses /\ 0 \in 0..MaxItems
      BY BoundsAssumption DEF Statuses, TerminalStatuses
    <3> HIDE DEF a
    <3> QED BY <3>1, PutIsAccess DEF a
  <2> HIDE DEF a
  <2>3. t.id \in Ids /\ c # t
    BY Requests
  <2>4. /\ cancel'[c].state = "persisting" /\ cancel'[c].turn = t
        /\ \A e \in Cancels : e # c => cancel'[e] = cancel[e]
        /\ RequestInv'
    BY <1>10, <2>1
  <2>5. TypeOK'
    <3>1. queue' \in [Ids -> Seq(Accesses)]
      BY <2>1, <2>2, <2>3, IssueEntries DEF IInv
    <3>2. cancel' \in [Cancels -> [state : {"idle", "grace", "persisting", "answered", "repeated", "refused"},
                                   turn : Turns \cup {NoTurn}]]
      BY <1>10, <2>1
    <3> QED BY <1>1, <1>9, <3>1, <3>2 DEF IInv, TypeOK, serverVars
  <2>6. QueueInv'
    <3>1. Waits(a)'
      BY <2>2, <2>3, <2>4 DEF Waits
    <3>2. \A b \in Accesses : SameRequest(a, b) => ~Waits(b)
      BY <1>1, <2>2, Requests, AccessFields DEF SameRequest, Waits
    <3>3. \A b \in Accesses : Waits(b) => Waits(b)'
      BY <1>1, <2>4, AccessFields DEF Waits
    <3>4. \A u \in Turns : ~OwnPut(a, u)
      BY <2>2, <2>3 DEF OwnPut
    <3>5. Issue(IdOf(a), a)
      BY <2>1, <2>2
    <3> QED BY <1>1, <2>2, <2>3, <3>1, <3>2, <3>3, <3>4, <3>5, IssueKeepsQueue DEF IInv
  <2>7. FiledInv'
    <3>1. Agrees(a)'
      BY <1>1, <1>2, <2>2 DEF Agrees, Verdict
    <3> QED BY <1>1, <1>7, <2>1, <2>2, <2>3, <3>1, IssueKeepsFiled DEF IInv
  <2> QED BY <1>1, <1>6, <1>8, <2>4, <2>5, <2>6, <2>7 DEF IInv, Registry, NoOrphanLog
<1>12. CASE ~Holds(t)
  <2>1. UNCHANGED queue /\ cancel' = [cancel EXCEPT ![c].state = "answered"]
    BY <1>2, <1>12 DEF GraceEnds
  <2>2. /\ cancel'[c].state = "answered" /\ cancel'[c].turn = t
        /\ \A e \in Cancels : e # c => cancel'[e] = cancel[e]
        /\ RequestInv'
    BY <1>10, <2>1
  <2>3. TypeOK'
    <3>1. cancel' \in [Cancels -> [state : {"idle", "grace", "persisting", "answered", "repeated", "refused"},
                                   turn : Turns \cup {NoTurn}]]
      BY <1>10, <2>1
    <3> QED BY <1>1, <1>9, <2>1, <3>1 DEF IInv, TypeOK, serverVars
  <2>4. QueueInv'
    <3>1. \A b \in Accesses : Waits(b) => Waits(b)'
      BY <1>1, <2>2, AccessFields DEF Waits
    <3> QED BY <1>1, <2>1, <3>1, QuietKeepsQueue DEF IInv
  <2>5. FiledInv'
    BY <1>1, <1>7, <2>1, FiledKept DEF IInv
  <2> QED BY <1>1, <1>6, <1>8, <2>2, <2>3, <2>4, <2>5 DEF IInv, Registry, NoOrphanLog
<1> QED BY <1>11, <1>12

(* drain() begins and ends.                                                *)
LEMMA DrainStepInv ==
  ASSUME IInv, NEW s \in Servers, Drain(s) \/ DrainEnds(s) PROVE IInv'
<1>1. UNCHANGED <<claims, turnVars, storeVars, cancel, delete>>
  BY DEF Drain, DrainEnds
<1>2. TypeOK'
  <2>1. CASE Drain(s)
    <3>1. ClaimedOn(s) \subseteq Turns
      BY DEF ClaimedOn, IInv, TypeOK
    <3> QED BY <1>1, <2>1, <3>1 DEF Drain, IInv, TypeOK, turnVars, storeVars
  <2>2. CASE DrainEnds(s)
    BY <1>1, <2>2 DEF DrainEnds, IInv, TypeOK, turnVars, storeVars
  <2> QED BY <2>1, <2>2
<1>3. DrainInv'
  <2>1. CASE Drain(s)
    <3>1. \A t \in Turns : t.server = s /\ Holds(t) => t \in ClaimedOn(s)
      BY Requests DEF ClaimedOn, Holds
    <3>2. ~drained[s]
      BY <2>1 DEF Drain, IInv, DrainInv
    <3> QED BY <1>1, <2>1, <3>1, <3>2 DEF Drain, IInv, TypeOK, DrainInv, Holds, Settled, turnVars
  <2>2. CASE DrainEnds(s)
    BY <1>1, <2>2 DEF DrainEnds, IInv, TypeOK, DrainInv, Holds, Settled, turnVars
  <2> QED BY <2>1, <2>2
<1>4. ClaimsAreLive' /\ HeldAtWork' /\ TurnInv' /\ RequestInv' /\ NoOrphanLog'
  BY <1>1 DEF IInv, ClaimsAreLive, HeldAtWork, AtWork, Working, Holds, TurnInv, Decided,
              RequestInv, NoOrphanLog, turnVars, storeVars
<1>5. QueueInv'
  <2>1. \A b \in Accesses : Waits(b) => Waits(b)'
    BY <1>1 DEF Waits, turnVars
  <2> QED BY <1>1, <2>1, QuietKeepsQueue DEF IInv, turnVars, storeVars
<1>6. FiledInv'
  <2>1. VerdictsStay
    BY <1>1 DEF VerdictsStay, Verdict, Decided, turnVars
  <2> QED BY <1>1, <2>1, FiledKept DEF IInv, storeVars
<1> QED BY <1>2, <1>3, <1>4, <1>5, <1>6 DEF IInv

-----------------------------------------------------------------------------
(* Every step keeps the invariant.                                         *)
LEMMA StepInv == IInv /\ [Next]_vars => IInv'
<1> SUFFICES ASSUME IInv, [Next]_vars PROVE IInv'
  OBVIOUS
<1>1. ASSUME NEW t \in Turns, TurnStep(t) PROVE IInv'
  BY <1>1, ReceiveInv, ClaimInv, StartInv, SetupFailsInv, EmitPrefixInv, EmitItemInv,
     HandlerTerminatesInv, HandlerThrowsEarlyInv, RunEndsInv, CollectEndsInv DEF TurnStep
<1>2. ASSUME NEW i \in Ids, StoreStep(i) PROVE IInv'
  BY <1>2, ApplyPutInv, RejectPutInv, ApplyPutEventsInv, ApplyDeleteInv DEF StoreStep
<1>3. ASSUME NEW d \in Deletes, DeleteArrives(d) PROVE IInv'
  BY <1>3, DeleteArrivesInv
<1>4. ASSUME NEW c \in Cancels, CancelArrives(c) \/ GraceEnds(c) PROVE IInv'
  BY <1>4, CancelArrivesInv, GraceEndsInv
<1>5. ASSUME NEW s \in Servers, Drain(s) \/ DrainEnds(s) PROVE IInv'
  BY <1>5, DrainStepInv
<1>6. CASE UNCHANGED vars
  <2>1. UNCHANGED <<serverVars, turnVars, storeVars, cancel, delete>>
    BY <1>6 DEF vars
  <2>2. TypeOK' /\ ClaimsAreLive' /\ HeldAtWork' /\ TurnInv' /\ RequestInv' /\ NoOrphanLog' /\ DrainInv'
    BY <2>1 DEF IInv, TypeOK, ClaimsAreLive, HeldAtWork, AtWork, Working, Holds, TurnInv, Decided,
                RequestInv, NoOrphanLog, DrainInv, Settled, serverVars, turnVars, storeVars
  <2>3. QueueInv'
    <3>1. \A b \in Accesses : Waits(b) => Waits(b)'
      BY <2>1 DEF Waits, turnVars
    <3> QED BY <2>1, <3>1, QuietKeepsQueue DEF IInv, turnVars, storeVars
  <2>4. FiledInv'
    <3>1. VerdictsStay
      BY <2>1 DEF VerdictsStay, Verdict, Decided, turnVars
    <3> QED BY <2>1, <3>1, FiledKept DEF IInv, storeVars
  <2> QED BY <2>2, <2>3, <2>4 DEF IInv
<1> QED BY <1>1, <1>2, <1>3, <1>4, <1>5, <1>6 DEF Next, Quiescent

-----------------------------------------------------------------------------
(* Theorems.                                                               *)

(* Registry, turns, requests and store stay in the inductive invariant,    *)
(* whatever handlers, clients, storage failures and shutdowns do.          *)
THEOREM Invariance == Spec => []IInv
  BY InitInv, StepInv, PTL DEF Spec

(* Types.                                                                  *)
THEOREM TypeCorrect == Spec => []TypeOK
<1>1. IInv => TypeOK
  BY DEF IInv
<1> QED BY <1>1, Invariance, PTL

(* An id that answers 409 is held by a turn that is still going on.        *)
THEOREM LiveClaims == Spec => []ClaimsAreLive
<1>1. IInv => ClaimsAreLive
  BY DEF IInv
<1> QED BY <1>1, Invariance, PTL

(* Two turns work on one id of one server only if one of them has been     *)
(* cancelled.                                                              *)
THEOREM OneTurnAtATime == Spec => []ExclusiveTurn
<1>1. IInv => ExclusiveTurn
  <2> SUFFICES ASSUME IInv, NEW t \in Turns, NEW u \in Turns, Working(t), Working(u),
                      t.server = u.server, t.id = u.id, ~cancelRequested[t], ~cancelRequested[u]
               PROVE  t = u
    BY DEF ExclusiveTurn
  <2>1. Holds(t) /\ Holds(u)
    BY DEF IInv, HeldAtWork, AtWork
  <2> QED BY <2>1 DEF Holds
<1> QED BY <1>1, Invariance, PTL

(* A drain() that has resolved left no turn at work behind, except a       *)
(* cancelled one.                                                          *)
THEOREM QuietOnceDrained == Spec => []DrainedIsQuiet
<1>1. IInv => DrainedIsQuiet
  <2> SUFFICES ASSUME IInv, NEW s \in Servers, drained[s], NEW t \in Turns,
                      t.server = s, Working(t), ~cancelRequested[t]
               PROVE  FALSE
    BY DEF DrainedIsQuiet
  <2>1. Holds(t)
    BY DEF IInv, HeldAtWork, AtWork
  <2>2. Settled(t)
    BY <2>1 DEF IInv, DrainInv
  <2> QED BY <2>2 DEF Settled, Working
<1> QED BY <1>1, Invariance, PTL

(* There is no replay log under an id without a response.                  *)
THEOREM NoLogIsOrphan == Spec => []NoOrphanLog
<1>1. IInv => NoOrphanLog
  BY DEF IInv
<1> QED BY <1>1, Invariance, PTL

(* What answers under the id for a turn whose cancel was answered says     *)
(* cancelled, and what is stored of it has no output.                      *)
THEOREM CancelHolds == Spec => []CancelIsFinal
<1>1. IInv => CancelIsFinal
  <2> SUFFICES ASSUME IInv, NEW c \in Cancels, Promised(c)
               PROVE  LET t == cancel[c].turn IN
                      /\ RunFor(c) = t => RunStatus(t) = "cancelled"
                      /\ record[c.id] # NoRecord /\ record[c.id].turn = t
                           => record[c.id].status = "cancelled" /\ record[c.id].items = 0
    BY DEF CancelIsFinal
  <2>1. cancel[c].turn \in Turns /\ cancelRequested[cancel[c].turn]
    BY DEF Promised, IInv, RequestInv
  <2>2. PICK t \in Turns : t = cancel[c].turn
    BY <2>1
  <2>3. RunStatus(t) = "cancelled"
    BY <2>1, <2>2 DEF RunStatus, IInv, TurnInv, TerminalStatuses, HandlerTerminals
  <2>4. record[c.id] # NoRecord /\ record[c.id].turn = t
          => record[c.id].status = "cancelled" /\ record[c.id].items = 0
    BY <2>1, <2>2, Requests DEF IInv, FiledInv, Agrees, Verdict
  <2> QED BY <2>2, <2>3, <2>4
<1> QED BY <1>1, Invariance, PTL

-----------------------------------------------------------------------------
(* What one step does to verdicts, answers and records.                    *)

SameVerdicts == \A t \in Turns : Verdict(t)' = Verdict(t)
SilentStep == SameVerdicts /\ UNCHANGED <<wire, record>>
DecideStep(t) ==
  /\ Verdict(t) = "none" /\ Verdict(t)' \in TerminalStatuses
  /\ \A u \in Turns : u # t => Verdict(u)' = Verdict(u)
  /\ UNCHANGED <<wire, record>>
TellStep(t) ==
  /\ SameVerdicts /\ Verdict(t) # "none" /\ wire[t] = "none"
  /\ \/ wire' = [wire EXCEPT ![t] = "unstored"]
     \/ wire' = [wire EXCEPT ![t] = Verdict(t)] /\ (t.store => Verdict(t) = "cancelled")
  /\ UNCHANGED record
FileStep(t, i) ==
  /\ SameVerdicts /\ Verdict(t) # "none" /\ t.id = i
  /\ \E r \in Records : /\ r.turn = t /\ r.status = Verdict(t)
                        /\ record' = [record EXCEPT ![i] = r]
  /\ \/ UNCHANGED wire
     \/ wire[t] = "none" /\ wire' = [wire EXCEPT ![t] = Verdict(t)]
  /\ Writable(i, t.owner)
ForgetStep(i) ==
  /\ SameVerdicts /\ UNCHANGED wire
  /\ record[i] # NoRecord /\ record' = [record EXCEPT ![i] = NoRecord]

ContractStep ==
  \/ SilentStep
  \/ \E t \in Turns : DecideStep(t) \/ TellStep(t)
  \/ \E i \in Ids : ForgetStep(i) \/ \E t \in Turns : FileStep(t, i)

(* A turn's own steps; its claim, its events and its end.                  *)
LEMMA TurnSteps == ASSUME IInv, NEW t \in Turns, TurnStep(t) PROVE ContractStep
<1> DEFINE Moves(to) == /\ stage' = [stage EXCEPT ![t] = to]
                        /\ Decided(t) <=> to \in {"persisting", "tail", "logging", "done"}
<1>a. ASSUME UNCHANGED <<cancelRequested, wire, record, status>>,
             \E to \in Stages : Moves(to)
      PROVE  ContractStep
  <2>1. PICK to \in Stages : Moves(to)
    BY <1>a
  <2>2. SameVerdicts
    BY <1>a, <2>1 DEF SameVerdicts, Verdict, Decided, IInv, TypeOK
  <2> QED BY <1>a, <2>2 DEF ContractStep, SilentStep
<1>b. ASSUME UNCHANGED <<cancelRequested, wire, record, stage>>, stage[t] = "running",
             \E st \in Statuses : status' = [status EXCEPT ![t] = st]
      PROVE  ContractStep
  <2>1. SameVerdicts
    BY <1>b DEF SameVerdicts, Verdict, Decided, IInv, TypeOK
  <2> QED BY <1>b, <2>1 DEF ContractStep, SilentStep
<1>1. CASE Receive(t)
  BY <1>a, <1>1 DEF Receive, Stages, Decided, storeVars
<1>2. CASE Claim(t)
  BY <1>a, <1>2 DEF Claim, Stages, Decided, storeVars
<1>3. CASE Start(t)
  BY <1>a, <1>3 DEF Start, Stages, Decided, storeVars
<1>4. CASE SetupFails(t) \/ (HandlerThrowsEarly(t) /\ ~t.background)
  BY <1>a, <1>4 DEF SetupFails, HandlerThrowsEarly, Refuse, Stages, Decided, storeVars
<1>5. CASE EmitPrefix(t)
  BY <1>b, <1>5 DEF EmitPrefix, storeVars, Statuses
<1>6. CASE EmitItem(t)
  <2>1. status' = [status EXCEPT ![t] = status[t]] /\ status[t] \in Statuses
    BY <1>6 DEF EmitItem, IInv, TypeOK
  <2> QED BY <1>b, <1>6, <2>1 DEF EmitItem, storeVars
<1>7. CASE \E o \in BOOLEAN : RunEnds(t, o)
  BY <1>a, <1>7 DEF RunEnds, Finish, Stages, Decided
<1>8. ASSUME NEW st \in HandlerTerminals, t.background, stage[t] = "running", DriveTerminal(t, st)
      PROVE  ContractStep
  <2>1. /\ status' = [status EXCEPT ![t] = TerminalOf(t, st)]
        /\ UNCHANGED <<cancelRequested, record>>
        /\ wire[t] = "none"
        /\ \E to \in {"persisting", "tail"} : stage' = [stage EXCEPT ![t] = to]
    BY <1>8 DEF DriveTerminal, IInv, TurnInv
  <2>2. CASE cancelRequested[t]
    <3>1. SameVerdicts /\ Verdict(t) = "cancelled" /\ TerminalOf(t, st) = "cancelled"
      BY <1>8, <2>1, <2>2 DEF SameVerdicts, Verdict, Decided, TerminalOf, IInv, TypeOK
    <3>2. UNCHANGED wire \/ wire' = [wire EXCEPT ![t] = "cancelled"]
      BY <1>8, <3>1 DEF DriveTerminal
    <3> QED BY <2>1, <3>1, <3>2 DEF ContractStep, SilentStep, TellStep
  <2>3. CASE ~cancelRequested[t]
    <3>1. Holds(t)
      BY <1>8, <2>3 DEF IInv, HeldAtWork, AtWork, Working
    <3>2. UNCHANGED wire
      BY <1>8, <3>1 DEF DriveTerminal
    <3>3. /\ Verdict(t) = "none" /\ Verdict(t)' = st
          /\ \A u \in Turns : u # t => Verdict(u)' = Verdict(u)
      BY <1>8, <2>1, <2>3 DEF Verdict, Decided, TerminalOf, IInv, TypeOK
    <3> QED BY <2>1, <3>2, <3>3 DEF ContractStep, DecideStep, TerminalStatuses
  <2> QED BY <2>2, <2>3
<1>9. ASSUME NEW st \in HandlerTerminals, ~t.background, stage[t] = "running", CollectTerminal(t, st)
      PROVE  ContractStep
  <2>1. /\ Verdict(t) = "none" /\ Verdict(t)' = st
        /\ \A u \in Turns : u # t => Verdict(u)' = Verdict(u)
    BY <1>9 DEF CollectTerminal, Verdict, Decided, IInv, TypeOK, TurnInv
  <2> QED BY <1>9, <2>1 DEF CollectTerminal, ContractStep, DecideStep, TerminalStatuses, storeVars
<1>10. ASSUME NEW st \in HandlerTerminals, HandlerTerminates(t, st) PROVE ContractStep
  <2>1. CASE t.background
    BY <1>8, <1>10, <2>1 DEF HandlerTerminates
  <2>2. CASE ~t.background
    BY <1>9, <1>10, <2>2 DEF HandlerTerminates
  <2> QED BY <2>1, <2>2
<1>11. CASE HandlerThrowsEarly(t) /\ t.background
  BY <1>8, <1>11 DEF HandlerThrowsEarly, HandlerTerminals
<1>12. CASE CollectEnds(t)
  <2>1. /\ stage[t] = "tail" /\ ~t.background /\ UNCHANGED <<status, cancelRequested, record>>
        /\ \E to \in {"persisting", "done"} : stage' = [stage EXCEPT ![t] = to]
    BY <1>12 DEF CollectEnds, Finish
  <2>2. SameVerdicts /\ Verdict(t) = status[t] /\ Verdict(t) # "none" /\ wire[t] = "none"
    <3>1. ~cancelRequested[t] /\ status[t] \in TerminalStatuses /\ wire[t] = "none"
      BY <2>1 DEF IInv, TurnInv, Decided
    <3>2. Verdict(t) = status[t] /\ Verdict(t) # "none"
      BY <3>1, <2>1 DEF Verdict, Decided, TerminalStatuses, HandlerTerminals
    <3>3. SameVerdicts
      BY <2>1 DEF SameVerdicts, Verdict, Decided, IInv, TypeOK
    <3> QED BY <3>1, <3>2, <3>3
  <2>3. Holds(t)
    BY <2>1 DEF IInv, HeldAtWork, AtWork, TurnInv
  <2>4. UNCHANGED wire \/ (~t.store /\ wire' = [wire EXCEPT ![t] = status[t]])
    BY <1>12, <2>3 DEF CollectEnds
  <2> QED BY <2>1, <2>2, <2>4 DEF ContractStep, SilentStep, TellStep
<1> QED BY <1>1, <1>2, <1>3, <1>4, <1>5, <1>6, <1>7, <1>10, <1>11, <1>12 DEF TurnStep

(* The store takes a turn in, refuses it, or forgets it.                   *)
LEMMA StoreSteps == ASSUME IInv, NEW i \in Ids, StoreStep(i) PROVE ContractStep
<1> DEFINE h == Head(queue[i])
<1>1. /\ queue[i] # <<>> /\ Settle(i)
      /\ UNCHANGED <<status, cancelRequested>>
  BY DEF StoreStep, ApplyPut, RejectPut, ApplyPutEvents, ApplyDelete, Await, turnVars
<1>2. h \in Accesses /\ h = queue[i][1] /\ 1 \in 1..Len(queue[i])
  BY <1>1, SettleEntries DEF IInv
<1>3. Waits(h) /\ IdOf(h) = i /\ (h.op = "put" => Agrees(h))
  BY <1>2 DEF IInv, QueueInv, QueueWaits, FiledInv
<1>4. ASSUME h.op = "put", NEW outcome, PutSettles(h, outcome)
      PROVE  /\ SameVerdicts /\ h.turn \in Turns /\ h.turn.id = i
             /\ Verdict(h.turn) = h.status /\ h.status \in Statuses
             /\ \/ UNCHANGED wire
                \/ wire[h.turn] = "none" /\ wire' = [wire EXCEPT ![h.turn] = outcome]
  <2>1. h.turn \in Turns /\ h.turn.id = i /\ Verdict(h.turn) = h.status /\ h.status \in Statuses
    BY <1>2, <1>3, <1>4, AccessFields DEF IdOf, Agrees
  <2>2. PICK t \in Turns : t = h.turn
    BY <2>1
  <2>3. CASE h.by = t
    <3>1. /\ stage[t] = "persisting"
          /\ \E to \in {"tail", "done"} : stage' = [stage EXCEPT ![t] = to]
          /\ wire' = [wire EXCEPT ![t] = outcome]
      BY <1>3, <1>4, <2>2, <2>3, Requests DEF Waits, PutSettles, Finish
    <3>2. SameVerdicts
      BY <1>1, <3>1 DEF SameVerdicts, Verdict, Decided, IInv, TypeOK
    <3>3. wire[t] = "none"
      BY <3>1 DEF IInv, TurnInv
    <3> QED BY <2>1, <2>2, <3>1, <3>2, <3>3
  <2>4. CASE h.by # t
    <3>1. UNCHANGED <<wire, stage>>
      BY <1>4, <2>2, <2>4 DEF PutSettles
    <3>2. SameVerdicts
      BY <1>1, <3>1 DEF SameVerdicts, Verdict, Decided
    <3> QED BY <2>1, <3>1, <3>2
  <2> QED BY <2>3, <2>4
<1>5. CASE ApplyPut(i)
  <2>1. /\ h.op = "put" /\ Writable(i, h.turn.owner)
        /\ record' = [record EXCEPT ![i] = [turn |-> h.turn, status |-> h.status, items |-> h.items]]
        /\ PutSettles(h, h.status)
    BY <1>5 DEF ApplyPut, Await
  <2>2. PICK t \in Turns : t = h.turn
    BY <1>4, <2>1
  <2>3. PICK r \in Records : r = [turn |-> t, status |-> h.status, items |-> h.items]
    BY <1>2, <2>1, <2>2, AccessFields DEF Records
  <2>4. /\ SameVerdicts /\ t.id = i /\ Verdict(t) = h.status /\ h.status # "none"
        /\ \/ UNCHANGED wire
           \/ wire[t] = "none" /\ wire' = [wire EXCEPT ![t] = h.status]
    BY <1>4, <2>1, <2>2 DEF Statuses, TerminalStatuses, HandlerTerminals
  <2>5. r.turn = t /\ r.status = Verdict(t) /\ record' = [record EXCEPT ![i] = r]
    BY <2>1, <2>2, <2>3, <2>4
  <2>6. FileStep(t, i)
    <3> HIDE DEF h
    <3> QED BY <2>1, <2>2, <2>4, <2>5 DEF FileStep
  <2> QED BY <2>6 DEF ContractStep
<1>6. CASE RejectPut(i)
  <2>1. h.op = "put" /\ PutSettles(h, "unstored") /\ UNCHANGED record
    BY <1>6 DEF RejectPut, Await
  <2>2. PICK t \in Turns : t = h.turn
    BY <1>4, <2>1
  <2>3. /\ SameVerdicts /\ Verdict(t) # "none"
        /\ \/ UNCHANGED wire
           \/ wire[t] = "none" /\ wire' = [wire EXCEPT ![t] = "unstored"]
    BY <1>4, <2>1, <2>2 DEF Statuses, TerminalStatuses, HandlerTerminals
  <2>4. SilentStep \/ TellStep(t)
    <3> HIDE DEF h
    <3> QED BY <2>1, <2>3 DEF SilentStep, TellStep
  <2> QED BY <2>4 DEF ContractStep
<1>7. CASE ApplyPutEvents(i)
  <2>1. h.op = "putEvents" /\ Finish(h.turn) /\ UNCHANGED <<wire, record>>
    BY <1>7 DEF ApplyPutEvents, Await
  <2>2. PICK t \in Turns : t = h.turn
    BY <1>2, <2>1, AccessFields
  <2>3. stage[t] = "logging" /\ stage' = [stage EXCEPT ![t] = "done"]
    BY <1>3, <2>1, <2>2 DEF Waits, Finish
  <2>4. SameVerdicts
    BY <1>1, <2>3 DEF SameVerdicts, Verdict, Decided, IInv, TypeOK
  <2> QED BY <2>1, <2>4 DEF ContractStep, SilentStep
<1>8. CASE ApplyDelete(i)
  <2>1. /\ UNCHANGED <<wire, stage>>
        /\ \/ UNCHANGED record
           \/ record[i] # NoRecord /\ record' = [record EXCEPT ![i] = NoRecord]
    BY <1>8 DEF ApplyDelete, Stored, turnVars
  <2>2. SameVerdicts
    BY <1>1, <2>1 DEF SameVerdicts, Verdict, Decided
  <2> QED BY <2>1, <2>2 DEF ContractStep, SilentStep, ForgetStep
<1> QED BY <1>5, <1>6, <1>7, <1>8 DEF StoreStep

(* The routes: only an accepted cancel decides anything.                   *)
LEMMA CancelSteps == ASSUME IInv, NEW c \in Cancels, CancelArrives(c) \/ GraceEnds(c) PROVE ContractStep
<1>1. CASE CancelArrives(c)
  <2> DEFINE run == RunFor(c)
  <2>1. UNCHANGED <<stage, status, wire, record>>
    BY <1>1 DEF CancelArrives, storeVars
  <2>2. CASE UNCHANGED cancelRequested
    BY <2>1, <2>2 DEF ContractStep, SilentStep, SameVerdicts, Verdict, Decided
  <2>3. CASE /\ run # NoTurn /\ RunStatus(run) \notin TerminalStatuses
             /\ cancelRequested' = [cancelRequested EXCEPT ![run] = TRUE]
    <3>1. PICK t \in Turns : t = run
      BY <2>3, FoundRun, Requests DEF IInv
    <3> HIDE DEF run
    <3>2. ~cancelRequested[t] /\ status[t] \notin TerminalStatuses
      BY <2>3, <3>1 DEF RunStatus, TerminalStatuses
    <3>3. ~Decided(t)
      BY <3>2 DEF IInv, TurnInv
    <3>4. Verdict(t) = "none" /\ Verdict(t)' = "cancelled"
      BY <2>1, <2>3, <3>1, <3>2, <3>3 DEF Verdict, IInv, TypeOK
    <3>5. \A u \in Turns : u # t => Verdict(u)' = Verdict(u)
      BY <2>1, <2>3, <3>1 DEF Verdict, Decided, IInv, TypeOK
    <3> QED BY <2>1, <3>4, <3>5 DEF ContractStep, DecideStep, TerminalStatuses
  <2> QED BY <1>1, <2>2, <2>3 DEF CancelArrives
<1>2. CASE GraceEnds(c)
  <2>1. /\ cancel[c].turn \in Turns /\ cancelRequested[cancel[c].turn]
        /\ status' = [status EXCEPT ![cancel[c].turn] = "cancelled"]
        /\ UNCHANGED <<stage, cancelRequested, wire, record>>
    BY <1>2 DEF GraceEnds, GraceOver, IInv, RequestInv
  <2>2. SameVerdicts
    BY <2>1 DEF SameVerdicts, Verdict, Decided, IInv, TypeOK
  <2> QED BY <2>1, <2>2 DEF ContractStep, SilentStep
<1> QED BY <1>1, <1>2

(* Every step of the server is a step of the contract.                     *)
LEMMA EveryStep == IInv /\ [Next]_vars => ContractStep
<1> SUFFICES ASSUME IInv, [Next]_vars PROVE ContractStep
  OBVIOUS
<1>1. ASSUME UNCHANGED <<turnVars, record>> PROVE ContractStep
  BY <1>1 DEF ContractStep, SilentStep, SameVerdicts, Verdict, Decided, turnVars
<1>2. ASSUME NEW d \in Deletes, DeleteArrives(d) PROVE ContractStep
  BY <1>1, <1>2 DEF DeleteArrives
<1>3. ASSUME NEW s \in Servers, Drain(s) \/ DrainEnds(s) PROVE ContractStep
  BY <1>1, <1>3 DEF Drain, DrainEnds, storeVars
<1>4. CASE UNCHANGED vars
  BY <1>1, <1>4 DEF vars, storeVars
<1> QED BY <1>2, <1>3, <1>4, TurnSteps, StoreSteps, CancelSteps DEF Next, Quiescent

(* A caller that is told completed, failed or incomplete for a stored turn *)
(* can read that turn back in the same moment.                             *)
THEOREM StoredBeforeTold == Spec => ToldIsStored
<1> DEFINE Told == \A t \in Turns :
             (t.store /\ wire[t] = "none" /\ wire'[t] \in HandlerTerminals)
             => (record'[t.id] # NoRecord /\ record'[t.id].turn = t)
<1>1. IInv /\ [Next]_vars => [Told]_vars
  <2> SUFFICES ASSUME IInv, ContractStep,
                      NEW t \in Turns, t.store, wire[t] = "none", wire'[t] \in HandlerTerminals
               PROVE  record'[t.id] # NoRecord /\ record'[t.id].turn = t
    BY EveryStep
  <2>1. ~UNCHANGED wire
    BY DEF HandlerTerminals
  <2>2. ASSUME NEW u \in Turns, TellStep(u) PROVE FALSE
    BY <2>2 DEF TellStep, HandlerTerminals, IInv, TypeOK
  <2>3. ASSUME NEW u \in Turns, NEW i \in Ids, FileStep(u, i)
        PROVE  record'[t.id] # NoRecord /\ record'[t.id].turn = t
    <3>1. u = t
      BY <2>1, <2>3 DEF FileStep, HandlerTerminals, IInv, TypeOK
    <3> QED BY <2>3, <3>1, NoRecordAssumption DEF FileStep, IInv, TypeOK
  <2> QED BY <2>1, <2>2, <2>3 DEF ContractStep, SilentStep, DecideStep, ForgetStep
<1>2. ToldIsStored <=> [][Told]_vars
  BY DEF ToldIsStored
<1> QED BY <1>1, <1>2, Invariance, PTL DEF Spec

(* A replay log is replaced only by the turn that is stored, and lost only *)
(* to a DELETE (the fence of putEvents and the cascade of delete).         *)
THEOREM KeptLog == Spec => LogIsKept
<1> DEFINE Kept == \A i \in Ids :
             (/\ record[i] # NoRecord /\ log[i] = record[i].turn
              /\ record'[i] # NoRecord /\ record'[i].turn = record[i].turn
              /\ ~\E d \in Deletes : d.id = i /\ DeleteWentThrough(d))
             => log'[i] = log[i]
<1>1. IInv /\ [Next]_vars => [Kept]_vars
  <2> SUFFICES ASSUME IInv, [Next]_vars, NEW i \in Ids,
                      record[i] # NoRecord, log[i] = record[i].turn, record'[i] # NoRecord,
                      ~\E d \in Deletes : d.id = i /\ DeleteWentThrough(d)
               PROVE  log'[i] = log[i]
    OBVIOUS
  <2>1. ASSUME NEW j \in Ids, ApplyPutEvents(j) PROVE log'[i] = log[i]
    <3>1. \/ log' = [log EXCEPT ![j] = IF Fenced(j, Head(queue[j]).turn) THEN Head(queue[j]).turn ELSE @]
          \/ UNCHANGED log
      BY <2>1 DEF ApplyPutEvents
    <3>2. log \in [Ids -> Turns \cup {NoTurn}]
      BY DEF IInv, TypeOK
    <3> QED BY <3>1, <3>2 DEF Fenced
  <2>2. ASSUME NEW j \in Ids, ApplyDelete(j) PROVE log'[i] = log[i]
    <3> DEFINE h == Head(queue[j])
    <3>1. queue[j] # <<>> /\ Settle(j) /\ h.op = "delete"
      BY <2>2 DEF ApplyDelete, Await
    <3>2. h \in Accesses /\ h = queue[j][1] /\ 1 \in 1..Len(queue[j])
      BY <3>1, SettleEntries DEF IInv
    <3>3. h.by \in Deletes /\ delete[h.by].state = "deleting" /\ h.by.id = j
      BY <3>1, <3>2, AccessFields DEF IInv, QueueInv, QueueWaits, Waits, IdOf
    <3>4. PICK d \in Deletes : d = h.by
      BY <3>3
    <3>5. ASSUME NEW answer \in {"deleted", "failed"}, DeleteAnswers(d, answer) PROVE i # j
      <4>1. delete'[d].state = answer
        <5>1. delete' = [delete EXCEPT ![d].state = answer]
          BY <3>5 DEF DeleteAnswers
        <5>2. /\ delete \in [Deletes -> [state : {"idle", "deleting", "deleted", "notfound", "failed", "refused"},
                                         run : Turns \cup {NoTurn}]]
              /\ delete[d] \in [state : {"idle", "deleting", "deleted", "notfound", "failed", "refused"},
                                run : Turns \cup {NoTurn}]
          BY DEF IInv, TypeOK
        <5> QED BY <5>1, <5>2
      <4> QED BY <3>3, <3>4, <4>1 DEF DeleteWentThrough
    <3> HIDE DEF h
    <3>6. UNCHANGED log \/ (i # j /\ log' = [log EXCEPT ![j] = NoTurn])
      BY <2>2, <3>4, <3>5 DEF ApplyDelete, h
    <3> QED BY <3>6 DEF IInv, TypeOK
  <2>3. ASSUME NEW j \in Ids, ApplyPut(j) \/ RejectPut(j) PROVE log'[i] = log[i]
    BY <2>3 DEF ApplyPut, RejectPut
  <2>4. ASSUME NEW t \in Turns, TurnStep(t) PROVE log'[i] = log[i]
    <3>1. UNCHANGED log
      BY <2>4 DEF TurnStep, Receive, Claim, Start, SetupFails, Refuse, EmitPrefix, EmitItem,
            HandlerTerminates, HandlerThrowsEarly, DriveTerminal, CollectTerminal, RunEnds,
            CollectEnds, storeVars
    <3> QED BY <3>1
  <2>5. ASSUME NEW c \in Cancels, CancelArrives(c) \/ GraceEnds(c) PROVE log'[i] = log[i]
    BY <2>5 DEF CancelArrives, GraceEnds, storeVars
  <2>6. ASSUME NEW d \in Deletes, DeleteArrives(d) PROVE log'[i] = log[i]
    BY <2>6 DEF DeleteArrives
  <2>7. ASSUME NEW s \in Servers, Drain(s) \/ DrainEnds(s) PROVE log'[i] = log[i]
    BY <2>7 DEF Drain, DrainEnds, storeVars
  <2>8. CASE UNCHANGED vars
    BY <2>8 DEF vars, storeVars
  <2> QED BY <2>1, <2>2, <2>3, <2>4, <2>5, <2>6, <2>7, <2>8 DEF Next, StoreStep, Quiescent
<1>2. LogIsKept <=> [][Kept]_vars
  BY DEF LogIsKept
<1> QED BY <1>1, <1>2, Invariance, PTL DEF Spec

(* Whatever the routes, the handlers and the storage do to each other, the *)
(* server keeps the contract of ResponseContract: one verdict per turn,    *)
(* and nothing filed or told that differs from it.                         *)
THEOREM ServerKeepsContract == Spec => KeepsContract
<1> DEFINE verdict == [t \in Turns |-> Verdict(t)]
           Filing(r) == IF r = NoRecord THEN NoRecord ELSE [turn |-> r.turn, verdict |-> r.status]
           filed == [i \in Ids |-> Filing(record[i])]
<1>1. Init => Contract!Init
  <2> SUFFICES ASSUME Init PROVE Contract!Init
    OBVIOUS
  <2>1. ASSUME NEW t \in Turns PROVE Verdict(t) = "none"
    BY DEF Init, Verdict, Decided
  <2>2. verdict = [t \in Turns |-> "none"]
    BY <2>1
  <2>3. wire = [t \in Turns |-> "none"] /\ filed = [i \in Ids |-> NoRecord]
    BY DEF Init
  <2> QED BY <2>2, <2>3 DEF Contract!Init
<1>2. IInv /\ [Next]_vars => [Contract!Next]_(Contract!vars)
  <2> SUFFICES ASSUME IInv, ContractStep PROVE [Contract!Next]_(Contract!vars)
    BY EveryStep
  <2>1. wire \in [Turns -> {"none", "unstored"} \cup TerminalStatuses]
        /\ record \in [Ids -> Records \cup {NoRecord}]
    BY DEF IInv, TypeOK
  <2>2. SameVerdicts => verdict' = verdict
    BY DEF SameVerdicts
  <2>3. UNCHANGED record => filed' = filed
    OBVIOUS
  <2>4. CASE SilentStep
    BY <2>2, <2>3, <2>4 DEF SilentStep, Contract!vars
  <2>5. ASSUME NEW t \in Turns, DecideStep(t) PROVE Contract!Next
    <3>1. verdict[t] = "none" /\ Verdict(t)' \in TerminalStatuses
          /\ verdict' = [verdict EXCEPT ![t] = Verdict(t)']
      BY <2>5 DEF DecideStep
    <3>2. UNCHANGED <<wire, filed>>
      BY <2>3, <2>5 DEF DecideStep
    <3> HIDE DEF verdict, filed
    <3> QED BY <3>1, <3>2 DEF Contract!Next, Contract!Decide, verdict, filed
  <2>6. ASSUME NEW t \in Turns, TellStep(t) PROVE Contract!Next
    <3>1. verdict' = verdict /\ filed' = filed /\ verdict[t] # "none" /\ wire[t] = "none"
      BY <2>2, <2>3, <2>6 DEF TellStep
    <3>2. wire' \in {[wire EXCEPT ![t] = "unstored"], [wire EXCEPT ![t] = verdict[t]]}
      BY <2>6 DEF TellStep
    <3> QED BY <3>1, <3>2 DEF Contract!Next
  <2>7. ASSUME NEW t \in Turns, NEW i \in Ids, FileStep(t, i) PROVE Contract!Next
    <3>1. PICK r \in Records : /\ r.turn = t /\ r.status = Verdict(t)
                               /\ record' = [record EXCEPT ![i] = r]
      BY <2>7 DEF FileStep
    <3>2. r # NoRecord
      BY NoRecordAssumption
    <3>3. record'[i] = r /\ \A j \in Ids : j # i => record'[j] = record[j]
      BY <2>1, <3>1
    <3>4. Filing(r) = [turn |-> t, verdict |-> verdict[t]]
      BY <3>1, <3>2
    <3>5. filed' = [filed EXCEPT ![i] = [turn |-> t, verdict |-> verdict[t]]]
      BY <3>3, <3>4
    <3>6. verdict' = verdict /\ verdict[t] # "none"
      BY <2>2, <2>7 DEF FileStep
    <3>7. \/ UNCHANGED wire
          \/ wire[t] = "none" /\ wire' = [wire EXCEPT ![t] = verdict'[t]]
      BY <2>7, <3>6 DEF FileStep
    <3> QED BY <3>5, <3>6, <3>7 DEF Contract!Next, Contract!File, Contract!Tell
  <2>8. ASSUME NEW i \in Ids, ForgetStep(i) PROVE Contract!Next
    <3>1. verdict' = verdict /\ UNCHANGED wire
      BY <2>2, <2>8 DEF ForgetStep
    <3>2. record'[i] = NoRecord /\ \A j \in Ids : j # i => record'[j] = record[j]
      BY <2>1, <2>8 DEF ForgetStep
    <3>3. filed' = [filed EXCEPT ![i] = NoRecord]
      BY <3>2
    <3> QED BY <3>1, <3>3 DEF Contract!Next
  <2> QED BY <2>4, <2>5, <2>6, <2>7, <2>8 DEF ContractStep
<1> QED BY <1>1, <1>2, Invariance, PTL DEF Spec, KeepsContract, Contract!Spec
-----------------------------------------------------------------------------
(* A server that has the store to itself.                                  *)

AloneAtStore == \A r, s \in Servers : r = s

(* A background run that has its id and whose terminal state is decided.   *)
Keeper(t) == t.background /\ Holds(t)
Filed(t)  == stage[t] \in {"tail", "logging"}

(* From then on it can be read back, or its caller knows that it cannot.   *)
FiledIsReadable ==
  \A t \in Turns : Keeper(t) /\ Filed(t) => Stored(t.id, t.owner) \/ wire[t] = "unstored"

(* A DELETE of its owner that comes after its put had found it, so that    *)
(* the id is freed with the record.                                        *)
PutBefore(t, m) == stage[t] = "persisting" /\ \E n \in 1..(m - 1) : OwnPut(queue[t.id][n], t)
DeleteOf(t, m) == queue[t.id][m].op = "delete" /\ queue[t.id][m].by.owner = t.owner
DeleteFoundRun ==
  \A t \in Turns : Keeper(t) =>
    \A m \in 1..Len(queue[t.id]) :
      DeleteOf(t, m) /\ (Filed(t) \/ PutBefore(t, m)) => delete[queue[t.id][m].by].run = t

GapInv == FiledIsReadable /\ DeleteFoundRun

QuietRun(t) == Keeper(t) /\ stage'[t] = stage[t] /\ wire'[t] = wire[t]
DeletesKept == \A d \in Deletes : delete[d].state = "deleting" => delete'[d].run = delete[d].run

(* A DELETE in the queue of an id is under way.                             *)
LEMMA QueuedDelete ==
  ASSUME IInv, NEW i \in Ids, NEW m \in 1..Len(queue[i]), queue[i][m].op = "delete"
  PROVE  queue[i][m].by \in Deletes /\ delete[queue[i][m].by].state = "deleting"
  BY Entries, AccessFields DEF IInv, QueueInv, QueueWaits, Waits

(* A step that issues and settles nothing and files no run.                *)
LEMMA QuietKeepsGap ==
  ASSUME IInv, GapInv, UNCHANGED <<queue, record>>, DeletesKept,
         \A t \in Turns : Keeper(t)' /\ stage'[t] \in {"persisting", "tail", "logging"} => QuietRun(t)
  PROVE  GapInv'
<1>1. FiledIsReadable'
  <2> SUFFICES ASSUME NEW t \in Turns, Keeper(t)', Filed(t)'
               PROVE  Stored(t.id, t.owner)' \/ wire'[t] = "unstored"
    BY DEF FiledIsReadable
  <2>1. QuietRun(t) /\ Filed(t)
    BY DEF Filed, QuietRun
  <2> QED BY <2>1 DEF QuietRun, GapInv, FiledIsReadable, Stored
<1>2. DeleteFoundRun'
  <2> SUFFICES ASSUME NEW t \in Turns, Keeper(t)', NEW m \in 1..Len(queue[t.id]),
                      DeleteOf(t, m), Filed(t)' \/ PutBefore(t, m)'
               PROVE  delete'[queue[t.id][m].by].run = t
    BY DEF DeleteFoundRun, DeleteOf
  <2>1. stage'[t] \in {"persisting", "tail", "logging"}
    BY DEF Filed, PutBefore
  <2>2. QuietRun(t) /\ (Filed(t) \/ PutBefore(t, m))
    BY <2>1 DEF QuietRun, Filed, PutBefore, OwnPut
  <2>3. delete[queue[t.id][m].by].run = t
    BY <2>2 DEF QuietRun, GapInv, DeleteFoundRun
  <2>4. queue[t.id][m].by \in Deletes /\ delete[queue[t.id][m].by].state = "deleting"
    BY Requests, QueuedDelete DEF DeleteOf
  <2> QED BY <2>3, <2>4 DEF DeletesKept
<1> QED BY <1>1, <1>2 DEF GapInv

(* A step that issues an access: a run that begins to be persisted has its *)
(* put behind every DELETE, a DELETE that arrives has found the run.       *)
IssuingRun(t) ==
  /\ Keeper(t) /\ wire'[t] = wire[t]
  /\ \/ stage'[t] = stage[t]
     \/ stage'[t] = "logging" /\ stage[t] = "tail"
     \/ stage'[t] = "persisting" /\ stage[t] = "running"

LEMMA IssueKeepsGap ==
  ASSUME IInv, GapInv, NEW i \in Ids, NEW a \in Accesses, Issue(i, a), UNCHANGED record, DeletesKept,
         \A t \in Turns : Keeper(t)' /\ stage'[t] \in {"persisting", "tail", "logging"} => IssuingRun(t),
         \A t \in Turns : a.op = "delete" /\ t.id = i /\ a.by.owner = t.owner /\ Keeper(t)'
                          /\ stage'[t] \in {"persisting", "tail", "logging"}
                          => delete'[a.by].run = t
  PROVE  GapInv'
<1>1. FiledIsReadable'
  <2> SUFFICES ASSUME NEW t \in Turns, Keeper(t)', Filed(t)'
               PROVE  Stored(t.id, t.owner)' \/ wire'[t] = "unstored"
    BY DEF FiledIsReadable
  <2>1. IssuingRun(t) /\ Filed(t)
    BY DEF Filed, IssuingRun
  <2> QED BY <2>1 DEF IssuingRun, GapInv, FiledIsReadable, Stored
<1>2. DeleteFoundRun'
  <2> SUFFICES ASSUME NEW t \in Turns, Keeper(t)', NEW m \in 1..Len(queue'[t.id]),
                      DeleteOf(t, m)', Filed(t)' \/ PutBefore(t, m)'
               PROVE  delete'[queue'[t.id][m].by].run = t
    BY DEF DeleteFoundRun
  <2>0. t.id \in Ids /\ Len(queue[t.id]) \in Nat
    BY Requests, Entries DEF IInv
  <2>1. stage'[t] \in {"persisting", "tail", "logging"} /\ IssuingRun(t)
    BY DEF Filed, PutBefore
  <2>2. /\ queue'[t.id][m].op = "delete" /\ queue'[t.id][m].by.owner = t.owner
    BY DEF DeleteOf
  <2>3. /\ \A n \in 1..Len(queue[t.id]) : n \in 1..Len(queue'[t.id]) /\ queue'[t.id][n] = queue[t.id][n]
        /\ \/ t.id # i /\ queue'[t.id] = queue[t.id]
           \/ t.id = i /\ Len(queue'[t.id]) = Len(queue[t.id]) + 1 /\ queue'[t.id][Len(queue[t.id]) + 1] = a
    BY <2>0, IssueEntries DEF IInv
  <2>4. CASE m \in 1..Len(queue[t.id])
    <3>1. queue'[t.id][m] = queue[t.id][m] /\ DeleteOf(t, m)
      BY <2>2, <2>3, <2>4 DEF DeleteOf
    <3>2. Filed(t) \/ PutBefore(t, m)
      <4>1. CASE Filed(t)'
        BY <2>1, <4>1 DEF IssuingRun, Filed
      <4>2. CASE PutBefore(t, m)'
        <5>1. PICK n \in 1..(m - 1) : OwnPut(queue'[t.id][n], t)
          BY <4>2 DEF PutBefore, OwnPut
        <5>2. n \in 1..Len(queue[t.id])
          BY <2>0, <2>4, <5>1
        <5>3. OwnPut(queue[t.id][n], t)
          BY <2>3, <5>1, <5>2
        <5>4. stage[t] = "persisting"
          BY <2>0, <5>2, <5>3 DEF IInv, QueueInv, QueueWaits, Waits, OwnPut
        <5> QED BY <5>1, <5>3, <5>4 DEF PutBefore
      <4> QED BY <4>1, <4>2
    <3>3. delete[queue[t.id][m].by].run = t
      BY <2>1, <2>4, <3>1, <3>2 DEF IssuingRun, GapInv, DeleteFoundRun
    <3>4. queue[t.id][m].by \in Deletes /\ delete[queue[t.id][m].by].state = "deleting"
      BY <2>0, <2>4, <3>1, QueuedDelete DEF DeleteOf
    <3> QED BY <3>1, <3>3, <3>4 DEF DeletesKept
  <2>5. CASE m \notin 1..Len(queue[t.id])
    <3>1. t.id = i /\ queue'[t.id][m] = a
      BY <2>0, <2>3, <2>5
    <3> QED BY <2>1, <2>2, <3>1
  <2> QED BY <2>4, <2>5
<1> QED BY <1>1, <1>2 DEF GapInv

(* A step that applies the oldest access to an id: a run leaves its put    *)
(* when that is at the head, with its record or with no answer.            *)
SettlingRun(t, i) ==
  /\ Keeper(t)
  /\ \/ stage'[t] = stage[t]
     \/ stage'[t] = "tail" /\ stage[t] = "persisting" /\ t.id = i /\ OwnPut(Head(queue[i]), t)

LEMMA SettleKeepsFound ==
  ASSUME IInv, DeleteFoundRun, NEW i \in Ids, queue[i] # <<>>, Settle(i),
         \A d \in Deletes : delete'[d].run = delete[d].run,
         \A t \in Turns : Keeper(t)' /\ stage'[t] \in {"persisting", "tail", "logging"} => SettlingRun(t, i)
  PROVE  DeleteFoundRun'
<1> SUFFICES ASSUME NEW t \in Turns, Keeper(t)', NEW m \in 1..Len(queue'[t.id]),
                    DeleteOf(t, m)', Filed(t)' \/ PutBefore(t, m)'
             PROVE  delete'[queue'[t.id][m].by].run = t
  BY DEF DeleteFoundRun
<1>0. t.id \in Ids /\ Len(queue[t.id]) \in Nat
  BY Requests, Entries DEF IInv
<1>1. stage'[t] \in {"persisting", "tail", "logging"} /\ SettlingRun(t, i)
  BY DEF Filed, PutBefore
<1>2. queue'[t.id][m].op = "delete" /\ queue'[t.id][m].by.owner = t.owner
  BY DEF DeleteOf
<1>3. ASSUME NEW k \in 1..Len(queue[t.id]), queue'[t.id][m] = queue[t.id][k],
             Filed(t) \/ PutBefore(t, k)
      PROVE  delete'[queue'[t.id][m].by].run = t
  <2>1. DeleteOf(t, k)
    BY <1>2, <1>3 DEF DeleteOf
  <2>2. delete[queue[t.id][k].by].run = t
    BY <1>1, <1>3, <2>1 DEF SettlingRun, DeleteFoundRun
  <2>3. queue[t.id][k].by \in Deletes
    BY <1>0, <2>1, QueuedDelete DEF DeleteOf
  <2> QED BY <1>3, <2>2, <2>3
<1>4. CASE t.id = i
  <2>1. /\ m + 1 \in 1..Len(queue[t.id]) /\ queue'[t.id][m] = queue[t.id][m + 1] /\ m \in Nat /\ m >= 1
        /\ Len(queue'[t.id]) \in Nat /\ Len(queue'[t.id]) = Len(queue[t.id]) - 1
        /\ 1 \in 1..Len(queue[t.id]) /\ Head(queue[t.id]) = queue[t.id][1]
        /\ \A n \in 1..Len(queue'[t.id]) : n + 1 \in 1..Len(queue[t.id]) /\ queue'[t.id][n] = queue[t.id][n + 1]
    BY <1>0, <1>4, SettleEntries DEF IInv
  <2>2. CASE stage'[t] = stage[t]
    <3>1. CASE Filed(t)'
      BY <1>3, <2>1, <2>2, <3>1 DEF Filed
    <3>2. CASE PutBefore(t, m)'
      <4>1. PICK n \in 1..(m - 1) : OwnPut(queue'[t.id][n], t)
        BY <3>2 DEF PutBefore, OwnPut
      <4>2. n + 1 \in 1..((m + 1) - 1) /\ OwnPut(queue[t.id][n + 1], t)
        BY <2>1, <4>1
      <4>3. PutBefore(t, m + 1)
        BY <2>2, <3>2, <4>2 DEF PutBefore
      <4> QED BY <1>3, <2>1, <4>3
    <3> QED BY <3>1, <3>2
  <2>3. CASE stage[t] = "persisting" /\ OwnPut(Head(queue[t.id]), t)
    <3>1. 1 \in 1..((m + 1) - 1) /\ OwnPut(queue[t.id][1], t)
      BY <2>1, <2>3
    <3>2. PutBefore(t, m + 1)
      BY <2>3, <3>1 DEF PutBefore
    <3> QED BY <1>3, <2>1, <3>2
  <2> QED BY <1>1, <1>4, <2>2, <2>3 DEF SettlingRun
<1>5. CASE t.id # i
  <2>1. queue'[t.id] = queue[t.id] /\ stage'[t] = stage[t]
    BY <1>0, <1>1, <1>5, SettleEntries DEF IInv, SettlingRun
  <2>2. Filed(t) \/ PutBefore(t, m)
    BY <2>1 DEF Filed, PutBefore, OwnPut
  <2> QED BY <1>3, <2>1, <2>2
<1> QED BY <1>4, <1>5

(* A turn that gives its id back does not hold it.                         *)
LEMMA ReleasedIsFree ==
  ASSUME TypeOK, NEW t \in Turns, Release(t)
  PROVE  ~Holds(t)' /\ \A u \in Turns : Holds(u)' => Holds(u)
<1>1. t # NoTurn /\ t.server \in Servers /\ t.id \in Ids
  BY Requests
<1>2. CASE Holds(t)
  <2>1. claims' = [claims EXCEPT ![t.server][t.id] = NoTurn]
    BY <1>2 DEF Release
  <2>2. ASSUME NEW u \in Turns, Holds(u)' PROVE Holds(u) /\ u # t
    <3>1. u # NoTurn /\ u.server \in Servers /\ u.id \in Ids
      BY Requests
    <3> QED BY <1>1, <2>1, <2>2, <3>1 DEF Holds, TypeOK
  <2> QED BY <2>2
<1>3. CASE ~Holds(t)
  BY <1>3 DEF Release, Holds
<1> QED BY <1>2, <1>3

(* A turn's own steps.                                                     *)
LEMMA TurnKeepsGap ==
  ASSUME IInv, GapInv, NEW t \in Turns, TurnStep(t)
  PROVE  GapInv'
<1> DEFINE Late == {"persisting", "tail", "logging"}
<1>q. ASSUME UNCHANGED <<queue, record, wire, delete>>,
             \A u \in Turns : u # t => stage'[u] = stage[u],
             stage'[t] \in Late => ~Keeper(t)' \/ stage'[t] = stage[t],
             \A u \in Turns : Holds(u)' /\ stage'[u] \in Late => Holds(u)
      PROVE  GapInv'
  BY <1>q, QuietKeepsGap DEF QuietRun, Keeper, DeletesKept
<1>s. ASSUME NEW to \in Stages, stage' = [stage EXCEPT ![t] = to]
      PROVE  stage'[t] = to /\ \A u \in Turns : u # t => stage'[u] = stage[u]
  BY <1>s DEF IInv, TypeOK
<1>h. UNCHANGED claims => \A u \in Turns : Holds(u)' => Holds(u)
  BY DEF Holds
<1>1. CASE Receive(t) \/ Start(t)
  <2>1. \E to \in Stages \ Late : stage' = [stage EXCEPT ![t] = to]
    BY <1>1 DEF Receive, Start, Stages
  <2>2. UNCHANGED <<queue, record, wire, delete, claims>>
    BY <1>1 DEF Receive, Start, storeVars, serverVars
  <2> QED BY <1>q, <1>s, <1>h, <2>1, <2>2
<1>2. CASE Claim(t)
  <2>1. \E to \in Stages \ Late : stage' = [stage EXCEPT ![t] = to]
    BY <1>2 DEF Claim, Stages
  <2>2. UNCHANGED <<queue, record, wire, delete>>
        /\ (UNCHANGED claims \/ claims' = [claims EXCEPT ![t.server][t.id] = t])
    BY <1>2 DEF Claim, storeVars
  <2>3. ASSUME NEW u \in Turns, u # t, Holds(u)' PROVE Holds(u)
    <3>1. u.server \in Servers /\ u.id \in Ids /\ t.server \in Servers /\ t.id \in Ids
      BY Requests
    <3>2. claims \in [Servers -> [Ids -> Turns \cup {NoTurn}]]
      BY DEF IInv, TypeOK
    <3> QED BY <2>2, <2>3, <3>1, <3>2 DEF Holds
  <2> QED BY <1>q, <1>s, <2>1, <2>2, <2>3
<1>3. ASSUME Refuse(t) PROVE GapInv'
  <2>1. stage' = [stage EXCEPT ![t] = "refused"] /\ UNCHANGED <<queue, record, wire, delete>>
        /\ Release(t)
    BY <1>3 DEF Refuse, storeVars
  <2>2. stage'[t] = "refused" /\ \A u \in Turns : u # t => stage'[u] = stage[u]
    BY <2>1, <1>s DEF Stages
  <2> QED BY <1>q, <2>1, <2>2, ReleasedIsFree DEF IInv
<1>4. CASE EmitPrefix(t) \/ EmitItem(t)
  <2>1. UNCHANGED <<queue, record, wire, delete, claims, stage>>
    BY <1>4 DEF EmitPrefix, EmitItem, storeVars, serverVars
  <2> QED BY <1>q, <1>h, <2>1
<1>5. ASSUME NEW st \in HandlerTerminals, stage[t] = "running", t.background, DriveTerminal(t, st)
      PROVE  GapInv'
  <2>1. UNCHANGED <<claims, record, delete>>
    BY <1>5 DEF DriveTerminal, serverVars
  <2>2. CASE Holds(t)
    <3> DEFINE a == Put(t, t, TerminalOf(t, st), ItemsOf(t))
    <3>1. Issue(t.id, a) /\ stage' = [stage EXCEPT ![t] = "persisting"] /\ UNCHANGED wire
      BY <1>5, <2>2 DEF DriveTerminal
    <3>2. TerminalOf(t, st) \in Statuses /\ ItemsOf(t) \in 0..MaxItems
      BY BoundsAssumption DEF TerminalOf, ItemsOf, Statuses, TerminalStatuses, IInv, TypeOK
    <3>3. a \in Accesses /\ a.op = "put"
      BY <3>2 DEF Put, Accesses
    <3> HIDE DEF a
    <3>4. stage'[t] = "persisting" /\ \A u \in Turns : u # t => stage'[u] = stage[u]
      BY <3>1, <1>s DEF Stages
    <3>5. \A u \in Turns : Keeper(u)' /\ stage'[u] \in Late => IssuingRun(u)
      BY <1>5, <1>h, <2>1, <3>1, <3>4 DEF IssuingRun, Keeper
    <3> QED BY <2>1, <3>1, <3>3, <3>5, Requests, IssueKeepsGap DEF DeletesKept
  <2>3. CASE ~Holds(t)
    <3>1. /\ stage' = [stage EXCEPT ![t] = "tail"] /\ UNCHANGED queue
          /\ wire' = [wire EXCEPT ![t] = TerminalOf(t, st)]
      BY <1>5, <2>3 DEF DriveTerminal
    <3>2. /\ stage'[t] = "tail"
          /\ \A u \in Turns : u # t => stage'[u] = stage[u] /\ wire'[u] = wire[u]
      BY <3>1, <1>s DEF Stages, IInv, TypeOK
    <3>3. \A u \in Turns : Keeper(u)' /\ stage'[u] \in Late => QuietRun(u)
      BY <1>h, <2>1, <2>3, <3>2 DEF QuietRun, Keeper
    <3> QED BY <2>1, <3>1, <3>3, QuietKeepsGap DEF DeletesKept
  <2> QED BY <2>2, <2>3
<1>6. ASSUME NEW st \in HandlerTerminals, HandlerTerminates(t, st) PROVE GapInv'
  <2>1. CASE t.background
    BY <1>5, <1>6, <2>1 DEF HandlerTerminates
  <2>2. CASE ~t.background
    <3>1. stage' = [stage EXCEPT ![t] = "tail"] /\ UNCHANGED <<queue, record, wire, delete, claims>>
      BY <1>6, <2>2 DEF HandlerTerminates, CollectTerminal, storeVars, serverVars
    <3>2. stage'[t] = "tail" /\ \A u \in Turns : u # t => stage'[u] = stage[u]
      BY <3>1, <1>s DEF Stages
    <3>3. ~Keeper(t)'
      BY <2>2 DEF Keeper
    <3> QED BY <1>q, <1>h, <3>1, <3>2, <3>3
  <2> QED BY <2>1, <2>2
<1>7. CASE HandlerThrowsEarly(t)
  <2>1. CASE t.background
    BY <1>5, <1>7, <2>1 DEF HandlerThrowsEarly, HandlerTerminals
  <2>2. CASE ~t.background
    BY <1>3, <1>7, <2>2 DEF HandlerThrowsEarly
  <2> QED BY <2>1, <2>2
<1>8. ASSUME Finish(t), UNCHANGED <<queue, record, delete>>,
             \A u \in Turns : u # t => wire'[u] = wire[u]
      PROVE  GapInv'
  <2>1. stage' = [stage EXCEPT ![t] = "done"] /\ Release(t)
    BY <1>8 DEF Finish
  <2>2. stage'[t] = "done" /\ \A u \in Turns : u # t => stage'[u] = stage[u]
    BY <2>1, <1>s DEF Stages
  <2>3. \A u \in Turns : Keeper(u)' /\ stage'[u] \in Late => QuietRun(u)
    BY <1>8, <2>1, <2>2, ReleasedIsFree DEF QuietRun, Keeper, IInv
  <2> QED BY <1>8, <2>3, QuietKeepsGap DEF DeletesKept
<1>9. ASSUME NEW overflowed \in BOOLEAN, RunEnds(t, overflowed) PROVE GapInv'
  <2>1. stage[t] = "tail" /\ t.background /\ UNCHANGED <<wire, record, delete>>
    BY <1>9 DEF RunEnds
  <2>2. CASE t.stream /\ ~overflowed /\ Holds(t)
    <3> DEFINE a == PutEvents(t)
    <3>1. Issue(t.id, a) /\ stage' = [stage EXCEPT ![t] = "logging"] /\ UNCHANGED claims
      BY <1>9, <2>2 DEF RunEnds
    <3>2. a \in Accesses /\ a.op = "putEvents"
      BY DEF PutEvents, Accesses
    <3> HIDE DEF a
    <3>3. stage'[t] = "logging" /\ \A u \in Turns : u # t => stage'[u] = stage[u]
      BY <3>1, <1>s DEF Stages
    <3>4. \A u \in Turns : Keeper(u)' /\ stage'[u] \in Late => IssuingRun(u)
      BY <1>h, <2>1, <3>1, <3>3 DEF IssuingRun, Keeper
    <3> QED BY <2>1, <3>1, <3>2, <3>4, Requests, IssueKeepsGap DEF DeletesKept
  <2>3. CASE ~(t.stream /\ ~overflowed /\ Holds(t))
    BY <1>8, <1>9, <2>1, <2>3 DEF RunEnds
  <2> QED BY <2>2, <2>3
<1>10. CASE CollectEnds(t)
  <2>1. stage[t] = "tail" /\ ~t.background /\ UNCHANGED <<record, delete>>
    BY <1>10 DEF CollectEnds
  <2>2. CASE t.store /\ Holds(t)
    <3> DEFINE a == Put(t, t, status[t], items[t])
    <3>1. Issue(t.id, a) /\ stage' = [stage EXCEPT ![t] = "persisting"] /\ UNCHANGED <<claims, wire>>
      BY <1>10, <2>2 DEF CollectEnds
    <3>2. a \in Accesses /\ a.op = "put"
      BY DEF Put, Accesses, IInv, TypeOK
    <3> HIDE DEF a
    <3>3. \A u \in Turns : u # t => stage'[u] = stage[u]
      BY <3>1, <1>s DEF Stages
    <3>4. \A u \in Turns : Keeper(u)' /\ stage'[u] \in Late => IssuingRun(u)
      BY <1>h, <2>1, <3>1, <3>3 DEF IssuingRun, Keeper
    <3> QED BY <2>1, <3>1, <3>2, <3>4, Requests, IssueKeepsGap DEF DeletesKept
  <2>3. CASE ~(t.store /\ Holds(t))
    <3>1. Finish(t) /\ wire' = [wire EXCEPT ![t] = status[t]] /\ UNCHANGED queue
      BY <1>10, <2>3 DEF CollectEnds
    <3>2. \A u \in Turns : u # t => wire'[u] = wire[u]
      BY <3>1 DEF IInv, TypeOK
    <3> QED BY <1>8, <2>1, <3>1, <3>2
  <2> QED BY <2>2, <2>3
<1> QED BY <1>1, <1>2, <1>3, <1>4, <1>6, <1>7, <1>9, <1>10 DEF TurnStep, SetupFails

(* The store takes a turn in, refuses it, logs it or forgets it.           *)
LEMMA StoreKeepsGap ==
  ASSUME IInv, GapInv, NEW i \in Ids, StoreStep(i)
  PROVE  GapInv'
<1> DEFINE h == Head(queue[i])
           Late == {"persisting", "tail", "logging"}
<1>1. queue[i] # <<>> /\ Settle(i)
  BY DEF StoreStep, ApplyPut, RejectPut, ApplyPutEvents, ApplyDelete, Await
<1>2. h \in Accesses /\ h = queue[i][1] /\ 1 \in 1..Len(queue[i])
  BY <1>1, SettleEntries DEF IInv
<1>3. Waits(h) /\ IdOf(h) = i
  BY <1>2 DEF IInv, QueueInv, QueueWaits
<1>f. DeleteFoundRun
  BY DEF GapInv
<1>4. ASSUME h.op = "put", NEW outcome, PutSettles(h, outcome), UNCHANGED delete
      PROVE  /\ DeleteFoundRun'
             /\ \A u \in Turns : Keeper(u)' /\ Filed(u)' =>
                  \/ Keeper(u) /\ Filed(u) /\ wire'[u] = wire[u]
                  \/ OwnPut(h, u) /\ u.id = i /\ wire'[u] = outcome
  <2>1. h.turn \in Turns /\ h.turn.id = i /\ h.by \in Turns \cup Cancels
    BY <1>2, <1>3, <1>4, AccessFields DEF IdOf
  <2>2. PICK t \in Turns : t = h.turn
    BY <2>1
  <2>3. CASE h.by = t
    <3>1. /\ stage[t] = "persisting" /\ OwnPut(h, t) /\ t.id = i
          /\ wire' = [wire EXCEPT ![t] = outcome]
          /\ \/ t.background /\ stage' = [stage EXCEPT ![t] = "tail"] /\ UNCHANGED claims
             \/ ~t.background /\ stage' = [stage EXCEPT ![t] = "done"] /\ Release(t)
      BY <1>3, <1>4, <2>1, <2>2, <2>3, Requests DEF Waits, PutSettles, Finish, OwnPut
    <3>2. /\ \A u \in Turns : u # t => stage'[u] = stage[u] /\ wire'[u] = wire[u]
          /\ wire'[t] = outcome /\ (t.background => stage'[t] = "tail")
      BY <3>1 DEF IInv, TypeOK
    <3>3. \A u \in Turns : Holds(u)' => Holds(u)
      BY <3>1, ReleasedIsFree DEF Holds, IInv
    <3> HIDE DEF h
    <3>4. \A u \in Turns : Keeper(u)' /\ stage'[u] \in Late =>
            /\ Keeper(u)
            /\ \/ stage'[u] = stage[u] /\ wire'[u] = wire[u]
               \/ /\ stage'[u] = "tail" /\ stage[u] = "persisting" /\ u.id = i /\ OwnPut(h, u)
                  /\ wire'[u] = outcome
      BY <3>1, <3>2, <3>3 DEF Keeper
    <3>5. \A u \in Turns : Keeper(u)' /\ stage'[u] \in Late => SettlingRun(u, i)
      BY <3>4 DEF SettlingRun, h
    <3>6. DeleteFoundRun'
      BY <1>1, <1>4, <1>f, <3>5, SettleKeepsFound
    <3> QED BY <3>4, <3>6 DEF Filed
  <2>4. CASE h.by # t
    <3>1. UNCHANGED <<wire, stage, claims>>
      BY <1>4, <2>2, <2>4 DEF PutSettles
    <3>2. \A u \in Turns : Keeper(u)' => Keeper(u)
      BY <3>1 DEF Keeper, Holds
    <3>3. \A u \in Turns : Keeper(u)' /\ stage'[u] \in Late => SettlingRun(u, i)
      BY <3>1, <3>2 DEF SettlingRun
    <3>4. DeleteFoundRun'
      BY <1>1, <1>4, <1>f, <3>3, SettleKeepsFound
    <3> QED BY <3>1, <3>2, <3>4 DEF Filed
  <2> QED BY <2>3, <2>4
<1>5. CASE ApplyPut(i)
  <2>1. /\ h.op = "put" /\ Writable(i, h.turn.owner)
        /\ record' = [record EXCEPT ![i] = [turn |-> h.turn, status |-> h.status, items |-> h.items]]
        /\ PutSettles(h, h.status) /\ UNCHANGED delete
    BY <1>5 DEF ApplyPut, Await
  <2>2. /\ h.turn \in Turns /\ h.status \in Statuses /\ h.items \in 0..MaxItems
    BY <1>2, <2>1, AccessFields
  <2>3. PICK r \in Records : r.turn = h.turn /\ record' = [record EXCEPT ![i] = r]
    BY <2>1, <2>2 DEF Records
  <2> HIDE DEF h
  <2>4. \A u \in Turns : Stored(u.id, u.owner) => Stored(u.id, u.owner)'
    <3>1. record \in [Ids -> Records \cup {NoRecord}]
      BY DEF IInv, TypeOK
    <3> QED BY <2>1, <2>3, <3>1, NoRecordAssumption, Requests DEF Stored, Writable
  <2>5. \A u \in Turns : OwnPut(h, u) /\ u.id = i => Stored(u.id, u.owner)'
    <3>1. record \in [Ids -> Records \cup {NoRecord}]
      BY DEF IInv, TypeOK
    <3> QED BY <2>3, <3>1, NoRecordAssumption DEF Stored, OwnPut
  <2>6. FiledIsReadable'
    <3> SUFFICES ASSUME NEW u \in Turns, Keeper(u)', Filed(u)'
                 PROVE  Stored(u.id, u.owner)' \/ wire'[u] = "unstored"
      BY DEF FiledIsReadable
    <3>1. CASE Keeper(u) /\ Filed(u) /\ wire'[u] = wire[u]
      BY <2>4, <3>1 DEF GapInv, FiledIsReadable
    <3>2. CASE OwnPut(h, u) /\ u.id = i
      BY <2>5, <3>2
    <3> QED BY <1>4, <2>1, <3>1, <3>2
  <2> QED BY <1>4, <2>1, <2>6 DEF GapInv
<1>6. CASE RejectPut(i)
  <2>1. h.op = "put" /\ PutSettles(h, "unstored") /\ UNCHANGED <<record, delete>>
    BY <1>6 DEF RejectPut, Await
  <2> HIDE DEF h
  <2>2. FiledIsReadable'
    <3> SUFFICES ASSUME NEW u \in Turns, Keeper(u)', Filed(u)'
                 PROVE  Stored(u.id, u.owner)' \/ wire'[u] = "unstored"
      BY DEF FiledIsReadable
    <3>1. CASE Keeper(u) /\ Filed(u) /\ wire'[u] = wire[u]
      BY <2>1, <3>1 DEF GapInv, FiledIsReadable, Stored
    <3> QED BY <1>4, <2>1, <3>1
  <2> QED BY <1>4, <2>1, <2>2 DEF GapInv
<1>7. CASE ApplyPutEvents(i)
  <2>1. h.op = "putEvents" /\ Finish(h.turn) /\ UNCHANGED <<wire, record, delete>>
    BY <1>7 DEF ApplyPutEvents, Await
  <2>2. PICK t \in Turns : t = h.turn
    BY <1>2, <2>1, AccessFields
  <2>3. stage' = [stage EXCEPT ![t] = "done"] /\ Release(t)
    BY <2>1, <2>2 DEF Finish
  <2> HIDE DEF h
  <2>4. stage'[t] = "done" /\ \A u \in Turns : u # t => stage'[u] = stage[u]
    BY <2>3 DEF IInv, TypeOK
  <2>5. \A u \in Turns : Holds(u)' => Holds(u)
    BY <2>3, ReleasedIsFree DEF IInv
  <2>6. \A u \in Turns : Keeper(u)' /\ stage'[u] \in Late => Keeper(u) /\ stage'[u] = stage[u]
    BY <2>4, <2>5 DEF Keeper
  <2>7. DeleteFoundRun'
    BY <1>1, <1>f, <2>1, <2>6, SettleKeepsFound DEF SettlingRun
  <2>8. FiledIsReadable'
    BY <2>1, <2>6 DEF FiledIsReadable, Filed, Stored, GapInv
  <2> QED BY <2>7, <2>8 DEF GapInv
<1>8. CASE ApplyDelete(i)
  <2>1. h.op = "delete" /\ UNCHANGED <<stage, wire>>
    BY <1>8 DEF ApplyDelete, Await, turnVars
  <2>2. h.by \in Deletes
    BY <1>2, <2>1, AccessFields
  <2>3. PICK d \in Deletes : d = h.by
    BY <2>2
  <2>4. /\ \/ /\ Stored(i, d.owner) /\ record' = [record EXCEPT ![i] = NoRecord]
              /\ Drop(delete[d].run)
           \/ UNCHANGED <<record, claims>>
        /\ \E answer \in {"deleted", "notfound", "failed"} : DeleteAnswers(d, answer)
    BY <1>8, <2>3 DEF ApplyDelete
  <2>5. /\ delete \in [Deletes -> [state : {"idle", "deleting", "deleted", "notfound", "failed", "refused"},
                                   run : Turns \cup {NoTurn}]]
        /\ delete[d].run \in Turns \cup {NoTurn}
    BY DEF IInv, TypeOK
  <2>6. \A e \in Deletes : delete'[e].run = delete[e].run
    <3>1. PICK answer \in {"deleted", "notfound", "failed"} : delete' = [delete EXCEPT ![d].state = answer]
      BY <2>4 DEF DeleteAnswers
    <3> QED BY <2>5, <3>1
  <2>7. \A u \in Turns : Holds(u)' => Holds(u)
    <3>1. CASE UNCHANGED claims
      BY <3>1 DEF Holds
    <3>2. CASE delete[d].run \in Turns /\ Drop(delete[d].run)
      <4>1. Release(delete[d].run)
        BY <3>2, Requests DEF Drop, Release
      <4> QED BY <3>2, <4>1, ReleasedIsFree DEF IInv
    <3> QED BY <2>4, <2>5, <3>1, <3>2, Requests DEF Drop
  <2>8. \A u \in Turns : Keeper(u)' /\ stage'[u] \in Late => SettlingRun(u, i)
    BY <2>1, <2>7 DEF Keeper, SettlingRun
  <2>9. DeleteFoundRun'
    BY <1>1, <1>f, <2>6, <2>8, SettleKeepsFound
  <2>10. FiledIsReadable'
    <3> SUFFICES ASSUME NEW u \in Turns, Keeper(u)', Filed(u)'
                 PROVE  Stored(u.id, u.owner)' \/ wire'[u] = "unstored"
      BY DEF FiledIsReadable
    <3>1. Keeper(u) /\ Filed(u) /\ wire'[u] = wire[u]
      BY <2>1, <2>7 DEF Keeper, Filed
    <3>2. Stored(u.id, u.owner) \/ wire'[u] = "unstored"
      BY <3>1 DEF GapInv, FiledIsReadable
    <3>3. CASE UNCHANGED record
      BY <3>2, <3>3 DEF Stored
    <3>4. CASE /\ Stored(i, d.owner) /\ record' = [record EXCEPT ![i] = NoRecord]
               /\ Drop(delete[d].run)
      <4>1. CASE u.id # i
        BY <3>2, <3>4, <4>1, Requests DEF Stored, IInv, TypeOK
      <4>2. CASE u.id = i /\ u.owner = d.owner
        <5>1. DeleteOf(u, 1)
          BY <1>2, <2>1, <2>3, <4>2 DEF DeleteOf
        <5>2. queue[u.id][1].by = d /\ 1 \in 1..Len(queue[u.id])
          BY <1>2, <2>3, <4>2
        <5>3. delete[d].run = u
          BY <1>f, <3>1, <5>1, <5>2 DEF DeleteFoundRun
        <5>4. Release(u)
          BY <3>4, <5>3, Requests DEF Drop, Release
        <5> QED BY <5>4, ReleasedIsFree DEF Keeper, IInv
      <4>3. CASE u.id = i /\ u.owner # d.owner
        BY <3>2, <3>4, <4>3 DEF Stored
      <4> QED BY <4>1, <4>2, <4>3
    <3> QED BY <2>4, <3>3, <3>4
  <2> QED BY <2>9, <2>10 DEF GapInv
<1> QED BY <1>5, <1>6, <1>7, <1>8 DEF StoreStep

(* A DELETE that arrives finds the run that holds its id.                  *)
LEMMA DeleteKeepsGap ==
  ASSUME AloneAtStore, IInv, GapInv, NEW d \in Deletes, DeleteArrives(d)
  PROVE  GapInv'
<1>1. delete[d].state = "idle" /\ UNCHANGED <<claims, stage, wire, record>>
  BY DEF DeleteArrives, serverVars, turnVars
<1>2. \A u \in Turns : Holds(u)' => Holds(u)
  BY <1>1 DEF Holds
<1>3. delete \in [Deletes -> [state : {"idle", "deleting", "deleted", "notfound", "failed", "refused"},
                              run : Turns \cup {NoTurn}]]
  BY DEF IInv, TypeOK
<1>4. CASE UNCHANGED queue /\ DeleteAnswers(d, "refused")
  <2>1. DeletesKept
    BY <1>3, <1>4 DEF DeleteAnswers, DeletesKept
  <2>2. \A u \in Turns : Keeper(u)' /\ stage'[u] \in {"persisting", "tail", "logging"} => QuietRun(u)
    BY <1>1, <1>2 DEF QuietRun, Keeper
  <2> QED BY <1>1, <1>4, <2>1, <2>2, QuietKeepsGap
<1>5. CASE /\ delete' = [delete EXCEPT ![d] = [state |-> "deleting", run |-> RunFor(d)]]
           /\ Issue(d.id, Remove(d))
  <2> DEFINE a == Remove(d)
             run == RunFor(d)
  <2>1. a \in Accesses /\ a.op = "delete" /\ a.by = d /\ d.id \in Ids /\ d.server \in Servers
    BY Requests DEF Remove, Accesses
  <2> HIDE DEF a
  <2>2. ASSUME NEW t \in Turns, t.id = d.id, d.owner = t.owner, Keeper(t)',
               stage'[t] \in {"persisting", "tail", "logging"}
        PROVE  run = t
    <3>1. t.server = d.server
      BY <2>1, Requests DEF AloneAtStore
    <3>2. claims[d.server][d.id] = t
      BY <1>2, <2>2, <3>1 DEF Keeper, Holds
    <3>3. HasRun(t)
      BY <1>1, <2>2 DEF Keeper, HasRun
    <3> QED BY <2>2, <3>2, <3>3, Requests DEF RunFor
  <2> HIDE DEF run
  <2>3. delete'[d].run = run /\ DeletesKept
    <3>1. delete' = [delete EXCEPT ![d] = [state |-> "deleting", run |-> run]]
      BY <1>5 DEF run
    <3> QED BY <1>1, <1>3, <3>1 DEF DeletesKept
  <2>4. \A u \in Turns : Keeper(u)' /\ stage'[u] \in {"persisting", "tail", "logging"} => IssuingRun(u)
    BY <1>1, <1>2 DEF IssuingRun, Keeper
  <2>5. \A t \in Turns : a.op = "delete" /\ t.id = d.id /\ a.by.owner = t.owner /\ Keeper(t)'
                         /\ stage'[t] \in {"persisting", "tail", "logging"} => delete'[a.by].run = t
    BY <2>1, <2>2, <2>3
  <2>6. Issue(d.id, a)
    BY <1>5 DEF a
  <2> QED BY <1>1, <2>1, <2>3, <2>4, <2>5, <2>6, IssueKeepsGap
<1> QED BY <1>4, <1>5 DEF DeleteArrives

(* A step that issues at most a put and moves no turn.                     *)
LEMMA RouteKeepsGap ==
  ASSUME IInv, GapInv,
         UNCHANGED <<claims, stage, wire, record, delete>>,
         \/ UNCHANGED queue
         \/ \E i \in Ids, a \in Accesses : a.op = "put" /\ Issue(i, a)
  PROVE  GapInv'
<1>1. DeletesKept /\ \A u \in Turns : Keeper(u)' => Keeper(u)
  BY DEF DeletesKept, Keeper, Holds
<1>2. CASE UNCHANGED queue
  BY <1>1, <1>2, QuietKeepsGap DEF QuietRun
<1>3. ASSUME NEW i \in Ids, NEW a \in Accesses, a.op = "put", Issue(i, a) PROVE GapInv'
  BY <1>1, <1>3, IssueKeepsGap DEF IssuingRun
<1> QED BY <1>2, <1>3

(* A cancel that arrives and one whose grace is over.                      *)
LEMMA CancelKeepsGap ==
  ASSUME IInv, GapInv, NEW c \in Cancels, CancelArrives(c) \/ GraceEnds(c)
  PROVE  GapInv'
<1>1. CASE CancelArrives(c)
  BY <1>1, RouteKeepsGap DEF CancelArrives, serverVars, storeVars
<1>2. CASE GraceEnds(c)
  <2> DEFINE t == cancel[c].turn
             a == Put(t, c, "cancelled", 0)
  <2>1. t \in Turns /\ t.id \in Ids
    BY <1>2, Requests DEF GraceEnds, GraceOver, IInv, RequestInv
  <2>2. a \in Accesses /\ a.op = "put"
    BY <2>1, BoundsAssumption DEF Put, Accesses, Statuses, TerminalStatuses
  <2>3. UNCHANGED <<claims, stage, wire, record, delete>> /\ (UNCHANGED queue \/ Issue(t.id, a))
    BY <1>2 DEF GraceEnds, serverVars
  <2> HIDE DEF a, t
  <2> QED BY <2>1, <2>2, <2>3, RouteKeepsGap
<1> QED BY <1>1, <1>2

(* Every step of such a server.                                            *)
LEMMA StepKeepsGap ==
  ASSUME AloneAtStore, IInv, GapInv, [Next]_vars
  PROVE  GapInv'
<1>1. ASSUME NEW s \in Servers, Drain(s) \/ DrainEnds(s) PROVE GapInv'
  BY <1>1, RouteKeepsGap DEF Drain, DrainEnds, turnVars, storeVars
<1>2. CASE UNCHANGED vars
  BY <1>2, RouteKeepsGap DEF vars, serverVars, turnVars, storeVars
<1> QED BY <1>1, <1>2, TurnKeepsGap, StoreKeepsGap, DeleteKeepsGap, CancelKeepsGap DEF Next, Quiescent

(* An id that answers nothing has no run and no record of its owner.       *)
LEMMA Unanswered ==
  ASSUME IInv', NEW t \in Turns, GetStatus(t)' = "notfound"
  PROVE  RunFor(t)' = NoTurn /\ ~Stored(t.id, t.owner)'
<1>1. ASSUME NEW u \in Turns PROVE RunStatus(u)' # "notfound"
  <2>1. status'[u] \in Statuses
    BY DEF IInv, TypeOK
  <2> QED BY <2>1 DEF RunStatus, Statuses, TerminalStatuses, HandlerTerminals
<1>2. RunFor(t)' = NoTurn
  <2> SUFFICES ASSUME RunFor(t)' # NoTurn PROVE FALSE
    OBVIOUS
  <2>1. RunFor(t)' = claims'[t.server][t.id]
    BY DEF RunFor
  <2>2. PICK u \in Turns : u = RunFor(t)'
    BY <2>1, Requests DEF IInv, TypeOK
  <2>3. GetStatus(t)' = RunStatus(u)'
    BY <2>2 DEF GetStatus, RunStatus
  <2> QED BY <1>1, <2>3
<1>3. ~Stored(t.id, t.owner)'
  <2> SUFFICES ASSUME Stored(t.id, t.owner)' PROVE FALSE
    OBVIOUS
  <2>1. GetStatus(t)' = record'[t.id].status
    BY <1>2 DEF GetStatus
  <2>2. record'[t.id] \in Records
    BY Requests DEF IInv, TypeOK, Stored
  <2> QED BY <2>1, <2>2 DEF Records, Statuses, TerminalStatuses, HandlerTerminals
<1> QED BY <1>2, <1>3

(* A step of the store that takes a record away or frees an id for it is   *)
(* the end of a DELETE of that id.                                         *)
LEMMA DeleteIsSeen ==
  ASSUME IInv, NEW t \in Turns, ~\E d \in Deletes : d.id = t.id /\ DeleteWentThrough(d),
         NEW i \in Ids, ApplyDelete(i)
  PROVE  i # t.id \/ UNCHANGED <<record, claims>>
<1> DEFINE h == Head(queue[i])
<1>1. queue[i] # <<>> /\ Settle(i) /\ h.op = "delete"
  BY DEF ApplyDelete, Await
<1>2. h \in Accesses /\ h = queue[i][1] /\ 1 \in 1..Len(queue[i])
  BY <1>1, SettleEntries DEF IInv
<1>3. h.by \in Deletes /\ delete[h.by].state = "deleting" /\ h.by.id = i
  BY <1>1, <1>2, AccessFields DEF IInv, QueueInv, QueueWaits, Waits, IdOf
<1>4. PICK d \in Deletes : d = h.by
  BY <1>3
<1>5. delete \in [Deletes -> [state : {"idle", "deleting", "deleted", "notfound", "failed", "refused"},
                              run : Turns \cup {NoTurn}]]
  BY DEF IInv, TypeOK
<1>6. DeleteAnswers(d, "deleted") => DeleteWentThrough(d)
  <2>1. DeleteAnswers(d, "deleted") => delete'[d].state = "deleted"
    BY <1>5 DEF DeleteAnswers
  <2> QED BY <1>3, <1>4, <2>1 DEF DeleteWentThrough
<1> HIDE DEF h
<1>7. DeleteAnswers(d, "deleted") \/ UNCHANGED <<record, claims>>
  BY <1>4 DEF ApplyDelete, h
<1> QED BY <1>3, <1>4, <1>6, <1>7

(* What an owner has stored stays his until such a DELETE.                 *)
LEMMA StoredStays ==
  ASSUME IInv, [Next]_vars, NEW t \in Turns, Stored(t.id, t.owner),
         \A i \in Ids : ApplyDelete(i) => i # t.id \/ UNCHANGED <<record, claims>>
  PROVE  Stored(t.id, t.owner)'
<1>0. t.id \in Ids /\ record \in [Ids -> Records \cup {NoRecord}]
  BY Requests DEF IInv, TypeOK
<1>1. CASE UNCHANGED record
  BY <1>1 DEF Stored
<1>2. ASSUME NEW i \in Ids, ApplyPut(i) PROVE Stored(t.id, t.owner)'
  <2> DEFINE h == Head(queue[i])
  <2>1. /\ h.op = "put" /\ queue[i] # <<>> /\ Settle(i) /\ Writable(i, h.turn.owner)
        /\ record' = [record EXCEPT ![i] = [turn |-> h.turn, status |-> h.status, items |-> h.items]]
    BY <1>2 DEF ApplyPut, Await
  <2>2. h \in Accesses
    BY <2>1, SettleEntries DEF IInv
  <2>3. PICK r \in Records : r.turn = h.turn /\ record' = [record EXCEPT ![i] = r]
    BY <2>1, <2>2, AccessFields DEF Records
  <2> HIDE DEF h
  <2> QED BY <1>0, <2>1, <2>3, NoRecordAssumption DEF Stored, Writable
<1>3. ASSUME NEW i \in Ids, ApplyDelete(i) PROVE Stored(t.id, t.owner)'
  <2>1. UNCHANGED record \/ (i # t.id /\ record' = [record EXCEPT ![i] = NoRecord])
    BY <1>3 DEF ApplyDelete
  <2> QED BY <1>0, <2>1 DEF Stored
<1>4. ASSUME NEW v \in Turns, TurnStep(v) PROVE UNCHANGED record
  BY <1>4 DEF TurnStep, Receive, Claim, Start, SetupFails, Refuse, EmitPrefix, EmitItem,
        HandlerTerminates, HandlerThrowsEarly, DriveTerminal, CollectTerminal, RunEnds,
        CollectEnds, storeVars
<1>5. ASSUME NEW i \in Ids, RejectPut(i) \/ ApplyPutEvents(i) PROVE UNCHANGED record
  BY <1>5 DEF RejectPut, ApplyPutEvents
<1>6. ASSUME NEW c \in Cancels, CancelArrives(c) \/ GraceEnds(c) PROVE UNCHANGED record
  BY <1>6 DEF CancelArrives, GraceEnds, storeVars
<1>7. ASSUME NEW d \in Deletes, DeleteArrives(d) PROVE UNCHANGED record
  BY <1>7 DEF DeleteArrives
<1>8. ASSUME NEW s \in Servers, Drain(s) \/ DrainEnds(s) PROVE UNCHANGED record
  BY <1>8 DEF Drain, DrainEnds, storeVars
<1>9. UNCHANGED vars => UNCHANGED record
  BY DEF vars, storeVars
<1> QED BY <1>1, <1>2, <1>3, <1>4, <1>5, <1>6, <1>7, <1>8, <1>9 DEF Next, StoreStep, Quiescent

(* Who still has the claim of an address and a run under it is found.      *)
LEMMA SameSlot ==
  ASSUME AloneAtStore, NEW t \in Turns, NEW u \in Turns, u.id = t.id, u.owner = t.owner,
         RunFor(t)' = NoTurn
  PROVE  Holds(u)' => ~HasRun(u)'
<1>1. u.server = t.server /\ u # NoTurn
  BY Requests DEF AloneAtStore
<1> QED BY <1>1 DEF Holds, RunFor, HasRun

(* A turn that gives its id back takes it from nobody else.                *)
LEMMA ReleaseSparesOthers ==
  ASSUME TypeOK, NEW v \in Turns, Release(v), NEW u \in Turns, u # v, Holds(u)
  PROVE  Holds(u)'
<1>1. /\ u.server \in Servers /\ u.id \in Ids /\ v.server \in Servers /\ v.id \in Ids
      /\ claims \in [Servers -> [Ids -> Turns \cup {NoTurn}]]
  BY Requests DEF TypeOK
<1> QED BY <1>1 DEF Release, Holds

(* A run that has its id stops answering under it only when it ends.       *)
LEMMA RunGoesOn ==
  ASSUME IInv, [Next]_vars, NEW u \in Turns, HasRun(u), Holds(u), ~(Holds(u)' /\ HasRun(u)'),
         \A i \in Ids : ApplyDelete(i) => i # u.id \/ UNCHANGED <<record, claims>>
  PROVE  stage'[u] = "done" /\ Filed(u) /\ wire'[u] = wire[u]
<1> DEFINE Goes == Holds(u)' /\ HasRun(u)'
           Ends == stage'[u] = "done" /\ Filed(u) /\ wire'[u] = wire[u]
<1>0. u.background /\ stage[u] \in {"running", "persisting", "tail", "logging"}
  BY DEF HasRun
<1>a. ASSUME stage'[u] \in {"running", "persisting", "tail", "logging"}, Holds(u)' PROVE Goes
  BY <1>a, <1>0 DEF HasRun
<1>k. UNCHANGED claims => Holds(u)'
  BY DEF Holds
<1>f. ASSUME NEW v \in Turns, Finish(v) PROVE (v # u => Goes) /\ (v = u => stage'[u] = "done")
  <2>1. stage' = [stage EXCEPT ![v] = "done"] /\ Release(v)
    BY <1>f DEF Finish
  <2> QED BY <1>0, <1>a, <2>1, ReleaseSparesOthers DEF IInv, TypeOK
<1>1. ASSUME NEW v \in Turns, TurnStep(v) PROVE Goes \/ Ends
  <2>1. ASSUME UNCHANGED claims,
               \E to \in Stages : /\ stage' = [stage EXCEPT ![v] = to]
                                  /\ v = u => to \in {"running", "persisting", "tail", "logging"}
        PROVE  Goes
    BY <1>0, <1>a, <1>k, <2>1 DEF IInv, TypeOK
  <2>2. CASE Receive(v) \/ Start(v)
    <3>1. v # u /\ UNCHANGED claims /\ \E to \in Stages : stage' = [stage EXCEPT ![v] = to]
      BY <1>0, <2>2 DEF Receive, Start, Stages, serverVars
    <3> QED BY <2>1, <3>1
  <2>3. CASE Claim(v)
    <3>1. /\ v # u /\ \E to \in Stages : stage' = [stage EXCEPT ![v] = to]
          /\ \/ UNCHANGED claims
             \/ claims[v.server][v.id] = NoTurn /\ claims' = [claims EXCEPT ![v.server][v.id] = v]
      BY <1>0, <2>3 DEF Claim, Stages, Admissible
    <3>2. Holds(u)'
      <4>1. /\ u.server \in Servers /\ u.id \in Ids /\ v.server \in Servers /\ v.id \in Ids /\ u # NoTurn
            /\ claims \in [Servers -> [Ids -> Turns \cup {NoTurn}]]
        BY Requests DEF IInv, TypeOK
      <4> QED BY <3>1, <4>1 DEF Holds
    <3> QED BY <1>0, <1>a, <3>1, <3>2 DEF IInv, TypeOK
  <2>4. ASSUME Refuse(v), v # u PROVE Goes
    <3>1. stage' = [stage EXCEPT ![v] = "refused"] /\ Release(v)
      BY <2>4 DEF Refuse
    <3> QED BY <1>0, <1>a, <2>4, <3>1, ReleaseSparesOthers DEF IInv, TypeOK
  <2>5. CASE EmitPrefix(v) \/ EmitItem(v)
    <3>1. UNCHANGED <<claims, stage>>
      BY <2>5 DEF EmitPrefix, EmitItem, serverVars
    <3> QED BY <1>0, <1>a, <1>k, <3>1
  <2>6. ASSUME NEW st \in HandlerTerminals, DriveTerminal(v, st) \/ CollectTerminal(v, st) PROVE Goes
    <3>1. UNCHANGED claims /\ \E to \in {"persisting", "tail"} : stage' = [stage EXCEPT ![v] = to]
      BY <2>6 DEF DriveTerminal, CollectTerminal, serverVars
    <3> QED BY <2>1, <3>1 DEF Stages
  <2>7. ASSUME NEW st \in HandlerTerminals, HandlerTerminates(v, st) PROVE Goes
    BY <2>6, <2>7 DEF HandlerTerminates
  <2>8. CASE HandlerThrowsEarly(v)
    BY <1>0, <2>4, <2>6, <2>8 DEF HandlerThrowsEarly, HandlerTerminals
  <2>9. ASSUME NEW overflowed \in BOOLEAN, RunEnds(v, overflowed) PROVE Goes \/ Ends
    <3>1. stage[v] = "tail" /\ UNCHANGED wire
          /\ \/ stage' = [stage EXCEPT ![v] = "logging"] /\ UNCHANGED claims
             \/ Finish(v)
      BY <2>9 DEF RunEnds
    <3>2. CASE Finish(v)
      BY <1>f, <3>1, <3>2 DEF Filed
    <3> QED BY <2>1, <3>1, <3>2 DEF Stages
  <2>10. CASE CollectEnds(v)
    <3>1. v # u
          /\ \/ stage' = [stage EXCEPT ![v] = "persisting"] /\ UNCHANGED claims
             \/ Finish(v)
      BY <1>0, <2>10 DEF CollectEnds
    <3>2. CASE Finish(v)
      BY <1>f, <3>1, <3>2
    <3> QED BY <2>1, <3>1, <3>2 DEF Stages
  <2>11. SetupFails(v) => v # u
    BY <1>0 DEF SetupFails
  <2> QED BY <2>2, <2>3, <2>4, <2>5, <2>7, <2>8, <2>9, <2>10, <2>11, <1>1 DEF TurnStep, SetupFails
<1>2. ASSUME NEW i \in Ids, StoreStep(i) PROVE Goes \/ Ends
  <2> DEFINE h == Head(queue[i])
  <2>1. queue[i] # <<>> /\ Settle(i)
    BY <1>2 DEF StoreStep, ApplyPut, RejectPut, ApplyPutEvents, ApplyDelete, Await
  <2>2. h \in Accesses /\ h = queue[i][1] /\ 1 \in 1..Len(queue[i])
    BY <2>1, SettleEntries DEF IInv
  <2>3. Waits(h) /\ IdOf(h) = i
    BY <2>2 DEF IInv, QueueInv, QueueWaits
  <2>4. ASSUME h.op = "put", NEW outcome, PutSettles(h, outcome) PROVE Goes
    <3>1. h.turn \in Turns
      BY <2>2, <2>4, AccessFields
    <3>2. CASE h.by = h.turn
      <4>1. \/ h.turn.background /\ stage' = [stage EXCEPT ![h.turn] = "tail"] /\ UNCHANGED claims
            \/ ~h.turn.background /\ Finish(h.turn)
        BY <2>4, <3>2 DEF PutSettles
      <4> HIDE DEF h
      <4> QED BY <1>0, <1>a, <1>k, <1>f, <3>1, <4>1 DEF IInv, TypeOK
    <3>3. CASE h.by # h.turn
      BY <1>0, <1>a, <1>k, <2>4, <3>3 DEF PutSettles
    <3> QED BY <3>2, <3>3
  <2>5. CASE ApplyPut(i) \/ RejectPut(i)
    BY <2>4, <2>5 DEF ApplyPut, RejectPut, Await
  <2>6. CASE ApplyPutEvents(i)
    <3>1. h.op = "putEvents" /\ Finish(h.turn) /\ UNCHANGED wire
      BY <2>6 DEF ApplyPutEvents, Await
    <3>2. h.turn \in Turns /\ stage[h.turn] = "logging"
      BY <2>2, <2>3, <3>1, AccessFields DEF Waits
    <3> HIDE DEF h
    <3> QED BY <1>f, <3>1, <3>2 DEF Filed
  <2>7. CASE ApplyDelete(i)
    <3>1. h.op = "delete" /\ UNCHANGED stage
      BY <2>7 DEF ApplyDelete, Await, turnVars
    <3>2. PICK d \in Deletes : d = h.by
      BY <2>2, <3>1, AccessFields
    <3>3. d.id = i
      BY <2>3, <3>1, <3>2 DEF IdOf
    <3>4. UNCHANGED claims \/ (i # u.id /\ Drop(delete[d].run))
      BY <2>7, <3>2 DEF ApplyDelete
    <3>5. CASE i # u.id /\ delete[d].run \in Turns /\ Drop(delete[d].run)
      <4>1. delete[d].run # u
        BY <3>3, <3>5 DEF IInv, RequestInv
      <4>2. Release(delete[d].run)
        BY <3>5, Requests DEF Drop, Release
      <4> QED BY <1>0, <1>a, <3>1, <3>5, <4>1, <4>2, ReleaseSparesOthers DEF IInv
    <3>6. CASE UNCHANGED claims
      BY <1>0, <1>a, <1>k, <3>1, <3>6
    <3>7. delete[d].run \in Turns \cup {NoTurn}
      BY DEF IInv, TypeOK
    <3> QED BY <3>4, <3>5, <3>6, <3>7 DEF Drop
  <2> QED BY <1>2, <2>5, <2>6, <2>7 DEF StoreStep
<1>3. UNCHANGED <<claims, stage>> => Goes
  BY <1>0, <1>a, <1>k
<1>4. ASSUME NEW c \in Cancels, CancelArrives(c) \/ GraceEnds(c) PROVE Goes
  BY <1>3, <1>4 DEF CancelArrives, GraceEnds, serverVars
<1>5. ASSUME NEW d \in Deletes, DeleteArrives(d) PROVE Goes
  BY <1>3, <1>5 DEF DeleteArrives, serverVars, turnVars
<1>6. ASSUME NEW s \in Servers, Drain(s) \/ DrainEnds(s) PROVE Goes
  BY <1>3, <1>6 DEF Drain, DrainEnds, turnVars
<1>7. UNCHANGED vars => Goes
  BY <1>3 DEF vars, serverVars, turnVars
<1> QED BY <1>1, <1>2, <1>4, <1>5, <1>6, <1>7 DEF Next, Quiescent

(* No moment where a background response answers neither live nor from     *)
(* storage, when its server has the store to itself: a DELETE through      *)
(* another server takes the record from under a run, which then answers    *)
(* until it ends (resource-routes.ts, background-driver.ts).               *)
THEOREM NoGap == ASSUME AloneAtStore PROVE Spec => NoGapInAnswers
<1> DEFINE Gapless == \A t \in Turns :
             (GetStatus(t) # "notfound" /\ GetStatus(t)' = "notfound")
             => \/ \E d \in Deletes : d.id = t.id /\ DeleteWentThrough(d)
                \/ \E u \in Turns : u = RunFor(t) /\ wire'[u] = "unstored" /\ Settled(u)'
<1>1. IInv /\ GapInv /\ [Next]_vars => [Gapless]_vars
  <2> SUFFICES ASSUME IInv, GapInv, [Next]_vars,
                      NEW t \in Turns, GetStatus(t) # "notfound", GetStatus(t)' = "notfound",
                      ~\E d \in Deletes : d.id = t.id /\ DeleteWentThrough(d)
               PROVE  \E u \in Turns : u = RunFor(t) /\ wire'[u] = "unstored" /\ Settled(u)'
    OBVIOUS
  <2>1. IInv'
    BY StepInv
  <2>2. RunFor(t)' = NoTurn /\ ~Stored(t.id, t.owner)'
    BY <2>1, Unanswered
  <2>4. \A i \in Ids : ApplyDelete(i) => i # t.id \/ UNCHANGED <<record, claims>>
    BY DeleteIsSeen
  <2>5. ~Stored(t.id, t.owner)
    BY <2>2, <2>4, StoredStays
  <2>6. RunFor(t) # NoTurn
    BY <2>5 DEF GetStatus
  <2>7. PICK u \in Turns : u = RunFor(t) /\ HasRun(u) /\ Holds(u) /\ u.id = t.id /\ u.owner = t.owner
    BY <2>6, FoundRun, Requests DEF IInv, RunFor, ClaimsAreLive, Holds
  <2>8. Holds(u)' => ~HasRun(u)'
    BY <2>2, <2>7, SameSlot
  <2>9. stage'[u] = "done" /\ Filed(u) /\ wire'[u] = wire[u]
    BY <2>4, <2>7, <2>8, RunGoesOn
  <2> QED BY <2>5, <2>7, <2>9 DEF GapInv, FiledIsReadable, Keeper, HasRun, Settled
<1>2. Init => GapInv
  <2> SUFFICES ASSUME Init PROVE GapInv
    OBVIOUS
  <2> QED BY Requests DEF Init, GapInv, FiledIsReadable, DeleteFoundRun, Keeper, Holds
<1>3. IInv /\ GapInv /\ [Next]_vars => GapInv'
  BY StepKeepsGap
<1>4. NoGapInAnswers <=> [][Gapless]_vars
  BY DEF NoGapInAnswers
<1> QED BY <1>1, <1>2, <1>3, <1>4, Invariance, PTL DEF Spec
=============================================================================
