------------------------------ MODULE Streams_proof ------------------------------
(***************************************************************************)
(* Proofs about the two streams between a turn and its client.             *)
(*                                                                         *)
(* The event feed of a background run keeps its properties for every       *)
(* retention cap, every length of the stream and every set of subscribers. *)
(* The argument is the inductive invariant IInv: the window is the tail of *)
(* the stream, it is at most MaxEvents long once the cap is crossed, and a *)
(* subscriber's index is never ahead of what it has been given and behind  *)
(* the window only when it is MaxEvents events late.                       *)
(*                                                                         *)
(* A streamed foreground turn is recorded once and first. ForegroundInv    *)
(* says who offers the turn to the store, and that the teardown does so    *)
(* only when the source is closed, so that no terminal event can follow.   *)
(***************************************************************************)
EXTENDS BackgroundRun, ForegroundStream, TLAPS, SequenceTheorems

(* The cap decides alone whether the start of the stream is still there,   *)
(* and bounds the window once it is not.                                   *)
CapInv ==
  /\ overflowed <=> delivered > MaxEvents
  /\ ~overflowed => base = 0
  /\ base >= delivered - MaxEvents

ReplayInv == driver \in {"running", "terminated"} => replayLog = NoLog

(* A subscriber that is attached has been given everything before its      *)
(* index, and lags behind the window only if it has been lapped.           *)
Cursor(f) ==
  /\ last[f] >= after[f]
  /\ index[f] <= last[f] + 1
  /\ last[f] = after[f] \/ last[f] < index[f]
  /\ index[f] >= base \/ base <= delivered - MaxEvents
CursorInv == \A f \in Subscribed : Cursor(f)

EndInv == \A f \in Followers : at[f] = "ended" => driver = "finished" /\ last[f] >= delivered - 1

IInv ==
  /\ TypeOK /\ WindowIsTail /\ CapInv
  /\ ReplayInv /\ ReplayLogIsWhole
  /\ CursorInv /\ EndInv /\ NeverThrows /\ NothingRetainedForNobody

-----------------------------------------------------------------------------
(* What #trim returns: a suffix of the window, no longer than the cap, that*)
(* starts no later than any cursor in S unless the cap forces it to.       *)
LEMMA TrimSuffix ==
  ASSUME NEW window \in Seq(Nat), NEW d \in Nat, NEW over \in BOOLEAN, NEW S \in SUBSET Followers,
         base \in 0..d, index \in [Followers -> Nat],
         Len(window) = d - base, \A i \in 1..Len(window) : window[i] = base + i - 1,
         Trim(window, d, over, S)
  PROVE  /\ base' \in 0..d
         /\ buffer' \in Seq(Nat)
         /\ Len(buffer') = d - base'
         /\ \A i \in 1..Len(buffer') : buffer'[i] = base' + i - 1
         /\ ~over => base' = base
         /\ over => base' >= d - MaxEvents
         /\ \A f \in S : base' = base \/ base' = d - MaxEvents \/ base' <= index[f]
         /\ over /\ S = {} => buffer' = <<>>
<1>1. CASE ~over
  BY <1>1 DEF Trim
<1>2. CASE over
  <2>1. PICK keep \in base..d : /\ IsKeep(keep, d, S)
                                /\ base' = keep
                                /\ buffer' = SubSeq(window, keep - base + 1, Len(window))
    BY <1>2 DEF Trim
  <2>2. keep \in Int /\ keep >= base /\ keep <= d /\ base \in Int /\ base >= 0
    BY <2>1
  <2>3. \A i \in (keep - base + 1)..Len(window) : window[i] \in Nat
    BY <2>2, ElementOfSeq
  <2>4. /\ buffer' \in Seq(Nat)
        /\ Len(buffer') = d - keep
        /\ \A i \in 1..(d - keep) : buffer'[i] = window[keep - base + i]
    <3> DEFINE m == keep - base + 1
               n == Len(window)
    <3>1. m \in Int /\ n \in Int /\ n = d - base
      BY <2>2
    <3>2. /\ SubSeq(window, m, n) \in Seq(Nat)
          /\ Len(SubSeq(window, m, n)) = IF m <= n THEN n - m + 1 ELSE 0
          /\ \A i \in 1..(n - m + 1) : SubSeq(window, m, n)[i] = window[m + i - 1]
      <4>1. \A i \in m..n : window[i] \in Nat
        BY <2>3
      <4> HIDE DEF m, n
      <4>2. PICK a, b : a = m /\ b = n
        OBVIOUS
      <4>3. a \in Int /\ b \in Int /\ \A i \in a..b : window[i] \in Nat
        BY <3>1, <4>1, <4>2
      <4>4. /\ SubSeq(window, a, b) \in Seq(Nat)
            /\ Len(SubSeq(window, a, b)) = IF a <= b THEN b - a + 1 ELSE 0
            /\ \A i \in 1..(b - a + 1) : SubSeq(window, a, b)[i] = window[a + i - 1]
        BY ONLY <4>3, SubSeqProperties
      <4> QED
        BY <4>2, <4>4
    <3>3. n - m + 1 = d - keep /\ \A i \in 1..(d - keep) : m + i - 1 = keep - base + i
      BY <2>2, <3>1
    <3> QED
      BY <2>1, <2>2, <3>1, <3>2, <3>3
  <2>5. \A i \in 1..Len(buffer') : buffer'[i] = base' + i - 1
    BY <2>1, <2>2, <2>4
  <2>6. keep >= d - MaxEvents
    <3>1. SUFFICES ASSUME keep < d - MaxEvents PROVE FALSE
      BY <2>2, MaxEventsAssumption
    <3>2. d - MaxEvents \in (keep + 1)..d
      BY <2>2, <3>1, MaxEventsAssumption
    <3> QED
      BY <2>1, <3>2 DEF IsKeep, Keep
  <2>7. \A f \in S : keep = base \/ keep = d - MaxEvents \/ keep <= index[f]
    BY <2>1 DEF IsKeep, Keep
  <2>8. S = {} => buffer' = <<>>
    <3>1. SUFFICES ASSUME S = {} PROVE buffer' = <<>>
      OBVIOUS
    <3>2. keep = d
      <4>1. Keep(d, d, S)
        BY <3>1 DEF Keep
      <4>2. d \in (keep + 1)..d => ~Keep(d, d, S)
        BY <2>1 DEF IsKeep
      <4> QED
        BY <2>2, <4>1, <4>2
    <3> QED
      BY <2>4, <3>2, EmptySeq
  <2>9. base' = keep /\ keep \in 0..d
    BY <2>1, <2>2
  <2>10. Len(buffer') = d - base'
    BY <2>4, <2>9
  <2>11. \A f \in S : base' = base \/ base' = d - MaxEvents \/ base' <= index[f]
    BY <2>7, <2>9
  <2> QED
    BY <1>2, <2>4, <2>5, <2>6, <2>8, <2>9, <2>10, <2>11
<1> QED
  BY <1>1, <1>2

(* What a trim that is not part of a delivery does to the invariant.       *)
WindowInv == base \in 0..delivered /\ buffer \in Seq(Nat) /\ WindowIsTail /\ CapInv
NotAhead(f) == index[f] >= base \/ base <= delivered - MaxEvents

(* Detaching a follower only ever drops a prefix of the window, and only   *)
(* what no remaining follower waits for.                                   *)
LEMMA DetachTrims ==
  ASSUME TypeOK, WindowIsTail, CapInv, NEW S \in SUBSET Followers,
         Trim(buffer, delivered, overflowed, S), UNCHANGED <<delivered, overflowed>>
  PROVE  /\ WindowInv'
         /\ \A f \in S : NotAhead(f) => index[f] >= base' \/ base' <= delivered - MaxEvents
         /\ overflowed /\ S = {} => buffer' = <<>>
<1>1. /\ buffer \in Seq(Nat) /\ delivered \in Nat /\ overflowed \in BOOLEAN /\ base \in 0..delivered
      /\ index \in [Followers -> Nat]
  BY DEF TypeOK
<1>2. Len(buffer) = delivered - base /\ \A i \in 1..Len(buffer) : buffer[i] = base + i - 1
  BY DEF WindowIsTail
<1>3. /\ base' \in 0..delivered
      /\ buffer' \in Seq(Nat)
      /\ Len(buffer') = delivered - base'
      /\ \A i \in 1..Len(buffer') : buffer'[i] = base' + i - 1
      /\ ~overflowed => base' = base
      /\ overflowed => base' >= delivered - MaxEvents
      /\ \A f \in S : base' = base \/ base' = delivered - MaxEvents \/ base' <= index[f]
      /\ overflowed /\ S = {} => buffer' = <<>>
  BY <1>1, <1>2, TrimSuffix
<1>4. delivered' = delivered /\ overflowed' = overflowed
  OBVIOUS
<1>5. (base \in 0..delivered /\ buffer \in Seq(Nat) /\ WindowIsTail)'
  BY <1>3, <1>4 DEF WindowIsTail
<1>6. CapInv'
  BY <1>1, <1>3, <1>4, MaxEventsAssumption DEF CapInv
<1>7. ASSUME NEW f \in S, NotAhead(f)
      PROVE  index[f] >= base' \/ base' <= delivered - MaxEvents
  BY <1>1, <1>3, <1>7, MaxEventsAssumption DEF NotAhead
<1> QED
  BY <1>3, <1>5, <1>6, <1>7 DEF WindowInv

-----------------------------------------------------------------------------
(* Every action keeps IInv.                                                *)

(* The run starts in the invariant: nothing delivered, nobody following.   *)
LEMMA InitInv == Init => IInv
<1> SUFFICES ASSUME Init PROVE IInv
  OBVIOUS
<1>a. buffer \in Seq(Nat) /\ Len(buffer) = 0
  BY EmptySeq DEF Init
<1>b. /\ index \in [Followers -> 0..delivered] /\ base \in 0..delivered /\ delivered \in Nat
      /\ after \in [Followers -> Nat \cup {-1}] /\ last \in [Followers -> Nat \cup {-1}]
  BY DEF Init
<1>1. TypeOK
  BY <1>a, <1>b DEF Init, TypeOK, Places, Attached
<1>2. WindowIsTail /\ CapInv
  BY <1>a, MaxEventsAssumption DEF Init, WindowIsTail, CapInv
<1> QED
  BY <1>1, <1>2 DEF Init, IInv, ReplayInv, ReplayLogIsWhole, CursorInv, Subscribed, Attached, EndInv,
    NeverThrows, NothingRetainedForNobody

(* push(): the event joins the window and, within its cap, the log.        *)
LEMMA DeliverKeepsInv ==
  ASSUME IInv, NEW terminal \in BOOLEAN, Deliver(terminal)
  PROVE  IInv'
<1> DEFINE window == Append(buffer, delivered)
<1>1. /\ TypeOK /\ WindowIsTail /\ CapInv /\ CursorInv
      /\ delivered \in Nat /\ base \in 0..delivered /\ buffer \in Seq(Nat) /\ overflowed \in BOOLEAN
      /\ index \in [Followers -> 0..delivered] /\ at \in [Followers -> Places]
      /\ Len(buffer) = delivered - base
  BY DEF IInv, TypeOK, WindowIsTail
<1>2. /\ driver = "running" /\ delivered' = delivered + 1
      /\ overflowed' = (overflowed \/ delivered + 1 > MaxEvents)
      /\ driver' \in {"running", "terminated"}
      /\ at' = [f \in Followers |-> IF at[f] = "waiting" THEN "woken" ELSE at[f]]
      /\ UNCHANGED <<replayLog, index, after, closing, last>>
      /\ Trim(window, delivered + 1, overflowed', Subscribed)
  BY DEF Deliver, Wake
<1>3. (overflowed' <=> delivered + 1 > MaxEvents) /\ overflowed' \in BOOLEAN
  <2>1. overflowed' \in BOOLEAN /\ (overflowed' <=> overflowed \/ delivered + 1 > MaxEvents)
    BY <1>1, <1>2
  <2>2. overflowed => delivered + 1 > MaxEvents
    BY <1>1, MaxEventsAssumption DEF CapInv
  <2> QED
    BY <2>1, <2>2
<1>4. /\ window \in Seq(Nat) /\ Len(window) = delivered + 1 - base
      /\ \A i \in 1..Len(window) : window[i] = base + i - 1
  <2>1. buffer \in Seq(Nat) /\ delivered \in Nat /\ base \in Nat /\ Len(buffer) = delivered - base
    BY <1>1
  <2>2. /\ window \in Seq(Nat) /\ Len(window) = Len(buffer) + 1
        /\ \A i \in 1..Len(buffer) : window[i] = buffer[i]
        /\ window[Len(buffer) + 1] = delivered
    BY <2>1, AppendProperties
  <2>3. \A i \in 1..Len(buffer) : buffer[i] = base + i - 1
    BY <1>1 DEF WindowIsTail
  <2> HIDE DEF window
  <2>4. Len(buffer) \in Nat /\ Len(window) \in Nat /\ Len(window) = delivered + 1 - base
    BY <2>1, <2>2
  <2>5. \A i \in 1..Len(window) : i \in 1..Len(buffer) \/ i = Len(buffer) + 1
    BY <2>2, <2>4
  <2>6. Len(buffer) + 1 \in Int /\ delivered = base + (Len(buffer) + 1) - 1
    BY <2>1
  <2>7. ASSUME NEW i \in 1..Len(window)
        PROVE  window[i] = base + i - 1
    <3>1. CASE i \in 1..Len(buffer)
      BY <3>1, <2>2, <2>3
    <3>2. CASE i = Len(buffer) + 1
      BY <3>2, <2>2, <2>6
    <3> QED
      BY <2>5, <3>1, <3>2
  <2> QED
    BY <2>2, <2>4, <2>7
<1>5. Subscribed \in SUBSET Followers /\ Subscribed' = Subscribed
  BY <1>1, <1>2 DEF Subscribed, Attached
<1> HIDE DEF window
<1>6. /\ base' \in 0..(delivered + 1)
      /\ buffer' \in Seq(Nat)
      /\ Len(buffer') = delivered + 1 - base'
      /\ \A i \in 1..Len(buffer') : buffer'[i] = base' + i - 1
      /\ ~overflowed' => base' = base
      /\ overflowed' => base' >= delivered + 1 - MaxEvents
      /\ \A f \in Subscribed : base' = base \/ base' = delivered + 1 - MaxEvents \/ base' <= index[f]
      /\ overflowed' /\ Subscribed = {} => buffer' = <<>>
  <2>1. delivered + 1 \in Nat /\ base \in 0..(delivered + 1) /\ index \in [Followers -> Nat]
    BY <1>1
  <2>2. PICK over \in BOOLEAN : over = overflowed'
    BY <1>3
  <2>3. PICK d \in Nat : d = delivered + 1
    BY <2>1
  <2>4. Trim(window, d, over, Subscribed)
    BY <1>2, <2>2, <2>3
  <2>5. Len(window) = d - base /\ base \in 0..d
    BY <1>1, <1>4, <2>1, <2>3
  <2>6. /\ base' \in 0..d
        /\ buffer' \in Seq(Nat)
        /\ Len(buffer') = d - base'
        /\ \A i \in 1..Len(buffer') : buffer'[i] = base' + i - 1
        /\ ~over => base' = base
        /\ over => base' >= d - MaxEvents
        /\ \A f \in Subscribed : base' = base \/ base' = d - MaxEvents \/ base' <= index[f]
        /\ over /\ Subscribed = {} => buffer' = <<>>
    BY <1>4, <1>5, <2>1, <2>4, <2>5, TrimSuffix
  <2>7. /\ ~overflowed' => base' = base
        /\ overflowed' => base' >= d - MaxEvents
        /\ overflowed' /\ Subscribed = {} => buffer' = <<>>
    BY <2>2, <2>6
  <2>8. base' \in 0..(delivered + 1) /\ Len(buffer') = delivered + 1 - base'
    BY <1>1, <2>3, <2>6
  <2>a. d - MaxEvents = delivered + 1 - MaxEvents
    BY <1>1, <2>3, MaxEventsAssumption
  <2>9. \A f \in Subscribed : base' = base \/ base' = delivered + 1 - MaxEvents \/ base' <= index[f]
    BY <2>6, <2>a, Zenon
  <2>10. overflowed' => base' >= delivered + 1 - MaxEvents
    BY <2>7, <2>a, Zenon
  <2> QED
    BY <2>6, <2>7, <2>8, <2>9, <2>10
<1>7. TypeOK'
  <2>1. at' \in [Followers -> Places]
    BY <1>1, <1>2 DEF Places, Attached
  <2>2. (delivered \in Nat /\ base \in 0..delivered /\ buffer \in Seq(Nat) /\ overflowed \in BOOLEAN)'
    BY <1>1, <1>2, <1>3, <1>6
  <2>3. index' \in [Followers -> 0..delivered']
    BY <1>1, <1>2
  <2> QED
    BY <1>1, <1>2, <2>1, <2>2, <2>3 DEF TypeOK
<1>8. WindowIsTail'
  <2>1. Len(buffer') = delivered' - base'
    BY <1>1, <1>2, <1>6
  <2> QED
    BY <1>6, <2>1 DEF WindowIsTail
<1>9. CapInv'
  BY <1>1, <1>2, <1>3, <1>6, MaxEventsAssumption DEF CapInv
<1>10. CursorInv'
  <2> SUFFICES ASSUME NEW f \in Subscribed PROVE Cursor(f)'
    BY <1>5 DEF CursorInv
  <2>1. Cursor(f) /\ f \in Followers /\ index[f] \in 0..delivered
    BY <1>1 DEF CursorInv, Subscribed
  <2>2. index[f] >= base' \/ base' <= delivered + 1 - MaxEvents
    BY <1>1, <1>6, <2>1, MaxEventsAssumption DEF Cursor
  <2>3. last'[f] = last[f] /\ after'[f] = after[f] /\ index'[f] = index[f]
    BY <1>2
  <2>4. index'[f] >= base' \/ base' <= delivered' - MaxEvents
    BY <1>1, <1>2, <2>2, <2>3, MaxEventsAssumption
  <2> QED
    BY <2>1, <2>3, <2>4 DEF Cursor
<1>11. (ReplayInv /\ ReplayLogIsWhole /\ EndInv /\ NeverThrows)'
  <2>1. replayLog' = NoLog
    BY <1>2 DEF IInv, ReplayInv
  <2>2. \A f \in Followers : at'[f] # "ended" /\ at'[f] # "threw"
    BY <1>1, <1>2 DEF IInv, EndInv, NeverThrows
  <2> QED
    BY <2>1, <2>2 DEF ReplayInv, ReplayLogIsWhole, EndInv, NeverThrows
<1>12. NothingRetainedForNobody'
  BY <1>5, <1>6 DEF NothingRetainedForNobody
<1> QED
  BY <1>7, <1>8, <1>9, <1>10, <1>11, <1>12 DEF IInv

(* Handing the log to the store changes nothing that is read.              *)
LEMMA StoreLogKeepsInv == IInv /\ StoreLog => IInv'
<1> SUFFICES ASSUME IInv, StoreLog PROVE IInv'
  OBVIOUS
<1>1. /\ driver' = "logged" /\ UNCHANGED <<buffer, base, delivered, overflowed, at, index, after, closing, last>>
      /\ replayLog' = IF overflowed THEN NoLog ELSE buffer
      /\ driver = "terminated"
  BY DEF StoreLog, followerVars
<1>2. TypeOK'
  BY <1>1 DEF IInv, TypeOK
<1>3. ReplayLogIsWhole'
  BY <1>1 DEF IInv, TypeOK, ReplayLogIsWhole, WindowIsTail, CapInv
<1>4. (WindowIsTail /\ CapInv /\ ReplayInv /\ NeverThrows /\ NothingRetainedForNobody)'
  BY <1>1 DEF IInv, WindowIsTail, CapInv, ReplayInv, NeverThrows, NothingRetainedForNobody, Subscribed
<1>5. CursorInv'
  BY <1>1 DEF IInv, CursorInv, Cursor, Subscribed
<1>6. EndInv'
  BY <1>1 DEF IInv, EndInv
<1> QED
  BY <1>2, <1>3, <1>4, <1>5, <1>6 DEF IInv

(* finish(): the run is over, and a waiting follower learns it.            *)
LEMMA FinishKeepsInv == IInv /\ Finish => IInv'
<1> SUFFICES ASSUME IInv, Finish PROVE IInv'
  OBVIOUS
<1>1. /\ driver = "logged" /\ driver' = "finished"
      /\ at' = [f \in Followers |-> IF at[f] = "waiting" THEN "woken" ELSE at[f]]
      /\ UNCHANGED <<buffer, base, delivered, overflowed, replayLog, index, after, closing, last>>
  BY DEF Finish, Wake
<1>2. at \in [Followers -> Places]
  BY DEF IInv, TypeOK
<1>3. Subscribed' = Subscribed /\ at' \in [Followers -> Places]
  BY <1>1, <1>2 DEF Subscribed, Attached, Places
<1>4. \A f \in Followers : (at'[f] = "ended" => at[f] = "ended") /\ (at'[f] = "threw" => at[f] = "threw")
  BY <1>1
<1>5. TypeOK'
  BY <1>1, <1>3 DEF IInv, TypeOK
<1>6. CursorInv'
  BY <1>1, <1>3 DEF IInv, CursorInv, Cursor
<1>7. (EndInv /\ NeverThrows)'
  BY <1>1, <1>4 DEF IInv, EndInv, NeverThrows
<1>8. (WindowIsTail /\ CapInv /\ ReplayInv /\ ReplayLogIsWhole /\ NothingRetainedForNobody)'
  BY <1>1, <1>3 DEF IInv, WindowIsTail, CapInv, ReplayInv, ReplayLogIsWhole, NothingRetainedForNobody
<1> QED
  BY <1>5, <1>6, <1>7, <1>8 DEF IInv

-----------------------------------------------------------------------------
(* The subscriptions' actions.                                             *)

(* follow(): the new cursor starts at the front of the window.             *)
LEMMA FollowKeepsInv ==
  ASSUME IInv, NEW f \in Followers, NEW cursor \in Cursors, Follow(f, cursor)
  PROVE  IInv'
<1>1. /\ TypeOK /\ CapInv /\ CursorInv /\ EndInv /\ NeverThrows
      /\ at \in [Followers -> Places] /\ index \in [Followers -> 0..delivered]
      /\ after \in [Followers -> Nat \cup {-1}] /\ last \in [Followers -> Nat \cup {-1}]
      /\ delivered \in Nat /\ base \in 0..delivered
  BY DEF IInv, TypeOK
<1>2. /\ at[f] = "out" /\ ~overflowed
      /\ at' = [at EXCEPT ![f] = "reading"]
      /\ index' = [index EXCEPT ![f] = base]
      /\ after' = [after EXCEPT ![f] = cursor]
      /\ last' = [last EXCEPT ![f] = cursor]
      /\ UNCHANGED <<buffer, base, delivered, overflowed, driver, replayLog, closing>>
  BY DEF Follow, runVars
<1>3. cursor \in Nat \cup {-1} /\ base = 0
  BY <1>1, <1>2, CursorsAssumption DEF CapInv
<1>4. TypeOK'
  <2>1. /\ at' \in [Followers -> Places]
        /\ index' \in [Followers -> 0..delivered]
        /\ after' \in [Followers -> Nat \cup {-1}]
        /\ last' \in [Followers -> Nat \cup {-1}]
    BY <1>1, <1>2, <1>3 DEF Places, Attached
  <2> QED
    BY <1>1, <1>2, <2>1 DEF TypeOK
<1>5. CursorInv'
  <2> SUFFICES ASSUME NEW g \in Subscribed' PROVE Cursor(g)'
    BY DEF CursorInv
  <2>1. g \in Followers /\ (g # f => g \in Subscribed)
    BY <1>1, <1>2 DEF Subscribed
  <2>2. CASE g = f
    <3>1. last'[g] = cursor /\ after'[g] = cursor /\ index'[g] = base /\ base' = base
      BY <1>1, <1>2, <2>1, <2>2
    <3> QED
      BY <1>1, <1>3, <3>1 DEF Cursor
  <2>3. CASE g # f
    <3>1. /\ last'[g] = last[g] /\ after'[g] = after[g] /\ index'[g] = index[g]
          /\ base' = base /\ delivered' = delivered
      BY <1>1, <1>2, <2>1, <2>3
    <3>2. Cursor(g)
      BY <1>1, <2>1, <2>3 DEF CursorInv
    <3> QED
      BY <3>1, <3>2 DEF Cursor
  <2> QED
    BY <2>2, <2>3
<1>6. (EndInv /\ NeverThrows)'
  <2>1. \A g \in Followers : /\ at'[g] = "ended" => at[g] = "ended" /\ last'[g] = last[g]
                             /\ at'[g] = "threw" => at[g] = "threw"
    BY <1>1, <1>2
  <2> QED
    BY <1>1, <1>2, <2>1 DEF EndInv, NeverThrows
<1>7. (WindowIsTail /\ CapInv /\ ReplayInv /\ ReplayLogIsWhole /\ NothingRetainedForNobody)'
  BY <1>2 DEF IInv, WindowIsTail, CapInv, ReplayInv, ReplayLogIsWhole, NothingRetainedForNobody
<1> QED
  BY <1>4, <1>5, <1>6, <1>7 DEF IInv

(* What a subscription is about to read is in the window, and what it has  *)
(* not read yet of the window starts at its position.                      *)
LEMMA PositionIsReadable ==
  ASSUME IInv, NEW f \in Subscribed
  PROVE  /\ Position(f) \in base..delivered
         /\ ~Escaped(f)
         /\ Yieldable(f) = {p \in Position(f)..(delivered - 1) : p > after[f]}
         /\ \A p \in Yieldable(f) : EventAt(p) = p
<1>1. /\ f \in Followers /\ index[f] \in 0..delivered /\ delivered \in Nat /\ base \in 0..delivered
      /\ buffer \in Seq(Nat) /\ Len(buffer) = delivered - base
      /\ \A i \in 1..Len(buffer) : buffer[i] = base + i - 1
  BY DEF IInv, TypeOK, WindowIsTail, Subscribed
<1>2. Position(f) \in base..delivered
  BY <1>1 DEF Position
<1>3. \A p \in Position(f)..(delivered - 1) : InWindow(p) /\ EventAt(p) = p
  <2> SUFFICES ASSUME NEW p \in Position(f)..(delivered - 1) PROVE InWindow(p) /\ EventAt(p) = p
    OBVIOUS
  <2>1. p - base + 1 \in 1..Len(buffer) /\ base + (p - base + 1) - 1 = p
    BY <1>1, <1>2
  <2> QED
    BY <1>1, <2>1, LenProperties DEF InWindow, EventAt
<1>4. ~Escaped(f)
  BY <1>1, <1>2, <1>3 DEF Escaped
<1> QED
  BY <1>2, <1>3, <1>4 DEF Yieldable

(* The event a pull yields is past everything yielded before, and the next *)
(* one unless the subscriber has been lapped.                              *)
LEMMA YieldIsNext ==
  ASSUME IInv, NEW f \in Subscribed, NEW p \in Yieldable(f), \A q \in Yieldable(f) : p <= q
  PROVE  /\ p \in base..(delivered - 1) /\ EventAt(p) = p
         /\ p > last[f]
         /\ p = last[f] + 1 \/ last[f] + 1 < delivered - MaxEvents
<1>1. /\ f \in Followers /\ index[f] \in 0..delivered /\ delivered \in Nat /\ base \in 0..delivered
      /\ last[f] \in Int /\ after[f] \in Int /\ Cursor(f)
  BY DEF IInv, TypeOK, CursorInv, Subscribed
<1>2. /\ Position(f) \in base..delivered
      /\ Yieldable(f) = {q \in Position(f)..(delivered - 1) : q > after[f]}
      /\ EventAt(p) = p
  BY PositionIsReadable
<1>3. p \in Position(f)..(delivered - 1) /\ p > after[f]
  BY <1>2
<1>4. p \in base..(delivered - 1) /\ p >= index[f]
  BY <1>1, <1>2, <1>3 DEF Position
<1>5. p > last[f]
  BY <1>1, <1>3, <1>4 DEF Cursor
<1>6. ASSUME p # last[f] + 1 PROVE last[f] + 1 < delivered - MaxEvents
  <2>1. last[f] + 1 < p /\ last[f] + 1 > after[f] /\ last[f] + 1 <= delivered - 1
    BY <1>1, <1>3, <1>5, <1>6 DEF Cursor
  <2>2. last[f] + 1 \notin Yieldable(f)
    BY <1>1, <1>3, <2>1
  <2>3. last[f] + 1 < Position(f)
    BY <1>1, <1>2, <2>1, <2>2
  <2>4. index[f] < base /\ Position(f) = base
    BY <1>1, <2>3 DEF Position, Cursor
  <2> QED
    BY <1>1, <2>3, <2>4, MaxEventsAssumption DEF Cursor
<1> QED
  BY <1>2, <1>4, <1>5, <1>6

(* A subscription with nothing left to yield has been given all there is.  *)
LEMMA CaughtUpHasAll ==
  ASSUME IInv, NEW f \in Subscribed, Yieldable(f) = {}
  PROVE  last[f] >= delivered - 1
<1>1. /\ f \in Followers /\ index[f] \in 0..delivered /\ delivered \in Nat /\ base \in 0..delivered
      /\ last[f] \in Int /\ after[f] \in Int /\ Cursor(f)
  BY DEF IInv, TypeOK, CursorInv, Subscribed
<1>2. /\ Position(f) \in base..delivered
      /\ \A q \in Position(f)..(delivered - 1) : q <= after[f]
  BY <1>1, PositionIsReadable
<1>3. CASE Position(f) < delivered
  BY <1>1, <1>2, <1>3 DEF Cursor
<1>4. CASE Position(f) = delivered
  <2>1. index[f] = delivered
    BY <1>1, <1>4, MaxEventsAssumption DEF Position, Cursor
  <2> QED
    BY <1>1, <2>1 DEF Cursor
<1> QED
  BY <1>1, <1>2, <1>3, <1>4

(* A subscription that goes, from wherever its cursor is: the others keep  *)
(* theirs.                                                                 *)
MovesOnly(f) ==
  /\ index' \in [Followers -> 0..delivered]
  /\ last' \in [Followers -> Nat \cup {-1}]
  /\ \A g \in Followers \ {f} : index'[g] = index[g] /\ last'[g] = last[g]

(* A follower that stops takes its cursor away, and the window with it if  *)
(* nobody needs it.                                                        *)
LEMMA DetachKeepsInv ==
  ASSUME IInv, NEW f \in Subscribed, NEW place \in {"gone", "ended"}, Detach(f, place), MovesOnly(f),
         UNCHANGED <<delivered, overflowed, driver, replayLog, after, closing>>,
         place = "ended" => driver = "finished" /\ last'[f] >= delivered - 1
  PROVE  IInv'
<1>1. /\ TypeOK /\ WindowIsTail /\ CapInv /\ f \in Followers /\ Subscribed \in SUBSET Followers
      /\ at \in [Followers -> Places] /\ delivered \in Nat /\ base \in 0..delivered
  BY DEF IInv, TypeOK, Subscribed
<1>2. /\ at' = [at EXCEPT ![f] = place]
      /\ Trim(buffer, delivered, overflowed, Subscribed \ {f})
  BY DEF Detach
<1>3. /\ WindowInv'
      /\ \A g \in Subscribed \ {f} :
            NotAhead(g) => index[g] >= base' \/ base' <= delivered - MaxEvents
      /\ overflowed /\ Subscribed \ {f} = {} => buffer' = <<>>
  BY <1>1, <1>2, DetachTrims
<1>4. Subscribed' = Subscribed \ {f} /\ at' \in [Followers -> Places]
  BY <1>1, <1>2 DEF Subscribed, Attached, Places
<1>5. TypeOK'
  BY <1>3, <1>4 DEF IInv, TypeOK, WindowInv, MovesOnly
<1>6. CursorInv'
  <2> SUFFICES ASSUME NEW g \in Subscribed \ {f} PROVE Cursor(g)'
    BY <1>4 DEF CursorInv
  <2>1. /\ g \in Followers /\ Cursor(g) /\ index'[g] = index[g] /\ last'[g] = last[g] /\ after'[g] = after[g]
        /\ delivered' = delivered
    BY <1>1 DEF IInv, CursorInv, MovesOnly
  <2>2. index[g] >= base' \/ base' <= delivered - MaxEvents
    BY <1>3, <2>1 DEF Cursor, NotAhead
  <2> QED
    BY <2>1, <2>2 DEF Cursor
<1>7. (EndInv /\ NeverThrows)'
  <2>1. \A g \in Followers \ {f} : at'[g] = at[g] /\ last'[g] = last[g]
    BY <1>1, <1>2 DEF MovesOnly
  <2>2. at'[f] = place
    BY <1>1, <1>2
  <2> QED
    BY <2>1, <2>2 DEF IInv, EndInv, NeverThrows
<1>8. NothingRetainedForNobody'
  BY <1>3, <1>4 DEF NothingRetainedForNobody
<1>9. (ReplayInv /\ ReplayLogIsWhole)'
  BY DEF IInv, ReplayInv, ReplayLogIsWhole
<1> QED
  BY <1>3, <1>5, <1>6, <1>7, <1>8, <1>9 DEF IInv, WindowInv

(* A subscription that stays, from one place in its loop to the next.      *)
LEMMA StayKeepsInv ==
  ASSUME IInv, NEW f \in Subscribed, NEW place \in Attached, at' = [at EXCEPT ![f] = place], MovesOnly(f),
         UNCHANGED <<buffer, base, delivered, overflowed, driver, replayLog, after>>,
         closing' \in [Followers -> BOOLEAN],
         Cursor(f)'
  PROVE  IInv'
<1>1. /\ f \in Followers /\ at \in [Followers -> Places]
  BY DEF IInv, TypeOK, Subscribed
<1>2. Subscribed' = Subscribed /\ at' \in [Followers -> Places]
  BY <1>1 DEF Subscribed, Attached, Places
<1>3. TypeOK'
  BY <1>2 DEF IInv, TypeOK, MovesOnly
<1>4. CursorInv'
  <2> SUFFICES ASSUME NEW g \in Subscribed \ {f} PROVE Cursor(g)'
    BY <1>2 DEF CursorInv
  <2>1. g \in Followers /\ Cursor(g) /\ index'[g] = index[g] /\ last'[g] = last[g] /\ after'[g] = after[g]
    BY <1>1 DEF IInv, CursorInv, MovesOnly, Subscribed
  <2> QED
    BY <2>1 DEF Cursor
<1>5. (EndInv /\ NeverThrows)'
  <2>1. \A g \in Followers \ {f} : at'[g] = at[g] /\ last'[g] = last[g]
    BY <1>1 DEF MovesOnly
  <2>2. at'[f] = place
    BY <1>1
  <2> QED
    BY <2>1, <2>2 DEF IInv, EndInv, NeverThrows, Attached
<1>6. (WindowIsTail /\ CapInv /\ ReplayInv /\ ReplayLogIsWhole /\ NothingRetainedForNobody)'
  BY <1>2 DEF IInv, WindowIsTail, CapInv, ReplayInv, ReplayLogIsWhole, NothingRetainedForNobody
<1> QED
  BY <1>3, <1>4, <1>5, <1>6 DEF IInv

(* A follower yields the event at its cursor and moves on by one.          *)
LEMMA YieldKeepsInv ==
  ASSUME IInv, NEW f \in Followers, Yield(f)
  PROVE  IInv'
<1>1. f \in Subscribed
  BY DEF Yield, Subscribed, Attached
<1>2. /\ index \in [Followers -> 0..delivered] /\ last \in [Followers -> Nat \cup {-1}]
      /\ delivered \in Nat /\ base \in 0..delivered /\ Cursor(f) /\ closing \in [Followers -> BOOLEAN]
  BY <1>1 DEF IInv, TypeOK, CursorInv
<1>3. PICK p \in Yieldable(f) : /\ \A q \in Yieldable(f) : p <= q
                                /\ index' = [index EXCEPT ![f] = p + 1]
                                /\ last' = [last EXCEPT ![f] = EventAt(p)]
  BY DEF Yield
<1>4. p \in base..(delivered - 1) /\ EventAt(p) = p /\ p > last[f]
  BY <1>1, <1>3, YieldIsNext
<1>5. MovesOnly(f)
  BY <1>2, <1>3, <1>4 DEF MovesOnly
<1>6. UNCHANGED <<delivered, overflowed, driver, replayLog, after, closing>>
  BY DEF Yield
<1>7. CASE closing[f]
  <2>1. Detach(f, "gone")
    BY <1>7 DEF Yield
  <2> QED
    BY <1>1, <1>5, <1>6, <2>1, DetachKeepsInv
<1>8. CASE ~closing[f]
  <2>1. at' = [at EXCEPT ![f] = "reading"] /\ UNCHANGED <<base, buffer>>
    BY <1>8 DEF Yield
  <2>2. last'[f] = p /\ index'[f] = p + 1
    BY <1>2, <1>3, <1>4
  <2>3. Cursor(f)'
    <3>1. after'[f] = after[f] /\ base' = base /\ after[f] \in Int /\ last[f] \in Int
      BY <1>2, <1>6, <2>1 DEF IInv, TypeOK
    <3>2. p >= after[f] /\ p + 1 >= base
      BY <1>2, <1>4, <3>1 DEF Cursor
    <3> QED
      BY <1>2, <1>4, <2>2, <3>1, <3>2 DEF Cursor
  <2>4. "reading" \in Attached
    BY DEF Attached
  <2> QED
    BY <1>1, <1>2, <1>5, <1>6, <2>1, <2>3, <2>4, StayKeepsInv
<1> QED
  BY <1>7, <1>8

(* A follower that has caught up waits, ends with the run, or throws.      *)
LEMMA CaughtUpKeepsInv ==
  ASSUME IInv, NEW f \in Followers, CaughtUp(f)
  PROVE  IInv'
<1>1. f \in Subscribed
  BY DEF CaughtUp, Subscribed, Attached
<1>2. /\ index \in [Followers -> 0..delivered] /\ last \in [Followers -> Nat \cup {-1}]
      /\ delivered \in Nat /\ base \in 0..delivered /\ Cursor(f) /\ closing \in [Followers -> BOOLEAN]
      /\ after \in [Followers -> Nat \cup {-1}]
  BY <1>1 DEF IInv, TypeOK, CursorInv
<1>3. /\ Yieldable(f) = {} /\ index' = [index EXCEPT ![f] = delivered]
      /\ UNCHANGED <<delivered, overflowed, driver, replayLog, after, closing, last>>
  BY DEF CaughtUp
<1>4. last[f] >= delivered - 1 /\ ~Escaped(f)
  BY <1>1, <1>3, CaughtUpHasAll, PositionIsReadable
<1>5. MovesOnly(f)
  BY <1>2, <1>3 DEF MovesOnly
<1>6. CASE driver = "finished"
  <2>1. Detach(f, "ended")
    BY <1>4, <1>6 DEF CaughtUp
  <2> QED
    BY <1>1, <1>3, <1>4, <1>5, <1>6, <2>1, DetachKeepsInv
<1>7. CASE driver # "finished"
  <2>1. at' = [at EXCEPT ![f] = "waiting"] /\ UNCHANGED <<base, buffer>>
    BY <1>4, <1>7 DEF CaughtUp
  <2>2. Cursor(f)'
    <3>1. index'[f] = delivered /\ last'[f] = last[f] /\ after'[f] = after[f] /\ base' = base /\ delivered' = delivered
      BY <1>2, <1>3, <2>1
    <3> QED
      BY <1>2, <1>4, <3>1 DEF Cursor
  <2>3. "waiting" \in Attached
    BY DEF Attached
  <2> QED
    BY <1>1, <1>2, <1>3, <1>5, <2>1, <2>2, <2>3, StayKeepsInv
<1> QED
  BY <1>6, <1>7

(* A client that goes away ends its subscription, at once or at its next   *)
(* yield.                                                                  *)
LEMMA LeaveKeepsInv ==
  ASSUME IInv, NEW f \in Followers, Leave(f)
  PROVE  IInv'
<1>1. f \in Subscribed
  BY DEF Leave, Subscribed, Attached
<1>2. /\ index \in [Followers -> 0..delivered] /\ last \in [Followers -> Nat \cup {-1}]
      /\ at \in [Followers -> Places] /\ closing \in [Followers -> BOOLEAN] /\ Cursor(f)
  BY <1>1 DEF IInv, TypeOK, CursorInv
<1>3. MovesOnly(f)
  BY <1>2 DEF Leave, MovesOnly
<1>4. CASE at[f] = "reading"
  <2>1. Detach(f, "gone") /\ UNCHANGED <<delivered, overflowed, driver, replayLog, index, after, closing, last>>
    BY <1>4 DEF Leave
  <2> QED
    BY <1>1, <1>3, <2>1, DetachKeepsInv
<1>5. CASE at[f] # "reading"
  <2>1. closing' = [closing EXCEPT ![f] = TRUE] /\ UNCHANGED <<runVars, at, index, after, last>>
    BY <1>5 DEF Leave
  <2>2. at' = [at EXCEPT ![f] = at[f]] /\ at[f] \in Attached
    BY <1>1, <1>2, <2>1 DEF Subscribed
  <2>3. closing' \in [Followers -> BOOLEAN]
    BY <1>2, <2>1
  <2>4. Cursor(f)'
    BY <1>2, <2>1 DEF Cursor, runVars
  <2> QED
    BY <1>1, <1>3, <2>1, <2>2, <2>3, <2>4, StayKeepsInv DEF runVars
<1> QED
  BY <1>4, <1>5

-----------------------------------------------------------------------------
(* IInv is an invariant.                                                   *)

(* Every step keeps the invariant.                                         *)
LEMMA StepInv == IInv /\ [Next]_vars => IInv'
<1> SUFFICES ASSUME IInv, [Next]_vars PROVE IInv'
  OBVIOUS
<1>1. ASSUME NEW terminal \in BOOLEAN, Deliver(terminal) PROVE IInv'
  BY <1>1, DeliverKeepsInv
<1>2. CASE StoreLog
  BY <1>2, StoreLogKeepsInv
<1>3. CASE Finish
  BY <1>3, FinishKeepsInv
<1>4. ASSUME NEW f \in Followers, NEW cursor \in Cursors, Follow(f, cursor) PROVE IInv'
  BY <1>4, FollowKeepsInv
<1>5. ASSUME NEW f \in Followers, Pull(f) PROVE IInv'
  BY <1>5, YieldKeepsInv, CaughtUpKeepsInv DEF Pull
<1>6. ASSUME NEW f \in Followers, Leave(f) PROVE IInv'
  BY <1>6, LeaveKeepsInv
<1>7. CASE UNCHANGED vars
  BY <1>7 DEF IInv, TypeOK, WindowIsTail, CapInv, ReplayInv, ReplayLogIsWhole, CursorInv, Cursor, Subscribed,
    EndInv, NeverThrows, NothingRetainedForNobody, vars, runVars, followerVars
<1> QED
  BY <1>1, <1>2, <1>3, <1>4, <1>5, <1>6, <1>7 DEF Next, RunStep, Quiescent

(* The inductive invariant holds throughout.                               *)
THEOREM Invariance == Spec => []IInv
BY InitInv, StepInv, PTL DEF Spec

(* Every variable keeps its type, and the window stays the exact tail of   *)
(* the stream, in every run of any length over any cap.                    *)
THEOREM TypeCorrect == Spec => [](TypeOK /\ WindowIsTail)
<1>1. IInv => TypeOK /\ WindowIsTail
  BY DEF IInv
<1> QED
  BY <1>1, Invariance, PTL

(* maxStreamEvents bounds the memory of a run whatever its clients do.     *)
THEOREM MemoryIsBounded == Spec => []MemoryBounded
<1>1. IInv => MemoryBounded
  <2> SUFFICES ASSUME IInv PROVE MemoryBounded
    OBVIOUS
  <2>1. base \in Int /\ delivered \in Int /\ Len(buffer) = delivered - base /\ base >= delivered - MaxEvents
    BY DEF IInv, TypeOK, WindowIsTail, CapInv
  <2> QED
    BY <2>1, MaxEventsAssumption DEF MemoryBounded
<1> QED
  BY <1>1, Invariance, PTL

(* The error of the generator, a cursor outside the window, is dead code.  *)
THEOREM SubscriberNeverThrows == Spec => []NeverThrows
<1>1. IInv => NeverThrows
  BY DEF IInv
<1> QED
  BY <1>1, Invariance, PTL

(* A stored replay log is the whole stream.                                *)
THEOREM StoredLogIsWhole == Spec => []ReplayLogIsWhole
<1>1. IInv => ReplayLogIsWhole
  BY DEF IInv
<1> QED
  BY <1>1, Invariance, PTL

(* A subscription ends of its own accord only after the terminal event.    *)
THEOREM EndsWithTheTerminal == Spec => []EndsWithTerminal
<1>1. IInv => EndsWithTerminal
  BY DEF IInv, EndInv, EndsWithTerminal
<1> QED
  BY <1>1, Invariance, PTL

(* Whoever gets the stream to its end has it to the terminal event: the    *)
(* two theorems above.                                                     *)
THEOREM StreamsAreWhole == Spec => []StreamIsWhole
<1>1. ReplayLogIsWhole /\ EndsWithTerminal => StreamIsWhole
  BY DEF StreamIsWhole
<1> QED
  BY <1>1, StoredLogIsWhole, EndsWithTheTerminal, PTL

(* Past the cap the window holds nothing nobody is subscribed to.          *)
THEOREM NothingIsRetained == Spec => []NothingRetainedForNobody
<1>1. IInv => NothingRetainedForNobody
  BY DEF IInv
<1> QED
  BY <1>1, Invariance, PTL

(* Events arrive in order and without a gap, unless the subscriber is more *)
(* than MaxEvents behind.                                                  *)
THEOREM GapsOnlyForTheLapped == Spec => GapOnlyWhenLapped
<1> DEFINE NoGap ==
      \A f \in Followers :
        (at[f] \in Attached /\ last'[f] # last[f])
        => \/ last'[f] = last[f] + 1
           \/ last'[f] > last[f] /\ last[f] + 1 < delivered - MaxEvents
<1>1. IInv /\ [Next]_vars => [NoGap]_vars
  <2> SUFFICES ASSUME IInv, Next, NEW f \in Followers, at[f] \in Attached, last'[f] # last[f]
               PROVE  \/ last'[f] = last[f] + 1
                      \/ last'[f] > last[f] /\ last[f] + 1 < delivered - MaxEvents
    OBVIOUS
  <2>1. last \in [Followers -> Nat \cup {-1}]
    BY DEF IInv, TypeOK
  <2>2. Yield(f)
    <3>1. ASSUME NEW g \in Followers, NEW cursor \in Cursors, Follow(g, cursor) PROVE FALSE
      BY <2>1, <3>1 DEF Follow, Attached
    <3>2. ASSUME NEW g \in Followers, Yield(g), g # f PROVE FALSE
      BY <2>1, <3>2 DEF Yield
    <3> QED
      BY <3>1, <3>2 DEF Next, RunStep, Deliver, StoreLog, Finish, Pull, CaughtUp, Leave, Quiescent,
        followerVars, vars
  <2>3. PICK p \in Yieldable(f) : /\ \A q \in Yieldable(f) : p <= q
                                  /\ last' = [last EXCEPT ![f] = EventAt(p)]
    BY <2>2 DEF Yield
  <2>4. f \in Subscribed
    BY DEF Subscribed
  <2> QED
    BY <2>1, <2>3, <2>4, YieldIsNext
<1>2. Spec => [][NoGap]_vars
  BY <1>1, Invariance, PTL DEF Spec
<1> QED
  BY <1>2 DEF GapOnlyWhenLapped

-----------------------------------------------------------------------------
(* The streamed foreground turn.                                           *)

(* Nothing is offered to the store before the commit, and the claim is     *)
(* held.                                                                   *)
OpeningInv ==
  answer = "opening" => claimed /\ source = "busy" /\ tracked = "queued" /\ writer = "parked" /\ puts = {}

(* Who offers the turn to the store: the writer, with its attempt, or the  *)
(* teardown of a source that is closed and that nothing was attempted of.  *)
OfferInv ==
  /\ puts \subseteq {"writer", "teardown"} /\ settled \subseteq puts
  /\ attempted <=> "writer" \in puts
  /\ "teardown" \in puts => source = "closed" /\ "writer" \notin puts

(* The client was told of the end by a put that is over.                   *)
ToldInv == told \in Terminals => record = told /\ "writer" \in settled

ForegroundInv == OpeningInv /\ OfferInv /\ ToldInv /\ ReleasedLast

(* The request has arrived.                                                *)
LEMMA ForegroundInitInv == ASSUME ForegroundInit PROVE ForegroundInv
BY DEF ForegroundInit, ForegroundInv, OpeningInv, OfferInv, ToldInv, ReleasedLast, Terminals

(* A step that leaves the store and the claim alone, and neither opens a   *)
(* closed source nor tells of an end.                                      *)
Ordinary ==
  /\ UNCHANGED recordVars /\ claimed' = claimed
  /\ \/ answer = "committed" /\ answer' = answer
     \/ answer' = "committed" /\ claimed
  /\ source = "closed" => source' = "closed"
  /\ told' = told \/ told' \notin Terminals
LEMMA OrdinaryInv == ASSUME ForegroundInv, Ordinary PROVE ForegroundInv'
BY DEF ForegroundInv, OpeningInv, OfferInv, ToldInv, ReleasedLast, Ordinary, recordVars

(* What a yield tells.                                                     *)
LEMMA YieldTells == ASSUME NEW event, Yields(event) PROVE told' = told \/ told' = event
BY DEF Yields, Finally

(* The steps before and at the commit.                                     *)
LEMMA FirstArrivesInv == ASSUME ForegroundInv, FirstArrives PROVE ForegroundInv'
<1>1. Ordinary BY DEF FirstArrives, Ordinary, ForegroundInv, OpeningInv, Terminals
<1> QED BY <1>1, OrdinaryInv
LEMMA FirstFailsInv == ASSUME ForegroundInv, FirstFails PROVE ForegroundInv'
BY DEF ForegroundInv, OpeningInv, OfferInv, ToldInv, ReleasedLast, FirstFails, recordVars

(* The body, the writer and the client.                                    *)
LEMMA ReadInv == ASSUME ForegroundInv, Read PROVE ForegroundInv'
<1>1. Ordinary BY DEF Read, Ordinary
<1> QED BY <1>1, OrdinaryInv
LEMMA EmitInv == ASSUME ForegroundInv, Emit PROVE ForegroundInv'
<1>1. told' = told \/ told' = "output" BY YieldTells DEF Emit
<1>2. Ordinary BY <1>1 DEF Emit, Ordinary, Terminals
<1> QED BY <1>2, OrdinaryInv
LEMMA SourceEndsInv == ASSUME ForegroundInv, SourceEnds PROVE ForegroundInv'
<1>1. Ordinary BY DEF SourceEnds, Ordinary
<1> QED BY <1>1, OrdinaryInv
LEMMA CancelInv == ASSUME ForegroundInv, Cancel PROVE ForegroundInv'
<1>1. Ordinary BY DEF Cancel, Ordinary
<1> QED BY <1>1, OrdinaryInv

(* An abort, and a drain, change nothing of it.                            *)
LEMMA NothingChanges ==
  ASSUME ForegroundInv, UNCHANGED <<answer, source, tracked, writer, recordVars, claimed, told>>
  PROVE  ForegroundInv'
BY DEF ForegroundInv, OpeningInv, OfferInv, ToldInv, ReleasedLast, recordVars

(* The writer offers the turn: its source is at work, so that no teardown  *)
(* has done so.                                                            *)
LEMMA TerminateInv == ASSUME ForegroundInv, NEW status \in Terminals, Terminate(status) PROVE ForegroundInv'
<1>1. /\ answer = "committed" /\ answer' = answer /\ source = "busy" /\ source' = "idle"
      /\ attempted' = TRUE /\ puts' = puts \cup {"writer"} /\ told' = told
      /\ settled' = settled /\ record' = record /\ claimed' = claimed
  BY DEF Terminate, OnTerminal, bodyVars
<1>2. OpeningInv' BY <1>1 DEF OpeningInv
<1>3. OfferInv' BY <1>1 DEF ForegroundInv, OfferInv
<1>4. ToldInv' BY <1>1 DEF ForegroundInv, ToldInv
<1>5. ReleasedLast' BY <1>1 DEF ForegroundInv, ReleasedLast
<1> QED BY <1>2, <1>3, <1>4, <1>5 DEF ForegroundInv

(* The teardown offers the turn, unless the writer has done so.            *)
LEMMA SourceReturnsInv == ASSUME ForegroundInv, SourceReturns PROVE ForegroundInv'
<1>1. /\ source # "busy" /\ source' = "closed" /\ answer' = answer /\ EnsureAttempted
      /\ attempted' = attempted /\ settled' = settled /\ record' = record /\ told' = told
  BY DEF SourceReturns
<1>2. answer # "opening" BY <1>1 DEF ForegroundInv, OpeningInv
<1>3. OpeningInv' BY <1>1, <1>2 DEF OpeningInv
<1>4. ToldInv' BY <1>1 DEF ForegroundInv, ToldInv
<1>5. CASE attempted
  <2>1. puts' = puts /\ claimed' = FALSE /\ "writer" \in puts
    BY <1>1, <1>5 DEF EnsureAttempted, ForegroundInv, OfferInv
  <2>2. OfferInv' BY <1>1, <2>1 DEF ForegroundInv, OfferInv
  <2>3. ReleasedLast' BY <1>1, <2>1 DEF ReleasedLast
  <2> QED BY <1>3, <1>4, <2>2, <2>3 DEF ForegroundInv
<1>6. CASE ~attempted
  <2>1. puts' = puts \cup {"teardown"} /\ claimed' = claimed /\ "writer" \notin puts
    BY <1>1, <1>6 DEF EnsureAttempted, ForegroundInv, OfferInv
  <2>2. OfferInv' BY <1>1, <1>6, <2>1 DEF ForegroundInv, OfferInv
  <2>3. ReleasedLast' BY <1>1, <2>1 DEF ReleasedLast
  <2> QED BY <1>3, <1>4, <2>2, <2>3 DEF ForegroundInv
<1> QED BY <1>5, <1>6

(* The put of the writer is over: what the client is told is what is       *)
(* recorded.                                                               *)
LEMMA TerminalStoredInv == ASSUME ForegroundInv, TerminalStored PROVE ForegroundInv'
<1>1. /\ "writer" \in puts \ settled /\ settled' = settled \cup {"writer"} /\ answer' = answer
      /\ source' = source /\ attempted' = attempted /\ puts' = puts /\ claimed' = claimed /\ tracked' = tracked
  BY DEF TerminalStored, PutSettles
<1>2. told \notin Terminals BY <1>1 DEF ForegroundInv, ToldInv
<1>3. told' \in Terminals => record' = told'
  <2>1. CASE record' = tracked /\ Yields(tracked)
    <3>1. told' = told \/ told' = tracked BY <2>1, YieldTells
    <3> QED BY <1>2, <2>1, <3>1
  <2>2. CASE UNCHANGED record /\ Yields("unstored")
    <3>1. told' = told \/ told' = "unstored" BY <2>2, YieldTells
    <3> QED BY <1>2, <3>1 DEF Terminals
  <2> QED BY <2>1, <2>2 DEF TerminalStored
<1>4. ToldInv' BY <1>1, <1>3 DEF ToldInv
<1>5. answer # "opening" BY <1>1 DEF ForegroundInv, OpeningInv
<1>6. OpeningInv' BY <1>1, <1>5 DEF OpeningInv
<1>7. OfferInv' BY <1>1 DEF ForegroundInv, OfferInv
<1>8. ReleasedLast' BY <1>1 DEF ForegroundInv, ReleasedLast
<1> QED BY <1>4, <1>6, <1>7, <1>8 DEF ForegroundInv

(* The put of the teardown is over: nobody has been told of an end.        *)
LEMMA PartialStoredInv == ASSUME ForegroundInv, PartialStored PROVE ForegroundInv'
<1>1. /\ "teardown" \in puts \ settled /\ settled' = settled \cup {"teardown"} /\ answer' = answer
      /\ source' = source /\ attempted' = attempted /\ puts' = puts /\ claimed' = FALSE /\ told' = told
  BY DEF PartialStored, PutSettles
<1>2. source = "closed" /\ "writer" \notin settled BY <1>1 DEF ForegroundInv, OfferInv
<1>3. answer # "opening" BY <1>1 DEF ForegroundInv, OpeningInv
<1>4. OpeningInv' BY <1>1, <1>3 DEF OpeningInv
<1>5. OfferInv' BY <1>1 DEF ForegroundInv, OfferInv
<1>6. ToldInv' BY <1>1, <1>2 DEF ForegroundInv, ToldInv
<1>7. ReleasedLast' BY <1>1, <1>2 DEF ReleasedLast
<1> QED BY <1>4, <1>5, <1>6, <1>7 DEF ForegroundInv

(* Every step keeps the invariant.                                         *)
LEMMA ForegroundNextInv == ASSUME ForegroundInv, [ForegroundNext]_foregroundVars PROVE ForegroundInv'
<1>1. ASSUME NEW status \in Terminals, Terminate(status) PROVE ForegroundInv' BY <1>1, TerminateInv
<1>2. ASSUME Disconnect PROVE ForegroundInv' BY <1>2, NothingChanges DEF Disconnect, bodyVars
<1>3. ASSUME Drain PROVE ForegroundInv' BY <1>3, NothingChanges DEF Drain, bodyVars
<1>4. ASSUME DrainEnds PROVE ForegroundInv' BY <1>4, NothingChanges DEF DrainEnds, bodyVars
<1>5. ASSUME UNCHANGED foregroundVars PROVE ForegroundInv' BY <1>5, NothingChanges DEF foregroundVars, bodyVars
<1>6. ASSUME ForegroundDone PROVE ForegroundInv' BY <1>5, <1>6 DEF ForegroundDone
<1> QED BY <1>1, <1>2, <1>3, <1>4, <1>5, <1>6, FirstArrivesInv, FirstFailsInv, ReadInv, EmitInv, SourceEndsInv,
           CancelInv, SourceReturnsInv, TerminalStoredInv, PartialStoredInv
       DEF ForegroundNext, HandlerStep, StoreStep

(* A streamed turn is recorded once, ahead of the terminal event that its  *)
(* client reads and of the end of its claim, whoever tears it down and     *)
(* whatever the store does (terminal.ts, onTerminal and ensureAttempted;   *)
(* foreground.ts, windDown).                                               *)
THEOREM RecordedFirst == ForegroundSpec => []RecordedOnceFirst
<1>1. ForegroundInit => ForegroundInv BY ForegroundInitInv
<1>2. ForegroundInv /\ [ForegroundNext]_foregroundVars => ForegroundInv' BY ForegroundNextInv
<1>3. ForegroundInv => RecordedOnceFirst
  BY DEF ForegroundInv, OfferInv, ToldInv, RecordedOnceFirst, TerminalIsStored, PersistedOnce
<1> QED BY <1>1, <1>2, <1>3, PTL DEF ForegroundSpec
=============================================================================
