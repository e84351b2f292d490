------------------------------ MODULE SequenceLemmas ------------------------------
(***************************************************************************)
(* What the operators on sequences make of one: the lemmas that the proofs *)
(* about more than one component need.                                     *)
(***************************************************************************)
EXTENDS Naturals, Sequences, SequencesExt, TLAPS, SequenceTheorems

(* One element is removed: those before it stay, those behind it move up.  *)
LEMMA RemoveAtProperties ==
  ASSUME NEW T, NEW s \in Seq(T), NEW i \in 1 .. Len(s)
  PROVE  /\ RemoveAt(s, i) \in Seq(T) /\ Len(RemoveAt(s, i)) = Len(s) - 1
         /\ \A j \in 1 .. Len(s) : j < i => RemoveAt(s, i)[j] = s[j]
         /\ \A j \in 1 .. Len(s) : j > i => RemoveAt(s, i)[j - 1] = s[j]
<1>1. Len(s) \in Nat /\ i \in Nat /\ 1 <= i /\ i <= Len(s) /\ \A j \in 1 .. Len(s) : s[j] \in T OBVIOUS
<1>2. PICK a : a = SubSeq(s, 1, i - 1) OBVIOUS
<1>3. a \in Seq(T) /\ Len(a) = i - 1 /\ \A j \in 1 .. i - 1 : a[j] = s[j]
  <2>1. \A j \in 1 .. i - 1 : s[j] \in T BY <1>1
  <2>2. i - 1 \in Int /\ 1 \in Int BY <1>1
  <2>3. /\ a \in Seq(T) /\ Len(a) = IF 1 <= i - 1 THEN i - 1 - 1 + 1 ELSE 0
        /\ \A j \in 1 .. i - 1 - 1 + 1 : a[j] = s[1 + j - 1]
    BY <1>2, <2>1, <2>2, SubSeqProperties
  <2>4. i - 1 - 1 + 1 = i - 1 /\ \A j \in 1 .. i - 1 : 1 + j - 1 = j BY <1>1
  <2>5. Len(a) = i - 1 BY <1>1, <2>3
  <2>6. \A j \in 1 .. i - 1 : a[j] = s[j] BY <2>3, <2>4
  <2> QED BY <2>3, <2>5, <2>6
<1>4. PICK b : b = SubSeq(s, i + 1, Len(s)) OBVIOUS
<1>5. b \in Seq(T) /\ Len(b) = Len(s) - i /\ \A j \in 1 .. Len(s) - i : b[j] = s[i + j]
  <2>1. \A j \in i + 1 .. Len(s) : s[j] \in T BY <1>1
  <2>2. i + 1 \in Int /\ Len(s) \in Int BY <1>1
  <2>3. /\ b \in Seq(T) /\ Len(b) = IF i + 1 <= Len(s) THEN Len(s) - (i + 1) + 1 ELSE 0
        /\ \A j \in 1 .. Len(s) - (i + 1) + 1 : b[j] = s[i + 1 + j - 1]
    BY <1>4, <2>1, <2>2, SubSeqProperties
  <2>4. Len(s) - (i + 1) + 1 = Len(s) - i /\ \A j \in 1 .. Len(s) - i : i + 1 + j - 1 = i + j BY <1>1
  <2>5. Len(b) = Len(s) - i BY <1>1, <2>3
  <2>6. \A j \in 1 .. Len(s) - i : b[j] = s[i + j] BY <2>3, <2>4
  <2> QED BY <2>3, <2>5, <2>6
<1>6. PICK c : c = a \o b OBVIOUS
<1>7. c = RemoveAt(s, i) BY <1>2, <1>4, <1>6 DEF RemoveAt
<1>8. /\ c \in Seq(T) /\ Len(c) = Len(a) + Len(b)
      /\ \A j \in 1 .. Len(a) + Len(b) : c[j] = IF j <= Len(a) THEN a[j] ELSE b[j - Len(a)]
  BY <1>3, <1>5, <1>6, ConcatProperties
<1>9. Len(c) = Len(s) - 1 BY <1>1, <1>3, <1>5, <1>8
<1>10. ASSUME NEW j \in 1 .. Len(s), j < i PROVE c[j] = s[j]
  <2>1. j \in 1 .. Len(a) + Len(b) /\ j <= Len(a) /\ j \in 1 .. i - 1 BY <1>1, <1>3, <1>5, <1>10
  <2> QED BY <2>1, <1>8, <1>3
<1>11. ASSUME NEW j \in 1 .. Len(s), j > i PROVE c[j - 1] = s[j]
  <2>1. /\ j - 1 \in 1 .. Len(a) + Len(b) /\ ~(j - 1 <= Len(a)) /\ j - 1 - Len(a) = j - i
        /\ j - i \in 1 .. Len(s) - i /\ i + (j - i) = j
    BY <1>1, <1>3, <1>5, <1>11
  <2>2. c[j - 1] = b[j - i] BY <1>8, <2>1
  <2>3. b[j - i] = s[i + (j - i)] BY <2>1, <1>5
  <2> QED BY <2>1, <2>2, <2>3
<1> QED BY <1>7, <1>8, <1>9, <1>10, <1>11

(* An element is removed, and the others stay, in their order.             *)
Remains(T, s, i, c) ==
  /\ c \in Seq(T) /\ Len(c) = Len(s) - 1
  /\ \A j \in 1 .. Len(s) - 1 : \E k \in 1 .. Len(s) : k # i /\ c[j] = s[k] /\ k = IF j < i THEN j ELSE j + 1
  /\ \A k \in 1 .. Len(s) : k # i => \E j \in 1 .. Len(s) - 1 : c[j] = s[k]
LEMMA OthersRemain ==
  ASSUME NEW T, NEW s \in Seq(T), NEW i \in 1 .. Len(s)
  PROVE  Remains(T, s, i, RemoveAt(s, i))
<1>1. Len(s) \in Nat /\ i \in Nat /\ 1 <= i /\ i <= Len(s) OBVIOUS
<1>2. PICK c : c = RemoveAt(s, i) OBVIOUS
<1>3. /\ c \in Seq(T) /\ Len(c) = Len(s) - 1
      /\ \A j \in 1 .. Len(s) : j < i => c[j] = s[j]
      /\ \A j \in 1 .. Len(s) : j > i => c[j - 1] = s[j]
  BY <1>2, RemoveAtProperties
<1>4. ASSUME NEW j \in 1 .. Len(s) - 1
      PROVE  \E k \in 1 .. Len(s) : k # i /\ c[j] = s[k] /\ k = IF j < i THEN j ELSE j + 1
  <2>1. CASE j < i
    <3>1. PICK k \in 1 .. Len(s) : k = j BY <1>1, <1>4
    <3>2. c[k] = s[k] BY <1>3, <2>1, <3>1
    <3> QED BY <1>1, <2>1, <3>1, <3>2
  <2>2. CASE ~(j < i)
    <3>1. PICK k \in 1 .. Len(s) : k = j + 1 /\ k > i /\ k - 1 = j BY <1>1, <1>4, <2>2
    <3>2. c[k - 1] = s[k] BY <1>3, <3>1, Zenon
    <3> QED BY <1>1, <2>2, <3>1, <3>2
  <2> QED BY <2>1, <2>2
<1>5. ASSUME NEW k \in 1 .. Len(s), k # i PROVE \E j \in 1 .. Len(s) - 1 : c[j] = s[k]
  <2>1. CASE k < i
    <3>1. PICK j \in 1 .. Len(s) - 1 : j = k BY <1>1, <2>1
    <3>2. c[k] = s[k] BY <1>3, <2>1, Zenon
    <3> QED BY <3>1, <3>2
  <2>2. CASE k > i
    <3>1. PICK j \in 1 .. Len(s) - 1 : j = k - 1 BY <1>1, <2>2
    <3>2. c[k - 1] = s[k] BY <1>3, <2>2, Zenon
    <3> QED BY <3>1, <3>2
  <2>3. k < i \/ k > i BY <1>1, <1>5
  <2> QED BY <2>1, <2>2, <2>3
<1>6. Remains(T, s, i, c) BY <1>3, <1>4, <1>5 DEF Remains
<1> QED BY <1>2, <1>6, Zenon

(* The first of a sequence is removed.                                     *)
LEMMA FirstRemoved == ASSUME NEW T, NEW s \in Seq(T), s # <<>> PROVE RemoveAt(s, 1) = Tail(s)
<1>1. SubSeq(s, 1, 1 - 1) = <<>> BY SubSeqEmpty
<1>2. SubSeq(s, 1 + 1, Len(s)) = Tail(s) BY TailIsSubSeq
<1>3. Tail(s) \in Seq(T) BY HeadTailProperties
<1> QED BY <1>1, <1>2, <1>3, ConcatEmptySeq DEF RemoveAt

(* Who moves to the end of a sequence, or takes a place in it, leaves the  *)
(* others there.                                                           *)
Places(T, s, i, x, t) ==
  /\ t \in Seq(T) /\ Len(t) = Len(s) /\ t[Len(t)] = x
  /\ \A j \in 1 .. Len(s) : j # i => \E m \in 1 .. Len(t) : t[m] = s[j]
LEMMA OthersKeepPlaces ==
  ASSUME NEW T, NEW s \in Seq(T), NEW i \in 1 .. Len(s), NEW x \in T
  PROVE  Places(T, s, i, x, Append(RemoveAt(s, i), x))
<1>1. Len(s) \in Nat /\ i \in Nat /\ 1 <= i /\ i <= Len(s) OBVIOUS
<1>2. PICK c : c = RemoveAt(s, i) OBVIOUS
<1>3. /\ c \in Seq(T) /\ Len(c) = Len(s) - 1
      /\ \A j \in 1 .. Len(s) : j < i => c[j] = s[j]
      /\ \A j \in 1 .. Len(s) : j > i => c[j - 1] = s[j]
  BY <1>2, RemoveAtProperties
<1>4. PICK t : t = Append(RemoveAt(s, i), x) OBVIOUS
<1>5. t = Append(c, x) BY <1>2, <1>4
<1>6. /\ t \in Seq(T) /\ Len(t) = Len(c) + 1 /\ t[Len(c) + 1] = x
       /\ \A j \in 1 .. Len(c) : t[j] = c[j]
  BY <1>3, <1>5, AppendProperties
<1>7. Len(c) \in Nat /\ Len(c) + 1 = Len(s) /\ Len(t) = Len(s) BY <1>1, <1>3, <1>6
<1>8. ASSUME NEW j \in 1 .. Len(s), j # i PROVE \E m \in 1 .. Len(t) : t[m] = s[j]
  <2>1. CASE j < i
    <3>1. j \in 1 .. Len(c) /\ j \in 1 .. Len(t) BY <2>1, <1>1, <1>7
    <3>2. c[j] = s[j] BY <2>1, <1>3, Zenon
    <3>3. t[j] = c[j] BY <3>1, <1>6
    <3>4. PICK m \in 1 .. Len(t) : m = j BY <3>1
    <3>5. t[m] = s[j] BY <3>2, <3>3, <3>4
    <3> QED BY <3>5
  <2>2. CASE j > i
    <3>1. j - 1 \in 1 .. Len(c) BY <2>2, <1>1, <1>7
    <3>2. c[j - 1] = s[j] BY <2>2, <1>3
    <3>3. t[j - 1] = c[j - 1] BY <3>1, <1>6
    <3>4. j - 1 \in 1 .. Len(t) BY <2>2, <1>1, <1>7
    <3>5. PICK m \in 1 .. Len(t) : m = j - 1 BY <3>4
    <3>6. t[m] = s[j] BY <3>2, <3>3, <3>5
    <3> QED BY <3>6
  <2>3. j \in Nat /\ (j < i \/ j > i) BY <1>1, <1>8
  <2> QED BY <2>1, <2>2, <2>3
<1> QED BY <1>4, <1>6, <1>7, <1>8 DEF Places

-----------------------------------------------------------------------------
(* Sequences of whatever there is.                                         *)
IsSequence(s) == \E S : s \in Seq(S)
(* What it is to be longer by one element, and to change at one place.     *)
Grows(s, e, r) ==
  /\ IsSequence(r) /\ Len(r) = Len(s) + 1 /\ DOMAIN r = 1 .. Len(s) + 1
  /\ r[Len(s) + 1] = e /\ \A i \in 1 .. Len(s) : r[i] = s[i]
LEMMA AppendGrows ==
  ASSUME NEW s, IsSequence(s), NEW e
  PROVE  Len(s) \in Nat /\ DOMAIN s = 1 .. Len(s) /\ Grows(s, e, Append(s, e))
<1>1. PICK S : s \in Seq(S) BY DEF IsSequence
<1>2. PICK T : T = S \cup {e} OBVIOUS
<1>3. s \in Seq(T) /\ e \in T
  <2>1. \A i \in 1 .. Len(s) : s[i] \in T BY <1>1, <1>2
  <2>2. s = [i \in 1 .. Len(s) |-> s[i]] /\ Len(s) \in Nat BY <1>1
  <2> QED BY <1>2, <2>1, <2>2
<1>4. PICK r : r = Append(s, e) OBVIOUS
<1>5. r \in Seq(T) /\ Len(r) = Len(s) + 1 /\ r[Len(s) + 1] = e /\ \A i \in 1 .. Len(s) : r[i] = s[i]
  BY <1>3, <1>4, AppendProperties
<1>6. IsSequence(r) BY <1>5 DEF IsSequence
<1>7. Grows(s, e, r) BY <1>5, <1>6 DEF Grows
<1> QED BY <1>3, <1>4, <1>7

Changes(s, i, e, r) ==
  /\ IsSequence(r) /\ Len(r) = Len(s) /\ DOMAIN r = 1 .. Len(s)
  /\ r[i] = e /\ \A j \in 1 .. Len(s) : j # i => r[j] = s[j]
LEMMA ExceptChanges ==
  ASSUME NEW s, IsSequence(s), NEW i \in DOMAIN s, NEW e
  PROVE  Len(s) \in Nat /\ DOMAIN s = 1 .. Len(s) /\ i \in 1 .. Len(s) /\ Changes(s, i, e, [s EXCEPT ![i] = e])
<1>1. PICK S : s \in Seq(S) BY DEF IsSequence
<1>2. PICK T : T = S \cup {e} OBVIOUS
<1>3. PICK r : r = [s EXCEPT ![i] = e] OBVIOUS
<1>4. Len(s) \in Nat /\ DOMAIN s = 1 .. Len(s) /\ \A j \in 1 .. Len(s) : s[j] \in S BY <1>1
<1>5. /\ r = [j \in 1 .. Len(s) |-> IF j = i THEN e ELSE s[j]] /\ DOMAIN r = 1 .. Len(s)
      /\ r[i] = e /\ \A j \in 1 .. Len(s) : j # i => r[j] = s[j]
  BY <1>3, <1>4
<1>6. r \in Seq(T)
  <2>1. \A j \in 1 .. Len(s) : (IF j = i THEN e ELSE s[j]) \in T BY <1>2, <1>4
  <2> QED BY <1>4, <1>5, <2>1
<1>7. Len(r) = Len(s) BY <1>4, <1>5, <1>6
<1>8. IsSequence(r) BY <1>6 DEF IsSequence
<1>9. Changes(s, i, e, r) BY <1>5, <1>7, <1>8 DEF Changes
<1> QED BY <1>3, <1>4, <1>9
=============================================================================
