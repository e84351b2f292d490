---------------------------- MODULE ToolApproval_proof ----------------------------
(***************************************************************************)
(* Proofs about the tool approval of packages/core, for any number of      *)
(* turns, calls and call ids, any tools and any budget of errors and       *)
(* iterations.                                                             *)
(*                                                                         *)
(* First what the operators of ApprovalScan return, for a transcript of    *)
(* any length: what is picked of it, what a decision is bound to, which    *)
(* decisions are acted on.  Then the invariant ApprovalInv of Spec: a      *)
(* result is told once and behind its call, a call that waits for a human  *)
(* or is about to be executed has no result yet, and what is held back was *)
(* never shown.  Then the invariant ClearInv, for what a human's answers   *)
(* come to: of two calls of an id that is clear the transcript has all     *)
(* there is of the older one first, so that an answer is for the call it   *)
(* was given for; and IdInv, for what they come to of every id.  Each is   *)
(* shown for one step of the specification after the other.                *)
(*                                                                         *)
(* A definition is recursive in some of these operators (At, FlattenSeq);  *)
(* the proofs about them take the least number that a claim fails for.     *)
(***************************************************************************)
EXTENDS ToolApproval, TLAPS, SequenceTheorems, WellFoundedInduction, FiniteSetTheorems

-----------------------------------------------------------------------------
(* Every set of naturals with a member has a least one, and a greatest one  *)
(* if it is bounded.  This is what stands for an induction below.           *)
Below == {ss \in Nat \X Nat : ss[1] < ss[2]}
LEMMA LeastNat ==
  ASSUME NEW Z, Z \subseteq Nat, Z # {}
  PROVE  \E n \in Z : \A m \in Z : n <= m
<1>1. Below = OpToRel(<, Nat) BY DEF Below, OpToRel
<1>2. IsWellFoundedOn(Below, Nat) BY <1>1, NatLessThanWellFounded
<1>3. \E x \in Z : \A y \in Z : ~ (<<y, x>> \in Below) BY <1>2, WFMin
<1>4. PICK x \in Z : \A y \in Z : ~ (<<y, x>> \in Below) BY <1>3
<1>5. ASSUME NEW y \in Z PROVE x <= y
  <2>1. x \in Nat /\ y \in Nat OBVIOUS
  <2>2. <<y, x>> \notin Below BY <1>4
  <2>3. ~(y < x) BY <2>1, <2>2 DEF Below
  <2> QED BY <2>1, <2>3
<1> QED BY <1>5

LEMMA GreatestNat ==
  ASSUME NEW Z, NEW n \in Nat, Z \subseteq 0..n, Z # {}
  PROVE  \E m \in Z : \A o \in Z : o <= m
<1> DEFINE Up == {m \in Nat : \A o \in Z : o <= m}
<1>1. n \in Up OBVIOUS
<1>2. PICK m \in Up : \A k \in Up : m <= k BY <1>1, LeastNat
<1>3. m \in Z
  <2> SUFFICES ASSUME m \notin Z PROVE FALSE OBVIOUS
  <2>1. \A o \in Z : o < m BY <1>2
  <2>2. PICK o \in Z : TRUE OBVIOUS
  <2>4. m > 0 BY <2>1, <2>2
  <2>3. m - 1 \in Up BY <2>1, <2>4
  <2> QED BY <2>3, <1>2
<1> QED BY <1>2, <1>3

(* The members of a finite set, one after the other.                        *)
LEMMA ListedIs ==
  ASSUME NEW S, IsFiniteSet(S)
  PROVE  /\ Listed(S) \in Seq(S) /\ ToSet(Listed(S)) = S
         /\ \A i, j \in DOMAIN Listed(S) : Listed(S)[i] = Listed(S)[j] => i = j
         /\ Len(Listed(S)) = Cardinality(S)
<1> DEFINE n == Cardinality(S)
<1>1. n \in Nat /\ ExistsBijection(1..n, S) BY FS_CardinalityType
<1>2. \E f \in [1..n -> S] : IsInjective(f)
  BY <1>1 DEF ExistsBijection, Bijection, Injection, IsInjective
<1>3. Listed(S) \in [1..n -> S] /\ IsInjective(Listed(S)) BY <1>2 DEF Listed, SetToSeq
<1>4. Listed(S) \in Injection(1..n, S) BY <1>3 DEF Injection, IsInjective
<1>5. IsFiniteSet(1..n) /\ Cardinality(1..n) = n BY <1>1, FS_Interval
<1>6. Listed(S) \in Surjection(1..n, S) BY <1>4, <1>5, FS_Injection
<1>7. Listed(S) \in Seq(S) /\ Len(Listed(S)) = n /\ DOMAIN Listed(S) = 1..n BY <1>1, <1>3
<1>8. ToSet(Listed(S)) = S BY <1>6, <1>7 DEF Surjection, ToSet
<1> QED BY <1>3, <1>7, <1>8 DEF IsInjective

(* The equation of At's function has a solution, so At is its last value.   *)
UpTo(s, P, g, k) ==
  g = [n \in 0..k |-> IF n = 0 THEN <<>>
                      ELSE IF n \in P THEN Append(g[n - 1], s[n]) ELSE g[n - 1]]
LEMMA UpToExists ==
  ASSUME NEW s, NEW P, NEW k \in Nat
  PROVE  \E g : UpTo(s, P, g, k)
<1> DEFINE Bad == {n \in Nat : ~\E g : UpTo(s, P, g, n)}
<1> SUFFICES ASSUME Bad # {} PROVE FALSE OBVIOUS
<1>1. PICK n \in Bad : \A m \in Bad : n <= m BY LeastNat
<1>2. CASE n = 0
  <2> DEFINE g == [i \in 0..0 |-> <<>>]
  <2>1. UpTo(s, P, g, 0) BY DEF UpTo
  <2> QED BY <1>1, <1>2, <2>1
<1>3. CASE n > 0
  <2>1. n - 1 \in Nat /\ n - 1 \notin Bad BY <1>1, <1>3
  <2>2. PICK g : UpTo(s, P, g, n - 1) BY <2>1
  <2>3. PICK h : h = [i \in 0..n |-> IF i = n THEN IF n \in P THEN Append(g[n - 1], s[n]) ELSE g[n - 1]
                               ELSE g[i]] OBVIOUS
  <2>4. \A i \in 0..n - 1 : h[i] = g[i] BY <2>3
  <2>5. \A i \in 0..n : h[i] = IF i = 0 THEN <<>>
                      ELSE IF i \in P THEN Append(h[i - 1], s[i]) ELSE h[i - 1]
    <3> SUFFICES ASSUME NEW i \in 0..n PROVE h[i] = IF i = 0 THEN <<>>
                      ELSE IF i \in P THEN Append(h[i - 1], s[i]) ELSE h[i - 1]
        OBVIOUS
    <3>1. CASE i = n
      BY <1>3, <2>3, <2>4, <3>1
    <3>2. CASE i # n
      <4>1. i \in 0..n-1 BY <3>2
      <4>2. g[i] = IF i = 0 THEN <<>>
                      ELSE IF i \in P THEN Append(g[i - 1], s[i]) ELSE g[i - 1]
         BY <2>2, <4>1 DEF UpTo
      <4>3. i # 0 => i - 1 \in 0..n-1 BY <4>1
      <4> QED BY <2>4, <4>1, <4>2, <4>3
    <3> QED BY <3>1, <3>2
  <2>6. UpTo(s, P, h, n)
    <3>1. h = [i \in 0..n |-> h[i]] BY <2>3
    <3> QED BY <2>5, <3>1 DEF UpTo
  <2> QED BY <1>1, <2>6
<1> QED BY <1>1, <1>2, <1>3
LEMMA AtIs == ASSUME NEW s, NEW P, Len(s) \in Nat PROVE \E g : UpTo(s, P, g, Len(s)) /\ At(s, P) = g[Len(s)]
<1> DEFINE upTo == CHOOSE g : UpTo(s, P, g, Len(s))
<1>1. UpTo(s, P, upTo, Len(s)) BY UpToExists
<1>2. At(s,P) = upTo[Len(s)] BY DEF At, UpTo
<1> QED BY <1>1, <1>2

(* t is what s has at the positions P, in order: at says where from.        *)
Picks(t, s, P, from) ==
  /\ from \in [1..Len(t) -> 1..Len(s)]
  /\ \A i \in 1..Len(t) : from[i] \in P /\ t[i] = s[from[i]]
  /\ \A i, j \in 1..Len(t) : i < j => from[i] < from[j]
  /\ \A p \in 1..Len(s) : p \in P => \E i \in 1..Len(t) : from[i] = p

(* One position more.                                                       *)
LEMMA PicksOneMore ==
  ASSUME NEW T, NEW s \in Seq(T), NEW P, NEW n \in 1..Len(s), NEW t \in Seq(T), NEW from,
         Picks(t, s, P \cap 1..(n - 1), from)
  PROVE  LET u == IF n \in P THEN Append(t, s[n]) ELSE t
         IN  u \in Seq(T) /\ \E g : Picks(u, s, P \cap 1..n, g)
<1>1. s[n] \in T OBVIOUS
<1>2. CASE n \notin P
  <2>1. P \cap 1..n = P \cap 1..(n - 1) BY <1>2
  <2> QED BY <1>2, <2>1
<1>3. CASE n \in P
  <2>0. Append(t, s[n]) \in Seq(T) BY <1>1
  <2>1. PICK u \in Seq(T) : u = Append(t, s[n]) BY <2>0
  <2>2. /\ Len(u) = Len(t) + 1 /\ u[Len(t) + 1] = s[n] /\ \A i \in 1..Len(t) : u[i] = t[i] /\ Len(t) \in Nat
    BY <1>1, <2>1
  <2>3. PICK g : g = [i \in 1..Len(u) |-> IF i = Len(u) THEN n ELSE from[i]] OBVIOUS
  <2>4. \A i \in 1..Len(t) : g[i] = from[i] /\ from[i] \in 1..(n - 1) /\ from[i] \in 1..Len(s)
    BY <2>2, <2>3 DEF Picks
  <2>5. g[Len(t) + 1] = n BY <2>2, <2>3
  <2>6. \A i \in 1..Len(u) : i \in 1..Len(t) \/ i = Len(t) + 1 BY <2>2
  <2>7. g \in [1..Len(u) -> 1..Len(s)] BY <2>3, <2>4, <2>5, <2>6
  <2>8. \A i \in 1..Len(u) : g[i] \in P \cap 1..n /\ u[i] = s[g[i]]
    BY <1>3, <2>2, <2>4, <2>5, <2>6, SMTT(30) DEF Picks
  <2>9. \A i, j \in 1..Len(u) : i < j => g[i] < g[j]
    <3> SUFFICES ASSUME NEW i \in 1..Len(u), NEW j \in 1..Len(u), i < j PROVE g[i] < g[j] OBVIOUS
    <3>1. i \in 1..Len(t) BY <2>2
    <3>2. CASE j = Len(t) + 1 BY <3>1, <3>2, <2>4, <2>5
    <3>3. CASE j \in 1..Len(t) BY <3>1, <3>3, <2>4 DEF Picks
    <3> QED BY <3>2, <3>3, <2>6
  <2>10. ASSUME NEW p \in 1..Len(s), p \in P \cap 1..n PROVE \E i \in 1..Len(u) : g[i] = p
    <3>1. CASE p = n BY <3>1, <2>2, <2>5
    <3>2. CASE p # n
      <4>1. p \in P \cap 1..(n - 1) BY <2>10, <3>2
      <4>2. PICK i \in 1..Len(t) : from[i] = p BY <4>1 DEF Picks
      <4>3. i \in 1..Len(u) /\ g[i] = from[i] BY <2>2, <2>4
      <4> QED BY <4>2, <4>3
    <3> QED BY <3>1, <3>2
  <2>11. Picks(u, s, P \cap 1..n, g) BY <2>7, <2>8, <2>9, <2>10 DEF Picks
  <2> QED BY <1>3, <2>1, <2>11
<1> QED BY <1>2, <1>3

LEMMA AtPicks ==
  ASSUME NEW T, NEW s \in Seq(T), NEW P
  PROVE  At(s, P) \in Seq(T) /\ \E from : Picks(At(s, P), s, P, from)
<1>1. Len(s) \in Nat OBVIOUS
<1>2. PICK g : UpTo(s, P, g, Len(s)) /\ At(s, P) = g[Len(s)] BY <1>1, AtIs
<1>8. \A n \in 0..Len(s) : g[n] = IF n = 0 THEN <<>> ELSE IF n \in P THEN Append(g[n - 1], s[n]) ELSE g[n - 1]
  BY <1>2 DEF UpTo
<1> DEFINE Good(n) == g[n] \in Seq(T) /\ \E from : Picks(g[n], s, P \cap 1..n, from)
           Bad == {n \in 0..Len(s) : ~Good(n)}
<1>3. ASSUME NEW n \in 1..Len(s), Good(n - 1) PROVE Good(n)
  <2>1. n - 1 \in 0..Len(s) /\ n \in 0..Len(s) BY <1>1
  <2>2. g[n] = IF n \in P THEN Append(g[n - 1], s[n]) ELSE g[n - 1] BY <2>1, <1>8
  <2>3. PICK from : Picks(g[n - 1], s, P \cap 1..(n - 1), from) BY <1>3
  <2>4. PICK t \in Seq(T) : t = g[n - 1] BY <1>3
  <2>5. LET u == IF n \in P THEN Append(t, s[n]) ELSE t
        IN  u \in Seq(T) /\ \E f : Picks(u, s, P \cap 1..n, f)
    BY <2>3, <2>4, PicksOneMore, ZenonT(60)
  <2> QED BY <2>2, <2>4, <2>5
<1>4. Good(0)
  <2>1. g[0] = <<>> BY <1>1, <1>2 DEF UpTo
  <2>2. PICK f : f = [i \in 1..0 |-> 1] OBVIOUS
  <2>3. f \in [1..0 -> 1..Len(s)] /\ Len(<<>>) = 0 BY <2>2
  <2>4. Picks(<<>>, s, P \cap 1..0, f) BY <2>3 DEF Picks
  <2> QED BY <2>1, <2>4
<1> HIDE DEF Good
<1>6. Good(Len(s))
  <2> SUFFICES ASSUME ~Good(Len(s)) PROVE FALSE OBVIOUS
  <2>1. Bad \subseteq Nat /\ Len(s) \in Bad BY <1>1
  <2>2. PICK n \in Bad : \A m \in Bad : n <= m BY <2>1, LeastNat
  <2>3. n # 0 BY <1>4, <2>2
  <2>4. n \in 1..Len(s) /\ n - 1 \in 0..Len(s) /\ ~(n <= n - 1) BY <1>1, <2>2, <2>3
  <2>5. n - 1 \notin Bad BY <2>2, <2>4
  <2>6. Good(n - 1) BY <2>4, <2>5
  <2> QED BY <1>3, <2>2, <2>4, <2>6
<1>5. PICK from : Picks(At(s, P), s, P \cap 1..Len(s), from) BY <1>2, <1>6 DEF Good
<1>7. Picks(At(s, P), s, P, from) BY <1>5 DEF Picks
<1> QED BY <1>2, <1>6, <1>7 DEF Good

-----------------------------------------------------------------------------
(* Items.                                                                   *)
ItemsOf(K) ==
  {Raw(c) : c \in K} \cup {ResultOf(c) : c \in K} \cup {Request(c, m) : c \in K, m \in BOOLEAN}
    \cup {Decision(c, y) : c \in K, y \in BOOLEAN}

LEMMA ItemIs ==
  ASSUME NEW K, NEW i \in ItemsOf(K)
  PROVE  /\ i.call \in K /\ i.kind \in {"call", "result", "request", "decision"}
         /\ i.kind = "call" => i = Raw(i.call)
         /\ i.kind = "result" => i = ResultOf(i.call)
         /\ i.kind = "request" => \E m \in BOOLEAN : i = Request(i.call, m)
         /\ i.kind = "decision" => i = Decision(i.call, i.yes)
BY DEF ItemsOf, Raw, ResultOf, Request, Decision, Item

LEMMA Fields ==
  /\ \A c : Raw(c).kind = "call" /\ Raw(c).call = c /\ ResultOf(c).kind = "result" /\ ResultOf(c).call = c
  /\ \A c, m : Request(c, m).kind = "request" /\ Request(c, m).call = c /\ Request(c, m).mw = m
  /\ \A c, y : Decision(c, y).kind = "decision" /\ Decision(c, y).call = c /\ Decision(c, y).yes = y
BY DEF Raw, ResultOf, Request, Decision, Item

LEMMA MoreItems == ASSUME NEW K, NEW L, K \subseteq L PROVE ItemsOf(K) \subseteq ItemsOf(L)
BY DEF ItemsOf

(* A transcript: a sequence of items.                                       *)
Told(s, c) == \E p \in 1..Len(s) : s[p] = ResultOf(c)
Once(s) == \A p, q \in 1..Len(s) : s[p].kind = "result" /\ s[p] = s[q] => p = q
Founded(s) == \A q \in 1..Len(s) : s[q].kind = "result" => \E p \in 1..(q - 1) : s[p] = Raw(s[q].call)
NotReasked(s) ==
  \A q \in 1..Len(s) : s[q].kind = "request" =>
    ~HeldBack(s[q]) /\ \A p \in 1..(q - 1) : s[p] # ResultOf(s[q].call)

(* The last position of an item of a kind and an id.                        *)
LEMMA LastOfIs ==
  ASSUME NEW K, NEW s \in Seq(K), NEW kind, NEW id
  PROVE  /\ LastOf(s, kind, id) \in 0..Len(s)
         /\ \A p \in 1..Len(s) : s[p].kind = kind /\ s[p].call.id = id => p <= LastOf(s, kind, id)
         /\ LastOf(s, kind, id) # 0 => s[LastOf(s, kind, id)].kind = kind /\ s[LastOf(s, kind, id)].call.id = id
<1> DEFINE P == {p \in DOMAIN s : s[p].kind = kind /\ s[p].call.id = id}
<1>1. DOMAIN s = 1..Len(s) /\ Len(s) \in Nat OBVIOUS
<1>2. CASE P = {} BY <1>1, <1>2 DEF LastOf
<1>3. CASE P # {}
  <2>1. P \subseteq 0..Len(s) BY <1>1
  <2>2. \E m \in P : \A o \in P : o <= m BY ONLY <1>1, <1>3, <2>1, GreatestNat
  <2>3. LastOf(s, kind, id) = CHOOSE p \in P : \A q \in P : q <= p BY <1>3 DEF LastOf
  <2>4. LastOf(s, kind, id) \in P /\ \A q \in P : q <= LastOf(s, kind, id) BY <2>2, <2>3
  <2>5. LastOf(s, kind, id) \in 1..Len(s) BY <1>1, <2>4
  <2> QED BY <1>1, <2>4, <2>5
<1> QED BY <1>2, <1>3

(* The newest occurrence of an id.                                          *)
LEMMA OpenedAtIs ==
  ASSUME NEW K, NEW s \in Seq(K), NEW id
  PROVE  /\ OpenedAt(s, id) \in 0..Len(s)
         /\ \A q \in 1..Len(s) : Opens(s, q) /\ s[q].call.id = id => q <= OpenedAt(s, id)
         /\ OpenedAt(s, id) # 0 => Opens(s, OpenedAt(s, id)) /\ s[OpenedAt(s, id)].call.id = id
<1> DEFINE Q == {q \in Occurrences(s) : s[q].call.id = id}
<1>1. DOMAIN s = 1..Len(s) /\ Len(s) \in Nat OBVIOUS
<1>2. \A q : q \in Q <=> q \in 1..Len(s) /\ Opens(s, q) /\ s[q].call.id = id BY <1>1 DEF Occurrences
<1>3. CASE Q = {}
  <2>1. OpenedAt(s, id) = 0 BY <1>3 DEF OpenedAt
  <2> QED BY <1>1, <1>2, <1>3, <2>1
<1>4. CASE Q # {}
  <2>1. Q \subseteq 0..Len(s) BY <1>1, <1>2
  <2>2. \E m \in Q : \A o \in Q : o <= m BY ONLY <1>1, <1>4, <2>1, GreatestNat
  <2>3. OpenedAt(s, id) = CHOOSE q \in Q : \A o \in Q : o <= q BY <1>4 DEF OpenedAt
  <2>4. OpenedAt(s, id) \in Q /\ \A q \in Q : q <= OpenedAt(s, id) BY <2>2, <2>3
  <2>5. OpenedAt(s, id) \in 1..Len(s) BY <1>2, <2>4
  <2> QED BY <1>2, <2>4, <2>5
<1> QED BY <1>3, <1>4

-----------------------------------------------------------------------------
(* What is picked of a transcript: the order of what is left is that of the *)
(* whole.                                                                   *)
LEMMA PicksKeep ==
  ASSUME NEW K, NEW s \in Seq(K), NEW t \in Seq(K), NEW P, NEW from, Picks(t, s, P, from)
  PROVE  /\ Len(t) \in Nat /\ Len(s) \in Nat
         /\ \A i \in 1..Len(t) : from[i] \in 1..Len(s) /\ from[i] \in P /\ t[i] = s[from[i]]
         /\ \A i, j \in 1..Len(t) : i < j <=> from[i] < from[j]
         /\ \A i, j \in 1..Len(t) : from[i] = from[j] => i = j
<1>1. Len(t) \in Nat /\ Len(s) \in Nat OBVIOUS
<1>2. \A i \in 1..Len(t) : from[i] \in 1..Len(s) /\ from[i] \in P /\ t[i] = s[from[i]] BY DEF Picks
<1>3. \A i, j \in 1..Len(t) : i < j => from[i] < from[j] BY DEF Picks
<1>4. ASSUME NEW i \in 1..Len(t), NEW j \in 1..Len(t), ~(i < j) PROVE ~(from[i] < from[j])
  <2>0. i \in Nat /\ j \in Nat BY <1>1
  <2>1. i = j \/ j < i BY <2>0, <1>4
  <2>2. from[i] \in Nat /\ from[j] \in Nat BY <1>1, <1>2
  <2> QED BY <2>1, <2>2, <1>3
<1>5. ASSUME NEW i \in 1..Len(t), NEW j \in 1..Len(t), from[i] = from[j] PROVE i = j
  <2>1. from[i] \in Nat /\ from[j] \in Nat BY <1>1, <1>2
  <2>2. ~(i < j) /\ ~(j < i) BY <2>1, <1>3, <1>5
  <2> QED BY <1>1, <2>2
<1> QED BY <1>1, <1>2, <1>3, <1>4, <1>5

(* What is picked has each result once, and each after its call if no call *)
(* that was answered later is left out.                                     *)
LEMMA PicksOnce ==
  ASSUME NEW K, NEW s \in Seq(K), NEW t \in Seq(K), NEW P, NEW from, Picks(t, s, P, from)
  PROVE  /\ Once(s) => Once(t)
         /\ \A c : Told(t, c) => Told(s, c)
         /\ (\A p \in 1..Len(s) : s[p].kind = "result" => p \in P) => \A c : Told(s, c) => Told(t, c)
<1>1. Once(s) => Once(t) BY PicksKeep DEF Once
<1>2. \A c : Told(t, c) => Told(s, c) BY PicksKeep DEF Told
<1>3. ASSUME \A p \in 1..Len(s) : s[p].kind = "result" => p \in P, NEW c, Told(s, c) PROVE Told(t, c)
  <2>1. PICK p \in 1..Len(s) : s[p] = ResultOf(c) BY <1>3 DEF Told
  <2>2. p \in P BY <1>3, <2>1, Fields
  <2>3. PICK i \in 1..Len(t) : from[i] = p BY <2>2 DEF Picks
  <2> QED BY <2>1, <2>3, PicksKeep DEF Told
<1> QED BY <1>1, <1>2, <1>3

LEMMA PicksFounded ==
  ASSUME NEW K, NEW s \in Seq(K), NEW t \in Seq(K), NEW P, NEW from, Picks(t, s, P, from), Founded(s),
         \A p, q \in 1..Len(s) : s[q].kind = "result" /\ p < q /\ s[p] = Raw(s[q].call) => p \in P
  PROVE  Founded(t)
<1> SUFFICES ASSUME NEW j \in 1..Len(t), t[j].kind = "result"
             PROVE  \E i \in 1..(j - 1) : t[i] = Raw(t[j].call)
  BY DEF Founded
<1>1. from[j] \in 1..Len(s) /\ t[j] = s[from[j]] /\ Len(t) \in Nat /\ Len(s) \in Nat BY PicksKeep
<1>2. PICK p \in 1..(from[j] - 1) : s[p] = Raw(s[from[j]].call) BY <1>1 DEF Founded
<1>3. p \in 1..Len(s) /\ p < from[j] BY <1>1
<1>4. p \in P BY <1>1, <1>2, <1>3
<1>5. PICK i \in 1..Len(t) : from[i] = p BY <1>3, <1>4 DEF Picks
<1>6. i < j BY <1>3, <1>5, PicksKeep
<1>7. t[i] = Raw(t[j].call) BY <1>1, <1>2, <1>5, PicksKeep
<1> QED BY <1>1, <1>6, <1>7

-----------------------------------------------------------------------------
(* What a decision is bound to.                                             *)
Requests(K) == {Request(c, m) : c \in K, m \in BOOLEAN}

LEMMA RequestAtIs ==
  ASSUME NEW s, NEW stored, NEW q
  PROVE  /\ RequestAt(s, stored, q) \in stored \cup {s[q]}
         /\ RequestAt(s, stored, q).call.id = s[q].call.id
BY DEF RequestAt

LEMMA BoundToIs ==
  ASSUME NEW s, NEW stored, NEW p \in 1..Len(s), NEW r \in BoundTo(s, stored, p)
  PROVE  /\ r.call.id = s[p].call.id
         /\ \/ \E q \in DOMAIN s : Opens(s, q) /\ Settles(s, p, q) /\ r = RequestAt(s, stored, q)
            \/ r \in OnlyStored(s, stored) /\ SettlesStored(s, p, r)
<1>1. CASE r \in OnlyStored(s, stored) /\ SettlesStored(s, p, r) BY <1>1 DEF SettlesStored
<1>2. CASE r \in {RequestAt(s, stored, q) : q \in {o \in Occurrences(s) : Settles(s, p, o)}}
  <2>1. PICK q \in DOMAIN s : Opens(s, q) /\ Settles(s, p, q) /\ r = RequestAt(s, stored, q)
    BY <1>2 DEF Occurrences
  <2>2. r.call.id = s[q].call.id BY <2>1, RequestAtIs
  <2>3. s[p].call.id = s[q].call.id BY <2>1 DEF Settles
  <2> QED BY <2>1, <2>2, <2>3
<1> QED BY <1>1, <1>2 DEF BoundTo

LEMMA StillPendingIs ==
  ASSUME NEW s, NEW stored, NEW r \in StillPending(s, stored)
  PROVE  \/ \E q \in DOMAIN s : /\ Opens(s, q) /\ ~Closed(s, q) /\ r = RequestAt(s, stored, q)
                               /\ \A p \in DOMAIN s : ~Settles(s, p, q)
         \/ r \in OnlyStored(s, stored) /\ \A p \in DOMAIN s : ~SettlesStored(s, p, r)
BY DEF StillPending, OpenOnes, Occurrences

LEMMA RequestsFit ==
  ASSUME NEW K, NEW s \in Seq(ItemsOf(K)), NEW stored, stored \subseteq Requests(K)
  PROVE  /\ \A q \in 1..Len(s) : s[q].kind = "request" => RequestAt(s, stored, q) \in Requests(K)
         /\ \A p \in 1..Len(s) : \A r \in BoundTo(s, stored, p) : r \in Requests(K)
         /\ StillPending(s, stored) \subseteq Requests(K)
         /\ Requests(K) \subseteq ItemsOf(K) /\ \A r \in Requests(K) : r.kind = "request" /\ r.call \in K
<1>1. ASSUME NEW q \in 1..Len(s), s[q].kind = "request" PROVE RequestAt(s, stored, q) \in Requests(K)
  <2>1. s[q] \in ItemsOf(K) OBVIOUS
  <2>2. s[q] \in Requests(K) BY <1>1, <2>1, ItemIs DEF Requests
  <2> QED BY <2>2, RequestAtIs
<1>2. \A q \in DOMAIN s : Opens(s, q) => q \in 1..Len(s) /\ s[q].kind = "request" BY DEF Opens
<1>3. ASSUME NEW p \in 1..Len(s), NEW r \in BoundTo(s, stored, p) PROVE r \in Requests(K)
  BY <1>1, <1>2, BoundToIs DEF OnlyStored
<1>4. ASSUME NEW r \in StillPending(s, stored) PROVE r \in Requests(K)
  BY <1>1, <1>2, <1>4, StillPendingIs DEF OnlyStored
<1>5. Requests(K) \subseteq ItemsOf(K) /\ \A r \in Requests(K) : r.kind = "request" /\ r.call \in K
  BY Fields DEF Requests, ItemsOf
<1> QED BY <1>1, <1>3, <1>4, <1>5

(* The rebound transcript: what was kept, in order, its decisions on the    *)
(* calls of the requests they are bound to.                                 *)
Rebinds(t, s, stored, from) ==
  /\ from \in [1..Len(t) -> 1..Len(s)]
  /\ \A i, j \in 1..Len(t) : i < j => from[i] < from[j]
  /\ \A p \in 1..Len(s) : p \in Kept(s, stored) => \E i \in 1..Len(t) : from[i] = p
  /\ \A i \in 1..Len(t) : from[i] \in Kept(s, stored) /\ (s[from[i]].kind # "decision" => t[i] = s[from[i]])
  /\ \A i \in 1..Len(t) : s[from[i]].kind = "decision" =>
       \E r \in BoundTo(s, stored, from[i]) : t[i] = Decision(r.call, s[from[i]].yes)

LEMMA ReboundIs ==
  ASSUME NEW K, NEW s \in Seq(ItemsOf(K)), NEW stored, stored \subseteq Requests(K)
  PROVE  Rebound(s, stored) \in Seq(ItemsOf(K)) /\ \E from : Rebinds(Rebound(s, stored), s, stored, from)
<1>1. PICK bound : bound = [p \in DOMAIN s |->
          IF s[p].kind = "decision" /\ p \in Kept(s, stored)
            THEN Decision((CHOOSE r \in BoundTo(s, stored, p) : TRUE).call, s[p].yes) ELSE s[p]]
  OBVIOUS
<1>2. Rebound(s, stored) = At(bound, Kept(s, stored)) BY <1>1 DEF Rebound
<1>3. DOMAIN s = 1..Len(s) /\ Len(s) \in Nat OBVIOUS
<1>4. ASSUME NEW p \in 1..Len(s)
      PROVE  /\ bound[p] \in ItemsOf(K)
             /\ s[p].kind # "decision" => bound[p] = s[p]
             /\ s[p].kind = "decision" /\ p \in Kept(s, stored) =>
                  \E r \in BoundTo(s, stored, p) : bound[p] = Decision(r.call, s[p].yes)
  <2>1. s[p] \in ItemsOf(K) BY <1>3
  <2>2. CASE s[p].kind = "decision" /\ p \in Kept(s, stored)
    <3>1. PICK r \in BoundTo(s, stored, p) : r = CHOOSE x \in BoundTo(s, stored, p) : TRUE
      BY <1>4, <2>2 DEF Kept
    <3>2. bound[p] = Decision(r.call, s[p].yes) BY <1>1, <1>3, <2>2, <3>1
    <3>3. r.call \in K BY RequestsFit
    <3>4. PICK y \in BOOLEAN : s[p] = Decision(s[p].call, y) BY <2>1, <2>2, ItemIs, Fields DEF ItemsOf
    <3>5. Decision(r.call, y) \in ItemsOf(K) BY <3>3 DEF ItemsOf
    <3>6. s[p].yes = y BY <3>4, Fields
    <3> QED BY <2>2, <3>2, <3>5, <3>6
  <2>3. CASE ~(s[p].kind = "decision" /\ p \in Kept(s, stored))
    <3>1. bound[p] = s[p] BY <1>1, <1>3, <2>3
    <3> QED BY <2>1, <2>3, <3>1
  <2> QED BY <2>2, <2>3
<1>5. bound \in Seq(ItemsOf(K)) /\ Len(bound) = Len(s)
  <2>1. bound = [p \in 1..Len(s) |-> bound[p]] BY <1>1, <1>3
  <2>2. bound \in [1..Len(s) -> ItemsOf(K)] BY <1>4, <2>1
  <2> QED BY <1>3, <2>2
<1>6. PICK t \in Seq(ItemsOf(K)) : t = Rebound(s, stored) /\ \E from : Picks(t, bound, Kept(s, stored), from)
  BY <1>2, <1>5, AtPicks
<1>10. PICK from : Picks(t, bound, Kept(s, stored), from) BY <1>6
<1>7. /\ from \in [1..Len(t) -> 1..Len(s)] /\ \A i \in 1..Len(t) : from[i] \in Kept(s, stored) /\ t[i] = bound[from[i]]
      /\ \A i, j \in 1..Len(t) : i < j => from[i] < from[j]
      /\ \A p \in 1..Len(s) : p \in Kept(s, stored) => \E i \in 1..Len(t) : from[i] = p
  BY <1>5, <1>10 DEF Picks
<1>8. \A i \in 1..Len(t) : from[i] \in 1..Len(s) BY <1>7
<1>9. Rebinds(t, s, stored, from)
  <2>1. ASSUME NEW i \in 1..Len(t)
        PROVE  /\ from[i] \in Kept(s, stored) /\ (s[from[i]].kind # "decision" => t[i] = s[from[i]])
               /\ s[from[i]].kind = "decision" =>
                    \E r \in BoundTo(s, stored, from[i]) : t[i] = Decision(r.call, s[from[i]].yes)
    <3>1. PICK p \in 1..Len(s) : p = from[i] /\ p \in Kept(s, stored) /\ t[i] = bound[p] BY <1>7, <1>8
    <3> QED BY <1>4, <3>1
  <2> QED BY <1>7, <2>1 DEF Rebinds
<1> QED BY <1>6, <1>9

-----------------------------------------------------------------------------
(* The transcript of a turn, the stored requests and those held back, as    *)
(* the invariant has them when the turn begins.                             *)
Scene(K, s, stored, auto) ==
  /\ s \in Seq(ItemsOf(K)) /\ stored \subseteq Requests(K) /\ auto \subseteq Requests(K) /\ IsFiniteSet(K)
  /\ Once(s) /\ Founded(s) /\ NotReasked(s)
  /\ \A r \in stored : ~HeldBack(r) /\ ~Told(s, r.call)
  /\ \A r \in auto : /\ ~Told(s, r.call) /\ \A q \in stored : q.call # r.call
                     /\ \A p \in 1..Len(s) : s[p].kind = "request" => s[p].call # r.call

LEMMA SceneIs ==
  ASSUME NEW K, NEW s, NEW stored, NEW auto, Scene(K, s, stored, auto)
  PROVE  /\ s \in Seq(ItemsOf(K)) /\ Len(s) \in Nat /\ DOMAIN s = 1..Len(s)
         /\ stored \subseteq Requests(K) /\ auto \subseteq Requests(K)
         /\ \A p \in 1..Len(s) : s[p] \in ItemsOf(K)
<1>1. s \in Seq(ItemsOf(K)) BY DEF Scene
<1>2. Len(s) \in Nat /\ DOMAIN s = 1..Len(s) /\ \A p \in 1..Len(s) : s[p] \in ItemsOf(K) BY <1>1
<1> QED BY <1>1, <1>2 DEF Scene

(* What is sent starts with what is kept of s, in order, its decisions on   *)
(* the calls of the requests they are bound to; the rest is requests that   *)
(* nobody has answered, and the yes to what was held back.                  *)
Carries(sent, n, s, stored, auto, from) ==
  /\ n \in 0..Len(sent) /\ from \in [1..n -> 1..Len(s)]
  /\ \A i, j \in 1..n : i < j => from[i] < from[j]
  /\ \A p \in 1..Len(s) : p \in Kept(s, stored) => \E i \in 1..n : from[i] = p
  /\ \A i \in 1..n : s[from[i]].kind # "decision" => sent[i] = s[from[i]]
  /\ \A i \in 1..n : s[from[i]].kind = "decision" =>
       \E r \in BoundTo(s, stored, from[i]) : sent[i] = Decision(r.call, s[from[i]].yes)
  /\ \A i \in 1..Len(sent) : i > n =>
       sent[i] \in StillPending(s, stored) \cup {Decision(r.call, TRUE) : r \in auto}

(* A request that nobody has answered was shown, has no result, and is not  *)
(* for a call whose request was held back.                                  *)
LEMMA PendingStaysOpen ==
  ASSUME NEW K, NEW s, NEW stored, NEW auto, Scene(K, s, stored, auto), NEW r \in StillPending(s, stored)
  PROVE  ~HeldBack(r) /\ ~Told(s, r.call) /\ \A a \in auto : a.call # r.call
<1>0. s \in Seq(ItemsOf(K)) /\ Len(s) \in Nat /\ DOMAIN s = 1..Len(s) BY SceneIs
<1>1. CASE r \in stored BY <1>1 DEF Scene
<1>2. CASE r \notin stored
  <2>1. PICK q \in DOMAIN s : Opens(s, q) /\ ~Closed(s, q) /\ r = RequestAt(s, stored, q)
    BY <1>2, StillPendingIs DEF OnlyStored
  <2>2. r = s[q] /\ q \in 1..Len(s) /\ s[q].kind = "request" BY <1>0, <1>2, <2>1, RequestAtIs DEF Opens
  <2>3. ~HeldBack(s[q]) /\ \A p \in 1..(q - 1) : s[p] # ResultOf(s[q].call) BY <2>2 DEF Scene, NotReasked
  <2>4. ASSUME NEW p \in 1..Len(s), s[p] = ResultOf(r.call) PROVE FALSE
    <3>1. s[p].kind = "result" /\ s[p].call.id = s[q].call.id BY <2>2, <2>4, Fields
    <3>2. p \in 1..(q - 1) \/ p = q \/ p \in (q + 1)..Len(s) BY <1>0, <2>2
    <3>3. p \notin (q + 1)..Len(s) BY <2>1, <3>1 DEF Closed, Has
    <3> QED BY <2>2, <2>3, <2>4, <3>1, <3>2, <3>3
  <2> QED BY <2>2, <2>3, <2>4 DEF Told, Scene
<1> QED BY <1>1, <1>2

(* What follows of it.                                                      *)
Tracks(sent, n, s, stored, auto, from) ==
  /\ n \in Nat /\ n <= Len(sent) /\ Len(sent) \in Nat /\ Len(s) \in Nat /\ DOMAIN s = 1..Len(s)
  /\ \A i \in 1..n : i \in 1..Len(sent) /\ from[i] \in 1..Len(s) /\ from[i] \in Nat
                     /\ sent[i].kind = s[from[i]].kind /\ sent[i].call.id = s[from[i]].call.id
                     /\ (sent[i].kind # "decision" => sent[i] = s[from[i]])
                     /\ (sent[i].kind = "decision" => \E r \in BoundTo(s, stored, from[i]) : sent[i].call = r.call)
  /\ \A i, j \in 1..n : i < j <=> from[i] < from[j]
  /\ \A i, j \in 1..n : from[i] = from[j] => i = j
  /\ \A p \in 1..Len(s) : s[p].kind # "decision" => \E i \in 1..n : from[i] = p
  /\ \A i \in 1..Len(sent) : sent[i].kind \in {"call", "result"} => i \in 1..n
  /\ \A i \in 1..Len(sent) : i \notin 1..n /\ sent[i].kind = "request" => sent[i] \in StillPending(s, stored)
  /\ \A i \in 1..Len(sent) : i \notin 1..n /\ sent[i].kind = "decision" => \E r \in auto : sent[i].call = r.call
LEMMA CarriesTracks ==
  ASSUME NEW K, NEW s, NEW stored, NEW auto, Scene(K, s, stored, auto),
         NEW sent \in Seq(ItemsOf(K)), NEW n, NEW from, Carries(sent, n, s, stored, auto, from)
  PROVE  Tracks(sent, n, s, stored, auto, from)
<1>0. /\ s \in Seq(ItemsOf(K)) /\ Len(s) \in Nat /\ DOMAIN s = 1..Len(s) /\ stored \subseteq Requests(K)
      /\ auto \subseteq Requests(K) BY SceneIs
<1>1. n \in Nat /\ n <= Len(sent) /\ Len(sent) \in Nat /\ n \in 0..Len(sent) BY DEF Carries
<1>2. \A i \in 1..n : i \in 1..Len(sent) /\ from[i] \in 1..Len(s) /\ from[i] \in Nat BY <1>0, <1>1 DEF Carries
<1>3. ASSUME NEW i \in 1..n
      PROVE  /\ sent[i].kind = s[from[i]].kind /\ sent[i].call.id = s[from[i]].call.id
             /\ sent[i].kind # "decision" => sent[i] = s[from[i]]
             /\ sent[i].kind = "decision" => \E r \in BoundTo(s, stored, from[i]) : sent[i].call = r.call
  <2>1. CASE s[from[i]].kind # "decision" BY <2>1 DEF Carries
  <2>2. CASE s[from[i]].kind = "decision"
    <3>1. PICK r \in BoundTo(s, stored, from[i]) : sent[i] = Decision(r.call, s[from[i]].yes) BY <2>2 DEF Carries
    <3>2. r.call.id = s[from[i]].call.id BY <1>2, BoundToIs
    <3> QED BY <2>2, <3>1, <3>2, Fields
  <2> QED BY <2>1, <2>2
<1>4. \A i, j \in 1..n : i < j => from[i] < from[j] BY DEF Carries
<1>5. ASSUME NEW i \in 1..n, NEW j \in 1..n
      PROVE (i < j <=> from[i] < from[j]) /\ (from[i] = from[j] => i = j)
  <2>1. i \in Nat /\ j \in Nat /\ from[i] \in Nat /\ from[j] \in Nat BY <1>1, <1>2
  <2>2. i < j \/ j < i \/ i = j BY <2>1
  <2>3. (i < j => from[i] < from[j]) /\ (j < i => from[j] < from[i]) BY <1>4
  <2> QED BY <2>1, <2>2, <2>3
<1>6. ASSUME NEW p \in 1..Len(s), s[p].kind # "decision" PROVE \E i \in 1..n : from[i] = p
  <2>1. p \in Kept(s, stored) BY <1>0, <1>6 DEF Kept
  <2> QED BY <2>1 DEF Carries
<1>7. ASSUME NEW i \in 1..Len(sent), i \notin 1..n
      PROVE  /\ sent[i].kind \notin {"call", "result"}
             /\ sent[i].kind = "request" => sent[i] \in StillPending(s, stored)
             /\ sent[i].kind = "decision" => \E r \in auto : sent[i].call = r.call
  <2>1. i > n BY <1>1, <1>7
  <2>2. CASE sent[i] \in StillPending(s, stored)
    <3>1. sent[i].kind = "request" BY <1>0, <2>2, RequestsFit
    <3> QED BY <2>2, <3>1
  <2>3. CASE sent[i] \in {Decision(r.call, TRUE) : r \in auto}
    <3>1. PICK r \in auto : sent[i] = Decision(r.call, TRUE) BY <2>3
    <3>2. sent[i].kind = "decision" /\ sent[i].call = r.call BY <3>1 DEF Decision, Item
    <3> QED BY <3>1, <3>2
  <2> QED BY <2>1, <2>2, <2>3 DEF Carries
<1> QED BY <1>0, <1>1, <1>2, <1>3, <1>5, <1>6, <1>7 DEF Tracks

(* Nothing is told in what is sent but what s tells, and every result once  *)
(* and after its call; a request there is not for a call that was answered. *)
LEMMA SentFits ==
  ASSUME NEW K, NEW s, NEW stored, NEW auto, Scene(K, s, stored, auto),
         NEW sent \in Seq(ItemsOf(K)), NEW n, NEW from, Tracks(sent, n, s, stored, auto, from)
  PROVE  /\ \A c : Told(sent, c) <=> Told(s, c)
         /\ Once(sent) /\ Founded(sent) /\ NotReasked(sent)
<1>0. s \in Seq(ItemsOf(K)) /\ Len(s) \in Nat /\ DOMAIN s = 1..Len(s) BY SceneIs
<1>1. ASSUME NEW c, Told(sent, c) PROVE Told(s, c)
  <2>1. PICK i \in 1..Len(sent) : sent[i] = ResultOf(c) BY <1>1 DEF Told
  <2>2. sent[i].kind = "result" BY <2>1, Fields
  <2>3. i \in 1..n BY <2>2 DEF Tracks
  <2>4. sent[i] = s[from[i]] /\ from[i] \in 1..Len(s) BY <2>2, <2>3 DEF Tracks
  <2> QED BY <2>1, <2>4 DEF Told
<1>2. ASSUME NEW c, Told(s, c) PROVE Told(sent, c)
  <2>1. PICK p \in 1..Len(s) : s[p] = ResultOf(c) BY <1>2 DEF Told
  <2>2. s[p].kind = "result" BY <2>1, Fields
  <2>3. PICK i \in 1..n : from[i] = p BY <2>2 DEF Tracks
  <2>4. sent[i] = s[p] /\ i \in 1..Len(sent) BY <2>2, <2>3 DEF Tracks
  <2> QED BY <2>1, <2>4 DEF Told
<1>3. Once(sent)
  <2> SUFFICES ASSUME NEW i \in 1..Len(sent), NEW j \in 1..Len(sent), sent[i].kind = "result", sent[i] = sent[j]
               PROVE  i = j
    BY DEF Once
  <2>1. i \in 1..n /\ j \in 1..n BY DEF Tracks
  <2>2. /\ sent[i] = s[from[i]] /\ sent[j] = s[from[j]] /\ from[i] \in 1..Len(s) /\ from[j] \in 1..Len(s)
    BY <2>1 DEF Tracks
  <2>3. from[i] = from[j] BY <2>2 DEF Scene, Once
  <2> QED BY <2>1, <2>3 DEF Tracks
<1>4. Founded(sent)
  <2> SUFFICES ASSUME NEW j \in 1..Len(sent), sent[j].kind = "result"
               PROVE  \E i \in 1..(j - 1) : sent[i] = Raw(sent[j].call)
    BY DEF Founded
  <2>1. j \in 1..n BY DEF Tracks
  <2>2. sent[j] = s[from[j]] /\ from[j] \in 1..Len(s) BY <2>1 DEF Tracks
  <2>3. PICK p \in 1..(from[j] - 1) : s[p] = Raw(s[from[j]].call) BY <2>2 DEF Scene, Founded
  <2>4. p \in 1..Len(s) /\ p < from[j] /\ s[p].kind = "call" BY <1>0, <2>2, <2>3, Fields
  <2>5. PICK i \in 1..n : from[i] = p BY <2>4 DEF Tracks
  <2>6. i < j /\ sent[i] = s[p] BY <2>1, <2>4, <2>5 DEF Tracks
  <2> QED BY <2>2, <2>3, <2>6
<1>5. NotReasked(sent)
  <2> SUFFICES ASSUME NEW j \in 1..Len(sent), sent[j].kind = "request"
               PROVE  ~HeldBack(sent[j]) /\ \A i \in 1..(j - 1) : sent[i] # ResultOf(sent[j].call)
    BY DEF NotReasked
  <2>1. CASE j \in 1..n
    <3>1. sent[j] = s[from[j]] /\ from[j] \in 1..Len(s) BY <2>1 DEF Tracks
    <3>2. ~HeldBack(sent[j]) /\ \A p \in 1..(from[j] - 1) : s[p] # ResultOf(s[from[j]].call)
      BY <3>1 DEF Scene, NotReasked
    <3>3. ASSUME NEW i \in 1..(j - 1), sent[i] = ResultOf(sent[j].call) PROVE FALSE
      <4>1. i \in 1..Len(sent) /\ sent[i].kind = "result" /\ i < j BY <3>3, Fields
      <4>2. i \in 1..n BY <4>1 DEF Tracks
      <4>3. sent[i] = s[from[i]] /\ from[i] < from[j] /\ from[i] \in 1..Len(s) /\ from[j] \in Nat
        BY <2>1, <4>1, <4>2 DEF Tracks
      <4>4. from[i] \in 1..(from[j] - 1) BY <4>3
      <4> QED BY <3>1, <3>2, <3>3, <4>3, <4>4
    <3> QED BY <3>2, <3>3
  <2>2. CASE j \notin 1..n
    <3>1. sent[j] \in StillPending(s, stored) BY <2>2 DEF Tracks
    <3>2. ~HeldBack(sent[j]) /\ ~Told(s, sent[j].call) BY <3>1, PendingStaysOpen
    <3>3. ~Told(sent, sent[j].call) BY <1>1, <3>2
    <3> QED BY <3>2, <3>3 DEF Told
  <2> QED BY <2>1, <2>2
<1> QED BY <1>1, <1>2, <1>3, <1>4, <1>5

-----------------------------------------------------------------------------
(* Which decisions of what is sent are acted on.                            *)
LEMMA ActionableIs ==
  ASSUME NEW K, NEW t \in Seq(ItemsOf(K)), NEW p \in 1..Len(t), Actionable(t, p)
  PROVE  /\ t[p].kind = "decision"
         /\ \A x \in 1..Len(t) : t[x].kind = "result" /\ t[x].call.id = t[p].call.id => x < p
         /\ \A q \in 1..Len(t) : Opens(t, q) /\ t[q].call.id = t[p].call.id => q < p
<1> DEFINE id == t[p].call.id
<1>0. Len(t) \in Nat /\ p \in Nat OBVIOUS
<1>1. PICK l \in 0..Len(t) : l = LastOf(t, "result", id) BY LastOfIs
<1>2. \A x \in 1..Len(t) : t[x].kind = "result" /\ t[x].call.id = id => x <= l BY <1>1, LastOfIs
<1>3. PICK o \in 0..Len(t) : o = OpenedAt(t, id) BY OpenedAtIs
<1>4. \A q \in 1..Len(t) : Opens(t, q) /\ t[q].call.id = id => q <= o BY <1>3, OpenedAtIs
<1>5. t[p].kind = "decision" /\ (IF o = 0 THEN l = 0 ELSE o > l /\ p > o) BY <1>1, <1>3 DEF Actionable
<1> HIDE DEF id
<1>6. l < p /\ o < p BY <1>0, <1>1, <1>3, <1>5
<1>7. \A x \in 1..Len(t) : t[x].kind = "result" /\ t[x].call.id = id => x < p BY <1>0, <1>2, <1>6
<1>8. \A q \in 1..Len(t) : Opens(t, q) /\ t[q].call.id = id => q < p BY <1>0, <1>4, <1>6
<1> QED BY <1>5, <1>7, <1>8 DEF id

LEMMA DecidedIs ==
  ASSUME NEW K, NEW t \in Seq(ItemsOf(K)), NEW d \in Decided(t)
  PROVE  /\ \E p \in 1..Len(t) : d = t[p] /\ Actionable(t, p)
         /\ d.call \in K /\ d.call.id \in Responded(t)
         /\ \A e \in Decided(t) : e.call = d.call => e = d
<1>0. DOMAIN t = 1..Len(t) /\ Len(t) \in Nat OBVIOUS
<1>1. ASSUME NEW e \in Decided(t)
      PROVE  \E p \in 1..Len(t) : /\ e = t[p] /\ Actionable(t, p)
                                  /\ \A n \in 1..Len(t) : Actionable(t, n) /\ t[n].call.id = t[p].call.id => n <= p
  BY <1>0 DEF Decided
<1>2. PICK p \in 1..Len(t) : /\ d = t[p] /\ Actionable(t, p)
                             /\ \A n \in 1..Len(t) : Actionable(t, n) /\ t[n].call.id = t[p].call.id => n <= p
  BY <1>1
<1>3. d \in ItemsOf(K) BY <1>2
<1>4. d.call \in K BY <1>3, ItemIs
<1>5. d.call.id \in Responded(t) BY <1>0, <1>2 DEF Responded
<1>6. ASSUME NEW e \in Decided(t), e.call = d.call PROVE e = d
  <2>1. PICK o \in 1..Len(t) : /\ e = t[o] /\ Actionable(t, o)
                             /\ \A n \in 1..Len(t) : Actionable(t, n) /\ t[n].call.id = t[o].call.id => n <= o
    BY <1>1
  <2>2. t[o].call.id = t[p].call.id BY <1>2, <1>6, <2>1
  <2>3. o <= p /\ p <= o BY <1>2, <2>1, <2>2
  <2>4. o = p BY <1>0, <2>3
  <2> QED BY <1>2, <2>1, <2>4
<1> QED BY <1>2, <1>4, <1>5, <1>6

(* A call that a decision runs or turns down has no result yet.             *)
LEMMA DecidedIsOpen ==
  ASSUME NEW K, NEW s, NEW stored, NEW auto, Scene(K, s, stored, auto),
         NEW sent \in Seq(ItemsOf(K)), NEW n, NEW from, Tracks(sent, n, s, stored, auto, from),
         NEW d \in Decided(sent)
  PROVE  ~Told(sent, d.call)
<1>0. s \in Seq(ItemsOf(K)) /\ Len(s) \in Nat /\ DOMAIN s = 1..Len(s) BY SceneIs
<1>1. PICK p \in 1..Len(sent) : d = sent[p] /\ Actionable(sent, p) BY DecidedIs
<1>2. sent[p].kind = "decision" BY <1>1, ActionableIs
<1> SUFFICES ASSUME Told(sent, d.call) PROVE FALSE OBVIOUS
<1>3. Told(s, d.call) BY SentFits
<1>4. PICK x \in 1..Len(sent) : sent[x] = ResultOf(d.call) BY DEF Told
<1>5. sent[x].kind = "result" /\ sent[x].call = d.call BY <1>4, Fields
<1>6. x < p BY <1>1, <1>5, ActionableIs
<1>7. CASE p \notin 1..n
  <2>1. PICK r \in auto : d.call = r.call BY <1>1, <1>2, <1>7 DEF Tracks
  <2> QED BY <1>3, <2>1 DEF Scene
<1>8. CASE p \in 1..n
  <2>1. x \in 1..n BY <1>5 DEF Tracks
  <2>2. /\ sent[x] = s[from[x]] /\ from[x] < from[p] /\ from[x] \in 1..Len(s) /\ from[p] \in 1..Len(s)
    BY <1>5, <1>6, <1>8, <2>1 DEF Tracks
  <2>3. PICK r \in BoundTo(s, stored, from[p]) : d.call = r.call BY <1>1, <1>2, <1>8 DEF Tracks
  <2>4. CASE r \in stored BY <1>3, <2>3, <2>4 DEF Scene
  <2>5. CASE r \notin stored
    <3>1. PICK q \in DOMAIN s : Opens(s, q) /\ Settles(s, from[p], q) /\ r = RequestAt(s, stored, q)
      BY <2>2, <2>3, <2>5, BoundToIs DEF OnlyStored
    <3>2. r = s[q] /\ s[q].kind = "request" /\ q \in 1..Len(s) BY <1>0, <2>5, <3>1, RequestAtIs DEF Opens
    <3>3. \A y \in 1..(q - 1) : s[y] # ResultOf(s[q].call) BY <3>2 DEF Scene, NotReasked
    <3>4. from[x] \notin 1..(q - 1) BY <1>4, <2>2, <2>3, <3>2, <3>3
    <3>5. from[x] # q BY <1>5, <2>2, <3>2
    <3>6. from[x] \in (q + 1)..(from[p] - 1) BY <1>0, <2>2, <3>2, <3>4, <3>5
    <3>7. s[from[x]].kind = "result" /\ s[from[x]].call.id = s[q].call.id BY <1>5, <2>2, <2>3, <3>2
    <3>8. Has(s, "result", s[q].call.id, q + 1, from[p] - 1) BY <3>6, <3>7 DEF Has
    <3> QED BY <3>1, <3>8 DEF Settles
  <2> QED BY <2>4, <2>5
<1> QED BY <1>7, <1>8

(* The first decision after a request opened settles it if no result came.  *)
LEMMA FirstSettles ==
  ASSUME NEW K, NEW s \in Seq(K), NEW q \in 1..Len(s), NEW p \in 1..Len(s), q < p,
         s[p].kind = "decision", s[p].call.id = s[q].call.id, ~Closed(s, q)
  PROVE  \E o \in DOMAIN s : Settles(s, o, q)
<1>0. Len(s) \in Nat /\ DOMAIN s = 1..Len(s) OBVIOUS
<1> DEFINE Z == {o \in 1..Len(s) : q < o /\ s[o].kind = "decision" /\ s[o].call.id = s[q].call.id}
<1>1. Z \subseteq Nat /\ p \in Z BY <1>0
<1>2. PICK o \in Z : \A m \in Z : o <= m BY ONLY <1>1, LeastNat
<1>3. o \in 1..Len(s) /\ q < o /\ s[o].kind = "decision" /\ s[o].call.id = s[q].call.id BY <1>2
<1>4. ~Has(s, "decision", s[q].call.id, q + 1, o - 1)
  <2> SUFFICES ASSUME NEW m \in (q + 1)..(o - 1), s[m].kind = "decision", s[m].call.id = s[q].call.id
               PROVE  FALSE
    BY DEF Has
  <2>1. m \in 1..Len(s) /\ q < m /\ ~(o <= m) BY <1>0, <1>3
  <2> QED BY <1>2, <2>1
<1>5. ~Has(s, "result", s[q].call.id, q + 1, o - 1)
  <2>1. \A m \in (q + 1)..(o - 1) : m \in (q + 1)..Len(s) BY <1>0, <1>3
  <2> QED BY <2>1 DEF Closed, Has
<1>6. Settles(s, o, q) BY <1>3, <1>4, <1>5 DEF Settles
<1> QED BY <1>0, <1>3, <1>6

(* An occurrence whose decision comes later is an occurrence of what is     *)
(* sent as well.                                                            *)
LEMMA SentOpens ==
  ASSUME NEW K, NEW s, NEW stored, NEW auto, Scene(K, s, stored, auto),
         NEW sent \in Seq(ItemsOf(K)), NEW n, NEW from, Tracks(sent, n, s, stored, auto, from),
         NEW j \in 1..n, Opens(s, from[j]), sent[j] = s[from[j]]
  PROVE  Opens(sent, j)
<1>0. Len(s) \in Nat /\ Len(sent) \in Nat /\ n \in Nat /\ j \in 1..Len(sent) /\ from[j] \in 1..Len(s) BY DEF Tracks
<1>1. sent[j].kind = "request" BY DEF Opens
<1>2. ASSUME NEW i \in 1..(j - 1), sent[i].kind = "request", sent[i].call.id = sent[j].call.id
      PROVE  Has(sent, "result", sent[j].call.id, i + 1, j - 1)
  <2>1. i \in 1..n /\ i < j BY <1>0
  <2>2. from[i] < from[j] /\ from[i] \in 1..Len(s) /\ sent[i] = s[from[i]] BY <1>2, <2>1 DEF Tracks
  <2>3. from[i] \in 1..(from[j] - 1) BY <1>0, <2>2
  <2>4. Has(s, "result", s[from[j]].call.id, from[i] + 1, from[j] - 1) BY <1>2, <2>2, <2>3 DEF Opens
  <2>5. PICK y \in (from[i] + 1)..(from[j] - 1) : s[y].kind = "result" /\ s[y].call.id = s[from[j]].call.id
    BY <2>4 DEF Has
  <2>6. y \in 1..Len(s) /\ from[i] < y /\ y < from[j] BY <1>0, <2>2, <2>5, SMTT(30)
  <2>7. PICK l \in 1..n : from[l] = y BY <2>5, <2>6 DEF Tracks
  <2>8. i < l /\ l < j BY <2>1, <2>6, <2>7 DEF Tracks
  <2>9. l \in (i + 1)..(j - 1) BY <1>0, <2>1, <2>7, <2>8
  <2>10. sent[l].kind = "result" /\ sent[l].call.id = sent[j].call.id BY <2>5, <2>7 DEF Tracks
  <2> QED BY <2>9, <2>10 DEF Has
<1> QED BY <1>1, <1>2 DEF Opens

-----------------------------------------------------------------------------
(* A request that stays open is not for a call that is decided on.          *)
LEMMA DecidedNotPending ==
  ASSUME NEW K, NEW s, NEW stored, NEW auto, Scene(K, s, stored, auto),
         NEW sent \in Seq(ItemsOf(K)), NEW n, NEW from, Tracks(sent, n, s, stored, auto, from),
         NEW d \in Decided(sent), NEW r \in StillPending(s, stored)
  PROVE  d.call # r.call
<1>0. s \in Seq(ItemsOf(K)) /\ Len(s) \in Nat /\ DOMAIN s = 1..Len(s) BY SceneIs
<1>1. PICK p \in 1..Len(sent) : d = sent[p] /\ Actionable(sent, p) BY DecidedIs
<1>2. sent[p].kind = "decision" BY <1>1, ActionableIs
<1> SUFFICES ASSUME d.call = r.call PROVE FALSE OBVIOUS
<1>3. CASE p \notin 1..n
  <2>1. PICK a \in auto : d.call = a.call BY <1>1, <1>2, <1>3 DEF Tracks
  <2> QED BY <2>1, PendingStaysOpen
<1>4. CASE p \in 1..n
  <2>0. n \in Nat /\ p \in Nat BY <1>4 DEF Tracks
  <2>1. /\ from[p] \in 1..Len(s) /\ from[p] \in Nat /\ s[from[p]].kind = "decision"
        /\ s[from[p]].call.id = r.call.id
    BY <1>1, <1>2, <1>4 DEF Tracks
  <2>2. ASSUME NEW q \in DOMAIN s, Opens(s, q), ~Closed(s, q), r = RequestAt(s, stored, q),
               \A o \in DOMAIN s : ~Settles(s, o, q)
        PROVE  FALSE
    <3>1. q \in 1..Len(s) /\ s[q].kind = "request" /\ s[q].call.id = r.call.id
      BY <1>0, <2>2, RequestAtIs DEF Opens
    <3>2. ~(q < from[p]) BY <1>0, <2>1, <2>2, <3>1, FirstSettles
    <3>3. q # from[p] BY <2>1, <3>1
    <3>4. from[p] < q BY <1>0, <2>1, <3>1, <3>2, <3>3
    <3>5. PICK j \in 1..n : from[j] = q BY <3>1 DEF Tracks
    <3>6. p < j BY <1>4, <3>4, <3>5 DEF Tracks
    <3>7. sent[j] = s[q] /\ j \in 1..Len(sent) BY <3>1, <3>5 DEF Tracks
    <3>8. Opens(sent, j) BY <2>2, <3>5, <3>7, SentOpens
    <3>9. sent[j].call.id = sent[p].call.id BY <1>1, <3>1, <3>7
    <3>10. j < p BY <1>1, <3>7, <3>8, <3>9, ActionableIs
    <3> QED BY <2>0, <3>6, <3>10
  <2>3. ASSUME r \in OnlyStored(s, stored), \A o \in DOMAIN s : ~SettlesStored(s, o, r)
        PROVE  FALSE
    <3> DEFINE Z == {o \in Unbound(s) : s[o].call.id = r.call.id}
    <3>1. Z \subseteq Nat BY <1>0 DEF Unbound
    <3>2. Z = {}
      <4> SUFFICES ASSUME Z # {} PROVE FALSE OBVIOUS
      <4>0. Z # {} OBVIOUS
      <4>1. PICK o \in Z : \A m \in Z : o <= m BY ONLY <4>0, <3>1, LeastNat
      <4>2. o \in DOMAIN s BY <4>1 DEF Unbound
      <4>3. SettlesStored(s, o, r) BY <4>1 DEF SettlesStored
      <4> QED BY <2>3, <4>2, <4>3
    <3>3. from[p] \notin Unbound(s) BY <2>1, <3>2
    <3>4. PICK q \in Occurrences(s) : Settles(s, from[p], q) BY <1>0, <2>1, <3>3 DEF Unbound
    <3>5. q \in 1..Len(s) /\ Opens(s, q) /\ q < from[p] /\ s[q].call.id = r.call.id
      BY <1>0, <2>1, <3>4 DEF Occurrences, Settles
    <3>6. q \notin OpenOnes(s) BY <2>3, <3>5 DEF OnlyStored
    <3>7. Closed(s, q) BY <3>4, <3>6 DEF OpenOnes
    <3>8. PICK y \in (q + 1)..Len(s) : s[y].kind = "result" /\ s[y].call.id = s[q].call.id
      BY <3>7 DEF Closed, Has
    <3>9. y \notin (q + 1)..(from[p] - 1) BY <3>4, <3>8 DEF Settles, Has
    <3>10. y # from[p] BY <2>1, <3>8
    <3>11. from[p] < y /\ y \in 1..Len(s) BY <1>0, <2>1, <3>5, <3>8, <3>9, <3>10
    <3>12. PICK l \in 1..n : from[l] = y BY <3>8, <3>11 DEF Tracks
    <3>13. p < l BY <1>4, <3>11, <3>12 DEF Tracks
    <3>14. l \in 1..Len(sent) /\ sent[l].kind = "result" /\ sent[l].call.id = sent[p].call.id
      BY <1>1, <3>5, <3>8, <3>12 DEF Tracks
    <3>15. l < p BY <1>1, <3>14, ActionableIs
    <3> QED BY <2>0, <3>13, <3>15
  <2> QED BY <2>2, <2>3, StillPendingIs
<1> QED BY <1>3, <1>4

(* A request that goes back was shown, has no result, and nothing that is   *)
(* acted on has its id.                                                     *)
LEMMA UnansweredIs ==
  ASSUME NEW K, NEW t \in Seq(ItemsOf(K)), NotReasked(t), NEW r \in Unanswered(t)
  PROVE  /\ r \in Requests(K) /\ ~HeldBack(r) /\ ~Told(t, r.call)
         /\ \A d \in Decided(t) : d.call # r.call
<1>0. DOMAIN t = 1..Len(t) /\ Len(t) \in Nat OBVIOUS
<1>1. PICK o \in 1..Len(t) : /\ r = t[o] /\ t[o].kind = "request" /\ t[o].call.id \notin Responded(t)
                             /\ o > LastOf(t, "result", t[o].call.id)
  BY <1>0 DEF Unanswered
<1>2. r \in Requests(K)
  <2>1. t[o] \in ItemsOf(K) OBVIOUS
  <2> QED BY <1>1, <2>1, ItemIs DEF Requests
<1>3. ~HeldBack(r) /\ \A x \in 1..(o - 1) : t[x] # ResultOf(r.call) BY <1>1 DEF NotReasked
<1>4. ~Told(t, r.call)
  <2> SUFFICES ASSUME NEW x \in 1..Len(t), t[x] = ResultOf(r.call) PROVE FALSE BY DEF Told
  <2>1. t[x].kind = "result" /\ t[x].call.id = t[o].call.id BY <1>1, Fields
  <2>2. x <= LastOf(t, "result", t[o].call.id) /\ LastOf(t, "result", t[o].call.id) \in 0..Len(t)
    BY <2>1, LastOfIs
  <2>3. x \in 1..(o - 1) BY <1>0, <1>1, <2>2
  <2> QED BY <1>3, <2>3
<1>5. \A d \in Decided(t) : d.call # r.call BY <1>1, DecidedIs
<1> QED BY <1>2, <1>3, <1>4, <1>5

(* What the model gets of a transcript.                                     *)
LEMMA StrippedIs ==
  ASSUME NEW K, NEW t \in Seq(ItemsOf(K)), Once(t), Founded(t)
  PROVE  /\ Stripped(t) \in Seq(ItemsOf(K))
         /\ \A i \in 1..Len(Stripped(t)) : Stripped(t)[i].kind \in {"call", "result"}
         /\ Once(Stripped(t)) /\ Founded(Stripped(t))
         /\ \A c : Told(Stripped(t), c) => Told(t, c)
<1>0. DOMAIN t = 1..Len(t) /\ Len(t) \in Nat OBVIOUS
<1>1. PICK P : P = {p \in DOMAIN t :
     /\ t[p].kind \notin {"request", "decision"}
     /\ ~(/\ t[p].kind = "call" /\ t[p].call.id \in Responded(t)
          /\ p > LastOf(t, "result", t[p].call.id))} OBVIOUS
<1>2. PICK u \in Seq(ItemsOf(K)) : u = Stripped(t) /\ \E from : Picks(u, t, P, from) BY <1>1, AtPicks DEF Stripped
<1>3. PICK from : Picks(u, t, P, from) BY <1>2
<1>4. Once(u) /\ \A c : Told(u, c) => Told(t, c) BY <1>3, PicksOnce
<1>5. ASSUME NEW p \in 1..Len(t), NEW q \in 1..Len(t), t[q].kind = "result", p < q, t[p] = Raw(t[q].call)
      PROVE  p \in P
  <2>1. t[p].kind = "call" /\ t[p].call.id = t[q].call.id BY <1>5, Fields
  <2>2. q <= LastOf(t, "result", t[p].call.id) /\ LastOf(t, "result", t[p].call.id) \in 0..Len(t)
    BY <1>5, <2>1, LastOfIs
  <2>3. ~(p > LastOf(t, "result", t[p].call.id)) BY <1>0, <1>5, <2>2
  <2> QED BY <1>0, <1>1, <2>1, <2>3
<1>6. Founded(u) BY <1>3, <1>5, PicksFounded
<1>7. ASSUME NEW i \in 1..Len(u) PROVE u[i].kind \in {"call", "result"}
  <2>1. from[i] \in 1..Len(t) /\ from[i] \in P /\ u[i] = t[from[i]] BY <1>3, PicksKeep
  <2>2. t[from[i]] \in ItemsOf(K) /\ t[from[i]].kind \notin {"request", "decision"} BY <1>1, <2>1
  <2> QED BY <2>1, <2>2, ItemIs
<1> QED BY <1>2, <1>4, <1>6, <1>7

-----------------------------------------------------------------------------
(* One sequence behind another.                                             *)
Rests(b, a) ==
  \A q \in 1..Len(b) : b[q].kind = "result" =>
    Raw(b[q].call) \in ToSet(a) \/ \E p \in 1..(q - 1) : b[p] = Raw(b[q].call)

LEMMA MemberIs ==
  ASSUME NEW T, NEW s \in Seq(T), NEW x
  PROVE  x \in ToSet(s) <=> \E p \in 1..Len(s) : s[p] = x
<1>1. DOMAIN s = 1..Len(s) OBVIOUS
<1> QED BY <1>1 DEF ToSet

LEMMA JoinedIs ==
  ASSUME NEW T, NEW a \in Seq(T), NEW b \in Seq(T)
  PROVE  /\ a \o b \in Seq(T) /\ Len(a) \in Nat /\ Len(b) \in Nat /\ Len(a \o b) = Len(a) + Len(b)
         /\ \A i \in 1..Len(a) : i \in 1..Len(a \o b) /\ (a \o b)[i] = a[i]
         /\ \A j \in 1..Len(b) : Len(a) + j \in 1..Len(a \o b) /\ (a \o b)[Len(a) + j] = b[j]
         /\ \A k \in 1..Len(a \o b) : k \in 1..Len(a) \/ (k > Len(a) /\ \E j \in 1..Len(b) : k = Len(a) + j)
         /\ ToSet(a \o b) = ToSet(a) \cup ToSet(b)
<1>0. Len(a) \in Nat /\ Len(b) \in Nat OBVIOUS
<1>1. PICK c : c = a \o b OBVIOUS
<1>2. /\ c \in Seq(T) /\ Len(c) = Len(a) + Len(b)
      /\ \A i \in 1..Len(a) + Len(b) : c[i] = IF i <= Len(a) THEN a[i] ELSE b[i - Len(a)]
  BY <1>1, ConcatProperties
<1>3. \A i \in 1..Len(a) : i \in 1..Len(c) /\ c[i] = a[i] BY <1>0, <1>2
<1>4. ASSUME NEW j \in 1..Len(b) PROVE Len(a) + j \in 1..Len(c) /\ c[Len(a) + j] = b[j]
  <2>1. /\ Len(a) + j \in 1..Len(a) + Len(b) /\ ~(Len(a) + j <= Len(a)) /\ Len(a) + j - Len(a) = j
    BY <1>0
  <2>2. c[Len(a) + j] = b[Len(a) + j - Len(a)] BY <1>2, <2>1
  <2> QED BY <1>2, <2>1, <2>2
<1>5. ASSUME NEW k \in 1..Len(c) PROVE k \in 1..Len(a) \/ (k > Len(a) /\ \E j \in 1..Len(b) : k = Len(a) + j)
  <2>1. CASE k > Len(a)
    <3>1. k - Len(a) \in 1..Len(b) /\ k = Len(a) + (k - Len(a)) BY <1>0, <1>2, <2>1
    <3> QED BY <2>1, <3>1
  <2>2. CASE ~(k > Len(a)) BY <1>0, <1>2, <2>2
  <2> QED BY <2>1, <2>2
<1>6. ToSet(c) = ToSet(a) \cup ToSet(b)
  <2>1. ASSUME NEW x \in ToSet(c) PROVE x \in ToSet(a) \cup ToSet(b)
    <3>1. PICK k \in 1..Len(c) : c[k] = x BY <1>2, <2>1, MemberIs
    <3>2. (\E i \in 1..Len(a) : a[i] = x) \/ \E j \in 1..Len(b) : b[j] = x BY <1>3, <1>4, <1>5, <3>1
    <3> QED BY <3>2, MemberIs
  <2>2. ASSUME NEW x \in ToSet(a) PROVE x \in ToSet(c)
    <3>1. PICK i \in 1..Len(a) : a[i] = x BY <2>2, MemberIs
    <3> QED BY <1>2, <1>3, <3>1, MemberIs
  <2>3. ASSUME NEW x \in ToSet(b) PROVE x \in ToSet(c)
    <3>1. PICK j \in 1..Len(b) : b[j] = x BY <2>3, MemberIs
    <3> QED BY <1>2, <1>4, <3>1, MemberIs
  <2> QED BY <2>1, <2>2, <2>3
<1> QED BY <1>0, <1>1, <1>2, <1>3, <1>4, <1>5, <1>6

LEMMA ToldIs ==
  ASSUME NEW T, NEW s \in Seq(T), NEW c PROVE Told(s, c) <=> ResultOf(c) \in ToSet(s)
BY MemberIs DEF Told

LEMMA JoinedFits ==
  ASSUME NEW K, NEW a \in Seq(ItemsOf(K)), NEW b \in Seq(ItemsOf(K))
  PROVE  /\ a \o b \in Seq(ItemsOf(K))
         /\ \A c : Told(a \o b, c) <=> Told(a, c) \/ Told(b, c)
         /\ Once(a) /\ Once(b) /\ (\A c : ~(Told(a, c) /\ Told(b, c))) => Once(a \o b)
         /\ Founded(a) /\ Rests(b, a) => Founded(a \o b)
         /\ NotReasked(a) /\ NotReasked(b)
              /\ (\A q \in 1..Len(b) : b[q].kind = "request" => ~Told(a, b[q].call)) => NotReasked(a \o b)
<1>1. PICK c : c = a \o b OBVIOUS
<1>2. /\ c \in Seq(ItemsOf(K)) /\ Len(a) \in Nat /\ Len(b) \in Nat /\ Len(c) = Len(a) + Len(b)
      /\ \A i \in 1..Len(a) : i \in 1..Len(c) /\ c[i] = a[i]
      /\ \A j \in 1..Len(b) : Len(a) + j \in 1..Len(c) /\ c[Len(a) + j] = b[j]
      /\ \A k \in 1..Len(c) : k \in 1..Len(a) \/ (k > Len(a) /\ \E j \in 1..Len(b) : k = Len(a) + j)
      /\ ToSet(c) = ToSet(a) \cup ToSet(b)
  BY <1>1, JoinedIs
<1>3. \A x : Told(c, x) <=> Told(a, x) \/ Told(b, x)
  <2> TAKE x
  <2>1. Told(c, x) <=> ResultOf(x) \in ToSet(c) BY <1>2, ToldIs
  <2>2. Told(a, x) <=> ResultOf(x) \in ToSet(a) BY ToldIs
  <2>3. Told(b, x) <=> ResultOf(x) \in ToSet(b) BY ToldIs
  <2> QED BY <1>2, <2>1, <2>2, <2>3
<1>4. ASSUME Once(a), Once(b), \A x : ~(Told(a, x) /\ Told(b, x)) PROVE Once(c)
  <2> SUFFICES ASSUME NEW p \in 1..Len(c), NEW q \in 1..Len(c), c[p].kind = "result", c[p] = c[q]
               PROVE p = q
    BY DEF Once
  <2>1. c[p] = ResultOf(c[p].call)
    <3>1. c[p] \in ItemsOf(K) BY <1>2
    <3> QED BY <3>1, ItemIs
  <2>2. CASE p \in 1..Len(a) /\ q \in 1..Len(a) BY <1>2, <1>4, <2>2 DEF Once
  <2>3. CASE p \in 1..Len(a) /\ q \notin 1..Len(a)
    <3>1. Told(a, c[p].call) BY <1>2, <2>1, <2>3 DEF Told
    <3>2. PICK j \in 1..Len(b) : q = Len(a) + j BY <1>2, <2>3
    <3>4. b[j] = ResultOf(c[p].call) BY <1>2, <2>1, <3>2
    <3>3. Told(b, c[p].call) BY <3>4 DEF Told
    <3> QED BY <1>4, <3>1, <3>3
  <2>4. CASE q \in 1..Len(a) /\ p \notin 1..Len(a)
    <3>1. Told(a, c[p].call) BY <1>2, <2>1, <2>4 DEF Told
    <3>2. PICK j \in 1..Len(b) : p = Len(a) + j BY <1>2, <2>4
    <3>4. b[j] = ResultOf(c[p].call) BY <1>2, <2>1, <3>2
    <3>3. Told(b, c[p].call) BY <3>4 DEF Told
    <3> QED BY <1>4, <3>1, <3>3
  <2>5. CASE p \notin 1..Len(a) /\ q \notin 1..Len(a)
    <3>1. PICK i \in 1..Len(b) : p = Len(a) + i BY <1>2, <2>5
    <3>2. PICK j \in 1..Len(b) : q = Len(a) + j BY <1>2, <2>5
    <3>3. b[i] = c[p] /\ b[j] = c[q] BY <1>2, <3>1, <3>2
    <3>4. i = j BY <1>4, <3>3 DEF Once
    <3> QED BY <3>1, <3>2, <3>4
  <2> QED BY <2>2, <2>3, <2>4, <2>5
<1>5. ASSUME Founded(a), Rests(b, a) PROVE Founded(c)
  <2> SUFFICES ASSUME NEW q \in 1..Len(c), c[q].kind = "result"
               PROVE  \E p \in 1..(q - 1) : c[p] = Raw(c[q].call)
    BY DEF Founded
  <2>1. CASE q \in 1..Len(a)
    <3>1. c[q] = a[q] BY <1>2, <2>1
    <3>2. PICK p \in 1..(q - 1) : a[p] = Raw(a[q].call) BY <1>5, <2>1, <3>1 DEF Founded
    <3>3. p \in 1..Len(a) BY <1>2, <2>1, <3>2
    <3> QED BY <1>2, <3>1, <3>2, <3>3
  <2>2. CASE q \notin 1..Len(a)
    <3>1. q > Len(a) BY <1>2, <2>2
    <3>2. PICK j \in 1..Len(b) : q = Len(a) + j BY <1>2, <2>2
    <3>3. c[q] = b[j] BY <1>2, <3>2
    <3>4. CASE Raw(b[j].call) \in ToSet(a)
      <4>1. PICK p \in 1..Len(a) : a[p] = Raw(b[j].call) BY <3>4, MemberIs
      <4>2. p \in 1..(q - 1) BY <1>2, <3>1
      <4> QED BY <1>2, <3>3, <4>1, <4>2
    <3>5. CASE \E p \in 1..(j - 1) : b[p] = Raw(b[j].call)
      <4>1. PICK p \in 1..(j - 1) : b[p] = Raw(b[j].call) BY <3>5
      <4>2. p \in 1..Len(b) /\ Len(a) + p \in 1..(q - 1) BY <1>2, <3>2
      <4>3. c[Len(a) + p] = b[p] BY <1>2, <4>2
      <4> QED BY <3>3, <4>1, <4>2, <4>3
    <3> QED BY <1>5, <3>3, <3>4, <3>5 DEF Rests
  <2> QED BY <2>1, <2>2
<1>6. ASSUME NotReasked(a), NotReasked(b), \A q \in 1..Len(b) : b[q].kind = "request" => ~Told(a, b[q].call)
      PROVE  NotReasked(c)
  <2> SUFFICES ASSUME NEW q \in 1..Len(c), c[q].kind = "request"
               PROVE  ~HeldBack(c[q]) /\ \A p \in 1..(q - 1) : c[p] # ResultOf(c[q].call)
    BY DEF NotReasked
  <2>1. CASE q \in 1..Len(a)
    <3>1. c[q] = a[q] BY <1>2, <2>1
    <3>2. \A p \in 1..(q - 1) : p \in 1..Len(a) BY <1>2, <2>1
    <3>3. \A p \in 1..(q - 1) : c[p] = a[p] BY <1>2, <3>2
    <3> QED BY <1>6, <2>1, <3>1, <3>3 DEF NotReasked
  <2>2. CASE q \notin 1..Len(a)
    <3>1. PICK j \in 1..Len(b) : q = Len(a) + j BY <1>2, <2>2
    <3>2. c[q] = b[j] BY <1>2, <3>1
    <3>3. ~HeldBack(b[j]) /\ ~Told(a, b[j].call) /\ \A i \in 1..(j - 1) : b[i] # ResultOf(b[j].call)
      BY <1>6, <3>2 DEF NotReasked
    <3>4. ASSUME NEW p \in 1..(q - 1), c[p] = ResultOf(b[j].call) PROVE FALSE
      <4>0. p \in 1..Len(c) BY <1>2, <3>1
      <4>1. CASE p \in 1..Len(a) BY <1>2, <3>3, <3>4, <4>1 DEF Told
      <4>2. CASE p \notin 1..Len(a)
        <5>1. PICK i \in 1..Len(b) : p = Len(a) + i BY <1>2, <4>0, <4>2
        <5>2. i \in 1..(j - 1) BY <1>2, <3>1, <5>1
        <5>3. c[p] = b[i] BY <1>2, <5>1
        <5> QED BY <3>3, <3>4, <5>2, <5>3
      <4> QED BY <4>1, <4>2
    <3> QED BY <3>2, <3>3, <3>4
  <2> QED BY <2>1, <2>2
<1> QED BY <1>1, <1>2, <1>3, <1>4, <1>5, <1>6

-----------------------------------------------------------------------------
(* Finitely many calls, finitely many items.                                *)
LEMMA ItemsFinite ==
  ASSUME NEW K, IsFiniteSet(K)
  PROVE  IsFiniteSet(ItemsOf(K)) /\ IsFiniteSet(Requests(K)) /\ \A S \in SUBSET ItemsOf(K) : IsFiniteSet(S)
<1> DEFINE B == {TRUE, FALSE}
           N == {"call", "result", "request", "decision"}
           T == (K \X N) \X (B \X B)
           f == [i \in ItemsOf(K) |-> <<<<i.call, i.kind>>, <<i.yes, i.mw>>>>]
<1>1. IsFiniteSet(B)
  <2>1. IsFiniteSet({TRUE}) BY FS_Singleton
  <2>2. IsFiniteSet({TRUE} \cup {FALSE}) BY <2>1, FS_AddElement
  <2>3. B = {TRUE} \cup {FALSE} OBVIOUS
  <2> QED BY <2>2, <2>3
<1>2. IsFiniteSet(N)
  <2>1. IsFiniteSet({"call"}) BY FS_Singleton
  <2>2. IsFiniteSet({"call"} \cup {"result"}) BY <2>1, FS_AddElement
  <2>3. IsFiniteSet(({"call"} \cup {"result"}) \cup {"request"}) BY <2>2, FS_AddElement
  <2>4. IsFiniteSet((({"call"} \cup {"result"}) \cup {"request"}) \cup {"decision"}) BY <2>3, FS_AddElement
  <2>5. N = (({"call"} \cup {"result"}) \cup {"request"}) \cup {"decision"} OBVIOUS
  <2> QED BY <2>4, <2>5
<1>3. IsFiniteSet(T)
  <2>1. IsFiniteSet(K \X N) BY <1>2, FS_Product
  <2>2. IsFiniteSet(B \X B) BY <1>1, FS_Product
  <2> QED BY <2>1, <2>2, FS_Product
<1>4. ASSUME NEW i \in ItemsOf(K)
      PROVE  /\ i.call \in K /\ i.kind \in N /\ i.yes \in B /\ i.mw \in B
             /\ i = [kind |-> i.kind, call |-> i.call, yes |-> i.yes, mw |-> i.mw]
  <2>1. \E k \in N, c \in K, y \in B, m \in B : i = Item(k, c, y, m)
    <3>1. ASSUME NEW c \in K, i = Raw(c) PROVE \E k \in N, e \in K, y \in B, m \in B : i = Item(k, e, y, m)
      BY <3>1, Zenon DEF Raw
    <3>2. ASSUME NEW c \in K, i = ResultOf(c) PROVE \E k \in N, e \in K, y \in B, m \in B : i = Item(k, e, y, m)
      BY <3>2, Zenon DEF ResultOf
    <3>3. ASSUME NEW c \in K, NEW x \in BOOLEAN, i = Request(c, x)
          PROVE \E k \in N, e \in K, y \in B, m \in B : i = Item(k, e, y, m)
      <4>1. x \in B BY Zenon
      <4> QED BY <3>3, <4>1, Zenon DEF Request
    <3>4. ASSUME NEW c \in K, NEW x \in BOOLEAN, i = Decision(c, x)
          PROVE \E k \in N, e \in K, y \in B, m \in B : i = Item(k, e, y, m)
      <4>1. x \in B BY Zenon
      <4> QED BY <3>4, <4>1, Zenon DEF Decision
    <3>5. \/ \E c \in K : i = Raw(c) \/ i = ResultOf(c)
          \/ \E c \in K, x \in BOOLEAN : i = Request(c, x) \/ i = Decision(c, x)
      BY DEF ItemsOf
    <3> QED BY <3>1, <3>2, <3>3, <3>4, <3>5, Zenon
  <2>2. PICK k \in N, c \in K, y \in B, m \in B : i = [kind |-> k, call |-> c, yes |-> y, mw |-> m]
    BY <2>1, Zenon DEF Item
  <2>3. i.kind = k /\ i.call = c /\ i.yes = y /\ i.mw = m BY <2>2, Zenon
  <2> QED BY <2>2, <2>3, Zenon
<1>5. f \in [ItemsOf(K) -> T] BY <1>4
<1>6. ASSUME NEW i \in ItemsOf(K), NEW j \in ItemsOf(K), f[i] = f[j] PROVE i = j
  <2>1. i.kind = j.kind /\ i.call = j.call /\ i.yes = j.yes /\ i.mw = j.mw BY <1>6
  <2>2. i = [kind |-> i.kind, call |-> i.call, yes |-> i.yes, mw |-> i.mw] BY <1>4
  <2>3. j = [kind |-> j.kind, call |-> j.call, yes |-> j.yes, mw |-> j.mw] BY <1>4
  <2> QED BY <2>1, <2>2, <2>3
<1> HIDE DEF f, T
<1>7. f \in Injection(ItemsOf(K), T) BY <1>5, <1>6 DEF Injection, IsInjective
<1>8. IsFiniteSet(ItemsOf(K)) BY <1>3, <1>7, FS_Injection
<1>9. Requests(K) \in SUBSET ItemsOf(K) BY DEF Requests, ItemsOf
<1> QED BY <1>8, <1>9, FS_Subset

-----------------------------------------------------------------------------
(* What BoundDecisions makes of the transcript, with the calls held back    *)
(* approved behind it, is what is sent.                                     *)
LEMMA SentCarries ==
  ASSUME NEW K, NEW s, NEW stored, NEW auto, Scene(K, s, stored, auto),
         NEW sent, sent = BoundDecisions(s, stored) \o Listed({Decision(r.call, TRUE) : r \in auto})
  PROVE  sent \in Seq(ItemsOf(K)) /\ \E n, from : Carries(sent, n, s, stored, auto, from)
<1>0. /\ s \in Seq(ItemsOf(K)) /\ Len(s) \in Nat /\ DOMAIN s = 1..Len(s) /\ stored \subseteq Requests(K)
      /\ auto \subseteq Requests(K) /\ \A p \in 1..Len(s) : s[p] \in ItemsOf(K) BY SceneIs
<1>1. PICK yes : yes = {Decision(r.call, TRUE) : r \in auto} OBVIOUS
<1>2. yes \subseteq ItemsOf(K)
  <2>1. \A r \in auto : r.call \in K BY <1>0, RequestsFit
  <2>2. ASSUME NEW c \in K PROVE Decision(c, TRUE) \in ItemsOf(K)
    <3>1. TRUE \in BOOLEAN OBVIOUS
    <3>2. \A y \in BOOLEAN : Decision(c, y) \in ItemsOf(K) BY DEF ItemsOf
    <3> QED BY <3>1, <3>2, Zenon
  <2> QED BY <1>1, <2>1, <2>2, Zenon
<1>3. /\ StillPending(s, stored) \subseteq Requests(K) /\ StillPending(s, stored) \subseteq ItemsOf(K)
  BY <1>0, RequestsFit
<1>4. IsFiniteSet(yes) /\ IsFiniteSet(StillPending(s, stored)) BY <1>2, <1>3, ItemsFinite DEF Scene
<1>5. PICK y \in Seq(ItemsOf(K)) : y = Listed(yes) /\ ToSet(y) = yes
  <2>1. Listed(yes) \in Seq(yes) /\ ToSet(Listed(yes)) = yes BY <1>4, ListedIs
  <2>2. Listed(yes) \in Seq(ItemsOf(K)) BY <1>2, <2>1
  <2> QED BY <2>1, <2>2
<1>6. PICK o \in Seq(ItemsOf(K)) : /\ o = IF HasDecision(s) THEN Listed(StillPending(s, stored)) ELSE <<>>
                                   /\ ToSet(o) \subseteq StillPending(s, stored)
  <2>1. /\ Listed(StillPending(s, stored)) \in Seq(StillPending(s, stored))
        /\ ToSet(Listed(StillPending(s, stored))) = StillPending(s, stored)
    BY <1>4, ListedIs
  <2>2. Listed(StillPending(s, stored)) \in Seq(ItemsOf(K)) BY <1>3, <2>1
  <2>3. <<>> \in Seq(ItemsOf(K)) /\ ToSet(<<>>) = {} BY DEF ToSet
  <2> QED BY <2>1, <2>2, <2>3
<1>7. \E t \in Seq(ItemsOf(K)) : \E from : Rebinds(t, s, stored, from) /\ BoundDecisions(s, stored) = t \o o
  <2>1. CASE HasDecision(s)
    <3>1. PICK t \in Seq(ItemsOf(K)) : t = Rebound(s, stored) /\ \E from : Rebinds(t, s, stored, from)
      BY <1>0, ReboundIs
    <3>2. BoundDecisions(s, stored) = t \o o BY <1>6, <2>1, <3>1 DEF BoundDecisions
    <3> QED BY <3>1, <3>2
  <2>2. CASE ~HasDecision(s)
    <3>1. PICK from : from = [p \in 1..Len(s) |-> p] OBVIOUS
    <3>2. \A p \in 1..Len(s) : s[p].kind # "decision" BY <1>0, <2>2 DEF HasDecision
    <3>3. \A p \in 1..Len(s) : p \in Kept(s, stored) BY <1>0, <3>2 DEF Kept
    <3>4. Rebinds(s, s, stored, from) BY <3>1, <3>2, <3>3 DEF Rebinds
    <3>5. s \o o = s BY <1>0, <1>6, <2>2
    <3>6. BoundDecisions(s, stored) = s \o o BY <2>2, <3>5 DEF BoundDecisions
    <3> QED BY <1>0, <3>4, <3>6
  <2> QED BY <2>1, <2>2
<1>8. PICK t \in Seq(ItemsOf(K)) : \E from : Rebinds(t, s, stored, from) /\ BoundDecisions(s, stored) = t \o o
  BY <1>7
<1>9. PICK from : Rebinds(t, s, stored, from) /\ BoundDecisions(s, stored) = t \o o BY <1>8
<1>10. PICK b : b = t \o o OBVIOUS
<1>11. /\ b \in Seq(ItemsOf(K)) /\ Len(t) \in Nat /\ Len(b) = Len(t) + Len(o)
       /\ \A i \in 1..Len(t) : i \in 1..Len(b) /\ b[i] = t[i]
       /\ \A k \in 1..Len(b) : k \in 1..Len(t) \/ (k > Len(t) /\ \E j \in 1..Len(o) : k = Len(t) + j)
       /\ \A j \in 1..Len(o) : b[Len(t) + j] = o[j]
  BY <1>10, JoinedIs
<1>12. sent = b \o y BY <1>1, <1>5, <1>9, <1>10
<1>13. /\ sent \in Seq(ItemsOf(K)) /\ Len(b) \in Nat /\ Len(sent) = Len(b) + Len(y) /\ Len(y) \in Nat
       /\ \A i \in 1..Len(b) : i \in 1..Len(sent) /\ sent[i] = b[i]
       /\ \A k \in 1..Len(sent) : k \in 1..Len(b) \/ (k > Len(b) /\ \E j \in 1..Len(y) : k = Len(b) + j)
       /\ \A j \in 1..Len(y) : sent[Len(b) + j] = y[j]
  <2>1. b \in Seq(ItemsOf(K)) /\ y \in Seq(ItemsOf(K)) BY <1>11, <1>5
  <2>2. PICK j : j = b \o y OBVIOUS
  <2>3. /\ j \in Seq(ItemsOf(K)) /\ Len(b) \in Nat /\ Len(j) = Len(b) + Len(y) /\ Len(y) \in Nat
        /\ \A i \in 1..Len(b) : i \in 1..Len(j) /\ j[i] = b[i]
        /\ \A k \in 1..Len(j) : k \in 1..Len(b) \/ (k > Len(b) /\ \E i \in 1..Len(y) : k = Len(b) + i)
        /\ \A i \in 1..Len(y) : j[Len(b) + i] = y[i]
    BY <2>1, <2>2, JoinedIs
  <2> QED BY <1>12, <2>2, <2>3
<1>14. \A i \in 1..Len(t) : i \in 1..Len(sent) /\ sent[i] = t[i] BY <1>11, <1>13
<1>15. ASSUME NEW i \in 1..Len(sent), i > Len(t) PROVE sent[i] \in StillPending(s, stored) \cup yes
  <2>1. CASE i \in 1..Len(b)
    <3>1. i \notin 1..Len(t) BY <1>11, <1>15
    <3>2. PICK j \in 1..Len(o) : i = Len(t) + j BY <1>11, <2>1, <3>1
    <3>3. sent[i] = o[j] BY <1>11, <1>13, <2>1, <3>2
    <3>4. o[j] \in ToSet(o) BY MemberIs
    <3> QED BY <1>6, <3>3, <3>4
  <2>2. CASE i \notin 1..Len(b)
    <3>1. PICK j \in 1..Len(y) : i = Len(b) + j BY <1>13, <2>2
    <3>2. sent[i] = y[j] BY <1>13, <3>1
    <3>3. y[j] \in ToSet(y) BY MemberIs
    <3> QED BY <1>5, <3>2, <3>3
  <2> QED BY <2>1, <2>2
<1>16. Len(t) \in 0..Len(sent)
  <2>1. Len(o) \in Nat OBVIOUS
  <2> QED BY <1>11, <1>13, <2>1
<1>17. Carries(sent, Len(t), s, stored, auto, from)
  <2>1. /\ from \in [1..Len(t) -> 1..Len(s)]
        /\ \A i, j \in 1..Len(t) : i < j => from[i] < from[j]
        /\ \A p \in 1..Len(s) : p \in Kept(s, stored) => \E i \in 1..Len(t) : from[i] = p
    BY <1>9 DEF Rebinds
  <2>2. \A i \in 1..Len(t) : s[from[i]].kind # "decision" => sent[i] = s[from[i]] BY <1>9, <1>14 DEF Rebinds
  <2>3. \A i \in 1..Len(t) : s[from[i]].kind = "decision" =>
          \E r \in BoundTo(s, stored, from[i]) : sent[i] = Decision(r.call, s[from[i]].yes)
    BY <1>9, <1>14, ZenonT(60) DEF Rebinds
  <2> QED BY <1>1, <1>15, <1>16, <2>1, <2>2, <2>3 DEF Carries
<1> QED BY <1>13, <1>17

LEMMA SentTracks ==
  ASSUME NEW K, NEW s, NEW stored, NEW auto, Scene(K, s, stored, auto),
         NEW sent, sent = BoundDecisions(s, stored) \o Listed({Decision(r.call, TRUE) : r \in auto})
  PROVE  sent \in Seq(ItemsOf(K)) /\ \E n, from : Tracks(sent, n, s, stored, auto, from)
<1>1. sent \in Seq(ItemsOf(K)) /\ \E n, from : Carries(sent, n, s, stored, auto, from) BY SentCarries
<1> QED BY <1>1, CarriesTracks, ZenonT(60)

-----------------------------------------------------------------------------
(* Updates that pass: what has passed after one more is what had passed     *)
(* before and that update.                                                  *)
Flat(us, g, k) == g = [i \in 1..k |-> IF i = 1 THEN us[i] ELSE g[i - 1] \o us[i]]
LEMMA FlatExists ==
  ASSUME NEW us, NEW k \in Nat
  PROVE  \E g : Flat(us, g, k)
<1> DEFINE Bad == {n \in Nat : ~\E g : Flat(us, g, n)}
<1> SUFFICES ASSUME Bad # {} PROVE FALSE OBVIOUS
<1>1. PICK n \in Bad : \A m \in Bad : n <= m BY LeastNat
<1>2. CASE n = 0
  <2> DEFINE g == [i \in 1..0 |-> <<>>]
  <2>1. Flat(us, g, 0) BY DEF Flat
  <2> QED BY <1>1, <1>2, <2>1
<1>3. CASE n > 0
  <2>1. n - 1 \in Nat /\ n - 1 \notin Bad BY <1>1, <1>3
  <2>2. PICK g : Flat(us, g, n - 1) BY <2>1
  <2>3. PICK h : h = [i \in 1..n |-> IF i = n THEN IF i = 1 THEN us[i] ELSE g[n - 1] \o us[i] ELSE g[i]] OBVIOUS
  <2>4. \A i \in 1..(n - 1) : h[i] = g[i] BY <2>3
  <2>5. ASSUME NEW i \in 1..n PROVE h[i] = IF i = 1 THEN us[i] ELSE h[i - 1] \o us[i]
    <3>1. CASE i = n
      <4>1. i # 1 => h[i - 1] = g[n - 1] BY <1>3, <2>4, <3>1
      <4> QED BY <2>3, <3>1, <4>1
    <3>2. CASE i # n
      <4>1. i \in 1..(n - 1) /\ (i # 1 => i - 1 \in 1..(n - 1)) BY <2>1, <3>2
      <4>2. g[i] = IF i = 1 THEN us[i] ELSE g[i - 1] \o us[i] BY <2>2, <4>1 DEF Flat
      <4> QED BY <2>4, <4>1, <4>2
    <3> QED BY <3>1, <3>2
  <2>6. h = [i \in 1..n |-> h[i]] BY <2>3
  <2>7. Flat(us, h, n) BY <2>5, <2>6 DEF Flat
  <2> QED BY <1>1, <2>7
<1> QED BY <1>1, <1>2, <1>3

LEMMA FlattenSeqIs ==
  ASSUME NEW us, Len(us) \in Nat, Len(us) # 0
  PROVE  \E g : Flat(us, g, Len(us)) /\ FlattenSeq(us) = g[Len(us)]
<1> DEFINE flatten == CHOOSE g : Flat(us, g, Len(us))
<1>1. Flat(us, flatten, Len(us)) BY FlatExists
<1>2. FlattenSeq(us) = flatten[Len(us)] BY DEF FlattenSeq, Flat
<1> QED BY <1>1, <1>2

FirstOf(us, k) == FlattenSeq(SubSeq(us, 1, k))
Updates(T, us) == us \in Seq(Seq(T))
Step(T, us, k) ==
  /\ FirstOf(us, 0) = <<>> /\ FirstOf(us, k) \in Seq(T) /\ FirstOf(us, k - 1) \in Seq(T)
  /\ us[k] \in Seq(T) /\ FirstOf(us, k) = FirstOf(us, k - 1) \o us[k]
LEMMA FirstOfIs ==
  ASSUME NEW T, NEW us, Updates(T, us), NEW k \in 1..Len(us)
  PROVE  Step(T, us, k)
<1>a. us \in Seq(Seq(T)) BY DEF Updates
<1>0. Len(us) \in Nat /\ \A i \in 1..Len(us) : us[i] \in Seq(T) BY <1>a
<1>1. ASSUME NEW n \in 0..Len(us)
      PROVE  /\ Len(SubSeq(us, 1, n)) = n /\ \A i \in 1..n : SubSeq(us, 1, n)[i] = us[i]
             /\ n # 0 => \E g : Flat(us, g, n) /\ FirstOf(us, n) = g[n]
  <2>0. n \in Nat /\ \A i \in 1..n : us[i] \in Seq(T) BY <1>0
  <2>1. PICK w : w = SubSeq(us, 1, n) OBVIOUS
  <2>2. w \in Seq(Seq(T)) /\ Len(w) = n /\ \A i \in 1..n : w[i] = us[i]
    <3>1. 1 \in Int /\ n \in Int BY <2>0
    <3>2. /\ w \in Seq(Seq(T)) /\ Len(w) = IF 1 <= n THEN n - 1 + 1 ELSE 0
          /\ \A i \in 1..n - 1 + 1 : w[i] = us[1 + i - 1]
      BY <2>0, <2>1, <3>1, SubSeqProperties
    <3>3. n - 1 + 1 = n /\ \A i \in 1..n : 1 + i - 1 = i BY <2>0
    <3>4. Len(w) = n BY <2>0, <3>2
    <3> QED BY <3>2, <3>3, <3>4
  <2>3. ASSUME n # 0 PROVE \E g : Flat(us, g, n) /\ FirstOf(us, n) = g[n]
    <3>1. PICK g : Flat(w, g, n) /\ FlattenSeq(w) = g[n] BY <2>0, <2>2, <2>3, FlattenSeqIs
    <3>2. g = [i \in 1..n |-> IF i = 1 THEN w[i] ELSE g[i - 1] \o w[i]] BY <3>1 DEF Flat
    <3>3. Flat(us, g, n) BY <2>2, <3>2 DEF Flat
    <3> QED BY <2>1, <3>1, <3>3 DEF FirstOf
  <2> QED BY <2>1, <2>2, <2>3
<1>2. FirstOf(us, 0) = <<>>
  <2>1. Len(SubSeq(us, 1, 0)) = 0 BY <1>0, <1>1
  <2>2. SubSeq(us, 1, 0) = <<>> BY SubSeqEmpty
  <2> QED BY <2>1, <2>2 DEF FirstOf, FlattenSeq
<1>3. k \in 0..Len(us) /\ k - 1 \in 0..Len(us) /\ k # 0 /\ k \in Nat BY <1>0
<1>4. PICK g : Flat(us, g, k) /\ FirstOf(us, k) = g[k] BY <1>1, <1>3
<1>5. \A i \in 1..k : g[i] = IF i = 1 THEN us[i] ELSE g[i - 1] \o us[i] BY <1>4 DEF Flat
<1>6. \A i \in 1..k : g[i] \in Seq(T)
  <2> DEFINE Bad == {i \in 1..k : g[i] \notin Seq(T)}
  <2> SUFFICES ASSUME Bad # {} PROVE FALSE OBVIOUS
  <2>0. Bad # {} /\ Bad \subseteq Nat OBVIOUS
  <2>1. PICK i \in Bad : \A m \in Bad : i <= m BY ONLY <2>0, LeastNat
  <2>2. i # 1 BY <1>0, <1>5, <2>1
  <2>3. i - 1 \in 1..k /\ ~(i <= i - 1) BY <1>3, <2>1, <2>2
  <2>4. g[i - 1] \in Seq(T) BY <2>1, <2>3
  <2>5. us[i] \in Seq(T) BY <1>0, <1>3, <2>1
  <2>6. g[i] = g[i - 1] \o us[i] BY <1>5, <2>1, <2>2
  <2>7. g[i - 1] \o us[i] \in Seq(T) BY <2>4, <2>5, ConcatProperties
  <2> QED BY <2>1, <2>6, <2>7
<1>7. CASE k = 1
  <2>1. FirstOf(us, k) = us[1] /\ us[1] \in Seq(T) BY <1>0, <1>4, <1>5, <1>7
  <2>2. FirstOf(us, k - 1) = <<>> BY <1>2, <1>7
  <2>3. us[1] = <<>> \o us[1] /\ <<>> \in Seq(T) BY <2>1
  <2>4. FirstOf(us, k) = FirstOf(us, k - 1) \o us[k] BY <1>7, <2>1, <2>2, <2>3
  <2> QED BY <1>2, <1>7, <2>1, <2>2, <2>3, <2>4 DEF Step
<1>8. CASE k # 1
  <2>1. k - 1 # 0 /\ k - 1 \in 1..k /\ k - 1 \in Nat BY <1>3, <1>8
  <2>2. PICK h : Flat(us, h, k - 1) /\ FirstOf(us, k - 1) = h[k - 1] BY <1>1, <1>3, <2>1
  <2>3. \A i \in 1..(k - 1) : h[i] = IF i = 1 THEN us[i] ELSE h[i - 1] \o us[i] BY <2>2 DEF Flat
  <2>4. \A i \in 1..(k - 1) : h[i] = g[i]
    <3> DEFINE Bad == {i \in 1..(k - 1) : h[i] # g[i]}
    <3> SUFFICES ASSUME Bad # {} PROVE FALSE OBVIOUS
    <3>0. Bad # {} /\ Bad \subseteq Nat OBVIOUS
    <3>1. PICK i \in Bad : \A m \in Bad : i <= m BY ONLY <3>0, LeastNat
    <3>2. i \in 1..(k - 1) /\ i \in 1..k /\ i \in Nat BY <2>1, <3>1
    <3>3. i # 1 BY <1>5, <2>3, <3>1, <3>2
    <3>4. i - 1 \in 1..(k - 1) /\ ~(i <= i - 1) BY <2>1, <3>2, <3>3
    <3>5. h[i - 1] = g[i - 1] BY <3>1, <3>4
    <3> QED BY <1>5, <2>3, <3>1, <3>2, <3>3, <3>5
  <2>5. k - 1 \in 1..(k - 1) BY <2>1
  <2>6. h[k - 1] = g[k - 1] BY <2>4, <2>5
  <2>7. g[k] = g[k - 1] \o us[k]
    <3>1. k \in 1..k BY <1>3
    <3> QED BY <3>1, <1>5, <1>8
  <2>8. k \in 1..k /\ us[k] \in Seq(T) BY <1>0, <1>3
  <2>9. FirstOf(us, k) \in Seq(T) BY <1>4, <1>6, <2>8
  <2>10. FirstOf(us, k - 1) \in Seq(T) BY <1>6, <2>1, <2>2, <2>6
  <2>11. FirstOf(us, k) = FirstOf(us, k - 1) \o us[k] BY <1>4, <2>2, <2>6, <2>7
  <2> QED BY <1>2, <2>8, <2>9, <2>10, <2>11 DEF Step
<1> QED BY <1>7, <1>8

(* A sequence another one starts with.                                      *)
StartsWith(t, u) ==
  /\ Len(u) \in Nat /\ Len(t) \in Nat /\ Len(u) <= Len(t) /\ \A i \in 1..Len(u) : u[i] = t[i]

LEMMA FirstOfStarts ==
  ASSUME NEW T, NEW us, Updates(T, us), NEW k \in 0..Len(us)
  PROVE  FirstOf(us, k) \in Seq(T) /\ StartsWith(FirstOf(us, Len(us)), FirstOf(us, k))
<1>0. Len(us) \in Nat BY DEF Updates
<1>1. \A n \in 0..Len(us) : FirstOf(us, n) \in Seq(T)
  <2> TAKE n \in 0..Len(us)
  <2>1. CASE n = 0
    <3>1. SubSeq(us, 1, 0) = <<>> BY SubSeqEmpty
    <3>2. FirstOf(us, 0) = <<>> BY <3>1 DEF FirstOf, FlattenSeq
    <3>3. <<>> \in Seq(T) OBVIOUS
    <3>4. FirstOf(us, n) = <<>> BY <2>1, <3>2, Zenon
    <3> QED BY <3>3, <3>4, Zenon
  <2>2. CASE n # 0
    <3>1. n \in 1..Len(us) BY <1>0, <2>2
    <3>2. Step(T, us, n) BY <3>1, FirstOfIs
    <3> QED BY <3>2 DEF Step
  <2> QED BY <2>1, <2>2
<1> DEFINE Bad == {d \in 0..Len(us) : ~StartsWith(FirstOf(us, Len(us)), FirstOf(us, Len(us) - d))}
<1>2. Bad = {}
  <2> SUFFICES ASSUME Bad # {} PROVE FALSE OBVIOUS
  <2>0. Bad # {} /\ Bad \subseteq Nat OBVIOUS
  <2>1. PICK d \in Bad : \A m \in Bad : d <= m BY ONLY <2>0, LeastNat
  <2>2. d # 0
    <3>1. Len(us) \in 0..Len(us) BY <1>0
    <3>2. FirstOf(us, Len(us)) \in Seq(T) BY <1>1, <3>1
    <3>3. StartsWith(FirstOf(us, Len(us)), FirstOf(us, Len(us))) BY <3>2 DEF StartsWith
    <3>4. Len(us) - 0 = Len(us) BY <1>0
    <3> QED BY <2>1, <3>3, <3>4
  <2>3. /\ d - 1 \in 0..Len(us) /\ ~(d <= d - 1) /\ Len(us) - (d - 1) \in 1..Len(us)
        /\ Len(us) - (d - 1) - 1 = Len(us) - d
    BY <1>0, <2>1, <2>2
  <2>4. StartsWith(FirstOf(us, Len(us)), FirstOf(us, Len(us) - (d - 1))) BY <2>1, <2>3
  <2>5. PICK n \in 1..Len(us) : n = Len(us) - (d - 1) BY <2>3
  <2>6. /\ FirstOf(us, n) = FirstOf(us, n - 1) \o us[n] /\ FirstOf(us, n - 1) \in Seq(T) /\ us[n] \in Seq(T)
    BY FirstOfIs DEF Step
  <2>7. PICK l : l = FirstOf(us, n - 1) OBVIOUS
  <2>8. PICK m : m = FirstOf(us, n) OBVIOUS
  <2>10. m = l \o us[n] /\ l \in Seq(T) /\ us[n] \in Seq(T) BY <2>6, <2>7, <2>8
  <2>11. /\ Len(m) = Len(l) + Len(us[n]) /\ Len(l) \in Nat /\ Len(us[n]) \in Nat
         /\ \A i \in 1..Len(l) : i \in 1..Len(m) /\ m[i] = l[i]
    BY <2>10, JoinedIs
  <2>12. StartsWith(FirstOf(us, Len(us)), m) BY <2>4, <2>5, <2>8
  <2>13. StartsWith(FirstOf(us, Len(us)), l) BY <2>11, <2>12, SMTT(30) DEF StartsWith
  <2>9. StartsWith(FirstOf(us, Len(us)), FirstOf(us, n - 1)) BY <2>7, <2>13
  <2> QED BY <2>1, <2>3, <2>5, <2>9
<1>3. Len(us) - k \in 0..Len(us) /\ Len(us) - (Len(us) - k) = k BY <1>0
<1>4. StartsWith(FirstOf(us, Len(us)), FirstOf(us, Len(us) - (Len(us) - k))) BY <1>2, <1>3
<1> QED BY <1>1, <1>3, <1>4

LEMMA FirstIsIn ==
  ASSUME NEW T, NEW us, Updates(T, us), NEW k \in 1..Len(us)
  PROVE  ToSet(us[1]) \subseteq ToSet(FirstOf(us, k))
<1> DEFINE Bad == {n \in 1..Len(us) : ~(ToSet(us[1]) \subseteq ToSet(FirstOf(us, n)))}
<1>1. Len(us) \in Nat BY DEF Updates
<1> SUFFICES ASSUME Bad # {} PROVE FALSE OBVIOUS
<1>2. PICK n \in Bad : \A m \in Bad : n <= m
  <2>1. Bad \subseteq Nat BY <1>1
  <2> HIDE DEF Bad
  <2> QED BY <2>1, LeastNat
<1>3. n \in 1..Len(us) /\ ~(ToSet(us[1]) \subseteq ToSet(FirstOf(us, n))) OBVIOUS
<1>4. Step(T, us, n) BY <1>3, FirstOfIs
<1>5. /\ FirstOf(us, n - 1) \in Seq(T) /\ us[n] \in Seq(T) /\ FirstOf(us, n) = FirstOf(us, n - 1) \o us[n]
      /\ FirstOf(us, 0) = <<>>
  BY <1>4 DEF Step
<1>6. ToSet(FirstOf(us, n)) = ToSet(FirstOf(us, n - 1)) \cup ToSet(us[n])
  <2>1. PICK x, y \in Seq(T) : x = FirstOf(us, n - 1) /\ y = us[n] BY <1>5
  <2>2. ToSet(x \o y) = ToSet(x) \cup ToSet(y) BY JoinedIs
  <2> QED BY <1>5, <2>1, <2>2
<1>7. CASE n = 1 BY <1>3, <1>6, <1>7
<1>8. CASE n # 1
  <2>1. n - 1 \in 1..Len(us) /\ n - 1 < n BY <1>1, <1>3, <1>8
  <2>2. n - 1 \notin Bad BY <1>2, <1>3, <2>1
  <2>3. ToSet(us[1]) \subseteq ToSet(FirstOf(us, n - 1)) BY <2>1, <2>2
  <2> QED BY <1>3, <1>6, <2>3
<1> QED BY <1>7, <1>8

(* What some updates come to.                                               *)
OneMore(T, us, x) ==
  /\ Updates(T, us \o <<x>>) /\ us \o <<>> = us
  /\ FirstOf(us \o <<x>>, Len(us \o <<x>>)) = FirstOf(us, Len(us)) \o x
UpToTwo(T, x, y) ==
  /\ Updates(T, <<>>) /\ FirstOf(<<>>, Len(<<>>)) = <<>>
  /\ Updates(T, <<x>>) /\ FirstOf(<<x>>, Len(<<x>>)) = x
  /\ Updates(T, <<x, y>>) /\ FirstOf(<<x, y>>, Len(<<x, y>>)) = x \o y
LEMMA FlattenJoined ==
  ASSUME NEW T, NEW us, Updates(T, us), NEW x \in Seq(T), NEW y \in Seq(T)
  PROVE  UpToTwo(T, x, y) /\ OneMore(T, us, x)
<1>0. us \in Seq(Seq(T)) BY DEF Updates
<1>1. <<x>> \in Seq(Seq(T)) /\ Len(<<x>>) = 1 /\ <<x>>[1] = x OBVIOUS
<1>2. FirstOf(<<x>>, 1) = x
  <2>1. 1 \in 1..Len(<<x>>) /\ 1 - 1 = 0 BY <1>1
  <2>3. Updates(T, <<x>>) BY <1>1 DEF Updates
  <2>4. Step(T, <<x>>, 1) BY <2>1, <2>3, FirstOfIs
  <2>2. FirstOf(<<x>>, 1) = <<>> \o <<x>>[1] BY <2>1, <2>4 DEF Step
  <2> QED BY <1>1, <2>2
<1>3. FirstOf(<<x, y>>, 2) = x \o y
  <2>1. <<x, y>> \in Seq(Seq(T)) /\ Len(<<x, y>>) = 2 /\ <<x, y>>[1] = x /\ <<x, y>>[2] = y OBVIOUS
  <2>2. 1 \in 1..Len(<<x, y>>) /\ 2 \in 1..Len(<<x, y>>) /\ 2 - 1 = 1 /\ 1 - 1 = 0 BY <2>1
  <2>0. Updates(T, <<x, y>>) BY <2>1 DEF Updates
  <2>5. Step(T, <<x, y>>, 1) /\ Step(T, <<x, y>>, 2) BY <2>0, <2>2, FirstOfIs
  <2>3. FirstOf(<<x, y>>, 1) = <<>> \o x BY <2>1, <2>2, <2>5 DEF Step
  <2>4. FirstOf(<<x, y>>, 2) = FirstOf(<<x, y>>, 1) \o y BY <2>1, <2>2, <2>5 DEF Step
  <2>6. <<>> \o x = x BY ConcatEmptySeq
  <2> QED BY <2>3, <2>4, <2>6
<1>4. FirstOf(<<>>, 0) = <<>>
  <2>1. SubSeq(<<>>, 1, 0) = <<>> BY SubSeqEmpty
  <2> QED BY <2>1 DEF FirstOf, FlattenSeq
<1>5. PICK v : v = us \o <<x>> OBVIOUS
<1>6. Len(us) \in Nat BY <1>0
<1>7. v \in Seq(Seq(T)) /\ Len(v) = Len(us) + 1 /\ v[Len(us) + 1] = x /\ \A i \in 1..Len(us) : v[i] = us[i]
  BY <1>0, <1>1, <1>5, <1>6
<1>8. Len(us) + 1 \in 1..Len(v) /\ Len(us) + 1 - 1 = Len(us) BY <1>6, <1>7
<1>9. FirstOf(v, Len(v)) = FirstOf(v, Len(us)) \o x
  <2>1. Updates(T, v) BY <1>7 DEF Updates
  <2>2. Step(T, v, Len(us) + 1) BY <2>1, <1>8, FirstOfIs
  <2> QED BY <2>2, <1>7, <1>8 DEF Step
<1>10. SubSeq(v, 1, Len(us)) = us /\ SubSeq(us, 1, Len(us)) = us BY <1>0, <1>6, <1>7
<1>11. FirstOf(v, Len(us)) = FirstOf(us, Len(us)) BY <1>10 DEF FirstOf
<1>12. us \o <<>> = us BY <1>0, ConcatEmptySeq
<1>13. <<x, y>> \in Seq(Seq(T)) /\ <<>> \in Seq(Seq(T)) OBVIOUS
<1>14. Updates(T, <<>>) /\ Updates(T, <<x>>) /\ Updates(T, <<x, y>>) /\ Updates(T, v) BY <1>1, <1>7, <1>13 DEF Updates
<1>15. Len(<<>>) = 0 /\ Len(<<x>>) = 1 /\ Len(<<x, y>>) = 2 OBVIOUS
<1>16. UpToTwo(T, x, y) BY <1>2, <1>3, <1>4, <1>14, <1>15 DEF UpToTwo
<1>17. OneMore(T, us, x) BY <1>5, <1>9, <1>11, <1>12, <1>14 DEF OneMore
<1> QED BY <1>16, <1>17

-----------------------------------------------------------------------------
(* The invariant.                                                           *)
Known == {made[n] : n \in DOMAIN made}
DecisionsOf(K) == {Decision(c, y) : c \in K, y \in BOOLEAN}
ResultsOf(K) == {ResultOf(c) : c \in K}
ExchangesOf(K) == {Raw(c) : c \in K} \cup ResultsOf(K)

MadeInv == made \in Seq(Call) /\ \A n \in 1..Len(made) : made[n].no = n
TypeInv ==
  /\ pc \in {"idle", "replay", "ask", "round"}
  /\ history \in Seq(ItemsOf(Known)) /\ input \in Seq(DecisionsOf(Known))
  /\ messages \in Seq(ExchangesOf(Known)) /\ handled \in Seq(ExchangesOf(Known))
  /\ results \in Seq(ResultsOf(Known))
  /\ calls \subseteq Known /\ refused \subseteq Known /\ todo \subseteq Known
  /\ pending \subseteq Requests(Known) /\ autoApproved \subseteq Requests(Known)
  /\ deferred \subseteq Requests(Known) /\ asking \subseteq Requests(Known) /\ hand \subseteq Requests(Known)

(* The service that keeps the conversation keeps all of it.                 *)
KeeperInv ==
  /\ managed => keeps
  /\ keeps => history = <<>>
  /\ keeps /\ ~managed => made = <<>>

StageInv ==
  /\ pc = "idle" => messages = <<>> /\ input = <<>>
  /\ pc \in {"idle", "ask"} =>
       calls = {} /\ refused = {} /\ todo = {} /\ results = <<>> /\ deferred = {} /\ asking = {}
  /\ pc = "round" => refused = {} /\ asking = {}
  /\ pc \in {"idle", "replay"} => handled = <<>>
  /\ pc # "idle" => autoApproved = {}

(* Of the calls that are executed each is still to be, or has its result,   *)
(* or a request of a middleware.  None of them, and none that waits for a   *)
(* human, has been answered before.                                         *)
BatchInv ==
  /\ todo \subseteq calls /\ calls \cap refused = {} /\ Once(results)
  /\ \A r \in deferred : r.call \in calls \ todo
  /\ \A c : Told(results, c) => c \in calls \ todo /\ \A r \in deferred : r.call # c
  /\ \A c \in calls : c \in todo \/ (\E r \in deferred : r.call = c) \/ Told(results, c)
  /\ \A c \in calls \cup refused : ~Told(history, c) /\ ~Told(handled, c) /\ ~Told(messages, c)
  /\ \A r \in pending \cup asking :
       r.call \notin calls \cup refused /\ ~Told(history, r.call) /\ ~Told(handled, r.call)
  /\ \A r \in pending \cup asking \cup deferred : ~HeldBack(r)

(* What no request in the transcript or the store is for.                   *)
NotRequested(c) ==
  /\ \A q \in 1..Len(history) : history[q].kind = "request" => history[q].call # c
  /\ \A r \in pending : r.call # c
HistoryInv ==
  /\ Once(history) /\ Founded(history) /\ NotReasked(history)
  /\ Once(handled) /\ Founded(handled)
  /\ \A c : Told(handled, c) => ~Told(history, c)
  /\ \A p \in 1..Len(handled) : Told(handled, handled[p].call) \/ handled[p].call \in calls
  /\ pc = "round" => \A c \in calls : Raw(c) \in ToSet(handled)
  /\ \A r \in autoApproved : HeldBack(r) /\ ~Told(history, r.call) /\ NotRequested(r.call)
MessagesInv == Once(messages) /\ (~managed => Founded(messages))
ApprovalInv ==
  MadeInv /\ TypeInv /\ KeeperInv /\ StageInv /\ BatchInv /\ HistoryInv /\ MessagesInv /\ EndsOnAnAnswer

(* What a turn may end with.                                                *)
Ending(items) ==
  /\ Once(items) /\ Founded(items)
  /\ \A c : Told(items, c) => ~Told(history, c)
  /\ \A p \in 1..Len(items) : items[p].kind = "request" =>
       ~Told(history, items[p].call) /\ ~Told(items, items[p].call)
  /\ \A r \in pending : ~Told(items, r.call)
  /\ \A p \in 1..Len(items) : HeldBack(items[p]) =>
       /\ NotRequested(items[p].call)
       /\ \A q \in 1..Len(items) : items[q].kind = "request" /\ ~HeldBack(items[q]) => items[q].call # items[p].call
LeftToCaller(c) == c.tool \in Declared \/ (c.tool \in Unknown /\ StopAtUnknown)
(* ... if it comes to its end.                                              *)
Leads(items) ==
  \A p \in 1..Len(items) : items[p].kind = "call" =>
    \/ Told(items, items[p].call)
    \/ \E q \in 1..Len(items) : items[q].kind = "request" /\ ~HeldBack(items[q]) /\ items[q].call = items[p].call
    \/ \E q \in 1..Len(items) : items[q].kind = "call" /\ LeftToCaller(items[q].call)

-----------------------------------------------------------------------------
LEMMA KindsIn ==
  ASSUME NEW K
  PROVE  /\ DecisionsOf(K) \subseteq ItemsOf(K) /\ ResultsOf(K) \subseteq ItemsOf(K) /\ ExchangesOf(K) \subseteq ItemsOf(K)
         /\ ResultsOf(K) \subseteq ExchangesOf(K) /\ Requests(K) \subseteq ItemsOf(K)
         /\ \A i \in DecisionsOf(K) : i.kind = "decision" /\ i.call \in K
         /\ \A i \in ResultsOf(K) : i.kind = "result" /\ i.call \in K /\ i = ResultOf(i.call)
         /\ \A i \in ExchangesOf(K) : i.kind \in {"call", "result"} /\ i.call \in K
         /\ \A i \in ItemsOf(K) : i.kind \in {"call", "result"} => i \in ExchangesOf(K)
         /\ \A i \in ItemsOf(K) : i.kind = "request" => i \in Requests(K)
         /\ \A i \in Requests(K) : i.kind = "request" /\ i.call \in K
         /\ \A c \in K : Raw(c) \in ExchangesOf(K) /\ ResultOf(c) \in ResultsOf(K)
         /\ \A i : HeldBack(i) => i.kind = "request"
<1>1. DecisionsOf(K) \subseteq ItemsOf(K) /\ ResultsOf(K) \subseteq ItemsOf(K) /\ ExchangesOf(K) \subseteq ItemsOf(K)
  BY DEF DecisionsOf, ResultsOf, ExchangesOf, ItemsOf
<1>2. ResultsOf(K) \subseteq ExchangesOf(K) /\ Requests(K) \subseteq ItemsOf(K)
  BY DEF ResultsOf, ExchangesOf, ItemsOf, Requests
<1>3. /\ \A i \in DecisionsOf(K) : i.kind = "decision" /\ i.call \in K
      /\ \A i \in ResultsOf(K) : i.kind = "result" /\ i.call \in K /\ i = ResultOf(i.call)
  BY Fields DEF DecisionsOf, ResultsOf
<1>4. \A i \in ExchangesOf(K) : i.kind \in {"call", "result"} /\ i.call \in K
  BY <1>3, Fields DEF ExchangesOf
<1>5. \A i \in ItemsOf(K) : i.kind \in {"call", "result"} => i \in ExchangesOf(K)
  BY ItemIs DEF ExchangesOf, ResultsOf
<1>6. \A i \in ItemsOf(K) : i.kind = "request" => i \in Requests(K) BY ItemIs DEF Requests
<1>7. \A i \in Requests(K) : i.kind = "request" /\ i.call \in K BY Fields DEF Requests
<1>8. \A c \in K : Raw(c) \in ExchangesOf(K) /\ ResultOf(c) \in ResultsOf(K) BY DEF ExchangesOf, ResultsOf
<1>9. \A i : HeldBack(i) => i.kind = "request" BY DEF HeldBack
<1> QED BY <1>1, <1>2, <1>3, <1>4, <1>5, <1>6, <1>7, <1>8, <1>9

LEMMA ShownIs ==
  ASSUME NEW K, NEW u \in Seq(ItemsOf(K))
  PROVE  /\ Shown(u) \in Seq(ItemsOf(K)) /\ ToSet(Shown(u)) = {i \in ToSet(u) : ~HeldBack(i)}
         /\ \A c : Told(Shown(u), c) <=> Told(u, c)
         /\ Once(u) => Once(Shown(u))
         /\ Founded(u) => Founded(Shown(u))
<1>0. DOMAIN u = 1..Len(u) /\ Len(u) \in Nat OBVIOUS
<1>1. PICK P : P = {n \in DOMAIN u : ~HeldBack(u[n])} OBVIOUS
<1>2. PICK v \in Seq(ItemsOf(K)) : v = Shown(u) /\ \E from : Picks(v, u, P, from) BY <1>1, AtPicks DEF Shown
<1>3. PICK from : Picks(v, u, P, from) BY <1>2
<1>4. \A p \in 1..Len(u) : u[p].kind # "request" => p \in P BY <1>0, <1>1, KindsIn
<1>5. Once(u) => Once(v) BY <1>3, PicksOnce
<1>6. \A c : Told(v, c) <=> Told(u, c)
  <2>1. \A p \in 1..Len(u) : u[p].kind = "result" => p \in P BY <1>4
  <2> QED BY <1>3, <2>1, PicksOnce
<1>7. Founded(u) => Founded(v)
  <2>1. \A p, q \in 1..Len(u) : u[q].kind = "result" /\ p < q /\ u[p] = Raw(u[q].call) => p \in P BY <1>4, Fields
  <2> QED BY <1>3, <2>1, PicksFounded
<1>8. ToSet(v) = {i \in ToSet(u) : ~HeldBack(i)}
  <2>1. ASSUME NEW x \in ToSet(v) PROVE x \in ToSet(u) /\ ~HeldBack(x)
    <3>1. PICK i \in 1..Len(v) : v[i] = x BY <2>1, MemberIs
    <3>2. from[i] \in 1..Len(u) /\ from[i] \in P /\ v[i] = u[from[i]] BY <1>3, PicksKeep
    <3> QED BY <1>1, <3>1, <3>2, MemberIs
  <2>2. ASSUME NEW x \in ToSet(u), ~HeldBack(x) PROVE x \in ToSet(v)
    <3>1. PICK p \in 1..Len(u) : u[p] = x BY <2>2, MemberIs
    <3>2. p \in P BY <1>0, <1>1, <2>2, <3>1
    <3>3. PICK i \in 1..Len(v) : from[i] = p BY <1>3, <3>2 DEF Picks
    <3>4. v[i] = x BY <1>3, <3>1, <3>3, PicksKeep
    <3> QED BY <3>4, MemberIs
  <2> QED BY <2>1, <2>2
<1> QED BY <1>2, <1>5, <1>6, <1>7, <1>8

(* What has passed before the turn was cut short may end it as well.        *)
LEMMA EndingStarts ==
  ASSUME NEW t, NEW u, StartsWith(t, u), Ending(t)
  PROVE  Ending(u)
<1>1. Len(u) \in Nat /\ Len(t) \in Nat /\ \A i \in 1..Len(u) : i \in 1..Len(t) /\ u[i] = t[i] BY DEF StartsWith
<1>2. \A c : Told(u, c) => Told(t, c) BY <1>1 DEF Told
<1>3. Once(u) BY <1>1 DEF Ending, Once
<1>4. Founded(u)
  <2> SUFFICES ASSUME NEW q \in 1..Len(u), u[q].kind = "result" PROVE \E p \in 1..(q - 1) : u[p] = Raw(u[q].call)
    BY DEF Founded
  <2>1. PICK p \in 1..(q - 1) : t[p] = Raw(t[q].call) BY <1>1 DEF Ending, Founded
  <2>2. p \in 1..Len(u) BY <1>1
  <2> QED BY <1>1, <2>1, <2>2
<1>5. \A p \in 1..Len(u) : u[p].kind = "request" => ~Told(history, u[p].call) /\ ~Told(u, u[p].call)
  BY <1>1, <1>2 DEF Ending
<1>6. \A p \in 1..Len(u) : HeldBack(u[p]) =>
       /\ NotRequested(u[p].call)
       /\ \A q \in 1..Len(u) : u[q].kind = "request" /\ ~HeldBack(u[q]) => u[q].call # u[p].call
  BY <1>1 DEF Ending
<1> QED BY <1>2, <1>3, <1>4, <1>5, <1>6 DEF Ending

-----------------------------------------------------------------------------
(* The end of a turn keeps the invariant.                                   *)
Ends(how, items) ==
  /\ items \in Seq(ItemsOf(Known')) /\ Ending(items) /\ End(how, items) /\ (how = "done" => Leads(items))
Moves ==
  /\ MadeInv' /\ Known \subseteq Known' /\ keeps' = keeps
  /\ managed' => keeps'
  /\ keeps' /\ ~managed' => made' = <<>>

LEMMA EndsWell ==
  ASSUME NEW K, NEW u \in Seq(ItemsOf(K)), Leads(u), reply' = Shown(u)
  PROVE  EndsOnAnAnswer'
<1>1. PICK v \in Seq(ItemsOf(K)) : v = Shown(u) BY ShownIs
<1>2. ToSet(v) = {i \in ToSet(u) : ~HeldBack(i)} BY <1>1, ShownIs
<1>3. reply' = v BY <1>1
<1>4. ASSUME NEW i \in ToSet(v), i.kind = "call"
      PROVE  \/ ResultOf(i.call) \in ToSet(v)
             \/ \E j \in Surfaced(v) : j.call = i.call
             \/ \E j \in ToSet(v) : j.kind = "call" /\ LeftToCaller(j.call)
  <2>1. PICK p \in 1..Len(u) : u[p] = i BY <1>2, <1>4, MemberIs
  <2>2. CASE Told(u, i.call)
    <3>1. ResultOf(i.call) \in ToSet(u) BY <2>2, ToldIs
    <3>2. ~HeldBack(ResultOf(i.call)) BY Fields DEF HeldBack
    <3> QED BY <1>2, <3>1, <3>2
  <2>3. CASE \E q \in 1..Len(u) : u[q].kind = "request" /\ ~HeldBack(u[q]) /\ u[q].call = i.call
    <3>1. PICK q \in 1..Len(u) : u[q].kind = "request" /\ ~HeldBack(u[q]) /\ u[q].call = i.call BY <2>3
    <3>2. u[q] \in ToSet(u) BY MemberIs
    <3>3. u[q] \in Surfaced(v) BY <1>2, <3>1, <3>2 DEF Surfaced
    <3> QED BY <3>1, <3>3
  <2>4. CASE \E q \in 1..Len(u) : u[q].kind = "call" /\ LeftToCaller(u[q].call)
    <3>1. PICK q \in 1..Len(u) : u[q].kind = "call" /\ LeftToCaller(u[q].call)
      BY <2>4
    <3>2. u[q] \in ToSet(u) BY MemberIs
    <3>3. ~HeldBack(u[q])
      <4>1. u[q].kind # "request" BY <3>1
      <4> QED BY <4>1 DEF HeldBack
    <3>4. u[q] \in ToSet(v) BY <1>2, <3>2, <3>3
    <3> QED BY <3>1, <3>4
  <2> QED BY <1>4, <2>1, <2>2, <2>3, <2>4 DEF Leads
<1> QED BY <1>3, <1>4 DEF EndsOnAnAnswer, LeftToCaller

(* What the history is after a turn.                                        *)
LEMMA EndHistory ==
  ASSUME ApprovalInv, Moves, NEW how, NEW items, Ends(how, items)
  PROVE  /\ history' \in Seq(ItemsOf(Known'))
         /\ Once(history') /\ Founded(history') /\ NotReasked(history')
         /\ \A c : Told(history', c) => Told(history, c) \/ Told(items, c)
         /\ \A c : (\E q \in 1..Len(history') : history'[q].kind = "request" /\ history'[q].call = c) =>
              \/ \E q \in 1..Len(history) : history[q].kind = "request" /\ history[q].call = c
              \/ \E q \in 1..Len(items) : items[q].kind = "request" /\ ~HeldBack(items[q]) /\ items[q].call = c
         /\ keeps' => history' = <<>>
<1>1. Known \subseteq Known' /\ items \in Seq(ItemsOf(Known')) /\ Ending(items) BY DEF Moves, Ends
<1>2. history \in Seq(ItemsOf(Known)) /\ input \in Seq(DecisionsOf(Known)) BY DEF ApprovalInv, TypeInv
<1>3. ItemsOf(Known) \subseteq ItemsOf(Known') /\ DecisionsOf(Known) \subseteq ItemsOf(Known)
  BY <1>1, MoreItems, KindsIn
<1>4. history \in Seq(ItemsOf(Known')) /\ input \in Seq(ItemsOf(Known'))
  BY <1>2, <1>3
<1>5. Once(history) /\ Founded(history) /\ NotReasked(history) BY DEF ApprovalInv, HistoryInv
<1>6. PICK g \in Seq(ItemsOf(Known')) : g = Shown(items) BY <1>1, ShownIs
<1>7. /\ ToSet(g) = {i \in ToSet(items) : ~HeldBack(i)} /\ \A c : Told(g, c) <=> Told(items, c)
      /\ Once(g) /\ Founded(g)
  BY <1>1, <1>6, ShownIs DEF Ending
<1>8. PICK l \in Seq(ItemsOf(Known')) : l = history \o input BY <1>4, JoinedIs
<1>9. \A p \in 1..Len(input) : input[p].kind = "decision"
  <2>1. \A p \in 1..Len(input) : input[p] \in DecisionsOf(Known) BY <1>2
  <2> QED BY <2>1, KindsIn
<1>10. /\ Once(input) /\ Rests(input, history) /\ NotReasked(input) /\ \A c : ~Told(input, c)
  BY <1>9, Fields DEF Once, Rests, NotReasked, Told
<1>11. /\ Once(l) /\ Founded(l) /\ NotReasked(l) /\ \A c : Told(l, c) <=> Told(history, c)
  <2>1. /\ \A c : Told(l, c) <=> Told(history, c) \/ Told(input, c)
        /\ Once(history) /\ Once(input) /\ (\A c : ~(Told(history, c) /\ Told(input, c))) => Once(l)
        /\ Founded(history) /\ Rests(input, history) => Founded(l)
        /\ NotReasked(history) /\ NotReasked(input)
             /\ (\A q \in 1..Len(input) : input[q].kind = "request" => ~Told(history, input[q].call)) => NotReasked(l)
    BY <1>4, <1>8, JoinedFits
  <2> QED BY <1>5, <1>9, <1>10, <2>1
<1>12. PICK m \in Seq(ItemsOf(Known')) : m = l \o g BY JoinedIs
<1>13. \A q \in 1..Len(g) : g[q].kind = "request" =>
         /\ ~HeldBack(g[q]) /\ ~Told(history, g[q].call) /\ ~Told(items, g[q].call)
         /\ \E p \in 1..Len(items) : items[p] = g[q]
  <2> TAKE q \in 1..Len(g)
  <2>1. g[q] \in ToSet(g) BY MemberIs
  <2>2. PICK p \in 1..Len(items) : items[p] = g[q] BY <1>1, <1>7, <2>1, MemberIs
  <2> QED BY <1>1, <1>7, <2>1, <2>2 DEF Ending
<1>14. NotReasked(g)
  <2> SUFFICES ASSUME NEW q \in 1..Len(g), g[q].kind = "request"
               PROVE  ~HeldBack(g[q]) /\ \A p \in 1..(q - 1) : g[p] # ResultOf(g[q].call)
    BY DEF NotReasked
  <2>1. ~HeldBack(g[q]) /\ ~Told(g, g[q].call) BY <1>7, <1>13
  <2>2. \A p \in 1..(q - 1) : p \in 1..Len(g) OBVIOUS
  <2> QED BY <2>1, <2>2 DEF Told
<1>15. Rests(g, l) BY <1>7 DEF Founded, Rests
<1>16. /\ Once(m) /\ Founded(m) /\ NotReasked(m) /\ \A c : Told(m, c) <=> Told(history, c) \/ Told(items, c)
  <2>1. /\ \A c : Told(m, c) <=> Told(l, c) \/ Told(g, c)
        /\ Once(l) /\ Once(g) /\ (\A c : ~(Told(l, c) /\ Told(g, c))) => Once(m)
        /\ Founded(l) /\ Rests(g, l) => Founded(m)
        /\ NotReasked(l) /\ NotReasked(g)
             /\ (\A q \in 1..Len(g) : g[q].kind = "request" => ~Told(l, g[q].call)) => NotReasked(m)
    BY <1>12, JoinedFits
  <2>2. \A c : ~(Told(l, c) /\ Told(g, c)) BY <1>1, <1>7, <1>11 DEF Ending
  <2>3. \A q \in 1..Len(g) : g[q].kind = "request" => ~Told(l, g[q].call) BY <1>11, <1>13
  <2> QED BY <1>7, <1>11, <1>14, <1>15, <2>1, <2>2, <2>3
<1>17. ToSet(m) = (ToSet(history) \cup ToSet(input)) \cup ToSet(g)
  <2>1. ToSet(l) = ToSet(history) \cup ToSet(input) BY <1>4, <1>8, JoinedIs
  <2>2. ToSet(m) = ToSet(l) \cup ToSet(g) BY <1>12, JoinedIs
  <2> QED BY <2>1, <2>2
<1>18. ASSUME NEW q \in 1..Len(m), m[q].kind = "request"
       PROVE  \/ \E p \in 1..Len(history) : history[p].kind = "request" /\ history[p].call = m[q].call
              \/ \E p \in 1..Len(items) : items[p].kind = "request" /\ ~HeldBack(items[p]) /\ items[p].call = m[q].call
  <2>1. m[q] \in ToSet(m) BY MemberIs
  <2>2. CASE m[q] \in ToSet(history) BY <1>4, <1>18, <2>2, MemberIs
  <2>3. CASE m[q] \in ToSet(input) BY <1>4, <1>9, <1>18, <2>3, MemberIs
  <2>4. CASE m[q] \in ToSet(g)
    <3>1. PICK p \in 1..Len(g) : g[p] = m[q] BY <2>4, MemberIs
    <3> QED BY <1>13, <1>18, <3>1
  <2> QED BY <1>17, <2>1, <2>2, <2>3, <2>4
<1>19. history' = history \/ history' = m
  BY <1>6, <1>8, <1>12 DEF Ends, End
<1>20. keeps' => history' = <<>>
  <2> SUFFICES ASSUME keeps' PROVE history' = <<>> OBVIOUS
  <2>1. history = <<>> BY DEF Moves, ApprovalInv, KeeperInv
  <2>2. CASE how = "failed" \/ managed' BY <2>1, <2>2 DEF Ends, End
  <2>3. CASE ~(how = "failed" \/ managed')
    <3>1. made' = <<>> BY <2>3 DEF Moves
    <3>2. Known' = {} BY <3>1 DEF Known
    <3>3. ItemsOf(Known') = {} BY <3>2 DEF ItemsOf
    <3>4. m \in Seq({}) BY <1>12, <3>3
    <3>5. m = <<>> BY <3>4
    <3> QED BY <1>19, <2>1, <3>5
  <2> QED BY <2>2, <2>3
<1>21. CASE history' = history BY <1>4, <1>5, <1>20, <1>21
<1>22. CASE history' = m BY <1>16, <1>18, <1>20, <1>22, SMTT(30)
<1> QED BY <1>19, <1>21, <1>22

LEMMA EndKeeps ==
  ASSUME ApprovalInv, Moves, NEW how, NEW items, Ends(how, items)
  PROVE  ApprovalInv'
<1>1. Known \subseteq Known' /\ items \in Seq(ItemsOf(Known')) /\ Ending(items) /\ End(how, items) BY DEF Moves, Ends
<1>0. Requests(Known) \subseteq Requests(Known') BY <1>1 DEF Requests
<1>2. /\ pc' = "idle" /\ input' = <<>> /\ messages' = <<>> /\ calls' = {} /\ refused' = {} /\ todo' = {}
      /\ results' = <<>> /\ deferred' = {} /\ asking' = {} /\ handled' = <<>>
      /\ autoApproved' = {i \in ToSet(items) : HeldBack(i)}
      /\ pending' = pending \cup {i \in Surfaced(items) : i.call.id \notin CallIds(pending)}
      /\ hand' \subseteq Surfaced(items) \cup hand
  BY <1>1 DEF End, Blank
<1>3. \A i \in ToSet(items) : (\E p \in 1..Len(items) : items[p] = i) /\ (i.kind = "request" => i \in Requests(Known'))
  <2> TAKE i \in ToSet(items)
  <2>1. PICK p \in 1..Len(items) : items[p] = i BY <1>1, MemberIs
  <2>2. i \in ItemsOf(Known') BY <1>1, <2>1
  <2> QED BY <2>1, <2>2, KindsIn
<1>4. \A i \in Surfaced(items) : i \in ToSet(items) /\ i.kind = "request" /\ ~HeldBack(i) /\ i \in Requests(Known')
  BY <1>3 DEF Surfaced
<1>5. TypeInv'
  <2>1. history' \in Seq(ItemsOf(Known')) BY EndHistory
  <2>2. pending' \subseteq Requests(Known') /\ hand' \subseteq Requests(Known')
    BY <1>0, <1>2, <1>4 DEF ApprovalInv, TypeInv
  <2>3. autoApproved' \subseteq Requests(Known') BY <1>2, <1>3, KindsIn
  <2>4. /\ input' \in Seq(DecisionsOf(Known')) /\ messages' \in Seq(ExchangesOf(Known'))
        /\ handled' \in Seq(ExchangesOf(Known')) /\ results' \in Seq(ResultsOf(Known'))
    BY <1>2
  <2> QED BY <1>2, <2>1, <2>2, <2>3, <2>4 DEF TypeInv
<1>6. KeeperInv'
  <2>1. keeps' => history' = <<>> BY EndHistory
  <2> QED BY <2>1 DEF KeeperInv, Moves
<1>7. StageInv' BY <1>2 DEF StageInv
<1>8. \A c : ~Told(<<>>, c)
  <2>1. Len(<<>>) = 0 OBVIOUS
  <2> QED BY <2>1 DEF Told
<1>9. ASSUME NEW r \in pending' PROVE ~HeldBack(r) /\ ~Told(history', r.call)
  <2>1. CASE r \in pending
    <3>1. ~HeldBack(r) /\ ~Told(history, r.call) /\ ~Told(items, r.call)
      BY <1>1, <2>1 DEF ApprovalInv, BatchInv, Ending
    <3> QED BY <3>1, EndHistory
  <2>2. CASE r \in Surfaced(items)
    <3>1. PICK p \in 1..Len(items) : items[p] = r BY <1>3, <1>4, <2>2
    <3>2. ~Told(history, r.call) /\ ~Told(items, r.call) BY <1>1, <1>4, <2>2, <3>1 DEF Ending
    <3> QED BY <1>4, <2>2, <3>2, EndHistory
  <2> QED BY <1>2, <1>9, <2>1, <2>2
<1>10. Once(<<>>) /\ Founded(<<>>)
  <2>1. Len(<<>>) = 0 OBVIOUS
  <2> QED BY <2>1 DEF Once, Founded
<1>11. BatchInv' BY <1>2, <1>8, <1>9, <1>10 DEF BatchInv
<1>12. ASSUME NEW r \in autoApproved'
       PROVE  HeldBack(r) /\ ~Told(history', r.call) /\ NotRequested(r.call)'
  <2>1. PICK p \in 1..Len(items) : items[p] = r BY <1>2, <1>3, <1>12
  <2>2. HeldBack(r) /\ r.kind = "request" BY <1>2, <1>12, KindsIn
  <2>3. /\ NotRequested(r.call) /\ ~Told(history, r.call) /\ ~Told(items, r.call)
        /\ \A q \in 1..Len(items) : items[q].kind = "request" /\ ~HeldBack(items[q]) => items[q].call # r.call
    BY <1>1, <2>1, <2>2 DEF Ending
  <2>4. ~Told(history', r.call) BY <2>3, EndHistory
  <2>5. \A q \in 1..Len(history') : history'[q].kind = "request" => history'[q].call # r.call
    <3> SUFFICES ASSUME NEW q \in 1..Len(history'), history'[q].kind = "request", history'[q].call = r.call PROVE FALSE
      OBVIOUS
    <3>1. \/ \E o \in 1..Len(history) : history[o].kind = "request" /\ history[o].call = r.call
          \/ \E o \in 1..Len(items) : items[o].kind = "request" /\ ~HeldBack(items[o]) /\ items[o].call = r.call
      BY EndHistory
    <3> QED BY <2>3, <3>1 DEF NotRequested
  <2>6. \A q \in pending' : q.call # r.call
    <3>1. ASSUME NEW q \in Surfaced(items) PROVE q.call # r.call BY <1>3, <1>4, <2>3
    <3> QED BY <1>2, <2>3, <3>1 DEF NotRequested
  <2> QED BY <2>2, <2>4, <2>5, <2>6 DEF NotRequested
<1>13. HistoryInv'
  <2>1. Once(history') /\ Founded(history') /\ NotReasked(history') BY EndHistory
  <2>2. Len(<<>>) = 0 OBVIOUS
  <2> QED BY <1>2, <1>8, <1>10, <1>12, <2>1, <2>2 DEF HistoryInv
<1>14. MessagesInv' BY <1>2, <1>10 DEF MessagesInv
<1>15. EndsOnAnAnswer'
  <2>1. ended' = how /\ reply' = IF how = "done" THEN Shown(items) ELSE <<>> BY <1>1 DEF End
  <2>2. CASE how = "done" BY <1>1, <2>1, <2>2, EndsWell DEF Ends
  <2>3. CASE how # "done" BY <2>1, <2>3 DEF EndsOnAnAnswer
  <2> QED BY <2>2, <2>3
<1> QED BY <1>5, <1>6, <1>7, <1>11, <1>13, <1>14, <1>15 DEF ApprovalInv, Moves

-----------------------------------------------------------------------------
(* What has passed may end the turn at any time.                            *)
LEMMA HandledEnds ==
  ASSUME ApprovalInv
  PROVE  /\ handled \in Seq(ItemsOf(Known)) /\ Ending(handled)
         /\ \A p \in 1..Len(handled) : handled[p].kind \in {"call", "result"} /\ handled[p].call \in Known
<1>1. handled \in Seq(ExchangesOf(Known)) BY DEF ApprovalInv, TypeInv
<1>2. handled \in Seq(ItemsOf(Known)) BY <1>1, KindsIn
<1>3. \A p \in 1..Len(handled) : handled[p] \in ExchangesOf(Known) BY <1>1
<1>4. \A p \in 1..Len(handled) : handled[p].kind \in {"call", "result"} /\ handled[p].call \in Known
  BY <1>3, KindsIn
<1>5. \A p \in 1..Len(handled) : ~HeldBack(handled[p]) /\ handled[p].kind # "request" BY <1>4, KindsIn
<1>6. \A r \in pending : ~Told(handled, r.call) BY DEF ApprovalInv, BatchInv
<1>7. Once(handled) /\ Founded(handled) /\ \A c : Told(handled, c) => ~Told(history, c)
  BY DEF ApprovalInv, HistoryInv
<1> QED BY <1>2, <1>4, <1>5, <1>6, <1>7 DEF Ending

LEMMA StaysMade ==
  ASSUME ApprovalInv, UNCHANGED <<made, managed, keeps>>
  PROVE  Moves /\ Known' = Known
<1>1. Known' = Known BY DEF Known
<1>2. MadeInv' BY DEF ApprovalInv, MadeInv
<1> QED BY <1>1, <1>2 DEF Moves, ApprovalInv, KeeperInv

LEMMA FailKeeps ==
  ASSUME ApprovalInv, Moves, NEW how, how # "done", End(how, handled)
  PROVE  ApprovalInv'
<1>1. handled \in Seq(ItemsOf(Known)) /\ Ending(handled) BY HandledEnds
<1>2. handled \in Seq(ItemsOf(Known'))
  <2>1. ItemsOf(Known) \subseteq ItemsOf(Known') BY MoreItems DEF Moves
  <2> QED BY <1>1, <2>1
<1>3. Ends(how, handled) BY <1>1, <1>2 DEF Ends
<1> QED BY <1>3, EndKeeps

(* A turn cut short ends with what it would have ended with, up to there.   *)
CutAt(us, how, u, k) ==
  /\ how # "done" /\ k \in 1..Len(us) /\ Ends(how, u) /\ StartsWith(handled \o FirstOf(us, Len(us)), u)
  /\ ToSet(u) = ToSet(handled) \cup ToSet(FirstOf(us, k))

LEMMA CutEnds ==
  ASSUME ApprovalInv, Moves, NEW us, Updates(ItemsOf(Known'), us),
         Ending(handled \o FirstOf(us, Len(us))), Cut(us)
  PROVE  \E how, u, k : CutAt(us, how, u, k)
<1>1. handled \in Seq(ItemsOf(Known'))
  <2>1. ItemsOf(Known) \subseteq ItemsOf(Known') BY MoreItems DEF Moves
  <2> QED BY <2>1, HandledEnds
<1>2. DOMAIN us = 1..Len(us) /\ Len(us) \in Nat BY DEF Updates
<1>3. PICK k \in DOMAIN us : \E how \in {"failed", "abandoned"} : End(how, Passed(us, k)) BY DEF Cut
<1>4. PICK how \in {"failed", "abandoned"} : End(how, Passed(us, k)) BY <1>3
<1>5. k \in 0..Len(us) /\ Len(us) \in 0..Len(us) BY <1>2
<1>6. PICK b \in Seq(ItemsOf(Known')) : b = FirstOf(us, k) BY <1>5, FirstOfStarts
<1>7. PICK a \in Seq(ItemsOf(Known')) : a = FirstOf(us, Len(us)) BY <1>5, FirstOfStarts
<1>8. StartsWith(a, b) BY <1>5, <1>6, <1>7, FirstOfStarts
<1>9. PICK t \in Seq(ItemsOf(Known')) : t = handled \o a BY <1>1, JoinedIs
<1>10. PICK u \in Seq(ItemsOf(Known')) : u = handled \o b BY <1>1, JoinedIs
<1>11. StartsWith(t, u)
  <2>1. /\ Len(t) = Len(handled) + Len(a) /\ Len(handled) \in Nat
        /\ \A i \in 1..Len(handled) : t[i] = handled[i]
        /\ \A j \in 1..Len(a) : t[Len(handled) + j] = a[j]
    BY <1>1, <1>9, JoinedIs
  <2>2. /\ Len(u) = Len(handled) + Len(b)
        /\ \A i \in 1..Len(handled) : u[i] = handled[i]
        /\ \A j \in 1..Len(b) : u[Len(handled) + j] = b[j]
        /\ \A i \in 1..Len(u) : i \in 1..Len(handled) \/ (i > Len(handled) /\ \E j \in 1..Len(b) : i = Len(handled) + j)
    BY <1>1, <1>10, JoinedIs
  <2>3. Len(b) \in Nat /\ Len(a) \in Nat /\ Len(b) <= Len(a) /\ \A j \in 1..Len(b) : j \in 1..Len(a) /\ b[j] = a[j]
    BY <1>8 DEF StartsWith
  <2>4. ASSUME NEW i \in 1..Len(u) PROVE u[i] = t[i]
    <3>1. CASE i \in 1..Len(handled) BY <2>1, <2>2, <3>1
    <3>2. CASE i \notin 1..Len(handled)
      <4>1. PICK j \in 1..Len(b) : i = Len(handled) + j BY <2>2, <3>2
      <4> QED BY <2>1, <2>2, <2>3, <4>1
    <3> QED BY <3>1, <3>2
  <2>5. Len(u) \in Nat /\ Len(t) \in Nat /\ Len(u) <= Len(t) BY <2>1, <2>2, <2>3
  <2> QED BY <2>4, <2>5 DEF StartsWith
<1>12. Ending(u) BY <1>7, <1>9, <1>11, EndingStarts
<1>13. u = Passed(us, k) BY <1>6, <1>10 DEF Passed, FirstOf
<1>14. Ends(how, u) BY <1>4, <1>12, <1>13 DEF Ends
<1>15. ToSet(u) = ToSet(handled) \cup ToSet(FirstOf(us, k)) BY <1>1, <1>6, <1>10, JoinedIs
<1>16. StartsWith(handled \o FirstOf(us, Len(us)), u) BY <1>7, <1>9, <1>11
<1>17. CutAt(us, how, u, k) BY <1>2, <1>4, <1>14, <1>15, <1>16 DEF CutAt
<1> QED BY <1>17

LEMMA CutKeeps ==
  ASSUME ApprovalInv, Moves, NEW us, Updates(ItemsOf(Known'), us),
         Ending(handled \o FirstOf(us, Len(us))), Cut(us)
  PROVE  ApprovalInv'
<1>1. PICK how, u, k : CutAt(us, how, u, k) BY CutEnds
<1> QED BY <1>1, EndKeeps DEF CutAt


-----------------------------------------------------------------------------
(* One call is invoked.                                                     *)
LEMMA AppendResult ==
  ASSUME NEW K, NEW s \in Seq(ResultsOf(K)), NEW c \in K, ~Told(s, c), Once(s)
  PROVE  /\ Append(s, ResultOf(c)) \in Seq(ResultsOf(K)) /\ Once(Append(s, ResultOf(c)))
         /\ \A d : Told(Append(s, ResultOf(c)), d) <=> Told(s, d) \/ d = c
<1>1. ResultOf(c) \in ResultsOf(K) BY KindsIn
<1>2. PICK t \in Seq(ResultsOf(K)) : t = Append(s, ResultOf(c)) BY <1>1, AppendProperties
<1>3. /\ Len(s) \in Nat /\ Len(t) = Len(s) + 1 /\ t[Len(s) + 1] = ResultOf(c)
      /\ \A i \in 1..Len(s) : i \in 1..Len(t) /\ t[i] = s[i]
  BY <1>1, <1>2
<1>4. \A i \in 1..Len(t) : i \in 1..Len(s) \/ i = Len(s) + 1 BY <1>3
<1>5. Once(t)
  <2> SUFFICES ASSUME NEW p \in 1..Len(t), NEW q \in 1..Len(t), t[p] = t[q] PROVE p = q BY DEF Once
  <2>1. CASE p \in 1..Len(s) /\ q \in 1..Len(s)
    <3>1. s[p] \in ResultsOf(K) BY <2>1
    <3>2. s[p].kind = "result" BY <2>1, <3>1, KindsIn
    <3> QED BY <1>3, <2>1, <3>2 DEF Once
  <2>2. CASE p \in 1..Len(s) /\ q = Len(s) + 1 BY <1>3, <2>2 DEF Told
  <2>3. CASE q \in 1..Len(s) /\ p = Len(s) + 1 BY <1>3, <2>3 DEF Told
  <2> QED BY <1>4, <2>1, <2>2, <2>3
<1>6. ASSUME NEW d PROVE Told(t, d) <=> Told(s, d) \/ d = c
  <2>1. ASSUME Told(t, d) PROVE Told(s, d) \/ d = c
    <3>1. PICK i \in 1..Len(t) : t[i] = ResultOf(d) BY <2>1 DEF Told
    <3>2. CASE i \in 1..Len(s) BY <1>3, <3>1, <3>2 DEF Told
    <3>3. CASE i = Len(s) + 1 BY <1>3, <3>1, <3>3, Fields
    <3> QED BY <1>4, <3>2, <3>3
  <2>2. ASSUME Told(s, d) PROVE Told(t, d) BY <1>3, <2>2 DEF Told
  <2>3. Told(t, c)
    <3>1. Len(s) + 1 \in 1..Len(t) BY <1>3
    <3> QED BY <1>3, <3>1 DEF Told
  <2> QED BY <2>1, <2>2, <2>3
<1> QED BY <1>2, <1>5, <1>6

LEMMA ReportKeeps ==
  ASSUME ApprovalInv, pc \in {"replay", "round"}, UNCHANGED <<service, made>>,
         NEW c \in todo, NEW bad, Report(c, bad)
  PROVE  ApprovalInv'
<1>0. made' = made /\ managed' = managed /\ keeps' = keeps BY DEF service
<1>1. Moves /\ Known' = Known BY <1>0, StaysMade
<1>2. /\ results' = Append(results, ResultOf(c)) /\ todo' = todo \ {c}
      /\ UNCHANGED <<pending, autoApproved, history, pc, input, messages, calls, refused, deferred, asking,
                     handled, hand, ended, reply>>
  BY DEF Report, slots
<1>3. /\ c \in Known /\ results \in Seq(ResultsOf(Known)) /\ c \in calls /\ c \in todo /\ Once(results)
      /\ ~Told(results, c)
  BY DEF ApprovalInv, TypeInv, BatchInv
<1>4. /\ results' \in Seq(ResultsOf(Known)) /\ Once(results') /\ \A d : Told(results', d) <=> Told(results, d) \/ d = c
  BY <1>2, <1>3, AppendResult
<1>5. MadeInv' BY <1>1 DEF Moves
<1>6. TypeInv' BY <1>1, <1>2, <1>4 DEF ApprovalInv, TypeInv
<1>7. KeeperInv' BY <1>0, <1>2 DEF ApprovalInv, KeeperInv
<1>8. StageInv' BY <1>2 DEF ApprovalInv, StageInv
<1>9. BatchInv' BY <1>2, <1>3, <1>4 DEF ApprovalInv, BatchInv
<1>10. HistoryInv' BY <1>2 DEF ApprovalInv, HistoryInv, NotRequested
<1>11. MessagesInv' BY <1>0, <1>2 DEF ApprovalInv, MessagesInv
<1>12. EndsOnAnAnswer' BY <1>2 DEF ApprovalInv, EndsOnAnAnswer
<1> QED BY <1>5, <1>6, <1>7, <1>8, <1>9, <1>10, <1>11, <1>12 DEF ApprovalInv

LEMMA DeferKeeps ==
  ASSUME ApprovalInv, pc \in {"replay", "round"}, UNCHANGED <<service, made>>, NEW c \in todo, Defer(c)
  PROVE  ApprovalInv'
<1>0. made' = made /\ managed' = managed /\ keeps' = keeps BY DEF service
<1>1. Moves /\ Known' = Known BY <1>0, StaysMade
<1>2. /\ deferred' = deferred \cup {Request(c, TRUE)} /\ todo' = todo \ {c}
      /\ UNCHANGED <<pending, autoApproved, history, pc, input, messages, calls, refused, results, asking,
                     handled, hand, ended, reply>>
  BY DEF Defer, slots
<1>3. c \in Known /\ c \in calls /\ ~Told(results, c) BY DEF ApprovalInv, TypeInv, BatchInv
<1>4. Request(c, TRUE) \in Requests(Known)
  <2>1. TRUE \in BOOLEAN OBVIOUS
  <2>2. \A m \in BOOLEAN : Request(c, m) \in Requests(Known) BY <1>3 DEF Requests
  <2> QED BY <2>1, <2>2, Zenon
<1>5. Request(c, TRUE).call = c /\ ~HeldBack(Request(c, TRUE)) BY DEF HeldBack, Request, Item
<1>6. PICK r : r = Request(c, TRUE) OBVIOUS
<1>7. r \in Requests(Known) /\ r.call = c /\ ~HeldBack(r) /\ deferred' = deferred \cup {r} BY <1>2, <1>4, <1>5, <1>6
<1>8. MadeInv' BY <1>1 DEF Moves
<1>9. TypeInv' BY <1>1, <1>2, <1>7 DEF ApprovalInv, TypeInv
<1>10. KeeperInv' BY <1>0, <1>2 DEF ApprovalInv, KeeperInv
<1>11. StageInv' BY <1>2 DEF ApprovalInv, StageInv
<1>12. BatchInv'
  <2>1. \A d \in deferred' : d.call \in calls' \ todo' BY <1>2, <1>3, <1>7 DEF ApprovalInv, BatchInv
  <2>2. \A d : Told(results', d) => d \in calls' \ todo' /\ \A q \in deferred' : q.call # d
    BY <1>2, <1>3, <1>7 DEF ApprovalInv, BatchInv
  <2>3. \A d \in calls' : d \in todo' \/ (\E q \in deferred' : q.call = d) \/ Told(results', d)
    BY <1>2, <1>3, <1>7 DEF ApprovalInv, BatchInv
  <2>4. \A q \in pending' \cup asking' \cup deferred' : ~HeldBack(q) BY <1>2, <1>7 DEF ApprovalInv, BatchInv
  <2> QED BY <1>2, <2>1, <2>2, <2>3, <2>4 DEF ApprovalInv, BatchInv
<1>13. HistoryInv' BY <1>2 DEF ApprovalInv, HistoryInv, NotRequested
<1>14. MessagesInv' BY <1>0, <1>2 DEF ApprovalInv, MessagesInv
<1>15. EndsOnAnAnswer' BY <1>2 DEF ApprovalInv, EndsOnAnAnswer
<1> QED BY <1>8, <1>9, <1>10, <1>11, <1>12, <1>13, <1>14, <1>15 DEF ApprovalInv

LEMMA InvokeKeeps ==
  ASSUME ApprovalInv, Invoke
  PROVE  ApprovalInv'
<1>1. pc \in {"replay", "round"} /\ UNCHANGED <<service, made>> /\ UNCHANGED <<made, managed, keeps>>
  BY DEF Invoke, service
<1>2. PICK c \in todo : NotFound(c) \/ Succeeds(c) \/ Throws(c) \/ BadArguments(c) \/ Deferred(c) BY DEF Invoke
<1>3. \/ Report(c, FALSE) \/ Report(c, TRUE) \/ Defer(c) \/ End("failed", handled)
  BY <1>2 DEF NotFound, Succeeds, Throws, BadArguments, Deferred, Except
<1>4. CASE Report(c, FALSE) BY <1>1, <1>4, ReportKeeps
<1>5. CASE Report(c, TRUE) BY <1>1, <1>5, ReportKeeps
<1>6. CASE Defer(c) BY <1>1, <1>6, DeferKeeps
<1>7. CASE End("failed", handled) BY <1>1, <1>7, StaysMade, FailKeeps
<1> QED BY <1>3, <1>4, <1>5, <1>6, <1>7

-----------------------------------------------------------------------------
(* The calls of a batch, and the results of those that were turned down.    *)
LEMMA CallsListed ==
  ASSUME NEW K, IsFiniteSet(K), NEW S, S \subseteq K
  PROVE  /\ Listed({Raw(c) : c \in S}) \in Seq(ExchangesOf(K)) /\ ToSet(Listed({Raw(c) : c \in S})) = {Raw(c) : c \in S}
         /\ Once(Listed({Raw(c) : c \in S})) /\ Founded(Listed({Raw(c) : c \in S}))
         /\ \A d : ~Told(Listed({Raw(c) : c \in S}), d)
         /\ Listed({ResultOf(c) : c \in S}) \in Seq(ResultsOf(K)) /\ Once(Listed({ResultOf(c) : c \in S}))
         /\ \A d : Told(Listed({ResultOf(c) : c \in S}), d) <=> d \in S
<1>1. PICK R : R = {Raw(c) : c \in S} OBVIOUS
<1>2. R \subseteq ExchangesOf(K) /\ R \subseteq ItemsOf(K) BY <1>1, KindsIn
<1>3. IsFiniteSet(R) BY <1>2, ItemsFinite
<1>4. PICK r \in Seq(R) : r = Listed(R) /\ ToSet(r) = R BY <1>3, ListedIs
<1>5. r \in Seq(ExchangesOf(K)) BY <1>2
<1>6. \A p \in 1..Len(r) : r[p] \in R BY <1>4
<1>7. \A p \in 1..Len(r) : r[p].kind = "call" BY <1>1, <1>6, Fields
<1>8. Once(r) /\ Founded(r) /\ \A c : ~Told(r, c) BY <1>7, Fields DEF Once, Founded, Told
<1>9. PICK Q : Q = {ResultOf(c) : c \in S} OBVIOUS
<1>10. Q \subseteq ResultsOf(K) /\ Q \subseteq ItemsOf(K) BY <1>9, KindsIn
<1>11. IsFiniteSet(Q) BY <1>10, ItemsFinite
<1>12. PICK q \in Seq(Q) : q = Listed(Q) /\ ToSet(q) = Q /\ \A i, j \in DOMAIN q : q[i] = q[j] => i = j
  BY <1>11, ListedIs
<1>13. q \in Seq(ResultsOf(K)) BY <1>10
<1>14. DOMAIN q = 1..Len(q) OBVIOUS
<1>15. Once(q) BY <1>12, <1>14 DEF Once
<1>16. ASSUME NEW d PROVE Told(q, d) <=> d \in S
  <2>1. Told(q, d) <=> ResultOf(d) \in ToSet(q) BY ToldIs
  <2>2. ResultOf(d) \in Q <=> \E c \in S : ResultOf(d) = ResultOf(c) BY <1>9
  <2>3. \A c : ResultOf(d) = ResultOf(c) => d = c BY Fields
  <2> QED BY <1>12, <2>1, <2>2, <2>3
<1> QED BY <1>1, <1>4, <1>5, <1>8, <1>9, <1>12, <1>13, <1>15, <1>16

LEMMA KnownFinite == ASSUME ApprovalInv PROVE IsFiniteSet(Known)
<1> DEFINE f == [n \in 1..Len(made) |-> made[n]]
<1>1. made \in Seq(Call) BY DEF ApprovalInv, MadeInv
<1>2. DOMAIN made = 1..Len(made) /\ Len(made) \in Nat BY <1>1
<1>3. IsFiniteSet(1..Len(made)) BY <1>2, FS_Interval
<1>4. f \in [1..Len(made) -> Known] BY <1>2 DEF Known
<1>5. \A c \in Known : \E n \in 1..Len(made) : f[n] = c BY <1>2 DEF Known
<1>6. f \in Surjection(1..Len(made), Known) BY <1>4, <1>5 DEF Surjection
<1> QED BY <1>3, <1>6, FS_Surjection

(* An update for what there is of a set.                                    *)
LEMMA UnlessJoined ==
  ASSUME NEW K, IsFiniteSet(K), NEW us, Updates(ItemsOf(K), us), NEW S, S \subseteq Requests(K)
  PROVE  /\ Updates(ItemsOf(K), us \o Unless(S, Listed(S)))
         /\ Listed(S) \in Seq(Requests(K)) /\ ToSet(Listed(S)) = S
         /\ FirstOf(us \o Unless(S, Listed(S)), Len(us \o Unless(S, Listed(S)))) = FirstOf(us, Len(us)) \o Listed(S)
<1>0. Requests(K) \subseteq ItemsOf(K) BY KindsIn
<1>1. IsFiniteSet(S) BY <1>0, ItemsFinite
<1>2. PICK l \in Seq(S) : l = Listed(S) /\ ToSet(l) = S BY <1>1, ListedIs
<1>3. l \in Seq(Requests(K)) /\ l \in Seq(ItemsOf(K)) BY <1>0, <1>2
<1>4. us \in Seq(Seq(ItemsOf(K))) BY DEF Updates
<1>5. CASE S = {}
  <2>1. l = <<>> BY <1>5
  <2>2. Unless(S, Listed(S)) = <<>> BY <1>5 DEF Unless
  <2>3. us \o <<>> = us BY <1>4, ConcatEmptySeq
  <2>4. Len(us) \in Nat /\ Len(us) \in 0..Len(us) BY <1>4
  <2>5. FirstOf(us, Len(us)) \in Seq(ItemsOf(K)) BY <2>4, FirstOfStarts
  <2>6. FirstOf(us, Len(us)) \o <<>> = FirstOf(us, Len(us)) BY <2>5, ConcatEmptySeq
  <2> QED BY <1>2, <1>3, <2>1, <2>2, <2>3, <2>6
<1>6. CASE S # {}
  <2>1. Unless(S, Listed(S)) = <<l>> BY <1>2, <1>6 DEF Unless
  <2>2. Updates(ItemsOf(K), us \o <<l>>) /\ FirstOf(us \o <<l>>, Len(us \o <<l>>)) = FirstOf(us, Len(us)) \o l
    <3>1. UpToTwo(ItemsOf(K), l, l) /\ OneMore(ItemsOf(K), us, l) BY <1>3, FlattenJoined
    <3> QED BY <3>1, Zenon DEF OneMore
  <2> QED BY <1>2, <1>3, <2>1, <2>2
<1> QED BY <1>5, <1>6

-----------------------------------------------------------------------------
(* The calls of a turn and their results, all of them executed: none was    *)
(* answered before, and each is answered or waits for a human.              *)
BatchIs(b) ==
  /\ b \in Seq(ExchangesOf(Known)) /\ Once(b) /\ Founded(b)
  /\ \A c : Told(b, c) => ~Told(history, c) /\ \A r \in pending \cup asking \cup deferred : r.call # c
  /\ \A p \in 1..Len(b) : Told(b, b[p].call) \/ \E r \in deferred : r.call = b[p].call

LEMMA BatchEnds ==
  ASSUME ApprovalInv, NEW b, BatchIs(b), NEW d \in Seq(Requests(Known)), ToSet(d) = deferred \cup asking
  PROVE  b \o d \in Seq(ItemsOf(Known)) /\ Ending(b \o d) /\ Leads(b \o d)
<1>1. b \in Seq(ItemsOf(Known)) /\ d \in Seq(ItemsOf(Known)) BY KindsIn DEF BatchIs
<1>2. PICK u \in Seq(ItemsOf(Known)) : u = b \o d BY <1>1, JoinedIs
<1>3. \A p \in 1..Len(b) : b[p].kind \in {"call", "result"} /\ b[p] \in ToSet(b)
  <2>1. \A p \in 1..Len(b) : b[p] \in ExchangesOf(Known) BY DEF BatchIs
  <2> QED BY <1>1, <2>1, KindsIn, MemberIs
<1>4. \A q \in 1..Len(d) : /\ d[q].kind = "request" /\ d[q] \in deferred \cup asking
                           /\ ~HeldBack(d[q]) /\ ~Told(history, d[q].call) /\ ~Told(b, d[q].call)
  <2> TAKE q \in 1..Len(d)
  <2>1. d[q] \in Requests(Known) OBVIOUS
  <2>2. d[q] \in deferred \cup asking BY MemberIs
  <2>3. ~HeldBack(d[q]) /\ ~Told(history, d[q].call) BY <2>2 DEF ApprovalInv, BatchInv
  <2>4. ~Told(b, d[q].call) BY <2>2 DEF BatchIs
  <2> QED BY <2>1, <2>2, <2>3, <2>4, KindsIn
<1>5. Once(d) /\ Rests(d, b) /\ \A c : ~Told(d, c) BY <1>4, Fields DEF Once, Rests, Told
<1>6. Once(u) /\ Founded(u) /\ \A c : Told(u, c) <=> Told(b, c)
  <2>1. /\ \A c : Told(u, c) <=> Told(b, c) \/ Told(d, c)
        /\ Once(b) /\ Once(d) /\ (\A c : ~(Told(b, c) /\ Told(d, c))) => Once(u)
        /\ Founded(b) /\ Rests(d, b) => Founded(u)
    BY <1>1, <1>2, JoinedFits
  <2> QED BY <1>5, <2>1 DEF BatchIs
<1>7. ToSet(u) = ToSet(b) \cup ToSet(d) BY <1>1, <1>2, JoinedIs
<1>8. ASSUME NEW p \in 1..Len(u)
      PROVE  \/ \E q \in 1..Len(b) : u[p] = b[q]
             \/ \E q \in 1..Len(d) : u[p] = d[q]
  <2>1. u[p] \in ToSet(u) BY MemberIs
  <2> QED BY <1>1, <1>7, <2>1, MemberIs
<1>9. \A p \in 1..Len(u) : ~HeldBack(u[p]) BY <1>3, <1>4, <1>8, KindsIn
<1>10. \A p \in 1..Len(u) : u[p].kind = "request" => ~Told(history, u[p].call) /\ ~Told(u, u[p].call)
  BY <1>3, <1>4, <1>6, <1>8
<1>11. (\A c : Told(u, c) => ~Told(history, c)) /\ \A r \in pending : ~Told(u, r.call) BY <1>6 DEF BatchIs
<1>12. Ending(u) BY <1>6, <1>9, <1>10, <1>11 DEF Ending
<1>13. ASSUME NEW p \in 1..Len(u), u[p].kind = "call"
       PROVE  \/ Told(u, u[p].call)
              \/ \E q \in 1..Len(u) : u[q].kind = "request" /\ ~HeldBack(u[q]) /\ u[q].call = u[p].call
  <2>1. PICK q \in 1..Len(b) : u[p] = b[q] BY <1>4, <1>8, <1>13
  <2>2. CASE Told(b, b[q].call) BY <1>6, <2>1, <2>2
  <2>3. CASE \E r \in deferred : r.call = b[q].call
    <3>1. PICK r \in deferred : r.call = b[q].call BY <2>3
    <3>2. r \in ToSet(u) /\ r.kind = "request" BY <1>7, <3>1, KindsIn DEF ApprovalInv, TypeInv
    <3>3. PICK i \in 1..Len(u) : u[i] = r BY <3>2, MemberIs
    <3> QED BY <1>9, <2>1, <3>1, <3>2, <3>3
  <2> QED BY <2>1, <2>2, <2>3 DEF BatchIs
<1>14. Leads(u) BY <1>13 DEF Leads
<1> QED BY <1>2, <1>12, <1>14

(* The loop goes on to the next request.                                    *)
LEMMA GoesOn ==
  ASSUME ApprovalInv, UNCHANGED <<service, made>>, pc \in {"replay", "round"}, todo = {}, deferred = {}, asking = {},
         NEW b, BatchIs(b), handled' = b, calls' = {}, refused' = {}, results' = <<>>, pc' = "ask",
         messages' \in Seq(ExchangesOf(Known)), Once(messages'), ~managed => Founded(messages'),
         UNCHANGED <<slots, history, input, todo, deferred, asking, hand, ended, reply>>
  PROVE  ApprovalInv'
<1>0. made' = made /\ managed' = managed /\ keeps' = keeps BY DEF service
<1>1. Moves /\ Known' = Known BY <1>0, StaysMade
<1>2. pending' = pending /\ autoApproved' = autoApproved BY DEF slots
<1>3. b \in Seq(ExchangesOf(Known)) BY DEF BatchIs
<1>4. <<>> \in Seq(ResultsOf(Known)) OBVIOUS
<1>5. MadeInv' BY <1>1 DEF Moves
<1>6. TypeInv' BY <1>1, <1>2, <1>3, <1>4 DEF ApprovalInv, TypeInv
<1>7. KeeperInv' BY <1>0 DEF ApprovalInv, KeeperInv
<1>8. StageInv' BY <1>2 DEF ApprovalInv, StageInv
<1>9. BatchInv'
  <2>1. Len(<<>>) = 0 OBVIOUS
  <2>2. Once(<<>>) /\ \A c : ~Told(<<>>, c) BY <2>1 DEF Once, Told
  <2>3. \A r \in pending : ~Told(history, r.call) /\ ~Told(b, r.call) /\ ~HeldBack(r)
    BY DEF ApprovalInv, BatchInv, BatchIs
  <2> QED BY <1>2, <2>2, <2>3 DEF BatchInv
<1>10. HistoryInv'
  <2>1. /\ Once(b) /\ Founded(b) /\ \A c : Told(b, c) => ~Told(history, c)
        /\ \A p \in 1..Len(b) : Told(b, b[p].call)
    BY DEF BatchIs
  <2>2. /\ Once(history) /\ Founded(history) /\ NotReasked(history)
        /\ \A r \in autoApproved : HeldBack(r) /\ ~Told(history, r.call) /\ NotRequested(r.call)
    BY DEF ApprovalInv, HistoryInv
  <2> QED BY <1>2, <2>1, <2>2 DEF HistoryInv, NotRequested
<1>11. MessagesInv' BY <1>0 DEF MessagesInv
<1>12. EndsOnAnAnswer' BY DEF ApprovalInv, EndsOnAnAnswer
<1> QED BY <1>5, <1>6, <1>7, <1>8, <1>9, <1>10, <1>11, <1>12 DEF ApprovalInv

-----------------------------------------------------------------------------
(* The end of the replay.                                                   *)
ReplayIs(raws, told) ==
  /\ raws = Listed({Raw(c) : c \in calls \cup refused}) /\ told = Listed({ResultOf(c) : c \in refused}) \o results
  /\ raws \in Seq(ExchangesOf(Known)) /\ told \in Seq(ResultsOf(Known)) /\ BatchIs(raws \o told)
  /\ \A c : Told(raws \o told, c) => c \in calls \cup refused
  /\ calls \cup refused = {} => raws = <<>> /\ told = <<>>
  /\ ToSet(raws) = {Raw(c) : c \in calls \cup refused}

LEMMA ReplayBatch ==
  ASSUME ApprovalInv, pc = "replay", todo = {}
  PROVE  \E raws, told : ReplayIs(raws, told)
<1>0. PICK raws : raws = Listed({Raw(c) : c \in calls \cup refused}) OBVIOUS
<1>1. calls \cup refused \subseteq Known /\ refused \subseteq Known /\ calls \subseteq Known
      /\ results \in Seq(ResultsOf(Known))
  BY DEF ApprovalInv, TypeInv
<1>2. IsFiniteSet(Known) BY KnownFinite
<1>3. /\ raws \in Seq(ExchangesOf(Known)) /\ ToSet(raws) = {Raw(c) : c \in calls \cup refused}
      /\ Once(raws) /\ Founded(raws) /\ \A c : ~Told(raws, c)
  BY <1>0, <1>1, <1>2, CallsListed, ZenonT(60)
<1>4. PICK no : no = Listed({ResultOf(c) : c \in refused}) OBVIOUS
<1>5. no \in Seq(ResultsOf(Known)) /\ Once(no) /\ \A d : Told(no, d) <=> d \in refused
  BY <1>1, <1>2, <1>4, CallsListed
<1>6. no \in Seq(ItemsOf(Known)) /\ results \in Seq(ItemsOf(Known)) /\ raws \in Seq(ItemsOf(Known))
  BY <1>1, <1>3, <1>5, KindsIn
<1>7. PICK told \in Seq(ResultsOf(Known)) : told = no \o results BY <1>1, <1>5, JoinedIs
<1>8. told \in Seq(ResultsOf(Known)) OBVIOUS
<1>9. told \in Seq(ItemsOf(Known)) BY <1>8, KindsIn
<1>10. /\ Once(results) /\ \A c : Told(results, c) => c \in calls /\ c \notin refused
  BY DEF ApprovalInv, BatchInv
<1>11. Once(told) /\ \A c : Told(told, c) <=> c \in refused \/ Told(results, c)
  <2>1. /\ \A c : Told(told, c) <=> Told(no, c) \/ Told(results, c)
        /\ Once(no) /\ Once(results) /\ (\A c : ~(Told(no, c) /\ Told(results, c))) => Once(told)
    BY <1>6, <1>7, JoinedFits
  <2> QED BY <1>5, <1>10, <2>1
<1>12. \A q \in 1..Len(told) : told[q] = ResultOf(told[q].call) /\ Told(told, told[q].call)
  <2>1. \A q \in 1..Len(told) : told[q] \in ResultsOf(Known) BY <1>8
  <2> QED BY <2>1, KindsIn DEF Told
<1>13. Rests(told, raws)
  <2>1. \A q \in 1..Len(told) : told[q].call \in calls \cup refused BY <1>10, <1>11, <1>12
  <2> QED BY <1>3, <2>1 DEF Rests
<1>14. PICK b \in Seq(ExchangesOf(Known)) : b = raws \o told
  <2>1. told \in Seq(ExchangesOf(Known)) BY <1>8, KindsIn
  <2> QED BY <1>3, <2>1, JoinedIs
<1>15. b \in Seq(ExchangesOf(Known)) OBVIOUS
<1>16. Once(b) /\ Founded(b) /\ \A c : Told(b, c) <=> c \in refused \/ Told(results, c)
  <2>1. /\ \A c : Told(b, c) <=> Told(raws, c) \/ Told(told, c)
        /\ Once(raws) /\ Once(told) /\ (\A c : ~(Told(raws, c) /\ Told(told, c))) => Once(b)
        /\ Founded(raws) /\ Rests(told, raws) => Founded(b)
    BY <1>6, <1>9, <1>14, JoinedFits
  <2> QED BY <1>3, <1>11, <1>13, <2>1
<1>17. \A c : Told(b, c) => c \in calls \cup refused BY <1>10, <1>16
<1>18. \A c : Told(b, c) => ~Told(history, c) /\ \A r \in pending \cup asking \cup deferred : r.call # c
  <2> TAKE c
  <2> HAVE Told(b, c)
  <2>1. ~Told(history, c) /\ \A r \in pending \cup asking : r.call # c BY <1>17 DEF ApprovalInv, BatchInv
  <2>2. \A r \in deferred : r.call # c BY <1>16 DEF ApprovalInv, BatchInv
  <2> QED BY <2>1, <2>2
<1>19. ASSUME NEW p \in 1..Len(b) PROVE Told(b, b[p].call) \/ \E r \in deferred : r.call = b[p].call
  <2>0. ToSet(b) = ToSet(raws) \cup ToSet(told) BY <1>6, <1>9, <1>14, JoinedIs
  <2>1. b[p] \in ToSet(b) BY <1>15, MemberIs
  <2>2. CASE b[p] \in ToSet(told)
    <3>1. PICK q \in 1..Len(told) : told[q] = b[p] BY <1>8, <2>2, MemberIs
    <3> QED BY <1>11, <1>12, <1>16, <3>1
  <2>3. CASE b[p] \in ToSet(raws)
    <3>1. PICK c \in calls \cup refused : b[p] = Raw(c) BY <1>3, <2>3
    <3>2. b[p].call = c BY <3>1, Fields
    <3>3. c \in refused \/ (\E r \in deferred : r.call = c) \/ Told(results, c)
      BY <3>1 DEF ApprovalInv, BatchInv
    <3> QED BY <1>16, <3>2, <3>3
  <2> QED BY <2>0, <2>1, <2>2, <2>3
<1>20. BatchIs(b) BY <1>15, <1>16, <1>18, <1>19 DEF BatchIs
<1>21. ASSUME calls \cup refused = {} PROVE raws = <<>> /\ told = <<>>
  <2>1. raws = <<>>
    <3>1. ToSet(raws) = {} BY <1>3, <1>21
    <3>2. \A p \in 1..Len(raws) : FALSE BY <1>3, <3>1, MemberIs
    <3> QED BY <1>3, <3>2
  <2>2. told = <<>>
    <3>1. \A c : ~Told(told, c) BY <1>10, <1>11, <1>21
    <3>2. \A p \in 1..Len(told) : FALSE BY <1>12, <3>1
    <3> QED BY <1>8, <3>2
  <2> QED BY <2>1, <2>2
<1> QED BY <1>0, <1>3, <1>4, <1>7, <1>8, <1>14, <1>17, <1>20, <1>21 DEF ReplayIs

(* How the replay ends: cut short, for good, or with the next request.      *)
ReplayShape(us, b, d, u) ==
  /\ pc = "replay" /\ todo = {} /\ handled = <<>> /\ UNCHANGED <<service, turns, made, answers, runs>>
  /\ Updates(ItemsOf(Known), us) /\ BatchIs(b) /\ \A c : Told(b, c) => c \in calls \cup refused
  /\ \A k \in 1..Len(us) : \A c \in calls \cup refused : Raw(c) \in ToSet(FirstOf(us, k))
  /\ {Raw(c) : c \in calls \cup refused} \subseteq ToSet(b)
  /\ d \in Seq(Requests(Known)) /\ ToSet(d) = deferred \cup asking
  /\ u \in Seq(ItemsOf(Known)) /\ u = b \o d /\ Ending(u) /\ Leads(u) /\ handled \o FirstOf(us, Len(us)) = u
ReplayGoesOn(b) ==
  /\ deferred \cup asking = {} /\ messages' = messages \o b
  /\ calls' = {} /\ refused' = {} /\ results' = <<>> /\ handled' = b /\ pc' = "ask"
  /\ UNCHANGED <<slots, history, input, todo, deferred, asking, hand, ended, reply>>
LEMMA FinishReplayIs ==
  ASSUME ApprovalInv, FinishReplay
  PROVE  \E us, b, d, u : ReplayShape(us, b, d, u) /\ (Cut(us) \/ End("done", u) \/ ReplayGoesOn(b))
<1>0. /\ pc = "replay" /\ todo = {} /\ made' = made /\ managed' = managed /\ keeps' = keeps
      /\ UNCHANGED <<service, turns, made, answers, runs>>
  BY DEF FinishReplay, service
<1>1. Moves /\ Known' = Known BY <1>0, StaysMade
<1>2. handled = <<>> BY <1>0 DEF ApprovalInv, StageInv
<1>3. PICK raws, told : ReplayIs(raws, told) BY <1>0, ReplayBatch
<1>4. raws = Listed({Raw(c) : c \in calls \cup refused}) /\ told = Listed({ResultOf(c) : c \in refused}) \o results
  BY <1>3 DEF ReplayIs
<1>5. /\ raws \in Seq(ExchangesOf(Known)) /\ told \in Seq(ResultsOf(Known)) /\ BatchIs(raws \o told)
      /\ \A c : Told(raws \o told, c) => c \in calls \cup refused
      /\ calls \cup refused = {} => raws = <<>> /\ told = <<>>
      /\ ToSet(raws) = {Raw(c) : c \in calls \cup refused}
  BY <1>3 DEF ReplayIs
<1>6. raws \in Seq(ItemsOf(Known)) /\ told \in Seq(ItemsOf(Known)) BY <1>5, KindsIn
<1>7. PICK b \in Seq(ItemsOf(Known)) : b = raws \o told BY <1>6, JoinedIs
<1>8. PICK first : first = IF calls \cup refused = {} THEN <<>> ELSE <<raws, told>> OBVIOUS
<1>9. Updates(ItemsOf(Known), first) /\ FirstOf(first, Len(first)) = b
  <2>1. Updates(ItemsOf(Known), <<>>) BY DEF Updates
  <2>2. UpToTwo(ItemsOf(Known), raws, told) BY <1>6, <2>1, FlattenJoined
  <2>3. CASE calls \cup refused = {}
    <3>1. first = <<>> /\ raws = <<>> /\ told = <<>> BY <1>5, <1>8, <2>3
    <3>2. b = <<>> BY <1>7, <3>1
    <3> QED BY <2>2, <3>1, <3>2 DEF UpToTwo
  <2>4. CASE calls \cup refused # {}
    <3>1. first = <<raws, told>> BY <1>8, <2>4
    <3> QED BY <1>7, <2>2, <3>1 DEF UpToTwo
  <2> QED BY <2>3, <2>4
<1>10. IsFiniteSet(Known) /\ deferred \subseteq Requests(Known) /\ asking \subseteq Requests(Known)
  BY KnownFinite DEF ApprovalInv, TypeInv
<1>11. PICK second : second = first \o Unless(deferred, Listed(deferred)) OBVIOUS
<1>12. PICK us : us = second \o Unless(asking, Listed(asking)) OBVIOUS
<1>13. /\ Updates(ItemsOf(Known), second) /\ Listed(deferred) \in Seq(Requests(Known)) /\ ToSet(Listed(deferred)) = deferred
       /\ FirstOf(second, Len(second)) = b \o Listed(deferred)
  BY <1>9, <1>10, <1>11, UnlessJoined, ZenonT(60)
<1>14. /\ Updates(ItemsOf(Known), us) /\ Listed(asking) \in Seq(Requests(Known)) /\ ToSet(Listed(asking)) = asking
       /\ FirstOf(us, Len(us)) = (b \o Listed(deferred)) \o Listed(asking)
  <2>1. Updates(ItemsOf(Known), second) BY <1>13
  <2>2. /\ Updates(ItemsOf(Known), us) /\ Listed(asking) \in Seq(Requests(Known)) /\ ToSet(Listed(asking)) = asking
        /\ FirstOf(us, Len(us)) = FirstOf(second, Len(second)) \o Listed(asking)
    BY <1>10, <1>12, <2>1, UnlessJoined
  <2> QED BY <1>13, <2>2
<1>15. PICK d \in Seq(Requests(Known)) : d = Listed(deferred) \o Listed(asking) BY <1>13, <1>14, JoinedIs
<1>16. ToSet(d) = deferred \cup asking BY <1>13, <1>14, <1>15, JoinedIs
<1>17. FirstOf(us, Len(us)) = b \o d
  <2>1. Listed(deferred) \in Seq(ItemsOf(Known)) /\ Listed(asking) \in Seq(ItemsOf(Known)) BY <1>13, <1>14, KindsIn
  <2> QED BY <1>14, <1>15, <2>1, ConcatAssociative, SMTT(30)
<1>18. BatchIs(b) BY <1>5, <1>7
<1>19. PICK u \in Seq(ItemsOf(Known)) : u = b \o d /\ Ending(u) /\ Leads(u) BY <1>15, <1>16, <1>18, BatchEnds
<1>20. handled \o FirstOf(us, Len(us)) = u BY <1>2, <1>17, <1>19, ConcatEmptySeq
<1>21. Passed(us, Len(us)) = u BY <1>20 DEF Passed, FirstOf
<1>22. us = (IF calls \cup refused = {} THEN <<>> ELSE <<raws, told>>)
                   \o Unless(deferred, Listed(deferred)) \o Unless(asking, Listed(asking))
  BY <1>8, <1>11, <1>12
<1>23. \/ Cut(us)
       \/ End("done", u)
       \/ /\ deferred \cup asking = {}
          /\ messages' = messages \o raws \o told
          /\ calls' = {} /\ refused' = {} /\ results' = <<>>
          /\ handled' = u /\ pc' = "ask"
          /\ UNCHANGED <<slots, history, input, todo, deferred, asking, hand, ended, reply>>
  BY <1>4, <1>21, <1>22 DEF FinishReplay
<1>24. {Raw(c) : c \in calls \cup refused} \subseteq ToSet(b) BY <1>5, <1>6, <1>7, JoinedIs
<1>25. \A k \in 1..Len(us) : \A c \in calls \cup refused : Raw(c) \in ToSet(FirstOf(us, k))
  <2> SUFFICES ASSUME NEW k \in 1..Len(us), NEW c \in calls \cup refused PROVE Raw(c) \in ToSet(FirstOf(us, k))
    OBVIOUS
  <2>1. us[1] = raws
    <3>1. PICK T : T = Seq(ItemsOf(Known)) OBVIOUS
    <3>2. first = <<raws, told>> /\ first \in Seq(T) /\ Len(first) = 2 /\ first[1] = raws BY <1>6, <1>8, <3>1
    <3>3. Unless(deferred, Listed(deferred)) \in Seq(T) /\ Unless(asking, Listed(asking)) \in Seq(T)
      <4>1. Listed(deferred) \in T /\ Listed(asking) \in T BY <1>13, <1>14, <3>1, KindsIn
      <4> QED BY <4>1 DEF Unless
    <3>4. PICK x, y \in Seq(T) : x = Unless(deferred, Listed(deferred)) /\ y = Unless(asking, Listed(asking)) BY <3>3
    <3>5. PICK w \in Seq(T) : w = first \o x BY <3>2, JoinedIs
    <3>6. w[1] = raws /\ 1 \in 1..Len(w)
      <4>1. 1 \in 1..Len(first) BY <3>2
      <4>2. \A e \in 1..Len(first) : e \in 1..Len(first \o x) /\ (first \o x)[e] = first[e] BY <3>2, JoinedIs
      <4> QED BY <3>2, <3>5, <4>1, <4>2
    <3>7. \A e \in 1..Len(w) : (w \o y)[e] = w[e] BY JoinedIs
    <3>8. us = w \o y BY <1>11, <1>12, <3>4, <3>5
    <3> QED BY <3>6, <3>7, <3>8
  <2>2. ToSet(us[1]) \subseteq ToSet(FirstOf(us, k)) BY <1>14, FirstIsIn
  <2> QED BY <1>5, <2>1, <2>2
<1>26. \/ Cut(us)
       \/ End("done", u)
       \/ ReplayGoesOn(b)
  <2>1. CASE \/ Cut(us) \/ End("done", u) BY <2>1
  <2>2. CASE /\ deferred \cup asking = {}
             /\ messages' = messages \o raws \o told
             /\ calls' = {} /\ refused' = {} /\ results' = <<>>
             /\ handled' = u /\ pc' = "ask"
             /\ UNCHANGED <<slots, history, input, todo, deferred, asking, hand, ended, reply>>
    <3>1. u = b
      <4>1. \A p \in 1..Len(d) : FALSE BY <1>15, <1>16, <2>2, MemberIs
      <4>2. d = <<>> BY <1>15, <4>1
      <4> QED BY <1>7, <1>19, <4>2, ConcatEmptySeq
    <3>2. messages \in Seq(ItemsOf(Known)) BY KindsIn DEF ApprovalInv, TypeInv
    <3>3. messages' = messages \o b BY <1>6, <1>7, <2>2, <3>2, ConcatAssociative, SMTT(30)
    <3> QED BY <2>2, <3>1, <3>3 DEF ReplayGoesOn
  <2> QED BY <1>23, <2>1, <2>2
<1>27. ReplayShape(us, b, d, u)
  BY <1>0, <1>2, <1>5, <1>7, <1>14, <1>15, <1>16, <1>18, <1>19, <1>20, <1>24, <1>25 DEF ReplayShape
<1> QED BY <1>26, <1>27

LEMMA FinishReplayKeeps ==
  ASSUME ApprovalInv, FinishReplay
  PROVE  ApprovalInv'
<1>1. PICK us, b, d, u : ReplayShape(us, b, d, u) /\ (Cut(us) \/ End("done", u) \/ ReplayGoesOn(b))
  BY FinishReplayIs
<1>2. /\ pc = "replay" /\ todo = {} /\ handled = <<>> /\ UNCHANGED <<service, made>> /\ managed' = managed
      /\ Updates(ItemsOf(Known), us) /\ BatchIs(b) /\ (\A c : Told(b, c) => c \in calls \cup refused)
      /\ u \in Seq(ItemsOf(Known)) /\ Ending(u) /\ Leads(u) /\ handled \o FirstOf(us, Len(us)) = u
  BY <1>1 DEF ReplayShape, service
<1>3. Moves /\ Known' = Known
  <2>1. UNCHANGED <<made, managed, keeps>> BY <1>2 DEF service
  <2> QED BY <2>1, StaysMade
<1>4. CASE Cut(us)
  <2>1. Updates(ItemsOf(Known'), us) BY <1>2, <1>3
  <2>2. Ending(handled \o FirstOf(us, Len(us))) BY <1>2
  <2> QED BY <1>3, <1>4, <2>1, <2>2, CutKeeps
<1>5. CASE End("done", u)
  <2>1. Ends("done", u) BY <1>2, <1>3, <1>5 DEF Ends
  <2> QED BY <1>3, <2>1, EndKeeps
<1>6. CASE ReplayGoesOn(b)
  <2>1. /\ deferred = {} /\ asking = {} /\ messages' = messages \o b
        /\ calls' = {} /\ refused' = {} /\ results' = <<>> /\ handled' = b /\ pc' = "ask"
        /\ UNCHANGED <<slots, history, input, todo, deferred, asking, hand, ended, reply>>
    BY <1>6 DEF ReplayGoesOn
  <2>2. messages \in Seq(ExchangesOf(Known)) /\ Once(messages) /\ (~managed => Founded(messages))
    BY DEF ApprovalInv, TypeInv, MessagesInv
  <2>3. messages \in Seq(ItemsOf(Known)) BY <2>2, KindsIn
  <2>4. b \in Seq(ExchangesOf(Known)) /\ Once(b) /\ Founded(b) BY <1>2 DEF BatchIs
  <2>5. b \in Seq(ItemsOf(Known)) BY <2>4, KindsIn
  <2>6. PICK m \in Seq(ExchangesOf(Known)) : m = messages \o b BY <2>2, <2>4, JoinedIs
  <2>7. \A c : ~(Told(messages, c) /\ Told(b, c)) BY <1>2 DEF ApprovalInv, BatchInv
  <2>8. Rests(b, messages) BY <2>4 DEF Founded, Rests
  <2>9. Once(m) /\ (~managed => Founded(m))
    <3>1. /\ Once(messages) /\ Once(b) /\ (\A c : ~(Told(messages, c) /\ Told(b, c))) => Once(m)
          /\ Founded(messages) /\ Rests(b, messages) => Founded(m)
      BY <2>3, <2>5, <2>6, JoinedFits
    <3> QED BY <2>2, <2>4, <2>7, <2>8, <3>1
  <2>10. messages' \in Seq(ExchangesOf(Known)) /\ Once(messages') /\ (~managed => Founded(messages'))
    BY <2>1, <2>6, <2>9
  <2> QED BY <1>2, <2>1, <2>10, GoesOn
<1> QED BY <1>1, <1>4, <1>5, <1>6

-----------------------------------------------------------------------------
(* The end of a round.                                                      *)
LEMMA RoundBatch ==
  ASSUME ApprovalInv, pc = "round", todo = {}
  PROVE  \E b \in Seq(ItemsOf(Known)) : b = handled \o results /\ BatchIs(b)
<1>1. /\ handled \in Seq(ExchangesOf(Known)) /\ results \in Seq(ResultsOf(Known))
      /\ refused = {} /\ asking = {} /\ Once(results)
      /\ Once(handled) /\ Founded(handled)
      /\ \A c : Told(results, c) => c \in calls /\ \A r \in deferred : r.call # c
  BY DEF ApprovalInv, TypeInv, StageInv, BatchInv, HistoryInv
<1>2. handled \in Seq(ItemsOf(Known)) /\ results \in Seq(ItemsOf(Known)) BY <1>1, KindsIn
<1>3. PICK b \in Seq(ExchangesOf(Known)) : b = handled \o results
  <2>1. results \in Seq(ExchangesOf(Known)) BY <1>1, KindsIn
  <2> QED BY <1>1, <2>1, JoinedIs
<1>4. \A q \in 1..Len(results) : results[q] = ResultOf(results[q].call) /\ Told(results, results[q].call)
  <2>1. \A q \in 1..Len(results) : results[q] \in ResultsOf(Known) BY <1>1
  <2> QED BY <2>1, KindsIn DEF Told
<1>5. Rests(results, handled)
  <2>1. \A q \in 1..Len(results) : results[q].call \in calls BY <1>1, <1>4
  <2> QED BY <2>1 DEF Rests, ApprovalInv, HistoryInv
<1>6. \A c \in calls : ~Told(handled, c) /\ ~Told(history, c) BY DEF ApprovalInv, BatchInv
<1>7. Once(b) /\ Founded(b) /\ \A c : Told(b, c) <=> Told(handled, c) \/ Told(results, c)
  <2>1. /\ \A c : Told(b, c) <=> Told(handled, c) \/ Told(results, c)
        /\ Once(handled) /\ Once(results) /\ (\A c : ~(Told(handled, c) /\ Told(results, c))) => Once(b)
        /\ Founded(handled) /\ Rests(results, handled) => Founded(b)
    BY <1>2, <1>3, JoinedFits
  <2> QED BY <1>1, <1>5, <1>6, <2>1
<1>8. ASSUME NEW c, Told(b, c) PROVE ~Told(history, c) /\ \A r \in pending \cup asking \cup deferred : r.call # c
  <2>1. CASE Told(handled, c)
    <3>1. ~Told(history, c) /\ \A r \in pending \cup asking : r.call # c
      BY <2>1 DEF ApprovalInv, HistoryInv, BatchInv
    <3>2. \A r \in deferred : r.call # c BY <1>6, <2>1 DEF ApprovalInv, BatchInv
    <3> QED BY <3>1, <3>2
  <2>2. CASE Told(results, c)
    <3>1. c \in calls /\ \A r \in deferred : r.call # c BY <1>1, <2>2
    <3>2. \A r \in pending \cup asking : r.call # c BY <3>1 DEF ApprovalInv, BatchInv
    <3> QED BY <1>6, <3>1, <3>2
  <2> QED BY <1>7, <1>8, <2>1, <2>2
<1>9. ASSUME NEW p \in 1..Len(b) PROVE Told(b, b[p].call) \/ \E r \in deferred : r.call = b[p].call
  <2>0. ToSet(b) = ToSet(handled) \cup ToSet(results) BY <1>2, <1>3, JoinedIs
  <2>1. b[p] \in ToSet(b) BY MemberIs
  <2>2. CASE b[p] \in ToSet(results)
    <3>1. PICK q \in 1..Len(results) : results[q] = b[p] BY <1>1, <2>2, MemberIs
    <3> QED BY <1>4, <1>7, <3>1
  <2>3. CASE b[p] \in ToSet(handled)
    <3>1. PICK q \in 1..Len(handled) : handled[q] = b[p] BY <1>1, <2>3, MemberIs
    <3>2. Told(handled, b[p].call) \/ b[p].call \in calls BY <3>1 DEF ApprovalInv, HistoryInv
    <3>3. b[p].call \in calls => (\E r \in deferred : r.call = b[p].call) \/ Told(results, b[p].call)
      BY DEF ApprovalInv, BatchInv
    <3> QED BY <1>7, <3>2, <3>3
  <2> QED BY <2>0, <2>1, <2>2, <2>3
<1>10. BatchIs(b) BY <1>7, <1>8, <1>9 DEF BatchIs
<1>11. b \in Seq(ItemsOf(Known)) BY KindsIn
<1> QED BY <1>3, <1>10, <1>11

(* What the model is sent after a round that the framework replays.         *)
LEMMA RoundReplayed ==
  ASSUME ApprovalInv, pc = "round", NEW raws, raws = Listed({Raw(c) : c \in calls}),
         NEW m, m = messages \o raws \o results
  PROVE  m \in Seq(ExchangesOf(Known)) /\ Once(m) /\ (~managed => Founded(m))
<1>1. /\ calls \subseteq Known /\ messages \in Seq(ExchangesOf(Known)) /\ results \in Seq(ResultsOf(Known))
      /\ Once(messages) /\ (~managed => Founded(messages)) /\ Once(results)
      /\ \A c : Told(results, c) => c \in calls
      /\ \A c \in calls : ~Told(messages, c)
  BY DEF ApprovalInv, TypeInv, BatchInv, MessagesInv
<1>2. IsFiniteSet(Known) BY KnownFinite
<1>3. /\ raws \in Seq(ExchangesOf(Known)) /\ ToSet(raws) = {Raw(c) : c \in calls}
      /\ Once(raws) /\ Founded(raws) /\ \A c : ~Told(raws, c)
  BY <1>1, <1>2, CallsListed
<1>4. results \in Seq(ExchangesOf(Known)) BY <1>1, KindsIn
<1>5. /\ messages \in Seq(ItemsOf(Known)) /\ raws \in Seq(ItemsOf(Known)) /\ results \in Seq(ItemsOf(Known))
  BY <1>1, <1>3, KindsIn
<1>6. PICK l \in Seq(ExchangesOf(Known)) : l = messages \o raws BY <1>1, <1>3, JoinedIs
<1>7. l \in Seq(ItemsOf(Known)) BY KindsIn
<1>8. Once(l) /\ (~managed => Founded(l)) /\ \A c : Told(l, c) <=> Told(messages, c)
  <2>1. /\ \A c : Told(l, c) <=> Told(messages, c) \/ Told(raws, c)
        /\ Once(messages) /\ Once(raws) /\ (\A c : ~(Told(messages, c) /\ Told(raws, c))) => Once(l)
        /\ Founded(messages) /\ Rests(raws, messages) => Founded(l)
    BY <1>5, <1>6, JoinedFits
  <2>2. Rests(raws, messages) BY <1>3 DEF Founded, Rests
  <2> QED BY <1>1, <1>3, <2>1, <2>2
<1>9. PICK n \in Seq(ExchangesOf(Known)) : n = l \o results BY <1>4, JoinedIs
<1>10. \A q \in 1..Len(results) : results[q] = ResultOf(results[q].call) /\ Told(results, results[q].call)
  <2>1. \A q \in 1..Len(results) : results[q] \in ResultsOf(Known) BY <1>1
  <2> QED BY <2>1, KindsIn DEF Told
<1>11. Rests(results, l)
  <2>1. \A q \in 1..Len(results) : results[q].call \in calls BY <1>1, <1>10
  <2>2. ToSet(l) = ToSet(messages) \cup ToSet(raws) BY <1>1, <1>3, <1>6, JoinedIs, ZenonT(60)
  <2> QED BY <1>3, <2>1, <2>2 DEF Rests
<1>12. Once(n) /\ (~managed => Founded(n))
  <2>1. /\ Once(l) /\ Once(results) /\ (\A c : ~(Told(l, c) /\ Told(results, c))) => Once(n)
        /\ Founded(l) /\ Rests(results, l) => Founded(n)
    BY <1>5, <1>7, <1>9, JoinedFits
  <2> QED BY <1>1, <1>8, <1>11, <2>1
<1>13. m = n BY <1>6, <1>9
<1> QED BY <1>12, <1>13

(* How a round ends: cut short, for good, or with the next request.         *)
RoundShape(us, b, d, u) ==
  /\ pc = "round" /\ todo = {} /\ asking = {} /\ refused = {} /\ UNCHANGED <<service, turns, made, answers, runs>>
  /\ Updates(ItemsOf(Known), us) /\ b = handled \o results /\ BatchIs(b)
  /\ d \in Seq(Requests(Known)) /\ ToSet(d) = deferred
  /\ u \in Seq(ItemsOf(Known)) /\ u = b \o d /\ Ending(u) /\ Leads(u) /\ handled \o FirstOf(us, Len(us)) = u
RoundGoesOn(b) ==
  /\ deferred = {} /\ handled' = b /\ calls' = {} /\ results' = <<>> /\ pc' = "ask"
  /\ messages' = IF managed THEN results ELSE messages \o Listed({Raw(c) : c \in calls}) \o results
  /\ UNCHANGED <<slots, history, input, refused, todo, deferred, asking, hand, ended, reply>>
LEMMA FinishRoundIs ==
  ASSUME ApprovalInv, FinishRound
  PROVE  \E us, b, d, u : RoundShape(us, b, d, u) /\ (Cut(us) \/ End("done", u) \/ RoundGoesOn(b))
<1>0. /\ pc = "round" /\ todo = {} /\ made' = made /\ managed' = managed /\ keeps' = keeps
      /\ UNCHANGED <<service, turns, made, answers, runs>>
  BY DEF FinishRound, service
<1>1. Moves /\ Known' = Known BY <1>0, StaysMade
<1>2. asking = {} /\ refused = {} BY <1>0 DEF ApprovalInv, StageInv
<1>3. PICK b \in Seq(ItemsOf(Known)) : b = handled \o results /\ BatchIs(b) BY <1>0, RoundBatch
<1>4. /\ results \in Seq(ResultsOf(Known)) /\ handled \in Seq(ExchangesOf(Known)) /\ Once(results)
      /\ IsFiniteSet(Known) /\ deferred \subseteq Requests(Known)
  BY KnownFinite DEF ApprovalInv, TypeInv, BatchInv
<1>5. results \in Seq(ItemsOf(Known)) /\ handled \in Seq(ItemsOf(Known)) BY <1>4, KindsIn
<1>6. PICK first : first = IF results = <<>> THEN <<>> ELSE <<results>> OBVIOUS
<1>7. Updates(ItemsOf(Known), first) /\ FirstOf(first, Len(first)) = results
  <2>1. Updates(ItemsOf(Known), <<>>) BY DEF Updates
  <2>2. UpToTwo(ItemsOf(Known), results, results) BY <1>5, <2>1, FlattenJoined
  <2> QED BY <1>6, <2>2 DEF UpToTwo
<1>8. PICK us : us = first \o Unless(deferred, Listed(deferred)) OBVIOUS
<1>9. /\ Updates(ItemsOf(Known), us) /\ Listed(deferred) \in Seq(Requests(Known)) /\ ToSet(Listed(deferred)) = deferred
      /\ FirstOf(us, Len(us)) = results \o Listed(deferred)
  <2>1. Updates(ItemsOf(Known), first) BY <1>7
  <2>2. /\ Updates(ItemsOf(Known), us) /\ Listed(deferred) \in Seq(Requests(Known)) /\ ToSet(Listed(deferred)) = deferred
        /\ FirstOf(us, Len(us)) = FirstOf(first, Len(first)) \o Listed(deferred)
    BY <1>4, <1>8, <2>1, UnlessJoined, SMTT(30)
  <2> QED BY <1>7, <2>2
<1>10. PICK d \in Seq(Requests(Known)) : d = Listed(deferred) BY <1>9
<1>11. ToSet(d) = deferred \cup asking BY <1>2, <1>9, <1>10
<1>12. PICK u \in Seq(ItemsOf(Known)) : u = b \o d /\ Ending(u) /\ Leads(u) BY <1>3, <1>10, <1>11, BatchEnds
<1>13. handled \o FirstOf(us, Len(us)) = u
  <2>1. d \in Seq(ItemsOf(Known)) BY KindsIn
  <2>2. handled \o (results \o d) = (handled \o results) \o d
    <3>1. \A T : \A x, y, z \in Seq(T) : x \o (y \o z) = (x \o y) \o z BY ONLY ConcatAssociative, SMTT(30)
    <3> QED BY ONLY <1>5, <2>1, <3>1, SMTT(30)
  <2> QED BY <1>3, <1>9, <1>10, <1>12, <2>2
<1>14. Passed(us, Len(us)) = u BY <1>13 DEF Passed, FirstOf
<1>15. us = (IF results = <<>> THEN <<>> ELSE <<results>>) \o Unless(deferred, Listed(deferred)) BY <1>6, <1>8
<1>16. \/ Cut(us)
       \/ End("done", u)
       \/ /\ deferred = {}
          /\ messages' = IF managed THEN results ELSE messages \o Listed({Raw(c) : c \in calls}) \o results
          /\ calls' = {} /\ results' = <<>> /\ handled' = u /\ pc' = "ask"
          /\ UNCHANGED <<slots, history, input, refused, todo, deferred, asking, hand, ended, reply>>
  BY <1>14, <1>15 DEF FinishRound
<1>17. Cut(us) \/ End("done", u) \/ RoundGoesOn(b)
  <2>1. CASE Cut(us) \/ End("done", u) BY <2>1
  <2>2. CASE /\ deferred = {}
             /\ messages' = IF managed THEN results ELSE messages \o Listed({Raw(c) : c \in calls}) \o results
             /\ calls' = {} /\ results' = <<>> /\ handled' = u /\ pc' = "ask"
             /\ UNCHANGED <<slots, history, input, refused, todo, deferred, asking, hand, ended, reply>>
    <3>1. \A p \in 1..Len(d) : FALSE BY <1>2, <1>10, <1>11, <2>2, MemberIs
    <3>2. d = <<>> BY <1>10, <3>1
    <3>3. u = b BY <1>12, <3>2, ConcatEmptySeq
    <3> QED BY <2>2, <3>3 DEF RoundGoesOn
  <2> QED BY <1>16, <2>1, <2>2
<1>18. RoundShape(us, b, d, u)
  BY <1>0, <1>2, <1>3, <1>9, <1>10, <1>11, <1>12, <1>13 DEF RoundShape
<1> QED BY <1>17, <1>18

LEMMA FinishRoundKeeps ==
  ASSUME ApprovalInv, FinishRound
  PROVE  ApprovalInv'
<1>1. PICK us, b, d, u : RoundShape(us, b, d, u) /\ (Cut(us) \/ End("done", u) \/ RoundGoesOn(b))
  BY FinishRoundIs
<1>2. /\ pc = "round" /\ todo = {} /\ asking = {} /\ refused = {} /\ UNCHANGED <<service, made>> /\ managed' = managed
      /\ Updates(ItemsOf(Known), us) /\ BatchIs(b)
      /\ u \in Seq(ItemsOf(Known)) /\ Ending(u) /\ Leads(u) /\ handled \o FirstOf(us, Len(us)) = u
  BY <1>1 DEF RoundShape, service
<1>3. Moves /\ Known' = Known
  <2>1. UNCHANGED <<made, managed, keeps>> BY <1>2 DEF service
  <2> QED BY <2>1, StaysMade
<1>4. CASE Cut(us)
  <2>1. Updates(ItemsOf(Known'), us) BY <1>2, <1>3
  <2>2. Ending(handled \o FirstOf(us, Len(us))) BY <1>2
  <2> QED BY <1>3, <1>4, <2>1, <2>2, CutKeeps
<1>5. CASE End("done", u)
  <2>1. Ends("done", u) BY <1>2, <1>3, <1>5 DEF Ends
  <2> QED BY <1>3, <2>1, EndKeeps
<1>6. CASE RoundGoesOn(b)
  <2>1. /\ deferred = {} /\ handled' = b /\ calls' = {} /\ results' = <<>> /\ pc' = "ask" /\ refused' = {}
        /\ messages' = IF managed THEN results ELSE messages \o Listed({Raw(c) : c \in calls}) \o results
        /\ UNCHANGED <<slots, history, input, todo, deferred, asking, hand, ended, reply>>
    BY <1>2, <1>6 DEF RoundGoesOn
  <2>2. messages' \in Seq(ExchangesOf(Known)) /\ Once(messages') /\ (~managed => Founded(messages'))
    <3>1. CASE managed
      <4>1. results \in Seq(ExchangesOf(Known)) /\ Once(results) BY KindsIn DEF ApprovalInv, TypeInv, BatchInv
      <4> QED BY <2>1, <3>1, <4>1
    <3>2. CASE ~managed
      <4>1. messages' = messages \o Listed({Raw(c) : c \in calls}) \o results BY <2>1, <3>2
      <4>2. PICK raws : raws = Listed({Raw(c) : c \in calls}) OBVIOUS
      <4>3. PICK m : m = messages \o raws \o results OBVIOUS
      <4>4. m \in Seq(ExchangesOf(Known)) /\ Once(m) /\ (~managed => Founded(m)) BY <1>2, <4>2, <4>3, RoundReplayed
      <4> QED BY <4>1, <4>2, <4>3, <4>4
    <3> QED BY <3>1, <3>2
  <2> QED BY <1>2, <2>1, <2>2, GoesOn
<1> QED BY <1>1, <1>4, <1>5, <1>6

-----------------------------------------------------------------------------
(* A turn begins.                                                           *)
LEMMA SaidIs ==
  ASSUME ApprovalInv, NEW S, S \subseteq hand, NEW yes
  PROVE  Listed({Decision(r.call, r \in yes) : r \in S}) \in Seq(DecisionsOf(Known))
<1>1. PICK D : D = {Decision(r.call, r \in yes) : r \in S} OBVIOUS
<1>2. \A r \in S : r.call \in Known BY RequestsFit, KindsIn DEF ApprovalInv, TypeInv
<1>3. D \subseteq DecisionsOf(Known)
  <2>1. ASSUME NEW c \in Known, NEW r PROVE Decision(c, r \in yes) \in DecisionsOf(Known)
    <3>1. (r \in yes) \in BOOLEAN OBVIOUS
    <3>2. \A y \in BOOLEAN : Decision(c, y) \in DecisionsOf(Known) BY DEF DecisionsOf
    <3> QED BY <3>1, <3>2, Zenon
  <2> QED BY <1>1, <1>2, <2>1, Zenon
<1>4. D \subseteq ItemsOf(Known) BY <1>3, KindsIn
<1>5. IsFiniteSet(D) BY <1>4, KnownFinite, ItemsFinite
<1>6. Listed(D) \in Seq(D) BY <1>5, ListedIs
<1>7. PICK l \in Seq(D) : l = Listed(D) BY <1>6
<1>8. l \in Seq(DecisionsOf(Known)) BY <1>3
<1> QED BY <1>1, <1>7, <1>8

LEMMA SceneOfTurn ==
  ASSUME ApprovalInv, NEW said \in Seq(DecisionsOf(Known)), NEW s, s = history \o said
  PROVE  Scene(Known, s, pending, autoApproved) /\ \A c : Told(s, c) <=> Told(history, c)
<1>1. /\ history \in Seq(ItemsOf(Known)) /\ pending \subseteq Requests(Known) /\ autoApproved \subseteq Requests(Known)
      /\ IsFiniteSet(Known) /\ Once(history) /\ Founded(history) /\ NotReasked(history)
  BY KnownFinite DEF ApprovalInv, TypeInv, HistoryInv
<1>2. said \in Seq(ItemsOf(Known)) BY KindsIn
<1>3. PICK l \in Seq(ItemsOf(Known)) : l = history \o said BY <1>1, <1>2, JoinedIs
<1>4. \A p \in 1..Len(said) : said[p].kind = "decision"
  <2>1. \A p \in 1..Len(said) : said[p] \in DecisionsOf(Known) OBVIOUS
  <2> QED BY <2>1, KindsIn
<1>5. /\ Once(said) /\ Rests(said, history) /\ NotReasked(said) /\ \A c : ~Told(said, c)
  BY <1>4, Fields DEF Once, Rests, NotReasked, Told
<1>6. /\ Once(l) /\ Founded(l) /\ NotReasked(l) /\ \A c : Told(l, c) <=> Told(history, c)
  <2>1. /\ \A c : Told(l, c) <=> Told(history, c) \/ Told(said, c)
        /\ Once(history) /\ Once(said) /\ (\A c : ~(Told(history, c) /\ Told(said, c))) => Once(l)
        /\ Founded(history) /\ Rests(said, history) => Founded(l)
        /\ NotReasked(history) /\ NotReasked(said)
             /\ (\A q \in 1..Len(said) : said[q].kind = "request" => ~Told(history, said[q].call)) => NotReasked(l)
    BY <1>1, <1>2, <1>3, JoinedFits
  <2> QED BY <1>1, <1>4, <1>5, <2>1
<1>7. \A r \in pending : ~HeldBack(r) /\ ~Told(l, r.call) BY <1>6 DEF ApprovalInv, BatchInv
<1>8. ASSUME NEW r \in autoApproved
      PROVE  /\ ~Told(l, r.call) /\ \A q \in pending : q.call # r.call
             /\ \A p \in 1..Len(l) : l[p].kind = "request" => l[p].call # r.call
  <2>1. ~Told(history, r.call) /\ NotRequested(r.call) BY DEF ApprovalInv, HistoryInv
  <2>2. ToSet(l) = ToSet(history) \cup ToSet(said) BY <1>1, <1>2, <1>3, JoinedIs
  <2>3. ASSUME NEW p \in 1..Len(l), l[p].kind = "request" PROVE l[p].call # r.call
    <3>1. l[p] \in ToSet(l) BY MemberIs
    <3>2. CASE l[p] \in ToSet(said) BY <1>2, <1>4, <2>3, <3>2, MemberIs
    <3>3. CASE l[p] \in ToSet(history)
      <4>1. PICK q \in 1..Len(history) : history[q] = l[p] BY <1>1, <3>3, MemberIs
      <4> QED BY <2>1, <2>3, <4>1 DEF NotRequested
    <3> QED BY <2>2, <3>1, <3>2, <3>3
  <2> QED BY <1>6, <2>1, <2>3 DEF NotRequested
<1>9. Scene(Known, l, pending, autoApproved) BY <1>1, <1>6, <1>7, <1>8 DEF Scene
<1> QED BY <1>3, <1>6, <1>9

(* What the turn starts from.                                               *)
Begins(s, sent) ==
  /\ pending' = StillPending(s, pending) /\ messages' = Stripped(sent)
  /\ calls' = Calls({d \in Decided(sent) : d.yes}) /\ refused' = Calls({d \in Decided(sent) : ~d.yes})
  /\ asking' = Unanswered(sent) /\ pc' = IF Decided(sent) = {} /\ Unanswered(sent) = {} THEN "ask" ELSE "replay"

LEMMA SendIs ==
  ASSUME ApprovalInv, Send
  PROVE  \E s, sent : /\ input' \in Seq(DecisionsOf(Known)) /\ s = history \o input'
                      /\ sent = BoundDecisions(s, pending) \o Listed({Decision(r.call, TRUE) : r \in autoApproved})
                      /\ Begins(s, sent)
<1>1. PICK S \in SUBSET hand : \E yes \in SUBSET S :
        LET said == Listed({Decision(r.call, r \in yes) : r \in S})
            sent == Prepared(said)
        IN  /\ input' = said
            /\ pending' = StillPending((IF managed THEN <<>> ELSE history) \o said, pending)
            /\ messages' = Stripped(sent)
            /\ calls' = Calls({d \in Decided(sent) : d.yes})
            /\ refused' = Calls({d \in Decided(sent) : ~d.yes})
            /\ asking' = Unanswered(sent)
            /\ pc' = IF Decided(sent) = {} /\ Unanswered(sent) = {} THEN "ask" ELSE "replay"
  BY DEF Send
<1>2. PICK yes \in SUBSET S :
        LET said == Listed({Decision(r.call, r \in yes) : r \in S})
            sent == Prepared(said)
        IN  /\ input' = said
            /\ pending' = StillPending((IF managed THEN <<>> ELSE history) \o said, pending)
            /\ messages' = Stripped(sent)
            /\ calls' = Calls({d \in Decided(sent) : d.yes})
            /\ refused' = Calls({d \in Decided(sent) : ~d.yes})
            /\ asking' = Unanswered(sent)
            /\ pc' = IF Decided(sent) = {} /\ Unanswered(sent) = {} THEN "ask" ELSE "replay"
  BY <1>1
<1>3. PICK said \in Seq(DecisionsOf(Known)) : said = Listed({Decision(r.call, r \in yes) : r \in S}) BY SaidIs
<1>4. (IF managed THEN <<>> ELSE history) = history
  BY DEF ApprovalInv, KeeperInv
<1>5. PICK s : s = history \o said OBVIOUS
<1>6. PICK sent : sent = BoundDecisions(s, pending) \o Listed({Decision(r.call, TRUE) : r \in autoApproved}) OBVIOUS
<1>7. Prepared(said) = sent BY <1>4, <1>5, <1>6 DEF Prepared
<1>8. input' = said /\ Begins(s, sent) BY <1>2, <1>3, <1>4, <1>5, <1>7 DEF Begins
<1> QED BY <1>5, <1>6, <1>8

LEMMA SendKeeps ==
  ASSUME ApprovalInv, Send
  PROVE  ApprovalInv'
<1>0. /\ pc = "idle" /\ todo' = calls' /\ autoApproved' = {} /\ ended' = "none"
      /\ UNCHANGED <<history, results, deferred, handled, hand, made, managed, keeps>>
  BY DEF Send, service
<1>1. Moves /\ Known' = Known BY <1>0, StaysMade
<1>2. PICK s, sent : /\ input' \in Seq(DecisionsOf(Known)) /\ s = history \o input'
                     /\ sent = BoundDecisions(s, pending) \o Listed({Decision(r.call, TRUE) : r \in autoApproved})
                     /\ Begins(s, sent)
  BY SendIs
<1>3. Scene(Known, s, pending, autoApproved) /\ \A c : Told(s, c) <=> Told(history, c) BY <1>2, SceneOfTurn
<1>4. sent \in Seq(ItemsOf(Known)) /\ \E n, from : Tracks(sent, n, s, pending, autoApproved, from)
  BY <1>2, <1>3, SentTracks
<1>5. PICK n, from : Tracks(sent, n, s, pending, autoApproved, from) BY <1>4
<1>6. (\A c : Told(sent, c) <=> Told(s, c)) /\ Once(sent) /\ Founded(sent) /\ NotReasked(sent)
  BY <1>3, <1>4, <1>5, SentFits
<1>7. \A d \in Decided(sent) : d.call \in Known /\ ~Told(history, d.call)
  <2> TAKE d \in Decided(sent)
  <2>1. ~Told(sent, d.call) BY <1>3, <1>4, <1>5, DecidedIsOpen
  <2>2. d.call \in Known BY <1>4, DecidedIs
  <2> QED BY <1>3, <1>6, <2>1, <2>2
<1>8. \A r \in Unanswered(sent) : /\ r \in Requests(Known) /\ ~HeldBack(r) /\ ~Told(history, r.call)
                                  /\ \A d \in Decided(sent) : d.call # r.call
  <2> TAKE r \in Unanswered(sent)
  <2>1. r \in Requests(Known) /\ ~HeldBack(r) /\ ~Told(sent, r.call) /\ \A d \in Decided(sent) : d.call # r.call
    BY <1>4, <1>6, UnansweredIs
  <2> QED BY <1>3, <1>6, <2>1
<1>9. \A r \in StillPending(s, pending) : /\ r \in Requests(Known) /\ ~HeldBack(r) /\ ~Told(history, r.call)
                                          /\ \A d \in Decided(sent) : d.call # r.call
  <2> TAKE r \in StillPending(s, pending)
  <2>1. ~HeldBack(r) /\ ~Told(s, r.call) BY <1>3, PendingStaysOpen
  <2>2. \A d \in Decided(sent) : d.call # r.call BY <1>3, <1>4, <1>5, DecidedNotPending
  <2>3. r \in Requests(Known)
    <3>1. s \in Seq(ItemsOf(Known)) /\ pending \subseteq Requests(Known) BY <1>3 DEF Scene
    <3> QED BY <3>1, RequestsFit
  <2> QED BY <1>3, <2>1, <2>2, <2>3
<1>10. PICK m \in Seq(ItemsOf(Known)) : m = Stripped(sent) BY <1>4, <1>6, StrippedIs
<1>11. m \in Seq(ExchangesOf(Known)) /\ Once(m) /\ Founded(m) /\ \A c : Told(m, c) => Told(history, c)
  <2>1. /\ \A i \in 1..Len(m) : m[i].kind \in {"call", "result"}
        /\ Once(m) /\ Founded(m) /\ \A c : Told(m, c) => Told(sent, c)
    BY <1>4, <1>6, <1>10, StrippedIs
  <2>2. \A i \in 1..Len(m) : m[i] \in ItemsOf(Known) OBVIOUS
  <2>3. \A i \in 1..Len(m) : m[i] \in ExchangesOf(Known) BY <2>1, <2>2, KindsIn
  <2>4. m \in Seq(ExchangesOf(Known)) BY <2>3
  <2> QED BY <1>3, <1>6, <2>1, <2>4
<1>12. /\ pending' = StillPending(s, pending) /\ messages' = m /\ asking' = Unanswered(sent)
       /\ calls' = Calls({d \in Decided(sent) : d.yes}) /\ refused' = Calls({d \in Decided(sent) : ~d.yes})
       /\ pc' = IF Decided(sent) = {} /\ Unanswered(sent) = {} THEN "ask" ELSE "replay"
  BY <1>2, <1>10 DEF Begins
<1>13. /\ \A c \in calls' : \E d \in Decided(sent) : d.call = c /\ d.yes
       /\ \A c \in refused' : \E d \in Decided(sent) : d.call = c /\ ~d.yes
  BY <1>12 DEF Calls
<1>14. calls' \cap refused' = {}
  <2> SUFFICES ASSUME NEW c \in calls', c \in refused' PROVE FALSE OBVIOUS
  <2>1. PICK d \in Decided(sent) : d.call = c /\ d.yes BY <1>13
  <2>2. PICK e \in Decided(sent) : e.call = c /\ ~e.yes BY <1>13
  <2>3. e = d BY <1>4, <2>1, <2>2, DecidedIs
  <2> QED BY <2>1, <2>2, <2>3
<1>15. calls' \subseteq Known /\ refused' \subseteq Known BY <1>7, <1>13
<1>16. /\ results = <<>> /\ deferred = {} /\ handled = <<>> BY <1>0 DEF ApprovalInv, StageInv
<1>17. MadeInv' BY <1>1 DEF Moves
<1>18. TypeInv'
  <2>1. history' \in Seq(ItemsOf(Known)) /\ handled' \in Seq(ExchangesOf(Known)) /\ results' \in Seq(ResultsOf(Known))
    BY <1>0 DEF ApprovalInv, TypeInv
  <2>2. hand' \subseteq Requests(Known) BY <1>0 DEF ApprovalInv, TypeInv
  <2>3. pending' \subseteq Requests(Known) /\ asking' \subseteq Requests(Known) BY <1>8, <1>9, <1>12
  <2>4. pc' \in {"idle", "replay", "ask", "round"} BY <1>12
  <2> QED BY <1>0, <1>1, <1>2, <1>11, <1>12, <1>15, <1>16, <2>1, <2>2, <2>3, <2>4 DEF TypeInv
<1>19. KeeperInv' BY <1>0 DEF ApprovalInv, KeeperInv
<1>20. StageInv'
  <2>1. pc' = "ask" => calls' = {} /\ refused' = {} /\ asking' = {} BY <1>12, <1>13
  <2>2. pc' \in {"ask", "replay"} BY <1>12
  <2> QED BY <1>0, <1>16, <2>1, <2>2 DEF StageInv
<1>21. \A c : ~Told(<<>>, c)
  <2>1. Len(<<>>) = 0 OBVIOUS
  <2> QED BY <2>1 DEF Told
<1>22. Once(<<>>) /\ Founded(<<>>)
  <2>1. Len(<<>>) = 0 OBVIOUS
  <2> QED BY <2>1 DEF Once, Founded
<1>23. BatchInv'
  <2>1. \A c \in calls' \cup refused' : ~Told(history', c) /\ ~Told(handled', c) /\ ~Told(messages', c)
    BY <1>0, <1>7, <1>11, <1>12, <1>13, <1>16, <1>21
  <2>2. \A r \in pending' \cup asking' :
           r.call \notin calls' \cup refused' /\ ~Told(history', r.call) /\ ~Told(handled', r.call) /\ ~HeldBack(r)
    BY <1>0, <1>8, <1>9, <1>12, <1>13, <1>16, <1>21
  <2> QED BY <1>0, <1>14, <1>16, <1>21, <1>22, <2>1, <2>2 DEF BatchInv
<1>24. HistoryInv'
  <2>1. Once(history') /\ Founded(history') /\ NotReasked(history') BY <1>0 DEF ApprovalInv, HistoryInv
  <2>2. Len(<<>>) = 0 OBVIOUS
  <2>3. pc' # "round" BY <1>12
  <2> QED BY <1>0, <1>16, <1>21, <1>22, <2>1, <2>2, <2>3 DEF HistoryInv
<1>25. MessagesInv' BY <1>11, <1>12 DEF MessagesInv
<1>26. EndsOnAnAnswer' BY <1>0 DEF EndsOnAnAnswer
<1> QED BY <1>17, <1>18, <1>19, <1>20, <1>23, <1>24, <1>25, <1>26 DEF ApprovalInv

-----------------------------------------------------------------------------
(* The model asks for calls it never made before.                           *)
LEMMA MoreKinds ==
  ASSUME NEW K, NEW L, K \subseteq L
  PROVE  /\ ItemsOf(K) \subseteq ItemsOf(L) /\ DecisionsOf(K) \subseteq DecisionsOf(L)
         /\ ResultsOf(K) \subseteq ResultsOf(L) /\ ExchangesOf(K) \subseteq ExchangesOf(L)
         /\ Requests(K) \subseteq Requests(L)
BY DEF ItemsOf, DecisionsOf, ResultsOf, ExchangesOf, Requests

LEMMA ToldIsKnown ==
  ASSUME NEW K, NEW s \in Seq(ItemsOf(K)), NEW c, Told(s, c)
  PROVE  c \in K
<1>1. PICK p \in 1..Len(s) : s[p] = ResultOf(c) BY DEF Told
<1>2. s[p] \in ItemsOf(K) OBVIOUS
<1> QED BY <1>1, <1>2, ItemIs, Fields

LEMMA RangeFinite ==
  ASSUME NEW T, NEW s \in Seq(T)
  PROVE  IsFiniteSet(ToSet(s))
<1> DEFINE f == [n \in 1..Len(s) |-> s[n]]
<1>2. DOMAIN s = 1..Len(s) /\ Len(s) \in Nat OBVIOUS
<1>3. IsFiniteSet(1..Len(s)) BY <1>2, FS_Interval
<1>4. f \in [1..Len(s) -> ToSet(s)] BY <1>2 DEF ToSet
<1>5. \A c \in ToSet(s) : \E n \in 1..Len(s) : f[n] = c BY <1>2 DEF ToSet
<1>6. f \in Surjection(1..Len(s), ToSet(s)) BY <1>4, <1>5 DEF Surjection
<1> QED BY <1>3, <1>6, FS_Surjection

(* N is what the model asks for in addition.                                *)
Fresh(N) ==
  /\ IsFiniteSet(N) /\ N \cap Known = {} /\ Known' = Known \cup N /\ Moves
  /\ Len(made) <= Len(made') /\ \A c \in N : c.no > Len(made)
  /\ \A c, d \in N : c.id = d.id => c = d

LEMMA NewCallsAre ==
  ASSUME ApprovalInv, NEW S \in SUBSET Ids, NEW tool \in [S -> Tools], NEW new, new = NewCalls(S, tool),
         Len(made \o new) <= MaxCalls, made' = made \o new, managed' = (managed \/ keeps), keeps' = keeps
  PROVE  Fresh(ToSet(new)) /\ \A c \in ToSet(new) : c.id \in S
<1>1. IsFiniteSet(S) BY IdsAssumption, FS_Subset
<1>2. PICK ids \in Seq(S) : ids = Listed(S) /\ \A i, j \in DOMAIN ids : ids[i] = ids[j] => i = j BY <1>1, ListedIs
<1>3. DOMAIN ids = 1..Len(ids) /\ Len(ids) \in Nat /\ \A i \in 1..Len(ids) : ids[i] \in S OBVIOUS
<1>4. new = [i \in 1..Len(ids) |-> [id |-> ids[i], tool |-> tool[ids[i]], no |-> Len(made) + i]]
  BY <1>2, <1>3 DEF NewCalls
<1>5. made \in Seq(Call) /\ Len(made) \in Nat /\ \A n \in 1..Len(made) : made[n].no = n
  BY DEF ApprovalInv, MadeInv
<1>6. PICK T : T = [id : Ids, tool : Tools, no : Nat] OBVIOUS
<1>7. /\ new \in Seq(T) /\ Len(new) = Len(ids)
      /\ \A i \in 1..Len(ids) : new[i] \in [id : Ids, tool : Tools, no : Nat] /\ new[i].no = Len(made) + i
  <2>1. ASSUME NEW i \in 1..Len(ids)
        PROVE  new[i] \in [id : Ids, tool : Tools, no : Nat] /\ new[i].no = Len(made) + i
    <3>1. ids[i] \in Ids /\ tool[ids[i]] \in Tools /\ Len(made) + i \in Nat BY <1>3, <1>5
    <3> QED BY <1>4, <3>1
  <2>2. new \in [1..Len(ids) -> T] BY <1>4, <1>6, <2>1
  <2>3. new \in Seq(T) BY <1>3, <2>2
  <2>4. DOMAIN new = 1..Len(ids) BY <1>4
  <2> QED BY <1>3, <2>1, <2>3, <2>4
<1>8. made \in Seq(T)
  <2>1. Nos \subseteq Nat BY BoundsAssumption DEF Nos
  <2>2. Call \subseteq T BY <1>6, <2>1 DEF Call
  <2> QED BY <1>5, <2>2
<1>9. Len(made \o new) = Len(made) + Len(ids)
  <2>1. \A x, y \in Seq(T) : Len(x \o y) = Len(x) + Len(y) BY ConcatProperties
  <2> QED BY ONLY <1>7, <1>8, <2>1
<1>10. \A i \in 1..Len(ids) : new[i] \in Call
  <2> TAKE i \in 1..Len(ids)
  <2>1. Len(made) + i \in Nos BY <1>3, <1>5, <1>9, BoundsAssumption DEF Nos
  <2> QED BY <1>7, <2>1 DEF Call
<1>11. new \in Seq(Call) BY <1>7, <1>10
<1>12. PICK all \in Seq(Call) : all = made \o new BY <1>5, <1>11, JoinedIs
<1>13. /\ Len(all) = Len(made) + Len(new) /\ \A i \in 1..Len(made) : all[i] = made[i]
       /\ \A j \in 1..Len(new) : all[Len(made) + j] = new[j]
       /\ \A k \in 1..Len(all) : k \in 1..Len(made) \/ \E j \in 1..Len(new) : k = Len(made) + j
       /\ ToSet(all) = ToSet(made) \cup ToSet(new)
  BY <1>5, <1>11, <1>12, JoinedIs
<1>14. made' = all BY <1>12
<1>15. MadeInv'
  <2>1. ASSUME NEW k \in 1..Len(all) PROVE all[k].no = k
    <3>1. CASE k \in 1..Len(made) BY <1>5, <1>13, <3>1
    <3>2. CASE k \notin 1..Len(made)
      <4>1. PICK j \in 1..Len(new) : k = Len(made) + j BY <1>13, <3>2
      <4>2. all[k] = new[j] /\ new[j].no = Len(made) + j BY <1>7, <1>13, <4>1
      <4> QED BY <4>1, <4>2
    <3> QED BY <3>1, <3>2
  <2> QED BY <1>14, <2>1 DEF MadeInv
<1>16. Known = ToSet(made) /\ Known' = ToSet(all) BY <1>14 DEF Known, ToSet
<1>17. Known' = Known \cup ToSet(new) BY <1>13, <1>16
<1>18. Known \cap ToSet(new) = {}
  <2> SUFFICES ASSUME NEW c \in Known, c \in ToSet(new) PROVE FALSE OBVIOUS
  <2>1. PICK n \in 1..Len(made) : made[n] = c BY <1>5, <1>16, MemberIs
  <2>2. PICK i \in 1..Len(new) : new[i] = c BY <1>11, MemberIs
  <2>3. n = Len(made) + i /\ i > 0 BY <1>3, <1>5, <1>7, <2>1, <2>2
  <2> QED BY <1>3, <1>5, <1>7, <2>3
<1>19. Moves
  <2>1. managed' => keeps' BY DEF ApprovalInv, KeeperInv
  <2> QED BY <1>15, <1>17, <2>1 DEF Moves
<1>20. IsFiniteSet(ToSet(new)) BY <1>11, RangeFinite
<1>21. \A c \in ToSet(new) : \E i \in 1..Len(ids) : c = new[i] BY <1>7, <1>11, MemberIs
<1>22. \A i \in 1..Len(ids) : new[i].id = ids[i] /\ ids[i] \in S /\ new[i].no > Len(made)
  BY <1>3, <1>4, <1>5
<1>23. \A c \in ToSet(new) : c.no > Len(made) /\ c.id \in S BY <1>21, <1>22, ZenonT(60)
<1>24. \A c, d \in ToSet(new) : c.id = d.id => c = d BY <1>2, <1>3, <1>21, <1>22, SMTT(30)
<1>25. Len(made) <= Len(made') BY <1>5, <1>11, <1>13, <1>14
<1> QED BY <1>17, <1>18, <1>19, <1>20, <1>23, <1>24, <1>25 DEF Fresh

-----------------------------------------------------------------------------
(* What has passed the layer, followed by new calls or requests for them.   *)
News(K, N, a) ==
  /\ a \in Seq(ItemsOf(K))
  /\ \A p \in 1..Len(a) : a[p].call \in N /\ (a[p] = Raw(a[p].call) \/ a[p] = Request(a[p].call, FALSE))
Asked(K, a, u) ==
  /\ u \in Seq(ItemsOf(K)) /\ u = handled \o a /\ Ending(u)
  /\ \A c : Told(u, c) <=> Told(handled, c)
  /\ ToSet(u) = ToSet(handled) \cup ToSet(a)
  /\ \A p \in 1..Len(u) :
       \/ u[p].kind \in {"call", "result"} /\ u[p] \in ToSet(handled) /\ Told(u, u[p].call)
       \/ u[p] \in ToSet(a)

LEMMA AskedIs ==
  ASSUME ApprovalInv, pc = "ask", NEW N, Fresh(N), NEW a, News(Known', N, a)
  PROVE  \E u : Asked(Known', a, u)
<1>1. /\ handled \in Seq(ItemsOf(Known)) /\ Ending(handled)
      /\ \A p \in 1..Len(handled) : handled[p].kind \in {"call", "result"} /\ handled[p].call \in Known
  BY HandledEnds
<1>2. PICK K : K = Known' OBVIOUS
<1>3. Known \subseteq K /\ ItemsOf(Known) \subseteq ItemsOf(K) BY <1>2, MoreItems DEF Fresh
<1>4. handled \in Seq(ItemsOf(K)) /\ a \in Seq(ItemsOf(K)) BY <1>1, <1>2, <1>3 DEF News
<1>5. \A p \in 1..Len(a) : /\ a[p].call \in N /\ a[p].kind \in {"call", "request"}
                           /\ a[p].kind = "request" => a[p] = Request(a[p].call, FALSE)
  <2> TAKE p \in 1..Len(a)
  <2>1. PICK c \in N : c = a[p].call /\ (a[p] = Raw(c) \/ a[p] = Request(c, FALSE)) BY DEF News
  <2>2. Raw(c).kind = "call" /\ Request(c, FALSE).kind = "request" BY DEF Raw, Request, Item
  <2> QED BY <2>1, <2>2
<1>6. Once(a) /\ Rests(a, handled) /\ \A c : ~Told(a, c) BY <1>5, Fields DEF Once, Rests, Told
<1>7. PICK u \in Seq(ItemsOf(K)) : u = handled \o a BY <1>4, JoinedIs
<1>8. Once(u) /\ Founded(u) /\ \A c : Told(u, c) <=> Told(handled, c)
  <2>1. /\ \A c : Told(u, c) <=> Told(handled, c) \/ Told(a, c)
        /\ Once(handled) /\ Once(a) /\ (\A c : ~(Told(handled, c) /\ Told(a, c))) => Once(u)
        /\ Founded(handled) /\ Rests(a, handled) => Founded(u)
    BY <1>4, <1>7, JoinedFits
  <2> QED BY <1>1, <1>6, <2>1 DEF Ending
<1>9. ToSet(u) = ToSet(handled) \cup ToSet(a) BY <1>4, <1>7, JoinedIs
<1>10. \A p \in 1..Len(handled) : Told(handled, handled[p].call)
  <2>1. calls = {} BY DEF ApprovalInv, StageInv
  <2> QED BY <2>1 DEF ApprovalInv, HistoryInv
<1>11. ASSUME NEW p \in 1..Len(u)
       PROVE  \/ u[p].kind \in {"call", "result"} /\ u[p] \in ToSet(handled) /\ Told(u, u[p].call)
              \/ u[p] \in ToSet(a) /\ \E q \in 1..Len(a) : u[p] = a[q]
  <2>1. u[p] \in ToSet(u) BY MemberIs
  <2>2. CASE u[p] \in ToSet(a) BY <1>4, <2>2, MemberIs
  <2>3. CASE u[p] \in ToSet(handled)
    <3>1. PICK q \in 1..Len(handled) : handled[q] = u[p] BY <1>1, <2>3, MemberIs
    <3> QED BY <1>1, <1>8, <1>10, <2>3, <3>1
  <2> QED BY <1>9, <2>1, <2>2, <2>3
<1>12. ASSUME NEW p \in 1..Len(u), u[p].kind = "request"
       PROVE  u[p].call \in N /\ u[p] = Request(u[p].call, FALSE)
  BY <1>5, <1>11, <1>12
<1>13. \A c \in N : c \notin Known /\ ~Told(history, c) /\ ~Told(handled, c) /\ NotRequested(c)
  <2> TAKE c \in N
  <2>1. c \notin Known BY DEF Fresh
  <2>2. history \in Seq(ItemsOf(Known)) /\ pending \subseteq Requests(Known) BY DEF ApprovalInv, TypeInv
  <2>3. ~Told(history, c) /\ ~Told(handled, c) BY <1>1, <2>1, <2>2, ToldIsKnown
  <2>4. \A q \in 1..Len(history) : history[q].call # c
    <3>1. \A q \in 1..Len(history) : history[q] \in ItemsOf(Known) BY <2>2
    <3> QED BY <2>1, <3>1, ItemIs
  <2>5. \A r \in pending : r.call # c BY <2>1, <2>2, KindsIn
  <2> QED BY <2>1, <2>3, <2>4, <2>5 DEF NotRequested
<1>14. Ending(u)
  <2>1. \A c : Told(u, c) => ~Told(history, c) BY <1>1, <1>8 DEF Ending
  <2>2. \A p \in 1..Len(u) : u[p].kind = "request" => ~Told(history, u[p].call) /\ ~Told(u, u[p].call)
    BY <1>8, <1>12, <1>13
  <2>3. \A r \in pending : ~Told(u, r.call) BY <1>1, <1>8 DEF Ending
  <2>4. \A p \in 1..Len(u) : HeldBack(u[p]) =>
       /\ NotRequested(u[p].call)
       /\ \A q \in 1..Len(u) : u[q].kind = "request" /\ ~HeldBack(u[q]) => u[q].call # u[p].call
    <3> TAKE p \in 1..Len(u)
    <3> HAVE HeldBack(u[p])
    <3>1. u[p].kind = "request" BY KindsIn
    <3>2. u[p] = Request(u[p].call, FALSE) /\ NotRequested(u[p].call) BY <1>12, <1>13, <3>1
    <3>3. \A q \in 1..Len(u) : u[q].kind = "request" => u[q] = Request(u[q].call, FALSE) BY <1>12
    <3>4. ASSUME NEW q \in 1..Len(u), u[q].kind = "request", u[q].call = u[p].call PROVE HeldBack(u[q])
      <4>1. u[q] = u[p] BY <3>2, <3>3, <3>4
      <4> QED BY <4>1
    <3> QED BY <3>2, <3>4
  <2> QED BY <1>8, <2>1, <2>2, <2>3, <2>4 DEF Ending
<1>15. Asked(K, a, u) BY <1>7, <1>8, <1>9, <1>11, <1>14 DEF Asked
<1> QED BY <1>2, <1>15

-----------------------------------------------------------------------------
(* One update for each call comes to all the calls.                         *)
Streams(K, N, us, a) ==
  /\ us = RawUpdates(N) /\ Updates(ItemsOf(K), us) /\ Len(us) = Cardinality(N)
  /\ a = FirstOf(us, Len(us)) /\ News(K, N, a) /\ ToSet(a) = {Raw(c) : c \in N}

LEMMA RawUpdatesAre ==
  ASSUME NEW K, NEW N, IsFiniteSet(N), N \subseteq K
  PROVE  \E us, a : Streams(K, N, us, a)
<1>1. PICK cs \in Seq(N) : cs = Listed(N) /\ ToSet(cs) = N /\ Len(cs) = Cardinality(N) BY ListedIs
<1>2. DOMAIN cs = 1..Len(cs) /\ Len(cs) \in Nat /\ \A i \in 1..Len(cs) : cs[i] \in N OBVIOUS
<1>3. PICK T : T = ItemsOf(K) OBVIOUS
<1>4. \A i \in 1..Len(cs) : Raw(cs[i]) \in T BY <1>2, <1>3 DEF ItemsOf
<1>5. PICK us : us = [i \in 1..Len(cs) |-> <<Raw(cs[i])>>] OBVIOUS
<1>6. us = RawUpdates(N) BY <1>1, <1>2, <1>5 DEF RawUpdates
<1>7. us \in Seq(Seq(T)) /\ Len(us) = Len(cs) /\ \A i \in 1..Len(us) : us[i] = <<Raw(cs[i])>>
  <2>1. \A i \in 1..Len(cs) : us[i] \in Seq(T) /\ us[i] = <<Raw(cs[i])>>
    <3> TAKE i \in 1..Len(cs)
    <3>1. us[i] = <<Raw(cs[i])>> BY <1>5
    <3> QED BY <1>4, <3>1
  <2>2. us \in [1..Len(cs) -> Seq(T)] BY <1>5, <2>1
  <2>3. DOMAIN us = 1..Len(cs) BY <1>5
  <2>4. us \in Seq(Seq(T)) BY <1>2, <2>2
  <2> QED BY <1>2, <2>1, <2>3, <2>4
<1>8. Updates(T, us) BY <1>7 DEF Updates
<1> DEFINE Good(k) == Len(FirstOf(us, k)) = k /\ \A i \in 1..k : FirstOf(us, k)[i] = Raw(cs[i])
           Bad == {k \in 0..Len(us) : ~Good(k)}
<1>9. Bad = {}
  <2> SUFFICES ASSUME Bad # {} PROVE FALSE OBVIOUS
  <2>0. Bad # {} /\ Bad \subseteq Nat BY <1>2, <1>7
  <2>1. PICK k \in Bad : \A m \in Bad : k <= m BY ONLY <2>0, LeastNat
  <2>2. k \in 0..Len(us) /\ ~Good(k) /\ k \in Nat BY <1>2, <1>7, <2>1
  <2>3. CASE k = 0
    <3>1. SubSeq(us, 1, 0) = <<>> BY SubSeqEmpty, SMTT(30)
    <3>2. FirstOf(us, 0) = <<>> BY <3>1 DEF FirstOf, FlattenSeq
    <3>3. Len(<<>>) = 0 OBVIOUS
    <3>4. Good(0) BY <3>2, <3>3
    <3> QED BY <2>2, <2>3, <3>4
  <2>4. CASE k # 0
    <3>1. k - 1 \in 0..Len(us) /\ ~(k <= k - 1) /\ k \in 1..Len(us) BY <1>2, <1>7, <2>2, <2>4
    <3>2. Good(k - 1) BY <2>1, <3>1
    <3>3. Step(T, us, k) BY <1>8, <3>1, FirstOfIs
    <3>4. PICK b \in Seq(T) : b = FirstOf(us, k - 1) BY <3>3 DEF Step
    <3>5. FirstOf(us, k) = b \o <<Raw(cs[k])>> BY <1>7, <3>1, <3>3, <3>4 DEF Step
    <3>6. Len(b) = k - 1 /\ \A i \in 1..(k - 1) : b[i] = Raw(cs[i]) BY <3>2, <3>4
    <3>7. PICK x : x = Raw(cs[k]) OBVIOUS
    <3>8. x \in T BY <1>4, <1>7, <3>1, <3>7
    <3>9. PICK c \in Seq(T) : c = b \o <<x>>
      <4>0. <<x>> \in Seq(T) BY ONLY <3>8
      <4>1. PICK y \in Seq(T) : y = <<x>> BY <4>0
      <4> QED BY <4>1, JoinedIs
    <3>10. Len(c) = k /\ (\A i \in 1..(k - 1) : c[i] = b[i]) /\ c[k] = x
      BY <2>2, <2>4, <3>6, <3>8, <3>9
    <3>11. \A i \in 1..k : c[i] = Raw(cs[i])
      <4> TAKE i \in 1..k
      <4>1. i = k \/ i \in 1..(k - 1) BY <2>2
      <4> QED BY <3>6, <3>7, <3>10, <4>1
    <3>12. FirstOf(us, k) = c BY <3>5, <3>7, <3>9
    <3>13. Good(k) BY <3>10, <3>11, <3>12
    <3> QED BY <2>2, <3>13
  <2> QED BY <2>3, <2>4
<1>10. Len(us) \in 0..Len(us) BY <1>2, <1>7
<1>11. Good(Len(us)) BY <1>9, <1>10
<1>12. PICK a \in Seq(T) : a = FirstOf(us, Len(us)) BY <1>8, <1>10, FirstOfStarts
<1>13. Len(a) = Len(us) /\ \A i \in 1..Len(a) : a[i] = Raw(cs[i]) BY <1>11, <1>12
<1> HIDE DEF Good, Bad
<1>14. \A p \in 1..Len(a) : a[p].call \in N /\ a[p] = Raw(a[p].call)
  <2> TAKE p \in 1..Len(a)
  <2>1. PICK c \in N : c = cs[p] /\ a[p] = Raw(c) BY <1>2, <1>7, <1>13
  <2>2. Raw(c).call = c BY Fields
  <2> QED BY <2>1, <2>2
<1>15. News(K, N, a) BY <1>3, <1>12, <1>14 DEF News
<1>16. ToSet(a) = {Raw(c) : c \in N}
  <2>1. ASSUME NEW x \in ToSet(a) PROVE x \in {Raw(c) : c \in N}
    <3>1. PICK p \in 1..Len(a) : a[p] = x BY MemberIs
    <3> QED BY <1>14, <3>1
  <2>2. ASSUME NEW c \in N PROVE Raw(c) \in ToSet(a)
    <3>1. PICK p \in 1..Len(cs) : cs[p] = c BY <1>1, MemberIs
    <3>2. p \in 1..Len(a) /\ a[p] = Raw(c) BY <1>7, <1>13, <3>1
    <3> QED BY <3>2, MemberIs
  <2> QED BY <2>1, <2>2
<1>17. Streams(K, N, us, a) BY <1>1, <1>3, <1>6, <1>7, <1>8, <1>12, <1>15, <1>16 DEF Streams
<1> QED BY <1>17

-----------------------------------------------------------------------------
(* How the request ends the turn: with some of what it came to, or all.     *)
AskStops(N, how, items, a, u) ==
  /\ Ends(how, items) /\ News(Known', N, a) /\ Asked(Known', a, u)
  /\ StartsWith(u, items) /\ ToSet(handled) \subseteq ToSet(items)
LEMMA AskIsCut ==
  ASSUME ApprovalInv, NEW N, Fresh(N), NEW us, Updates(ItemsOf(Known'), us), NEW a, News(Known', N, a),
         NEW u, Asked(Known', a, u), handled \o FirstOf(us, Len(us)) = u, Cut(us)
  PROVE  \E how, items, e, w : AskStops(N, how, items, e, w)
<1>1. Moves /\ Ending(handled \o FirstOf(us, Len(us))) BY DEF Fresh, Asked
<1>2. PICK how, items, k : CutAt(us, how, items, k) BY <1>1, CutEnds
<1>3. Ends(how, items) /\ StartsWith(u, items) /\ ToSet(handled) \subseteq ToSet(items) BY <1>2 DEF CutAt
<1>4. AskStops(N, how, items, a, u) BY <1>3 DEF AskStops
<1> QED BY <1>4

LEMMA AskIsDone ==
  ASSUME NEW N, NEW a, News(Known', N, a), NEW u, Asked(Known', a, u), End("done", u), Leads(u)
  PROVE  \E how, items, e, w : AskStops(N, how, items, e, w)
<1>1. u \in Seq(ItemsOf(Known')) /\ Ending(u) /\ ToSet(handled) \subseteq ToSet(u) BY DEF Asked
<1>2. Ends("done", u) BY <1>1 DEF Ends
<1>3. StartsWith(u, u)
  <2>1. Len(u) \in Nat BY <1>1
  <2> QED BY <2>1 DEF StartsWith
<1>4. AskStops(N, "done", u, a, u) BY <1>1, <1>2, <1>3 DEF AskStops
<1> QED BY <1>4

(* The last request of a turn, and a round that waits for a human.          *)
LEMMA FinalAnswerIs ==
  ASSUME ApprovalInv, pc = "ask", NEW N, Fresh(N), NEW rest, FinalAnswer(N, rest)
  PROVE  \E how, e, w : AskStops(N, how, handled, e, w)
<1>1. Moves /\ ItemsOf(Known) \subseteq ItemsOf(Known') BY MoreItems DEF Fresh
<1>2. PICK how \in {"done", "failed", "abandoned"} : End(how, handled) BY DEF FinalAnswer
<1>3. handled \in Seq(ItemsOf(Known)) /\ Ending(handled) BY HandledEnds
<1>4. handled \in Seq(ItemsOf(Known')) BY <1>1, <1>3
<1>5. Leads(handled)
  <2>1. calls = {} BY DEF ApprovalInv, StageInv
  <2> QED BY <2>1 DEF ApprovalInv, HistoryInv, Leads
<1>6. Ends(how, handled) BY <1>2, <1>3, <1>4, <1>5 DEF Ends
<1>7. PICK e \in Seq(ItemsOf(Known')) : e = <<>>
  <2>1. \A T : <<>> \in Seq(T) OBVIOUS
  <2> QED BY <2>1
<1>8. News(Known', N, e) BY <1>7 DEF News
<1>9. PICK w : Asked(Known', e, w) BY <1>8, AskedIs
<1>10. w = handled BY <1>4, <1>7, <1>9, ConcatEmptySeq DEF Asked
<1>11. StartsWith(w, handled)
  <2>1. Len(handled) \in Nat BY <1>3
  <2> QED BY <1>10, <2>1 DEF StartsWith
<1>12. AskStops(N, how, handled, e, w) BY <1>6, <1>8, <1>9, <1>11 DEF AskStops
<1> QED BY <1>12

LEMMA ReleaseIs ==
  ASSUME ApprovalInv, pc = "ask", NEW N, Fresh(N), NEW rest, ReleaseAsApprovals(N, rest)
  PROVE  \E how, items, e, w : AskStops(N, how, items, e, w)
<1>1. Moves /\ IsFiniteSet(N) /\ N \subseteq Known' BY DEF Fresh
<1>2. PICK R : R = {Request(c, FALSE) : c \in N} OBVIOUS
<1>3. R \subseteq Requests(Known')
  <2>1. FALSE \in BOOLEAN OBVIOUS
  <2>2. \A c \in Known' : \A m \in BOOLEAN : Request(c, m) \in Requests(Known') BY DEF Requests
  <2>3. \A c \in N : Request(c, FALSE) \in Requests(Known') BY <1>1, <2>1, <2>2, Zenon
  <2> QED BY <1>2, <2>3
<1>4. IsFiniteSet(R)
  <2>1. IsFiniteSet(Known') BY KnownFinite, FS_Union DEF Fresh
  <2> QED BY <1>3, <2>1, KindsIn, ItemsFinite
<1>5. PICK l \in Seq(R) : l = Listed(R) /\ ToSet(l) = R BY <1>4, ListedIs
<1>6. l \in Seq(ItemsOf(Known')) BY <1>3, KindsIn
<1>7. \A p \in 1..Len(l) : l[p].call \in N /\ l[p] = Request(l[p].call, FALSE)
  <2> TAKE p \in 1..Len(l)
  <2>1. l[p] \in R OBVIOUS
  <2>2. PICK c \in N : l[p] = Request(c, FALSE) BY <1>2, <2>1
  <2>3. Request(c, FALSE).call = c BY DEF Request, Item
  <2> QED BY <2>2, <2>3
<1>8. News(Known', N, l) BY <1>6, <1>7 DEF News
<1>9. PICK u : Asked(Known', l, u) BY <1>8, AskedIs
<1>10. PICK us : us = <<l>> OBVIOUS
<1>11. Updates(ItemsOf(Known'), us) /\ FirstOf(us, Len(us)) = l /\ Len(us) = 1
  <2>1. Updates(ItemsOf(Known'), <<>>) BY DEF Updates
  <2>2. UpToTwo(ItemsOf(Known'), l, l) BY <1>6, <2>1, FlattenJoined
  <2>3. Len(<<l>>) = 1 OBVIOUS
  <2> QED BY <1>10, <2>2, <2>3 DEF UpToTwo
<1>12. handled \o FirstOf(us, Len(us)) = u BY <1>9, <1>11 DEF Asked
<1>13. Passed(us, 1) = u BY <1>11, <1>12 DEF Passed, FirstOf
<1>14. Cut(us) \/ End("done", u) BY <1>2, <1>5, <1>10, <1>13 DEF ReleaseAsApprovals
<1>16. CASE Cut(us) BY <1>8, <1>9, <1>11, <1>12, <1>16, AskIsCut
<1>17. CASE End("done", u)
  <2>1. \A p \in 1..Len(u) : u[p].kind = "call" => Told(u, u[p].call)
    <3> TAKE p \in 1..Len(u)
    <3> HAVE u[p].kind = "call"
    <3>1. u[p] \notin ToSet(l)
      <4>1. \A i \in ToSet(l) : i.kind = "request" BY <1>3, <1>5, KindsIn
      <4> QED BY <4>1
    <3> QED BY <1>9, <3>1 DEF Asked
  <2>2. Leads(u) BY <2>1 DEF Leads
  <2> QED BY <1>8, <1>9, <1>17, <2>2, AskIsDone
<1> QED BY <1>14, <1>16, <1>17

(* A round that is left to the caller.                                      *)
LEMMA HandIs ==
  ASSUME ApprovalInv, pc = "ask", NEW N, Fresh(N), NEW rest, HandToCaller(N, rest)
  PROVE  \E how, items, e, w : AskStops(N, how, items, e, w)
<1>1. Moves /\ IsFiniteSet(N) /\ N \subseteq Known' BY DEF Fresh
<1>2. PICK us, a : Streams(Known', N, us, a) BY <1>1, RawUpdatesAre
<1>3. PICK u : Asked(Known', a, u) BY <1>2, AskedIs DEF Streams
<1>4. handled \o FirstOf(us, Len(us)) = u /\ Ending(u) BY <1>2, <1>3 DEF Streams, Asked
<1>5. Passed(us, Cardinality(N)) = u BY <1>2, <1>4 DEF Passed, FirstOf, Streams
<1>6. (Cut(us) \/ End("done", u)) /\ StopsLoop(N) BY <1>2, <1>5 DEF HandToCaller, Streams
<1>7. CASE Cut(us) BY <1>2, <1>3, <1>4, <1>7, AskIsCut DEF Streams
<1>8. CASE End("done", u)
  <2>1. u \in Seq(ItemsOf(Known')) /\ ToSet(u) = ToSet(handled) \cup ToSet(a) BY <1>3 DEF Asked
  <2>2. ToSet(a) = {Raw(c) : c \in N} BY <1>2 DEF Streams
  <2>3. Leads(u)
    <3>1. CASE N = {}
      <4>1. \A p \in 1..Len(u) : u[p].kind = "call" => Told(u, u[p].call) BY <1>3, <2>2, <3>1 DEF Asked
      <4> QED BY <4>1 DEF Leads
    <3>2. CASE N # {}
      <4>1. PICK c \in N : LeftToCaller(c) BY <1>6, <3>2 DEF StopsLoop, LeftToCaller
      <4>2. Raw(c) \in ToSet(u) BY <2>1, <2>2
      <4>3. PICK q \in 1..Len(u) : u[q] = Raw(c) BY <2>1, <4>2, MemberIs
      <4>4. u[q].kind = "call" /\ u[q].call = c BY <4>3, Fields
      <4> QED BY <4>1, <4>4 DEF Leads
    <3> QED BY <3>1, <3>2
  <2>4. News(Known', N, a) BY <1>2 DEF Streams
  <2> QED BY <1>3, <1>8, <2>3, <2>4, AskIsDone
<1> QED BY <1>6, <1>7, <1>8

-----------------------------------------------------------------------------
(* A round that is executed.                                                *)
LEMMA StartsRound ==
  ASSUME ApprovalInv, pc = "ask", NEW N, Fresh(N), NEW a, News(Known', N, a), ToSet(a) = {Raw(c) : c \in N},
         NEW u, Asked(Known', a, u), handled' = u, calls' = N, todo' = N, pc' = "round",
         managed \/ keeps => managed',
         UNCHANGED <<slots, history, input, messages, refused, results, deferred, asking, hand, ended, reply>>
  PROVE  ApprovalInv'
<1>0. pending' = pending /\ autoApproved' = autoApproved BY DEF slots
<1>1. /\ Moves /\ Known' = Known \cup N /\ N \cap Known = {} /\ Known \subseteq Known' BY DEF Fresh
<1>2. /\ refused = {} /\ results = <<>> /\ deferred = {} /\ asking = {} /\ autoApproved = {} /\ calls = {}
  BY DEF ApprovalInv, StageInv
<1>3. PICK K : K = Known' OBVIOUS
<1>4. /\ ItemsOf(Known) \subseteq ItemsOf(K) /\ DecisionsOf(Known) \subseteq DecisionsOf(K)
      /\ ResultsOf(Known) \subseteq ResultsOf(K) /\ ExchangesOf(Known) \subseteq ExchangesOf(K)
      /\ Requests(Known) \subseteq Requests(K)
  BY <1>1, <1>3, MoreKinds
<1>5. /\ u \in Seq(ItemsOf(K)) /\ Ending(u) /\ (\A c : Told(u, c) <=> Told(handled, c))
      /\ ToSet(u) = ToSet(handled) \cup ToSet(a)
      /\ \A p \in 1..Len(u) : \/ u[p].kind \in {"call", "result"} /\ Told(u, u[p].call)
                              \/ u[p] \in ToSet(a)
  BY <1>3 DEF Asked
<1>6. \A p \in 1..Len(u) : u[p].kind \in {"call", "result"} /\ (Told(u, u[p].call) \/ u[p].call \in N)
  BY <1>5, Fields
<1>7. u \in Seq(ExchangesOf(K))
  <2>1. \A p \in 1..Len(u) : u[p] \in ItemsOf(K) BY <1>5
  <2>2. \A p \in 1..Len(u) : u[p] \in ExchangesOf(K) BY <1>6, <2>1, KindsIn
  <2> QED BY <1>5, <2>2
<1>8. \A c \in N : ~Told(history, c) /\ ~Told(u, c) /\ ~Told(messages, c)
  <2> TAKE c \in N
  <2>1. c \notin Known BY <1>1
  <2>2. /\ history \in Seq(ItemsOf(Known)) /\ messages \in Seq(ExchangesOf(Known)) /\ handled \in Seq(ExchangesOf(Known))
    BY DEF ApprovalInv, TypeInv
  <2>3. messages \in Seq(ItemsOf(Known)) /\ handled \in Seq(ItemsOf(Known)) BY <2>2, KindsIn
  <2> QED BY <1>5, <2>1, <2>2, <2>3, ToldIsKnown
<1>9. MadeInv' BY <1>1 DEF Moves
<1>10. TypeInv'
  <2>1. /\ history \in Seq(ItemsOf(K)) /\ input \in Seq(DecisionsOf(K)) /\ messages \in Seq(ExchangesOf(K))
        /\ results \in Seq(ResultsOf(K)) /\ pending \subseteq Requests(K) /\ autoApproved \subseteq Requests(K)
        /\ deferred \subseteq Requests(K) /\ asking \subseteq Requests(K) /\ hand \subseteq Requests(K)
    BY <1>4 DEF ApprovalInv, TypeInv
  <2>2. N \subseteq K BY <1>1, <1>3
  <2> QED BY <1>0, <1>2, <1>3, <1>7, <2>1, <2>2 DEF TypeInv
<1>11. KeeperInv' BY <1>1 DEF ApprovalInv, KeeperInv, Moves
<1>12. StageInv' BY <1>0, <1>2 DEF StageInv
<1>13. Once(<<>>) /\ \A c : ~Told(<<>>, c)
  <2>1. Len(<<>>) = 0 OBVIOUS
  <2> QED BY <2>1 DEF Once, Told
<1>14. BatchInv'
  <2>1. \A r \in pending : r.call \notin N /\ ~Told(history, r.call) /\ ~Told(u, r.call) /\ ~HeldBack(r)
    <3> TAKE r \in pending
    <3>1. r.call \in Known BY KindsIn DEF ApprovalInv, TypeInv
    <3>2. ~Told(history, r.call) /\ ~Told(handled, r.call) /\ ~HeldBack(r) BY DEF ApprovalInv, BatchInv
    <3> QED BY <1>1, <1>5, <3>1, <3>2
  <2> QED BY <1>0, <1>2, <1>8, <1>13, <2>1 DEF BatchInv
<1>15. HistoryInv'
  <2>1. Once(history) /\ Founded(history) /\ NotReasked(history) BY DEF ApprovalInv, HistoryInv
  <2>2. Once(u) /\ Founded(u) /\ \A c : Told(u, c) => ~Told(history, c) BY <1>5 DEF Ending
  <2>3. \A c \in N : Raw(c) \in ToSet(u) BY <1>5
  <2> QED BY <1>0, <1>2, <1>6, <2>1, <2>2, <2>3 DEF HistoryInv
<1>16. MessagesInv' BY DEF ApprovalInv, MessagesInv
<1>17. EndsOnAnAnswer' BY DEF ApprovalInv, EndsOnAnAnswer
<1> QED BY <1>9, <1>10, <1>11, <1>12, <1>14, <1>15, <1>16, <1>17 DEF ApprovalInv

AskGoesOn(N, a, u) ==
  /\ News(Known', N, a) /\ ToSet(a) = {Raw(c) : c \in N} /\ Asked(Known', a, u)
  /\ handled' = u /\ calls' = N /\ todo' = N /\ pc' = "round"
  /\ UNCHANGED <<slots, history, input, messages, refused, results, deferred, asking, hand, ended, reply>>
LEMMA StartRoundIs ==
  ASSUME ApprovalInv, pc = "ask", NEW N, Fresh(N), NEW rest, StartRound(N, rest)
  PROVE  \/ \E how, items, e, w : AskStops(N, how, items, e, w)
         \/ \E e, w : AskGoesOn(N, e, w)
<1>1. Moves /\ IsFiniteSet(N) /\ N \subseteq Known' BY DEF Fresh
<1>2. PICK us, a : Streams(Known', N, us, a) BY <1>1, RawUpdatesAre
<1>3. PICK u : Asked(Known', a, u) BY <1>2, AskedIs DEF Streams
<1>4. handled \o FirstOf(us, Len(us)) = u /\ Ending(u) BY <1>2, <1>3 DEF Streams, Asked
<1>5. Passed(us, Cardinality(N)) = u BY <1>2, <1>4 DEF Passed, FirstOf, Streams
<1>6. \/ Cut(us)
      \/ /\ handled' = u /\ calls' = N /\ todo' = N /\ pc' = "round"
         /\ UNCHANGED <<slots, history, input, messages, refused, results, deferred, asking, hand, ended, reply>>
  BY <1>2, <1>5 DEF StartRound, Streams
<1>7. CASE Cut(us) BY <1>2, <1>3, <1>4, <1>7, AskIsCut DEF Streams
<1>8. CASE /\ handled' = u /\ calls' = N /\ todo' = N /\ pc' = "round"
           /\ UNCHANGED <<slots, history, input, messages, refused, results, deferred, asking, hand, ended, reply>>
  <2>1. News(Known', N, a) /\ ToSet(a) = {Raw(c) : c \in N} BY <1>2 DEF Streams
  <2>2. AskGoesOn(N, a, u) BY <1>3, <1>8, <2>1 DEF AskGoesOn
  <2> QED BY <2>2
<1> QED BY <1>6, <1>7, <1>8

(* What the service holds when the request has been sent.                   *)
Owes(rest, N) ==
  /\ rest = {c \in owed : ResultOf(c) \notin ToSet(messages)}
  /\ owed' = rest \/ owed' = Holding(rest, N)
(* A request to the model, for the calls N.                                 *)
AskSettles(N, rest) ==
  /\ Fresh(N) /\ (\A c \in N : c.id \in Nameable)
  /\ Owes(rest, N) /\ pc = "ask" /\ keeps' = keeps /\ managed' = (managed \/ keeps)
  /\ turns' = turns /\ answers' = answers /\ runs' = runs
AskCalls(N, rest) ==
  \/ \E how, items, a, u : AskStops(N, how, items, a, u) /\ (owed' = Holding(rest, N) \/ items = handled)
  \/ (\E a, u : AskGoesOn(N, a, u)) /\ owed' = Holding(rest, N) /\ \A c \in N : c.tool \notin Gated
LEMMA AskIs ==
  ASSUME ApprovalInv, Ask
  PROVE  \E N, rest : AskSettles(N, rest) /\ AskCalls(N, rest)
<1>1. /\ pc = "ask" /\ managed' = (managed \/ keeps) /\ keeps' = keeps
      /\ turns' = turns /\ answers' = answers /\ runs' = runs
  BY DEF Ask
<1>2. PICK S \in SUBSET Nameable : \E tool \in [S -> Tools] :
        LET new == NewCalls(S, tool)
            rest == {c \in owed : ResultOf(c) \notin ToSet(messages)}
        IN  /\ Len(made \o new) <= MaxCalls
            /\ made' = made \o new
            /\ \/ FinalAnswer(ToSet(new), rest)
               \/ ReleaseAsApprovals(ToSet(new), rest)
               \/ HandToCaller(ToSet(new), rest)
               \/ StartRound(ToSet(new), rest)
  BY DEF Ask
<1>3. PICK tool \in [S -> Tools] :
        LET new == NewCalls(S, tool)
            rest == {c \in owed : ResultOf(c) \notin ToSet(messages)}
        IN  /\ Len(made \o new) <= MaxCalls
            /\ made' = made \o new
            /\ \/ FinalAnswer(ToSet(new), rest)
               \/ ReleaseAsApprovals(ToSet(new), rest)
               \/ HandToCaller(ToSet(new), rest)
               \/ StartRound(ToSet(new), rest)
  BY <1>2
<1>4. PICK new : new = NewCalls(S, tool) OBVIOUS
<1>5. PICK N, rest : /\ N = ToSet(new) /\ rest = {c \in owed : ResultOf(c) \notin ToSet(messages)}
                     /\ \/ FinalAnswer(N, rest) \/ ReleaseAsApprovals(N, rest)
                        \/ HandToCaller(N, rest) \/ StartRound(N, rest)
  BY <1>3, <1>4
<1>6. Len(made \o new) <= MaxCalls /\ made' = made \o new BY <1>3, <1>4
<1>7. Fresh(N) /\ \A c \in N : c.id \in Nameable
  <2>1. S \in SUBSET Ids BY DEF Nameable
  <2>2. Fresh(ToSet(new)) /\ \A c \in ToSet(new) : c.id \in S BY <1>1, <1>4, <1>6, <2>1, NewCallsAre
  <2> QED BY <1>5, <2>2
<1>8. CASE FinalAnswer(N, rest)
  <2>1. owed' = rest \/ owed' = Holding(rest, N) BY <1>8 DEF FinalAnswer
  <2>2. AskSettles(N, rest) BY <1>1, <1>5, <1>7, <2>1 DEF AskSettles, Owes
  <2>3. AskCalls(N, rest) BY <1>1, <1>7, <1>8, FinalAnswerIs DEF AskCalls
  <2> QED BY <2>2, <2>3
<1>9. CASE ReleaseAsApprovals(N, rest)
  <2>1. owed' = Holding(rest, N) BY <1>9 DEF ReleaseAsApprovals
  <2>2. AskSettles(N, rest) BY <1>1, <1>5, <1>7, <2>1 DEF AskSettles, Owes
  <2>3. AskCalls(N, rest) BY <1>1, <1>7, <1>9, <2>1, ReleaseIs DEF AskCalls
  <2> QED BY <2>2, <2>3
<1>10. CASE HandToCaller(N, rest)
  <2>1. owed' = Holding(rest, N) BY <1>10 DEF HandToCaller
  <2>2. AskSettles(N, rest) BY <1>1, <1>5, <1>7, <2>1 DEF AskSettles, Owes
  <2>3. AskCalls(N, rest) BY <1>1, <1>7, <1>10, <2>1, HandIs DEF AskCalls
  <2> QED BY <2>2, <2>3
<1>11. CASE StartRound(N, rest)
  <2>1. owed' = Holding(rest, N) /\ \A c \in N : c.tool \notin Gated BY <1>11 DEF StartRound
  <2>2. AskSettles(N, rest) BY <1>1, <1>5, <1>7, <2>1 DEF AskSettles, Owes
  <2>3. AskCalls(N, rest) BY <1>1, <1>7, <1>11, <2>1, StartRoundIs DEF AskCalls
  <2> QED BY <2>2, <2>3
<1> QED BY <1>5, <1>8, <1>9, <1>10, <1>11

LEMMA AskKeeps ==
  ASSUME ApprovalInv, Ask
  PROVE  ApprovalInv'
<1>1. PICK N, rest : AskSettles(N, rest) /\ AskCalls(N, rest) BY AskIs
<1>2. Fresh(N) /\ Moves /\ pc = "ask" /\ (managed \/ keeps => managed') BY <1>1 DEF AskSettles, Fresh
<1>3. CASE \E how, items, a, u : AskStops(N, how, items, a, u)
  <2>1. PICK how, items : Ends(how, items) BY <1>3 DEF AskStops
  <2> QED BY <1>2, <2>1, EndKeeps
<1>4. CASE \E a, u : AskGoesOn(N, a, u)
  <2>1. PICK a, u : AskGoesOn(N, a, u) BY <1>4
  <2> QED BY <1>2, <2>1, StartsRound DEF AskGoesOn
<1> QED BY <1>1, <1>3, <1>4 DEF AskCalls

-----------------------------------------------------------------------------
LEMMA StartsOut ==
  ASSUME Init
  PROVE  ApprovalInv
<1>1. Len(<<>>) = 0 OBVIOUS
<1>2. \A T : <<>> \in Seq(T) OBVIOUS
<1>3. MadeInv BY <1>1, <1>2 DEF Init, MadeInv
<1>4. TypeInv BY <1>2 DEF Init, TypeInv
<1>5. KeeperInv BY DEF Init, KeeperInv
<1>6. StageInv BY DEF Init, StageInv
<1>7. Once(<<>>) /\ Founded(<<>>) /\ NotReasked(<<>>) /\ \A c : ~Told(<<>>, c)
  BY <1>1 DEF Once, Founded, NotReasked, Told
<1>8. BatchInv BY <1>7 DEF Init, BatchInv
<1>9. HistoryInv BY <1>1, <1>7 DEF Init, HistoryInv
<1>10. MessagesInv BY <1>7 DEF Init, MessagesInv
<1>11. EndsOnAnAnswer BY DEF Init, EndsOnAnAnswer
<1> QED BY <1>3, <1>4, <1>5, <1>6, <1>8, <1>9, <1>10, <1>11 DEF ApprovalInv

LEMMA StepKeeps ==
  ASSUME ApprovalInv, [Next]_vars
  PROVE  ApprovalInv'
<1>1. CASE Send BY <1>1, SendKeeps
<1>2. CASE Invoke BY <1>2, InvokeKeeps
<1>3. CASE MiddlewareFails
  <2>1. UNCHANGED <<made, managed, keeps>> /\ End("failed", handled) BY <1>3 DEF MiddlewareFails
  <2> QED BY <2>1, StaysMade, FailKeeps
<1>4. CASE FinishReplay BY <1>4, FinishReplayKeeps
<1>5. CASE Ask BY <1>5, AskKeeps
<1>6. CASE FinishRound BY <1>6, FinishRoundKeeps
<1>7. CASE Fail
  <2>1. UNCHANGED <<made, managed, keeps>> /\ End("failed", handled) BY <1>7 DEF Fail, service
  <2> QED BY <2>1, StaysMade, FailKeeps
<1>8. CASE UNCHANGED vars
  <2>1. /\ UNCHANGED <<pending, autoApproved, history, managed, keeps, pc, input, messages, calls, refused, todo>>
        /\ UNCHANGED <<results, deferred, asking, handled, hand, ended, reply, made>>
    BY <1>8 DEF vars, slots, service, turn, round, caller
  <2>2. Known' = Known BY <2>1 DEF Known
  <2>3. MadeInv' BY <2>1 DEF ApprovalInv, MadeInv
  <2>4. TypeInv' BY <2>1, <2>2 DEF ApprovalInv, TypeInv
  <2>5. KeeperInv' BY <2>1 DEF ApprovalInv, KeeperInv
  <2>6. StageInv' BY <2>1 DEF ApprovalInv, StageInv
  <2>7. BatchInv' BY <2>1 DEF ApprovalInv, BatchInv
  <2>8. HistoryInv' BY <2>1 DEF ApprovalInv, HistoryInv, NotRequested
  <2>9. MessagesInv' BY <2>1 DEF ApprovalInv, MessagesInv
  <2>10. EndsOnAnAnswer' BY <2>1 DEF ApprovalInv, EndsOnAnAnswer
  <2> QED BY <2>3, <2>4, <2>5, <2>6, <2>7, <2>8, <2>9, <2>10 DEF ApprovalInv
<1> QED BY <1>1, <1>2, <1>3, <1>4, <1>5, <1>6, <1>7, <1>8 DEF Next

THEOREM ApprovalInvariance == Spec => []ApprovalInv
<1>1. Init => ApprovalInv BY StartsOut
<1>2. ApprovalInv /\ [Next]_vars => ApprovalInv' BY StepKeeps
<1> QED BY <1>1, <1>2, PTL DEF Spec

THEOREM RequestsAreReadable == Spec => [](pc = "ask" => ReadableRequest)
<1>1. ApprovalInv => (pc = "ask" => ReadableRequest)
  <2> SUFFICES ASSUME ApprovalInv, pc = "ask" PROVE ReadableRequest OBVIOUS
  <2>1. messages \in Seq(ExchangesOf(Known)) BY DEF ApprovalInv, TypeInv
  <2>2. DOMAIN messages = 1..Len(messages) /\ \A p \in 1..Len(messages) : messages[p] \in ExchangesOf(Known) BY <2>1
  <2>3. \A p \in 1..Len(messages) : messages[p].kind \in {"call", "result"} BY <2>2, KindsIn
  <2> QED BY <2>2, <2>3 DEF ApprovalInv, MessagesInv, ReadableRequest, Once, Founded
<1> QED BY <1>1, ApprovalInvariance, PTL

THEOREM TurnsEndOnAnAnswer == Spec => []EndsOnAnAnswer
<1>1. ApprovalInv => EndsOnAnAnswer BY DEF ApprovalInv
<1> QED BY <1>1, ApprovalInvariance, PTL

-----------------------------------------------------------------------------
(* A run of a tool is the run of one call of the batch.                     *)
LEMMA RunsAre ==
  ASSUME [Next]_vars
  PROVE  runs' = runs \/ (Invoke /\ \E c \in todo : runs' = [runs EXCEPT ![c.no] = @ + 1])
<1>1. CASE Invoke
  <2>1. PICK c \in todo : NotFound(c) \/ Succeeds(c) \/ Throws(c) \/ BadArguments(c) \/ Deferred(c)
    BY <1>1 DEF Invoke
  <2>2. runs' = runs \/ Ran(c) BY <2>1 DEF NotFound, Succeeds, Throws, BadArguments, Deferred
  <2> QED BY <1>1, <2>2 DEF Ran
<1>2. CASE Send BY <1>2 DEF Send
<1>3. CASE MiddlewareFails BY <1>3 DEF MiddlewareFails
<1>4. CASE FinishReplay BY <1>4 DEF FinishReplay
<1>5. CASE Ask BY <1>5 DEF Ask
<1>6. CASE FinishRound BY <1>6 DEF FinishRound
<1>7. CASE Fail BY <1>7 DEF Fail
<1>8. CASE UNCHANGED vars BY <1>8 DEF vars
<1> QED BY <1>1, <1>2, <1>3, <1>4, <1>5, <1>6, <1>7, <1>8 DEF Next

RunsInv == DOMAIN runs = Nos
AnsweredRestsIn(n) == ~Told(history, made[n]) /\ ~Told(messages, made[n]) /\ ~Told(handled, made[n])
LEMMA RunsOpen ==
  ASSUME ApprovalInv, RunsInv, [Next]_vars, NEW n \in Nos, runs'[n] # runs[n]
  PROVE  AnsweredRestsIn(n)
<1>1. PICK c \in todo : runs' = [runs EXCEPT ![c.no] = @ + 1] BY RunsAre
<1>2. n = c.no BY <1>1 DEF RunsInv
<1>3. c \in Known /\ c \in calls BY DEF ApprovalInv, TypeInv, BatchInv
<1>4. made \in Seq(Call) /\ \A m \in 1..Len(made) : made[m].no = m BY DEF ApprovalInv, MadeInv
<1>5. DOMAIN made = 1..Len(made) BY <1>4
<1>6. PICK m \in 1..Len(made) : made[m] = c BY <1>3, <1>5 DEF Known
<1>7. made[n] = c BY <1>2, <1>4, <1>6
<1> QED BY <1>3, <1>7 DEF ApprovalInv, BatchInv, AnsweredRestsIn

(* A call whose result the transcript has, the request to the model or what *)
(* the turn has told, never runs again, whatever decisions come in for its  *)
(* id (resolveInboundApprovals, runInvocationRound).                        *)
THEOREM AnsweredNeverRuns ==
  Spec => [][\A n \in Nos : runs'[n] # runs[n] =>
               ~Told(history, made[n]) /\ ~Told(messages, made[n]) /\ ~Told(handled, made[n])]_vars
<1> DEFINE Open == \A n \in Nos : runs'[n] # runs[n] => AnsweredRestsIn(n)
<1>1. Init => RunsInv BY DEF Init, RunsInv
<1>2. RunsInv /\ [Next]_vars => RunsInv' BY RunsAre DEF RunsInv
<1>3. ApprovalInv /\ RunsInv /\ [Next]_vars => [Open]_vars BY RunsOpen
<1>4. [Open]_vars <=> [\A n \in Nos : runs'[n] # runs[n] =>
               ~Told(history, made[n]) /\ ~Told(messages, made[n]) /\ ~Told(handled, made[n])]_vars
  BY DEF AnsweredRestsIn
<1> HIDE DEF Open
<1> QED BY <1>1, <1>2, <1>3, <1>4, ApprovalInvariance, PTL DEF Spec

-----------------------------------------------------------------------------
(* What a human's answers come to, for the calls of one id: tag.            *)
Rival(tag, c, d) == c.id = tag /\ d.id = tag /\ c # d
(* A request comes after all there is of older calls of its id, and what is *)
(* newer comes once its call was answered.                                  *)
Ordered(tag, s) ==
  \A p, q \in 1..Len(s) :
    s[p].kind = "request" /\ Rival(tag, s[p].call, s[q].call) =>
      \/ s[p].call.no < s[q].call.no /\ \E m \in (p + 1)..(q - 1) : s[m] = ResultOf(s[p].call)
      \/ s[q].call.no < s[p].call.no /\ q < p
Behind(tag, h, c) ==
  \A i \in ToSet(h) :
    i.kind = "request" /\ Rival(tag, i.call, c) => i.call.no < c.no /\ Told(h, i.call)
Follows(tag, h, w) ==
  \A q \in 1..Len(w) : \A i \in ToSet(h) :
    i.kind = "request" /\ Rival(tag, i.call, w[q].call) =>
      /\ i.call.no < w[q].call.no
      /\ Told(h, i.call) \/ \E m \in 1..(q - 1) : w[m] = ResultOf(i.call)
NewestOf(K, c) == \A k \in K : k.id = c.id => k.no <= c.no
Answer(h, c) == \E i \in ToSet(h) : i.kind = "decision" /\ i.call = c
Live == calls \cup refused \cup Calls(asking)

HandInv(tag) ==
  \A h \in hand : /\ Behind(tag, history, h.call)
                  /\ \A r \in pending \cup hand : r.call.id = tag /\ h.call.id = tag => r.call = h.call
PendInv(tag) == \A r, o \in pending : r.call.id = tag /\ o.call.id = tag => r.call = o.call
(* A human made the decision; if a turn kept it, and its call is still      *)
(* asked for, the turn kept the call as well.                               *)
MadeByHuman(i) == answers[i.call.no] # <<>> /\ (i.yes => Yeses(i.call.no) # {})
AnswerInv(tag) ==
  /\ \A i \in ToSet(history) \cup ToSet(input) : i.kind = "decision" => MadeByHuman(i)
  /\ \A c \in Known : c.id = tag /\ Answer(history, c) => Raw(c) \in ToSet(history) \/ (NotRequested(c) /\ c \notin Live)
  /\ \A i \in ToSet(input) : i.call.id = tag =>
       \/ Raw(i.call) \in ToSet(history) \cup ToSet(handled) \/ i.call \in calls \cup refused
       \/ NotRequested(i.call) /\ i.call \notin Calls(asking)
InputInv(tag) == \A i \in ToSet(input) : Behind(tag, history, i.call)
LiveInv(tag) ==
  \A c \in Live : c.id = tag =>
    /\ \A i \in ToSet(history) \cup ToSet(input) \cup ToSet(handled) : Rival(tag, i.call, c) => i.call.no < c.no
    /\ \A i \in ToSet(history) : i.kind = "request" /\ Rival(tag, i.call, c) => Told(history, i.call) \/ Told(handled, i.call)
    /\ \A d \in Live : c.id = d.id => c = d
    /\ \A r \in pending : r.call.id = c.id => r.call = c
MsgInv(tag) == \A c \in Known : c.id = tag /\ Told(messages, c) => Told(history, c) \/ Told(handled, c)
OwedInv(tag) ==
  keeps => \A c \in Calls(pending \cup asking \cup deferred \cup autoApproved) \cup calls : c.id = tag => c \in owed
AutoInv(tag) ==
  \A a \in autoApproved : a.call.id = tag =>
    NewestOf(Known, a.call) /\ a.call.id \notin CallIds(pending) /\ ~Answer(history, a.call)
OpenInv(tag) == \A h \in hand : h.call.id = tag /\ answers[h.call.no] = <<>> => \E r \in pending : r.call = h.call
TraceInv(tag) ==
  /\ Ordered(tag, history) /\ Follows(tag, history, handled) /\ HandInv(tag) /\ PendInv(tag) /\ AnswerInv(tag)
  /\ InputInv(tag) /\ LiveInv(tag) /\ MsgInv(tag) /\ OwedInv(tag) /\ AutoInv(tag) /\ OpenInv(tag)

(* A run is one that a human allowed, and so is one that is to come.        *)
Due(c) == IF c \in todo THEN 1 ELSE 0
CountInv(tag) ==
  /\ runs \in [Nos -> Nat] /\ answers \in [Nos -> Seq(BOOLEAN)]
  /\ \A n \in Nos : n > Len(made) => runs[n] = 0
  /\ \A c \in Known : c.id = tag /\ c.tool \in Gated =>
       /\ runs[c.no] + Due(c) > 0 => Yeses(c.no) # {}
       /\ Interrupted(c) = {} => runs[c.no] + Due(c) <= Cardinality(Yeses(c.no))
(* The id is clear.                                                         *)
Attributable(tag) ==
  /\ \A r \in pending : r.call.id = tag => ~Overshadowed(r)
  /\ \A r \in autoApproved : r.call.id = tag => ~Orphaned(r)
ConsentInv(tag) == ApprovalInv /\ TraceInv(tag) /\ CountInv(tag) /\ Attributable(tag)

-----------------------------------------------------------------------------
LEMMA NumbersAre ==
  ASSUME NEW m, m \in Seq(Call), \A n \in 1..Len(m) : m[n].no = n
  PROVE  /\ Len(m) \in Nat /\ DOMAIN m = 1..Len(m)
         /\ \A c \in {m[n] : n \in DOMAIN m} :
              /\ c \in Call /\ c.no \in Nos /\ c.no \in Nat /\ c.no \in 1..Len(m) /\ m[c.no] = c
              /\ \A d \in {m[n] : n \in DOMAIN m} : c.no = d.no => c = d
<1>1. Len(m) \in Nat /\ DOMAIN m = 1..Len(m) OBVIOUS
<1>2. ASSUME NEW c \in {m[n] : n \in DOMAIN m}
      PROVE  c \in Call /\ c.no \in 1..Len(m) /\ m[c.no] = c
  <2>1. PICK n \in 1..Len(m) : m[n] = c BY <1>1
  <2> QED BY <2>1
<1>3. \A c \in Call : c.no \in Nos /\ c.no \in Nat BY BoundsAssumption DEF Call, Nos
<1> QED BY <1>1, <1>2, <1>3

LEMMA KnownAre ==
  ASSUME MadeInv
  PROVE  \A c \in Known : /\ c \in Call /\ c.no \in Nos /\ c.no \in Nat /\ c.no \in 1..Len(made) /\ made[c.no] = c
                          /\ \A d \in Known : c.no = d.no => c = d
BY NumbersAre DEF MadeInv, Known
LEMMA KnownNextAre ==
  ASSUME MadeInv'
  PROVE  \A c \in Known' : /\ c \in Call /\ c.no \in Nos /\ c.no \in Nat /\ c.no \in 1..Len(made') /\ made'[c.no] = c
                           /\ \A d \in Known' : c.no = d.no => c = d
<1>1. made' \in Seq(Call) /\ \A n \in 1..Len(made') : made'[n].no = n BY DEF MadeInv
<1>2. Known' = {made'[n] : n \in DOMAIN made'} BY DEF Known
<1> QED BY <1>1, <1>2, NumbersAre

(* The calls of a turn are calls that were made.                            *)
LEMMA CallsOf ==
  ASSUME NEW K, NEW s \in Seq(ItemsOf(K))
  PROVE  \A i \in ToSet(s) : i \in ItemsOf(K) /\ i.call \in K
<1>1. \A p \in 1..Len(s) : s[p] \in ItemsOf(K) OBVIOUS
<1> QED BY <1>1, MemberIs, ItemIs
LEMMA TurnCalls ==
  ASSUME ApprovalInv
  PROVE  /\ history \in Seq(ItemsOf(Known)) /\ input \in Seq(ItemsOf(Known)) /\ handled \in Seq(ItemsOf(Known))
         /\ messages \in Seq(ItemsOf(Known)) /\ results \in Seq(ItemsOf(Known))
         /\ \A i \in ToSet(history) \cup ToSet(input) \cup ToSet(handled) \cup ToSet(messages) : i.call \in Known
         /\ \A i \in ToSet(input) : i.kind = "decision" /\ i = Decision(i.call, i.yes)
         /\ \A r \in pending \cup asking \cup deferred \cup autoApproved \cup hand :
              r.kind = "request" /\ r.call \in Known /\ r \in Requests(Known)
         /\ Live \subseteq Known
<1>1. /\ history \in Seq(ItemsOf(Known)) /\ input \in Seq(DecisionsOf(Known)) /\ handled \in Seq(ExchangesOf(Known))
      /\ messages \in Seq(ExchangesOf(Known)) /\ results \in Seq(ResultsOf(Known))
      /\ calls \subseteq Known /\ refused \subseteq Known
      /\ \A r \in pending \cup asking \cup deferred \cup autoApproved \cup hand : r \in Requests(Known)
  BY DEF ApprovalInv, TypeInv
<1>2. /\ input \in Seq(ItemsOf(Known)) /\ handled \in Seq(ItemsOf(Known))
      /\ messages \in Seq(ItemsOf(Known)) /\ results \in Seq(ItemsOf(Known))
  BY <1>1, KindsIn
<1>3. \A i \in ToSet(history) \cup ToSet(input) \cup ToSet(handled) \cup ToSet(messages) : i.call \in Known
  BY <1>1, <1>2, CallsOf
<1>4. \A i \in ToSet(input) : i.kind = "decision" /\ i = Decision(i.call, i.yes)
  <2>1. \A p \in 1..Len(input) : input[p].kind = "decision"
    <3>1. \A p \in 1..Len(input) : input[p] \in DecisionsOf(Known) BY <1>1
    <3> QED BY <3>1, KindsIn
  <2>2. \A i \in ToSet(input) : i.kind = "decision" BY <1>2, <2>1, MemberIs
  <2>3. \A i \in ToSet(input) : i \in ItemsOf(Known) BY <1>2, CallsOf
  <2> QED BY <2>2, <2>3, ItemIs
<1>5. \A r \in pending \cup asking \cup deferred \cup autoApproved \cup hand :
        r.kind = "request" /\ r.call \in Known /\ r \in Requests(Known)
  BY <1>1, KindsIn
<1>6. Live \subseteq Known BY <1>1, <1>5 DEF Live, Calls
<1> QED BY <1>1, <1>2, <1>3, <1>4, <1>5, <1>6

-----------------------------------------------------------------------------
(* Requests and what comes after them.                                      *)
LEMMA AfterRequest ==
  ASSUME NEW K, NEW s \in Seq(ItemsOf(K)), NotReasked(s), NEW p \in 1..Len(s), s[p].kind = "request",
         Told(s, s[p].call)
  PROVE  \E m \in (p + 1)..Len(s) : s[m] = ResultOf(s[p].call)
<1>1. PICK m \in 1..Len(s) : s[m] = ResultOf(s[p].call) BY DEF Told
<1>2. m # p BY <1>1, Fields
<1>3. m \notin 1..(p - 1) BY <1>1 DEF NotReasked
<1>4. Len(s) \in Nat OBVIOUS
<1>5. m \in (p + 1)..Len(s) BY <1>2, <1>3, <1>4
<1> QED BY <1>1, <1>5

(* The requests in b are newer than all there is of their ids.              *)
Newer(tag, h, b) ==
  \A p \in 1..Len(b) : b[p].kind = "request" =>
    /\ \A i \in ToSet(h) : Rival(tag, i.call, b[p].call) => i.call.no < b[p].call.no
    /\ \A q \in 1..Len(b) : Rival(tag, b[q].call, b[p].call) => q < p /\ b[q].call.no < b[p].call.no

LEMMA OrderedJoined ==
  ASSUME NEW tag, NEW K, NEW h \in Seq(ItemsOf(K)), NEW b \in Seq(ItemsOf(K)), Ordered(tag, h), NotReasked(h),
         Follows(tag, h, b), Newer(tag, h, b)
  PROVE  Ordered(tag, h \o b)
<1>1. PICK s \in Seq(ItemsOf(K)) : s = h \o b BY JoinedIs
<1>2. /\ Len(h) \in Nat /\ Len(b) \in Nat /\ Len(s) = Len(h) + Len(b)
      /\ \A i \in 1..Len(h) : i \in 1..Len(s) /\ s[i] = h[i]
      /\ \A j \in 1..Len(b) : Len(h) + j \in 1..Len(s) /\ s[Len(h) + j] = b[j]
      /\ \A k \in 1..Len(s) : k \in 1..Len(h) \/ (k > Len(h) /\ \E j \in 1..Len(b) : k = Len(h) + j)
  BY <1>1, JoinedIs
<1> SUFFICES ASSUME NEW p \in 1..Len(s), NEW q \in 1..Len(s), s[p].kind = "request", Rival(tag, s[p].call, s[q].call)
             PROVE  \/ s[p].call.no < s[q].call.no /\ \E m \in (p + 1)..(q - 1) : s[m] = ResultOf(s[p].call)
                    \/ s[q].call.no < s[p].call.no /\ q < p
  BY <1>1 DEF Ordered
<1>3. CASE p \in 1..Len(h) /\ q \in 1..Len(h)
  <2>1. s[p] = h[p] /\ s[q] = h[q] BY <1>2, <1>3
  <2>2. CASE h[p].call.no < h[q].call.no /\ \E m \in (p + 1)..(q - 1) : h[m] = ResultOf(h[p].call)
    <3>1. PICK m \in (p + 1)..(q - 1) : h[m] = ResultOf(h[p].call) BY <2>2
    <3>2. m \in 1..Len(h) BY <1>2, <1>3
    <3>3. s[m] = h[m] BY <1>2, <3>2
    <3> QED BY <2>1, <2>2, <3>1, <3>3
  <2>3. CASE h[q].call.no < h[p].call.no /\ q < p BY <2>1, <2>3
  <2> QED BY <1>3, <2>1, <2>2, <2>3 DEF Ordered
<1>4. CASE p \in 1..Len(h) /\ q \notin 1..Len(h)
  <2>1. PICK j \in 1..Len(b) : q = Len(h) + j BY <1>2, <1>4
  <2>2. s[p] = h[p] /\ s[q] = b[j] BY <1>2, <1>4, <2>1
  <2>3. h[p] \in ToSet(h) BY <1>4, MemberIs
  <2>4. /\ h[p].call.no < b[j].call.no
        /\ Told(h, h[p].call) \/ \E m \in 1..(j - 1) : b[m] = ResultOf(h[p].call)
    BY <2>2, <2>3 DEF Follows
  <2>5. CASE Told(h, h[p].call)
    <3>1. PICK m \in (p + 1)..Len(h) : h[m] = ResultOf(h[p].call) BY <1>4, <2>2, <2>5, AfterRequest
    <3>2. m \in 1..Len(h) /\ m \in (p + 1)..(q - 1) BY <1>2, <1>4, <2>1
    <3>3. s[m] = h[m] BY <1>2, <3>2
    <3> QED BY <2>2, <2>4, <3>1, <3>2, <3>3
  <2>6. CASE \E m \in 1..(j - 1) : b[m] = ResultOf(h[p].call)
    <3>1. PICK m \in 1..(j - 1) : b[m] = ResultOf(h[p].call) BY <2>6
    <3>2. m \in 1..Len(b) /\ Len(h) + m \in (p + 1)..(q - 1) BY <1>2, <1>4, <2>1
    <3>3. s[Len(h) + m] = b[m] BY <1>2, <3>2
    <3> QED BY <2>2, <2>4, <3>1, <3>2, <3>3
  <2> QED BY <2>4, <2>5, <2>6
<1>5. CASE p \notin 1..Len(h)
  <2>1. PICK j \in 1..Len(b) : p = Len(h) + j BY <1>2, <1>5
  <2>2. s[p] = b[j] BY <1>2, <2>1
  <2>3. CASE q \in 1..Len(h)
    <3>1. h[q] \in ToSet(h) /\ s[q] = h[q] BY <1>2, <2>3, MemberIs
    <3>2. Rival(tag, h[q].call, b[j].call) BY <2>2, <3>1 DEF Rival
    <3>3. h[q].call.no < b[j].call.no BY <2>2, <3>1, <3>2 DEF Newer
    <3>4. q < p BY <1>2, <2>1, <2>3
    <3> QED BY <2>2, <3>1, <3>3, <3>4
  <2>4. CASE q \notin 1..Len(h)
    <3>1. PICK i \in 1..Len(b) : q = Len(h) + i BY <1>2, <2>4
    <3>2. s[q] = b[i] BY <1>2, <3>1
    <3>3. Rival(tag, b[i].call, b[j].call) BY <2>2, <3>2 DEF Rival
    <3>4. i < j /\ b[i].call.no < b[j].call.no BY <2>2, <3>3 DEF Newer
    <3>5. q < p BY <1>2, <2>1, <3>1, <3>4
    <3> QED BY <2>2, <3>2, <3>4, <3>5
  <2> QED BY <2>3, <2>4
<1> QED BY <1>3, <1>4, <1>5

(* Decisions behind a transcript leave it as it is.                         *)
LEMMA DecisionsBehind ==
  ASSUME NEW tag, NEW K, NEW h \in Seq(ItemsOf(K)), NEW d \in Seq(ItemsOf(K)),
         \A i \in ToSet(d) : i.kind = "decision", NEW s \in Seq(ItemsOf(K)), s = h \o d
  PROVE  /\ \A i \in ToSet(s) : i.kind # "decision" => i \in ToSet(h)
         /\ \A c : Told(s, c) <=> Told(h, c)
         /\ \A g : Follows(tag, h, g) => Follows(tag, s, g)
         /\ Ordered(tag, h) /\ NotReasked(h) /\ (\A i \in ToSet(d) : Behind(tag, h, i.call)) => Ordered(tag, s)
<1>1. ToSet(s) = ToSet(h) \cup ToSet(d) BY JoinedIs
<1>2. \A i \in ToSet(s) : i.kind # "decision" => i \in ToSet(h) BY <1>1
<1>3. \A p \in 1..Len(d) : d[p].kind = "decision" /\ d[p] \in ToSet(d) BY MemberIs
<1>4. \A c : Told(s, c) <=> Told(h, c)
  <2>1. \A c : ~Told(d, c) BY <1>3, Fields DEF Told
  <2>2. \A c : Told(h \o d, c) <=> Told(h, c) \/ Told(d, c) BY JoinedFits
  <2> QED BY <2>1, <2>2
<1>5. \A g : Follows(tag, h, g) => Follows(tag, s, g) BY <1>2, <1>4 DEF Follows
<1>6. ASSUME Ordered(tag, h), NotReasked(h), \A i \in ToSet(d) : Behind(tag, h, i.call)
      PROVE  Ordered(tag, s)
  <2>1. Follows(tag, h, d) BY <1>3, <1>6 DEF Follows, Behind
  <2>2. Newer(tag, h, d) BY <1>3 DEF Newer
  <2> QED BY <1>6, <2>1, <2>2, OrderedJoined
<1> QED BY <1>2, <1>4, <1>5, <1>6

-----------------------------------------------------------------------------
(* What the caller is shown of what follows a transcript follows it.        *)
LEMMA ShownFollows ==
  ASSUME NEW tag, NEW K, NEW h \in Seq(ItemsOf(K)), NEW u \in Seq(ItemsOf(K)), Follows(tag, h, u), Newer(tag, h, u)
  PROVE  Follows(tag, h, Shown(u)) /\ Newer(tag, h, Shown(u))
<1>0. DOMAIN u = 1..Len(u) /\ Len(u) \in Nat OBVIOUS
<1>1. PICK P : P = {n \in DOMAIN u : ~HeldBack(u[n])} OBVIOUS
<1>2. PICK v \in Seq(ItemsOf(K)) : v = Shown(u) /\ \E from : Picks(v, u, P, from) BY <1>1, AtPicks DEF Shown
<1>3. PICK from : Picks(v, u, P, from) BY <1>2
<1>4. /\ \A i \in 1..Len(v) : from[i] \in 1..Len(u) /\ from[i] \in P /\ v[i] = u[from[i]]
      /\ \A i, j \in 1..Len(v) : i < j <=> from[i] < from[j]
      /\ Len(v) \in Nat
  BY <1>3, PicksKeep
<1>5. \A m \in 1..Len(u) : u[m].kind = "result" => \E i \in 1..Len(v) : from[i] = m
  <2>1. \A m \in 1..Len(u) : u[m].kind = "result" => m \in P BY <1>0, <1>1, KindsIn
  <2> QED BY <1>3, <2>1 DEF Picks
<1>6. Follows(tag, h, v)
  <2> SUFFICES ASSUME NEW q \in 1..Len(v), NEW i \in ToSet(h), i.kind = "request", Rival(tag, i.call, v[q].call)
               PROVE  /\ i.call.no < v[q].call.no
                      /\ Told(h, i.call) \/ \E m \in 1..(q - 1) : v[m] = ResultOf(i.call)
    BY DEF Follows
  <2>1. from[q] \in 1..Len(u) /\ v[q] = u[from[q]] BY <1>4
  <2>2. /\ i.call.no < v[q].call.no
        /\ Told(h, i.call) \/ \E m \in 1..(from[q] - 1) : u[m] = ResultOf(i.call)
    BY <2>1 DEF Follows
  <2>3. ASSUME NEW m \in 1..(from[q] - 1), u[m] = ResultOf(i.call)
        PROVE  \E n \in 1..(q - 1) : v[n] = ResultOf(i.call)
    <3>1. m \in 1..Len(u) /\ m < from[q] BY <1>0, <2>1
    <3>2. u[m].kind = "result" BY <2>3, Fields
    <3>3. PICK n \in 1..Len(v) : from[n] = m BY <1>5, <3>1, <3>2
    <3>4. n < q BY <1>4, <3>1, <3>3
    <3>5. n \in 1..(q - 1) /\ v[n] = u[m] BY <1>4, <3>3, <3>4
    <3> QED BY <2>3, <3>5
  <2> QED BY <2>2, <2>3
<1>7. Newer(tag, h, v)
  <2> SUFFICES ASSUME NEW p \in 1..Len(v), v[p].kind = "request"
               PROVE  /\ \A i \in ToSet(h) : Rival(tag, i.call, v[p].call) => i.call.no < v[p].call.no
                      /\ \A q \in 1..Len(v) : Rival(tag, v[q].call, v[p].call) => q < p /\ v[q].call.no < v[p].call.no
    BY DEF Newer
  <2>1. from[p] \in 1..Len(u) /\ v[p] = u[from[p]] BY <1>4
  <2>2. \A i \in ToSet(h) : Rival(tag, i.call, v[p].call) => i.call.no < v[p].call.no BY <2>1 DEF Newer
  <2>3. ASSUME NEW q \in 1..Len(v), Rival(tag, v[q].call, v[p].call) PROVE q < p /\ v[q].call.no < v[p].call.no
    <3>1. from[q] \in 1..Len(u) /\ v[q] = u[from[q]] BY <1>4
    <3>2. from[q] < from[p] /\ v[q].call.no < v[p].call.no BY <2>1, <2>3, <3>1 DEF Newer
    <3> QED BY <1>4, <3>2
  <2> QED BY <2>2, <2>3
<1> QED BY <1>2, <1>6, <1>7

(* A request that is still open, and is not overshadowed, comes after all   *)
(* there is of its id, and the other requests of its id were answered.      *)
Attributed(tag, h, r) == r \in ToSet(h) \/ \A i \in ToSet(h) : ~Rival(tag, i.call, r.call)
LEMMA AttributedBehind ==
  ASSUME NEW tag, NEW K, NEW h \in Seq(ItemsOf(K)), Ordered(tag, h), NEW r, r.kind = "request", Attributed(tag, h, r),
         ~Told(h, r.call)
  PROVE  Behind(tag, h, r.call) /\ \A i \in ToSet(h) : Rival(tag, i.call, r.call) => i.call.no < r.call.no
<1> SUFFICES ASSUME NEW i \in ToSet(h), Rival(tag, i.call, r.call)
             PROVE  i.call.no < r.call.no /\ (i.kind = "request" => Told(h, i.call))
  BY DEF Behind
<1>1. r \in ToSet(h) BY DEF Attributed
<1>2. PICK q \in 1..Len(h) : h[q] = r BY <1>1, MemberIs
<1>3. PICK p \in 1..Len(h) : h[p] = i BY MemberIs
<1>4. Rival(tag, h[q].call, h[p].call) BY <1>2, <1>3 DEF Rival
<1>5. \/ h[q].call.no < h[p].call.no /\ \E m \in (q + 1)..(p - 1) : h[m] = ResultOf(h[q].call)
      \/ h[p].call.no < h[q].call.no /\ p < q
  BY <1>2, <1>4 DEF Ordered
<1>6. ASSUME NEW m \in (q + 1)..(p - 1), h[m] = ResultOf(h[q].call) PROVE FALSE
  <2>1. m \in 1..Len(h) OBVIOUS
  <2> QED BY <1>2, <1>6, <2>1 DEF Told
<1>7. h[p].call.no < h[q].call.no /\ p < q BY <1>5, <1>6
<1>8. ASSUME i.kind = "request" PROVE Told(h, i.call)
  <2>1. Rival(tag, h[p].call, h[q].call) BY <1>2, <1>3 DEF Rival
  <2>2. \/ h[p].call.no < h[q].call.no /\ \E m \in (p + 1)..(q - 1) : h[m] = ResultOf(h[p].call)
        \/ h[q].call.no < h[p].call.no /\ q < p
    BY <1>3, <1>8, <2>1 DEF Ordered
  <2>3. ~(q < p) BY <1>7
  <2>4. PICK m \in (p + 1)..(q - 1) : h[m] = ResultOf(h[p].call) BY <2>2, <2>3
  <2>5. m \in 1..Len(h) OBVIOUS
  <2> QED BY <1>3, <2>4, <2>5 DEF Told
<1> QED BY <1>2, <1>3, <1>7, <1>8

(* The request of a call without a result is open: nothing newer of its id  *)
(* comes after it, and no result of its id.                                 *)
OpenAt(s, c, q) ==
  /\ q \in 1..Len(s) /\ Opens(s, q) /\ s[q].call = c /\ s[q].kind = "request" /\ ~Closed(s, q)
  /\ \A m \in 1..Len(s) : q < m /\ s[m].call.id = c.id => s[m].call = c /\ s[m].kind # "result"
LEMMA OpenRequest ==
  ASSUME NEW tag, NEW K, NEW s \in Seq(ItemsOf(K)), Ordered(tag, s), NEW c, c.id = tag, ~Told(s, c),
         \E p \in 1..Len(s) : s[p].kind = "request" /\ s[p].call = c
  PROVE  \E q : OpenAt(s, c, q)
<1>0. Len(s) \in Nat /\ DOMAIN s = 1..Len(s) OBVIOUS
<1>1. PICK Z : Z = {p \in 1..Len(s) : s[p].kind = "request" /\ s[p].call = c} OBVIOUS
<1>2. Z # {} /\ Z \subseteq Nat BY <1>0, <1>1
<1>3. PICK q \in Z : \A m \in Z : q <= m BY ONLY <1>2, LeastNat
<1>4. q \in 1..Len(s) /\ s[q].kind = "request" /\ s[q].call = c BY <1>1
<1>5. ASSUME NEW m \in 1..Len(s), Rival(tag, s[m].call, c) PROVE s[m].call.no < c.no /\ m < q
  <2>1. Rival(tag, s[q].call, s[m].call) BY <1>4, <1>5 DEF Rival
  <2>2. \/ s[q].call.no < s[m].call.no /\ \E o \in (q + 1)..(m - 1) : s[o] = ResultOf(s[q].call)
        \/ s[m].call.no < s[q].call.no /\ m < q
    BY <1>4, <2>1 DEF Ordered
  <2>3. ASSUME NEW o \in (q + 1)..(m - 1), s[o] = ResultOf(s[q].call) PROVE FALSE
    <3>1. o \in 1..Len(s) BY <1>0, <1>4
    <3> QED BY <1>4, <2>3, <3>1 DEF Told
  <2> QED BY <1>4, <2>2, <2>3
<1>6. ASSUME NEW m \in 1..Len(s), q < m, s[m].call.id = c.id PROVE s[m].call = c /\ s[m].kind # "result"
  <2>1. s[m].call = c
    <3>1. ~Rival(tag, s[m].call, c) BY <1>0, <1>4, <1>5, <1>6
    <3> QED BY <1>6, <3>1 DEF Rival
  <2>2. s[m] \in ItemsOf(K) OBVIOUS
  <2>3. s[m].kind # "result" BY <2>1, <2>2, ItemIs DEF Told
  <2> QED BY <2>1, <2>3
<1>7. ~Closed(s, q)
  <2> SUFFICES ASSUME NEW m \in (q + 1)..Len(s), s[m].kind = "result", s[m].call.id = c.id PROVE FALSE
    BY <1>4 DEF Closed, Has
  <2>1. m \in 1..Len(s) /\ q < m BY <1>0, <1>4
  <2> QED BY <1>6, <2>1
<1>8. Opens(s, q)
  <2> SUFFICES ASSUME NEW p \in 1..(q - 1), s[p].kind = "request", s[p].call.id = s[q].call.id
               PROVE  Has(s, "result", s[q].call.id, p + 1, q - 1)
    BY <1>4 DEF Opens
  <2>1. p \in 1..Len(s) /\ p < q BY <1>0, <1>4
  <2>2. s[p].call # c
    <3>1. p \notin Z BY <1>0, <1>3, <1>4, <2>1
    <3> QED BY <1>1, <2>1, <3>1
  <2>3. Rival(tag, s[p].call, s[q].call) BY <1>4, <2>2 DEF Rival
  <2>4. \/ s[p].call.no < s[q].call.no /\ \E m \in (p + 1)..(q - 1) : s[m] = ResultOf(s[p].call)
        \/ s[q].call.no < s[p].call.no /\ q < p
    BY <1>4, <2>1, <2>3 DEF Ordered
  <2>5. ~(q < p) BY <1>0, <1>4, <2>1
  <2>6. PICK m \in (p + 1)..(q - 1) : s[m] = ResultOf(s[p].call) BY <2>4, <2>5
  <2>7. s[m].kind = "result" /\ s[m].call.id = s[q].call.id BY <2>6, Fields
  <2> QED BY <2>7 DEF Has
<1>9. OpenAt(s, c, q) BY <1>4, <1>6, <1>7, <1>8 DEF OpenAt
<1> QED BY <1>9

-----------------------------------------------------------------------------
(* The calls that a turn may take up: those that wait for an answer, and    *)
(* those that were held back.                                               *)
RequestedIn(h, c) == \E i \in ToSet(h) : i.kind = "request" /\ i.call = c
Wanted(tag, c) == c.id = tag /\ ~Told(history, c) /\ (RequestedIn(history, c) \/ \E r \in pending : r.call = c)
Stands(tag, c) == Wanted(tag, c) \/ (c.id = tag /\ \E a \in autoApproved : a.call = c)
Settled(tag) == ApprovalInv /\ TraceInv(tag) /\ Attributable(tag)

LEMMA KeptIsAttributed ==
  ASSUME NEW tag, NEW r, ~Overshadowed(r) PROVE Attributed(tag, history, r)
BY DEF Overshadowed, Attributed, Rival

LEMMA WantedIs ==
  ASSUME NEW tag, Settled(tag), NEW c, Wanted(tag, c)
  PROVE  /\ c \in Known /\ Behind(tag, history, c) /\ \A i \in ToSet(history) : Rival(tag, i.call, c) => i.call.no < c.no
         /\ \A h \in hand : h.call.id = c.id => h.call = c
         /\ ~NotRequested(c)
<1>0. /\ history \in Seq(ItemsOf(Known)) /\ \A i \in ToSet(history) : i.call \in Known
      /\ \A r \in pending : r.kind = "request" /\ r.call \in Known
  BY TurnCalls DEF Settled
<1>1. Ordered(tag, history) BY DEF Settled, TraceInv
<1>2. ~Told(history, c) BY DEF Wanted
<1>3. CASE RequestedIn(history, c)
  <2>1. PICK i \in ToSet(history) : i.kind = "request" /\ i.call = c BY <1>3 DEF RequestedIn
  <2>2. Attributed(tag, history, i) BY DEF Attributed
  <2>3. Behind(tag, history, c) /\ \A j \in ToSet(history) : Rival(tag, j.call, c) => j.call.no < c.no
    BY <1>0, <1>1, <1>2, <2>1, <2>2, AttributedBehind
  <2>4. ASSUME NEW h \in hand, h.call.id = c.id PROVE h.call = c
    <3>1. Behind(tag, history, h.call) /\ c.id = tag BY DEF Settled, TraceInv, HandInv, Wanted
    <3> QED BY <1>2, <2>1, <2>4, <3>1 DEF Behind, Rival
  <2>5. ~NotRequested(c)
    <3>1. PICK p \in 1..Len(history) : history[p] = i BY <1>0, MemberIs
    <3> QED BY <2>1, <3>1 DEF NotRequested
  <2> QED BY <1>0, <2>1, <2>3, <2>4, <2>5
<1>4. CASE \E r \in pending : r.call = c
  <2>1. PICK r \in pending : r.call = c BY <1>4
  <2>0. c.id = tag BY DEF Wanted
  <2>2. Attributed(tag, history, r)
    <3>1. ~Overshadowed(r) BY <2>0, <2>1 DEF Settled, Attributable
    <3> QED BY <3>1, KeptIsAttributed
  <2>3. Behind(tag, history, c) /\ \A j \in ToSet(history) : Rival(tag, j.call, c) => j.call.no < c.no
    BY <1>0, <1>1, <1>2, <2>1, <2>2, AttributedBehind
  <2>4. ASSUME NEW h \in hand, h.call.id = c.id PROVE h.call = c BY <2>0, <2>1, <2>4 DEF Settled, TraceInv, HandInv
  <2>5. ~NotRequested(c) BY <2>1 DEF NotRequested
  <2> QED BY <1>0, <2>1, <2>3, <2>4, <2>5
<1> QED BY <1>3, <1>4 DEF Wanted

LEMMA WantedOne ==
  ASSUME NEW tag, Settled(tag), NEW c, Wanted(tag, c), NEW d, Wanted(tag, d), c.id = d.id
  PROVE  c = d
<1>1. Behind(tag, history, c) /\ Behind(tag, history, d) BY WantedIs
<1>2. ~Told(history, c) /\ ~Told(history, d) BY DEF Wanted
<1>0. c.id = tag /\ d.id = tag BY DEF Wanted
<1>3. CASE RequestedIn(history, c) BY <1>0, <1>1, <1>2, <1>3 DEF RequestedIn, Behind, Rival
<1>4. CASE RequestedIn(history, d) BY <1>0, <1>1, <1>2, <1>4 DEF RequestedIn, Behind, Rival
<1>5. CASE ~RequestedIn(history, c) /\ ~RequestedIn(history, d)
  <2>1. PICK r \in pending : r.call = c BY <1>5 DEF Wanted
  <2>2. PICK o \in pending : o.call = d BY <1>5 DEF Wanted
  <2> QED BY <1>0, <2>1, <2>2 DEF Settled, TraceInv, PendInv
<1> QED BY <1>3, <1>4, <1>5

LEMMA AutoIs ==
  ASSUME NEW tag, Settled(tag), NEW a \in autoApproved, NEW c, c = a.call, c.id = tag
  PROVE  /\ c \in Known /\ ~Told(history, c) /\ NotRequested(c) /\ NewestOf(Known, c) /\ c.tool \in Free
         /\ Behind(tag, history, c) /\ ~Answer(history, c)
         /\ \A k \in Known : Rival(tag, k, c) => k.no < c.no
         /\ \A d : Wanted(tag, d) => c.id # d.id
         /\ \A r \in pending : r.call.id # c.id
<1>1. /\ history \in Seq(ItemsOf(Known)) /\ c \in Known /\ \A i \in ToSet(history) : i.call \in Known
  BY TurnCalls DEF Settled
<1>2. ~Told(history, c) /\ NotRequested(c) /\ HeldBack(a) BY DEF Settled, ApprovalInv, HistoryInv
<1>3. NewestOf(Known, c) /\ c.id \notin CallIds(pending) /\ ~Answer(history, c)
  BY DEF Settled, TraceInv, AutoInv
<1>4. ~Orphaned(a) BY DEF Settled, Attributable
<1>5. \A r \in pending : r.call.id # c.id BY <1>3 DEF CallIds
<1>6. ASSUME NEW k \in Known, Rival(tag, k, c) PROVE k.no < c.no
  <2>1. k.no <= c.no BY <1>3, <1>6 DEF NewestOf, Rival
  <2>2. k.no \in Nat /\ c.no \in Nat /\ k.no # c.no
    BY <1>1, <1>6, KnownAre DEF Settled, ApprovalInv, Rival
  <2> QED BY <2>1, <2>2
<1>7. ASSUME NEW i \in ToSet(history), i.kind = "request", i.call.id = c.id PROVE Told(history, i.call)
  <2>1. PICK p \in 1..Len(history) : history[p] = i BY <1>1, MemberIs
  <2>2. i.call # c BY <1>2, <1>7, <2>1 DEF NotRequested
  <2>3. ResultOf(i.call) \in ToSet(history) BY <1>4, <1>7, <2>2 DEF Orphaned
  <2> QED BY <1>1, <2>3, ToldIs
<1>8. Behind(tag, history, c) BY <1>1, <1>6, <1>7 DEF Behind, Rival
<1>9. ASSUME NEW d, Wanted(tag, d) PROVE c.id # d.id
  <2>1. CASE RequestedIn(history, d) BY <1>7, <1>9, <2>1 DEF RequestedIn, Wanted
  <2>2. CASE \E r \in pending : r.call = d BY <1>5, <2>2
  <2> QED BY <1>9, <2>1, <2>2 DEF Wanted
<1>10. c.tool \in Free BY <1>2 DEF HeldBack
<1> QED BY <1>1, <1>2, <1>3, <1>5, <1>6, <1>8, <1>9, <1>10

LEMMA StandsIs ==
  ASSUME NEW tag, Settled(tag), NEW c, Stands(tag, c)
  PROVE  /\ c \in Known /\ ~Told(history, c) /\ Behind(tag, history, c)
         /\ \A i \in ToSet(history) : Rival(tag, i.call, c) => i.call.no < c.no
         /\ \A h \in hand : Rival(tag, h.call, c) => h.call.no < c.no
         /\ \A d : Stands(tag, d) /\ c.id = d.id => c = d
         /\ Answer(history, c) => Raw(c) \in ToSet(history)
         /\ keeps => c \in owed
<1>0. \A i \in ToSet(history) : i.call \in Known BY TurnCalls DEF Settled
<1>9. \A h \in hand : h.call \in Known BY TurnCalls DEF Settled
<1>8. c.id = tag BY DEF Stands, Wanted
<1>1. CASE Wanted(tag, c)
  <2>1. /\ c \in Known /\ Behind(tag, history, c) /\ \A i \in ToSet(history) : Rival(tag, i.call, c) => i.call.no < c.no
        /\ (\A h \in hand : h.call.id = c.id => h.call = c) /\ ~NotRequested(c)
    BY <1>1, WantedIs
  <2>2. ~Told(history, c) BY <1>1 DEF Wanted
  <2>3. ASSUME NEW d, Stands(tag, d), c.id = d.id PROVE c = d
    <3>1. CASE Wanted(tag, d) BY <1>1, <2>3, <3>1, WantedOne
    <3>2. CASE \E a \in autoApproved : a.call = d
      <4>1. d.id # c.id BY <1>1, <1>8, <2>3, <3>2, AutoIs
      <4> QED BY <2>3, <4>1
    <3> QED BY <2>3, <3>1, <3>2 DEF Stands
  <2>4. Answer(history, c) => Raw(c) \in ToSet(history) BY <1>8, <2>1 DEF Settled, TraceInv, AnswerInv
  <2>5. ASSUME keeps PROVE c \in owed
    <3>1. history = <<>> BY <2>5 DEF Settled, ApprovalInv, KeeperInv
    <3>2. ~RequestedIn(history, c)
      <4>1. ToSet(<<>>) = {} BY DEF ToSet
      <4> QED BY <3>1, <4>1 DEF RequestedIn
    <3>3. \E r \in pending : r.call = c BY <1>1, <3>2 DEF Wanted
    <3> QED BY <1>8, <2>5, <3>3 DEF Settled, TraceInv, OwedInv, Calls
  <2>6. \A h \in hand : Rival(tag, h.call, c) => h.call.no < c.no BY <2>1 DEF Rival
  <2> QED BY <2>1, <2>2, <2>3, <2>4, <2>5, <2>6
<1>2. CASE \E a \in autoApproved : a.call = c
  <2>0. PICK a \in autoApproved : a.call = c BY <1>2
  <2>1. /\ c \in Known /\ ~Told(history, c) /\ Behind(tag, history, c) /\ ~Answer(history, c)
        /\ NewestOf(Known, c) /\ (\A k \in Known : Rival(tag, k, c) => k.no < c.no)
        /\ \A d : Wanted(tag, d) => c.id # d.id
    BY <1>8, <2>0, AutoIs
  <2>2. ASSUME NEW d, Stands(tag, d), c.id = d.id PROVE c = d
    <3>1. CASE Wanted(tag, d) BY <2>1, <2>2, <3>1
    <3>2. CASE \E b \in autoApproved : b.call = d
      <4>1. d \in Known /\ \A k \in Known : Rival(tag, k, d) => k.no < d.no BY <1>8, <2>2, <3>2, AutoIs
      <4>2. SUFFICES ASSUME c # d PROVE FALSE OBVIOUS
      <4>3. Rival(tag, c, d) /\ Rival(tag, d, c) BY <1>8, <2>2, <4>2 DEF Rival
      <4>4. c.no < d.no /\ d.no < c.no BY <2>1, <4>1, <4>3
      <4>5. c.no \in Nat /\ d.no \in Nat BY <2>1, <4>1, KnownAre DEF Settled, ApprovalInv
      <4> QED BY <4>4, <4>5
    <3> QED BY <2>2, <3>1, <3>2 DEF Stands
  <2>3. keeps => c \in owed BY <1>8, <2>0 DEF Settled, TraceInv, OwedInv, Calls
  <2> QED BY <1>0, <1>9, <2>1, <2>2, <2>3
<1> QED BY <1>1, <1>2 DEF Stands

-----------------------------------------------------------------------------
(* What is sent when the caller says something about requests it holds.     *)
Sends(said, s, sent, n, from) ==
  /\ said \in Seq(ItemsOf(Known)) /\ s \in Seq(ItemsOf(Known)) /\ s = history \o said
  /\ \A i \in ToSet(said) : i.kind = "decision" /\ \E h \in hand : h.call = i.call
  /\ sent \in Seq(ItemsOf(Known)) /\ Carries(sent, n, s, pending, autoApproved, from)
  /\ Scene(Known, s, pending, autoApproved)

LEMMA SendsSomething ==
  ASSUME NEW tag, Settled(tag), NEW said \in Seq(DecisionsOf(Known)), \A i \in ToSet(said) : \E h \in hand : h.call = i.call,
         NEW s, s = history \o said,
         NEW sent, sent = BoundDecisions(s, pending) \o Listed({Decision(r.call, TRUE) : r \in autoApproved})
  PROVE  \E n, from : Sends(said, s, sent, n, from)
<1>1. history \in Seq(ItemsOf(Known)) BY TurnCalls DEF Settled
<1>2. said \in Seq(ItemsOf(Known)) BY KindsIn
<1>3. s \in Seq(ItemsOf(Known)) BY <1>1, <1>2, JoinedIs
<1>4. Scene(Known, s, pending, autoApproved) BY SceneOfTurn DEF Settled
<1>5. sent \in Seq(ItemsOf(Known)) /\ \E n, from : Carries(sent, n, s, pending, autoApproved, from)
  BY <1>4, SentCarries
<1>6. \A i \in ToSet(said) : i.kind = "decision"
  <2>1. \A p \in 1..Len(said) : said[p].kind = "decision"
    <3>1. \A p \in 1..Len(said) : said[p] \in DecisionsOf(Known) OBVIOUS
    <3> QED BY <3>1, KindsIn
  <2> QED BY <1>2, <2>1, MemberIs
<1> QED BY <1>2, <1>3, <1>4, <1>5, <1>6 DEF Sends

LEMMA SendsIs ==
  ASSUME NEW tag, Settled(tag), NEW said, NEW s, NEW sent, NEW n, NEW from, Sends(said, s, sent, n, from)
  PROVE  /\ Tracks(sent, n, s, pending, autoApproved, from)
         /\ Ordered(tag, s) /\ NotReasked(s) /\ \A c : Told(s, c) <=> Told(history, c)
         /\ Len(s) \in Nat /\ DOMAIN s = 1..Len(s) /\ Len(sent) \in Nat /\ DOMAIN sent = 1..Len(sent)
         /\ \A p \in 1..Len(s) : /\ s[p] \in ItemsOf(Known) /\ (s[p].kind # "decision" => s[p] \in ToSet(history))
                                 /\ s[p] \in ToSet(history) \/ s[p] \in ToSet(said)
<1>1. /\ said \in Seq(ItemsOf(Known)) /\ s \in Seq(ItemsOf(Known)) /\ s = history \o said
      /\ \A i \in ToSet(said) : i.kind = "decision" /\ \E h \in hand : h.call = i.call
      /\ sent \in Seq(ItemsOf(Known)) /\ Carries(sent, n, s, pending, autoApproved, from)
      /\ Scene(Known, s, pending, autoApproved)
  BY DEF Sends
<1>2. Tracks(sent, n, s, pending, autoApproved, from) BY <1>1, CarriesTracks
<1>3. history \in Seq(ItemsOf(Known)) BY TurnCalls DEF Settled
<1>4. Ordered(tag, history) /\ NotReasked(history) BY DEF Settled, ApprovalInv, HistoryInv, TraceInv
<1>5. NotReasked(s) BY <1>1 DEF Scene
<1>6. \A i \in ToSet(said) : Behind(tag, history, i.call) BY <1>1 DEF Settled, TraceInv, HandInv
<1>7. /\ \A i \in ToSet(s) : i.kind # "decision" => i \in ToSet(history)
      /\ \A c : Told(s, c) <=> Told(history, c)
      /\ Ordered(tag, s)
  BY <1>1, <1>3, <1>4, <1>6, DecisionsBehind
<1>8. ToSet(s) = ToSet(history) \cup ToSet(said) BY <1>1, <1>3, JoinedIs
<1>9. \A p \in 1..Len(s) : s[p] \in ToSet(s) /\ s[p] \in ItemsOf(Known)
  <2>1. s \in Seq(ItemsOf(Known)) BY <1>1
  <2>2. \A p \in 1..Len(s) : s[p] \in ItemsOf(Known) BY <2>1
  <2>3. \A p \in 1..Len(s) : s[p] \in ToSet(s) BY <2>1, MemberIs
  <2> QED BY <2>2, <2>3
<1>10. Len(s) \in Nat /\ DOMAIN s = 1..Len(s) /\ Len(sent) \in Nat /\ DOMAIN sent = 1..Len(sent) BY <1>1
<1> QED BY <1>2, <1>5, <1>7, <1>8, <1>9, <1>10

LEMMA RequestAtOpen ==
  ASSUME NEW s, NEW stored, NEW q, NEW r, r = RequestAt(s, stored, q)
  PROVE  r = s[q] \/ (~Closed(s, q) /\ r \in stored /\ r.call.id = s[q].call.id)
BY DEF RequestAt

(* A decision is bound to a request for its own call.                       *)
LEMMA PendingIsWanted ==
  ASSUME NEW tag, Settled(tag), NEW r \in pending, r.call.id = tag PROVE Wanted(tag, r.call)
BY DEF Settled, ApprovalInv, BatchInv, Wanted

LEMMA RequestAtIsSame ==
  ASSUME NEW tag, Settled(tag), NEW said, NEW s, NEW sent, NEW n, NEW from, Sends(said, s, sent, n, from),
         NEW q \in 1..Len(s), s[q].kind = "request", s[q].call.id = tag, NEW r, r = RequestAt(s, pending, q)
  PROVE  r.call = s[q].call /\ RequestedIn(history, r.call)
<1>0. /\ Ordered(tag, s) /\ NotReasked(s) /\ (\A c : Told(s, c) <=> Told(history, c)) /\ s[q] \in ToSet(history)
      /\ Len(s) \in Nat
  BY SendsIs
<1>1. CASE r = s[q] BY <1>0, <1>1 DEF RequestedIn
<1>2. CASE ~Closed(s, q) /\ r \in pending /\ r.call.id = s[q].call.id
  <2>1. Behind(tag, history, r.call) BY <1>2, PendingIsWanted, WantedIs
  <2>2. ASSUME Rival(tag, s[q].call, r.call) PROVE FALSE
    <3>1. Told(s, s[q].call) BY <1>0, <2>1, <2>2 DEF Behind
    <3>2. s \in Seq(ItemsOf(Known)) BY DEF Sends
    <3>3. PICK m \in (q + 1)..Len(s) : s[m] = ResultOf(s[q].call) BY <1>0, <3>1, <3>2, AfterRequest
    <3>4. s[m].kind = "result" /\ s[m].call.id = s[q].call.id BY <3>3, Fields
    <3> QED BY <1>2, <3>4 DEF Closed, Has
  <2>3. r.call = s[q].call BY <1>2, <2>2 DEF Rival
  <2> QED BY <1>0, <2>3 DEF RequestedIn
<1> QED BY <1>1, <1>2, RequestAtOpen

LEMMA BoundIsSame ==
  ASSUME NEW tag, Settled(tag), NEW said, NEW s, NEW sent, NEW n, NEW from, Sends(said, s, sent, n, from),
         NEW p \in 1..Len(s), s[p].call.id = tag, NEW r \in BoundTo(s, pending, p)
  PROVE  r.call = s[p].call /\ (RequestedIn(history, r.call) \/ r \in pending)
<1>0. /\ Ordered(tag, s) /\ NotReasked(s) /\ (\A c : Told(s, c) <=> Told(history, c))
      /\ Len(s) \in Nat /\ DOMAIN s = 1..Len(s) /\ (s[p] \in ToSet(history) \/ s[p] \in ToSet(said))
      /\ s \in Seq(ItemsOf(Known))
  BY SendsIs DEF Sends
<1>1. /\ r.call.id = s[p].call.id
      /\ \/ \E q \in DOMAIN s : Opens(s, q) /\ Settles(s, p, q) /\ r = RequestAt(s, pending, q)
         \/ r \in OnlyStored(s, pending) /\ SettlesStored(s, p, r)
  BY BoundToIs
<1>2. CASE \E q \in DOMAIN s : Opens(s, q) /\ Settles(s, p, q) /\ r = RequestAt(s, pending, q)
  <2>1. PICK q \in 1..Len(s) : Opens(s, q) /\ Settles(s, p, q) /\ r = RequestAt(s, pending, q) BY <1>0, <1>2
  <2>2. s[q].kind = "request" BY <2>1 DEF Opens
  <2>4. q < p /\ s[p].call.id = s[q].call.id /\ ~Has(s, "result", s[q].call.id, q + 1, p - 1) BY <2>1 DEF Settles
  <2>3. r.call = s[q].call /\ RequestedIn(history, r.call) BY <2>1, <2>2, <2>4, RequestAtIsSame
  <2>5. ASSUME s[p].call # s[q].call PROVE FALSE
    <3>1. Rival(tag, s[q].call, s[p].call) BY <2>4, <2>5 DEF Rival
    <3>2. \/ s[q].call.no < s[p].call.no /\ \E m \in (q + 1)..(p - 1) : s[m] = ResultOf(s[q].call)
          \/ s[p].call.no < s[q].call.no /\ p < q
      BY <1>0, <2>2, <3>1 DEF Ordered
    <3>3. ~(p < q) BY <1>0, <2>4
    <3>4. PICK m \in (q + 1)..(p - 1) : s[m] = ResultOf(s[q].call) BY <3>2, <3>3
    <3>5. s[m].kind = "result" /\ s[m].call.id = s[q].call.id BY <3>4, Fields
    <3> QED BY <2>4, <3>5 DEF Has
  <2> QED BY <2>3, <2>5
<1>3. CASE r \in OnlyStored(s, pending) /\ SettlesStored(s, p, r)
  <2>1. r \in pending /\ \A q \in OpenOnes(s) : s[q].call.id # r.call.id BY <1>3 DEF OnlyStored
  <2>2. Wanted(tag, r.call) /\ r.kind = "request" BY <1>1, <2>1, PendingIsWanted, TurnCalls DEF Settled
  <2>3. SUFFICES ASSUME s[p].call # r.call PROVE FALSE BY <2>1
  <2>4. CASE s[p] \in ToSet(said)
    <3>1. PICK h \in hand : h.call = s[p].call BY <2>4 DEF Sends
    <3> QED BY <1>1, <2>2, <2>3, <3>1, WantedIs
  <2>5. CASE s[p] \in ToSet(history)
    <3>1. Rival(tag, s[p].call, r.call) BY <1>1, <2>3 DEF Rival
    <3>0. ~Overshadowed(r) BY <1>1, <2>1 DEF Settled, Attributable
    <3>2. Attributed(tag, history, r) BY <3>0, KeptIsAttributed
    <3>3. r \in ToSet(history) BY <2>5, <3>1, <3>2 DEF Attributed
    <3>4. history \in Seq(ItemsOf(Known)) /\ said \in Seq(ItemsOf(Known)) /\ s = history \o said
      BY TurnCalls DEF Settled, Sends
    <3>5. r \in ToSet(s) BY <3>3, <3>4, JoinedIs
    <3>6. PICK i \in 1..Len(s) : s[i] = r BY <1>0, <3>5, MemberIs
    <3>7. ~Told(s, r.call) BY <1>0, <2>2 DEF Wanted
    <3>8. PICK q : OpenAt(s, r.call, q) BY <1>0, <1>1, <2>2, <3>6, <3>7, OpenRequest
    <3>9. q \in OpenOnes(s) /\ s[q].call.id = r.call.id BY <1>0, <3>8 DEF OpenAt, OpenOnes, Occurrences
    <3> QED BY <2>1, <3>9
  <2> QED BY <1>0, <2>4, <2>5
<1> QED BY <1>1, <1>2, <1>3

-----------------------------------------------------------------------------
LEMMA StillWanted ==
  ASSUME NEW tag, Settled(tag), NEW said, NEW s, NEW sent, NEW n, NEW from, Sends(said, s, sent, n, from),
         NEW r \in StillPending(s, pending), r.call.id = tag
  PROVE  Wanted(tag, r.call)
<1>1. DOMAIN s = 1..Len(s) /\ \A c : Told(s, c) <=> Told(history, c) BY SendsIs
<1>2. ~Told(s, r.call)
  <2>1. Scene(Known, s, pending, autoApproved) BY DEF Sends
  <2> QED BY <2>1, PendingStaysOpen
<1>3. CASE \E q \in DOMAIN s : Opens(s, q) /\ r = RequestAt(s, pending, q)
  <2>1. PICK q \in 1..Len(s) : Opens(s, q) /\ r = RequestAt(s, pending, q) BY <1>1, <1>3
  <2>2. s[q].kind = "request" /\ s[q].call.id = tag BY <2>1, RequestAtOpen DEF Opens
  <2>3. RequestedIn(history, r.call) BY <2>1, <2>2, RequestAtIsSame
  <2> QED BY <1>1, <1>2, <2>3 DEF Wanted
<1>4. CASE r \in OnlyStored(s, pending) BY <1>4, PendingIsWanted DEF OnlyStored
<1> QED BY <1>3, <1>4, StillPendingIs

(* What is sent has the items of the transcript as they are; of another id, *)
(* a decision may be on another call.                                       *)
LEMMA SentIsSame ==
  ASSUME NEW tag, Settled(tag), NEW said, NEW s, NEW sent, NEW n, NEW from, Sends(said, s, sent, n, from),
         NEW i \in 1..n
  PROVE  /\ i \in 1..Len(sent) /\ from[i] \in 1..Len(s)
         /\ sent[i].call.id = s[from[i]].call.id /\ sent[i].kind = s[from[i]].kind
         /\ sent[i].kind # "decision" \/ sent[i].call.id = tag => sent[i] = s[from[i]]
<1>1. /\ Tracks(sent, n, s, pending, autoApproved, from) /\ Len(s) \in Nat
      /\ \A p \in 1..Len(s) : s[p] \in ItemsOf(Known)
  BY SendsIs
<1>2. i \in 1..Len(sent) /\ from[i] \in 1..Len(s) BY <1>1 DEF Tracks
<1>3. CASE s[from[i]].kind # "decision" BY <1>2, <1>3 DEF Sends, Carries
<1>4. CASE s[from[i]].kind = "decision"
  <2>1. PICK r \in BoundTo(s, pending, from[i]) : sent[i] = Decision(r.call, s[from[i]].yes)
    BY <1>4 DEF Sends, Carries
  <2>2. r.call.id = s[from[i]].call.id BY <1>2, <2>1, BoundToIs
  <2>3. sent[i].kind = "decision" /\ sent[i].call = r.call BY <2>1, Fields
  <2>4. s[from[i]].call.id = tag => r.call = s[from[i]].call BY <1>2, <2>1, BoundIsSame
  <2>5. s[from[i]] = Decision(s[from[i]].call, s[from[i]].yes) BY <1>1, <1>2, <1>4, ItemIs
  <2> QED BY <1>2, <1>4, <2>1, <2>2, <2>3, <2>4, <2>5
<1> QED BY <1>2, <1>3, <1>4

(* What is decided is a decision of the transcript on a call that waits for *)
(* it, or the yes to what was held back.                                    *)
LEMMA DecidedStands ==
  ASSUME NEW tag, Settled(tag), NEW said, NEW s, NEW sent, NEW n, NEW from, Sends(said, s, sent, n, from),
         NEW d \in Decided(sent), d.call.id = tag
  PROVE  \/ Wanted(tag, d.call) /\ d.kind = "decision" /\ (d \in ToSet(history) \/ d \in ToSet(said))
         \/ \E a \in autoApproved : d.call = a.call
<1>0. /\ Scene(Known, s, pending, autoApproved) /\ sent \in Seq(ItemsOf(Known)) BY DEF Sends
<1>1. /\ Tracks(sent, n, s, pending, autoApproved, from) /\ Len(sent) \in Nat /\ Len(s) \in Nat
      /\ (\A c : Told(s, c) <=> Told(history, c))
      /\ \A p \in 1..Len(s) : s[p] \in ToSet(history) \/ s[p] \in ToSet(said)
  BY SendsIs
<1>2. PICK i \in 1..Len(sent) : d = sent[i] /\ Actionable(sent, i) BY <1>0, DecidedIs
<1>3. sent[i].kind = "decision" BY <1>2 DEF Actionable
<1>4. ~Told(history, d.call)
  <2>1. ~Told(sent, d.call) BY <1>0, <1>1, DecidedIsOpen
  <2>2. Told(sent, d.call) <=> Told(s, d.call) BY <1>0, <1>1, SentFits
  <2> QED BY <1>1, <2>1, <2>2
<1>5. CASE i \in 1..n
  <2>1. from[i] \in 1..Len(s) /\ sent[i] = s[from[i]] BY <1>2, <1>5, SentIsSame
  <2>2. PICK r \in BoundTo(s, pending, from[i]) : TRUE BY <1>3, <1>5, <2>1 DEF Sends, Carries
  <2>3. r.call = d.call /\ (RequestedIn(history, r.call) \/ r \in pending) BY <1>2, <2>1, <2>2, BoundIsSame
  <2>4. Wanted(tag, d.call) BY <1>4, <2>3 DEF Wanted
  <2> QED BY <1>1, <1>2, <1>3, <2>1, <2>4
<1>6. CASE i \notin 1..n BY <1>1, <1>2, <1>3, <1>6 DEF Tracks
<1> QED BY <1>5, <1>6

LEMMA UnansweredWanted ==
  ASSUME NEW tag, Settled(tag), NEW said, NEW s, NEW sent, NEW n, NEW from, Sends(said, s, sent, n, from),
         NEW r \in Unanswered(sent), r.call.id = tag
  PROVE  Wanted(tag, r.call)
<1>0. /\ Scene(Known, s, pending, autoApproved) /\ sent \in Seq(ItemsOf(Known)) BY DEF Sends
<1>1. /\ Tracks(sent, n, s, pending, autoApproved, from) /\ Len(sent) \in Nat /\ DOMAIN sent = 1..Len(sent)
      /\ (\A c : Told(s, c) <=> Told(history, c))
      /\ \A p \in 1..Len(s) : s[p].kind # "decision" => s[p] \in ToSet(history)
  BY SendsIs
<1>2. PICK i \in 1..Len(sent) : r = sent[i] /\ sent[i].kind = "request" BY <1>1 DEF Unanswered
<1>3. ~Told(history, r.call)
  <2>1. NotReasked(sent) /\ (\A c : Told(sent, c) <=> Told(s, c)) BY <1>0, <1>1, SentFits
  <2>2. ~Told(sent, r.call) BY <1>0, <2>1, UnansweredIs
  <2> QED BY <1>1, <2>1, <2>2
<1>4. CASE i \in 1..n
  <2>1. from[i] \in 1..Len(s) /\ sent[i] = s[from[i]] BY <1>2, <1>4, SentIsSame
  <2>2. r \in ToSet(history) BY <1>1, <1>2, <2>1
  <2> QED BY <1>2, <1>3, <2>2 DEF Wanted, RequestedIn
<1>5. CASE i \notin 1..n
  <2>1. r \in StillPending(s, pending) BY <1>1, <1>2, <1>5 DEF Tracks
  <2> QED BY <2>1, StillWanted
<1> QED BY <1>4, <1>5

-----------------------------------------------------------------------------
(* Of the decisions of an id that are acted on, the last one counts.        *)
LEMMA LastCounts ==
  ASSUME NEW K, NEW t \in Seq(ItemsOf(K)), NEW x \in 1..Len(t), Actionable(t, x), NEW id, id = t[x].call.id
  PROVE  \E y \in 1..Len(t) : Actionable(t, y) /\ t[y].kind = "decision" /\ t[y].call.id = id /\ t[y] \in Decided(t)
<1> DEFINE Z == {o \in 1..Len(t) : Actionable(t, o) /\ t[o].call.id = id}
<1>1. Len(t) \in Nat /\ DOMAIN t = 1..Len(t) OBVIOUS
<1>2. x \in Z OBVIOUS
<1>3. Z \subseteq 0..Len(t) /\ Z # {} BY <1>1, <1>2
<1>4. PICK y \in Z : \A o \in Z : o <= y BY <1>1, <1>3, GreatestNat
<1>5. y \in DOMAIN t /\ Actionable(t, y) /\ t[y].call.id = id BY <1>1, <1>4
<1>6. \A o \in DOMAIN t : Actionable(t, o) /\ t[o].call.id = t[y].call.id => o <= y BY <1>1, <1>4, <1>5
<1>7. t[y] \in Decided(t) BY <1>5, <1>6 DEF Decided
<1>8. t[y].kind = "decision" BY <1>1, <1>5, ActionableIs
<1> QED BY <1>1, <1>5, <1>7, <1>8

(* After the only request of an id that is open, a decision is acted on.    *)
LEMMA ActsAfter ==
  ASSUME NEW K, NEW t \in Seq(ItemsOf(K)), NEW j \in 1..Len(t), Opens(t, j), NEW id, id = t[j].call.id,
         \A m \in 1..Len(t) : t[m].kind = "result" /\ t[m].call.id = id => m <= j
  PROVE  /\ OpenedAt(t, id) = j
         /\ \A x \in 1..Len(t) : t[x].kind = "decision" /\ t[x].call.id = id /\ j < x => Actionable(t, x)
<1>1. Len(t) \in Nat /\ t[j].kind = "request" BY DEF Opens
<1>2. OpenedAt(t, id) \in 0..Len(t) /\ j <= OpenedAt(t, id) BY OpenedAtIs
<1>3. OpenedAt(t, id) = j
  <2> SUFFICES ASSUME OpenedAt(t, id) # j PROVE FALSE OBVIOUS
  <2> DEFINE k == OpenedAt(t, id)
  <2>1. k \in 1..Len(t) /\ j < k /\ k # 0 BY <1>1, <1>2
  <2>2. Opens(t, k) /\ t[k].call.id = id BY <2>1, OpenedAtIs
  <2>3. j \in 1..(k - 1) BY <2>1
  <2>4. Has(t, "result", id, j + 1, k - 1) BY <1>1, <2>2, <2>3 DEF Opens
  <2>5. PICK m \in (j + 1)..(k - 1) : t[m].kind = "result" /\ t[m].call.id = id BY <2>4 DEF Has
  <2>6. m \in 1..Len(t) /\ ~(m <= j) BY <1>1, <2>1
  <2> QED BY <2>5, <2>6
<1>4. LastOf(t, "result", id) < j
  <2>1. LastOf(t, "result", id) \in 0..Len(t) BY LastOfIs
  <2>2. CASE LastOf(t, "result", id) = 0 BY <1>1, <2>2
  <2>3. CASE LastOf(t, "result", id) # 0
    <3>1. LastOf(t, "result", id) \in 1..Len(t) BY <1>1, <2>1, <2>3
    <3>2. t[LastOf(t, "result", id)].kind = "result" /\ t[LastOf(t, "result", id)].call.id = id BY <2>3, LastOfIs
    <3>3. LastOf(t, "result", id) # j BY <1>1, <3>2
    <3>4. LastOf(t, "result", id) <= j BY <3>1, <3>2
    <3> QED BY <1>1, <3>1, <3>3, <3>4
  <2> QED BY <2>2, <2>3
<1>5. ASSUME NEW x \in 1..Len(t), t[x].kind = "decision", t[x].call.id = id, j < x
      PROVE  Actionable(t, x)
  <2>1. j # 0 /\ j > LastOf(t, "result", id) /\ x > j BY <1>1, <1>4, <1>5, LastOfIs
  <2> QED BY <1>3, <1>5, <2>1 DEF Actionable
<1> QED BY <1>3, <1>5

(* What the caller says of a call that was asked for in the transcript, or  *)
(* that only the store has, is acted on.                                    *)
LEMMA HeardInTranscript ==
  ASSUME NEW tag, Settled(tag), NEW said, NEW s, NEW sent, NEW n, NEW from, Sends(said, s, sent, n, from),
         NEW c, Wanted(tag, c), RequestedIn(history, c), c \in Calls(ToSet(said))
  PROVE  \E j \in 1..n : \E i \in 1..Len(sent) :
           /\ from[j] \in 1..Len(s) /\ OpenAt(s, c, from[j]) /\ OpenedAt(sent, c.id) = j
           /\ Actionable(sent, i) /\ sent[i].call.id = c.id
<1>1. /\ said \in Seq(ItemsOf(Known)) /\ s \in Seq(ItemsOf(Known)) /\ s = history \o said
      /\ \A i \in ToSet(said) : i.kind = "decision"
      /\ sent \in Seq(ItemsOf(Known)) /\ Carries(sent, n, s, pending, autoApproved, from)
      /\ Scene(Known, s, pending, autoApproved)
  BY DEF Sends
<1>2. history \in Seq(ItemsOf(Known)) BY TurnCalls DEF Settled
<1>3. /\ Tracks(sent, n, s, pending, autoApproved, from) /\ Ordered(tag, s)
      /\ (\A d : Told(s, d) <=> Told(history, d)) /\ Len(s) \in Nat /\ Len(sent) \in Nat /\ DOMAIN s = 1..Len(s)
  BY SendsIs
<1>4. /\ Len(history) \in Nat /\ Len(said) \in Nat /\ Len(s) = Len(history) + Len(said)
      /\ \A i \in 1..Len(history) : i \in 1..Len(s) /\ s[i] = history[i]
      /\ \A j \in 1..Len(said) : Len(history) + j \in 1..Len(s) /\ s[Len(history) + j] = said[j]
      /\ \A k \in 1..Len(s) : k \in 1..Len(history) \/ (k > Len(history) /\ \E j \in 1..Len(said) : k = Len(history) + j)
  BY <1>1, <1>2, JoinedIs
<1>5. PICK q : OpenAt(s, c, q)
  <2>1. PICK p \in 1..Len(history) : history[p].kind = "request" /\ history[p].call = c
    BY <1>2, MemberIs DEF RequestedIn
  <2>2. p \in 1..Len(s) /\ s[p].kind = "request" /\ s[p].call = c BY <1>4, <2>1
  <2>3. ~Told(s, c) BY <1>3 DEF Wanted
  <2>4. c.id = tag BY DEF Wanted
  <2> QED BY <1>1, <1>3, <2>2, <2>3, <2>4, OpenRequest
<1>6. /\ q \in 1..Len(s) /\ Opens(s, q) /\ s[q].call = c /\ s[q].kind = "request" /\ ~Closed(s, q)
      /\ \A m \in 1..Len(s) : q < m /\ s[m].call.id = c.id => s[m].call = c /\ s[m].kind # "result"
  BY <1>5 DEF OpenAt
<1>7. q \in 1..Len(history)
  <2> SUFFICES ASSUME q \notin 1..Len(history) PROVE FALSE OBVIOUS
  <2>1. PICK j \in 1..Len(said) : q = Len(history) + j BY <1>4, <1>6
  <2>2. s[q] = said[j] /\ said[j] \in ToSet(said) BY <1>1, <1>4, <2>1, MemberIs
  <2> QED BY <1>1, <1>6, <2>2
<1>8. PICK x \in 1..Len(said) : said[x].call = c
  <2>1. PICK i \in ToSet(said) : i.call = c BY DEF Calls
  <2> QED BY <1>1, <2>1, MemberIs
<1>9. /\ Len(history) + x \in 1..Len(s) /\ q < Len(history) + x
      /\ s[Len(history) + x].kind = "decision" /\ s[Len(history) + x].call.id = s[q].call.id
  <2>1. said[x] \in ToSet(said) BY <1>1, MemberIs
  <2> QED BY <1>1, <1>4, <1>6, <1>7, <1>8, <2>1
<1>10. PICK o \in DOMAIN s : Settles(s, o, q) BY <1>1, <1>6, <1>9, FirstSettles
<1>11. o \in 1..Len(s) /\ q < o /\ s[o].kind = "decision" /\ s[o].call.id = c.id BY <1>3, <1>6, <1>10 DEF Settles
<1>12. o \in Kept(s, pending) /\ q \in Kept(s, pending)
  <2>1. q \in Occurrences(s) BY <1>3, <1>6 DEF Occurrences
  <2>2. RequestAt(s, pending, q) \in BoundTo(s, pending, o) BY <1>10, <2>1 DEF BoundTo
  <2> QED BY <1>3, <1>6, <1>11, <2>2 DEF Kept
<1>13. PICK i \in 1..n : from[i] = o BY <1>1, <1>11, <1>12 DEF Carries
<1>14. PICK j \in 1..n : from[j] = q BY <1>1, <1>6, <1>12 DEF Carries
<1>15. /\ i \in 1..Len(sent) /\ sent[i] = s[o] /\ j \in 1..Len(sent) /\ sent[j] = s[q]
  <2>1. c.id = tag BY DEF Wanted
  <2> QED BY <1>6, <1>11, <1>13, <1>14, <2>1, SentIsSame
<1>16. j < i BY <1>3, <1>11, <1>13, <1>14 DEF Tracks
<1>17. Opens(sent, j)
  <2>1. Opens(s, from[j]) /\ sent[j] = s[from[j]] BY <1>6, <1>14, <1>15
  <2>2. j \in 1..n BY <1>14
  <2>3. Scene(Known, s, pending, autoApproved) /\ sent \in Seq(ItemsOf(Known)) BY <1>1
  <2>4. Tracks(sent, n, s, pending, autoApproved, from) BY <1>3
  <2> QED BY ONLY <2>1, <2>2, <2>3, <2>4, SentOpens
<1>18. ASSUME NEW m \in 1..Len(sent), sent[m].kind = "result", sent[m].call.id = c.id
       PROVE  m <= j
  <2>1. m \in 1..n BY <1>3, <1>18 DEF Tracks
  <2>2. from[m] \in 1..Len(s) /\ sent[m] = s[from[m]] BY <1>18, <2>1, SentIsSame
  <2>3. ~(q < from[m]) BY <1>6, <1>18, <2>2
  <2>4. ~(from[j] < from[m]) BY <1>14, <2>3
  <2>5. ~(j < m) BY <1>3, <2>1, <2>4 DEF Tracks
  <2> QED BY <1>3, <1>15, <2>5
<1>19. /\ OpenedAt(sent, c.id) = j
       /\ \A y \in 1..Len(sent) : sent[y].kind = "decision" /\ sent[y].call.id = c.id /\ j < y => Actionable(sent, y)
  BY <1>1, <1>6, <1>15, <1>17, <1>18, ActsAfter
<1>20. Actionable(sent, i) /\ sent[i].call.id = c.id BY <1>11, <1>15, <1>16, <1>19
<1> QED BY <1>5, <1>6, <1>14, <1>15, <1>19, <1>20

LEMMA HeardInStore ==
  ASSUME NEW tag, Settled(tag), NEW said, NEW s, NEW sent, NEW n, NEW from, Sends(said, s, sent, n, from),
         NEW r \in pending, NEW c, c = r.call, c.id = tag, ~RequestedIn(history, c), c \in Calls(ToSet(said)), ~Answer(history, c)
  PROVE  /\ \E i \in 1..Len(sent) : Actionable(sent, i) /\ sent[i].call.id = c.id
         /\ \A m \in 1..Len(s) : s[m].call.id = c.id => s[m].kind \in {"call", "decision"}
<1>1. /\ said \in Seq(ItemsOf(Known)) /\ s \in Seq(ItemsOf(Known)) /\ s = history \o said
      /\ \A i \in ToSet(said) : i.kind = "decision"
      /\ sent \in Seq(ItemsOf(Known)) /\ Carries(sent, n, s, pending, autoApproved, from)
  BY DEF Sends
<1>2. history \in Seq(ItemsOf(Known)) /\ r.kind = "request" BY TurnCalls DEF Settled
<1>3. /\ Tracks(sent, n, s, pending, autoApproved, from) /\ Len(s) \in Nat /\ DOMAIN s = 1..Len(s)
      /\ Len(sent) \in Nat /\ DOMAIN sent = 1..Len(sent)
      /\ \A p \in 1..Len(s) : s[p] \in ToSet(history) \/ s[p] \in ToSet(said)
  BY SendsIs
<1>4. ~Told(history, c) BY PendingIsWanted DEF Wanted
<1>5. ASSUME NEW i \in ToSet(history), i.call.id = c.id
      PROVE  i.kind \in {"call", "decision"} /\ i.call = c
  <2>1. i.call = c
    <3>1. r \notin ToSet(history) BY <1>2 DEF RequestedIn
    <3>2. ~Overshadowed(r) BY DEF Settled, Attributable
    <3> QED BY <1>5, <3>1, <3>2 DEF Overshadowed
  <2>2. i.kind # "request" BY <2>1 DEF RequestedIn
  <2>3. i \in ItemsOf(Known) BY <1>2, CallsOf
  <2>4. i.kind # "result"
    <3>1. ResultOf(c) \notin ToSet(history) BY <1>2, <1>4, ToldIs
    <3> QED BY <2>1, <2>3, <3>1, ItemIs
  <2> QED BY <2>1, <2>2, <2>3, <2>4, ItemIs
<1>6. ASSUME NEW m \in 1..Len(s), s[m].call.id = c.id
      PROVE  s[m].kind \in {"call", "decision"}
  BY <1>1, <1>3, <1>5, <1>6
<1>7. \A q \in Occurrences(s) : s[q].call.id # c.id
  <2>1. \A q \in Occurrences(s) : q \in 1..Len(s) /\ s[q].kind = "request" BY <1>3 DEF Occurrences, Opens
  <2> QED BY <1>6, <2>1
<1>8. \A o \in 1..Len(s) : s[o].kind = "decision" /\ s[o].call.id = c.id => o \in Unbound(s)
  BY <1>3, <1>7 DEF Unbound, Settles
<1>9. PICK p \in 1..Len(s) : /\ s[p].kind = "decision" /\ s[p].call.id = c.id
                             /\ \A o \in 1..Len(s) : s[o].kind = "decision" /\ s[o].call.id = c.id => p <= o
  <2> DEFINE Z == {w \in 1..Len(s) : s[w].kind = "decision" /\ s[w].call.id = c.id}
  <2>1. PICK i \in ToSet(said) : i.call = c BY DEF Calls
  <2>2. i.kind = "decision" BY <1>1
  <2>3. ToSet(s) = ToSet(history) \cup ToSet(said) BY <1>1, <1>2, JoinedIs
  <2>4. PICK w \in 1..Len(s) : s[w] = i BY <1>1, <2>3, MemberIs
  <2>5. Z \subseteq Nat /\ Z # {} BY <1>3, <2>1, <2>2, <2>4
  <2>6. PICK p \in Z : \A o \in Z : p <= o BY <2>5, LeastNat
  <2> QED BY <2>6
<1>10. p \in Unbound(s) /\ \A o \in Unbound(s) : s[o].call.id = c.id => p <= o BY <1>3, <1>8, <1>9 DEF Unbound
<1>11. \A e \in pending : e.call.id = c.id => SettlesStored(s, p, e) /\ e \in OnlyStored(s, pending)
  BY <1>7, <1>9, <1>10 DEF SettlesStored, OnlyStored, OpenOnes
<1>12. p \in Kept(s, pending)
  <2>1. r \in BoundTo(s, pending, p) BY <1>11 DEF BoundTo
  <2> QED BY <1>3, <1>9, <2>1 DEF Kept
<1>13. PICK i \in 1..n : from[i] = p BY <1>1, <1>9, <1>12 DEF Carries
<1>14. i \in 1..Len(sent) /\ sent[i] = s[p] BY <1>9, <1>13, SentIsSame
<1>15. ASSUME NEW m \in 1..Len(sent), sent[m].call.id = c.id
       PROVE  sent[m].kind \notin {"request", "result"}
  <2>1. CASE m \in 1..n
    <3>1. from[m] \in 1..Len(s) /\ sent[m] = s[from[m]] BY <1>15, <2>1, SentIsSame
    <3> QED BY <1>6, <1>15, <3>1
  <2>2. CASE m \notin 1..n
    <3>1. sent[m].kind # "result" BY <1>3, <2>2 DEF Tracks
    <3>2. ASSUME sent[m].kind = "request" PROVE FALSE
      <4>1. sent[m] \in StillPending(s, pending) BY <1>3, <2>2, <3>2 DEF Tracks
      <4>2. CASE \E q \in DOMAIN s : Opens(s, q) /\ sent[m] = RequestAt(s, pending, q)
        <5>1. PICK q \in DOMAIN s : Opens(s, q) /\ sent[m] = RequestAt(s, pending, q) BY <4>2
        <5>2. s[q].call.id = c.id BY <1>15, <5>1, RequestAtIs
        <5> QED BY <1>7, <5>1, <5>2 DEF Occurrences
      <4>3. CASE sent[m] \in OnlyStored(s, pending) /\ \A o \in DOMAIN s : ~SettlesStored(s, o, sent[m])
        <5>1. sent[m] \in pending BY <4>3 DEF OnlyStored
        <5> QED BY <1>3, <1>9, <1>11, <1>15, <4>3, <5>1
      <4> QED BY <4>1, <4>2, <4>3, StillPendingIs
    <3> QED BY <3>1, <3>2
  <2> QED BY <2>1, <2>2
<1>16. OpenedAt(sent, c.id) = 0
  <2>1. OpenedAt(sent, c.id) \in 0..Len(sent) BY <1>1, OpenedAtIs
  <2>2. OpenedAt(sent, c.id) # 0 => sent[OpenedAt(sent, c.id)].kind = "request" /\ sent[OpenedAt(sent, c.id)].call.id = c.id
    BY <1>1, OpenedAtIs DEF Opens
  <2> QED BY <1>3, <1>15, <2>1, <2>2
<1>17. LastOf(sent, "result", c.id) = 0
  <2>1. LastOf(sent, "result", c.id) \in 0..Len(sent) BY <1>1, LastOfIs
  <2>2. LastOf(sent, "result", c.id) # 0 =>
          sent[LastOf(sent, "result", c.id)].kind = "result" /\ sent[LastOf(sent, "result", c.id)].call.id = c.id
    BY <1>1, LastOfIs
  <2> QED BY <1>3, <1>15, <2>1, <2>2
<1>18. Actionable(sent, i) /\ sent[i].call.id = c.id BY <1>9, <1>14, <1>16, <1>17 DEF Actionable
<1> QED BY <1>6, <1>14, <1>18

(* A human's first answer to a call that waits for it is acted on.          *)
LEMMA AnswerIsActedOn ==
  ASSUME NEW tag, Settled(tag), NEW said, NEW s, NEW sent, NEW n, NEW from, Sends(said, s, sent, n, from),
         NEW c, Wanted(tag, c), c \in Calls(ToSet(said)), ~Answer(history, c)
  PROVE  \E d \in Decided(sent) : d.call = c /\ d \in ToSet(said)
<1>1. /\ said \in Seq(ItemsOf(Known)) /\ sent \in Seq(ItemsOf(Known))
      /\ \A i \in ToSet(said) : i.kind = "decision" /\ \E h \in hand : h.call = i.call
  BY DEF Sends
<1>2. /\ Tracks(sent, n, s, pending, autoApproved, from) /\ Len(sent) \in Nat
      /\ \A p \in 1..Len(s) : s[p] \in ToSet(history) \/ s[p] \in ToSet(said)
  BY SendsIs
<1>3. \A i \in ToSet(said) : i.call.id = c.id => i.call = c BY <1>1, WantedIs
<1>7. c.id = tag BY DEF Wanted
<1>4. ASSUME NEW x \in 1..Len(sent), sent[x].kind = "decision", sent[x].call.id = c.id
      PROVE  x \in 1..n /\ from[x] \in 1..Len(s) /\ sent[x] = s[from[x]] /\ s[from[x]].kind = "decision" /\ s[from[x]].call.id = c.id
  <2>1. x \in 1..n
    <3> SUFFICES ASSUME x \notin 1..n PROVE FALSE OBVIOUS
    <3>1. PICK a \in autoApproved : sent[x].call = a.call BY <1>2, <1>4 DEF Tracks
    <3>2. c.id # a.call.id BY <1>4, <1>7, <3>1, AutoIs
    <3> QED BY <1>4, <3>1, <3>2
  <2>2. from[x] \in 1..Len(s) /\ sent[x] = s[from[x]] BY <1>4, <1>7, <2>1, SentIsSame
  <2> QED BY <1>4, <2>1, <2>2
<1>5. CASE RequestedIn(history, c)
  <2>1. PICK j \in 1..n, i \in 1..Len(sent) :
           /\ from[j] \in 1..Len(s) /\ OpenAt(s, c, from[j]) /\ OpenedAt(sent, c.id) = j
           /\ Actionable(sent, i) /\ sent[i].call.id = c.id
    BY <1>5, HeardInTranscript
  <2>2. PICK y \in 1..Len(sent) : /\ Actionable(sent, y) /\ sent[y].kind = "decision"
                                  /\ sent[y].call.id = c.id /\ sent[y] \in Decided(sent)
    BY <1>1, <2>1, LastCounts
  <2>3. y \in 1..n /\ from[y] \in 1..Len(s) /\ sent[y] = s[from[y]] /\ s[from[y]].call.id = c.id BY <1>4, <2>2
  <2>4. j < y
    <3>1. j # 0 BY <1>2 DEF Tracks
    <3> QED BY <2>1, <2>2, <3>1 DEF Actionable
  <2>5. from[j] < from[y] BY <1>2, <2>3, <2>4 DEF Tracks
  <2>6. s[from[y]].call = c BY <2>1, <2>3, <2>5 DEF OpenAt
  <2>7. sent[y] \notin ToSet(history) BY <2>2, <2>3, <2>6 DEF Answer
  <2> QED BY <1>2, <2>2, <2>3, <2>6, <2>7
<1>6. CASE ~RequestedIn(history, c)
  <2>1. PICK r \in pending : r.call = c BY <1>6 DEF Wanted
  <2>2. PICK i \in 1..Len(sent) : Actionable(sent, i) /\ sent[i].call.id = c.id BY <1>6, <1>7, <2>1, HeardInStore
  <2>3. PICK y \in 1..Len(sent) : /\ Actionable(sent, y) /\ sent[y].kind = "decision"
                                  /\ sent[y].call.id = c.id /\ sent[y] \in Decided(sent)
    BY <1>1, <2>2, LastCounts
  <2>4. from[y] \in 1..Len(s) /\ sent[y] = s[from[y]] BY <1>4, <2>3
  <2>5. sent[y] \notin ToSet(history)
    <3> SUFFICES ASSUME sent[y] \in ToSet(history) PROVE FALSE OBVIOUS
    <3>1. ~Overshadowed(r) /\ r.kind = "request" BY <1>7, <2>1, TurnCalls DEF Settled, Attributable
    <3>2. r \notin ToSet(history) BY <1>6, <2>1, <3>1 DEF RequestedIn
    <3>3. sent[y].call = c BY <2>1, <2>3, <3>1, <3>2 DEF Overshadowed
    <3> QED BY <2>3, <3>3 DEF Answer
  <2> QED BY <1>2, <1>3, <2>3, <2>4, <2>5
<1> QED BY <1>5, <1>6

-----------------------------------------------------------------------------
(* A turn begins: what the caller says.                                     *)
YesIn(b) == {i \in DOMAIN b : b[i]}
LEMMA OneMoreAnswer ==
  ASSUME NEW b \in Seq(BOOLEAN), NEW a, a = Append(b, TRUE) \/ a = Append(b, FALSE),
         NEW B, B = YesIn(b), NEW A, A = YesIn(a)
  PROVE  /\ a \in Seq(BOOLEAN) /\ a # <<>> /\ B \subseteq A
         /\ Cardinality(B) \in Nat /\ Cardinality(A) \in Nat /\ Cardinality(B) <= Cardinality(A)
         /\ a = Append(b, TRUE) => A # {} /\ Cardinality(A) = Cardinality(B) + 1
<1>0. PICK y \in BOOLEAN : a = Append(b, y) OBVIOUS
<1>1. /\ Len(b) \in Nat /\ DOMAIN b = 1..Len(b) /\ a \in Seq(BOOLEAN) /\ DOMAIN a = 1..(Len(b) + 1)
      /\ a[Len(b) + 1] = y /\ Len(a) = Len(b) + 1
  BY <1>0
<1>2. \A i \in 1..Len(b) : a[i] = b[i] BY <1>0
<1>3. B \subseteq 1..Len(b) /\ A \subseteq 1..(Len(b) + 1) BY <1>1 DEF YesIn
<1>4. B \subseteq A BY <1>1, <1>2 DEF YesIn
<1>5. IsFiniteSet(1..(Len(b) + 1)) BY <1>1, FS_Interval
<1>6. IsFiniteSet(A) /\ IsFiniteSet(B) BY <1>3, <1>4, <1>5, FS_Subset
<1>7. Cardinality(B) \in Nat /\ Cardinality(A) \in Nat /\ Cardinality(B) <= Cardinality(A)
  BY <1>4, <1>6, FS_Subset, FS_CardinalityType
<1>8. ASSUME a = Append(b, TRUE) PROVE A # {} /\ Cardinality(A) = Cardinality(B) + 1
  <2>1. \A i \in A : i \in B \/ i = Len(b) + 1 BY <1>1, <1>2 DEF YesIn
  <2>2. Len(b) + 1 \in A
    <3>1. \A x \in BOOLEAN : a = Append(b, x) => a[Len(b) + 1] = x OBVIOUS
    <3>2. a[Len(b) + 1] = TRUE BY <1>8, <3>1, Zenon
    <3>3. Len(b) + 1 \in DOMAIN a BY <1>1
    <3> QED BY <3>2, <3>3, Zenon DEF YesIn
  <2>3. A = B \cup {Len(b) + 1} BY <1>4, <2>1, <2>2
  <2>4. Len(b) + 1 \notin B BY <1>1, <1>3
  <2> QED BY <1>6, <2>2, <2>3, <2>4, FS_AddElement
<1>9. a # <<>> BY <1>1
<1> QED BY <1>1, <1>4, <1>7, <1>8, <1>9

(* S are the requests that the caller answers, yes those it says yes to.    *)
Says(S, yes, s, sent, n, from) ==
  /\ S \subseteq hand /\ yes \subseteq S
  /\ ToSet(input') = {Decision(r.call, r \in yes) : r \in S}
  /\ Sends(input', s, sent, n, from) /\ Begins(s, sent)
  /\ answers' = [k \in Nos |-> IF \E r \in S : r.call.no = k
                                 THEN Append(answers[k], \E r \in yes : r.call.no = k) ELSE answers[k]]
  /\ pc = "idle" /\ todo' = calls' /\ autoApproved' = {}
  /\ UNCHANGED <<history, managed, keeps, owed, results, deferred, handled, hand, made, runs>>

LEMMA SendSays ==
  ASSUME NEW tag, ConsentInv(tag), Send
  PROVE  \E S, yes, s, sent, n, from : Says(S, yes, s, sent, n, from)
<1>1. /\ pc = "idle" /\ todo' = calls' /\ autoApproved' = {} /\ pc = "idle"
      /\ UNCHANGED <<history, managed, keeps, owed, results, deferred, handled, hand, made, runs>>
  BY DEF Send, service
<1>2. PICK S \in SUBSET hand : \E yes \in SUBSET S :
        LET said == Listed({Decision(r.call, r \in yes) : r \in S})
            sent == Prepared(said)
        IN  /\ input' = said
            /\ pending' = StillPending((IF managed THEN <<>> ELSE history) \o said, pending)
            /\ messages' = Stripped(sent)
            /\ calls' = Calls({d \in Decided(sent) : d.yes}) /\ refused' = Calls({d \in Decided(sent) : ~d.yes})
            /\ asking' = Unanswered(sent)
            /\ pc' = (IF Decided(sent) = {} /\ Unanswered(sent) = {} THEN "ask" ELSE "replay")
            /\ answers' = [k \in Nos |-> IF \E r \in S : r.call.no = k
                             THEN Append(answers[k], \E r \in yes : r.call.no = k) ELSE answers[k]]
  BY DEF Send
<1>16. PICK yes \in SUBSET S :
        LET said == Listed({Decision(r.call, r \in yes) : r \in S})
            sent == Prepared(said)
        IN  /\ input' = said
            /\ pending' = StillPending((IF managed THEN <<>> ELSE history) \o said, pending)
            /\ messages' = Stripped(sent)
            /\ calls' = Calls({d \in Decided(sent) : d.yes}) /\ refused' = Calls({d \in Decided(sent) : ~d.yes})
            /\ asking' = Unanswered(sent)
            /\ pc' = (IF Decided(sent) = {} /\ Unanswered(sent) = {} THEN "ask" ELSE "replay")
            /\ answers' = [k \in Nos |-> IF \E r \in S : r.call.no = k
                             THEN Append(answers[k], \E r \in yes : r.call.no = k) ELSE answers[k]]
  BY <1>2
<1> DEFINE said == Listed({Decision(r.call, r \in yes) : r \in S})
           sent == Prepared(said)
<1>3. (IF managed THEN <<>> ELSE history) = history
  BY DEF ConsentInv, ApprovalInv, KeeperInv
<1>4. sent = BoundDecisions(history \o said, pending) \o Listed({Decision(r.call, TRUE) : r \in autoApproved})
  BY <1>3 DEF Prepared
<1>5. said \in Seq(DecisionsOf(Known)) BY SaidIs DEF ConsentInv
<1>6. ToSet(said) = {Decision(r.call, r \in yes) : r \in S}
  <2>1. hand \subseteq Requests(Known) /\ IsFiniteSet(Requests(Known))
    BY KnownFinite, ItemsFinite DEF ConsentInv, ApprovalInv, TypeInv
  <2>2. IsFiniteSet(S) BY <2>1, FS_Subset
  <2> DEFINE f == [r \in S |-> Decision(r.call, r \in yes)]
  <2>3. {Decision(r.call, r \in yes) : r \in S} = {f[r] : r \in S} OBVIOUS
  <2>4. IsFiniteSet({Decision(r.call, r \in yes) : r \in S})
    <3>1. f \in [S -> {f[r] : r \in S}] OBVIOUS
    <3>2. f \in Surjection(S, {f[r] : r \in S}) BY <3>1 DEF Surjection
    <3> HIDE DEF f
    <3> QED BY <2>2, <2>3, <3>2, FS_Surjection
  <2> QED BY <2>4, ListedIs
<1>7. Settled(tag) BY DEF ConsentInv, Settled
<1>8. \A i \in ToSet(said) : \E h \in hand : h.call = i.call
  <2>1. \A i \in ToSet(said) : \E r \in S : i = Decision(r.call, r \in yes) BY <1>6
  <2> QED BY <2>1, Fields
<1>9. PICK s : s = history \o said OBVIOUS
<1> HIDE DEF said
<1>10. PICK n, from : Sends(said, s, sent, n, from)
  <2> HIDE DEF sent
  <2> QED BY <1>4, <1>5, <1>7, <1>8, <1>9, SendsSomething
<1> HIDE DEF sent
<1>11. input' = said BY <1>16 DEF said
<1>12. Begins(s, sent)
  <2>1. /\ pending' = StillPending(history \o said, pending) /\ messages' = Stripped(sent)
        /\ calls' = Calls({d \in Decided(sent) : d.yes}) /\ refused' = Calls({d \in Decided(sent) : ~d.yes})
        /\ asking' = Unanswered(sent) /\ pc' = IF Decided(sent) = {} /\ Unanswered(sent) = {} THEN "ask" ELSE "replay"
    BY <1>16, <1>3 DEF said, sent
  <2> QED BY <1>9, <2>1 DEF Begins
<1>13. S \subseteq hand /\ yes \subseteq S BY <1>16
<1>14. answers' = [k \in Nos |-> IF \E r \in S : r.call.no = k
                             THEN Append(answers[k], \E r \in yes : r.call.no = k) ELSE answers[k]]
  BY <1>16
<1>15. Says(S, yes, s, sent, n, from) BY <1>1, <1>6, <1>10, <1>11, <1>12, <1>13, <1>14 DEF Says
<1> QED BY <1>15

-----------------------------------------------------------------------------
(* What a turn takes up when it begins.                                     *)
TakesUp(tag, sent) ==
  /\ \A c \in Live' : c.id = tag => Stands(tag, c)
  /\ \A r \in pending' \cup asking' : r.call.id = tag => Wanted(tag, r.call)
  /\ \A c \in Calls(ToSet(input')) : Wanted(tag, c) /\ ~Answer(history, c) => c \in calls' \cup refused'
  /\ \A i \in ToSet(input') : i.kind = "decision" /\ i = Decision(i.call, i.yes) /\ \E h \in hand : h.call = i.call
  /\ \A c : Told(messages', c) => Told(history, c)

LEMMA TurnTakesUp ==
  ASSUME NEW tag, Settled(tag), NEW S, NEW yes, NEW s, NEW sent, NEW n, NEW from, Says(S, yes, s, sent, n, from)
  PROVE  TakesUp(tag, sent)
<1>1. Sends(input', s, sent, n, from) /\ Begins(s, sent) /\ sent \in Seq(ItemsOf(Known))
      /\ s \in Seq(ItemsOf(Known)) /\ Scene(Known, s, pending, autoApproved)
  BY DEF Says, Sends
<1>2. /\ pending' = StillPending(s, pending) /\ messages' = Stripped(sent)
      /\ calls' = Calls({d \in Decided(sent) : d.yes}) /\ refused' = Calls({d \in Decided(sent) : ~d.yes})
      /\ asking' = Unanswered(sent)
  BY <1>1 DEF Begins
<1>3. ASSUME NEW d \in Decided(sent), d.call.id = tag PROVE Stands(tag, d.call)
  <2>1. \/ Wanted(tag, d.call)
        \/ \E a \in autoApproved : d.call = a.call
    BY <1>1, <1>3, DecidedStands
  <2> QED BY <1>3, <2>1 DEF Stands
<1>4. \A r \in asking' : r.call.id = tag => Wanted(tag, r.call) BY <1>1, <1>2, UnansweredWanted
<1>5. \A c \in Live' : c.id = tag => Stands(tag, c)
  <2>1. \A c \in Live' : c \in calls' \cup refused' \/ \E r \in asking' : c = r.call BY DEF Live, Calls
  <2>2. \A c \in calls' \cup refused' : \E d \in Decided(sent) : c = d.call BY <1>2 DEF Calls
  <2> QED BY <1>3, <1>4, <2>1, <2>2 DEF Stands
<1>6. \A r \in pending' : r.call.id = tag => Wanted(tag, r.call) BY <1>1, <1>2, StillWanted
<1>7. ASSUME NEW c \in Calls(ToSet(input')), Wanted(tag, c), ~Answer(history, c) PROVE c \in calls' \cup refused'
  <2>1. PICK d \in Decided(sent) : d.call = c /\ d \in ToSet(input') BY <1>1, <1>7, AnswerIsActedOn
  <2>2. d \in {e \in Decided(sent) : e.yes} \/ d \in {e \in Decided(sent) : ~e.yes} BY <2>1
  <2> QED BY <1>2, <2>1, <2>2 DEF Calls
<1>8. \A i \in ToSet(input') : i.kind = "decision" /\ i = Decision(i.call, i.yes) /\ \E h \in hand : h.call = i.call
  <2>1. \A i \in ToSet(input') : \E h \in S : i = Decision(h.call, h \in yes) BY DEF Says
  <2>2. S \subseteq hand BY DEF Says
  <2> QED BY <2>1, <2>2, Fields
<1>9. \A c : Told(messages', c) => Told(history, c)
  <2>1. Tracks(sent, n, s, pending, autoApproved, from) /\ \A c : Told(s, c) <=> Told(history, c) BY <1>1, SendsIs
  <2>2. Once(sent) /\ Founded(sent) /\ \A c : Told(sent, c) <=> Told(s, c) BY <1>1, <2>1, SentFits
  <2> QED BY <1>1, <1>2, <2>1, <2>2, StrippedIs
<1> QED BY <1>5, <1>6, <1>4, <1>7, <1>8, <1>9 DEF TakesUp

(* A request that nobody ever answered stays in the store.                  *)
LEMMA StoreAlone ==
  ASSUME NEW tag, Settled(tag), NEW r \in pending, NEW c, c = r.call, c.id = tag,
         ~RequestedIn(history, c), ~Answer(history, c)
  PROVE  \A i \in ToSet(history) : i.call.id = c.id => i.kind = "call"
<1>1. r.kind = "request" /\ history \in Seq(ItemsOf(Known)) BY TurnCalls DEF Settled
<1>2. ~Overshadowed(r) /\ r \notin ToSet(history) BY <1>1 DEF Settled, Attributable, RequestedIn
<1>3. ~Told(history, c) BY PendingIsWanted DEF Wanted
<1> SUFFICES ASSUME NEW i \in ToSet(history), i.call.id = c.id PROVE i.kind = "call"
  OBVIOUS
<1>4. i.call = c BY <1>2 DEF Overshadowed
<1>5. i.kind # "request" /\ i.kind # "decision" BY <1>4 DEF RequestedIn, Answer
<1>6. i \in ItemsOf(Known) BY <1>1, CallsOf
<1>7. i.kind # "result"
  <2>1. ResultOf(c) \notin ToSet(history) BY <1>1, <1>3, ToldIs
  <2> QED BY <1>4, <1>6, <2>1, ItemIs
<1> QED BY <1>5, <1>6, <1>7, ItemIs

LEMMA UnheardStaysOpen ==
  ASSUME NEW tag, Settled(tag), NEW said, NEW s, NEW sent, NEW n, NEW from, Sends(said, s, sent, n, from),
         NEW r \in pending, NEW c, c = r.call, c.id = tag, ~Answer(history, c), c \notin Calls(ToSet(said))
  PROVE  \E o \in StillPending(s, pending) : o.call = c
<1>1. /\ s \in Seq(ItemsOf(Known)) /\ said \in Seq(ItemsOf(Known)) /\ s = history \o said
      /\ \A i \in ToSet(said) : i.kind = "decision" /\ \E h \in hand : h.call = i.call
  BY DEF Sends
<1>2. /\ Ordered(tag, s) /\ (\A d : Told(s, d) <=> Told(history, d)) /\ Len(s) \in Nat /\ DOMAIN s = 1..Len(s)
      /\ \A p \in 1..Len(s) : /\ s[p] \in ItemsOf(Known) /\ (s[p].kind # "decision" => s[p] \in ToSet(history))
                              /\ s[p] \in ToSet(history) \/ s[p] \in ToSet(said)
  BY SendsIs
<1>3. Wanted(tag, c) BY PendingIsWanted
<1>4. history \in Seq(ItemsOf(Known)) BY TurnCalls DEF Settled
<1>5. \A p \in 1..Len(s) : s[p].kind = "decision" => s[p].call # c
  <2>1. \A i \in ToSet(history) : i.kind = "decision" => i.call # c BY DEF Answer
  <2>2. \A i \in ToSet(said) : i.call # c BY DEF Calls
  <2> QED BY <1>2, <2>1, <2>2
<1>6. CASE RequestedIn(history, c)
  <2>1. \E p \in 1..Len(s) : s[p].kind = "request" /\ s[p].call = c
    <3>1. PICK i \in ToSet(history) : i.kind = "request" /\ i.call = c BY <1>6 DEF RequestedIn
    <3>2. ToSet(s) = ToSet(history) \cup ToSet(said) BY <1>1, <1>4, JoinedIs
    <3>3. i \in ToSet(s) BY <3>1, <3>2
    <3>4. PICK p \in 1..Len(s) : s[p] = i BY <1>1, <3>3, MemberIs
    <3> QED BY <3>1, <3>4
  <2>2. ~Told(s, c) BY <1>2, <1>3 DEF Wanted
  <2>3. PICK q : OpenAt(s, c, q) BY <1>1, <1>2, <2>1, <2>2, OpenRequest
  <2>4. /\ q \in 1..Len(s) /\ Opens(s, q) /\ s[q].call = c /\ s[q].kind = "request" /\ ~Closed(s, q)
        /\ \A m \in 1..Len(s) : q < m /\ s[m].call.id = c.id => s[m].call = c
    BY <2>3 DEF OpenAt
  <2>5. \A p \in DOMAIN s : ~Settles(s, p, q)
    <3> SUFFICES ASSUME NEW p \in 1..Len(s), Settles(s, p, q) PROVE FALSE BY <1>2
    <3>1. s[p].kind = "decision" /\ s[p].call.id = c.id /\ q < p BY <2>4 DEF Settles
    <3> QED BY <1>5, <2>4, <3>1
  <2>6. q \in {o \in OpenOnes(s) : \A p \in DOMAIN s : ~Settles(s, p, o)}
    BY <1>2, <2>4, <2>5 DEF OpenOnes, Occurrences
  <2>7. RequestAt(s, pending, q) \in StillPending(s, pending) BY <2>6 DEF StillPending
  <2>8. RequestAt(s, pending, q).call = c BY <2>4, RequestAtIsSame
  <2> QED BY <2>7, <2>8
<1>7. CASE ~RequestedIn(history, c)
  <2>1. \A i \in ToSet(history) : i.call.id = c.id => i.kind = "call" BY <1>7, StoreAlone
  <2>2. \A i \in ToSet(said) : i.call.id # c.id
    <3>1. \A i \in ToSet(said) : i.call.id = c.id => i.call = c BY <1>1, <1>3, WantedIs
    <3> QED BY <3>1 DEF Calls
  <2>3. \A p \in 1..Len(s) : s[p].call.id = c.id => s[p].kind = "call" BY <1>2, <2>1, <2>2
  <2>4. \A q \in OpenOnes(s) : s[q].call.id # c.id
    <3>1. \A q \in OpenOnes(s) : q \in 1..Len(s) /\ s[q].kind = "request" BY <1>2 DEF OpenOnes, Occurrences, Opens
    <3> QED BY <2>3, <3>1
  <2>5. \A p \in DOMAIN s : ~SettlesStored(s, p, r)
    <3>1. \A p \in Unbound(s) : p \in 1..Len(s) /\ s[p].kind = "decision" BY <1>2 DEF Unbound
    <3> QED BY <2>3, <3>1 DEF SettlesStored
  <2>6. r \in StillPending(s, pending) BY <2>4, <2>5 DEF StillPending, OnlyStored
  <2> QED BY <2>6
<1> QED BY <1>6, <1>7

-----------------------------------------------------------------------------
(* What the caller said, call by call.                                      *)
Heard(S) ==
  /\ answers' \in [Nos -> Seq(BOOLEAN)]
  /\ \A k \in Nos : answers[k] # <<>> => answers'[k] # <<>>
  /\ \A k \in Nos : Yeses(k) # {} => Yeses(k)' # {}
  /\ \A k \in Nos : answers'[k] = <<>> => answers[k] = <<>> /\ \A r \in S : r.call.no # k
  /\ \A i \in ToSet(input') : MadeByHuman(i)'
  /\ \A k \in Nos : Cardinality(Yeses(k)) \in Nat /\ Cardinality(Yeses(k)') \in Nat
                    /\ Cardinality(Yeses(k)) <= Cardinality(Yeses(k)')
  /\ \A i \in ToSet(input') : i.yes => Cardinality(Yeses(i.call.no)') = Cardinality(Yeses(i.call.no)) + 1

LEMMA YesesCounted ==
  ASSUME NEW b \in Seq(BOOLEAN), NEW B, B = YesIn(b)
  PROVE  IsFiniteSet(B) /\ Cardinality(B) \in Nat
<1>1. Len(b) \in Nat /\ B \subseteq 1..Len(b) BY DEF YesIn
<1>2. IsFiniteSet(1..Len(b)) BY <1>1, FS_Interval
<1> QED BY <1>1, <1>2, FS_Subset, FS_CardinalityType

Speaks(S, yes) ==
  /\ S \subseteq hand /\ yes \subseteq S
  /\ ToSet(input') = {Decision(r.call, r \in yes) : r \in S}
  /\ answers' = [k \in Nos |-> IF \E r \in S : r.call.no = k
                                 THEN Append(answers[k], \E r \in yes : r.call.no = k) ELSE answers[k]]
LEMMA SpeaksHeard ==
  ASSUME ApprovalInv, answers \in [Nos -> Seq(BOOLEAN)], NEW S, NEW yes, Speaks(S, yes)
  PROVE  Heard(S)
<1>1. /\ S \subseteq hand /\ yes \subseteq S
      /\ ToSet(input') = {Decision(r.call, r \in yes) : r \in S}
      /\ answers' = [k \in Nos |-> IF \E r \in S : r.call.no = k
                                 THEN Append(answers[k], \E r \in yes : r.call.no = k) ELSE answers[k]]
  BY DEF Speaks
<1>2. answers \in [Nos -> Seq(BOOLEAN)] OBVIOUS
<1>3. ASSUME NEW k \in Nos
      PROVE  /\ answers'[k] \in Seq(BOOLEAN)
             /\ answers[k] # <<>> => answers'[k] # <<>>
             /\ Yeses(k) # {} => Yeses(k)' # {}
             /\ answers'[k] = <<>> => answers[k] = <<>> /\ \A r \in S : r.call.no # k
             /\ Cardinality(Yeses(k)) \in Nat /\ Cardinality(Yeses(k)') \in Nat
             /\ Cardinality(Yeses(k)) <= Cardinality(Yeses(k)')
             /\ (\E r \in S : r.call.no = k) => answers'[k] # <<>>
             /\ (\E r \in yes : r.call.no = k) =>
                  Yeses(k)' # {} /\ Cardinality(Yeses(k)') = Cardinality(Yeses(k)) + 1
  <2>1. Yeses(k) = YesIn(answers[k]) /\ Yeses(k)' = YesIn(answers'[k])
    BY DEF Yeses, YesIn
  <2>2. answers[k] \in Seq(BOOLEAN) BY <1>2
  <2>3. CASE \E r \in S : r.call.no = k
    <3>1. PICK y \in BOOLEAN : y = (\E r \in yes : r.call.no = k) OBVIOUS
    <3>2. answers'[k] = Append(answers[k], y) BY <1>1, <2>3, <3>1
    <3>3. /\ answers'[k] \in Seq(BOOLEAN) /\ answers'[k] # <<>> /\ Yeses(k) \subseteq Yeses(k)'
          /\ Cardinality(Yeses(k)) \in Nat /\ Cardinality(Yeses(k)') \in Nat
          /\ Cardinality(Yeses(k)) <= Cardinality(Yeses(k)')
          /\ y = TRUE => Yeses(k)' # {} /\ Cardinality(Yeses(k)') = Cardinality(Yeses(k)) + 1
      <4>1. PICK b \in Seq(BOOLEAN) : b = answers[k] BY <2>2
      <4>2. PICK a : a = answers'[k] OBVIOUS
      <4>3. PICK B, A : B = Yeses(k) /\ A = Yeses(k)' OBVIOUS
      <4>4. (a = Append(b, TRUE) \/ a = Append(b, FALSE)) /\ B = YesIn(b) /\ A = YesIn(a)
        BY <2>1, <3>2, <4>1, <4>2, <4>3
      <4>5. /\ a \in Seq(BOOLEAN) /\ a # <<>> /\ B \subseteq A
            /\ Cardinality(B) \in Nat /\ Cardinality(A) \in Nat /\ Cardinality(B) <= Cardinality(A)
            /\ a = Append(b, TRUE) => A # {} /\ Cardinality(A) = Cardinality(B) + 1
        BY <4>4, OneMoreAnswer
      <4> QED BY <3>2, <4>1, <4>2, <4>3, <4>5
    <3> QED BY <3>1, <3>3
  <2>4. CASE ~\E r \in S : r.call.no = k
    <3>1. answers'[k] = answers[k] BY <1>1, <2>4
    <3>2. Cardinality(Yeses(k)) \in Nat BY <2>1, <2>2, YesesCounted
    <3>3. ~\E r \in yes : r.call.no = k BY <1>1, <2>4
    <3> QED BY <2>1, <2>2, <2>4, <3>1, <3>2, <3>3
  <2> QED BY <2>3, <2>4
<1>4. answers' \in [Nos -> Seq(BOOLEAN)]
  <2>1. answers' = [k \in Nos |-> answers'[k]] BY <1>1
  <2> QED BY <1>3, <2>1
<1>5. \A i \in ToSet(input') : MadeByHuman(i)' /\ (i.yes => Cardinality(Yeses(i.call.no)') = Cardinality(Yeses(i.call.no)) + 1)
  <2> SUFFICES ASSUME NEW i \in ToSet(input')
               PROVE  MadeByHuman(i)' /\ (i.yes => Cardinality(Yeses(i.call.no)') = Cardinality(Yeses(i.call.no)) + 1)
    OBVIOUS
  <2>1. PICK r \in S : i = Decision(r.call, r \in yes) BY <1>1
  <2>2. i.call = r.call /\ (i.yes <=> r \in yes)
    <3>1. (r \in yes) \in BOOLEAN OBVIOUS
    <3>2. \A y \in BOOLEAN : Decision(r.call, y).call = r.call /\ (Decision(r.call, y).yes <=> y) BY Fields
    <3> QED BY <2>1, <3>1, <3>2, Zenon
  <2>3. r.call \in Known BY <1>1, TurnCalls
  <2>4. r.call.no \in Nos BY <2>3, KnownAre DEF ApprovalInv
  <2>5. PICK k \in Nos : k = r.call.no BY <2>4
  <2>6. answers'[k] # <<>> BY <1>3, <2>1, <2>5
  <2>7. i.yes => Yeses(k)' # {} /\ Cardinality(Yeses(k)') = Cardinality(Yeses(k)) + 1 BY <1>3, <2>2, <2>5
  <2>8. i.call.no = k BY <2>2, <2>5
  <2>9. MadeByHuman(i)' <=> answers'[k] # <<>> /\ (i.yes => Yeses(k)' # {})
    BY <2>8 DEF MadeByHuman, Yeses
  <2> QED BY <2>6, <2>7, <2>8, <2>9
<1> QED BY <1>3, <1>4, <1>5 DEF Heard

LEMMA SaysHeard ==
  ASSUME NEW tag, ConsentInv(tag), NEW S, NEW yes, NEW s, NEW sent, NEW n, NEW from, Says(S, yes, s, sent, n, from)
  PROVE  Heard(S)
<1>1. Speaks(S, yes) BY DEF Says, Speaks
<1>2. ApprovalInv /\ answers \in [Nos -> Seq(BOOLEAN)] BY DEF ConsentInv, CountInv
<1> QED BY <1>1, <1>2, SpeaksHeard

(* The invariant, as a turn begins.                                         *)
LEMMA SendTraces ==
  ASSUME NEW tag, ConsentInv(tag), Send
  PROVE  TraceInv(tag)'
<1>1. Settled(tag) BY DEF ConsentInv, Settled
<1>2. PICK S, yes, s, sent, n, from : Says(S, yes, s, sent, n, from) BY SendSays
<1>3. /\ S \subseteq hand /\ Sends(input', s, sent, n, from) /\ Begins(s, sent) /\ pc = "idle"
      /\ todo' = calls' /\ autoApproved' = {}
      /\ history' = history /\ owed' = owed /\ keeps' = keeps /\ deferred' = deferred /\ handled' = handled
      /\ hand' = hand /\ made' = made /\ Known' = Known
  BY <1>2 DEF Says, Known
<1>4. Heard(S) /\ TakesUp(tag, sent) BY <1>1, <1>2, SaysHeard, TurnTakesUp
<1>5. /\ \A c \in Live' : c.id = tag => Stands(tag, c)
      /\ \A r \in pending' \cup asking' : r.call.id = tag => Wanted(tag, r.call)
      /\ \A c \in Calls(ToSet(input')) : Wanted(tag, c) /\ ~Answer(history, c) => c \in calls' \cup refused'
      /\ \A i \in ToSet(input') : i.kind = "decision" /\ i = Decision(i.call, i.yes) /\ \E h \in hand : h.call = i.call
      /\ \A c : Told(messages', c) => Told(history, c)
  BY <1>4 DEF TakesUp
<1>6. /\ Ordered(tag, history) /\ Follows(tag, history, handled)
      /\ HandInv(tag) /\ PendInv(tag) /\ AnswerInv(tag) /\ InputInv(tag) /\ LiveInv(tag) /\ MsgInv(tag) /\ OwedInv(tag) /\ AutoInv(tag) /\ OpenInv(tag)
  BY <1>1 DEF Settled, TraceInv
<1>7. handled = <<>> /\ deferred = {} BY <1>1, <1>3 DEF Settled, ApprovalInv, StageInv
<1>8. /\ history \in Seq(ItemsOf(Known)) /\ \A h \in hand : h.call \in Known
      /\ \A i \in ToSet(history) : i.call \in Known /\ i \in ItemsOf(Known)
  BY <1>1, TurnCalls, CallsOf DEF Settled
<1>9. HandInv(tag)'
  <2>1. ASSUME NEW h \in hand PROVE Behind(tag, history, h.call) BY <1>6 DEF HandInv
  <2>2. ASSUME NEW h \in hand, NEW r \in pending', r.call.id = tag, h.call.id = tag PROVE r.call = h.call
    <3>1. Wanted(tag, r.call) BY <1>5, <2>2
    <3>2. \A g \in hand : g.call.id = r.call.id => g.call = r.call BY <1>1, <3>1, WantedIs
    <3> QED BY <2>2, <3>2
  <2>3. ASSUME NEW h \in hand, NEW r \in hand, r.call.id = tag, h.call.id = tag PROVE r.call = h.call BY <1>6, <2>3 DEF HandInv
  <2> QED BY <1>3, <2>1, <2>2, <2>3 DEF HandInv
<1>10. PendInv(tag)'
  <2>1. \A r \in pending' : r.call.id = tag => Wanted(tag, r.call) BY <1>5
  <2> QED BY <1>1, <2>1, WantedOne DEF PendInv
<1>11. \A c : c.id = tag /\ NotRequested(c) => NotRequested(c)'
  <2> SUFFICES ASSUME NEW c, c.id = tag, NotRequested(c) PROVE NotRequested(c)' OBVIOUS
  <2>1. ~Wanted(tag, c) BY <1>1, WantedIs
  <2>2. \A r \in pending' : r.call # c BY <1>5, <2>1
  <2> QED BY <1>3, <2>2 DEF NotRequested
<1>12. \A i \in ToSet(history') \cup ToSet(input') : i.kind = "decision" => MadeByHuman(i)'
  <2>1. ASSUME NEW i \in ToSet(history), i.kind = "decision" PROVE MadeByHuman(i)'
    <3>1. MadeByHuman(i) BY <1>6, <2>1 DEF AnswerInv
    <3>2. i.call.no \in Nos BY <1>1, <1>8, KnownAre DEF Settled, ApprovalInv
    <3>3. PICK k \in Nos : k = i.call.no BY <3>2
    <3>4. answers[k] # <<>> /\ (i.yes => Yeses(k) # {}) BY <3>1, <3>3 DEF MadeByHuman
    <3>5. answers'[k] # <<>> /\ (i.yes => Yeses(k)' # {}) BY <1>4, <3>4 DEF Heard
    <3>6. MadeByHuman(i)' <=> answers'[k] # <<>> /\ (i.yes => Yeses(k)' # {}) BY <3>3 DEF MadeByHuman, Yeses
    <3> QED BY <3>5, <3>6
  <2>2. \A i \in ToSet(input') : MadeByHuman(i)' BY <1>4 DEF Heard
  <2> QED BY <1>3, <2>1, <2>2
<1>13. \A c \in Known : c.id = tag /\ Answer(history, c) => Raw(c) \in ToSet(history) \/ (NotRequested(c)' /\ c \notin Live')
  <2> SUFFICES ASSUME NEW c \in Known, c.id = tag, Answer(history, c), Raw(c) \notin ToSet(history)
               PROVE  NotRequested(c)' /\ c \notin Live'
    OBVIOUS
  <2>1. NotRequested(c) BY <1>6 DEF AnswerInv
  <2>2. ~Stands(tag, c) BY <1>1, StandsIs
  <2> QED BY <1>5, <1>11, <2>1, <2>2
<1>14. ASSUME NEW i \in ToSet(input'), i.call.id = tag
       PROVE  \/ Raw(i.call) \in ToSet(history) \/ i.call \in calls' \cup refused'
              \/ NotRequested(i.call)' /\ i.call \notin Calls(asking')
  <2>1. i.call \in Calls(ToSet(input')) BY DEF Calls
  <2>2. CASE Told(history, i.call)
    <3>1. Founded(history) BY <1>1 DEF Settled, ApprovalInv, HistoryInv
    <3>2. PICK p \in 1..Len(history) : history[p] = ResultOf(i.call) BY <2>2 DEF Told
    <3>3. PICK q \in 1..(p - 1) : history[q] = Raw(i.call) BY <3>1, <3>2, Fields DEF Founded
    <3>4. q \in 1..Len(history) BY <1>8
    <3> QED BY <1>8, <3>3, <3>4, MemberIs
  <2>3. CASE Wanted(tag, i.call)
    <3>1. CASE Answer(history, i.call)
      <4>1. Stands(tag, i.call) BY <2>3 DEF Stands
      <4> QED BY <1>1, <3>1, <4>1, StandsIs
    <3>2. CASE ~Answer(history, i.call) BY <1>5, <2>1, <2>3, <3>2
    <3> QED BY <3>1, <3>2
  <2>4. CASE ~Told(history, i.call) /\ ~Wanted(tag, i.call)
    <3>1. ~RequestedIn(history, i.call) BY <1>14, <2>4 DEF Wanted
    <3>2. \A q \in 1..Len(history) : history[q].kind = "request" => history[q].call # i.call
      BY <1>8, <3>1, MemberIs DEF RequestedIn
    <3>3. \A r \in pending' \cup asking' : r.call # i.call BY <1>5, <1>14, <2>4
    <3> QED BY <1>3, <3>2, <3>3 DEF NotRequested, Calls
  <2> QED BY <2>2, <2>3, <2>4
<1>15. AnswerInv(tag)' BY <1>3, <1>12, <1>13, <1>14 DEF AnswerInv
<1>16. InputInv(tag)'
  <2>1. \A i \in ToSet(input') : Behind(tag, history, i.call) BY <1>5, <1>6 DEF HandInv
  <2> QED BY <1>3, <2>1 DEF InputInv
<1>17. LiveInv(tag)'
  <2> SUFFICES ASSUME NEW c \in Live', c.id = tag
               PROVE  /\ \A i \in ToSet(history') \cup ToSet(input') \cup ToSet(handled') : Rival(tag, i.call, c) => i.call.no < c.no
                      /\ \A i \in ToSet(history') : i.kind = "request" /\ Rival(tag, i.call, c) =>
                           Told(history', i.call) \/ Told(handled', i.call)
                      /\ \A d \in Live' : c.id = d.id => c = d
                      /\ \A r \in pending' : r.call.id = c.id => r.call = c
    BY DEF LiveInv
  <2>1. Stands(tag, c) BY <1>5
  <2>2. /\ Behind(tag, history, c) /\ (\A i \in ToSet(history) : Rival(tag, i.call, c) => i.call.no < c.no)
        /\ (\A h \in hand : Rival(tag, h.call, c) => h.call.no < c.no)
        /\ \A d : Stands(tag, d) /\ c.id = d.id => c = d
    BY <1>1, <2>1, StandsIs
  <2>3. ToSet(handled') = {} BY <1>3, <1>7 DEF ToSet
  <2>4. \A i \in ToSet(input') : Rival(tag, i.call, c) => i.call.no < c.no BY <1>5, <2>2
  <2>5. \A i \in ToSet(history) : i.kind = "request" /\ Rival(tag, i.call, c) => Told(history, i.call)
    BY <2>2 DEF Behind
  <2>6. \A d \in Live' : c.id = d.id => c = d BY <1>5, <2>2
  <2>7. \A r \in pending' : r.call.id = c.id => r.call = c BY <1>5, <2>2 DEF Stands
  <2> QED BY <1>3, <2>2, <2>3, <2>4, <2>5, <2>6, <2>7
<1>18. MsgInv(tag)' BY <1>3, <1>5 DEF MsgInv
<1>19. OwedInv(tag)'
  <2> SUFFICES ASSUME keeps
               PROVE  \A c \in Calls(pending' \cup asking' \cup deferred' \cup autoApproved') \cup calls' : c.id = tag => c \in owed
    BY <1>3 DEF OwedInv
  <2>1. \A c : Stands(tag, c) => c \in owed BY <1>1, StandsIs
  <2>2. \A r \in pending' \cup asking' : r.call.id = tag => Stands(tag, r.call) BY <1>5 DEF Stands
  <2>3. \A c \in calls' : c.id = tag => Stands(tag, c) BY <1>5 DEF Live
  <2> QED BY <1>3, <1>7, <2>1, <2>2, <2>3 DEF Calls
<1>20. AutoInv(tag)' BY <1>3 DEF AutoInv
<1>21. OpenInv(tag)'
  <2> SUFFICES ASSUME NEW h \in hand, h.call.id = tag, answers'[h.call.no] = <<>> PROVE \E r \in pending' : r.call = h.call
    BY <1>3 DEF OpenInv
  <2>1. h.call.no \in Nos BY <1>1, <1>8, KnownAre DEF Settled, ApprovalInv
  <2>2. answers[h.call.no] = <<>> /\ \A r \in S : r.call.no # h.call.no BY <1>4, <2>1 DEF Heard
  <2>3. PICK r \in pending : r.call = h.call BY <1>6, <2>2 DEF OpenInv
  <2>4. ~Answer(history, h.call)
    <3>1. \A i \in ToSet(history) : i.kind = "decision" => answers[i.call.no] # <<>> BY <1>6 DEF AnswerInv, MadeByHuman
    <3> QED BY <2>2, <3>1 DEF Answer
  <2>5. h.call \notin Calls(ToSet(input'))
    <3>1. ToSet(input') = {Decision(e.call, e \in yes) : e \in S} BY <1>2 DEF Says
    <3>2. \A i \in ToSet(input') : \E e \in S : i.call = e.call BY <3>1, Fields
    <3> QED BY <2>2, <3>2 DEF Calls
  <2>6. \E o \in StillPending(s, pending) : o.call = h.call BY <1>1, <1>3, <2>3, <2>4, <2>5, UnheardStaysOpen
  <2> QED BY <1>3, <2>6 DEF Begins
<1>22. Ordered(tag, history') /\ Follows(tag, history', handled') BY <1>3, <1>6
<1> QED BY <1>9, <1>10, <1>15, <1>16, <1>17, <1>18, <1>19, <1>20, <1>21, <1>22 DEF TraceInv

-----------------------------------------------------------------------------
LEMMA SendCounts ==
  ASSUME NEW tag, ConsentInv(tag), Send
  PROVE  CountInv(tag)'
<1>1. Settled(tag) BY DEF ConsentInv, Settled
<1>2. PICK S, yes, s, sent, n, from : Says(S, yes, s, sent, n, from) BY SendSays
<1>3. /\ Sends(input', s, sent, n, from) /\ Begins(s, sent) /\ pc = "idle" /\ todo' = calls'
      /\ history' = history /\ made' = made /\ Known' = Known /\ runs' = runs
  BY <1>2 DEF Says, Known
<1>4. Heard(S) BY <1>2, SaysHeard
<1>5. /\ runs \in [Nos -> Nat] /\ \A k \in Nos : k > Len(made) => runs[k] = 0
      /\ \A c \in Known : c.id = tag /\ c.tool \in Gated =>
           /\ runs[c.no] + Due(c) > 0 => Yeses(c.no) # {}
           /\ Interrupted(c) = {} => runs[c.no] + Due(c) <= Cardinality(Yeses(c.no))
  BY DEF ConsentInv, CountInv
<1>6. todo = {} BY <1>1, <1>3 DEF Settled, ApprovalInv, StageInv
<1>7. ASSUME NEW c \in Known, c.id = tag, c.tool \in Gated
      PROVE  /\ runs'[c.no] + Due(c)' > 0 => Yeses(c.no)' # {}
             /\ Interrupted(c)' = {} => runs'[c.no] + Due(c)' <= Cardinality(Yeses(c.no)')
  <2>1. PICK k \in Nos : k = c.no BY <1>1, KnownAre DEF Settled, ApprovalInv
  <2>2. Due(c) = 0 BY <1>6 DEF Due
  <2>3. runs[k] \in Nat BY <1>5
  <2>4. runs[k] > 0 => Yeses(k) # {} BY <1>5, <1>7, <2>1, <2>2, <2>3
  <2>5. Interrupted(c) = {} => runs[k] <= Cardinality(Yeses(k)) BY <1>5, <1>7, <2>1, <2>2, <2>3
  <2>6. Interrupted(c)' = Interrupted(c) BY <1>3 DEF Interrupted, Has
  <2>7. /\ (Yeses(k) # {} => Yeses(k)' # {})
        /\ Cardinality(Yeses(k)) \in Nat /\ Cardinality(Yeses(k)') \in Nat /\ Cardinality(Yeses(k)) <= Cardinality(Yeses(k)')
    BY <1>4 DEF Heard
  <2>8. Yeses(c.no)' = Yeses(k)' BY <2>1 DEF Yeses
  <2>9. CASE c \notin calls'
    <3>1. Due(c)' = 0 BY <1>3, <2>9 DEF Due
    <3> QED BY <1>3, <2>1, <2>3, <2>4, <2>5, <2>6, <2>7, <2>8, <3>1
  <2>10. CASE c \in calls'
    <3>1. Due(c)' = 1 BY <1>3, <2>10 DEF Due
    <3>2. PICK d \in Decided(sent) : d.yes /\ d.call = c
      <4>1. calls' = Calls({d \in Decided(sent) : d.yes}) BY <1>3 DEF Begins
      <4> QED BY <2>10, <4>1 DEF Calls
    <3>3. ~\E a \in autoApproved : a.call = c
      <4>1. \A a \in autoApproved : a.call.id = tag => a.call.tool \in Free BY <1>1, AutoIs
      <4> QED BY <1>7, <4>1, KindsAssumption
    <3>4. Wanted(tag, c) /\ d.kind = "decision" /\ (d \in ToSet(history) \/ d \in ToSet(input'))
      BY <1>1, <1>3, <1>7, <3>2, <3>3, DecidedStands
    <3>5. CASE d \in ToSet(input')
      <4>1. Cardinality(Yeses(d.call.no)') = Cardinality(Yeses(d.call.no)) + 1 /\ MadeByHuman(d)'
        BY <1>4, <3>2, <3>5 DEF Heard
      <4>2. Yeses(d.call.no) = Yeses(k) /\ Yeses(d.call.no)' = Yeses(k)' BY <2>1, <3>2 DEF Yeses
      <4>3. Yeses(k)' # {} BY <3>2, <4>1, <4>2 DEF MadeByHuman, Yeses
      <4> QED BY <1>3, <2>1, <2>3, <2>5, <2>6, <2>7, <2>8, <3>1, <4>1, <4>2, <4>3
    <3>6. CASE d \in ToSet(history)
      <4>1. MadeByHuman(d) BY <1>1, <3>4, <3>6 DEF Settled, TraceInv, AnswerInv
      <4>2. Yeses(k) # {} BY <2>1, <3>2, <4>1 DEF MadeByHuman
      <4>3. Raw(c) \in ToSet(history)
        <5>1. Answer(history, c) BY <3>2, <3>4, <3>6 DEF Answer
        <5> QED BY <1>1, <3>4, <5>1, StandsIs DEF Stands
      <4>4. history \in Seq(ItemsOf(Known)) BY <1>1, TurnCalls DEF Settled
      <4>5. PICK p \in 1..Len(history) : history[p] = Raw(c) BY <4>3, <4>4, MemberIs
      <4>6. \A r \in (p + 1)..Len(history) : history[r] # ResultOf(c)
        <5>1. ~Told(history, c) BY <3>4 DEF Wanted
        <5>2. Len(history) \in Nat BY <4>4
        <5>3. \A r \in (p + 1)..Len(history) : r \in 1..Len(history) BY <5>2
        <5> QED BY <5>1, <5>3 DEF Told
      <4>7. p \in DOMAIN history BY <4>4
      <4>8. p \in Interrupted(c) BY <4>5, <4>6, <4>7 DEF Interrupted
      <4> QED BY <2>6, <2>7, <2>8, <4>2, <4>8
    <3> QED BY <3>4, <3>5, <3>6
  <2> QED BY <2>9, <2>10
<1>8. answers' \in [Nos -> Seq(BOOLEAN)] BY <1>4 DEF Heard
<1>9. CountInv(tag)' <=>
        /\ runs' \in [Nos -> Nat] /\ answers' \in [Nos -> Seq(BOOLEAN)]
        /\ \A k \in Nos : k > Len(made') => runs'[k] = 0
        /\ \A c \in Known' : c.id = tag /\ c.tool \in Gated =>
             /\ runs'[c.no] + Due(c)' > 0 => Yeses(c.no)' # {}
             /\ Interrupted(c)' = {} => runs'[c.no] + Due(c)' <= Cardinality(Yeses(c.no)')
  BY DEF CountInv
<1> QED BY <1>3, <1>5, <1>7, <1>8, <1>9

(* What AnAnswerCounts says follows of the invariant.                       *)
LEMMA OneCounts ==
  ASSUME NEW tag, Settled(tag), NEW r \in hand, r.call.id = tag, answers[r.call.no] = <<>>
  PROVE  Counts(r)
<1>1. PICK o \in pending : o.call = r.call BY DEF Settled, TraceInv, OpenInv
<1>3. r.call \in Known BY TurnCalls DEF Settled
<1>2. PICK d \in DecisionsOf(Known) : d = Decision(r.call, TRUE) /\ d.call = r.call
  <2>1. \A y \in BOOLEAN : Decision(r.call, y) \in DecisionsOf(Known) /\ Decision(r.call, y).call = r.call
    BY <1>3, Fields DEF DecisionsOf
  <2>2. TRUE \in BOOLEAN OBVIOUS
  <2> QED BY <2>1, <2>2, Zenon
<1>13. PICK said : said = <<d>> OBVIOUS
<1>4. said \in Seq(DecisionsOf(Known)) /\ ToSet(said) = {d}
  <2>1. said \in Seq(DecisionsOf(Known)) /\ Len(said) = 1 /\ said[1] = d BY <1>13
  <2>2. DOMAIN said = {1} BY <2>1
  <2> QED BY <2>1, <2>2 DEF ToSet
<1>5. \A i \in ToSet(said) : \E h \in hand : h.call = i.call BY <1>2, <1>4
<1>6. PICK s, sent : s = history \o said /\ sent = Prepared(said) OBVIOUS
<1>7. sent = BoundDecisions(s, pending) \o Listed({Decision(a.call, TRUE) : a \in autoApproved})
  <2>1. (IF managed THEN <<>> ELSE history) = history BY DEF Settled, ApprovalInv, KeeperInv
  <2> QED BY <1>6, <2>1 DEF Prepared
<1>8. PICK n, from : Sends(said, s, sent, n, from) BY <1>4, <1>5, <1>6, <1>7, SendsSomething
<1>9. Wanted(tag, r.call) BY <1>1, PendingIsWanted
<1>10. r.call \in Calls(ToSet(said)) BY <1>2, <1>4 DEF Calls
<1>11. ~Answer(history, r.call)
  <2>1. \A i \in ToSet(history) : i.kind = "decision" => answers[i.call.no] # <<>>
    BY DEF Settled, TraceInv, AnswerInv, MadeByHuman
  <2> QED BY <2>1 DEF Answer
<1>12. PICK e \in Decided(sent) : e \in ToSet(said) BY <1>8, <1>9, <1>10, <1>11, AnswerIsActedOn
<1>14. sent = Prepared(<<Decision(r.call, TRUE)>>) BY <1>2, <1>6, <1>13
<1> QED BY <1>2, <1>4, <1>12, <1>14 DEF Counts

LEMMA AnswersCountNow ==
  ASSUME NEW tag, ConsentInv(tag), NEW r \in hand, r.call.id = tag, answers[r.call.no] = <<>>
  PROVE  Counts(r)
<1>1. Settled(tag) BY DEF ConsentInv, Settled
<1> QED BY <1>1, OneCounts
LEMMA ConsentIsGiven ==
  ASSUME NEW tag, ConsentInv(tag), NEW k \in DOMAIN made, made[k].tool \in Gated, made[k].id = tag
  PROVE  /\ runs[k] > 0 => Yeses(k) # {}
         /\ Interrupted(made[k]) = {} => runs[k] <= Cardinality(Yeses(k))
<1>1. made[k] \in Known BY DEF Known
<1>2. made[k].no = k /\ k \in Nos
  <2>1. made \in Seq(Call) /\ \A m \in 1..Len(made) : made[m].no = m BY DEF ConsentInv, ApprovalInv, MadeInv
  <2>2. k \in 1..Len(made) BY <2>1
  <2>3. made[k].no \in Nos BY <1>1, KnownAre DEF ConsentInv, ApprovalInv
  <2> QED BY <2>1, <2>2, <2>3
<1>3. /\ runs[k] + Due(made[k]) > 0 => Yeses(k) # {}
      /\ Interrupted(made[k]) = {} => runs[k] + Due(made[k]) <= Cardinality(Yeses(k))
      /\ runs[k] \in Nat
  BY <1>1, <1>2 DEF ConsentInv, CountInv
<1>4. Due(made[k]) \in {0, 1} BY DEF Due
<1>5. answers[k] \in Seq(BOOLEAN) BY <1>2 DEF ConsentInv, CountInv
<1>6. Cardinality(Yeses(k)) \in Nat BY <1>5, YesesCounted DEF Yeses, YesIn
<1> QED BY <1>3, <1>4, <1>6

-----------------------------------------------------------------------------
(* A turn ends: what is in a turn's items when their requests are to count. *)
AsksFor(tag, items, p, c) ==
  /\ \A i \in ToSet(history) \cup ToSet(input) : Rival(tag, i.call, c) => i.call.no < c.no
  /\ \A q \in 1..Len(items) : Rival(tag, items[q].call, c) => q < p /\ items[q].call.no < c.no
  /\ \A r \in pending : r.call.id = c.id => r.call = c
  /\ keeps => c \in owed'
  /\ Answer(history, c) => Raw(c) \in ToSet(history)
  /\ c \in Calls(ToSet(input)) => Raw(c) \in ToSet(history) \/ \E q \in 1..(p - 1) : items[q] = Raw(c)
  /\ HeldBack(items[p]) => NewestOf(Known', c) /\ ~Answer(history, c) /\ c \notin Calls(ToSet(input))
Fits(tag, items) ==
  /\ Follows(tag, history, items)
  /\ \A p \in 1..Len(items) : /\ items[p].kind # "decision"
                              /\ items[p].kind = "request" /\ items[p].call.id = tag => AsksFor(tag, items, p, items[p].call)
Leaves(tag, how, items) ==
  /\ Ends(how, items) /\ Fits(tag, items) /\ ToSet(handled) \subseteq ToSet(items)
  /\ how = "failed" \/ \A c \in calls \cup refused : Raw(c) \in ToSet(items)
  /\ keeps => \A r \in pending : r.call.id = tag => r.call \in owed'
  /\ answers' = answers

LEMMA FitsStarts ==
  ASSUME NEW tag, NEW t, NEW u, StartsWith(t, u), Fits(tag, t)
  PROVE  Fits(tag, u)
<1>1. Len(u) \in Nat /\ Len(t) \in Nat /\ Len(u) <= Len(t) /\ \A i \in 1..Len(u) : i \in 1..Len(t) /\ u[i] = t[i]
  BY DEF StartsWith
<1>2. Follows(tag, history, u)
  <2> SUFFICES ASSUME NEW q \in 1..Len(u), NEW i \in ToSet(history), i.kind = "request", Rival(tag, i.call, u[q].call)
               PROVE  /\ i.call.no < u[q].call.no
                      /\ Told(history, i.call) \/ \E m \in 1..(q - 1) : u[m] = ResultOf(i.call)
    BY DEF Follows
  <2>1. q \in 1..Len(t) /\ u[q] = t[q] BY <1>1
  <2>2. /\ i.call.no < t[q].call.no
        /\ Told(history, i.call) \/ \E m \in 1..(q - 1) : t[m] = ResultOf(i.call)
    BY <2>1 DEF Fits, Follows
  <2>3. \A m \in 1..(q - 1) : m \in 1..Len(u) BY <1>1
  <2> QED BY <1>1, <2>1, <2>2, <2>3
<1>3. ASSUME NEW p \in 1..Len(u), u[p].kind = "request", u[p].call.id = tag PROVE AsksFor(tag, u, p, u[p].call)
  <2>1. p \in 1..Len(t) /\ u[p] = t[p] BY <1>1
  <2>2. AsksFor(tag, t, p, u[p].call) BY <1>3, <2>1 DEF Fits
  <2>3. \A q \in 1..(p - 1) : u[q] = t[q] BY <1>1
  <2>4. \A q \in 1..Len(u) : Rival(tag, u[q].call, u[p].call) => q < p /\ u[q].call.no < u[p].call.no
    BY <1>1, <2>2 DEF AsksFor
  <2> QED BY <2>1, <2>2, <2>3, <2>4 DEF AsksFor
<1>4. \A p \in 1..Len(u) : u[p].kind # "decision" BY <1>1 DEF Fits
<1> QED BY <1>2, <1>3, <1>4 DEF Fits

(* The reader of a transcript stopped between a call and its result; what   *)
(* follows does not change that.                                            *)
Broken(s, c) ==
  {p \in DOMAIN s : /\ s[p] = Raw(c)
                    /\ \A r \in (p + 1)..Len(s) : s[r] = ResultOf(c) => Has(s, "call", c.id, p + 1, r - 1)}
LEMMA StaysBroken ==
  ASSUME NEW K, NEW h \in Seq(ItemsOf(K)), NEW b \in Seq(ItemsOf(K)), Founded(b),
         NEW s \in Seq(ItemsOf(K)), s = h \o b, NEW c
  PROVE  Broken(h, c) \subseteq Broken(s, c)
<1>1. /\ Len(h) \in Nat /\ Len(b) \in Nat /\ Len(s) = Len(h) + Len(b)
      /\ \A i \in 1..Len(h) : i \in 1..Len(s) /\ s[i] = h[i]
      /\ \A j \in 1..Len(b) : Len(h) + j \in 1..Len(s) /\ s[Len(h) + j] = b[j]
      /\ \A k \in 1..Len(s) : k \in 1..Len(h) \/ (k > Len(h) /\ \E j \in 1..Len(b) : k = Len(h) + j)
  BY JoinedIs, SMTT(30)
<1>2. DOMAIN h = 1..Len(h) /\ DOMAIN s = 1..Len(s) OBVIOUS
<1> SUFFICES ASSUME NEW p \in Broken(h, c), NEW r \in (p + 1)..Len(s), s[r] = ResultOf(c)
             PROVE  Has(s, "call", c.id, p + 1, r - 1)
  <2>1. \A p \in Broken(h, c) : p \in DOMAIN s /\ s[p] = Raw(c) BY <1>1, <1>2 DEF Broken
  <2> QED BY <2>1 DEF Broken
<1>3. p \in 1..Len(h) /\ h[p] = Raw(c) /\ \A e \in (p + 1)..Len(h) : h[e] = ResultOf(c) => Has(h, "call", c.id, p + 1, e - 1)
  BY <1>2 DEF Broken
<1>4. r \in 1..Len(s) BY <1>1, <1>3
<1>5. CASE r \in 1..Len(h)
  <2>1. h[r] = ResultOf(c) /\ r \in (p + 1)..Len(h) BY <1>1, <1>3, <1>5
  <2>2. PICK m \in (p + 1)..(r - 1) : h[m].kind = "call" /\ h[m].call.id = c.id BY <1>3, <2>1 DEF Has
  <2>3. m \in 1..Len(h) BY <1>1, <1>3, <1>5
  <2> QED BY <1>1, <2>2, <2>3 DEF Has
<1>6. CASE r \notin 1..Len(h)
  <2>1. PICK j \in 1..Len(b) : r = Len(h) + j BY <1>1, <1>4, <1>6
  <2>2. b[j] = ResultOf(c) BY <1>1, <2>1
  <2>7. b[j].kind = "result" /\ b[j].call = c BY <2>2, Fields
  <2>3. PICK m \in 1..(j - 1) : b[m] = Raw(c) BY <2>7 DEF Founded
  <2>4. m \in 1..Len(b) /\ Len(h) + m \in (p + 1)..(r - 1) BY <1>1, <1>3, <2>1
  <2>5. s[Len(h) + m] = Raw(c) BY <1>1, <2>3, <2>4
  <2>6. Raw(c).kind = "call" /\ Raw(c).call = c BY Fields
  <2> QED BY <2>4, <2>5, <2>6 DEF Has
<1> QED BY <1>5, <1>6

LEMMA FitsNewer ==
  ASSUME NEW tag, NEW K, NEW h \in Seq(ItemsOf(K)), ToSet(h) \subseteq ToSet(history) \cup ToSet(input),
         NEW items, Fits(tag, items)
  PROVE  Newer(tag, h, items)
<1> SUFFICES ASSUME NEW p \in 1..Len(items), items[p].kind = "request"
             PROVE  /\ \A i \in ToSet(h) : Rival(tag, i.call, items[p].call) => i.call.no < items[p].call.no
                    /\ \A q \in 1..Len(items) : Rival(tag, items[q].call, items[p].call) => q < p /\ items[q].call.no < items[p].call.no
  BY DEF Newer
<1>1. CASE items[p].call.id = tag
  <2>1. AsksFor(tag, items, p, items[p].call) BY <1>1 DEF Fits
  <2> QED BY <2>1 DEF AsksFor
<1>2. CASE items[p].call.id # tag BY <1>2 DEF Rival
<1> QED BY <1>1, <1>2

(* The transcript that the turn leaves.                                     *)
EndLeaves(tag, how, items) ==
  /\ Ordered(tag, history')
  /\ \/ history' = history
     \/ how # "failed" /\ ToSet(history') = ToSet(history) \cup ToSet(input) \cup {i \in ToSet(items) : ~HeldBack(i)}
  /\ \A c : Broken(history, c) \subseteq Broken(history', c)
LEMMA EndTranscript ==
  ASSUME NEW tag, Settled(tag), Moves, NEW how, NEW items, Leaves(tag, how, items)
  PROVE  EndLeaves(tag, how, items)
<1>1. /\ history \in Seq(ItemsOf(Known)) /\ input \in Seq(ItemsOf(Known))
      /\ \A i \in ToSet(input) : i.kind = "decision"
  BY TurnCalls DEF Settled
<1>2. PICK K : K = Known' OBVIOUS
<1>3. ItemsOf(Known) \subseteq ItemsOf(K) BY <1>2, MoreItems DEF Moves
<1>4. history \in Seq(ItemsOf(K)) /\ input \in Seq(ItemsOf(K)) BY <1>1, <1>3
<1>5. items \in Seq(ItemsOf(K)) /\ Ending(items) /\ End(how, items) /\ Fits(tag, items)
  BY <1>2 DEF Leaves, Ends
<1>6. Ordered(tag, history) /\ NotReasked(history) /\ InputInv(tag) BY DEF Settled, TraceInv, ApprovalInv, HistoryInv
<1>7. CASE history' = history BY <1>6, <1>7 DEF EndLeaves
<1>8. CASE history' # history
  <2>1. how # "failed" /\ history' = history \o input \o Shown(items) BY <1>5, <1>8 DEF End
  <2>2. PICK h \in Seq(ItemsOf(K)) : h = history \o input BY <1>4, JoinedIs
  <2>3. ToSet(h) = ToSet(history) \cup ToSet(input) BY <1>4, <2>2, JoinedIs
  <2>4. /\ Ordered(tag, h) /\ \A g : Follows(tag, history, g) => Follows(tag, h, g)
    <3>1. \A i \in ToSet(input) : Behind(tag, history, i.call) BY <1>6 DEF InputInv
    <3>2. /\ \A g : Follows(tag, history, g) => Follows(tag, h, g)
          /\ Ordered(tag, history) /\ NotReasked(history) /\ (\A i \in ToSet(input) : Behind(tag, history, i.call)) => Ordered(tag, h)
      BY <1>1, <1>4, <2>2, DecisionsBehind
    <3> QED BY <1>6, <3>1, <3>2
  <2>5. NotReasked(h)
    <3>1. \A p \in 1..Len(input) : input[p].kind = "decision" BY <1>1, <1>4, MemberIs
    <3>2. NotReasked(input) BY <3>1 DEF NotReasked
    <3>3. /\ NotReasked(history) /\ NotReasked(input)
               /\ (\A q \in 1..Len(input) : input[q].kind = "request" => ~Told(history, input[q].call)) => NotReasked(h)
      BY <1>4, <2>2, JoinedFits
    <3> QED BY <1>6, <3>1, <3>2, <3>3
  <2>6. PICK b \in Seq(ItemsOf(K)) : b = Shown(items) /\ ToSet(b) = {i \in ToSet(items) : ~HeldBack(i)} /\ Founded(b)
    BY <1>5, ShownIs DEF Ending
  <2>7. Newer(tag, h, items) BY <1>5, <2>3, FitsNewer
  <2>8. Follows(tag, h, items) BY <1>5, <2>4 DEF Fits
  <2>9. Follows(tag, h, b) /\ Newer(tag, h, b) BY <1>5, <2>6, <2>7, <2>8, ShownFollows
  <2>10. PICK s \in Seq(ItemsOf(K)) : s = h \o b BY JoinedIs
  <2>11. history' = s BY <2>1, <2>2, <2>6, <2>10
  <2>12. Ordered(tag, s) BY <2>4, <2>5, <2>9, <2>10, OrderedJoined
  <2>13. ToSet(s) = ToSet(h) \cup ToSet(b) BY <2>10, JoinedIs
  <2>14. ASSUME NEW c PROVE Broken(history, c) \subseteq Broken(s, c)
    <3>1. Founded(input)
      <4>1. \A p \in 1..Len(input) : input[p].kind = "decision" BY <1>1, <1>4, MemberIs
      <4> QED BY <4>1 DEF Founded
    <3>2. Broken(history, c) \subseteq Broken(h, c) BY <1>4, <2>2, <3>1, StaysBroken
    <3>3. Broken(h, c) \subseteq Broken(s, c) BY <2>6, <2>10, StaysBroken
    <3> QED BY <3>2, <3>3
  <2> QED BY <2>1, <2>3, <2>6, <2>11, <2>12, <2>13, <2>14 DEF EndLeaves
<1> QED BY <1>7, <1>8

-----------------------------------------------------------------------------
(* What the end of a turn makes of the invariant.                           *)
EndIs(how, items) ==
  /\ autoApproved' = {i \in ToSet(items) : HeldBack(i)}
  /\ pending' = pending \cup {i \in Surfaced(items) : i.call.id \notin CallIds(pending)}
  /\ hand' = Surfaced(items) \cup
       {r \in hand : /\ r.call.id \notin CallIds(Surfaced(items))
                     /\ how = "failed" \/ r.call \notin Calls(ToSet(input))}
  /\ input' = <<>> /\ messages' = <<>> /\ calls' = {} /\ refused' = {} /\ todo' = {}
  /\ deferred' = {} /\ asking' = {} /\ handled' = <<>> /\ pc' = "idle"
  /\ answers' = answers
LEMMA EndingIs ==
  ASSUME NEW tag, NEW how, NEW items, Leaves(tag, how, items)
  PROVE  EndIs(how, items)
BY DEF Leaves, Ends, End, Blank, EndIs

(* The requests that the turn shows.                                        *)
Shows(tag, items) ==
  \A x \in Surfaced(items) : x.call.id = tag =>
    /\ x.kind = "request" /\ x \in ToSet(items) /\ ~HeldBack(x)
    /\ \E p \in 1..Len(items) : items[p] = x /\ AsksFor(tag, items, p, x.call)
    /\ \A y \in ToSet(items) : y.kind = "request" /\ y.call.id = x.call.id => y.call = x.call
    /\ \E r \in pending' : r.call = x.call
LEMMA EndShows ==
  ASSUME NEW tag, Settled(tag), Moves, NEW how, NEW items, Leaves(tag, how, items)
  PROVE  Shows(tag, items)
<1>1. items \in Seq(ItemsOf(Known')) /\ Fits(tag, items) BY DEF Leaves, Ends
<1>2. pending' = pending \cup {i \in Surfaced(items) : i.call.id \notin CallIds(pending)} BY EndingIs DEF EndIs
<1> SUFFICES ASSUME NEW x \in Surfaced(items), x.call.id = tag
             PROVE  /\ x.kind = "request" /\ x \in ToSet(items) /\ ~HeldBack(x)
                    /\ \E p \in 1..Len(items) : items[p] = x /\ AsksFor(tag, items, p, x.call)
                    /\ \A y \in ToSet(items) : y.kind = "request" /\ y.call.id = x.call.id => y.call = x.call
                    /\ \E r \in pending' : r.call = x.call
  BY DEF Shows
<1>3. x.kind = "request" /\ x \in ToSet(items) /\ ~HeldBack(x) BY DEF Surfaced
<1>4. PICK p \in 1..Len(items) : items[p] = x BY <1>1, <1>3, MemberIs
<1>5. AsksFor(tag, items, p, x.call) BY <1>1, <1>3, <1>4 DEF Fits
<1>6. ASSUME NEW y \in ToSet(items), y.kind = "request", y.call.id = x.call.id PROVE y.call = x.call
  <2> SUFFICES ASSUME y.call # x.call PROVE FALSE OBVIOUS
  <2>1. PICK q \in 1..Len(items) : items[q] = y BY <1>1, MemberIs
  <2>2. AsksFor(tag, items, q, y.call) BY <1>1, <1>6, <2>1 DEF Fits
  <2>3. Rival(tag, items[q].call, x.call) /\ Rival(tag, items[p].call, y.call) BY <1>4, <1>6, <2>1 DEF Rival
  <2>4. q < p /\ p < q BY <1>5, <2>2, <2>3 DEF AsksFor
  <2> QED BY <1>1, <2>4
<1>7. \E r \in pending' : r.call = x.call
  <2>1. CASE x.call.id \in CallIds(pending)
    <3>1. PICK r \in pending : r.call.id = x.call.id BY <2>1 DEF CallIds
    <3>2. r.call = x.call BY <1>5, <3>1 DEF AsksFor
    <3> QED BY <1>2, <3>2
  <2>2. CASE x.call.id \notin CallIds(pending) BY <1>2, <2>2
  <2> QED BY <2>1, <2>2
<1> QED BY <1>3, <1>4, <1>5, <1>6, <1>7

LEMMA EndHand ==
  ASSUME NEW tag, Settled(tag), Moves, Attributable(tag)', NEW how, NEW items, Leaves(tag, how, items)
  PROVE  HandInv(tag)' /\ PendInv(tag)' /\ OpenInv(tag)'
<1>1. /\ pending' = pending \cup {i \in Surfaced(items) : i.call.id \notin CallIds(pending)}
      /\ hand' = Surfaced(items) \cup
           {r \in hand : /\ r.call.id \notin CallIds(Surfaced(items))
                         /\ how = "failed" \/ r.call \notin Calls(ToSet(input))}
      /\ answers' = answers
  BY EndingIs DEF EndIs
<1>2. Shows(tag, items) BY EndShows
<1>3. EndLeaves(tag, how, items) BY EndTranscript
<1>4. ApprovalInv'
  <2>1. ApprovalInv /\ Ends(how, items) BY DEF Settled, Leaves
  <2> QED BY <2>1, EndKeeps
<1>5. /\ history' \in Seq(ItemsOf(Known')) /\ \A r \in pending' : r.kind = "request" /\ ~Told(history', r.call)
  <2>1. history' \in Seq(ItemsOf(Known')) /\ pending' \subseteq Requests(Known') BY <1>4 DEF ApprovalInv, TypeInv
  <2>2. \A r \in pending' : ~Told(history', r.call) BY <1>4 DEF ApprovalInv, BatchInv
  <2> QED BY <2>1, <2>2, KindsIn
<1>6. HandInv(tag) /\ PendInv(tag) /\ OpenInv(tag) BY DEF Settled, TraceInv
<1>7. \A r \in pending' : r.call.id = tag => Behind(tag, history', r.call)
  <2> SUFFICES ASSUME NEW r \in pending', r.call.id = tag PROVE Behind(tag, history', r.call) OBVIOUS
  <2>1. Attributed(tag, history', r)
    <3>1. r \in ToSet(history') \/ \A i \in ToSet(history') : ~(i.call.id = r.call.id /\ i.call # r.call)
      BY DEF Attributable, Overshadowed
    <3> QED BY <3>1 DEF Attributed, Rival
  <2>2. Ordered(tag, history') BY <1>3 DEF EndLeaves
  <2> QED BY <1>5, <2>1, <2>2, AttributedBehind
<1>8. ASSUME NEW x \in Surfaced(items), x.call.id = tag
      PROVE  /\ Behind(tag, history', x.call)
             /\ (\A y \in Surfaced(items) : y.call.id = x.call.id => y.call = x.call)
             /\ \A r \in pending : r.call.id = x.call.id => r.call = x.call
  <2>1. PICK r \in pending' : r.call = x.call BY <1>2, <1>8 DEF Shows
  <2>2. Behind(tag, history', x.call) BY <1>7, <1>8, <2>1
  <2>3. \A y \in Surfaced(items) : y.call.id = x.call.id => y.call = x.call BY <1>2, <1>8 DEF Shows, Surfaced
  <2>4. \A o \in pending : o.call.id = x.call.id => o.call = x.call BY <1>2, <1>8 DEF Shows, AsksFor
  <2> QED BY <2>2, <2>3, <2>4
<1>9. ASSUME NEW h \in hand', h \notin Surfaced(items)
      PROVE  h \in hand /\ \A x \in Surfaced(items) : x.call.id # h.call.id
  BY <1>1, <1>9 DEF CallIds
<1>10. ASSUME NEW h \in hand', h.call.id = tag, h \notin Surfaced(items) PROVE Behind(tag, history', h.call)
  <2>1. Behind(tag, history, h.call) BY <1>6, <1>9, <1>10 DEF HandInv
  <2> SUFFICES ASSUME NEW i \in ToSet(history'), i.kind = "request", Rival(tag, i.call, h.call)
               PROVE  i.call.no < h.call.no /\ Told(history', i.call)
    BY DEF Behind
  <2>2. i \in ToSet(history) \/ i \in ToSet(input) \/ (i \in ToSet(items) /\ ~HeldBack(i)) BY <1>3 DEF EndLeaves
  <2>3. i \notin ToSet(input) BY TurnCalls DEF Settled
  <2>4. ~(i \in ToSet(items) /\ ~HeldBack(i)) BY <1>9, <1>10 DEF Surfaced, Rival
  <2>5. i \in ToSet(history) BY <2>2, <2>3, <2>4
  <2>6. i.call.no < h.call.no /\ Told(history, i.call) BY <2>1, <2>5 DEF Behind
  <2>7. ToSet(history) \subseteq ToSet(history') BY <1>3 DEF EndLeaves
  <2>8. history \in Seq(ItemsOf(Known)) BY TurnCalls DEF Settled
  <2>9. ResultOf(i.call) \in ToSet(history') BY <2>6, <2>7, <2>8, ToldIs
  <2> QED BY <1>5, <2>6, <2>9, ToldIs
<1>11. ASSUME NEW h \in hand', NEW r \in pending' \cup hand', r.call.id = tag, h.call.id = tag PROVE r.call = h.call
  <2>1. CASE h \in Surfaced(items)
    <3>1. r \in Surfaced(items) \/ r \in pending \/ (r \in hand' /\ r \notin Surfaced(items)) BY <1>1
    <3>2. ~(r \in hand' /\ r \notin Surfaced(items)) BY <1>9, <1>11, <2>1
    <3> QED BY <1>8, <1>11, <2>1, <3>1, <3>2
  <2>2. CASE h \notin Surfaced(items)
    <3>1. h \in hand /\ r \notin Surfaced(items) BY <1>9, <1>11, <2>2
    <3>2. r \in pending \cup hand BY <1>1, <3>1
    <3> QED BY <1>6, <1>11, <3>1, <3>2 DEF HandInv
  <2> QED BY <2>1, <2>2
<1>12. HandInv(tag)'
  <2>1. \A h \in hand' : Behind(tag, history', h.call)
    <3>1. \A h \in hand' : h.call.id = tag => Behind(tag, history', h.call) BY <1>8, <1>10
    <3> QED BY <3>1 DEF Behind, Rival
  <2> QED BY <1>11, <2>1 DEF HandInv
<1>13. PendInv(tag)'
  <2> SUFFICES ASSUME NEW r \in pending', NEW o \in pending', r.call.id = tag, o.call.id = tag PROVE r.call = o.call
    BY DEF PendInv
  <2>1. CASE r \in pending /\ o \in pending BY <1>6, <2>1 DEF PendInv
  <2>2. CASE r \in pending /\ o \notin pending BY <1>1, <1>8, <2>2
  <2>3. CASE r \notin pending /\ o \in pending BY <1>1, <1>8, <2>3
  <2>4. CASE r \notin pending /\ o \notin pending BY <1>1, <1>8, <2>4
  <2> QED BY <2>1, <2>2, <2>3, <2>4
<1>14. OpenInv(tag)'
  <2> SUFFICES ASSUME NEW h \in hand', h.call.id = tag, answers[h.call.no] = <<>> PROVE \E r \in pending' : r.call = h.call
    BY <1>1 DEF OpenInv
  <2>1. CASE h \in Surfaced(items) BY <1>2, <2>1 DEF Shows
  <2>2. CASE h \notin Surfaced(items)
    <3>1. h \in hand BY <1>9, <2>2
    <3>2. PICK r \in pending : r.call = h.call BY <1>6, <3>1 DEF OpenInv
    <3> QED BY <1>1, <3>2
  <2> QED BY <2>1, <2>2
<1> QED BY <1>12, <1>13, <1>14

-----------------------------------------------------------------------------
LEMMA EndAnswers ==
  ASSUME NEW tag, Settled(tag), Moves, NEW how, NEW items, Leaves(tag, how, items)
  PROVE  AnswerInv(tag)'
<1>1. EndIs(how, items) BY EndingIs
<1>2. pending' = pending \cup {i \in Surfaced(items) : i.call.id \notin CallIds(pending)} /\ answers' = answers
      /\ input' = <<>> /\ calls' = {} /\ refused' = {} /\ asking' = {}
  BY <1>1 DEF EndIs
<1>3. Shows(tag, items) BY EndShows
<1>4. \/ history' = history
      \/ how # "failed" /\ ToSet(history') = ToSet(history) \cup ToSet(input) \cup {i \in ToSet(items) : ~HeldBack(i)}
  BY EndTranscript DEF EndLeaves
<1>5. ToSet(history) \subseteq ToSet(history') BY <1>4
<1>6. AnswerInv(tag) BY DEF Settled, TraceInv
<1>7. /\ \A i \in ToSet(history) \cup ToSet(input) : i.call \in Known
      /\ \A i \in ToSet(input) : i.kind = "decision"
      /\ history \in Seq(ItemsOf(Known))
  BY TurnCalls DEF Settled
<1>8. /\ items \in Seq(ItemsOf(Known')) /\ \A i \in ToSet(items) : i.kind # "decision"
      /\ ToSet(handled) \subseteq ToSet(items)
      /\ how = "failed" \/ \A c \in calls \cup refused : Raw(c) \in ToSet(items)
  <2>1. items \in Seq(ItemsOf(Known')) /\ \A p \in 1..Len(items) : items[p].kind # "decision" BY DEF Leaves, Ends, Fits
  <2>2. \A i \in ToSet(items) : i.kind # "decision" BY <2>1, MemberIs
  <2> QED BY <2>1, <2>2 DEF Leaves
<1>9. history' \in Seq(ItemsOf(Known'))
  <2>1. ApprovalInv /\ Ends(how, items) BY DEF Settled, Leaves
  <2> QED BY <2>1, EndHistory
<1>10. \A i \in ToSet(history') : i.kind = "decision" => i \in ToSet(history) \cup ToSet(input) BY <1>4, <1>8
<1>11. ToSet(input') = {} BY <1>2 DEF ToSet
<1>12. Live' = {} BY <1>2 DEF Live, Calls
(* A request that was not there before was shown at the end.                *)
<1>13. ASSUME NEW c, c.id = tag, ~NotRequested(c)' , NotRequested(c)
       PROVE  \E p \in 1..Len(items) : AsksFor(tag, items, p, c)
  <2>1. \/ \E i \in ToSet(history') : i.kind = "request" /\ i.call = c
        \/ \E r \in pending' : r.call = c
    <3>1. \A q \in 1..Len(history') : history'[q] \in ToSet(history') BY <1>9, MemberIs
    <3> QED BY <1>13, <3>1 DEF NotRequested
  <2>2. /\ \A i \in ToSet(history) : i.kind = "request" => i.call # c
        /\ \A r \in pending : r.call # c
    <3>1. \A i \in ToSet(history) : \E q \in 1..Len(history) : history[q] = i BY <1>7, MemberIs
    <3> QED BY <1>13, <3>1 DEF NotRequested
  <2>3. \E x \in Surfaced(items) : x.call = c
    <3>1. CASE \E r \in pending' : r.call = c BY <1>2, <2>2, <3>1
    <3>2. CASE \E i \in ToSet(history') : i.kind = "request" /\ i.call = c
      <4>1. PICK i \in ToSet(history') : i.kind = "request" /\ i.call = c BY <3>2
      <4>2. i \notin ToSet(history) BY <2>2, <4>1
      <4>3. i \in ToSet(items) /\ ~HeldBack(i) BY <1>4, <1>7, <4>1, <4>2
      <4> QED BY <4>1, <4>3 DEF Surfaced
    <3> QED BY <2>1, <3>1, <3>2
  <2> QED BY <1>3, <1>13, <2>3 DEF Shows
<1>14. ASSUME NEW c \in Known', c.id = tag, Answer(history', c)
       PROVE  Raw(c) \in ToSet(history') \/ NotRequested(c)'
  <2> SUFFICES ASSUME ~NotRequested(c)' PROVE Raw(c) \in ToSet(history') BY DEF NotRequested
  <2>0. Raw(c).kind = "call" BY Fields
  <2>1. CASE Answer(history, c)
    <3>1. c \in Known BY <1>7, <2>1 DEF Answer
    <3>2. Raw(c) \in ToSet(history) \/ NotRequested(c) BY <1>6, <1>14, <2>1, <3>1 DEF AnswerInv
    <3>3. NotRequested(c) => Raw(c) \in ToSet(history)
      <4> SUFFICES ASSUME NotRequested(c) PROVE Raw(c) \in ToSet(history) OBVIOUS
      <4>1. PICK p \in 1..Len(items) : AsksFor(tag, items, p, c) BY <1>13, <1>14
      <4> QED BY <2>1, <4>1 DEF AsksFor
    <3> QED BY <1>5, <3>2, <3>3
  <2>2. CASE ~Answer(history, c)
    <3>1. PICK i \in ToSet(history') : i.kind = "decision" /\ i.call = c BY <1>14 DEF Answer
    <3>2. i \in ToSet(input) BY <1>10, <2>2, <3>1 DEF Answer
    <3>3. history' # history BY <2>2, <3>1 DEF Answer
    <3>4. how # "failed" /\ ToSet(history') = ToSet(history) \cup ToSet(input) \cup {x \in ToSet(items) : ~HeldBack(x)}
      BY <1>4, <3>3
    <3>5. Raw(c) \in ToSet(items) \cup ToSet(history) => Raw(c) \in ToSet(history') BY <2>0, <3>4 DEF HeldBack
    <3>6. \/ Raw(c) \in ToSet(history) \cup ToSet(handled) \/ c \in calls \cup refused
          \/ NotRequested(c)
      BY <1>6, <1>14, <3>1, <3>2 DEF AnswerInv
    <3>7. NotRequested(c) => Raw(c) \in ToSet(items) \cup ToSet(history)
      <4> SUFFICES ASSUME NotRequested(c) PROVE Raw(c) \in ToSet(items) \cup ToSet(history) OBVIOUS
      <4>1. PICK p \in 1..Len(items) : AsksFor(tag, items, p, c) BY <1>13, <1>14
      <4>2. c \in Calls(ToSet(input)) BY <3>1, <3>2 DEF Calls
      <4>3. Raw(c) \in ToSet(history) \/ \E q \in 1..(p - 1) : items[q] = Raw(c) BY <4>1, <4>2 DEF AsksFor
      <4>4. \A q \in 1..(p - 1) : q \in 1..Len(items) BY <1>8
      <4> QED BY <1>8, <4>3, <4>4, MemberIs
    <3> QED BY <1>8, <3>4, <3>5, <3>6, <3>7
  <2> QED BY <2>1, <2>2
<1>15. \A i \in ToSet(history') : i.kind = "decision" => MadeByHuman(i)'
  <2>1. \A i \in ToSet(history') : i.kind = "decision" => MadeByHuman(i) BY <1>6, <1>10 DEF AnswerInv
  <2>2. \A i : MadeByHuman(i)' <=> MadeByHuman(i) BY <1>2 DEF MadeByHuman, Yeses
  <2> QED BY <2>1, <2>2
<1> QED BY <1>11, <1>12, <1>14, <1>15 DEF AnswerInv

LEMMA EndAuto ==
  ASSUME NEW tag, Settled(tag), Moves, NEW how, NEW items, Leaves(tag, how, items)
  PROVE  OwedInv(tag)' /\ AutoInv(tag)'
<1>1. EndIs(how, items) BY EndingIs
<1>2. /\ pending' = pending \cup {i \in Surfaced(items) : i.call.id \notin CallIds(pending)}
      /\ autoApproved' = {i \in ToSet(items) : HeldBack(i)}
      /\ calls' = {} /\ asking' = {} /\ deferred' = {}
  BY <1>1 DEF EndIs
<1>3. Shows(tag, items) BY EndShows
<1>4. \A i \in ToSet(history') : i.kind = "decision" => i \in ToSet(history) \cup ToSet(input)
  <2>1. \/ history' = history
        \/ how # "failed" /\ ToSet(history') = ToSet(history) \cup ToSet(input) \cup {i \in ToSet(items) : ~HeldBack(i)}
    BY EndTranscript DEF EndLeaves
  <2>2. items \in Seq(ItemsOf(Known')) /\ \A p \in 1..Len(items) : items[p].kind # "decision" BY DEF Leaves, Ends, Fits
  <2>3. \A i \in ToSet(items) : i.kind # "decision" BY <2>2, MemberIs
  <2> QED BY <2>1, <2>3
<1>5. \A a \in autoApproved' : a.call.id = tag =>
        /\ HeldBack(a) /\ a.kind = "request" /\ a \in ToSet(items)
        /\ \E p \in 1..Len(items) : items[p] = a /\ AsksFor(tag, items, p, a.call)
  <2> SUFFICES ASSUME NEW a, a \in ToSet(items), HeldBack(a), a.call.id = tag
               PROVE  a.kind = "request" /\ \E p \in 1..Len(items) : items[p] = a /\ AsksFor(tag, items, p, a.call)
    BY <1>2
  <2>1. items \in Seq(ItemsOf(Known')) /\ Fits(tag, items) BY DEF Leaves, Ends
  <2>2. PICK p \in 1..Len(items) : items[p] = a BY <2>1, MemberIs
  <2> QED BY <2>1, <2>2 DEF Fits, HeldBack
<1>6. OwedInv(tag)'
  <2> SUFFICES ASSUME keeps' PROVE \A c \in Calls(pending' \cup autoApproved') : c.id = tag => c \in owed'
    BY <1>2 DEF OwedInv
  <2>1. keeps BY DEF Moves
  <2>2. \A x \in Surfaced(items) : x.call.id = tag => x.call \in owed' BY <1>3, <2>1 DEF Shows, AsksFor
  <2>3. \A a \in autoApproved' : a.call.id = tag => a.call \in owed' BY <1>5, <2>1 DEF AsksFor
  <2>4. \A r \in pending : r.call.id = tag => r.call \in owed' BY <2>1 DEF Leaves
  <2> QED BY <1>2, <2>2, <2>3, <2>4 DEF Calls
<1>7. AutoInv(tag)'
  <2> SUFFICES ASSUME NEW a \in autoApproved', a.call.id = tag
               PROVE  NewestOf(Known', a.call) /\ a.call.id \notin CallIds(pending') /\ ~Answer(history', a.call)
    BY DEF AutoInv, NewestOf, Answer
  <2>1. PICK p \in 1..Len(items) : items[p] = a /\ AsksFor(tag, items, p, a.call) BY <1>5
  <2>2. HeldBack(a) /\ a.kind = "request" /\ a \in ToSet(items) BY <1>5
  <2>3. NewestOf(Known', a.call) /\ ~Answer(history, a.call) /\ a.call \notin Calls(ToSet(input))
    BY <2>1, <2>2 DEF AsksFor
  <2>4. ~Answer(history', a.call) BY <1>4, <2>3 DEF Answer, Calls
  <2>5. Ending(items) /\ items \in Seq(ItemsOf(Known')) BY DEF Leaves, Ends
  <2>6. /\ NotRequested(a.call)
        /\ \A q \in 1..Len(items) : items[q].kind = "request" /\ ~HeldBack(items[q]) => items[q].call # a.call
    BY <2>1, <2>2, <2>5 DEF Ending
  <2>7. \A r \in pending : r.call.id # a.call.id BY <2>1, <2>6 DEF AsksFor, NotRequested
  <2>8. \A x \in Surfaced(items) : x.call.id # a.call.id
    <3> SUFFICES ASSUME NEW x \in Surfaced(items), x.call.id = a.call.id PROVE FALSE OBVIOUS
    <3>1. a.call = x.call BY <1>3, <2>2 DEF Shows
    <3>2. PICK q \in 1..Len(items) : items[q] = x BY <1>3 DEF Shows
    <3> QED BY <1>3, <2>6, <3>1, <3>2 DEF Shows
  <2> QED BY <1>2, <2>3, <2>4, <2>7, <2>8 DEF CallIds
<1> QED BY <1>6, <1>7

(* The end of a turn keeps what is said of the transcripts.                 *)
LEMMA EndTraces ==
  ASSUME NEW tag, Settled(tag), Moves, Attributable(tag)', NEW how, NEW items, Leaves(tag, how, items)
  PROVE  TraceInv(tag)'
<1>1. EndIs(how, items) BY EndingIs
<1>2. input' = <<>> /\ messages' = <<>> /\ calls' = {} /\ refused' = {} /\ asking' = {} /\ handled' = <<>>
  BY <1>1 DEF EndIs
<1>3. Ordered(tag, history') BY EndTranscript DEF EndLeaves
<1>4. Follows(tag, history', handled') BY <1>2 DEF Follows
<1>5. InputInv(tag)' BY <1>2 DEF InputInv, ToSet
<1>6. Live' = {} BY <1>2 DEF Live, Calls
<1>7. LiveInv(tag)' BY <1>6 DEF LiveInv
<1>8. MsgInv(tag)' BY <1>2 DEF MsgInv, Told
<1>9. HandInv(tag)' /\ PendInv(tag)' /\ OpenInv(tag)' BY EndHand
<1>10. AnswerInv(tag)' BY EndAnswers
<1>11. OwedInv(tag)' /\ AutoInv(tag)' BY EndAuto
<1> QED BY <1>3, <1>4, <1>5, <1>7, <1>8, <1>9, <1>10, <1>11 DEF TraceInv

(* The tools run no more often than they are due to.                        *)
Spends ==
  /\ answers' = answers /\ runs' \in [Nos -> Nat]
  /\ \A n \in Nos : n > Len(made') => runs'[n] = 0
  /\ \A c \in Known : c.tool \in Gated =>
       runs'[c.no] + Due(c)' <= runs[c.no] + Due(c) /\ Broken(history, c) \subseteq Broken(history', c)
  /\ \A c \in Known' \ Known : c.tool \in Gated => runs'[c.no] + Due(c)' = 0
LEMMA CountsKept ==
  ASSUME NEW tag, ConsentInv(tag), MadeInv', Spends
  PROVE  CountInv(tag)'
<1>1. CountInv(tag) BY DEF ConsentInv
<1>2. /\ answers' = answers /\ runs' \in [Nos -> Nat] /\ runs \in [Nos -> Nat]
      /\ \A n \in Nos : n > Len(made') => runs'[n] = 0
  BY <1>1 DEF Spends, CountInv
<1>3. \A n : Yeses(n)' = Yeses(n) BY <1>2 DEF Yeses
<1>4. ASSUME NEW c \in Known', c.id = tag, c.tool \in Gated
      PROVE  /\ runs'[c.no] + Due(c)' > 0 => Yeses(c.no) # {}
             /\ Interrupted(c)' = {} => runs'[c.no] + Due(c)' <= Cardinality(Yeses(c.no))
  <2>0. c.no \in Nos BY KnownNextAre
  <2>1. CASE c \in Known
    <3>1. runs'[c.no] + Due(c)' <= runs[c.no] + Due(c) /\ Broken(history, c) \subseteq Broken(history', c)
      BY <1>4, <2>1 DEF Spends
    <3>2. /\ runs[c.no] + Due(c) > 0 => Yeses(c.no) # {}
          /\ Interrupted(c) = {} => runs[c.no] + Due(c) <= Cardinality(Yeses(c.no))
      BY <1>1, <1>4, <2>1 DEF CountInv
    <3>3. Interrupted(c)' = Broken(history', c) /\ Interrupted(c) = Broken(history, c) BY DEF Interrupted, Broken
    <3>4. Cardinality(Yeses(c.no)) \in Nat
      <4>1. answers[c.no] \in Seq(BOOLEAN) BY <1>1, <2>0 DEF CountInv
      <4>2. Yeses(c.no) \subseteq 1..Len(answers[c.no]) /\ Len(answers[c.no]) \in Nat BY <4>1 DEF Yeses
      <4>3. IsFiniteSet(1..Len(answers[c.no])) BY <4>2, FS_Interval
      <4>4. IsFiniteSet(Yeses(c.no)) BY <4>2, <4>3, FS_Subset
      <4> QED BY <4>4, FS_CardinalityType
    <3>5. runs'[c.no] \in Nat /\ runs[c.no] \in Nat /\ Due(c) \in Nat /\ Due(c)' \in Nat BY <1>2, <2>0 DEF Due
    <3> QED BY <3>1, <3>2, <3>3, <3>4, <3>5
  <2>2. CASE c \notin Known
    <3>1. runs'[c.no] + Due(c)' = 0 BY <1>4, <2>2 DEF Spends
    <3>2. Cardinality(Yeses(c.no)) \in Nat
      <4>1. answers[c.no] \in Seq(BOOLEAN) BY <1>1, <2>0 DEF CountInv
      <4>2. Yeses(c.no) \subseteq 1..Len(answers[c.no]) /\ Len(answers[c.no]) \in Nat BY <4>1 DEF Yeses
      <4>3. IsFiniteSet(1..Len(answers[c.no])) BY <4>2, FS_Interval
      <4>4. IsFiniteSet(Yeses(c.no)) BY <4>2, <4>3, FS_Subset
      <4> QED BY <4>4, FS_CardinalityType
    <3> QED BY <3>1, <3>2
  <2> QED BY <2>1, <2>2
<1> QED BY <1>1, <1>2, <1>3, <1>4 DEF CountInv

-----------------------------------------------------------------------------
(* Tools run for calls of the batch that were not executed yet; the calls   *)
(* that are new did not run.                                                *)
Goes ==
  /\ answers' = answers
  /\ runs' = runs \/ \E c \in todo : runs' = [runs EXCEPT ![c.no] = @ + 1]
  /\ Len(made) <= Len(made') /\ \A c \in Known' \ Known : c.no > Len(made)
LEMMA GoesIs ==
  ASSUME NEW tag, ConsentInv(tag), MadeInv', Goes
  PROVE  /\ answers' = answers /\ runs' \in [Nos -> Nat]
         /\ \A n \in Nos : n > Len(made') => runs'[n] = 0
         /\ \A c \in Known : runs'[c.no] <= runs[c.no] + Due(c)
         /\ \A c \in Known' \ Known : runs'[c.no] = 0
<1>1. /\ MadeInv /\ todo \subseteq Known /\ runs \in [Nos -> Nat]
      /\ \A n \in Nos : n > Len(made) => runs[n] = 0
  BY DEF ConsentInv, ApprovalInv, TypeInv, CountInv
<1>2. \A c \in Known : /\ c.no \in Nos /\ c.no \in 1..Len(made) /\ c.no \in Nat
                       /\ \A d \in Known : c.no = d.no => c = d
  BY <1>1, KnownAre
<1>3. \A c \in Known' : c.no \in Nos /\ c.no \in Nat BY KnownNextAre
<1>4. /\ answers' = answers /\ Len(made) <= Len(made') /\ \A c \in Known' \ Known : c.no > Len(made)
      /\ runs' = runs \/ \E c \in todo : runs' = [runs EXCEPT ![c.no] = @ + 1]
  BY DEF Goes
<1>5. Len(made) \in Nat /\ Len(made') \in Nat /\ Nos \subseteq Nat BY <1>1 DEF MadeInv, Nos
<1>6. CASE runs' = runs
  <2>1. \A c \in Known : runs'[c.no] <= runs[c.no] + Due(c) BY <1>1, <1>2, <1>6 DEF Due
  <2>2. \A n \in Nos : n > Len(made') => runs'[n] = 0 BY <1>1, <1>4, <1>5, <1>6
  <2>3. \A c \in Known' \ Known : runs'[c.no] = 0 BY <1>1, <1>3, <1>4, <1>6
  <2> QED BY <1>1, <1>4, <1>6, <2>1, <2>2, <2>3
<1>7. CASE \E c \in todo : runs' = [runs EXCEPT ![c.no] = @ + 1]
  <2>1. PICK d \in todo : runs' = [runs EXCEPT ![d.no] = @ + 1] BY <1>7
  <2>2. d \in Known /\ d.no \in Nos /\ d.no \in 1..Len(made) BY <1>1, <1>2
  <2>3. runs' \in [Nos -> Nat] /\ runs'[d.no] = runs[d.no] + 1 /\ \A n \in Nos : n # d.no => runs'[n] = runs[n]
    BY <1>1, <2>1, <2>2
  <2>4. ASSUME NEW c \in Known PROVE runs'[c.no] <= runs[c.no] + Due(c)
    <3>1. CASE c = d
      <4>1. Due(c) = 1 BY <3>1 DEF Due
      <4> QED BY <2>3, <3>1, <4>1, <1>1, <2>2
    <3>2. CASE c # d
      <4>1. c.no # d.no /\ c.no \in Nos BY <1>2, <2>2, <3>2
      <4>2. runs'[c.no] = runs[c.no] /\ runs[c.no] \in Nat BY <1>1, <2>3, <4>1
      <4> QED BY <4>2 DEF Due
    <3> QED BY <3>1, <3>2
  <2>5. \A n \in Nos : n > Len(made) => runs'[n] = 0
    <3> TAKE n \in Nos
    <3> HAVE n > Len(made)
    <3>1. n # d.no BY <1>5, <2>2
    <3> QED BY <1>1, <2>3, <3>1
  <2>6. \A n \in Nos : n > Len(made') => runs'[n] = 0 BY <1>4, <1>5, <2>5
  <2>7. \A c \in Known' \ Known : runs'[c.no] = 0 BY <1>3, <1>4, <2>5
  <2> QED BY <1>4, <2>3, <2>4, <2>6, <2>7
<1> QED BY <1>4, <1>6, <1>7

(* The end of a turn keeps it all.                                          *)
LEMMA EndConsents ==
  ASSUME NEW tag, ConsentInv(tag), Moves, Goes, Attributable(tag)', NEW how, NEW items, Leaves(tag, how, items)
  PROVE  ConsentInv(tag)'
<1>1. Settled(tag) BY DEF ConsentInv, Settled
<1>2. ApprovalInv'
  <2>1. ApprovalInv /\ Ends(how, items) BY <1>1 DEF Settled, Leaves
  <2> QED BY <2>1, EndKeeps
<1>3. TraceInv(tag)' BY <1>1, EndTraces
<1>4. MadeInv' BY DEF Moves
<1>5. Spends
  <2>1. /\ answers' = answers /\ runs' \in [Nos -> Nat]
        /\ \A n \in Nos : n > Len(made') => runs'[n] = 0
        /\ \A c \in Known : runs'[c.no] <= runs[c.no] + Due(c)
        /\ \A c \in Known' \ Known : runs'[c.no] = 0
    BY <1>4, GoesIs
  <2>2. \A c : Broken(history, c) \subseteq Broken(history', c) BY <1>1, EndTranscript DEF EndLeaves
  <2>3. todo' = {} BY EndingIs DEF EndIs
  <2>4. \A c : Due(c)' = 0 BY <2>3 DEF Due
  <2>5. \A c \in Known : runs'[c.no] + Due(c)' <= runs[c.no] + Due(c)
    <3> TAKE c \in Known
    <3>0. MadeInv BY DEF ConsentInv, ApprovalInv
    <3>1. c.no \in Nos BY <3>0, KnownAre
    <3>2. runs'[c.no] \in Nat BY <2>1, <3>1
    <3> QED BY <2>1, <2>4, <3>2
  <2>6. \A c \in Known' \ Known : runs'[c.no] + Due(c)' = 0 BY <2>1, <2>4
  <2> QED BY <2>1, <2>2, <2>5, <2>6 DEF Spends
<1>6. CountInv(tag)' BY <1>4, <1>5, CountsKept
<1> QED BY <1>2, <1>3, <1>6 DEF ConsentInv

(* What has passed has no request, and may end the turn.                    *)
LEMMA HandledLeaves ==
  ASSUME NEW tag, Settled(tag), Moves, NEW how, Ends(how, handled),
         how = "failed" \/ calls \cup refused = {}, keeps => \A r \in pending : r.call.id = tag => r.call \in owed', answers' = answers
  PROVE  Leaves(tag, how, handled)
<1>1. \A p \in 1..Len(handled) : handled[p].kind \in {"call", "result"}
  <2>1. ApprovalInv BY DEF Settled
  <2> QED BY <2>1, HandledEnds
<1>2. Follows(tag, history, handled) BY DEF Settled, TraceInv
<1>3. Fits(tag, handled) BY <1>1, <1>2 DEF Fits
<1> QED BY <1>3 DEF Leaves
(* ... if the turn fails.                                                   *)
LEMMA FailEnds ==
  ASSUME ApprovalInv, Moves, End("failed", handled)
  PROVE  Ends("failed", handled)
<1>1. handled \in Seq(ItemsOf(Known)) /\ Ending(handled) BY HandledEnds
<1>2. ItemsOf(Known) \subseteq ItemsOf(Known') BY MoreItems DEF Moves
<1>3. handled \in Seq(ItemsOf(Known')) BY <1>1, <1>2
<1> QED BY <1>1, <1>3 DEF Ends

LEMMA FailConsents ==
  ASSUME NEW tag, ConsentInv(tag), Attributable(tag)', UNCHANGED <<made, managed, keeps>>, Goes, End("failed", handled),
         keeps => \A r \in pending : r.call.id = tag => r.call \in owed'
  PROVE  ConsentInv(tag)'
<1>1. ApprovalInv /\ Settled(tag) BY DEF ConsentInv, Settled
<1>2. Moves BY <1>1, StaysMade
<1>3. Ends("failed", handled) BY <1>1, <1>2, FailEnds
<1>4. answers' = answers BY DEF Goes
<1>5. Leaves(tag, "failed", handled) BY <1>1, <1>2, <1>3, <1>4, HandledLeaves
<1> QED BY <1>2, <1>5, EndConsents

(* What the service owes, when it keeps the conversation.                   *)
LEMMA OwedIs ==
  ASSUME NEW tag, ConsentInv(tag), keeps
  PROVE  /\ \A c \in calls : c.id = tag => c \in owed
         /\ \A r \in pending \cup deferred \cup asking : r.call.id = tag => r.call \in owed
<1>1. \A c \in Calls(pending \cup asking \cup deferred \cup autoApproved) \cup calls : c.id = tag => c \in owed
  BY DEF ConsentInv, TraceInv, OwedInv
<1> QED BY <1>1 DEF Calls

LEMMA StaysGoing ==
  ASSUME NEW tag, ConsentInv(tag), made' = made, answers' = answers,
         runs' = runs \/ \E c \in todo : runs' = [runs EXCEPT ![c.no] = @ + 1]
  PROVE  Goes
<1>1. Len(made) \in Nat BY DEF ConsentInv, ApprovalInv, MadeInv
<1>2. Known' = Known BY DEF Known
<1> QED BY <1>1, <1>2 DEF Goes

LEMMA FailIsFine ==
  ASSUME NEW tag, ConsentInv(tag), Attributable(tag)', Fail
  PROVE  ConsentInv(tag)'
<1>1. UNCHANGED <<made, managed, keeps>> /\ owed' = owed /\ End("failed", handled) /\ answers' = answers /\ runs' = runs
  BY DEF Fail, service
<1>2. keeps => \A r \in pending : r.call.id = tag => r.call \in owed' BY <1>1, OwedIs
<1>3. Goes BY <1>1, StaysGoing
<1> QED BY <1>1, <1>2, <1>3, FailConsents

LEMMA MiddlewareFailsIsFine ==
  ASSUME NEW tag, ConsentInv(tag), Attributable(tag)', MiddlewareFails
  PROVE  ConsentInv(tag)'
<1>1. /\ UNCHANGED <<made, managed, keeps>> /\ owed' \in {owed, IF managed THEN owed \ calls ELSE owed}
      /\ End("failed", handled) /\ answers' = answers /\ runs' = runs
  BY DEF MiddlewareFails
<1>2. keeps => \A r \in pending : r.call.id = tag => r.call \in owed'
  <2> SUFFICES ASSUME keeps, NEW r \in pending, r.call.id = tag PROVE r.call \in owed' OBVIOUS
  <2>1. r.call \in owed BY OwedIs
  <2>2. r.call \notin calls BY DEF ConsentInv, ApprovalInv, BatchInv
  <2> QED BY <1>1, <2>1, <2>2
<1>3. Goes BY <1>1, StaysGoing
<1> QED BY <1>1, <1>2, <1>3, FailConsents

-----------------------------------------------------------------------------
(* A call is invoked: the transcripts stay as they are.                     *)
LEMMA InvokeMoves ==
  ASSUME NEW tag, ConsentInv(tag), ApprovalInv', Attributable(tag)', Goes, NEW c \in todo,
         runs' = runs \/ runs' = [runs EXCEPT ![c.no] = @ + 1], todo' = todo \ {c},
         deferred' = deferred \/ deferred' = deferred \cup {Request(c, TRUE)},
         UNCHANGED <<pending, autoApproved, history, keeps, owed, made, answers, input, messages, calls, refused, asking,
                     handled, hand>>
  PROVE  ConsentInv(tag)'
<1>1. Known' = Known BY DEF Known
<1>2. TraceInv(tag) /\ calls \subseteq Known /\ todo \subseteq calls BY DEF ConsentInv, ApprovalInv, TypeInv, BatchInv
<1>3. OwedInv(tag)'
  <2> SUFFICES ASSUME keeps
               PROVE  \A d \in Calls(pending \cup asking \cup deferred' \cup autoApproved) \cup calls : d.id = tag => d \in owed
    BY DEF OwedInv
  <2>1. \A d \in Calls(pending \cup asking \cup deferred \cup autoApproved) \cup calls : d.id = tag => d \in owed
    BY <1>2 DEF TraceInv, OwedInv
  <2>2. c \in calls /\ Request(c, TRUE).call = c BY <1>2, Fields
  <2> QED BY <2>1, <2>2 DEF Calls
<1>4. /\ HandInv(tag)' = HandInv(tag) /\ PendInv(tag)' = PendInv(tag) /\ InputInv(tag)' = InputInv(tag) /\ OpenInv(tag)' = OpenInv(tag)
      /\ Live' = Live
  BY DEF HandInv, PendInv, InputInv, OpenInv, Live
<1>5. AnswerInv(tag)'
  <2>1. AnswerInv(tag) BY <1>2 DEF TraceInv
  <2>2. \A i : MadeByHuman(i)' <=> MadeByHuman(i) BY DEF MadeByHuman, Yeses
  <2>3. \A k : NotRequested(k)' <=> NotRequested(k) BY DEF NotRequested
  <2> QED BY <1>1, <1>4, <2>1, <2>2, <2>3 DEF AnswerInv
<1>6. LiveInv(tag)' BY <1>2, <1>4 DEF TraceInv, LiveInv
<1>7. MsgInv(tag)' /\ AutoInv(tag)' BY <1>1, <1>2 DEF TraceInv, MsgInv, AutoInv
<1>8. TraceInv(tag)' BY <1>2, <1>3, <1>4, <1>5, <1>6, <1>7 DEF TraceInv
<1>9. MadeInv /\ MadeInv' BY DEF ConsentInv, ApprovalInv
<1>10. Spends
  <2>1. /\ answers' = answers /\ runs' \in [Nos -> Nat]
        /\ \A n \in Nos : n > Len(made') => runs'[n] = 0
        /\ \A d \in Known : runs'[d.no] <= runs[d.no] + Due(d)
    BY <1>9, GoesIs
  <2>2. ASSUME NEW d \in Known PROVE runs'[d.no] + Due(d)' <= runs[d.no] + Due(d)
    <3>1. d.no \in Nos /\ c \in Known /\ c.no \in Nos /\ (d.no = c.no => d = c) BY <1>2, <1>9, KnownAre
    <3>2. runs \in [Nos -> Nat] BY DEF ConsentInv, CountInv
    <3>3. runs[d.no] \in Nat /\ runs'[d.no] \in Nat BY <2>1, <3>1, <3>2
    <3>4. CASE d = c
      <4>1. Due(d)' = 0 BY <3>4 DEF Due
      <4> QED BY <2>1, <3>3, <4>1
    <3>5. CASE d # c
      <4>1. runs'[d.no] = runs[d.no] BY <3>1, <3>2, <3>5
      <4>2. Due(d)' = Due(d) BY <3>5 DEF Due
      <4>3. Due(d) \in Nat BY DEF Due
      <4> QED BY <3>3, <4>1, <4>2, <4>3
    <3> QED BY <3>4, <3>5
  <2>3. \A d : Broken(history', d) = Broken(history, d) OBVIOUS
  <2> QED BY <1>1, <2>1, <2>2, <2>3 DEF Spends
<1>11. CountInv(tag)' BY <1>9, <1>10, CountsKept
<1> QED BY <1>8, <1>11 DEF ConsentInv

LEMMA InvokeIsFine ==
  ASSUME NEW tag, ConsentInv(tag), Attributable(tag)', Invoke
  PROVE  ConsentInv(tag)'
<1>1. ApprovalInv' BY InvokeKeeps DEF ConsentInv
<1>2. UNCHANGED <<made, managed, keeps>> /\ owed' = owed /\ made' = made /\ answers' = answers
  BY DEF Invoke, service
<1>3. PICK c \in todo :
        \/ \E bad : Report(c, bad) /\ (runs' = runs \/ Ran(c))
        \/ End("failed", handled) /\ (runs' = runs \/ Ran(c))
        \/ Defer(c) /\ runs' = runs
  <2>1. PICK c \in todo : NotFound(c) \/ Succeeds(c) \/ Throws(c) \/ BadArguments(c) \/ Deferred(c) BY DEF Invoke
  <2>2. Except(c) => (\E bad : Report(c, bad)) \/ End("failed", handled) BY DEF Except
  <2>3. NotFound(c) => (\E bad : Report(c, bad)) /\ runs' = runs BY DEF NotFound
  <2>4. Succeeds(c) => (\E bad : Report(c, bad)) /\ Ran(c) BY DEF Succeeds
  <2>5. Throws(c) => Except(c) /\ Ran(c) BY DEF Throws
  <2>6. BadArguments(c) => Except(c) /\ runs' = runs BY DEF BadArguments
  <2>7. Deferred(c) => Defer(c) /\ runs' = runs BY DEF Deferred
  <2> QED BY <2>1, <2>2, <2>3, <2>4, <2>5, <2>6, <2>7
<1>4. runs' = runs \/ runs' = [runs EXCEPT ![c.no] = @ + 1] BY <1>3 DEF Ran
<1>5. Goes BY <1>2, <1>4, StaysGoing
<1>6. CASE End("failed", handled)
  <2>1. keeps => \A r \in pending : r.call.id = tag => r.call \in owed' BY <1>2, OwedIs
  <2> QED BY <1>2, <1>5, <1>6, <2>1, FailConsents
<1>7. CASE \E bad : Report(c, bad)
  <2>1. /\ todo' = todo \ {c} /\ deferred' = deferred
        /\ UNCHANGED <<pending, autoApproved, history, input, messages, calls, refused, asking, handled, hand>>
    BY <1>7 DEF Report, slots
  <2> QED BY <1>1, <1>2, <1>4, <1>5, <2>1, InvokeMoves
<1>8. CASE Defer(c)
  <2>1. /\ todo' = todo \ {c} /\ deferred' = deferred \cup {Request(c, TRUE)}
        /\ UNCHANGED <<pending, autoApproved, history, input, messages, calls, refused, asking, handled, hand>>
    BY <1>8 DEF Defer, slots
  <2> QED BY <1>1, <1>2, <1>4, <1>5, <2>1, InvokeMoves
<1> QED BY <1>3, <1>6, <1>7, <1>8

-----------------------------------------------------------------------------
(* The results of a batch, and the requests that the batch leaves, may      *)
(* follow the transcript: what the turn takes up is newer than the rest.    *)
Batched(b, e, d, u) ==
  /\ b \in Seq(ExchangesOf(Known)) /\ e \in Seq(ExchangesOf(Known)) /\ b = handled \o e
  /\ \A x \in ToSet(e) : x.call \in Live
  /\ \A c \in calls \cup refused : Raw(c) \in ToSet(b)
  /\ d \in Seq(Requests(Known)) /\ ToSet(d) \subseteq deferred \cup asking
  /\ u \in Seq(ItemsOf(Known)) /\ u = b \o d
LEMMA BatchFits ==
  ASSUME NEW tag, Settled(tag), owed' = owed, NEW b, NEW e, NEW d, NEW u, Batched(b, e, d, u)
  PROVE  Fits(tag, u) /\ Follows(tag, history, b)
<1>1. /\ b \in Seq(ItemsOf(Known)) /\ e \in Seq(ItemsOf(Known)) /\ d \in Seq(ItemsOf(Known)) /\ u \in Seq(ItemsOf(Known))
      /\ b = handled \o e /\ u = b \o d
  BY KindsIn DEF Batched
<1>2. /\ history \in Seq(ItemsOf(Known)) /\ handled \in Seq(ItemsOf(Known))
      /\ \A i \in ToSet(input) : i = Decision(i.call, i.yes)
  BY TurnCalls DEF Settled
<1>3. /\ Len(handled) \in Nat /\ Len(b) \in Nat /\ Len(handled) <= Len(b)
      /\ \A i \in 1..Len(handled) : i \in 1..Len(b) /\ b[i] = handled[i]
      /\ \A k \in 1..Len(b) : k \in 1..Len(handled) \/ (k > Len(handled) /\ b[k] \in ToSet(e))
  <2>1. /\ Len(handled) \in Nat /\ Len(e) \in Nat /\ Len(b) = Len(handled) + Len(e)
        /\ \A i \in 1..Len(handled) : i \in 1..Len(b) /\ b[i] = handled[i]
        /\ \A j \in 1..Len(e) : b[Len(handled) + j] = e[j]
        /\ \A k \in 1..Len(b) : k \in 1..Len(handled) \/ (k > Len(handled) /\ \E j \in 1..Len(e) : k = Len(handled) + j)
    BY <1>1, <1>2, JoinedIs
  <2>2. \A j \in 1..Len(e) : e[j] \in ToSet(e) BY <1>1, MemberIs
  <2> QED BY <2>1, <2>2, SMTT(30)
<1>4. /\ Len(u) \in Nat /\ Len(b) <= Len(u)
      /\ \A i \in 1..Len(b) : i \in 1..Len(u) /\ u[i] = b[i]
      /\ \A k \in 1..Len(u) : k \in 1..Len(b) \/ (k > Len(b) /\ u[k] \in ToSet(d))
  <2>1. /\ Len(b) \in Nat /\ Len(d) \in Nat /\ Len(u) = Len(b) + Len(d)
        /\ \A i \in 1..Len(b) : i \in 1..Len(u) /\ u[i] = b[i]
        /\ \A j \in 1..Len(d) : u[Len(b) + j] = d[j]
        /\ \A k \in 1..Len(u) : k \in 1..Len(b) \/ (k > Len(b) /\ \E j \in 1..Len(d) : k = Len(b) + j)
    <3>1. b \in Seq(ItemsOf(Known)) /\ d \in Seq(ItemsOf(Known)) /\ u = b \o d BY <1>1
    <3> HIDE <1>1, <1>2, <1>3
    <3> QED BY <3>1, JoinedIs, SMTT(30)
  <2>2. \A j \in 1..Len(d) : d[j] \in ToSet(d) BY <1>1, MemberIs
  <2>3. \A k \in 1..Len(u) : k \in 1..Len(b) \/ (k > Len(b) /\ u[k] \in ToSet(d))
    <3> TAKE k \in 1..Len(u)
    <3>1. CASE k \in 1..Len(b) BY <3>1
    <3>2. CASE k \notin 1..Len(b)
      <4>1. PICK j \in 1..Len(d) : k = Len(b) + j /\ k > Len(b) BY <2>1, <3>2
      <4>2. u[k] = d[j] BY <2>1, <4>1
      <4> QED BY <2>2, <4>1, <4>2
    <3> QED BY <3>1, <3>2
  <2>4. Len(u) \in Nat /\ Len(b) <= Len(u) BY <2>1
  <2> QED BY ONLY <2>1, <2>3, <2>4
<1>5. \A r \in ToSet(d) : /\ r.kind = "request" /\ ~HeldBack(r) /\ r.call \in Live
                          /\ (r.call \in calls \cup refused \/ r.call \in Calls(asking))
  <2>1. ToSet(d) \subseteq deferred \cup asking BY DEF Batched
  <2>2. /\ \A r \in deferred : r.call \in calls
        /\ \A r \in asking \cup deferred : ~HeldBack(r)
    BY DEF Settled, ApprovalInv, BatchInv
  <2>3. \A r \in asking \cup deferred : r.kind = "request" BY TurnCalls DEF Settled
  <2> QED BY <2>1, <2>2, <2>3 DEF Live, Calls
<1>6. \A p \in 1..Len(b) : b[p].kind \in {"call", "result"}
  <2>1. \A i \in ExchangesOf(Known) : i.kind \in {"call", "result"} BY KindsIn
  <2>2. b \in Seq(ExchangesOf(Known)) BY DEF Batched
  <2> QED BY <2>1, <2>2
<1>7. ASSUME NEW q \in 1..Len(u) PROVE (q \in 1..Len(handled) /\ u[q] = handled[q] /\ u[q] \in ToSet(handled)) \/ (q > Len(handled) /\ u[q].call \in Live)
  <2>1. CASE q \in 1..Len(handled)
    <3>1. handled[q] \in ToSet(handled) BY <1>2, <2>1, MemberIs
    <3> QED BY <1>3, <1>4, <2>1, <3>1
  <2>2. CASE q \in 1..Len(b) /\ q \notin 1..Len(handled)
    <3>1. q > Len(handled) /\ b[q] \in ToSet(e) BY <1>3, <2>2
    <3>2. u[q] = b[q] BY <1>4, <2>2
    <3> QED BY <3>1, <3>2 DEF Batched
  <2>3. CASE q \notin 1..Len(b)
    <3>1. q > Len(b) /\ u[q] \in ToSet(d) BY <1>4, <2>3
    <3> QED BY <1>3, <1>5, <3>1
  <2> QED BY <2>1, <2>2, <2>3
<1>8. LiveInv(tag) /\ AnswerInv(tag) /\ OwedInv(tag) /\ Follows(tag, history, handled) BY DEF Settled, TraceInv
<1>9. Follows(tag, history, u)
  <2> SUFFICES ASSUME NEW q \in 1..Len(u), NEW i \in ToSet(history), i.kind = "request", Rival(tag, i.call, u[q].call)
               PROVE  /\ i.call.no < u[q].call.no
                      /\ Told(history, i.call) \/ \E m \in 1..(q - 1) : u[m] = ResultOf(i.call)
    BY DEF Follows
  <2>0. \A m \in 1..Len(handled) : u[m] = handled[m] BY <1>3, <1>4
  <2>1. CASE q \in 1..Len(handled) /\ u[q] = handled[q]
    <3>1. /\ i.call.no < u[q].call.no
          /\ Told(history, i.call) \/ \E m \in 1..(q - 1) : handled[m] = ResultOf(i.call)
      BY <1>8, <2>1 DEF Follows
    <3>2. \A m \in 1..(q - 1) : m \in 1..Len(handled) BY <1>3, <2>1
    <3> QED BY <2>0, <3>1, <3>2
  <2>2. CASE q > Len(handled) /\ u[q].call \in Live
    <3>1. /\ i.call.no < u[q].call.no
          /\ Told(history, i.call) \/ Told(handled, i.call)
      BY <1>8, <2>2 DEF LiveInv, Rival
    <3>2. \A m \in 1..Len(handled) : m \in 1..(q - 1) BY <1>3, <2>2
    <3>3. Told(handled, i.call) => \E m \in 1..(q - 1) : u[m] = ResultOf(i.call) BY <2>0, <3>2 DEF Told
    <3> QED BY <3>1, <3>3
  <2> QED BY <1>7, <2>1, <2>2
<1>10. Follows(tag, history, b)
  <2> SUFFICES ASSUME NEW q \in 1..Len(b), NEW i \in ToSet(history), i.kind = "request", Rival(tag, i.call, b[q].call)
               PROVE  /\ i.call.no < b[q].call.no
                      /\ Told(history, i.call) \/ \E m \in 1..(q - 1) : b[m] = ResultOf(i.call)
    BY DEF Follows
  <2>1. q \in 1..Len(u) /\ u[q] = b[q] BY <1>4
  <2>2. \A m \in 1..(q - 1) : u[m] = b[m] BY <1>3, <1>4
  <2>3. /\ i.call.no < u[q].call.no
        /\ Told(history, i.call) \/ \E m \in 1..(q - 1) : u[m] = ResultOf(i.call)
    BY <1>9, <2>1 DEF Follows
  <2> QED BY <2>1, <2>2, <2>3
<1>11. ASSUME NEW p \in 1..Len(u), u[p].kind = "request", u[p].call.id = tag PROVE AsksFor(tag, u, p, u[p].call)
  <2>1. p > Len(b) /\ u[p] \in ToSet(d) BY <1>4, <1>6, <1>11
  <2>2. PICK c : c = u[p].call OBVIOUS
  <2>3. c \in Live /\ ~HeldBack(u[p]) /\ (c \in calls \cup refused \/ c \in Calls(asking)) BY <1>5, <2>1, <2>2
  <2>4. /\ \A i \in ToSet(history) \cup ToSet(input) \cup ToSet(handled) : Rival(tag, i.call, c) => i.call.no < c.no
        /\ \A k \in Live : c.id = k.id => c = k
        /\ \A r \in pending : r.call.id = c.id => r.call = c
    BY <1>8, <1>11, <2>2, <2>3 DEF LiveInv
  <2>5. \A q \in 1..Len(u) : Rival(tag, u[q].call, c) => q < p /\ u[q].call.no < c.no
    <3> TAKE q \in 1..Len(u)
    <3> HAVE Rival(tag, u[q].call, c)
    <3>1. u[q].call \notin Live BY <1>11, <2>2, <2>4 DEF Rival
    <3>2. q \in 1..Len(handled) /\ u[q] \in ToSet(handled) BY <1>7, <3>1
    <3> QED BY <1>3, <2>1, <2>4, <3>2
  <2>6. keeps => c \in owed'
    <3> HAVE keeps
    <3>1. \A r \in deferred \cup asking : r.call.id = tag => r.call \in owed BY <1>8 DEF OwedInv, Calls
    <3>2. u[p] \in deferred \cup asking BY <2>1 DEF Batched
    <3> QED BY <1>11, <2>2, <3>1, <3>2
  <2>7. Answer(history, c) => Raw(c) \in ToSet(history)
    <3>1. c \in Known BY <2>3, TurnCalls DEF Settled
    <3> QED BY <1>8, <1>11, <2>2, <2>3, <3>1 DEF AnswerInv
  <2>8. c \in Calls(ToSet(input)) => Raw(c) \in ToSet(history) \/ \E q \in 1..(p - 1) : u[q] = Raw(c)
    <3> HAVE c \in Calls(ToSet(input))
    <3>1. PICK i \in ToSet(input) : i.call = c BY DEF Calls
    <3>2. Raw(c) \in ToSet(history) \cup ToSet(handled) \/ c \in calls \cup refused
      BY <1>8, <1>11, <2>2, <2>3, <3>1 DEF AnswerInv
    <3>3. ToSet(handled) \subseteq ToSet(b) BY <1>1, <1>2, JoinedIs
    <3>4. Raw(c) \in ToSet(history) \/ Raw(c) \in ToSet(b) BY <3>2, <3>3 DEF Batched
    <3>5. Raw(c) \in ToSet(b) => \E q \in 1..Len(b) : b[q] = Raw(c) BY <1>1, MemberIs
    <3>6. \A q \in 1..Len(b) : q \in 1..(p - 1) /\ u[q] = b[q] BY <1>3, <1>4, <2>1
    <3> QED BY <3>4, <3>5, <3>6
  <2> QED BY <2>2, <2>3, <2>4, <2>5, <2>6, <2>7, <2>8 DEF AsksFor
<1>12. \A p \in 1..Len(u) : u[p].kind # "decision"
  <2> TAKE p \in 1..Len(u)
  <2>1. p \in 1..Len(b) => u[p].kind # "decision" BY <1>4, <1>6
  <2>2. p \notin 1..Len(b) => u[p].kind # "decision" BY <1>4, <1>5
  <2> QED BY <2>1, <2>2
<1> QED BY <1>9, <1>10, <1>11, <1>12 DEF Fits

(* The loop goes on with what the batch came to.                            *)
LEMMA LoopGoesOn ==
  ASSUME NEW tag, ConsentInv(tag), ApprovalInv', Attributable(tag)', todo = {}, asking = {},
         NEW b, handled' = b, Follows(tag, history, b), ToSet(handled) \subseteq ToSet(b),
         \A c \in calls \cup refused : Raw(c) \in ToSet(b),
         \A c \in Known : c.id = tag /\ Told(messages', c) => Told(history, c) \/ Told(b, c),
         calls' = {}, refused' = {}, runs' = runs,
         UNCHANGED <<pending, autoApproved, history, input, todo, deferred, asking, hand, keeps, owed, made, answers>>
  PROVE  ConsentInv(tag)'
<1>1. Known' = Known BY DEF Known
<1>2. TraceInv(tag) BY DEF ConsentInv
<1>3. Live' = {} BY DEF Live, Calls
<1>4. /\ HandInv(tag)' = HandInv(tag) /\ PendInv(tag)' = PendInv(tag) /\ InputInv(tag)' = InputInv(tag) /\ OpenInv(tag)' = OpenInv(tag)
  BY DEF HandInv, PendInv, InputInv, OpenInv
<1>5. OwedInv(tag)'
  <2>1. keeps => \A c \in Calls(pending \cup asking \cup deferred \cup autoApproved) : c.id = tag => c \in owed
    BY <1>2 DEF TraceInv, OwedInv
  <2> QED BY <2>1 DEF OwedInv
<1>6. AnswerInv(tag)'
  <2>1. AnswerInv(tag) BY <1>2 DEF TraceInv
  <2>2. \A i : MadeByHuman(i)' <=> MadeByHuman(i) BY DEF MadeByHuman, Yeses
  <2>3. \A k : NotRequested(k)' <=> NotRequested(k) BY DEF NotRequested
  <2>4. \A i \in ToSet(history) \cup ToSet(input) : i.kind = "decision" => MadeByHuman(i)' BY <2>1, <2>2 DEF AnswerInv
  <2>5. \A c \in Known : c.id = tag /\ Answer(history, c) => Raw(c) \in ToSet(history) \/ (NotRequested(c)' /\ c \notin Live')
    BY <1>3, <2>1, <2>3 DEF AnswerInv
  <2>6. \A i \in ToSet(input) : i.call.id = tag =>
          \/ Raw(i.call) \in ToSet(history) \cup ToSet(b)
          \/ NotRequested(i.call)' /\ i.call \notin Calls(asking)
    BY <2>1, <2>3 DEF AnswerInv
  <2> QED BY <1>1, <2>4, <2>5, <2>6 DEF AnswerInv
<1>7. LiveInv(tag)' BY <1>3 DEF LiveInv
<1>8. MsgInv(tag)' BY <1>1 DEF MsgInv
<1>9. AutoInv(tag)' BY <1>1, <1>2 DEF TraceInv, AutoInv
<1>10. TraceInv(tag)' BY <1>2, <1>4, <1>5, <1>6, <1>7, <1>8, <1>9 DEF TraceInv
<1>11. MadeInv /\ MadeInv' BY DEF ConsentInv, ApprovalInv
<1>12. Goes BY StaysGoing
<1>13. Spends
  <2>1. /\ answers' = answers /\ runs' \in [Nos -> Nat]
        /\ \A n \in Nos : n > Len(made') => runs'[n] = 0
        /\ \A d \in Known : runs'[d.no] <= runs[d.no] + Due(d)
    BY <1>11, <1>12, GoesIs
  <2>2. \A d : Due(d)' = Due(d) BY DEF Due
  <2>3. \A d \in Known : runs'[d.no] + Due(d)' <= runs[d.no] + Due(d)
    <3> TAKE d \in Known
    <3>1. d.no \in Nos BY <1>11, KnownAre
    <3>2. runs'[d.no] \in Nat BY <2>1, <3>1
    <3> QED BY <2>2, <3>2 DEF Due
  <2>4. \A d : Broken(history', d) = Broken(history, d) OBVIOUS
  <2> QED BY <1>1, <2>1, <2>3, <2>4 DEF Spends
<1>14. CountInv(tag)' BY <1>11, <1>13, CountsKept
<1> QED BY <1>10, <1>14 DEF ConsentInv

-----------------------------------------------------------------------------
(* A batch ends the turn with what it would have ended with, up to there.   *)
LEMMA BatchLeaves ==
  ASSUME NEW tag, ConsentInv(tag), Attributable(tag)', UNCHANGED <<made, managed, keeps, owed, answers, runs>>,
         NEW b, NEW e, NEW d, NEW u, Batched(b, e, d, u),
         NEW how, NEW w, Ends(how, w), StartsWith(u, w), ToSet(handled) \subseteq ToSet(w),
         \A c \in calls \cup refused : Raw(c) \in ToSet(w)
  PROVE  ConsentInv(tag)'
<1>1. ApprovalInv /\ Settled(tag) BY DEF ConsentInv, Settled
<1>2. Moves BY <1>1, StaysMade
<1>3. Goes BY StaysGoing
<1>4. Fits(tag, u) BY <1>1, BatchFits
<1>5. Fits(tag, w) BY <1>4, FitsStarts
<1>6. keeps => \A r \in pending : r.call.id = tag => r.call \in owed' BY OwedIs
<1>7. Leaves(tag, how, w) BY <1>5, <1>6 DEF Leaves
<1> QED BY <1>2, <1>3, <1>7, EndConsents

LEMMA StartsItself ==
  ASSUME NEW T, NEW u \in Seq(T) PROVE StartsWith(u, u)
BY DEF StartsWith

(* A batch that is over: cut short, for good, or with the next request.     *)
LEMMA BatchStops ==
  ASSUME NEW tag, ConsentInv(tag), Attributable(tag)', UNCHANGED <<made, managed, keeps, owed, answers, runs>>,
         NEW b, NEW e, NEW d, NEW u, Batched(b, e, d, u), NEW us, Updates(ItemsOf(Known), us),
         handled \o FirstOf(us, Len(us)) = u, Ending(u), Leads(u),
         \A k \in 1..Len(us) : \A c \in calls \cup refused : Raw(c) \in ToSet(handled) \cup ToSet(FirstOf(us, k)),
         Cut(us) \/ End("done", u)
  PROVE  ConsentInv(tag)'
<1>1. ApprovalInv BY DEF ConsentInv
<1>2. Moves /\ Known' = Known BY <1>1, StaysMade
<1>3. u \in Seq(ItemsOf(Known)) /\ u = b \o d /\ b = handled \o e BY DEF Batched
<1>4. CASE Cut(us)
  <2>1. PICK how, w, k : CutAt(us, how, w, k) BY <1>1, <1>2, <1>4, CutEnds
  <2>2. Ends(how, w) /\ StartsWith(u, w) /\ k \in 1..Len(us) /\ ToSet(w) = ToSet(handled) \cup ToSet(FirstOf(us, k))
    BY <2>1 DEF CutAt
  <2>3. \A c \in calls \cup refused : Raw(c) \in ToSet(w) BY <2>2
  <2> QED BY <2>2, <2>3, BatchLeaves
<1>5. CASE End("done", u)
  <2>1. Ends("done", u) BY <1>2, <1>3, <1>5 DEF Ends
  <2>2. StartsWith(u, u) BY <1>3, StartsItself
  <2>3. ToSet(handled) \subseteq ToSet(b) /\ ToSet(b) \subseteq ToSet(u)
    <3>1. b \in Seq(ItemsOf(Known)) /\ e \in Seq(ItemsOf(Known)) /\ d \in Seq(ItemsOf(Known)) BY KindsIn DEF Batched
    <3>2. handled \in Seq(ItemsOf(Known)) BY <1>1, TurnCalls
    <3>3. ToSet(b) = ToSet(handled) \cup ToSet(e) BY <1>3, <3>1, <3>2, JoinedIs
    <3>4. ToSet(u) = ToSet(b) \cup ToSet(d)
      <4>1. u = b \o d BY <1>3
      <4>2. b \in Seq(ItemsOf(Known)) /\ d \in Seq(ItemsOf(Known)) BY <3>1
      <4> QED BY ONLY <4>1, <4>2, JoinedIs
    <3> QED BY <3>3, <3>4
  <2>4. \A c \in calls \cup refused : Raw(c) \in ToSet(u) BY <2>3 DEF Batched
  <2> QED BY <2>1, <2>2, <2>3, <2>4, BatchLeaves
<1> QED BY <1>4, <1>5

(* The end of the replay.                                                   *)
LEMMA ReplayBatched ==
  ASSUME ApprovalInv, NEW us, NEW b, NEW d, NEW u, ReplayShape(us, b, d, u)
  PROVE  Batched(b, b, d, u)
<1>1. /\ handled = <<>> /\ BatchIs(b) /\ (\A c : Told(b, c) => c \in calls \cup refused)
      /\ {Raw(c) : c \in calls \cup refused} \subseteq ToSet(b)
      /\ d \in Seq(Requests(Known)) /\ ToSet(d) = deferred \cup asking
      /\ u \in Seq(ItemsOf(Known)) /\ u = b \o d
  BY DEF ReplayShape
<1>2. b \in Seq(ExchangesOf(Known)) /\ \A p \in 1..Len(b) : Told(b, b[p].call) \/ \E r \in deferred : r.call = b[p].call
  BY <1>1 DEF BatchIs
<1>3. b = handled \o b BY <1>1, <1>2, ConcatEmptySeq
<1>4. \A r \in deferred : r.call \in calls BY DEF ApprovalInv, BatchInv
<1>5. \A x \in ToSet(b) : x.call \in Live
  <2> TAKE x \in ToSet(b)
  <2>1. PICK p \in 1..Len(b) : b[p] = x BY <1>2, MemberIs
  <2> QED BY <1>1, <1>2, <1>4, <2>1 DEF Live
<1>6. \A c \in calls \cup refused : Raw(c) \in ToSet(b) BY <1>1
<1>7. ToSet(d) \subseteq deferred \cup asking BY <1>1
<1> QED BY <1>1, <1>2, <1>3, <1>5, <1>6, <1>7 DEF Batched

LEMMA ReplayIsFine ==
  ASSUME NEW tag, ConsentInv(tag), Attributable(tag)', FinishReplay
  PROVE  ConsentInv(tag)'
<1>1. ApprovalInv BY DEF ConsentInv
<1>2. PICK us, b, d, u : ReplayShape(us, b, d, u) /\ (Cut(us) \/ End("done", u) \/ ReplayGoesOn(b))
  BY <1>1, FinishReplayIs
<1>3. /\ UNCHANGED <<made, managed, keeps, owed, answers, runs>> /\ todo = {} /\ handled = <<>>
      /\ Updates(ItemsOf(Known), us) /\ handled \o FirstOf(us, Len(us)) = u /\ Ending(u) /\ Leads(u)
  BY <1>2 DEF ReplayShape, service
<1>4. Batched(b, b, d, u) BY <1>1, <1>2, ReplayBatched
<1>5. \A k \in 1..Len(us) : \A c \in calls \cup refused : Raw(c) \in ToSet(handled) \cup ToSet(FirstOf(us, k))
  BY <1>2 DEF ReplayShape
<1>6. CASE Cut(us) \/ End("done", u) BY <1>3, <1>4, <1>5, <1>6, BatchStops
<1>7. CASE ReplayGoesOn(b)
  <2>1. /\ deferred \cup asking = {} /\ messages' = messages \o b
        /\ calls' = {} /\ refused' = {} /\ handled' = b
        /\ UNCHANGED <<pending, autoApproved, history, input, todo, deferred, asking, hand>>
    BY <1>7 DEF ReplayGoesOn, slots
  <2>2. Settled(tag) /\ ApprovalInv' BY <1>1, FinishReplayKeeps DEF ConsentInv, Settled
  <2>3. Follows(tag, history, b) BY <1>3, <1>4, <2>2, BatchFits
  <2>4. ToSet(handled) \subseteq ToSet(b) BY <1>3 DEF ToSet
  <2>5. \A c \in calls \cup refused : Raw(c) \in ToSet(b) BY <1>4 DEF Batched
  <2>6. \A c \in Known : c.id = tag /\ Told(messages', c) => Told(history, c) \/ Told(b, c)
    <3>1. messages \in Seq(ItemsOf(Known)) BY <1>1, TurnCalls
    <3>2. b \in Seq(ItemsOf(Known)) BY <1>4, KindsIn DEF Batched
    <3>3. \A c : Told(messages', c) <=> Told(messages, c) \/ Told(b, c) BY <2>1, <3>1, <3>2, JoinedFits
    <3>4. MsgInv(tag) BY DEF ConsentInv, TraceInv
    <3>5. \A c : ~Told(handled, c) BY <1>3 DEF Told
    <3> QED BY <3>3, <3>4, <3>5 DEF MsgInv
  <2>7. asking = {} BY <2>1
  <2> QED BY <1>3, <2>1, <2>2, <2>3, <2>4, <2>5, <2>6, <2>7, LoopGoesOn
<1> QED BY <1>2, <1>6, <1>7

(* The end of a round.                                                      *)
LEMMA RoundBatched ==
  ASSUME ApprovalInv, NEW us, NEW b, NEW d, NEW u, RoundShape(us, b, d, u)
  PROVE  Batched(b, results, d, u)
<1>1. /\ pc = "round" /\ asking = {} /\ refused = {} /\ b = handled \o results /\ BatchIs(b)
      /\ d \in Seq(Requests(Known)) /\ ToSet(d) = deferred
      /\ u \in Seq(ItemsOf(Known)) /\ u = b \o d
  BY DEF RoundShape
<1>2. b \in Seq(ExchangesOf(Known)) BY <1>1 DEF BatchIs
<1>3. results \in Seq(ResultsOf(Known)) BY DEF ApprovalInv, TypeInv
<1>4. results \in Seq(ExchangesOf(Known)) BY <1>3, KindsIn
<1>5. results \in Seq(ItemsOf(Known)) /\ handled \in Seq(ItemsOf(Known)) BY TurnCalls
<1>6. \A x \in ToSet(results) : x.call \in Live
  <2> TAKE x \in ToSet(results)
  <2>1. PICK p \in 1..Len(results) : results[p] = x BY <1>5, MemberIs
  <2>2. results[p] = ResultOf(x.call)
    <3>1. x \in ResultsOf(Known) BY <1>3, <2>1
    <3> QED BY <2>1, <3>1, KindsIn
  <2>3. Told(results, x.call) BY <2>2 DEF Told
  <2>4. x.call \in calls BY <2>3 DEF ApprovalInv, BatchInv
  <2> QED BY <2>4 DEF Live
<1>7. \A c \in calls \cup refused : Raw(c) \in ToSet(b)
  <2>1. \A c \in calls : Raw(c) \in ToSet(handled) BY <1>1 DEF ApprovalInv, HistoryInv
  <2>2. ToSet(handled) \subseteq ToSet(b) BY <1>1, <1>5, JoinedIs
  <2> QED BY <1>1, <2>1, <2>2
<1>8. ToSet(d) \subseteq deferred \cup asking BY <1>1
<1> QED BY <1>1, <1>2, <1>4, <1>6, <1>7, <1>8 DEF Batched

LEMMA RoundIsFine ==
  ASSUME NEW tag, ConsentInv(tag), Attributable(tag)', FinishRound
  PROVE  ConsentInv(tag)'
<1>1. ApprovalInv BY DEF ConsentInv
<1>2. PICK us, b, d, u : RoundShape(us, b, d, u) /\ (Cut(us) \/ End("done", u) \/ RoundGoesOn(b))
  BY <1>1, FinishRoundIs
<1>3. /\ pc = "round" /\ refused = {} /\ asking = {} /\ b = handled \o results
      /\ UNCHANGED <<made, managed, keeps, owed, answers, runs>> /\ todo = {}
      /\ Updates(ItemsOf(Known), us) /\ handled \o FirstOf(us, Len(us)) = u /\ Ending(u) /\ Leads(u)
  BY <1>2 DEF RoundShape, service
<1>4. Batched(b, results, d, u) BY <1>1, <1>2, RoundBatched
<1>5. \A c \in calls : Raw(c) \in ToSet(handled) BY <1>1, <1>3 DEF ApprovalInv, HistoryInv
<1>6. CASE Cut(us) \/ End("done", u)
  <2>1. \A k \in 1..Len(us) : \A c \in calls \cup refused : Raw(c) \in ToSet(handled) \cup ToSet(FirstOf(us, k))
    BY <1>3, <1>5
  <2> QED BY <1>3, <1>4, <1>6, <2>1, BatchStops
<1>7. CASE RoundGoesOn(b)
  <2>1. /\ deferred = {} /\ handled' = b /\ calls' = {}
        /\ messages' = IF managed THEN results ELSE messages \o Listed({Raw(c) : c \in calls}) \o results
        /\ UNCHANGED <<pending, autoApproved, history, input, refused, todo, deferred, asking, hand>>
    BY <1>7 DEF RoundGoesOn, slots
  <2>2. Settled(tag) /\ ApprovalInv' BY <1>1, FinishRoundKeeps DEF ConsentInv, Settled
  <2>3. Follows(tag, history, b) BY <1>3, <1>4, <2>2, BatchFits
  <2>4. /\ messages \in Seq(ItemsOf(Known)) /\ results \in Seq(ItemsOf(Known)) /\ handled \in Seq(ItemsOf(Known))
    BY <1>1, TurnCalls
  <2>5. ToSet(handled) \subseteq ToSet(b) BY <1>3, <2>4, JoinedIs
  <2>6. \A c \in calls \cup refused : Raw(c) \in ToSet(b) BY <1>4 DEF Batched
  <2>7. \A c : Told(b, c) <=> Told(handled, c) \/ Told(results, c) BY <1>3, <2>4, JoinedFits
  <2>8. \A c : Told(messages', c) => Told(messages, c) \/ Told(results, c)
    <3>1. CASE managed BY <2>1, <3>1
    <3>2. CASE ~managed
      <4>1. IsFiniteSet(Known) /\ calls \subseteq Known BY <1>1, KnownFinite DEF ApprovalInv, TypeInv
      <4>2. PICK raws : raws = Listed({Raw(c) : c \in calls}) OBVIOUS
      <4>3. raws \in Seq(ExchangesOf(Known)) /\ \A c : ~Told(raws, c) BY <4>1, <4>2, CallsListed
      <4>4. raws \in Seq(ItemsOf(Known)) BY <4>3, KindsIn
      <4>5. PICK m \in Seq(ItemsOf(Known)) : m = messages \o raws BY <2>4, <4>4, JoinedFits
      <4>6. \A c : Told(m, c) <=> Told(messages, c) \/ Told(raws, c) BY <2>4, <4>4, <4>5, JoinedFits
      <4>7. messages' = m \o results BY <2>1, <3>2, <4>2, <4>5
      <4>8. \A c : Told(messages', c) <=> Told(m, c) \/ Told(results, c) BY <2>4, <4>5, <4>7, JoinedFits
      <4> QED BY <4>3, <4>6, <4>8
    <3> QED BY <3>1, <3>2
  <2>9. \A c \in Known : c.id = tag /\ Told(messages', c) => Told(history, c) \/ Told(b, c)
    <3>1. MsgInv(tag) BY DEF ConsentInv, TraceInv
    <3> QED BY <2>7, <2>8, <3>1 DEF MsgInv
  <2>10. refused' = {} BY <1>3, <2>1
  <2> QED BY <1>3, <2>1, <2>2, <2>3, <2>5, <2>6, <2>9, <2>10, LoopGoesOn
<1> QED BY <1>2, <1>6, <1>7

-----------------------------------------------------------------------------
(* A call that the model makes is newer than all there is, and what has its *)
(* id was answered.                                                         *)
Behold(tag, N, rest) ==
  /\ calls = {} /\ refused = {} /\ asking = {} /\ deferred = {} /\ autoApproved = {} /\ todo = {}
  /\ N \cap Known = {} /\ Known' = Known \cup N
  /\ \A n \in N : \A k \in Known : k.no < n.no
  /\ \A n, k \in N : n.id = k.id => n = k
  /\ \A n \in N : NewestOf(Known', n)
  /\ \A n \in N : n.id = tag => \A i \in ToSet(history) :
       i.kind = "request" /\ i.call.id = n.id => Told(history, i.call) \/ Told(handled, i.call)
  /\ \A n \in N : n.id = tag => \A r \in pending : r.call.id # n.id
  /\ \A n \in N : ~Answer(history, n) /\ n \notin Calls(ToSet(input))
  /\ keeps => /\ \A r \in pending : r.call.id = tag => r.call \in rest
              /\ rest \subseteq owed' /\ (owed' = Holding(rest, N) => N \subseteq owed')
LEMMA AskBeholds ==
  ASSUME NEW tag, ConsentInv(tag), NEW N, NEW rest, AskSettles(N, rest)
  PROVE  Behold(tag, N, rest)
<1>1. /\ Fresh(N) /\ (\A c \in N : c.id \in Nameable) /\ Owes(rest, N) /\ pc = "ask" /\ keeps' = keeps
  BY DEF AskSettles
<1>2. /\ ApprovalInv /\ MadeInv /\ MadeInv' /\ MsgInv(tag) /\ OwedInv(tag)
  BY <1>1 DEF ConsentInv, ApprovalInv, TraceInv, Fresh, Moves
<1>3. /\ calls = {} /\ refused = {} /\ asking = {} /\ deferred = {} /\ autoApproved = {} /\ todo = {}
  BY <1>1 DEF ConsentInv, ApprovalInv, StageInv
<1>4. N \cap Known = {} /\ Known' = Known \cup N /\ (\A c \in N : c.no > Len(made))
      /\ \A n, k \in N : n.id = k.id => n = k
  BY <1>1 DEF Fresh
<1>5. \A k \in Known : k.no \in Nat /\ k.no \in 1..Len(made) BY <1>2, KnownAre
<1>6. \A k \in Known' : k.no \in Nat BY <1>2, KnownNextAre
<1>7. Len(made) \in Nat BY <1>2 DEF MadeInv
<1>8. \A n \in N : \A k \in Known : k.no < n.no BY <1>4, <1>5, <1>6, <1>7
<1>9. \A n \in N : NewestOf(Known', n)
  <2> SUFFICES ASSUME NEW n \in N, NEW k \in Known', k.id = n.id PROVE k.no <= n.no BY DEF NewestOf
  <2>1. k \in Known \/ k = n BY <1>4
  <2>2. n \in Known' BY <1>4
  <2> QED BY <1>6, <1>8, <2>1, <2>2
<1>10. /\ history \in Seq(ItemsOf(Known)) /\ messages \in Seq(ItemsOf(Known))
       /\ (\A i \in ToSet(history) \cup ToSet(input) : i.call \in Known)
       /\ \A r \in pending : r.call \in Known
  BY <1>2, TurnCalls
<1>11. ASSUME NEW n \in N, n.id = tag, NEW k \in Known, k.id = n.id
       PROVE  (keeps /\ k \notin owed) \/ Told(history, k) \/ Told(handled, k)
  <2>1. PICK m \in DOMAIN made : made[m] = k BY DEF Known
  <2>2. Answered(k) BY <1>1, <1>11, <2>1 DEF Nameable
  <2>3. (keeps /\ k \notin owed) \/ Told(messages, k) BY <1>10, <2>2, ToldIs DEF Answered
  <2> QED BY <1>2, <1>11, <2>3 DEF MsgInv
<1>12. ASSUME NEW n \in N, n.id = tag, NEW i \in ToSet(history), i.kind = "request", i.call.id = n.id
       PROVE  Told(history, i.call) \/ Told(handled, i.call)
  <2>1. ~keeps
    <3>1. keeps => history = <<>> BY DEF ConsentInv, ApprovalInv, KeeperInv
    <3> QED BY <1>12, <3>1 DEF ToSet
  <2>2. i.call \in Known BY <1>10
  <2> QED BY <1>11, <1>12, <2>1, <2>2
<1>13. \A r \in pending : ~Told(history, r.call) /\ ~Told(handled, r.call) BY <1>2 DEF ApprovalInv, BatchInv
<1>14. keeps => \A r \in pending : r.call.id = tag => r.call \in owed BY <1>2 DEF OwedInv, Calls
<1>15. ASSUME NEW n \in N, n.id = tag, NEW r \in pending, r.call.id = n.id PROVE FALSE
  <2>1. keeps /\ r.call \notin owed BY <1>10, <1>11, <1>13, <1>15
  <2> QED BY <1>14, <1>15, <2>1
<1>16. \A n \in N : ~Answer(history, n) /\ n \notin Calls(ToSet(input)) BY <1>4, <1>10 DEF Answer, Calls
<1>17. keeps => /\ \A r \in pending : r.call.id = tag => r.call \in rest
                /\ rest \subseteq owed' /\ (owed' = Holding(rest, N) => N \subseteq owed')
  <2> HAVE keeps
  <2>1. rest = {c \in owed : ResultOf(c) \notin ToSet(messages)} /\ (owed' = rest \/ owed' = Holding(rest, N))
    BY <1>1 DEF Owes
  <2>2. Holding(rest, N) = rest \cup N BY DEF Holding
  <2>3. ASSUME NEW r \in pending, r.call.id = tag PROVE ResultOf(r.call) \notin ToSet(messages)
    <3>1. r.call \in Known BY <1>10
    <3>2. ~Told(messages, r.call) BY <1>2, <1>13, <2>3, <3>1 DEF MsgInv
    <3> QED BY <1>10, <3>2, ToldIs
  <2>4. \A r \in pending : r.call.id = tag => r.call \in rest BY <1>14, <2>1, <2>3
  <2> QED BY <2>1, <2>2, <2>4
<1> QED BY <1>3, <1>4, <1>8, <1>9, <1>12, <1>15, <1>16, <1>17 DEF Behold

(* What has passed, followed by the new calls or requests for them.         *)
LEMMA AskPlaces ==
  ASSUME NEW tag, ConsentInv(tag), NEW N, NEW a, News(Known', N, a), NEW u, Asked(Known', a, u), N \cap Known = {},
         Known \subseteq Known'
  PROVE  /\ Len(handled) \in Nat /\ Len(u) \in Nat /\ Len(handled) <= Len(u)
         /\ \A i \in 1..Len(handled) : u[i] = handled[i] /\ u[i] \in ToSet(handled)
         /\ \A i \in 1..Len(handled) : u[i].kind \in {"call", "result"} /\ u[i].call \in Known
         /\ \A k \in 1..Len(u) : k \in 1..Len(handled) \/
              (k > Len(handled) /\ u[k].call \in N /\ u[k].kind # "decision" /\ u[k] \in ToSet(a))
<1>1. u = handled \o a /\ a \in Seq(ItemsOf(Known')) BY DEF Asked, News
<1>2. /\ handled \in Seq(ItemsOf(Known))
      /\ \A p \in 1..Len(handled) : handled[p].kind \in {"call", "result"} /\ handled[p].call \in Known
  <2>1. ApprovalInv BY DEF ConsentInv
  <2> QED BY <2>1, HandledEnds
<1>3. handled \in Seq(ItemsOf(Known')) BY <1>2, MoreItems
<1>4. /\ Len(handled) \in Nat /\ Len(a) \in Nat /\ Len(u) = Len(handled) + Len(a)
      /\ \A i \in 1..Len(handled) : u[i] = handled[i]
      /\ \A j \in 1..Len(a) : u[Len(handled) + j] = a[j]
      /\ \A k \in 1..Len(u) : k \in 1..Len(handled) \/ (k > Len(handled) /\ \E j \in 1..Len(a) : k = Len(handled) + j)
  BY ONLY <1>1, <1>3, JoinedIs
<1>5. \A i \in 1..Len(handled) : handled[i] \in ToSet(handled) BY <1>2, MemberIs
<1>6. \A j \in 1..Len(a) : a[j].call \in N /\ a[j].kind # "decision" /\ a[j] \in ToSet(a)
  <2> TAKE j \in 1..Len(a)
  <2>1. a[j].call \in N /\ (a[j] = Raw(a[j].call) \/ a[j] = Request(a[j].call, FALSE)) BY DEF News
  <2>2. Raw(a[j].call).kind = "call" /\ Request(a[j].call, FALSE).kind = "request" BY Fields, ZenonT(60)
  <2>3. a[j] \in ToSet(a) BY <1>1, MemberIs
  <2> QED BY <2>1, <2>2, <2>3
<1>7. ASSUME NEW k \in 1..Len(u)
      PROVE  k \in 1..Len(handled) \/
              (k > Len(handled) /\ u[k].call \in N /\ u[k].kind # "decision" /\ u[k] \in ToSet(a))
  <2>1. CASE k \in 1..Len(handled) BY <2>1
  <2>2. CASE k \notin 1..Len(handled)
    <3>1. k > Len(handled) /\ \E j \in 1..Len(a) : k = Len(handled) + j BY <1>4, <2>2
    <3>2. PICK j \in 1..Len(a) : k = Len(handled) + j BY <3>1
    <3>3. u[k] = a[j] BY <1>4, <3>2
    <3> QED BY <1>6, <3>1, <3>3
  <2> QED BY <2>1, <2>2
<1>8. Len(u) \in Nat /\ Len(handled) <= Len(u) BY <1>4
<1> QED BY <1>2, <1>4, <1>5, <1>7, <1>8

LEMMA AskFollows ==
  ASSUME NEW tag, ConsentInv(tag), NEW N, NEW rest, Behold(tag, N, rest), NEW a, News(Known', N, a), NEW u, Asked(Known', a, u)
  PROVE  Follows(tag, history, u)
<1> SUFFICES ASSUME NEW q \in 1..Len(u), NEW i \in ToSet(history), i.kind = "request", Rival(tag, i.call, u[q].call)
             PROVE  /\ i.call.no < u[q].call.no
                    /\ Told(history, i.call) \/ \E m \in 1..(q - 1) : u[m] = ResultOf(i.call)
  BY DEF Follows
<1>1. /\ Len(handled) \in Nat /\ Len(u) \in Nat /\ Len(handled) <= Len(u)
      /\ \A j \in 1..Len(handled) : u[j] = handled[j]
      /\ \A k \in 1..Len(u) : k \in 1..Len(handled) \/ (k > Len(handled) /\ u[k].call \in N)
  <2>1. N \cap Known = {} /\ Known \subseteq Known' BY DEF Behold
  <2> QED BY <2>1, AskPlaces
<1>2. CASE q \in 1..Len(handled)
  <2>1. Follows(tag, history, handled) /\ u[q] = handled[q] BY <1>1, <1>2 DEF ConsentInv, TraceInv
  <2>2. /\ i.call.no < u[q].call.no
        /\ Told(history, i.call) \/ \E m \in 1..(q - 1) : handled[m] = ResultOf(i.call)
    BY <1>2, <2>1 DEF Follows
  <2>3. \A m \in 1..(q - 1) : u[m] = handled[m] BY <1>1, <1>2
  <2> QED BY <2>2, <2>3
<1>3. CASE q \notin 1..Len(handled)
  <2>1. q > Len(handled) /\ u[q].call \in N BY <1>1, <1>3
  <2>2. i.call \in Known BY TurnCalls DEF ConsentInv
  <2>3. i.call.no < u[q].call.no BY <2>1, <2>2 DEF Behold
  <2>4. Told(history, i.call) \/ Told(handled, i.call) BY <2>1 DEF Behold, Rival
  <2>5. \A m \in 1..Len(handled) : m \in 1..(q - 1) /\ u[m] = handled[m] BY <1>1, <2>1
  <2>6. Told(handled, i.call) => \E m \in 1..(q - 1) : u[m] = ResultOf(i.call) BY <2>5 DEF Told
  <2> QED BY <2>3, <2>4, <2>6
<1> QED BY <1>2, <1>3

LEMMA AskFits ==
  ASSUME NEW tag, ConsentInv(tag), NEW N, NEW rest, Behold(tag, N, rest), owed' = Holding(rest, N),
         NEW a, News(Known', N, a), NEW u, Asked(Known', a, u)
  PROVE  Fits(tag, u)
<1>1. /\ Len(handled) \in Nat /\ Len(u) \in Nat /\ Len(handled) <= Len(u)
      /\ \A i \in 1..Len(handled) : u[i].kind \in {"call", "result"} /\ u[i].call \in Known
      /\ \A k \in 1..Len(u) : k \in 1..Len(handled) \/ (k > Len(handled) /\ u[k].call \in N /\ u[k].kind # "decision")
  <2>1. N \cap Known = {} /\ Known \subseteq Known' BY DEF Behold
  <2> QED BY <2>1, AskPlaces
<1>2. /\ \A n \in N : \A k \in Known : k.no < n.no
      /\ \A n, k \in N : n.id = k.id => n = k
      /\ \A n \in N : NewestOf(Known', n)
      /\ \A n \in N : n.id = tag => \A r \in pending : r.call.id # n.id
      /\ \A n \in N : ~Answer(history, n) /\ n \notin Calls(ToSet(input))
      /\ keeps => N \subseteq owed'
  BY DEF Behold
<1>3. \A i \in ToSet(history) \cup ToSet(input) : i.call \in Known BY TurnCalls DEF ConsentInv
<1>4. ASSUME NEW p \in 1..Len(u), u[p].kind = "request", u[p].call.id = tag PROVE AsksFor(tag, u, p, u[p].call)
  <2>1. p > Len(handled) /\ u[p].call \in N BY <1>1, <1>4
  <2>2. PICK c : c = u[p].call OBVIOUS
  <2>3. \A i \in ToSet(history) \cup ToSet(input) : Rival(tag, i.call, c) => i.call.no < c.no BY <1>2, <1>3, <2>1, <2>2
  <2>4. \A q \in 1..Len(u) : Rival(tag, u[q].call, c) => q < p /\ u[q].call.no < c.no
    <3> TAKE q \in 1..Len(u)
    <3> HAVE Rival(tag, u[q].call, c)
    <3>1. u[q].call \notin N BY <1>2, <2>1, <2>2 DEF Rival
    <3>2. q \in 1..Len(handled) /\ u[q].call \in Known BY <1>1, <3>1
    <3> QED BY <1>1, <1>2, <2>1, <2>2, <3>2
  <2> QED BY <1>2, <1>4, <2>1, <2>2, <2>3, <2>4 DEF AsksFor
<1>5. \A p \in 1..Len(u) : u[p].kind # "decision" BY <1>1
<1>6. Follows(tag, history, u) BY AskFollows
<1> QED BY <1>4, <1>5, <1>6 DEF Fits

-----------------------------------------------------------------------------
LEMMA AskGoes ==
  ASSUME NEW tag, ConsentInv(tag), NEW N, NEW rest, AskSettles(N, rest)
  PROVE  Goes /\ Moves /\ MadeInv'
<1>1. Fresh(N) /\ answers' = answers /\ runs' = runs BY DEF AskSettles
<1>2. Known' = Known \cup N /\ Moves /\ Len(made) <= Len(made') /\ \A c \in N : c.no > Len(made)
  BY <1>1 DEF Fresh
<1>3. \A c \in Known' \ Known : c.no > Len(made) BY <1>2
<1> QED BY <1>1, <1>2, <1>3 DEF Goes, Moves

(* The request ends the turn.                                               *)
LEMMA AskStopsIsFine ==
  ASSUME NEW tag, ConsentInv(tag), Attributable(tag)', NEW N, NEW rest, AskSettles(N, rest),
         NEW how, NEW items, NEW a, NEW u, AskStops(N, how, items, a, u),
         owed' = Holding(rest, N) \/ items = handled
  PROVE  ConsentInv(tag)'
<1>1. Behold(tag, N, rest) BY AskBeholds
<1>2. Goes /\ Moves BY AskGoes
<1>3. Settled(tag) BY DEF ConsentInv, Settled
<1>4. Ends(how, items) /\ News(Known', N, a) /\ Asked(Known', a, u) /\ StartsWith(u, items) /\ ToSet(handled) \subseteq ToSet(items)
  BY DEF AskStops
<1>5. calls \cup refused = {} /\ (keeps => \A r \in pending : r.call.id = tag => r.call \in owed') BY <1>1 DEF Behold
<1>6. answers' = answers BY DEF AskSettles
<1>7. CASE items = handled
  <2>1. Leaves(tag, how, handled) BY <1>2, <1>3, <1>4, <1>5, <1>6, <1>7, HandledLeaves
  <2> QED BY <1>2, <2>1, EndConsents
<1>8. CASE owed' = Holding(rest, N)
  <2>1. Fits(tag, u) BY <1>1, <1>4, <1>8, AskFits
  <2>2. Fits(tag, items) BY <1>4, <2>1, FitsStarts
  <2>3. Leaves(tag, how, items) BY <1>4, <1>5, <1>6, <2>2 DEF Leaves
  <2> QED BY <1>2, <2>3, EndConsents
<1> QED BY <1>7, <1>8

(* A round begins.                                                          *)
LEMMA AskTraces ==
  ASSUME NEW tag, ConsentInv(tag), NEW N, NEW rest, AskSettles(N, rest), owed' = Holding(rest, N),
         NEW a, NEW u, AskGoesOn(N, a, u)
  PROVE  TraceInv(tag)'
<1>1. Behold(tag, N, rest) BY AskBeholds
<1>2. /\ calls = {} /\ refused = {} /\ asking = {} /\ deferred = {} /\ autoApproved = {}
      /\ N \cap Known = {} /\ Known' = Known \cup N
  BY <1>1 DEF Behold
<1>3. /\ News(Known', N, a) /\ Asked(Known', a, u) /\ ToSet(a) = {Raw(c) : c \in N}
      /\ handled' = u /\ calls' = N
      /\ UNCHANGED <<pending, autoApproved, history, input, messages, refused, deferred, asking, hand>>
  BY DEF AskGoesOn, slots
<1>4. TraceInv(tag) BY DEF ConsentInv
<1>5. answers' = answers /\ keeps' = keeps BY DEF AskSettles
<1>6. Live' = N BY <1>2, <1>3 DEF Live, Calls
<1>7. /\ HandInv(tag)' = HandInv(tag) /\ PendInv(tag)' = PendInv(tag) /\ InputInv(tag)' = InputInv(tag) /\ OpenInv(tag)' = OpenInv(tag)
  BY <1>3, <1>5 DEF HandInv, PendInv, InputInv, OpenInv
<1>8. Follows(tag, history', handled') BY <1>1, <1>3, AskFollows
<1>9. /\ \A i \in ToSet(history) \cup ToSet(input) \cup ToSet(handled) : i.call \in Known
      /\ messages \in Seq(ItemsOf(Known))
  BY TurnCalls DEF ConsentInv
<1>10. /\ ToSet(u) = ToSet(handled) \cup ToSet(a) /\ \A c : Told(u, c) <=> Told(handled, c)
  BY <1>3 DEF Asked
<1>11. \A i \in ToSet(a) : i.call \in N
  <2>1. \A c \in N : Raw(c).call = c BY Fields
  <2> QED BY <1>3, <2>1
<1>12. AnswerInv(tag)'
  <2>1. AnswerInv(tag) BY <1>4 DEF TraceInv
  <2>2. \A i : MadeByHuman(i)' <=> MadeByHuman(i) BY <1>5 DEF MadeByHuman, Yeses
  <2>3. \A k : NotRequested(k)' <=> NotRequested(k) BY <1>3 DEF NotRequested
  <2>4. \A i \in ToSet(history') \cup ToSet(input') : i.kind = "decision" => MadeByHuman(i)'
    BY <1>3, <2>1, <2>2 DEF AnswerInv
  <2>5. ASSUME NEW c \in Known', c.id = tag, Answer(history, c)
        PROVE  Raw(c) \in ToSet(history) \/ (NotRequested(c)' /\ c \notin Live')
    <3>1. c \in Known BY <1>9, <2>5 DEF Answer
    <3>2. Raw(c) \in ToSet(history) \/ NotRequested(c) BY <2>1, <2>5, <3>1 DEF AnswerInv
    <3> QED BY <1>2, <1>6, <2>3, <3>1, <3>2
  <2>6. \A i \in ToSet(input) : i.call.id = tag =>
          \/ Raw(i.call) \in ToSet(history) \cup ToSet(u)
          \/ NotRequested(i.call)' /\ i.call \notin Calls(asking)
    BY <1>2, <1>10, <2>1, <2>3 DEF AnswerInv
  <2> QED BY <1>3, <2>4, <2>5, <2>6 DEF AnswerInv
<1>13. LiveInv(tag)'
  <2> SUFFICES ASSUME NEW c \in N, c.id = tag
               PROVE  /\ \A i \in ToSet(history) \cup ToSet(input) \cup ToSet(u) : Rival(tag, i.call, c) => i.call.no < c.no
                      /\ \A i \in ToSet(history) : i.kind = "request" /\ Rival(tag, i.call, c) => Told(history, i.call) \/ Told(u, i.call)
                      /\ \A d \in N : c.id = d.id => c = d
                      /\ \A r \in pending : r.call.id = c.id => r.call = c
    BY <1>3, <1>6 DEF LiveInv
  <2>1. \A d \in N : c.id = d.id => c = d BY <1>1 DEF Behold
  <2>2. \A k \in Known : k.no < c.no BY <1>1 DEF Behold
  <2>3. \A i \in ToSet(history) \cup ToSet(input) \cup ToSet(u) : Rival(tag, i.call, c) => i.call.no < c.no
    BY <1>9, <1>10, <1>11, <2>1, <2>2 DEF Rival
  <2>4. \A i \in ToSet(history) : i.kind = "request" /\ Rival(tag, i.call, c) => Told(history, i.call) \/ Told(u, i.call)
    BY <1>1, <1>10 DEF Behold, Rival
  <2>5. \A r \in pending : r.call.id = c.id => r.call = c BY <1>1 DEF Behold
  <2> QED BY <2>1, <2>3, <2>4, <2>5
<1>14. MsgInv(tag)'
  <2>1. \A c \in Known : c.id = tag /\ Told(messages, c) => Told(history, c) \/ Told(u, c) BY <1>4, <1>10 DEF TraceInv, MsgInv
  <2>2. \A c : Told(messages, c) => c \in Known BY <1>9, ToldIsKnown
  <2> QED BY <1>3, <2>1, <2>2 DEF MsgInv
<1>15. OwedInv(tag)'
  <2>1. keeps => (\A r \in pending : r.call.id = tag => r.call \in owed') /\ N \subseteq owed' BY <1>1 DEF Behold
  <2> QED BY <1>2, <1>3, <1>5, <2>1 DEF OwedInv, Calls
<1>16. AutoInv(tag)' BY <1>2, <1>3 DEF AutoInv
<1>17. Ordered(tag, history') BY <1>3, <1>4 DEF TraceInv
<1> QED BY <1>4, <1>7, <1>8, <1>12, <1>13, <1>14, <1>15, <1>16, <1>17 DEF TraceInv

LEMMA AskGoesOnIsFine ==
  ASSUME NEW tag, ConsentInv(tag), ApprovalInv', Attributable(tag)', NEW N, NEW rest, AskSettles(N, rest), owed' = Holding(rest, N),
         \A c \in N : c.tool \notin Gated, NEW a, NEW u, AskGoesOn(N, a, u)
  PROVE  ConsentInv(tag)'
<1>1. TraceInv(tag)' BY AskTraces
<1>2. Goes /\ MadeInv' BY AskGoes
<1>3. Behold(tag, N, rest) BY AskBeholds
<1>4. N \cap Known = {} /\ Known' = Known \cup N BY <1>3 DEF Behold
<1>5. todo' = N /\ history' = history BY DEF AskGoesOn
<1>6. Spends
  <2>1. /\ answers' = answers /\ runs' \in [Nos -> Nat]
        /\ \A n \in Nos : n > Len(made') => runs'[n] = 0
        /\ \A d \in Known : runs'[d.no] <= runs[d.no] + Due(d)
    BY <1>2, GoesIs
  <2>2. \A d \in Known : runs'[d.no] + Due(d)' <= runs[d.no] + Due(d)
    <3> TAKE d \in Known
    <3>0. MadeInv BY DEF ConsentInv, ApprovalInv
    <3>1. d.no \in Nos BY <3>0, KnownAre
    <3>2. runs'[d.no] \in Nat BY <2>1, <3>1
    <3>3. Due(d)' = 0 BY <1>4, <1>5 DEF Due
    <3> QED BY <2>1, <3>2, <3>3
  <2>3. \A d : Broken(history', d) = Broken(history, d) BY <1>5
  <2>4. \A c \in Known' \ Known : c.tool \notin Gated BY <1>4
  <2> QED BY <2>1, <2>2, <2>3, <2>4 DEF Spends
<1>7. CountInv(tag)' BY <1>2, <1>6, CountsKept
<1> QED BY <1>1, <1>7 DEF ConsentInv

LEMMA AskIsFine ==
  ASSUME NEW tag, ConsentInv(tag), Attributable(tag)', Ask
  PROVE  ConsentInv(tag)'
<1>1. ApprovalInv BY DEF ConsentInv
<1>2. ApprovalInv' BY <1>1, AskKeeps
<1>3. PICK N, rest : AskSettles(N, rest) /\ AskCalls(N, rest) BY <1>1, AskIs
<1>4. CASE \E how, items, a, u : AskStops(N, how, items, a, u) /\ (owed' = Holding(rest, N) \/ items = handled)
  BY <1>3, <1>4, AskStopsIsFine
<1>5. CASE (\E a, u : AskGoesOn(N, a, u)) /\ owed' = Holding(rest, N) /\ \A c \in N : c.tool \notin Gated
  BY <1>2, <1>3, <1>5, AskGoesOnIsFine
<1> QED BY <1>3, <1>4, <1>5 DEF AskCalls

(* A human answers.                                                         *)
LEMMA SendIsFine ==
  ASSUME NEW tag, ConsentInv(tag), Attributable(tag)', Send
  PROVE  ConsentInv(tag)'
<1>1. ApprovalInv' BY SendKeeps DEF ConsentInv
<1>2. TraceInv(tag)' BY SendTraces
<1>3. CountInv(tag)' BY SendCounts
<1> QED BY <1>1, <1>2, <1>3 DEF ConsentInv

LEMMA ConsentStartsOut ==
  ASSUME NEW tag, Init
  PROVE  ConsentInv(tag)
<1>1. ApprovalInv BY StartsOut
<1>2. /\ history = <<>> /\ handled = <<>> /\ input = <<>> /\ messages = <<>> /\ hand = {} /\ pending = {}
      /\ autoApproved = {} /\ calls = {} /\ refused = {} /\ asking = {} /\ deferred = {} /\ owed = {} /\ made = <<>>
      /\ todo = {} /\ answers = [n \in Nos |-> <<>>] /\ runs = [n \in Nos |-> 0]
  BY DEF Init
<1>3. Known = {} /\ Live = {} /\ ToSet(history) = {} /\ ToSet(input) = {}
  BY <1>2 DEF Known, Live, Calls, ToSet
<1>4. Ordered(tag, history) /\ Follows(tag, history, handled) /\ HandInv(tag) /\ PendInv(tag) /\ OpenInv(tag)
  BY <1>2 DEF Ordered, Follows, HandInv, PendInv, OpenInv
<1>5. AnswerInv(tag) /\ InputInv(tag) /\ LiveInv(tag) /\ MsgInv(tag) BY <1>3 DEF AnswerInv, InputInv, LiveInv, MsgInv
<1>6. OwedInv(tag) /\ AutoInv(tag) BY <1>2 DEF OwedInv, AutoInv, Calls
<1>7. TraceInv(tag) BY <1>4, <1>5, <1>6 DEF TraceInv
<1>8. CountInv(tag)
  <2>1. \A T : <<>> \in Seq(T) OBVIOUS
  <2>2. answers \in [Nos -> Seq(BOOLEAN)] BY <1>2, <2>1
  <2> QED BY <1>2, <1>3, <2>2 DEF CountInv
<1>9. Attributable(tag) BY <1>2 DEF Attributable
<1> QED BY <1>1, <1>7, <1>8, <1>9 DEF ConsentInv

LEMMA ConsentStays ==
  ASSUME NEW tag, ConsentInv(tag), Attributable(tag)', [Next]_vars
  PROVE  ConsentInv(tag)'
<1>1. CASE Next
  <2>1. Send \/ Invoke \/ MiddlewareFails \/ FinishReplay \/ Ask \/ FinishRound \/ Fail BY <1>1 DEF Next
  <2> QED BY <1>1, <2>1, SendIsFine, InvokeIsFine, MiddlewareFailsIsFine, ReplayIsFine, AskIsFine, RoundIsFine, FailIsFine
<1>2. CASE UNCHANGED vars
  <2>1. ApprovalInv' BY <1>2, StepKeeps DEF ConsentInv
  <2>2. UNCHANGED <<history, handled, input, messages, hand, pending, autoApproved, calls, refused, asking, deferred,
                    owed, keeps, made, todo, answers, runs>>
    BY <1>2 DEF vars, slots, service, round, turn, caller
  <2>3. Known' = Known /\ Live' = Live /\ \A k : NotRequested(k)' <=> NotRequested(k) BY <2>2 DEF Known, Live, NotRequested
  <2>4. \A i : MadeByHuman(i)' <=> MadeByHuman(i) BY <2>2 DEF MadeByHuman, Yeses
  <2>5. HandInv(tag)' = HandInv(tag) /\ PendInv(tag)' = PendInv(tag) /\ InputInv(tag)' = InputInv(tag) /\ OpenInv(tag)' = OpenInv(tag) /\ OwedInv(tag)' = OwedInv(tag)
    BY <2>2 DEF HandInv, PendInv, InputInv, OpenInv, OwedInv
  <2>6. TraceInv(tag) BY DEF ConsentInv
  <2>7. AnswerInv(tag)' BY <2>2, <2>3, <2>4, <2>6 DEF TraceInv, AnswerInv
  <2>8. LiveInv(tag)' /\ MsgInv(tag)' /\ AutoInv(tag)' BY <2>2, <2>3, <2>6 DEF TraceInv, LiveInv, MsgInv, AutoInv
  <2>9. TraceInv(tag)' BY <2>2, <2>5, <2>6, <2>7, <2>8 DEF TraceInv
  <2>10. CountInv(tag)'
    <3>1. \A c : Due(c)' = Due(c) /\ Interrupted(c)' = Interrupted(c) /\ Yeses(c.no)' = Yeses(c.no)
      BY <2>2 DEF Due, Interrupted, Yeses
    <3> QED BY <2>2, <2>3, <3>1 DEF ConsentInv, CountInv
  <2>11. Attributable(tag)' BY <2>2 DEF ConsentInv, Attributable, Overshadowed, Orphaned
  <2> QED BY <2>1, <2>9, <2>10, <2>11 DEF ConsentInv
<1> QED BY <1>1, <1>2

(* What is apart from the transcript is of a muddled id, and an id once     *)
(* muddled stays so.                                                        *)
MarkInv == Apart \subseteq muddled
LEMMA EndMarks == ASSUME NEW how, NEW items, End(how, items) PROVE muddled' = muddled \cup Apart'
BY DEF End
LEMMA CutMarks == ASSUME NEW us, Cut(us) PROVE muddled' = muddled \cup Apart'
BY EndMarks DEF Cut
LEMMA StepMarks ==
  ASSUME [Next]_vars
  PROVE  muddled' = muddled \cup Apart' \/ UNCHANGED <<slots, history>>
<1>1. CASE Send BY <1>1 DEF Send
<1>2. CASE Invoke
  <2>1. PICK c \in todo : NotFound(c) \/ Succeeds(c) \/ Throws(c) \/ BadArguments(c) \/ Deferred(c) BY <1>2 DEF Invoke
  <2>2. \A bad : Report(c, bad) => UNCHANGED <<slots, history>> BY DEF Report
  <2>3. Defer(c) => UNCHANGED <<slots, history>> BY DEF Defer
  <2>4. Except(c) => UNCHANGED <<slots, history>> \/ muddled' = muddled \cup Apart' BY <2>2, EndMarks DEF Except
  <2> QED BY <2>1, <2>2, <2>3, <2>4 DEF NotFound, Succeeds, Throws, BadArguments, Deferred
<1>3. CASE MiddlewareFails BY <1>3, EndMarks DEF MiddlewareFails
<1>4. CASE FinishReplay BY <1>4, EndMarks, CutMarks DEF FinishReplay
<1>5. CASE Ask
  <2>1. PICK new, rest : \/ FinalAnswer(new, rest) \/ ReleaseAsApprovals(new, rest)
                         \/ HandToCaller(new, rest) \/ StartRound(new, rest)
    BY <1>5 DEF Ask
  <2>2. CASE FinalAnswer(new, rest) BY <2>2, EndMarks DEF FinalAnswer
  <2>3. CASE ReleaseAsApprovals(new, rest) BY <2>3, EndMarks, CutMarks DEF ReleaseAsApprovals
  <2>4. CASE HandToCaller(new, rest) BY <2>4, EndMarks, CutMarks DEF HandToCaller
  <2>5. CASE StartRound(new, rest) BY <2>5, CutMarks DEF StartRound
  <2> QED BY <2>1, <2>2, <2>3, <2>4, <2>5
<1>6. CASE FinishRound BY <1>6, EndMarks, CutMarks DEF FinishRound
<1>7. CASE Fail BY <1>7, EndMarks DEF Fail
<1>8. CASE UNCHANGED vars BY <1>8 DEF vars
<1> QED BY <1>1, <1>2, <1>3, <1>4, <1>5, <1>6, <1>7, <1>8 DEF Next
LEMMA MarksStay ==
  ASSUME MarkInv, [Next]_vars
  PROVE  MarkInv' /\ muddled \subseteq muddled'
<1>1. CASE muddled' = muddled \cup Apart' BY <1>1 DEF MarkInv
<1>2. CASE UNCHANGED <<slots, history>>
  <2>1. UNCHANGED <<pending, autoApproved, muddled, history>> BY <1>2 DEF slots
  <2>2. Apart' = Apart BY <2>1 DEF Apart, Overshadowed, Orphaned
  <2> QED BY <2>1, <2>2 DEF MarkInv
<1> QED BY <1>1, <1>2, StepMarks
LEMMA ClearIsAttributable ==
  ASSUME MarkInv, NEW tag, tag \notin muddled
  PROVE  Attributable(tag)
BY DEF MarkInv, Apart, CallIds, Attributable

(* Of an id that is clear, every transcript the framework keeps says which  *)
(* call a human's answer is for.                                            *)
ClearInv == ApprovalInv /\ MarkInv /\ \A id \in Ids \ muddled : ConsentInv(id)
THEOREM ConsentInvariance == Spec => []ClearInv
<1>1. Init => ClearInv
  <2> SUFFICES ASSUME Init PROVE ClearInv OBVIOUS
  <2>1. MarkInv BY DEF Init, MarkInv, Apart, CallIds
  <2> QED BY <2>1, StartsOut, ConsentStartsOut DEF ClearInv
<1>2. ClearInv /\ [Next]_vars => ClearInv'
  <2> SUFFICES ASSUME ClearInv, [Next]_vars PROVE ClearInv' OBVIOUS
  <2>1. MarkInv' /\ muddled \subseteq muddled' BY MarksStay DEF ClearInv
  <2>2. ApprovalInv' BY StepKeeps DEF ClearInv
  <2>3. ASSUME NEW id \in Ids, id \notin muddled' PROVE ConsentInv(id)'
    <3>1. ConsentInv(id) BY <2>1, <2>3 DEF ClearInv
    <3>2. MarkInv' => Attributable(id)' BY <2>3 DEF MarkInv, Apart, CallIds, Attributable
    <3> QED BY <2>1, <3>1, <3>2, ConsentStays
  <2> QED BY <2>1, <2>2, <2>3 DEF ClearInv
<1> QED BY <1>1, <1>2, PTL DEF Spec

(* A call of a gated tool runs only if a human said yes to that very call,  *)
(* and once per yes unless the caller cut the turn between call and result  *)
(* (bindApprovals, resolveInboundApprovals, runInvocationRound): every call *)
(* but those of an id that was muddled.                                     *)
THEOREM RunsOnlyWithConsent == Spec => []OnlyWithConsent
<1>1. ClearInv => OnlyWithConsent
  <2> SUFFICES ASSUME ClearInv, NEW n \in DOMAIN made, made[n].tool \in Gated, Clear(made[n])
               PROVE  /\ runs[n] > 0 => Yeses(n) # {}
                      /\ Interrupted(made[n]) = {} => runs[n] <= Cardinality(Yeses(n))
    BY DEF OnlyWithConsent
  <2>1. made \in Seq(Call) BY DEF ClearInv, ApprovalInv, MadeInv
  <2>2. made[n].id \in Ids \ muddled
    <3>1. n \in 1..Len(made) BY <2>1
    <3>2. made[n] \in Call BY <2>1, <3>1
    <3> QED BY <3>2 DEF Call, Clear
  <2>3. ConsentInv(made[n].id) BY <2>2 DEF ClearInv
  <2> QED BY <2>3, ConsentIsGiven
<1> QED BY <1>1, ConsentInvariance, PTL

(* A request the caller holds and never answered stays open: a yes given    *)
(* now would run its call (drainPending, withToolApproval), unless the id   *)
(* of the call was muddled.                                                 *)
THEOREM AnswersCount == Spec => []AnAnswerCounts
<1>1. ClearInv => AnAnswerCounts
  <2> SUFFICES ASSUME ClearInv, pc = "idle", NEW r \in hand, answers[r.call.no] = <<>>, Clear(r.call) PROVE Counts(r)
    BY DEF AnAnswerCounts
  <2>1. r.call \in Known BY TurnCalls DEF ClearInv
  <2>2. r.call \in Call BY <2>1, KnownAre DEF ClearInv, ApprovalInv
  <2>3. r.call.id \in Ids \ muddled BY <2>2 DEF Call, Clear
  <2>4. ConsentInv(r.call.id) BY <2>3 DEF ClearInv
  <2> QED BY <2>4, AnswersCountNow
<1> QED BY <1>1, ConsentInvariance, PTL

-----------------------------------------------------------------------------
(* Of every id, muddled or not: a yes on record is a human's, and a call of *)
(* a gated tool is executed only if some yes was to its id.                 *)
YesToId(id) == \E m \in OfId(id) : Yeses(m) # {}
YesInv ==
  /\ answers \in [Nos -> Seq(BOOLEAN)]
  /\ \A i \in ToSet(history) \cup ToSet(input) : i.kind = "decision" /\ i.yes => Yeses(i.call.no) # {}
  /\ \A c \in calls : c.tool \in Gated => YesToId(c.id)
NotYetRun == \A n \in Nos : n > Len(made) => runs[n] = 0
IdInv == ApprovalInv /\ RunsInv /\ NotYetRun /\ YesInv /\ ConsentOfItsId

(* No decision is added to the record, and no gated call to the batch.      *)
Adds ==
  /\ answers' = answers
  /\ \A i \in ToSet(history') \cup ToSet(input') : i.kind = "decision" => i \in ToSet(history) \cup ToSet(input)
  /\ \A c \in calls' : c \in calls \/ c.tool \notin Gated
LEMMA EndAdds ==
  ASSUME ApprovalInv, Moves, answers' = answers, NEW how, NEW items, Ends(how, items),
         \A p \in 1..Len(items) : items[p].kind # "decision"
  PROVE  Adds
<1>1. Known \subseteq Known' /\ items \in Seq(ItemsOf(Known')) BY DEF Moves, Ends
<1>2. history \in Seq(ItemsOf(Known)) /\ input \in Seq(ItemsOf(Known)) BY TurnCalls
<1>3. history \in Seq(ItemsOf(Known')) /\ input \in Seq(ItemsOf(Known')) BY <1>1, <1>2, MoreItems
<1>4. PICK g \in Seq(ItemsOf(Known')) : g = Shown(items) /\ ToSet(g) \subseteq ToSet(items) BY <1>1, ShownIs
<1>5. PICK l, m : l = history \o input /\ m = l \o g OBVIOUS
<1>6. l \in Seq(ItemsOf(Known')) /\ ToSet(l) = ToSet(history) \cup ToSet(input) BY <1>3, <1>5, JoinedIs
<1>7. ToSet(m) = ToSet(l) \cup ToSet(g)
  <2>1. g \in Seq(ItemsOf(Known')) /\ l \in Seq(ItemsOf(Known')) BY <1>4, <1>6
  <2>2. ToSet(l \o g) = ToSet(l) \cup ToSet(g) BY ONLY <2>1, JoinedIs
  <2> QED BY <1>5, <2>2
<1>11. history' = history \/ history' = m
  <2>1. history' = IF how = "failed" \/ managed' THEN history ELSE history \o input \o Shown(items) BY DEF Ends, End
  <2> QED BY <1>4, <1>5, <2>1
<1>8. \A i \in ToSet(g) : i.kind # "decision" BY <1>1, <1>4, MemberIs
<1>9. input' = <<>> /\ calls' = {} BY DEF Ends, End, Blank
<1>10. ToSet(input') = {} BY <1>9 DEF ToSet
<1> QED BY <1>6, <1>7, <1>8, <1>9, <1>10, <1>11 DEF Adds

LEMMA FailAdds ==
  ASSUME ApprovalInv, UNCHANGED <<made, managed, keeps>>, answers' = answers, End("failed", handled)
  PROVE  Adds
<1>1. Moves BY StaysMade
<1>2. Ends("failed", handled) BY <1>1, FailEnds
<1>3. \A p \in 1..Len(handled) : handled[p].kind # "decision" BY HandledEnds
<1> QED BY <1>1, <1>2, <1>3, EndAdds

LEMMA BatchAdds ==
  ASSUME ApprovalInv, UNCHANGED <<made, managed, keeps, answers>>, NEW b, NEW e, NEW d, NEW u, Batched(b, e, d, u),
         NEW us, Updates(ItemsOf(Known), us), handled \o FirstOf(us, Len(us)) = u, Ending(u), Leads(u),
         Cut(us) \/ End("done", u)
  PROVE  Adds
<1>1. Moves /\ Known' = Known BY StaysMade
<1>2. \A p \in 1..Len(u) : u[p].kind # "decision"
  <2>1. /\ b \in Seq(ItemsOf(Known)) /\ d \in Seq(ItemsOf(Known)) /\ u = b \o d
        /\ b \in Seq(ExchangesOf(Known)) /\ d \in Seq(Requests(Known)) /\ u \in Seq(ItemsOf(Known))
    BY KindsIn DEF Batched
  <2>2. ToSet(u) = ToSet(b) \cup ToSet(d) BY <2>1, JoinedIs
  <2>3. \A i \in ToSet(b) : i.kind # "decision"
    <3>1. \A i \in ToSet(b) : i \in ExchangesOf(Known) BY <2>1, MemberIs
    <3> QED BY <3>1, KindsIn
  <2>4. \A i \in ToSet(d) : i.kind # "decision"
    <3>1. \A i \in ToSet(d) : i \in Requests(Known) BY <2>1, MemberIs
    <3> QED BY <3>1, KindsIn
  <2>5. \A p \in 1..Len(u) : u[p] \in ToSet(u) BY <2>1, MemberIs
  <2> QED BY <2>2, <2>3, <2>4, <2>5
<1>3. CASE Cut(us)
  <2>1. PICK how, w, k : CutAt(us, how, w, k) BY <1>1, <1>3, CutEnds
  <2>2. Ends(how, w) /\ StartsWith(u, w) BY <2>1 DEF CutAt
  <2>3. \A p \in 1..Len(w) : p \in 1..Len(u) /\ w[p] = u[p] BY <2>2 DEF StartsWith
  <2> QED BY <1>1, <1>2, <2>2, <2>3, EndAdds
<1>4. CASE End("done", u)
  <2>1. Ends("done", u) BY <1>1, <1>4 DEF Ends, Batched
  <2> QED BY <1>1, <1>2, <2>1, EndAdds
<1> QED BY <1>3, <1>4

LEMMA AskAdds ==
  ASSUME ApprovalInv, Ask
  PROVE  Adds
<1>1. PICK N, rest : AskSettles(N, rest) /\ AskCalls(N, rest) BY AskIs
<1>2. Fresh(N) /\ Moves /\ answers' = answers BY <1>1 DEF AskSettles, Fresh
<1>3. CASE \E how, items, a, u : AskStops(N, how, items, a, u)
  <2>1. PICK how, items, a, u : AskStops(N, how, items, a, u) BY <1>3
  <2>2. Ends(how, items) /\ News(Known', N, a) /\ Asked(Known', a, u) /\ StartsWith(u, items) BY <2>1 DEF AskStops
  <2>3. \A i \in ToSet(a) : i.kind # "decision"
    <3> TAKE i \in ToSet(a)
    <3>1. PICK p \in 1..Len(a) : a[p] = i BY <2>2, MemberIs DEF News
    <3>2. i = Raw(i.call) \/ i = Request(i.call, FALSE) BY <2>2, <3>1 DEF News
    <3>3. Raw(i.call).kind = "call" /\ Request(i.call, FALSE).kind = "request" BY Fields, ZenonT(60)
    <3> QED BY <3>2, <3>3
  <2>4. \A p \in 1..Len(u) : u[p].kind # "decision" BY <2>2, <2>3 DEF Asked
  <2>5. \A p \in 1..Len(items) : p \in 1..Len(u) /\ items[p] = u[p] BY <2>2 DEF StartsWith
  <2> QED BY <1>2, <2>2, <2>4, <2>5, EndAdds
<1>4. CASE (\E a, u : AskGoesOn(N, a, u)) /\ \A c \in N : c.tool \notin Gated
  <2>1. UNCHANGED <<history, input>> /\ calls' = N BY <1>4 DEF AskGoesOn
  <2> QED BY <1>2, <1>4, <2>1 DEF Adds
<1> QED BY <1>1, <1>3, <1>4 DEF AskCalls

LEMMA InvokeAdds ==
  ASSUME ApprovalInv, Invoke
  PROVE  Adds
<1>1. UNCHANGED <<made, managed, keeps, answers>> BY DEF Invoke, service
<1>2. PICK c \in todo : NotFound(c) \/ Succeeds(c) \/ Throws(c) \/ BadArguments(c) \/ Deferred(c) BY DEF Invoke
<1>3. (\E bad : Report(c, bad)) \/ Defer(c) \/ End("failed", handled)
  BY <1>2 DEF NotFound, Succeeds, Throws, BadArguments, Deferred, Except
<1>4. CASE (\E bad : Report(c, bad)) \/ Defer(c)
  <2>1. UNCHANGED <<history, input, calls>> BY <1>4 DEF Report, Defer
  <2> QED BY <1>1, <2>1 DEF Adds
<1>5. CASE End("failed", handled) BY <1>1, <1>5, FailAdds
<1> QED BY <1>3, <1>4, <1>5

LEMMA StepAdds ==
  ASSUME ApprovalInv, [Next]_vars, ~Send
  PROVE  Adds
<1>1. CASE Invoke BY <1>1, InvokeAdds
<1>2. CASE MiddlewareFails BY <1>2, FailAdds DEF MiddlewareFails
<1>3. CASE FinishReplay
  <2>1. PICK us, b, d, u : ReplayShape(us, b, d, u) /\ (Cut(us) \/ End("done", u) \/ ReplayGoesOn(b))
    BY <1>3, FinishReplayIs
  <2>2. /\ UNCHANGED <<made, managed, keeps, answers>> /\ Updates(ItemsOf(Known), us)
        /\ handled \o FirstOf(us, Len(us)) = u /\ Ending(u) /\ Leads(u)
    BY <2>1 DEF ReplayShape, service
  <2>3. Batched(b, b, d, u) BY <2>1, ReplayBatched
  <2>4. ReplayGoesOn(b) => Adds BY <2>2 DEF ReplayGoesOn, Adds
  <2> QED BY <2>1, <2>2, <2>3, <2>4, BatchAdds
<1>4. CASE Ask BY <1>4, AskAdds
<1>5. CASE FinishRound
  <2>1. PICK us, b, d, u : RoundShape(us, b, d, u) /\ (Cut(us) \/ End("done", u) \/ RoundGoesOn(b))
    BY <1>5, FinishRoundIs
  <2>2. /\ UNCHANGED <<made, managed, keeps, answers>> /\ Updates(ItemsOf(Known), us)
        /\ handled \o FirstOf(us, Len(us)) = u /\ Ending(u) /\ Leads(u)
    BY <2>1 DEF RoundShape, service
  <2>3. Batched(b, results, d, u) BY <2>1, RoundBatched
  <2>4. RoundGoesOn(b) => Adds BY <2>2 DEF RoundGoesOn, Adds
  <2> QED BY <2>1, <2>2, <2>3, <2>4, BatchAdds
<1>6. CASE Fail BY <1>6, FailAdds DEF Fail, service
<1>7. CASE UNCHANGED vars BY <1>7 DEF vars, turn, round, caller, Adds
<1> QED BY <1>1, <1>2, <1>3, <1>4, <1>5, <1>6, <1>7 DEF Next

(* A yes to an id stays one.                                                *)
LEMMA YesStays ==
  ASSUME MadeInv, MadeInv', Known \subseteq Known', \A k \in Nos : Yeses(k) # {} => Yeses(k)' # {}, NEW id, YesToId(id)
  PROVE  YesToId(id)'
<1>1. PICK m \in DOMAIN made : made[m].id = id /\ Yeses(m) # {} BY DEF YesToId, OfId
<1>2. made \in Seq(Call) /\ made' \in Seq(Call) BY DEF MadeInv
<1>3. made[m] \in Known /\ made[m].no = m BY <1>1, <1>2 DEF Known, MadeInv
<1>4. m \in Nos /\ m \in 1..Len(made') /\ made'[m] = made[m] BY <1>3, KnownAre, KnownNextAre
<1>5. m \in OfId(id)' BY <1>1, <1>2, <1>4 DEF OfId
<1> QED BY <1>1, <1>4, <1>5 DEF YesToId
LEMMA YesOfCall ==
  ASSUME MadeInv, NEW c \in Known, Yeses(c.no) # {}
  PROVE  YesToId(c.id)
<1>1. c.no \in 1..Len(made) /\ made[c.no] = c BY KnownAre
<1>2. made \in Seq(Call) BY DEF MadeInv
<1> QED BY <1>1, <1>2 DEF YesToId, OfId

(* A human answers: the calls that are taken up are of the ids that were    *)
(* said yes to, or were held back, which no gated call is.                  *)
LEMMA SendSpeaks ==
  ASSUME ApprovalInv, Send
  PROVE  \E S, yes : Speaks(S, yes)
<1>1. PICK S \in SUBSET hand : \E yes \in SUBSET S :
            /\ input' = Listed({Decision(r.call, r \in yes) : r \in S})
            /\ answers' = [k \in Nos |-> IF \E r \in S : r.call.no = k
                             THEN Append(answers[k], \E r \in yes : r.call.no = k) ELSE answers[k]]
  BY DEF Send
<1>2. PICK yes \in SUBSET S :
            /\ input' = Listed({Decision(r.call, r \in yes) : r \in S})
            /\ answers' = [k \in Nos |-> IF \E r \in S : r.call.no = k
                             THEN Append(answers[k], \E r \in yes : r.call.no = k) ELSE answers[k]]
  BY <1>1
<1>3. IsFiniteSet({Decision(r.call, r \in yes) : r \in S})
  <2>1. hand \subseteq Requests(Known) /\ IsFiniteSet(Requests(Known)) BY KnownFinite, ItemsFinite DEF ApprovalInv, TypeInv
  <2>2. IsFiniteSet(S) BY <2>1, FS_Subset
  <2> DEFINE f == [r \in S |-> Decision(r.call, r \in yes)]
  <2>3. {Decision(r.call, r \in yes) : r \in S} = {f[r] : r \in S} OBVIOUS
  <2>4. f \in Surjection(S, {f[r] : r \in S}) BY DEF Surjection
  <2> HIDE DEF f
  <2> QED BY <2>2, <2>3, <2>4, FS_Surjection
<1>4. ToSet(input') = {Decision(r.call, r \in yes) : r \in S} BY <1>2, <1>3, ListedIs
<1> QED BY <1>2, <1>4 DEF Speaks

LEMMA SendTakesYes ==
  ASSUME IdInv, Send
  PROVE  YesInv' /\ \A k \in Nos : Yeses(k) # {} => Yeses(k)' # {}
<1>1. ApprovalInv /\ YesInv /\ MadeInv BY DEF IdInv, ApprovalInv
<1>2. PICK S, yes : Speaks(S, yes) BY <1>1, SendSpeaks
<1>3. Heard(S) BY <1>1, <1>2, SpeaksHeard DEF YesInv
<1>4. PICK s, sent : /\ input' \in Seq(DecisionsOf(Known)) /\ s = history \o input'
                     /\ sent = BoundDecisions(s, pending) \o Listed({Decision(r.call, TRUE) : r \in autoApproved})
                     /\ Begins(s, sent)
  BY <1>1, SendIs
<1>5. UNCHANGED <<history, made>> /\ Known' = Known BY DEF Send, Known
<1>6. MadeInv' BY <1>1, <1>5 DEF MadeInv
<1>7. history \in Seq(ItemsOf(Known)) /\ input' \in Seq(ItemsOf(Known)) BY <1>1, <1>4, TurnCalls, KindsIn
<1>8. \A k \in Nos : Yeses(k) # {} => Yeses(k)' # {} BY <1>3 DEF Heard
<1>9. ASSUME NEW i \in ToSet(history) \cup ToSet(input'), i.kind = "decision", i.yes
      PROVE  i.call \in Known /\ Yeses(i.call.no)' # {}
  <2>1. i.call \in Known BY <1>7, CallsOf
  <2>2. i.call.no \in Nos BY <1>1, <2>1, KnownAre
  <2>3. i \in ToSet(history) => Yeses(i.call.no)' # {} BY <1>1, <1>8, <1>9, <2>2 DEF YesInv
  <2>4. i \in ToSet(input') => Yeses(i.call.no)' # {} BY <1>3, <1>9 DEF Heard, MadeByHuman
  <2> QED BY <2>1, <2>3, <2>4
<1>10. ASSUME NEW c \in calls', c.tool \in Gated PROVE YesToId(c.id)'
  <2>1. Scene(Known, s, pending, autoApproved) BY <1>1, <1>4, SceneOfTurn
  <2>2. sent \in Seq(ItemsOf(Known)) BY <1>4, <2>1, SentCarries
  <2>3. PICK n, from : Carries(sent, n, s, pending, autoApproved, from) BY <1>4, <2>1, SentCarries
  <2>4. Tracks(sent, n, s, pending, autoApproved, from) BY <2>1, <2>2, <2>3, CarriesTracks
  <2>5. PICK d \in Decided(sent) : d.yes /\ d.call = c BY <1>4, <1>10 DEF Begins, Calls
  <2>6. PICK p \in 1..Len(sent) : d = sent[p] /\ d.kind = "decision" BY <2>2, <2>5, DecidedIs, ActionableIs
  <2>7. CASE p \in 1..n
    <3>1. from[p] \in 1..Len(s) /\ s[from[p]].kind = "decision" BY <2>4, <2>6, <2>7 DEF Tracks
    <3>2. PICK r \in BoundTo(s, pending, from[p]) : sent[p] = Decision(r.call, s[from[p]].yes)
      BY <2>3, <2>7, <3>1 DEF Carries
    <3>3. s[from[p]].yes /\ c = r.call
      <4>1. PICK y : y = s[from[p]].yes OBVIOUS
      <4>2. Decision(r.call, y).yes = y /\ Decision(r.call, y).call = r.call BY Fields
      <4> QED BY <2>5, <2>6, <3>2, <4>1, <4>2
    <3>4. PICK i : i = s[from[p]] OBVIOUS
    <3>5. i \in ToSet(history) \cup ToSet(input')
      <4>1. s \in Seq(ItemsOf(Known)) /\ ToSet(s) = ToSet(history) \cup ToSet(input') BY <1>4, <1>7, JoinedIs
      <4> QED BY <3>1, <3>4, <4>1, MemberIs
    <3>6. i.call \in Known /\ Yeses(i.call.no)' # {} BY <1>9, <3>1, <3>3, <3>4, <3>5
    <3>7. YesToId(i.call.id)'
      <4>1. i.call \in Known' BY <1>5, <3>6
      <4>2. i.call.no \in 1..Len(made') /\ made'[i.call.no] = i.call BY <1>6, <4>1, KnownNextAre
      <4>3. made' \in Seq(Call) BY <1>6 DEF MadeInv
      <4> QED BY <3>6, <4>2, <4>3 DEF YesToId, OfId
    <3>8. c.id = i.call.id BY <3>1, <3>2, <3>3, <3>4, BoundToIs
    <3> QED BY <3>7, <3>8
  <2>8. CASE p \notin 1..n
    <3>1. PICK r \in autoApproved : c = r.call BY <2>4, <2>5, <2>6, <2>8 DEF Tracks
    <3>2. HeldBack(r) BY <1>1, <3>1 DEF ApprovalInv, HistoryInv
    <3> QED BY <1>10, <3>1, <3>2, KindsAssumption DEF HeldBack
  <2> QED BY <2>7, <2>8
<1>11. answers' \in [Nos -> Seq(BOOLEAN)] BY <1>3 DEF Heard
<1>12. \A i \in ToSet(history') \cup ToSet(input') : i.kind = "decision" /\ i.yes => Yeses(i.call.no)' # {} BY <1>5, <1>9
<1>13. YesInv' BY <1>10, <1>11, <1>12 DEF YesInv
<1> QED BY <1>8, <1>13

LEMMA KnownStays ==
  ASSUME ApprovalInv, [Next]_vars
  PROVE  Known \subseteq Known' /\ Len(made) <= Len(made')
<1>1. Len(made) \in Nat BY DEF ApprovalInv, MadeInv
<1>2. CASE Ask
  <2>1. PICK N, rest : AskSettles(N, rest) BY <1>2, AskIs
  <2> QED BY <2>1 DEF AskSettles, Fresh
<1>3. CASE made' = made BY <1>1, <1>3 DEF Known
<1>4. Ask \/ made' = made
  BY DEF Next, vars, Send, Invoke, MiddlewareFails, FinishReplay, FinishRound, Fail
<1> QED BY <1>2, <1>3, <1>4

LEMMA YesIsKept ==
  ASSUME IdInv, [Next]_vars
  PROVE  YesInv' /\ \A k \in Nos : Yeses(k) # {} => Yeses(k)' # {}
<1>1. CASE Send BY <1>1, SendTakesYes
<1>2. CASE ~Send
  <2>1. ApprovalInv /\ YesInv /\ MadeInv BY DEF IdInv, ApprovalInv
  <2>2. Adds BY <1>2, <2>1, StepAdds
  <2>3. \A k : Yeses(k)' = Yeses(k) BY <2>2 DEF Adds, Yeses
  <2>4. ApprovalInv' BY <2>1, StepKeeps
  <2>5. MadeInv' /\ Known \subseteq Known'
    <3>1. Known \subseteq Known' BY <1>2, KnownStays, <2>1
    <3> QED BY <2>4, <3>1 DEF ApprovalInv
  <2>6. \A id : YesToId(id) => YesToId(id)' BY <2>1, <2>3, <2>5, YesStays
  <2>7. answers' \in [Nos -> Seq(BOOLEAN)] BY <2>1, <2>2 DEF Adds, YesInv
  <2>8. \A i \in ToSet(history') \cup ToSet(input') : i.kind = "decision" /\ i.yes => Yeses(i.call.no)' # {}
    BY <2>1, <2>2, <2>3 DEF Adds, YesInv
  <2>9. \A c \in calls' : c.tool \in Gated => YesToId(c.id)' BY <2>1, <2>2, <2>6 DEF Adds, YesInv
  <2> QED BY <2>3, <2>7, <2>8, <2>9 DEF YesInv
<1> QED BY <1>1, <1>2


LEMMA IdStays ==
  ASSUME IdInv, [Next]_vars
  PROVE  IdInv'
<1>1. ApprovalInv /\ ApprovalInv' /\ MadeInv /\ MadeInv' BY StepKeeps DEF IdInv, ApprovalInv
<1>2. RunsInv /\ RunsInv'
  <2>1. RunsInv BY DEF IdInv
  <2> QED BY <2>1, RunsAre DEF RunsInv
<1>3. YesInv' /\ \A k \in Nos : Yeses(k) # {} => Yeses(k)' # {} BY YesIsKept
<1>4. Known \subseteq Known' /\ Len(made) <= Len(made') BY <1>1, KnownStays
<1>5. Len(made) \in Nat /\ Len(made') \in Nat /\ made \in Seq(Call) /\ made' \in Seq(Call) BY <1>1 DEF MadeInv
<1>6. ASSUME NEW n \in Nos, runs'[n] # runs[n] PROVE n \in 1..Len(made) /\ made[n] \in calls
  <2>1. PICK c \in todo : runs' = [runs EXCEPT ![c.no] = @ + 1] BY <1>6, RunsAre
  <2>2. n = c.no BY <1>2, <1>6, <2>1 DEF RunsInv
  <2>3. c \in Known /\ c \in calls BY <1>1 DEF ApprovalInv, TypeInv, BatchInv
  <2> QED BY <1>1, <2>2, <2>3, KnownAre
<1>7. NotYetRun'
  <2> SUFFICES ASSUME NEW n \in Nos, n > Len(made') PROVE runs'[n] = 0 BY DEF NotYetRun
  <2>1. n \in Nat /\ n > Len(made) BY <1>4, <1>5, BoundsAssumption DEF Nos
  <2>2. runs[n] = 0 BY <2>1 DEF IdInv, NotYetRun
  <2> QED BY <1>5, <1>6, <2>1, <2>2
<1>8. ConsentOfItsId'
  <2> SUFFICES ASSUME NEW n \in DOMAIN made', made'[n].tool \in Gated, runs'[n] > 0,
                      NEW id, id = made'[n].id
               PROVE  YesToId(id)'
    BY DEF ConsentOfItsId, YesToId
  <2>1. n \in 1..Len(made') /\ made'[n] \in Known' BY <1>5 DEF Known
  <2>2. made'[n].no = n BY <1>1, <2>1 DEF MadeInv
  <2>3. n \in Nos BY <1>1, <2>1, <2>2, KnownNextAre
  <2>4. n \in 1..Len(made)
    <3>1. CASE n > Len(made)
      <4>1. runs[n] = 0 BY <2>3, <3>1 DEF IdInv, NotYetRun
      <4>2. runs'[n] = runs[n] BY <1>5, <1>6, <2>3, <3>1
      <4> QED BY <4>1, <4>2
    <3> QED BY <1>5, <2>1, <3>1
  <2>5. made'[n] = made[n]
    <3>1. made[n] \in Known BY <1>5, <2>4 DEF Known
    <3>2. made[n].no = n BY <1>1, <2>4 DEF MadeInv
    <3>3. made[n] \in Known' BY <1>4, <3>1
    <3> QED BY <1>1, <3>2, <3>3, KnownNextAre
  <2>6. YesToId(id)
    <3>1. CASE runs'[n] = runs[n] BY <1>5, <2>4, <2>5, <3>1 DEF IdInv, ConsentOfItsId, YesToId
    <3>2. CASE runs'[n] # runs[n] BY <1>6, <2>3, <2>5, <3>2 DEF IdInv, YesInv
    <3> QED BY <3>1, <3>2
  <2> QED BY <1>1, <1>3, <1>4, <2>5, <2>6, YesStays
<1> QED BY <1>1, <1>2, <1>3, <1>7, <1>8 DEF IdInv

(* Whatever became of its id, muddled or not: a call of a gated tool runs   *)
(* only if a human said yes to some call of that id (bindApprovals rebinds  *)
(* an answer by id, and to nothing else).                                   *)
THEOREM ConsentIsOfTheId == Spec => []ConsentOfItsId
<1>1. Init => IdInv
  <2> SUFFICES ASSUME Init PROVE IdInv OBVIOUS
  <2>1. /\ history = <<>> /\ input = <<>> /\ calls = {} /\ made = <<>>
        /\ answers = [n \in Nos |-> <<>>] /\ runs = [n \in Nos |-> 0]
    BY DEF Init
  <2>2. RunsInv /\ NotYetRun /\ ConsentOfItsId BY <2>1 DEF RunsInv, NotYetRun, ConsentOfItsId
  <2>3. YesInv
    <3>1. ToSet(history) = {} /\ ToSet(input) = {} BY <2>1 DEF ToSet
    <3>2. <<>> \in Seq(BOOLEAN) OBVIOUS
    <3>3. answers \in [Nos -> Seq(BOOLEAN)] BY <2>1, <3>2
    <3> QED BY <2>1, <3>1, <3>3 DEF YesInv
  <2> QED BY <2>2, <2>3, StartsOut DEF IdInv
<1>2. IdInv /\ [Next]_vars => IdInv' BY IdStays
<1>3. IdInv => ConsentOfItsId BY DEF IdInv
<1> QED BY <1>1, <1>2, <1>3, PTL DEF Spec


===================================================================================
