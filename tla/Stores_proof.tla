------------------------------ MODULE Stores_proof ------------------------------
(***************************************************************************)
(* Proofs about the stores of responses, for any number of turns, ids,     *)
(* owners, sandboxes, writes, attempts, deletes and crashes.               *)
(*                                                                         *)
(* Of the store of a hosted agent, by the inductive invariant IInv: a      *)
(* write that has come to be mirrored was held by the service, or is alike *)
(* to one that was, and so is every record in a mirror; a log is never     *)
(* left without a record.                                                  *)
(*                                                                         *)
(* Of the store in memory, by the inductive invariant StoreInv: no id is   *)
(* stored twice, the logs are those of the responses, the reverse index is *)
(* the aliases turned round, and an alias leads to a response that its     *)
(* turn has written.                                                       *)
(*                                                                         *)
(* Of the store in files, by the inductive invariant FilesInv: a call that *)
(* has begun is at the head of its chain and what it has read still stands.*)
(***************************************************************************)
EXTENDS FoundryStore, MemoryStore, FileStore, SequenceLemmas

-----------------------------------------------------------------------------
Accounted(w) == w \in held \/ \E v \in held : Alike(w, v)
Steps == {"creating", "updating", "checking", "mirroring"}

TypeInv ==
  /\ service \in Writes \cup {NoWrite} /\ held \subseteq Writes
  /\ mirror \in [Boxes -> Writes \cup {NoWrite}] /\ log \in [Boxes -> Nat]
  /\ box \in [Boxes -> [pc : Steps \cup {"idle", "deleting", "dropping", "dropped"},
                        tries : Nat, ambiguous : BOOLEAN]]
  /\ next \in [Boxes -> Nat] /\ \A b \in Boxes : next[b] <= Len(Work[b])
  /\ reader \in [pc : {"none", "got", "fenced", "replayed"}, box : Boxes,
                 response : Writes \cup {NoWrite}, generation : Nat]

(* The service holds what it was given; a sandbox has begun a write before *)
(* it works on one, and mirrors one that is accounted for.                 *)
WriteInv ==
  /\ service # NoWrite => service \in held
  /\ \A b \in Boxes : box[b].pc \in Steps => next[b] # 0
  /\ \A b \in Boxes : box[b].pc = "mirroring" => Accounted(WriteOf(b))
  /\ \A w \in accepted : Accounted(w)

MirrorInv ==
  /\ \A b \in Boxes : mirror[b] # NoWrite => Accounted(mirror[b])
  /\ \A b \in Boxes : log[b] # 0 => mirror[b] # NoWrite
  /\ \A b \in Boxes : box[b].pc = "dropped" => log[b] = 0

OfTheTurn(generation, response) ==
  \/ generation = response.turn
  \/ \E b \in Boxes : \E i \in DOMAIN Work[b] :
       Work[b][i].turn = generation /\ Alike(Work[b][i], response)
ReaderInv ==
  /\ reader.pc # "none" => reader.response \in Writes
  /\ reader.pc \in {"fenced", "replayed"} => OfTheTurn(reader.generation, reader.response)

IInv == TypeInv /\ WriteInv /\ MirrorInv /\ ReaderInv

-----------------------------------------------------------------------------
(* The writes of a well-written work are outcomes.                         *)
LEMMA WritesAreOutcomes == ASSUME WellWritten PROVE Writes \subseteq Outcome
<1> SUFFICES ASSUME NEW w \in Writes PROVE w \in Outcome OBVIOUS
<1>1. PICK b \in Boxes : \E i \in DOMAIN Work[b] : w = Work[b][i] BY DEF Writes
<1>2. Work[b] \in Seq(Outcome) BY DEF WellWritten
<1> QED BY <1>1, <1>2

(* The write a sandbox works on is one of its work.                        *)
LEMMA WriteIsWritten ==
  ASSUME WellWritten, TypeInv, NEW b \in Boxes, next[b] # 0
  PROVE  WriteOf(b) \in Writes
<1>1. Work[b] \in Seq(Outcome) BY DEF WellWritten
<1>2. next[b] \in 1 .. Len(Work[b]) BY <1>1 DEF TypeInv
<1>3. Work[b][next[b]] \in Outcome BY <1>1, <1>2
<1> QED BY <1>2, <1>3 DEF Writes, WriteOf

(* No write is the absence of one.                                         *)
LEMMA NoWriteIsNone == ASSUME WellWritten PROVE NoWrite \notin Writes
BY WritesAreOutcomes DEF WellWritten

(* The invariant holds before the first write.                             *)
LEMMA InitInv == WellWritten /\ Init => IInv
<1> SUFFICES ASSUME WellWritten, Init PROVE IInv OBVIOUS
<1>1. TypeInv
  <2>1. ASSUME NEW b \in Boxes PROVE 0 <= Len(Work[b])
    <3>1. Work[b] \in Seq(Outcome) BY DEF WellWritten
    <3> QED BY <3>1
  <2> QED BY <2>1 DEF TypeInv, Init, Idle, NoReader, WellWritten
<1>2. WriteInv BY DEF WriteInv, Init, Idle, Steps
<1>3. MirrorInv BY DEF MirrorInv, Init, Idle
<1>4. ReaderInv BY DEF ReaderInv, Init, NoReader
<1> QED BY <1>1, <1>2, <1>3, <1>4 DEF IInv

(* The service holds what it has held, and nothing but writes.             *)
LEMMA Held ==
  ASSUME WellWritten, IInv, NEW b \in Boxes, next[b] # 0,
         (UNCHANGED <<service, held>>) \/ Holds(WriteOf(b))
  PROVE  /\ held \subseteq held' /\ held' \subseteq Writes
         /\ service' \in Writes \cup {NoWrite}
         /\ service' # NoWrite => service' \in held'
<1>1. WriteOf(b) \in Writes BY WriteIsWritten DEF IInv
<1> QED BY <1>1 DEF IInv, TypeInv, WriteInv, Holds

(* A sandbox that goes on with its write, or gives it up.                  *)
LEMMA Working ==
  ASSUME WellWritten, IInv, NEW b \in Boxes, box[b].pc \in Steps,
         (UNCHANGED <<service, held>>) \/ Holds(WriteOf(b)),
         NEW now \in [pc : Steps \cup {"idle"}, tries : Nat, ambiguous : BOOLEAN],
         box' = [box EXCEPT ![b] = now],
         now.pc = "mirroring" => WriteOf(b) \in held' \/ Accounted(WriteOf(b)),
         UNCHANGED <<mirror, log, next, accepted, reader>>
  PROVE  IInv'
<1> USE DEF IInv
<1>1. next[b] # 0 BY DEF WriteInv
<1>2. /\ held \subseteq held' /\ held' \subseteq Writes
      /\ service' \in Writes \cup {NoWrite}
      /\ service' # NoWrite => service' \in held'
  BY <1>1, Held
<1>3. TypeInv' BY <1>2 DEF TypeInv
<1>4. WriteInv'
  <2>1. \A c \in Boxes : box'[c].pc \in Steps => next'[c] # 0
    BY <1>1 DEF WriteInv, TypeInv
  <2>2. ASSUME NEW c \in Boxes, box'[c].pc = "mirroring" PROVE Accounted(WriteOf(c))'
    <3>1. WriteOf(c)' = WriteOf(c) BY DEF WriteOf
    <3>2. CASE c = b
      <4>1. box'[c] = now BY <3>2 DEF TypeInv
      <4>2. WriteOf(b) \in held' \/ Accounted(WriteOf(b)) BY <4>1, <2>2
      <4> QED BY <4>2, <3>1, <3>2, <1>2 DEF Accounted
    <3>3. CASE c # b
      <4>1. box'[c] = box[c] BY <3>3 DEF TypeInv
      <4>2. Accounted(WriteOf(c)) BY <4>1, <2>2 DEF WriteInv
      <4> QED BY <4>2, <3>1, <1>2 DEF Accounted
    <3> QED BY <3>2, <3>3
  <2>3. ASSUME NEW w \in accepted' PROVE Accounted(w)'
    <3>1. Accounted(w) BY DEF WriteInv
    <3> QED BY <3>1, <1>2 DEF Accounted
  <2> QED BY <1>2, <2>1, <2>2, <2>3 DEF WriteInv
<1>5. MirrorInv'
  <2>1. ASSUME NEW c \in Boxes, mirror'[c] # NoWrite PROVE Accounted(mirror[c])'
    <3>1. Accounted(mirror[c]) BY <2>1 DEF MirrorInv
    <3> QED BY <3>1, <1>2 DEF Accounted
  <2>2. \A c \in Boxes : box'[c].pc = "dropped" => box[c].pc = "dropped"
    BY DEF TypeInv, Steps
  <2> QED BY <2>1, <2>2 DEF MirrorInv
<1>6. ReaderInv' BY DEF ReaderInv, OfTheTurn
<1> QED BY <1>3, <1>4, <1>5, <1>6

Box == [pc : Steps \cup {"idle"}, tries : Nat, ambiguous : BOOLEAN]

(* How a sandbox moves on.                                                 *)
LEMMA Moves ==
  ASSUME TypeInv, NEW b \in Boxes, box[b].pc \in Steps, NEW pc \in Steps,
         \/ (\E sent \in BOOLEAN : Again(b, sent) /\ pc = box[b].pc)
         \/ box' = [box EXCEPT ![b].tries = @ + 1] /\ pc = box[b].pc
         \/ Goto(b, pc) \/ Rest(b)
  PROVE  \E now \in Box : box' = [box EXCEPT ![b] = now] /\ now.pc \in {pc, "idle"}
<1>1. box[b] \in [pc : Steps \cup {"idle", "deleting", "dropping", "dropped"},
                  tries : Nat, ambiguous : BOOLEAN] BY DEF TypeInv
<1>2. box[b] \in Box BY <1>1 DEF Box
<1>3. CASE \E sent \in BOOLEAN : Again(b, sent) /\ pc = box[b].pc
  <2>1. PICK sent \in BOOLEAN : Again(b, sent) /\ pc = box[b].pc BY <1>3
  <2>2. PICK known \in BOOLEAN : known = (box[b].ambiguous \/ sent) OBVIOUS
  <2>3. box' = [box EXCEPT ![b].tries = @ + 1, ![b].ambiguous = known]
    BY <2>1, <2>2 DEF Again
  <2>4. box' = [box EXCEPT ![b] = [box[b] EXCEPT !.tries = @ + 1, !.ambiguous = known]]
    BY <2>3, <1>2 DEF TypeInv, Box
  <2>5. [box[b] EXCEPT !.tries = @ + 1, !.ambiguous = known] \in Box
    <3>1. [box[b] EXCEPT !.tries = @ + 1] \in Box BY <1>2 DEF Box
    <3>2. [[box[b] EXCEPT !.tries = @ + 1] EXCEPT !.ambiguous = known] \in Box
      BY <3>1, Zenon DEF Box
    <3> QED BY <3>2
  <2>6. [box[b] EXCEPT !.tries = @ + 1, !.ambiguous = known].pc = pc BY <1>2, <2>1 DEF Box
  <2> QED BY <2>4, <2>5, <2>6
<1>4. CASE box' = [box EXCEPT ![b].tries = @ + 1] /\ pc = box[b].pc
  <2>1. [box[b] EXCEPT !.tries = @ + 1] \in Box BY <1>2 DEF Box
  <2>2. box' = [box EXCEPT ![b] = [box[b] EXCEPT !.tries = @ + 1]] BY <1>4, <1>2 DEF TypeInv, Box
  <2>3. [box[b] EXCEPT !.tries = @ + 1].pc = pc BY <1>2, <1>4 DEF Box
  <2> QED BY <2>1, <2>2, <2>3
<1>5. CASE Goto(b, pc)
  <2>1. [box[b] EXCEPT !.pc = pc, !.tries = 0] \in Box BY <1>2 DEF Box
  <2>2. box' = [box EXCEPT ![b] = [box[b] EXCEPT !.pc = pc, !.tries = 0]]
    BY <1>5, <1>2 DEF Goto, TypeInv, Box
  <2>3. [box[b] EXCEPT !.pc = pc, !.tries = 0].pc = pc BY <1>2 DEF Box
  <2> QED BY <2>1, <2>2, <2>3
<1>6. CASE Rest(b)
  <2>1. Idle \in Box /\ Idle.pc = "idle" BY DEF Idle, Box
  <2>2. box' = [box EXCEPT ![b] = Idle] BY <1>6 DEF Rest
  <2> QED BY <2>1, <2>2
<1> QED BY <1>3, <1>4, <1>5, <1>6

(* Every way on from a request to the service.                             *)
LEMMA GoesOn ==
  ASSUME WellWritten, IInv, NEW b \in Boxes, box[b].pc \in Steps, NEW pc \in Steps,
         \/ (\E sent \in BOOLEAN : Again(b, sent) /\ pc = box[b].pc)
         \/ box' = [box EXCEPT ![b].tries = @ + 1] /\ pc = box[b].pc
         \/ Goto(b, pc) \/ Rest(b),
         (UNCHANGED <<service, held>>) \/ Holds(WriteOf(b)),
         pc = "mirroring" => WriteOf(b) \in held' \/ Accounted(WriteOf(b)),
         UNCHANGED <<mirror, log, next, accepted, reader>>
  PROVE  IInv'
<1>1. PICK now \in Box : box' = [box EXCEPT ![b] = now] /\ now.pc \in {pc, "idle"}
  BY Moves DEF IInv
<1> QED BY <1>1, Working DEF Box

(* A create that was answered, lost, rejected or repeated.                 *)
LEMMA CreateInv ==
  ASSUME WellWritten, IInv, NEW b \in Boxes, Create(b) PROVE IInv'
<1>1. box[b].pc \in Steps /\ box[b].pc = "creating" BY DEF Create, Steps
<1>2. UNCHANGED <<mirror, log, next, accepted, reader>> BY DEF Create
<1>3. (UNCHANGED <<service, held>>) \/ Holds(WriteOf(b)) BY DEF Create
<1>4. CASE \E sent \in BOOLEAN : Again(b, sent)
  BY <1>1, <1>2, <1>3, <1>4, GoesOn
<1>5. CASE Rest(b) BY <1>1, <1>2, <1>3, <1>5, GoesOn
<1>6. CASE Holds(WriteOf(b)) /\ Goto(b, "mirroring")
  <2>1. WriteOf(b) \in held' BY <1>6 DEF Holds
  <2> QED BY <1>1, <1>2, <1>6, <2>1, GoesOn DEF Steps
<1>7. CASE Goto(b, "updating") BY <1>1, <1>2, <1>3, <1>7, GoesOn DEF Steps
<1> QED BY <1>4, <1>5, <1>6, <1>7 DEF Create

(* An update, after a create that met a response under its id.             *)
LEMMA UpdateInv ==
  ASSUME WellWritten, IInv, NEW b \in Boxes, Update(b) PROVE IInv'
<1>1. box[b].pc \in Steps /\ box[b].pc = "updating" BY DEF Update, Steps
<1>2. UNCHANGED <<mirror, log, next, accepted, reader>> BY DEF Update
<1>3. (UNCHANGED <<service, held>>) \/ Holds(WriteOf(b)) BY DEF Update
<1>4. CASE box' = [box EXCEPT ![b].tries = @ + 1] BY <1>1, <1>2, <1>3, <1>4, GoesOn
<1>5. CASE Rest(b) BY <1>1, <1>2, <1>3, <1>5, GoesOn
<1>6. CASE Holds(WriteOf(b)) /\ Goto(b, "mirroring")
  <2>1. WriteOf(b) \in held' BY <1>6 DEF Holds
  <2> QED BY <1>1, <1>2, <1>6, <2>1, GoesOn DEF Steps
<1>7. CASE Goto(b, "checking") BY <1>1, <1>2, <1>3, <1>7, GoesOn DEF Steps
<1> QED BY <1>4, <1>5, <1>6, <1>7 DEF Update, Refused

(* What the service holds and what is compared with it are one write, or   *)
(* two that are alike.                                                     *)
LEMMA SameIsAlike ==
  ASSUME WellWritten, NEW v \in Writes, NEW w \in Writes,
         v.created = w.created, v.status = w.status, v.item = w.item
  PROVE  v = w \/ Alike(w, v)
BY DEF WellWritten, Alike

(* What is taken for the write itself is the write, or is alike to it.     *)
LEMMA CheckInv ==
  ASSUME WellWritten, IInv, NEW b \in Boxes, Check(b) PROVE IInv'
<1>1. box[b].pc \in Steps /\ box[b].pc = "checking" BY DEF Check, Steps
<1>2. UNCHANGED <<service, held, mirror, log, next, accepted, reader>> BY DEF Check
<1>3. CASE Rest(b) BY <1>1, <1>2, <1>3, GoesOn
<1>4. CASE AlreadyApplied(WriteOf(b)) /\ Goto(b, "mirroring")
  <2>1. WriteOf(b) \in Writes BY <1>1, WriteIsWritten DEF IInv, WriteInv
  <2>2. service \in Writes /\ service \in held BY <1>4 DEF AlreadyApplied, IInv, TypeInv, WriteInv
  <2>3. service = WriteOf(b) \/ Alike(WriteOf(b), service)
    BY <1>4, <2>1, <2>2, SameIsAlike DEF AlreadyApplied
  <2>4. Accounted(WriteOf(b)) BY <2>2, <2>3 DEF Accounted
  <2> QED BY <1>1, <1>2, <1>4, <2>4, GoesOn DEF Steps
<1> QED BY <1>3, <1>4 DEF Check

-----------------------------------------------------------------------------
(* What a sandbox does beside its writes: it may take its record and log   *)
(* away, or put a write into its mirror that is accounted for.             *)
Whole == [pc : Steps \cup {"idle", "deleting", "dropping", "dropped"}, tries : Nat, ambiguous : BOOLEAN]
Around ==
  /\ service' \in {service, NoWrite} /\ held' = held /\ next' = next
  /\ \A w \in accepted' : w \in accepted \/ Accounted(w)
  /\ reader' \in {reader, NoReader}
Files(b, now, record, turn) ==
  /\ now \in Whole /\ now.pc \notin Steps /\ box' = [box EXCEPT ![b] = now]
  /\ record \in Writes \cup {NoWrite} /\ (record # NoWrite => Accounted(record))
  /\ mirror' = [mirror EXCEPT ![b] = record]
  /\ turn \in Nat /\ (turn # 0 => record # NoWrite) /\ (now.pc = "dropped" => turn = 0)
  /\ log' = [log EXCEPT ![b] = turn]

(* Such a step keeps the invariant.                                        *)
LEMMA Aside ==
  ASSUME WellWritten, IInv, NEW b \in Boxes, Around,
         NEW now, NEW record, NEW turn, Files(b, now, record, turn)
  PROVE  IInv'
<1> USE DEF IInv, Around, Files
<1>1. NoReader \in [pc : {"none", "got", "fenced", "replayed"}, box : Boxes,
                    response : Writes \cup {NoWrite}, generation : Nat]
  BY DEF NoReader, WellWritten
<1>2. TypeInv'
  <2>1. mirror' \in [Boxes -> Writes \cup {NoWrite}] /\ log' \in [Boxes -> Nat] BY DEF TypeInv
  <2>2. box' \in [Boxes -> Whole] BY DEF TypeInv, Whole
  <2>3. service' \in Writes \cup {NoWrite} /\ held' \subseteq Writes BY DEF TypeInv
  <2>4. next' \in [Boxes -> Nat] /\ \A c \in Boxes : next'[c] <= Len(Work[c]) BY DEF TypeInv
  <2>5. reader' \in [pc : {"none", "got", "fenced", "replayed"}, box : Boxes,
                     response : Writes \cup {NoWrite}, generation : Nat]
    BY <1>1 DEF TypeInv
  <2> QED BY <2>1, <2>2, <2>3, <2>4, <2>5 DEF TypeInv, Whole
<1>3. WriteInv'
  <2>1. \A c \in Boxes : box'[c].pc \in Steps => c # b /\ box'[c] = box[c] BY DEF TypeInv
  <2>2. \A c \in Boxes : WriteOf(c)' = WriteOf(c) BY DEF WriteOf
  <2>3. service' # NoWrite => service' \in held' BY DEF WriteInv
  <2>4. \A c \in Boxes : box'[c].pc \in Steps => next'[c] # 0 BY <2>1 DEF WriteInv
  <2>5. ASSUME NEW c \in Boxes, box'[c].pc = "mirroring" PROVE Accounted(WriteOf(c))'
    <3>1. Accounted(WriteOf(c)) BY <2>1, <2>5 DEF WriteInv, Steps
    <3> QED BY <3>1, <2>2 DEF Accounted
  <2>6. ASSUME NEW w \in accepted' PROVE Accounted(w)'
    <3>1. Accounted(w) BY DEF WriteInv
    <3> QED BY <3>1 DEF Accounted
  <2> QED BY <2>3, <2>4, <2>5, <2>6 DEF WriteInv
<1>4. MirrorInv'
  <2>1. ASSUME NEW c \in Boxes, mirror'[c] # NoWrite PROVE Accounted(mirror[c])'
    <3>1. Accounted(mirror'[c])
      <4>1. CASE c = b BY <4>1, <2>1 DEF TypeInv
      <4>2. CASE c # b
        <5>1. mirror'[c] = mirror[c] BY <4>2 DEF TypeInv
        <5> QED BY <5>1, <2>1 DEF MirrorInv
      <4> QED BY <4>1, <4>2
    <3> QED BY <3>1 DEF Accounted
  <2>2. \A c \in Boxes : log'[c] # 0 => mirror'[c] # NoWrite BY DEF MirrorInv, TypeInv
  <2>3. ASSUME NEW c \in Boxes, box'[c].pc = "dropped" PROVE log'[c] = 0
    <3>1. CASE c = b BY <3>1, <2>3 DEF TypeInv
    <3>2. CASE c # b
      <4>1. box'[c] = box[c] /\ log'[c] = log[c] BY <3>2 DEF TypeInv
      <4> QED BY <4>1, <2>3 DEF MirrorInv
    <3> QED BY <3>1, <3>2
  <2> QED BY <2>1, <2>2, <2>3 DEF MirrorInv
<1>5. ReaderInv'
  <2>1. CASE reader' = reader BY <2>1 DEF ReaderInv, OfTheTurn
  <2>2. CASE reader' = NoReader BY <2>2 DEF ReaderInv, NoReader
  <2> QED BY <2>1, <2>2
<1> QED BY <1>2, <1>3, <1>4, <1>5

(* Where a sandbox is, and what its files hold.                            *)
LEMMA Whereabouts ==
  ASSUME IInv, NEW b \in Boxes
  PROVE  /\ box[b] \in Whole /\ Idle \in Whole /\ Idle.pc = "idle"
         /\ mirror[b] \in Writes \cup {NoWrite} /\ (mirror[b] # NoWrite => Accounted(mirror[b]))
         /\ log[b] \in Nat /\ (log[b] # 0 => mirror[b] # NoWrite)
         /\ mirror = [mirror EXCEPT ![b] = mirror[b]] /\ log = [log EXCEPT ![b] = log[b]]
         /\ box = [box EXCEPT ![b] = box[b]]
BY DEF IInv, TypeInv, MirrorInv, Whole, Idle

(* A sandbox that leaves its files as they are.                            *)
LEMMA Stays ==
  ASSUME WellWritten, IInv, NEW b \in Boxes, Around, UNCHANGED <<mirror, log>>,
         NEW now \in Whole, now.pc \notin Steps, now.pc # "dropped",
         box' = [box EXCEPT ![b] = now]
  PROVE  IInv'
<1>1. Files(b, now, mirror[b], log[b]) BY Whereabouts DEF Files
<1>2. \E record, turn : Files(b, now, record, turn) BY <1>1
<1> QED BY <1>2, Aside

(* A sandbox that only moves on leaves its files as they are.              *)
LEMMA MovesOn ==
  ASSUME WellWritten, IInv, NEW b \in Boxes, NEW pc \in {"deleting", "dropping"},
         Goto(b, pc) \/ Rest(b), Around, UNCHANGED <<mirror, log>>
  PROVE  IInv'
<1>1. CASE Goto(b, pc)
  <2>1. box[b] \in Whole BY Whereabouts
  <2>2. [box[b] EXCEPT !.pc = pc, !.tries = 0] \in Whole BY <2>1 DEF Whole
  <2>3. box' = [box EXCEPT ![b] = [box[b] EXCEPT !.pc = pc, !.tries = 0]]
    BY <1>1, <2>1 DEF Goto, IInv, TypeInv, Whole
  <2>4. [box[b] EXCEPT !.pc = pc, !.tries = 0].pc = pc BY <2>1 DEF Whole
  <2>5. pc \notin Steps /\ pc # "dropped" BY DEF Steps
  <2> QED BY <2>2, <2>3, <2>4, <2>5, Stays
<1>2. CASE Rest(b)
  <2>1. box' = [box EXCEPT ![b] = Idle] BY <1>2 DEF Rest
  <2>2. Idle.pc \notin Steps /\ Idle.pc # "dropped" BY DEF Idle, Steps
  <2> QED BY <2>1, <2>2, Whereabouts, Stays
<1> QED BY <1>1, <1>2

(* The mirror takes a write that is accounted for, or nothing.             *)
LEMMA MirrorActInv ==
  ASSUME WellWritten, IInv, NEW b \in Boxes, Mirror(b) PROVE IInv'
<1>1. box[b].pc = "mirroring" /\ UNCHANGED <<service, held, log, next, reader>> BY DEF Mirror
<1>2. next[b] # 0 /\ Accounted(WriteOf(b)) BY <1>1 DEF IInv, WriteInv, Steps
<1>3. accepted' = accepted \cup {WriteOf(b)} BY DEF Mirror
<1>4. Around BY <1>1, <1>2, <1>3 DEF Around
<1>5. CASE mirror' = [mirror EXCEPT ![b] = WriteOf(b)] /\ Rest(b)
  <2>1. WriteOf(b) \in Writes /\ WriteOf(b) # NoWrite
    BY <1>2, WriteIsWritten, NoWriteIsNone DEF IInv
  <2>2. Idle.pc \notin Steps /\ Idle.pc # "dropped" BY DEF Idle, Steps
  <2>3. Files(b, Idle, WriteOf(b), log[b])
    BY <1>1, <1>2, <1>5, <2>1, <2>2, Whereabouts DEF Files, Rest
  <2>4. \E now, record, turn : Files(b, now, record, turn) BY <2>3
  <2> QED BY <1>4, <2>4, Aside
<1>6. CASE Goto(b, "dropping") /\ UNCHANGED mirror BY <1>1, <1>4, <1>6, MovesOn
<1> QED BY <1>5, <1>6 DEF Mirror

(* A delete that begins touches nothing yet.                               *)
LEMMA DeleteInv ==
  ASSUME WellWritten, IInv, NEW b \in Boxes, Delete(b) PROVE IInv'
<1>1. Around BY DEF Delete, Around
<1>2. Goto(b, "deleting") /\ UNCHANGED <<mirror, log>> BY DEF Delete
<1> QED BY <1>1, <1>2, MovesOn

(* A delete at the service leaves the files for the next step.             *)
LEMMA DeleteRemoteInv ==
  ASSUME WellWritten, IInv, NEW b \in Boxes, DeleteRemote(b) PROVE IInv'
<1>1. Around BY DEF DeleteRemote, Around
<1>2. box[b].pc = "deleting" /\ UNCHANGED <<mirror, log>> BY DEF DeleteRemote
<1>3. CASE Goto(b, "dropping") BY <1>1, <1>2, <1>3, MovesOn
<1>4. CASE Rest(b) BY <1>1, <1>2, <1>4, MovesOn
<1>5. CASE Again(b, TRUE)
  <2>1. box[b] \in Whole BY Whereabouts
  <2>2. box' = [box EXCEPT ![b].tries = @ + 1, ![b].ambiguous = TRUE] BY <1>5 DEF Again
  <2>3. box' = [box EXCEPT ![b] = [box[b] EXCEPT !.tries = @ + 1, !.ambiguous = TRUE]]
    BY <2>2, <2>1 DEF IInv, TypeInv, Whole
  <2>4. [box[b] EXCEPT !.tries = @ + 1, !.ambiguous = TRUE] \in Whole
    <3>1. [box[b] EXCEPT !.tries = @ + 1] \in Whole BY <2>1 DEF Whole
    <3>2. [[box[b] EXCEPT !.tries = @ + 1] EXCEPT !.ambiguous = TRUE] \in Whole
      BY <3>1, Zenon DEF Whole
    <3> QED BY <3>2
  <2>5. [box[b] EXCEPT !.tries = @ + 1, !.ambiguous = TRUE].pc = "deleting" BY <1>2, <2>1 DEF Whole
  <2>6. "deleting" \notin Steps BY DEF Steps
  <2> QED BY <1>1, <1>2, <2>3, <2>4, <2>5, <2>6, Stays
<1> QED BY <1>3, <1>4, <1>5 DEF DeleteRemote

(* The log goes while its record is still there.                           *)
LEMMA DropLogInv ==
  ASSUME WellWritten, IInv, NEW b \in Boxes, DropLog(b) PROVE IInv'
<1>1. Around BY DEF DropLog, Around
<1>2. UNCHANGED mirror BY DEF DropLog
<1>3. CASE log' = [log EXCEPT ![b] = 0] /\ Goto(b, "dropped")
  <2>1. box[b] \in Whole BY Whereabouts
  <2>2. box' = [box EXCEPT ![b] = [box[b] EXCEPT !.pc = "dropped", !.tries = 0]]
    BY <1>3, <2>1 DEF Goto, IInv, TypeInv, Whole
  <2>3. [box[b] EXCEPT !.pc = "dropped", !.tries = 0] \in Whole BY <2>1 DEF Whole
  <2>4. [box[b] EXCEPT !.pc = "dropped", !.tries = 0].pc \notin Steps BY <2>1 DEF Whole, Steps
  <2>5. Files(b, [box[b] EXCEPT !.pc = "dropped", !.tries = 0], mirror[b], 0)
    BY <1>2, <1>3, <2>2, <2>3, <2>4, Whereabouts DEF Files
  <2>6. \E now, record, turn : Files(b, now, record, turn) BY <2>5
  <2> QED BY <1>1, <2>6, Aside
<1>4. CASE Rest(b) /\ UNCHANGED log BY <1>1, <1>2, <1>4, MovesOn
<1> QED BY <1>3, <1>4 DEF DropLog

(* The record goes only once its log is gone.                              *)
LEMMA DropRecordInv ==
  ASSUME WellWritten, IInv, NEW b \in Boxes, DropRecord(b) PROVE IInv'
<1>1. Around BY DEF DropRecord, Around
<1>2. log[b] = 0 /\ UNCHANGED log BY DEF DropRecord, IInv, MirrorInv
<1>3. CASE mirror' = mirror
  <2>1. Rest(b) BY DEF DropRecord
  <2> QED BY <1>1, <1>2, <1>3, <2>1, MovesOn
<1>4. CASE mirror' = [mirror EXCEPT ![b] = NoWrite]
  <2>1. Idle.pc \notin Steps /\ Idle.pc # "dropped" BY DEF Idle, Steps
  <2>2. box' = [box EXCEPT ![b] = Idle] BY DEF DropRecord, Rest
  <2>3. Files(b, Idle, NoWrite, log[b]) BY <1>2, <1>4, <2>1, <2>2, Whereabouts DEF Files
  <2>4. \E now, record, turn : Files(b, now, record, turn) BY <2>3
  <2> QED BY <1>1, <2>4, Aside
<1> QED BY <1>3, <1>4 DEF DropRecord

(* A log is written beside the record of its turn only.                    *)
LEMMA PutEventsInv ==
  ASSUME WellWritten, IInv, NEW b \in Boxes, PutEvents(b) PROVE IInv'
<1>1. Around BY DEF PutEvents, Around
<1>2. box[b].pc = "idle" /\ UNCHANGED <<mirror, box>> BY DEF PutEvents
<1>3. PICK i \in 1 .. next[b] : /\ mirror[b] # NoWrite /\ mirror[b].turn = Work[b][i].turn
                                /\ log' = [log EXCEPT ![b] = Work[b][i].turn]
  BY DEF PutEvents
<1>4. mirror[b] \in Outcome BY <1>3, Whereabouts, WritesAreOutcomes
<1>5. Work[b][i].turn \in Nat BY <1>3, <1>4 DEF Outcome
<1>6. Files(b, box[b], mirror[b], Work[b][i].turn)
  BY <1>2, <1>3, <1>5, Whereabouts DEF Files, Steps
<1>7. \E now, record, turn : Files(b, now, record, turn) BY <1>6
<1> QED BY <1>1, <1>7, Aside

(* A sandbox that dies keeps its files whole, or loses all of them.        *)
LEMMA CrashInv ==
  ASSUME WellWritten, IInv, NEW b \in Boxes, Crash(b) PROVE IInv'
<1>1. Around BY DEF Crash, Around
<1>2. Rest(b) BY DEF Crash
<1>3. CASE UNCHANGED <<mirror, log>> BY <1>1, <1>2, <1>3, MovesOn
<1>4. CASE mirror' = [mirror EXCEPT ![b] = NoWrite] /\ log' = [log EXCEPT ![b] = 0]
  <2>1. Idle.pc \notin Steps /\ Idle.pc # "dropped" BY DEF Idle, Steps
  <2>2. Files(b, Idle, NoWrite, 0) BY <1>2, <1>4, <2>1, Whereabouts DEF Files, Rest
  <2>3. \E now, record, turn : Files(b, now, record, turn) BY <2>2
  <2> QED BY <1>1, <2>3, Aside
<1> QED BY <1>3, <1>4 DEF Crash

(* A write that is begun is the next one of its sandbox.                   *)
LEMMA PutInv ==
  ASSUME WellWritten, IInv, NEW b \in Boxes, Put(b) PROVE IInv'
<1> USE DEF IInv
<1>1. UNCHANGED <<service, held, mirror, log, accepted, reader>> BY DEF Put
<1>2. next' = [next EXCEPT ![b] = @ + 1] /\ next[b] < Len(Work[b]) BY DEF Put
<1>3. box[b] \in Whole BY Whereabouts
<1>4. box' = [box EXCEPT ![b] = [box[b] EXCEPT !.pc = "creating", !.tries = 0]]
  BY <1>3 DEF Put, Goto, TypeInv, Whole
<1>5. [box[b] EXCEPT !.pc = "creating", !.tries = 0] \in Whole BY <1>3 DEF Whole, Steps
<1>6. box'[b].pc = "creating" BY <1>3, <1>4 DEF Whole, TypeInv
<1>7. \A c \in Boxes : c # b => box'[c] = box[c] /\ next'[c] = next[c] BY <1>2, <1>4 DEF TypeInv
<1>8. TypeInv'
  <2>1. box' \in [Boxes -> Whole] BY <1>4, <1>5 DEF TypeInv, Whole
  <2>2. next' \in [Boxes -> Nat] BY <1>2 DEF TypeInv
  <2>3. ASSUME NEW c \in Boxes PROVE next'[c] <= Len(Work[c])
    <3>1. Work[c] \in Seq(Outcome) BY DEF WellWritten
    <3>2. Len(Work[c]) \in Nat BY <3>1
    <3>3. next[c] \in Nat /\ next[c] <= Len(Work[c]) BY DEF TypeInv
    <3>4. CASE c = b
      <4>1. next'[c] = next[c] + 1 BY <1>2, <3>4 DEF TypeInv
      <4> QED BY <4>1, <3>2, <3>3, <3>4, <1>2
    <3>5. CASE c # b BY <3>3, <3>5, <1>7
    <3> QED BY <3>4, <3>5
  <2> QED BY <1>1, <2>1, <2>2, <2>3 DEF TypeInv, Whole
<1>9. WriteInv'
  <2>1. \A c \in Boxes : box'[c].pc \in Steps => next'[c] # 0
    BY <1>2, <1>7 DEF WriteInv, TypeInv
  <2>2. ASSUME NEW c \in Boxes, box'[c].pc = "mirroring" PROVE Accounted(WriteOf(c))'
    <3>1. c # b BY <1>6, <2>2
    <3>2. Accounted(WriteOf(c)) BY <3>1, <1>7, <2>2 DEF WriteInv
    <3>3. WriteOf(c)' = WriteOf(c) BY <3>1, <1>7 DEF WriteOf
    <3> QED BY <3>2, <3>3, <1>1 DEF Accounted
  <2>3. ASSUME NEW w \in accepted' PROVE Accounted(w)'
    <3>1. Accounted(w) BY <1>1 DEF WriteInv
    <3> QED BY <3>1, <1>1 DEF Accounted
  <2> QED BY <1>1, <2>1, <2>2, <2>3 DEF WriteInv
<1>10. MirrorInv'
  <2>1. ASSUME NEW c \in Boxes, mirror'[c] # NoWrite PROVE Accounted(mirror[c])'
    <3>1. Accounted(mirror[c]) BY <1>1, <2>1 DEF MirrorInv
    <3> QED BY <3>1, <1>1 DEF Accounted
  <2>2. \A c \in Boxes : box'[c].pc = "dropped" => box[c].pc = "dropped" BY <1>6, <1>7
  <2> QED BY <1>1, <2>1, <2>2 DEF MirrorInv
<1>11. ReaderInv' BY <1>1 DEF ReaderInv, OfTheTurn
<1> QED BY <1>8, <1>9, <1>10, <1>11

-----------------------------------------------------------------------------
(* The steps of a reader.                                                  *)
Readers == [pc : {"none", "got", "fenced", "replayed"}, box : Boxes,
            response : Writes \cup {NoWrite}, generation : Nat]
(* A reader changes nothing but its own state.                             *)
LEMMA ReaderMoves ==
  ASSUME WellWritten, IInv, UNCHANGED <<service, held, mirror, log, box, next, accepted>>,
         reader' \in Readers, ReaderInv'
  PROVE  IInv'
<1> USE DEF IInv
<1>1. TypeInv' BY DEF TypeInv, Readers
<1>2. \A b \in Boxes : WriteOf(b)' = WriteOf(b) BY DEF WriteOf
<1>3. WriteInv'
  <2>1. ASSUME NEW b \in Boxes, box'[b].pc = "mirroring" PROVE Accounted(WriteOf(b))'
    <3>1. Accounted(WriteOf(b)) BY <2>1 DEF WriteInv
    <3> QED BY <3>1, <1>2 DEF Accounted
  <2> QED BY <2>1 DEF WriteInv, Accounted
<1>4. MirrorInv' BY DEF MirrorInv, Accounted
<1> QED BY <1>1, <1>3, <1>4

(* A GET begins with what the service holds.                               *)
LEMMA GetInv ==
  ASSUME WellWritten, IInv, NEW b \in Boxes, Get(b) PROVE IInv'
<1>1. service \in Writes BY DEF Get, IInv, TypeInv
<1>2. reader' = [NoReader EXCEPT !.pc = "got", !.box = b, !.response = service] BY DEF Get
<1>3. reader' \in Readers BY <1>1, <1>2 DEF Readers, NoReader
<1>4. ReaderInv' BY <1>1, <1>2 DEF ReaderInv, NoReader
<1>5. UNCHANGED <<service, held, mirror, log, box, next, accepted>> BY DEF Get
<1> QED BY <1>3, <1>4, <1>5, ReaderMoves

(* Whoever reads no more.                                                  *)
LEMMA GivesUp ==
  ASSUME WellWritten, IInv, UNCHANGED <<service, held, mirror, log, box, next, accepted>>,
         reader' = NoReader
  PROVE  IInv'
<1>1. reader' \in Readers BY DEF Readers, NoReader, WellWritten
<1>2. ReaderInv' BY DEF ReaderInv, NoReader
<1> QED BY <1>1, <1>2, ReaderMoves

(* A record that agrees with the response in when it was created, how it   *)
(* ended and its first item is that of its turn, or of one that cannot be  *)
(* told from it.                                                           *)
LEMMA GetMirrorInv == ASSUME WellWritten, IInv, GetMirror PROVE IInv'
<1>1. UNCHANGED <<service, held, mirror, log, box, next, accepted>> BY DEF GetMirror
<1>2. reader \in Readers /\ reader.pc = "got" BY DEF GetMirror, IInv, TypeInv, Readers
<1>3. CASE reader' = NoReader BY <1>1, <1>3, GivesUp
<1>4. CASE /\ mirror[reader.box] # NoWrite /\ SameTurn(mirror[reader.box], reader.response)
           /\ reader' = [reader EXCEPT !.pc = "fenced", !.generation = mirror[reader.box].turn]
  <2>1. PICK local : local = mirror[reader.box] OBVIOUS
  <2>2. local \in Writes BY <1>2, <1>4, <2>1 DEF IInv, TypeInv, Readers
  <2>3. reader.response \in Writes BY <1>2 DEF IInv, ReaderInv
  <2>4. reader.response = local \/ Alike(local, reader.response)
    BY <1>4, <2>1, <2>2, <2>3, SameIsAlike DEF SameTurn
  <2>5. PICK b \in Boxes : \E i \in DOMAIN Work[b] : local = Work[b][i] BY <2>2 DEF Writes
  <2>6. PICK i \in DOMAIN Work[b] : local = Work[b][i] BY <2>5
  <2>7. OfTheTurn(local.turn, reader.response) BY <2>4, <2>6 DEF OfTheTurn
  <2>8. local.turn \in Nat BY <2>2, WritesAreOutcomes DEF Outcome
  <2>9. reader' \in Readers /\ reader'.pc = "fenced" /\ reader'.response = reader.response
        /\ reader'.generation = local.turn
    BY <1>2, <1>4, <2>1, <2>8 DEF Readers
  <2>10. ReaderInv' BY <2>3, <2>7, <2>9 DEF ReaderInv, OfTheTurn
  <2> QED BY <1>1, <2>9, <2>10, ReaderMoves
<1> QED BY <1>3, <1>4 DEF GetMirror

(* The log is read under the generation of the record.                     *)
LEMMA GetEventsInv == ASSUME WellWritten, IInv, GetEvents PROVE IInv'
<1>1. UNCHANGED <<service, held, mirror, log, box, next, accepted>> BY DEF GetEvents
<1>2. reader \in Readers /\ reader.pc = "fenced" BY DEF GetEvents, IInv, TypeInv, Readers
<1>3. CASE reader' = NoReader BY <1>1, <1>3, GivesUp
<1>4. CASE reader' = [reader EXCEPT !.pc = "replayed"]
  <2>1. reader' \in Readers /\ reader'.response = reader.response
        /\ reader'.generation = reader.generation
    BY <1>2, <1>4 DEF Readers
  <2>2. reader.response \in Writes /\ OfTheTurn(reader.generation, reader.response)
    BY <1>2 DEF IInv, ReaderInv
  <2>3. ReaderInv' BY <2>1, <2>2 DEF ReaderInv, OfTheTurn
  <2> QED BY <1>1, <2>1, <2>3, ReaderMoves
<1> QED BY <1>3, <1>4 DEF GetEvents

(* Every step keeps the invariant.                                         *)
LEMMA NextInv == ASSUME WellWritten, IInv, [Next]_vars PROVE IInv'
<1>1. ASSUME NEW b \in Boxes,
             \/ Put(b) \/ Create(b) \/ Update(b) \/ Check(b) \/ Mirror(b) \/ Delete(b) \/ DeleteRemote(b)
             \/ DropLog(b) \/ DropRecord(b) \/ PutEvents(b) \/ Get(b) \/ Crash(b)
      PROVE  IInv'
  BY <1>1, PutInv, CreateInv, UpdateInv, CheckInv, MirrorActInv, DeleteInv, DeleteRemoteInv,
     DropLogInv, DropRecordInv, PutEventsInv, GetInv, CrashInv
<1>2. CASE GetMirror BY <1>2, GetMirrorInv
<1>3. CASE GetEvents BY <1>3, GetEventsInv
<1>4. CASE Close BY <1>4, GivesUp DEF Close
<1>5. CASE UNCHANGED vars
  <2>1. UNCHANGED <<service, held, mirror, log, box, next, accepted, reader>> BY <1>5 DEF vars
  <2>2. reader' \in Readers BY <2>1 DEF IInv, TypeInv, Readers
  <2>3. ReaderInv' BY <2>1 DEF IInv, ReaderInv, OfTheTurn
  <2> QED BY <2>1, <2>2, <2>3, ReaderMoves
<1> QED BY <1>1, <1>2, <1>3, <1>4, <1>5 DEF Next, Done

-----------------------------------------------------------------------------
(* The service has held every write that was reported as stored, and the   *)
(* files of a sandbox are in step with one another.                        *)
THEOREM Invariance == Spec => []IInv
<1>1. Init => IInv BY InitInv, WorkAssumption
<1>2. IInv /\ [Next]_vars => IInv' BY NextInv, WorkAssumption
<1> QED BY <1>1, <1>2, PTL DEF Spec

(* put: a write that was reported as stored has been held by the service,  *)
(* or one like it, whichever answers were lost.                            *)
THEOREM AcceptedWritesAreHeld == Spec => []AcceptedIsHeld
<1>1. IInv => AcceptedIsHeld BY DEF IInv, WriteInv, Accounted, AcceptedIsHeld
<1> QED BY <1>1, Invariance, PTL

(* get and getEvents: a replay is of the turn that the service answered    *)
(* with; no log outlives its record, and no record tells of a write that   *)
(* the service never held.                                                 *)
THEOREM ReplaysAreOfTheTurn == Spec => []ReplayIsOfTheTurn
<1>1. IInv => ReplayIsOfTheTurn
  <2> SUFFICES ASSUME IInv PROVE ReplayIsOfTheTurn OBVIOUS
  <2>1. reader.pc = "replayed" => OfTheTurn(reader.generation, reader.response)
    BY DEF IInv, ReaderInv
  <2>2. ASSUME NEW b \in Boxes, mirror[b] # NoWrite
        PROVE  \E v \in held : v = mirror[b] \/ Alike(v, mirror[b])
    <3>1. Accounted(mirror[b]) BY <2>2 DEF IInv, MirrorInv
    <3> QED BY <3>1 DEF Accounted, Alike
  <2>3. \A b \in Boxes : log[b] # 0 => mirror[b] # NoWrite BY DEF IInv, MirrorInv
  <2> QED BY <2>1, <2>2, <2>3 DEF ReplayIsOfTheTurn, OfTheTurn
<1> QED BY <1>1, Invariance, PTL

-----------------------------------------------------------------------------
Records == [id : Ids, turn : Turns]
MapInv(map) ==
  /\ map \in Seq(Records)
  /\ \A i, j \in 1 .. Len(map) : map[i].id = map[j].id => i = j
Stored(map, id, t) == \E i \in 1 .. Len(map) : map[i].id = id /\ map[i].turn = t

WorkFields == {"pc", "id", "conversation", "owner", "background", "writes"}
WorkInv ==
  /\ DOMAIN work = Turns
  /\ \A t \in Turns :
       /\ DOMAIN work[t] = WorkFields
       /\ work[t].pc \notin {"new", "over"} => work[t].id \in Ids /\ work[t].conversation \in Conversations
       /\ work[t].pc = "linking" => work[t].conversation # ""

(* An alias points at a response, and the index is the aliases turned      *)
(* round.                                                                  *)
AliasInv ==
  /\ DOMAIN aliases = Names /\ DOMAIN aliasIdsFor = Names
  /\ \A n \in Names : aliases[n] = NoAlias \/ aliases[n].of \in Ids
  /\ \A n \in Names : aliasIdsFor[n] = {a \in Names : aliases[a].of = n}

StoreInv ==
  /\ WorkInv /\ AliasInv /\ MapInv(responses) /\ MapInv(logs)
  /\ Len(responses) <= MaxResponses /\ IdsOf(logs) \subseteq IdsOf(responses)
  /\ \A n \in Names : aliases[n] # NoAlias /\ n \notin late => Stored(responses, aliases[n].of, aliases[n].turn)

LEMMA StoreInitInv == ASSUME StoreInit PROVE StoreInv
<1>1. /\ responses = <<>> /\ logs = <<>> /\ DOMAIN work = Turns /\ \A t \in Turns : work[t] = NewWork
      /\ DOMAIN aliases = Names /\ DOMAIN aliasIdsFor = Names
      /\ \A n \in Names : aliases[n] = NoAlias /\ aliasIdsFor[n] = {}
  BY DEF StoreInit
<1>2. "" \notin Names /\ NoAlias.of = "" BY MemoryStoreAssumption DEF Names, NoAlias
<1>3. NewWork.pc = "new" /\ DOMAIN NewWork = WorkFields BY DEF NewWork, WorkFields
<1>8. WorkInv BY <1>1, <1>3 DEF WorkInv
<1>4. AliasInv BY <1>1, <1>2 DEF AliasInv
<1>5. <<>> \in Seq(Records) /\ Len(<<>>) = 0 /\ DOMAIN <<>> = {} OBVIOUS
<1>6. MapInv(<<>>) BY <1>5 DEF MapInv
<1>7. MaxResponses \in Nat /\ 0 <= MaxResponses
  <2>1. MaxResponses \in Nat BY MemoryStoreAssumption
  <2> QED BY <2>1
<1> QED BY <1>1, <1>8, <1>4, <1>5, <1>6, <1>7 DEF StoreInv, IdsOf

-----------------------------------------------------------------------------
(* The maps.  What is set is there, and the others with it;                *)
LEMMA WithIs ==
  ASSUME NEW map, MapInv(map), NEW id \in Ids, NEW t \in Turns
  PROVE  /\ MapInv(With(map, id, t)) /\ IdsOf(With(map, id, t)) = IdsOf(map) \cup {id}
         /\ Len(With(map, id, t)) = IF id \in IdsOf(map) THEN Len(map) ELSE Len(map) + 1
         /\ Stored(With(map, id, t), id, t)
         /\ \A x \in Ids : \A y : x # id /\ Stored(map, x, y) => Stored(With(map, id, t), x, y)
<1>1. map \in Seq(Records) /\ Len(map) \in Nat /\ DOMAIN map = 1 .. Len(map) /\ \A i \in 1 .. Len(map) : map[i] \in Records
  BY DEF MapInv
<1>2. PICK new : new = With(map, id, t) OBVIOUS
<1>3. CASE id \in IdsOf(map)
  <2>1. new = [i \in 1 .. Len(map) |-> IF map[i].id = id THEN [map[i] EXCEPT !.turn = t] ELSE map[i]]
    BY <1>1, <1>2, <1>3 DEF With
  <2>2. ASSUME NEW i \in 1 .. Len(map)
        PROVE  /\ new[i] \in Records /\ new[i].id = map[i].id
               /\ new[i].turn = IF map[i].id = id THEN t ELSE map[i].turn
    BY <1>1, <2>1 DEF Records
  <2>3. new \in Seq(Records) /\ Len(new) = Len(map) /\ DOMAIN new = 1 .. Len(map) BY <1>1, <2>1, <2>2
  <2>4. MapInv(new) BY <2>2, <2>3 DEF MapInv
  <2>5. IdsOf(new) = IdsOf(map) BY <1>1, <2>2, <2>3 DEF IdsOf
  <2>6. PICK i \in 1 .. Len(map) : map[i].id = id BY <1>1, <1>3 DEF IdsOf
  <2>7. Stored(new, id, t) BY <2>2, <2>3, <2>6 DEF Stored
  <2>8. \A x \in Ids : \A y : x # id /\ Stored(map, x, y) => Stored(new, x, y) BY <2>2, <2>3 DEF Stored
  <2> QED BY <1>2, <1>3, <2>3, <2>4, <2>5, <2>7, <2>8
<1>4. CASE id \notin IdsOf(map)
  <2>1. PICK e \in Records : e = [id |-> id, turn |-> t] BY DEF Records
  <2>2. new = Append(map, e) BY <1>2, <1>4, <2>1 DEF With
  <2>3. /\ new \in Seq(Records) /\ Len(new) = Len(map) + 1 /\ new[Len(map) + 1] = e
        /\ \A i \in 1 .. Len(map) : new[i] = map[i]
    BY <1>1, <2>2, AppendProperties
  <2>4. /\ DOMAIN new = 1 .. Len(map) + 1 /\ Len(map) + 1 \in 1 .. Len(new)
        /\ \A i \in 1 .. Len(new) : i \in 1 .. Len(map) \/ i = Len(map) + 1
        /\ \A i \in 1 .. Len(map) : i \in 1 .. Len(new) /\ i # Len(map) + 1
    BY <1>1, <2>3
  <2>5. \A i \in 1 .. Len(map) : map[i].id # id BY <1>1, <1>4 DEF IdsOf
  <2>6. MapInv(new) BY <2>1, <2>3, <2>4, <2>5 DEF MapInv
  <2>7. IdsOf(new) = IdsOf(map) \cup {id} BY <1>1, <2>1, <2>3, <2>4 DEF IdsOf
  <2>8. Stored(new, id, t) BY <2>1, <2>3, <2>4 DEF Stored
  <2>9. \A x \in Ids : \A y : x # id /\ Stored(map, x, y) => Stored(new, x, y) BY <2>3, <2>4 DEF Stored
  <2> QED BY <1>2, <1>4, <2>3, <2>6, <2>7, <2>8, <2>9
<1> QED BY <1>3, <1>4

(* what is deleted is gone, and the others stay.                           *)
LEMMA WithoutIs ==
  ASSUME NEW map, MapInv(map), NEW ids,
         \A x, y \in ids : x = y
  PROVE  /\ MapInv(Without(map, ids)) /\ IdsOf(Without(map, ids)) = IdsOf(map) \ ids
         /\ Len(Without(map, ids)) = IF ids \cap IdsOf(map) = {} THEN Len(map) ELSE Len(map) - 1
         /\ \A x, y : x \notin ids /\ Stored(map, x, y) => Stored(Without(map, ids), x, y)
<1>1. map \in Seq(Records) /\ Len(map) \in Nat /\ DOMAIN map = 1 .. Len(map) /\ \A i \in 1 .. Len(map) : map[i] \in Records
  BY DEF MapInv
<1>2. CASE ids \cap IdsOf(map) = {}
  <2>1. Without(map, ids) = map BY <1>2 DEF Without
  <2> QED BY <1>2, <2>1
<1>3. CASE ids \cap IdsOf(map) # {}
  <2>1. PICK i : i = CHOOSE j \in DOMAIN map : map[j].id \in ids OBVIOUS
  <2>2. i \in 1 .. Len(map) /\ map[i].id \in ids
    <3>1. \E j \in DOMAIN map : map[j].id \in ids BY <1>3 DEF IdsOf
    <3> QED BY <1>1, <2>1, <3>1
  <2>3. PICK new : new = RemoveAt(map, i) OBVIOUS
  <2>4. new = Without(map, ids) BY <1>3, <2>1, <2>3 DEF Without
  <2>12. Remains(Records, map, i, new) BY <1>1, <2>2, <2>3, OthersRemain
  <2>5. /\ new \in Seq(Records) /\ Len(new) = Len(map) - 1
        /\ \A j \in 1 .. Len(map) - 1 : \E k \in 1 .. Len(map) : k # i /\ new[j] = map[k] /\ k = IF j < i THEN j ELSE j + 1
        /\ \A k \in 1 .. Len(map) : k # i => \E j \in 1 .. Len(map) - 1 : new[j] = map[k]
    BY <2>12 DEF Remains
  <2>6. DOMAIN new = 1 .. Len(map) - 1 /\ Len(new) \in Nat BY <1>1, <2>5
  <2>7. \A k \in 1 .. Len(map) : k # i => map[k].id \notin ids BY <2>2 DEF MapInv
  <2>8. ASSUME NEW p \in 1 .. Len(new), NEW q \in 1 .. Len(new), new[p].id = new[q].id PROVE p = q
    <3>1. PICK k \in 1 .. Len(map) : new[p] = map[k] /\ k = IF p < i THEN p ELSE p + 1 BY <2>5
    <3>2. PICK l \in 1 .. Len(map) : new[q] = map[l] /\ l = IF q < i THEN q ELSE q + 1 BY <2>5
    <3>3. k = l BY <2>8, <3>1, <3>2 DEF MapInv
    <3> QED BY <2>2, <2>6, <3>1, <3>2, <3>3
  <2>9. MapInv(new) BY <2>5, <2>8 DEF MapInv
  <2>10. IdsOf(new) = IdsOf(map) \ ids
    <3>1. ASSUME NEW x \in IdsOf(new) PROVE x \in IdsOf(map) \ ids
      <4>1. PICK j \in 1 .. Len(map) - 1 : x = new[j].id BY <2>6 DEF IdsOf
      <4>2. PICK k \in 1 .. Len(map) : k # i /\ new[j] = map[k] BY <2>5
      <4> QED BY <1>1, <2>7, <4>1, <4>2 DEF IdsOf
    <3>2. ASSUME NEW x \in IdsOf(map) \ ids PROVE x \in IdsOf(new)
      <4>1. PICK k \in 1 .. Len(map) : x = map[k].id BY <1>1 DEF IdsOf
      <4>2. PICK j \in 1 .. Len(map) - 1 : new[j] = map[k] BY <2>2, <2>5, <3>2, <4>1
      <4> QED BY <2>6, <4>1, <4>2 DEF IdsOf
    <3> QED BY <3>1, <3>2
  <2>11. ASSUME NEW x, NEW y, x \notin ids, Stored(map, x, y) PROVE Stored(new, x, y)
    <3>1. PICK k \in 1 .. Len(map) : map[k].id = x /\ map[k].turn = y BY <2>11 DEF Stored
    <3>2. PICK j \in 1 .. Len(map) - 1 : new[j] = map[k] BY <2>2, <2>5, <2>11, <3>1
    <3> QED BY <2>5, <3>1, <3>2 DEF Stored
  <2> QED BY <1>3, <2>4, <2>5, <2>9, <2>10, <2>11
<1> QED BY <1>2, <1>3

(* Only the oldest is evicted, and makes room.                             *)
LEMMA OldestIs ==
  ASSUME NEW map, MapInv(map), NEW id, id \notin IdsOf(map) => Len(map) <= MaxResponses
  PROVE  /\ \A x, y \in Oldest(map, id) : x = y
         /\ Oldest(map, id) \subseteq Ids /\ id \notin Oldest(map, id)
         /\ id \notin IdsOf(map) => Len(Without(map, Oldest(map, id))) < MaxResponses
<1>1. map \in Seq(Records) /\ Len(map) \in Nat /\ DOMAIN map = 1 .. Len(map) /\ \A i \in 1 .. Len(map) : map[i] \in Records
  BY DEF MapInv
<1>2. CASE id \in IdsOf(map) \/ Len(map) < MaxResponses
  <2>1. Oldest(map, id) = {} BY <1>2 DEF Oldest
  <2> QED BY <1>2, <2>1 DEF Without
<1>3. CASE id \notin IdsOf(map) /\ ~(Len(map) < MaxResponses)
  <2>6. MaxResponses \in Nat /\ MaxResponses >= 1
    <3>1. MaxResponses \in Nat /\ MaxResponses # 0 BY MemoryStoreAssumption
    <3> QED BY <3>1
  <2>8. Len(map) <= MaxResponses /\ ~(Len(map) < MaxResponses) BY <1>3, Zenon
  <2>9. PICK n \in Nat : n = Len(map) BY <1>1
  <2>10. PICK m \in Nat : m = MaxResponses BY <2>6
  <2>11. n = m /\ m >= 1 BY <2>6, <2>8, <2>9, <2>10
  <2>1. 1 \in 1 .. Len(map) /\ Len(map) = MaxResponses BY <2>9, <2>10, <2>11
  <2>2. Oldest(map, id) = {map[1].id} BY <1>1, <1>3, <2>1 DEF Oldest
  <2>3. \A x, y \in Oldest(map, id) : x = y BY <2>2
  <2>4. map[1].id \in IdsOf(map) /\ map[1].id \in Ids BY <1>1, <2>1 DEF IdsOf, Records
  <2>5. Len(Without(map, Oldest(map, id))) = Len(map) - 1 BY <2>2, <2>3, <2>4, WithoutIs
  <2>7. Len(Without(map, Oldest(map, id))) < MaxResponses BY <2>5, <2>9, <2>10, <2>11
  <2> QED BY <1>3, <2>2, <2>3, <2>4, <2>7
<1> QED BY <1>2, <1>3

(* Which turn's is what is stored.                                         *)
LEMMA TurnAtIs ==
  ASSUME NEW map, MapInv(map), NEW id \in Ids, NEW t, Stored(map, id, t)
  PROVE  id \in IdsOf(map) /\ TurnAt(map, id) = t
<1>1. PICK i \in 1 .. Len(map) : map[i].id = id /\ map[i].turn = t BY DEF Stored
<1>2. map \in Seq(Records) /\ DOMAIN map = 1 .. Len(map) BY DEF MapInv
<1>3. map[i] \in ToSet(map) BY <1>2 DEF ToSet
<1>4. PICK e : e = CHOOSE f \in ToSet(map) : f.id = id OBVIOUS
<1>5. e \in ToSet(map) /\ e.id = id BY <1>1, <1>3, <1>4
<1>6. PICK j \in 1 .. Len(map) : e = map[j] BY <1>2, <1>5 DEF ToSet
<1>7. j = i BY <1>1, <1>5, <1>6 DEF MapInv
<1> QED BY <1>1, <1>2, <1>4, <1>6, <1>7 DEF TurnAt, IdsOf

-----------------------------------------------------------------------------
(* The aliases.  Those of the ids are dropped, and the others stay.        *)
LEMMA DropAliasesForIs ==
  ASSUME AliasInv, NEW ids, ids \subseteq Names, DropAliasesFor(ids)
  PROVE  /\ AliasInv'
         /\ \A n \in Names : aliases'[n] # NoAlias => aliases'[n] = aliases[n] /\ aliases[n].of \notin ids
<1>1. "" \notin Names /\ NoAlias.of = "" BY MemoryStoreAssumption DEF Names, NoAlias
<1>2. PICK gone : gone = UNION {aliasIdsFor[i] : i \in ids} OBVIOUS
<1>3. /\ aliases' = [n \in Names |-> IF n \in gone THEN NoAlias ELSE aliases[n]]
      /\ aliasIdsFor' = [n \in Names |-> IF n \in ids THEN {} ELSE aliasIdsFor[n]]
  BY <1>2 DEF DropAliasesFor
<1>4. \A n \in Names : aliases[n].of \in Names => n \in aliasIdsFor[aliases[n].of] BY DEF AliasInv
<1>5. \A n \in Names : aliases[n] = NoAlias \/ aliases[n].of \in Names BY DEF AliasInv, Names
<1>6. ASSUME NEW n \in Names, aliases'[n] # NoAlias PROVE aliases'[n] = aliases[n] /\ aliases[n].of \notin ids
  <2>1. n \notin gone /\ aliases'[n] = aliases[n] BY <1>3, <1>6
  <2>2. n \in aliasIdsFor[aliases[n].of] BY <1>4, <1>5, <1>6, <2>1
  <2> QED BY <1>2, <2>1, <2>2
<1>7. \A n \in Names : aliases'[n] = NoAlias \/ aliases'[n].of \in Ids BY <1>6 DEF AliasInv
<1>8. ASSUME NEW n \in Names PROVE aliasIdsFor'[n] = {a \in Names : aliases'[a].of = n}
  <2>1. ASSUME NEW a \in Names PROVE a \in aliasIdsFor'[n] <=> aliases'[a].of = n
    <3>1. a \in aliasIdsFor[n] <=> aliases[a].of = n BY DEF AliasInv
    <3>2. CASE n \in ids
      <4>1. aliasIdsFor'[n] = {} BY <1>3, <3>2
      <4>2. aliases'[a].of # n BY <1>1, <1>6, <3>2
      <4> QED BY <4>1, <4>2
    <3>3. CASE n \notin ids
      <4>1. aliasIdsFor'[n] = aliasIdsFor[n] BY <1>3, <3>3
      <4>2. CASE a \notin gone
        <5>1. aliases'[a] = aliases[a] BY <1>3, <4>2
        <5> QED BY <3>1, <4>1, <5>1
      <4>3. CASE a \in gone
        <5>1. aliases'[a].of = "" BY <1>1, <1>3, <4>3
        <5>2. PICK i \in ids : a \in aliasIdsFor[i] BY <1>2, <4>3
        <5>3. aliases[a].of = i BY <5>2 DEF AliasInv
        <5>4. a \notin aliasIdsFor'[n] BY <3>1, <3>3, <4>1, <5>3
        <5>5. aliases'[a].of # n BY <1>1, <5>1
        <5> QED BY <5>4, <5>5
      <4> QED BY <4>2, <4>3
    <3> QED BY <3>2, <3>3
  <2>2. aliasIdsFor'[n] \subseteq Names BY <1>3 DEF AliasInv
  <2> QED BY <2>1, <2>2
<1>9. DOMAIN aliases' = Names /\ DOMAIN aliasIdsFor' = Names BY <1>3
<1> QED BY <1>6, <1>7, <1>8, <1>9 DEF AliasInv

(* An alias is set, or moves.                                              *)
LEMMA SetAliasIs ==
  ASSUME AliasInv, NEW n \in Names, NEW target \in Ids, NEW t, SetAlias(n, target, t)
  PROVE  /\ AliasInv' /\ aliases'[n] = [of |-> target, turn |-> t]
         /\ \A m \in Names : m # n => aliases'[m] = aliases[m]
<1>1. target \in Names /\ "" \notin Names /\ NoAlias.of = "" BY MemoryStoreAssumption DEF Names, NoAlias
<1>2. DOMAIN aliases = Names /\ DOMAIN aliasIdsFor = Names BY DEF AliasInv
<1>3. PICK alias : alias = [of |-> target, turn |-> t] OBVIOUS
<1>4. /\ aliases' = [aliases EXCEPT ![n] = alias] /\ alias.of = target
      /\ aliasIdsFor' = IF aliases[n] = NoAlias THEN [aliasIdsFor EXCEPT ![target] = @ \cup {n}]
                        ELSE Edges(n, target)
  BY <1>3 DEF SetAlias
<1>5. /\ DOMAIN aliases' = Names /\ aliases'[n] = alias
      /\ \A m \in Names : m # n => aliases'[m] = aliases[m]
  BY <1>2, <1>4
<1>6. \A m \in Names : aliases'[m] = NoAlias \/ aliases'[m].of \in Ids BY <1>4, <1>5 DEF AliasInv
<1>7. DOMAIN aliasIdsFor' = Names BY <1>2, <1>4 DEF Edges
<1>8. ASSUME NEW m \in Names PROVE aliasIdsFor'[m] = {a \in Names : aliases'[a].of = m}
  <2>1. aliasIdsFor[m] = {a \in Names : aliases[a].of = m} BY DEF AliasInv
  <2>2. {a \in Names : aliases'[a].of = m} =
          IF m = target THEN aliasIdsFor[m] \cup {n} ELSE aliasIdsFor[m] \ {n}
    BY <1>4, <1>5, <2>1
  <2>3. CASE aliases[n] = NoAlias
    <3>1. n \notin aliasIdsFor[m] BY <1>1, <2>1, <2>3
    <3>2. aliasIdsFor'[m] = IF m = target THEN aliasIdsFor[m] \cup {n} ELSE aliasIdsFor[m]
      BY <1>1, <1>2, <1>4, <2>3
    <3> QED BY <2>2, <3>1, <3>2
  <2>4. CASE aliases[n] # NoAlias
    <3>1. PICK from \in Names : from = aliases[n].of BY <2>4 DEF AliasInv, Names
    <3>2. m # from => n \notin aliasIdsFor[m] BY <2>1, <3>1
    <3>3. aliasIdsFor' = [aliasIdsFor EXCEPT ![from] = @ \ {n}, ![target] = @ \cup {n}] BY <1>4, <2>4, <3>1 DEF Edges
    <3>4. CASE from = target
      <4>1. aliasIdsFor'[m] = IF m = target THEN (aliasIdsFor[m] \ {n}) \cup {n} ELSE aliasIdsFor[m]
        BY <1>1, <1>2, <3>3, <3>4
      <4> QED BY <2>2, <3>2, <3>4, <4>1
    <3>5. CASE from # target
      <4>1. aliasIdsFor'[m] = IF m = target THEN aliasIdsFor[m] \cup {n}
                             ELSE IF m = from THEN aliasIdsFor[m] \ {n} ELSE aliasIdsFor[m]
        BY <1>1, <1>2, <3>3, <3>5
      <4> QED BY <2>2, <3>2, <3>5, <4>1
    <3> QED BY <3>4, <3>5
  <2> QED BY <2>3, <2>4
<1>9. AliasInv' BY <1>5, <1>6, <1>7, <1>8 DEF AliasInv
<1> QED BY <1>3, <1>5, <1>9

(* The write of a response keeps the maps in step, and the aliases that    *)
(* stay lead to what is stored.                                            *)
LEMMA PutResponseInv ==
  ASSUME StoreInv, NEW id \in Ids, NEW t \in Turns, PutResponse(id, t)
  PROVE  /\ AliasInv' /\ MapInv(responses') /\ MapInv(logs')
         /\ Len(responses') <= MaxResponses /\ IdsOf(logs') \subseteq IdsOf(responses')
         /\ \A n \in Names : aliases'[n] # NoAlias /\ n \notin late
                => Stored(responses', aliases'[n].of, aliases'[n].turn)
<1>1. /\ AliasInv /\ MapInv(responses) /\ MapInv(logs) /\ Len(responses) <= MaxResponses
      /\ IdsOf(logs) \subseteq IdsOf(responses)
      /\ \A n \in Names : aliases[n] # NoAlias /\ n \notin late => Stored(responses, aliases[n].of, aliases[n].turn)
  BY DEF StoreInv
<1>2. PICK evicted : evicted = Oldest(responses, id) OBVIOUS
<1>3. PICK replaced : replaced = {i \in {id} \cap IdsOf(responses) : TurnAt(responses, i) # t} OBVIOUS
<1>4. PICK left : left = Without(responses, evicted) OBVIOUS
<1>5. responses' = With(left, id, t) /\ logs' = Without(logs, evicted) /\ DropAliasesFor(evicted \cup replaced)
  BY <1>2, <1>3, <1>4 DEF PutResponse
<1>6. /\ \A x, y \in evicted : x = y
      /\ evicted \subseteq Ids /\ id \notin evicted
      /\ id \notin IdsOf(responses) => Len(left) < MaxResponses
  BY <1>1, <1>2, <1>4, OldestIs
<1>7. /\ MapInv(left) /\ IdsOf(left) = IdsOf(responses) \ evicted
      /\ Len(left) = IF evicted \cap IdsOf(responses) = {} THEN Len(responses) ELSE Len(responses) - 1
      /\ \A x, y : x \notin evicted /\ Stored(responses, x, y) => Stored(left, x, y)
  BY <1>1, <1>4, <1>6, WithoutIs
<1>8. /\ MapInv(responses') /\ IdsOf(responses') = IdsOf(left) \cup {id}
      /\ Len(responses') = IF id \in IdsOf(left) THEN Len(left) ELSE Len(left) + 1
      /\ Stored(responses', id, t)
      /\ \A x \in Ids : \A y : x # id /\ Stored(left, x, y) => Stored(responses', x, y)
  BY <1>5, <1>7, WithIs
<1>9. MapInv(logs') /\ IdsOf(logs') = IdsOf(logs) \ evicted BY <1>1, <1>5, <1>6, WithoutIs
<1>10. /\ AliasInv'
       /\ \A n \in Names : aliases'[n] # NoAlias => aliases'[n] = aliases[n] /\ aliases[n].of \notin evicted \cup replaced
  <2>1. evicted \cup replaced \subseteq Names BY <1>3, <1>6 DEF Names
  <2> QED BY <1>1, <1>5, <2>1, DropAliasesForIs
<1>11. Len(responses') <= MaxResponses
  <2>4. MaxResponses \in Nat BY MemoryStoreAssumption
  <2>1. Len(left) \in Nat /\ Len(responses) \in Nat /\ MaxResponses \in Nat
    BY <1>1, <1>7, <2>4 DEF MapInv
  <2>2. CASE id \in IdsOf(responses)
    <3>1. Len(responses') = Len(left) BY <1>6, <1>7, <1>8, <2>2
    <3>2. Len(left) = Len(responses) \/ Len(left) = Len(responses) - 1 BY <1>7
    <3> QED BY <1>1, <2>1, <3>1, <3>2
  <2>3. CASE id \notin IdsOf(responses)
    <3>1. Len(responses') = Len(left) + 1 BY <1>7, <1>8, <2>3
    <3> QED BY <1>6, <2>1, <2>3, <3>1
  <2> QED BY <2>2, <2>3
<1>12. IdsOf(logs') \subseteq IdsOf(responses') BY <1>1, <1>7, <1>8, <1>9
<1>13. ASSUME NEW n \in Names, aliases'[n] # NoAlias, n \notin late
       PROVE  Stored(responses', aliases'[n].of, aliases'[n].turn)
  <2>1. aliases'[n] = aliases[n] /\ aliases[n].of \notin evicted \cup replaced BY <1>10, <1>13
  <2>2. PICK of \in Ids : of = aliases[n].of BY <1>1, <1>13, <2>1 DEF AliasInv
  <2>3. PICK turn : turn = aliases[n].turn OBVIOUS
  <2>4. Stored(responses, of, turn) BY <1>1, <1>13, <2>1, <2>2, <2>3
  <2>5. Stored(left, of, turn) BY <1>7, <2>1, <2>2, <2>4
  <2>6. CASE of # id BY <1>8, <2>1, <2>2, <2>3, <2>5, <2>6
  <2>7. CASE of = id
    <3>1. id \in IdsOf(responses) /\ TurnAt(responses, id) = turn BY <1>1, <2>4, <2>7, TurnAtIs
    <3>2. turn = t BY <1>3, <2>1, <2>2, <2>7, <3>1
    <3> QED BY <1>8, <2>1, <2>2, <2>3, <2>7, <3>2
  <2> QED BY <2>6, <2>7
<1> QED BY <1>8, <1>9, <1>10, <1>11, <1>12, <1>13

(* A step that leaves the stores alone.                                    *)
LEMMA StoresKept ==
  ASSUME StoreInv, UNCHANGED <<responses, aliases, aliasIdsFor, logs, late>>, WorkInv'
  PROVE  StoreInv'
<1>1. AliasInv' BY DEF StoreInv, AliasInv
<1>2. MapInv(responses') /\ MapInv(logs') BY DEF StoreInv
<1>3. Len(responses') <= MaxResponses /\ IdsOf(logs') \subseteq IdsOf(responses') BY DEF StoreInv
<1>4. \A n \in Names : aliases'[n] # NoAlias /\ n \notin late'
        => Stored(responses', aliases'[n].of, aliases'[n].turn)
  BY DEF StoreInv
<1> QED BY <1>1, <1>2, <1>3, <1>4 DEF StoreInv

-----------------------------------------------------------------------------
(* The steps of a turn.                                                    *)
LEMMA AdmitInv == ASSUME StoreInv, NEW t \in Turns, Admit(t) PROVE StoreInv'
<1>1. PICK id \in Ids, conversation \in Conversations, owner \in Owners, background \in BOOLEAN :
        /\ claims[id] = NoTurn
        /\ Writable(id, owner) /\ (conversation # "" => Writable(conversation, owner))
        /\ claims' = [claims EXCEPT ![id] = t]
        /\ work' = [work EXCEPT ![t] =
             [pc |-> "working", id |-> id, conversation |-> conversation, owner |-> owner,
              background |-> background, writes |-> 0]]
  BY Zenon DEF Admit
<1>2. PICK now : now = [pc |-> "working", id |-> id, conversation |-> conversation, owner |-> owner,
                        background |-> background, writes |-> 0]
  OBVIOUS
<1>3. /\ DOMAIN now = WorkFields /\ now.pc = "working" /\ now.id = id /\ now.conversation = conversation
      /\ work' = [work EXCEPT ![t] = now]
  BY <1>1, <1>2 DEF WorkFields
<1>4. WorkInv' BY <1>3 DEF StoreInv, WorkInv
<1>5. UNCHANGED <<responses, aliases, aliasIdsFor, logs, late>> BY DEF Admit
<1> QED BY <1>4, <1>5, StoresKept

LEMMA WriteStoreInv == ASSUME StoreInv, NEW t \in Turns, Write(t) PROVE StoreInv'
<1>1. PICK puts : puts = (HoldsClaim(t) /\ Writable(work[t].id, work[t].owner)) OBVIOUS
<1>2. /\ work[t].pc = "working" \/ work[t].pc = "written"
      /\ work' = [work EXCEPT ![t].pc = IF puts /\ Linked(t) THEN "linking" ELSE "written", ![t].writes = @ + 1]
      /\ puts => PutResponse(work[t].id, t)
      /\ ~puts => UNCHANGED <<responses, aliases, aliasIdsFor, logs>>
      /\ late' = late
  BY <1>1 DEF Write, MayWrite
<1>3. work[t].id \in Ids /\ work[t].conversation \in Conversations BY <1>2 DEF StoreInv, WorkInv
<1>4. WorkInv'
  <2>1. PICK now : now = [work[t] EXCEPT !.pc = IF puts /\ Linked(t) THEN "linking" ELSE "written", !.writes = @ + 1]
    OBVIOUS
  <2>2. DOMAIN work = Turns /\ DOMAIN work[t] = WorkFields BY DEF StoreInv, WorkInv
  <2>3. work' = [work EXCEPT ![t] = now] BY <1>2, <2>1, <2>2
  <2>4. /\ DOMAIN now = WorkFields /\ now.id = work[t].id /\ now.conversation = work[t].conversation
        /\ now.pc = IF puts /\ Linked(t) THEN "linking" ELSE "written"
    BY <2>1, <2>2 DEF WorkFields
  <2>5. now.pc = "linking" => now.conversation # "" BY <2>4 DEF Linked
  <2> QED BY <1>3, <2>2, <2>3, <2>4, <2>5 DEF StoreInv, WorkInv
<1>5. CASE puts
  <2>1. PutResponse(work[t].id, t) BY <1>2, <1>5
  <2>2. /\ AliasInv' /\ MapInv(responses') /\ MapInv(logs')
        /\ Len(responses') <= MaxResponses /\ IdsOf(logs') \subseteq IdsOf(responses')
        /\ \A n \in Names : aliases'[n] # NoAlias /\ n \notin late
              => Stored(responses', aliases'[n].of, aliases'[n].turn)
    BY <1>3, <2>1, PutResponseInv
  <2> QED BY <1>2, <1>4, <2>2 DEF StoreInv
<1>6. CASE ~puts
  <2>1. UNCHANGED <<responses, aliases, aliasIdsFor, logs, late>> BY <1>2, <1>6
  <2> QED BY <1>4, <2>1, StoresKept
<1> QED BY <1>5, <1>6

LEMMA LinkInv == ASSUME StoreInv, NEW t \in Turns, Link(t) PROVE StoreInv'
<1>1. /\ work[t].pc = "linking" /\ work' = [work EXCEPT ![t].pc = "written"]
      /\ responses' = responses /\ logs' = logs
  BY DEF Link
<1>2. work[t].id \in Ids /\ work[t].conversation \in Names BY <1>1 DEF StoreInv, WorkInv, Names
<1>3. WorkInv'
  <2>1. PICK now : now = [work[t] EXCEPT !.pc = "written"] OBVIOUS
  <2>2. DOMAIN work = Turns /\ DOMAIN work[t] = WorkFields BY DEF StoreInv, WorkInv
  <2>3. work' = [work EXCEPT ![t] = now] BY <1>1, <2>1, <2>2
  <2>4. /\ DOMAIN now = WorkFields /\ now.id = work[t].id /\ now.conversation = work[t].conversation
        /\ now.pc = "written"
    BY <2>1, <2>2 DEF WorkFields
  <2>5. work[t].conversation \in Conversations BY <1>1 DEF StoreInv, WorkInv
  <2> QED BY <1>2, <2>2, <2>3, <2>4, <2>5 DEF StoreInv, WorkInv
<1>4. PICK name \in Names, id \in Ids : name = work[t].conversation /\ id = work[t].id BY <1>2
<1>5. CASE Writable(name, work[t].owner)
  <2>1. /\ SetAlias(name, id, t)
        /\ late' = IF [id |-> id, turn |-> t] \in ToSet(responses) THEN late \ {name} ELSE late \cup {name}
    BY <1>4, <1>5 DEF Link
  <2>2. /\ AliasInv' /\ aliases'[name] = [of |-> id, turn |-> t]
        /\ \A m \in Names : m # name => aliases'[m] = aliases[m]
    BY <2>1, SetAliasIs DEF StoreInv
  <2>3. ASSUME NEW n \in Names, aliases'[n] # NoAlias, n \notin late'
        PROVE  Stored(responses, aliases'[n].of, aliases'[n].turn)
    <3>1. CASE n = name
      <4>1. [id |-> id, turn |-> t] \in ToSet(responses) BY <2>1, <2>3, <3>1
      <4>2. PICK i \in 1 .. Len(responses) : responses[i] = [id |-> id, turn |-> t]
        BY <4>1 DEF ToSet, StoreInv, MapInv
      <4> QED BY <2>2, <3>1, <4>2 DEF Stored
    <3>2. CASE n # name
      <4>1. n \notin late BY <2>1, <2>3, <3>2
      <4> QED BY <2>2, <2>3, <3>2, <4>1 DEF StoreInv
    <3> QED BY <3>1, <3>2
  <2>4. /\ MapInv(responses') /\ MapInv(logs')
        /\ Len(responses') <= MaxResponses /\ IdsOf(logs') \subseteq IdsOf(responses')
    BY <1>1 DEF StoreInv
  <2>5. \A n \in Names : aliases'[n] # NoAlias /\ n \notin late'
          => Stored(responses', aliases'[n].of, aliases'[n].turn)
    BY <1>1, <2>3
  <2> QED BY <1>3, <2>2, <2>4, <2>5 DEF StoreInv
<1>6. CASE ~Writable(name, work[t].owner)
  <2>1. UNCHANGED <<responses, aliases, aliasIdsFor, logs, late>> BY <1>1, <1>4, <1>6 DEF Link
  <2> QED BY <1>3, <2>1, StoresKept
<1> QED BY <1>5, <1>6

LEMMA FinishInv == ASSUME StoreInv, NEW t \in Turns, Finish(t) PROVE StoreInv'
<1>1. PICK id : id = work[t].id OBVIOUS
<1>2. PICK own : own = (work[t].background /\ HoldsClaim(t) /\ id \in IdsOf(responses) /\ TurnAt(responses, id) = t) OBVIOUS
<1>3. /\ work[t].pc = "written"
      /\ logs' = IF own THEN With(Without(logs, Oldest(logs, id)), id, t) ELSE logs
      /\ work' = [work EXCEPT ![t] = [NewWork EXCEPT !.pc = "over", !.owner = work[t].owner]]
      /\ UNCHANGED <<responses, aliases, aliasIdsFor, late>>
  BY <1>1, <1>2 DEF Finish
<1>4. id \in Ids BY <1>1, <1>3 DEF StoreInv, WorkInv
<1>5. WorkInv'
  <2>1. PICK now : now = [NewWork EXCEPT !.pc = "over", !.owner = work[t].owner] OBVIOUS
  <2>2. DOMAIN now = WorkFields /\ now.pc = "over" BY <2>1 DEF NewWork, WorkFields
  <2> QED BY <1>3, <2>1, <2>2 DEF StoreInv, WorkInv
<1>6. MapInv(logs') /\ IdsOf(logs') \subseteq IdsOf(responses)
  <2>1. CASE own
    <3>1. PICK left : left = Without(logs, Oldest(logs, id)) OBVIOUS
    <3>2. id \in IdsOf(responses) BY <1>2, <2>1
    <3>3. (\A x, y \in Oldest(logs, id) : x = y) BY DEF Oldest
    <3>4. MapInv(left) /\ IdsOf(left) = IdsOf(logs) \ Oldest(logs, id)
      BY <3>1, <3>3, WithoutIs DEF StoreInv
    <3>5. logs' = With(left, id, t) BY <1>3, <2>1, <3>1
    <3>6. MapInv(logs') /\ IdsOf(logs') = IdsOf(left) \cup {id} BY <1>4, <3>4, <3>5, WithIs
    <3> QED BY <3>2, <3>4, <3>6 DEF StoreInv
  <2>2. CASE ~own BY <1>3, <2>2 DEF StoreInv
  <2> QED BY <2>1, <2>2
<1>7. AliasInv' BY <1>3 DEF StoreInv, AliasInv
<1>8. /\ MapInv(responses') /\ MapInv(logs')
      /\ Len(responses') <= MaxResponses /\ IdsOf(logs') \subseteq IdsOf(responses')
  BY <1>3, <1>6 DEF StoreInv
<1>9. \A n \in Names : aliases'[n] # NoAlias /\ n \notin late'
        => Stored(responses', aliases'[n].of, aliases'[n].turn)
  BY <1>3 DEF StoreInv
<1> QED BY <1>5, <1>7, <1>8, <1>9 DEF StoreInv

(* A deletion, of an alias or of a response.                               *)
LEMMA DeleteNamedInv ==
  ASSUME StoreInv, NEW n \in Names, NEW owner \in Owners, DeleteNamed(n, owner)
  PROVE  StoreInv'
<1>1. Drop(n) /\ work' = work /\ late' = late BY DEF DeleteNamed
<1>2. WorkInv' BY <1>1 DEF StoreInv, WorkInv
<1>3. "" \notin Names /\ NoAlias.of = "" BY MemoryStoreAssumption DEF Names, NoAlias
<1>4. CASE aliases[n] # NoAlias
  <2>1. /\ aliasIdsFor' = [aliasIdsFor EXCEPT ![aliases[n].of] = @ \ {n}]
        /\ aliases' = [aliases EXCEPT ![n] = NoAlias]
        /\ responses' = responses /\ logs' = logs
    BY <1>1, <1>4 DEF Drop
  <2>2. PICK of \in Names : of = aliases[n].of BY <1>4 DEF StoreInv, AliasInv, Names
  <2>3. /\ DOMAIN aliases' = Names /\ DOMAIN aliasIdsFor' = Names /\ aliases'[n] = NoAlias
        /\ \A m \in Names : m # n => aliases'[m] = aliases[m]
    BY <2>1 DEF StoreInv, AliasInv
  <2>4. \A m \in Names : aliases'[m] = NoAlias \/ aliases'[m].of \in Ids BY <2>3 DEF StoreInv, AliasInv
  <2>5. ASSUME NEW m \in Names PROVE aliasIdsFor'[m] = {a \in Names : aliases'[a].of = m}
    <3>1. aliasIdsFor[m] = {a \in Names : aliases[a].of = m} BY DEF StoreInv, AliasInv
    <3>2. {a \in Names : aliases'[a].of = m} = aliasIdsFor[m] \ {n} BY <1>3, <2>3, <3>1
    <3>3. m # of => n \notin aliasIdsFor[m] BY <2>2, <3>1
    <3>4. aliasIdsFor'[m] = IF m = of THEN aliasIdsFor[m] \ {n} ELSE aliasIdsFor[m]
      BY <2>1, <2>2 DEF StoreInv, AliasInv
    <3> QED BY <3>2, <3>3, <3>4
  <2>6. AliasInv' BY <2>3, <2>4, <2>5 DEF AliasInv
  <2>7. /\ MapInv(responses') /\ MapInv(logs')
        /\ Len(responses') <= MaxResponses /\ IdsOf(logs') \subseteq IdsOf(responses')
    BY <2>1 DEF StoreInv
  <2>8. \A m \in Names : aliases'[m] # NoAlias /\ m \notin late'
          => Stored(responses', aliases'[m].of, aliases'[m].turn)
    BY <1>1, <2>1, <2>3 DEF StoreInv
  <2> QED BY <1>2, <2>6, <2>7, <2>8 DEF StoreInv
<1>5. CASE aliases[n] = NoAlias
  <2>1. responses' = Without(responses, {n}) /\ logs' = Without(logs, {n}) /\ DropAliasesFor({n})
    BY <1>1, <1>5 DEF Drop
  <2>2. /\ AliasInv'
        /\ \A m \in Names : aliases'[m] # NoAlias => aliases'[m] = aliases[m] /\ aliases[m].of \notin {n}
    BY <2>1, DropAliasesForIs DEF StoreInv
  <2>3. \A x, y \in {n} : x = y OBVIOUS
  <2>4. /\ MapInv(responses') /\ IdsOf(responses') = IdsOf(responses) \ {n}
        /\ Len(responses') = IF {n} \cap IdsOf(responses) = {} THEN Len(responses) ELSE Len(responses) - 1
        /\ \A x, y : x \notin {n} /\ Stored(responses, x, y) => Stored(responses', x, y)
    BY <2>1, <2>3, WithoutIs DEF StoreInv
  <2>5. MapInv(logs') /\ IdsOf(logs') = IdsOf(logs) \ {n} BY <2>1, <2>3, WithoutIs DEF StoreInv
  <2>6. Len(responses') <= MaxResponses
    <3>1. MaxResponses \in Nat BY MemoryStoreAssumption
    <3>2. Len(responses) \in Nat /\ Len(responses) <= MaxResponses BY DEF StoreInv, MapInv
    <3>3. Len(responses') = Len(responses) \/ Len(responses') = Len(responses) - 1 BY <2>4
    <3> QED BY <3>1, <3>2, <3>3
  <2>7. \A m \in Names : aliases'[m] # NoAlias /\ m \notin late'
          => Stored(responses', aliases'[m].of, aliases'[m].turn)
    BY <1>1, <2>2, <2>4 DEF StoreInv
  <2>8. IdsOf(logs') \subseteq IdsOf(responses') BY <2>4, <2>5 DEF StoreInv
  <2> QED BY <1>2, <2>2, <2>4, <2>5, <2>6, <2>7, <2>8 DEF StoreInv
<1> QED BY <1>4, <1>5

-----------------------------------------------------------------------------
LEMMA StoreNextInv == ASSUME StoreInv, [StoreNext]_storeVars PROVE StoreInv'
<1>1. CASE \E t \in Turns : Admit(t) BY <1>1, AdmitInv
<1>2. CASE \E t \in Turns : Write(t) BY <1>2, WriteStoreInv
<1>3. CASE \E t \in Turns : Link(t) BY <1>3, LinkInv
<1>4. CASE \E t \in Turns : Finish(t) BY <1>4, FinishInv
<1>5. CASE \E n \in Names, owner \in Owners : DeleteNamed(n, owner) BY <1>5, DeleteNamedInv
<1>6. CASE UNCHANGED storeVars
  <2>1. WorkInv' BY <1>6 DEF storeVars, StoreInv, WorkInv
  <2> QED BY <1>6, <2>1, StoresKept DEF storeVars
<1> QED BY <1>1, <1>2, <1>3, <1>4, <1>5, <1>6 DEF StoreNext, StoreDone

(* What leads to a response goes and comes with it: the reverse index is   *)
(* the aliases turned round, the logs and the cap keep step, and an alias  *)
(* leads to the response that its turn wrote (store/memory.ts, #setAlias,  *)
(* #dropAliasesFor, #evictOldest).                                         *)
THEOREM AliasesLead == StoreSpec => []LeadsToTheResponse
<1>1. StoreInit => StoreInv BY StoreInitInv
<1>2. StoreInv /\ [StoreNext]_storeVars => StoreInv' BY StoreNextInv
<1>3. ASSUME StoreInv PROVE LeadsToTheResponse
  <2>1. IndexInStep BY <1>3 DEF StoreInv, AliasInv, IndexInStep
  <2>2. ASSUME NEW n \in Names, aliases[n] # NoAlias, n \notin late
        PROVE  [id |-> aliases[n].of, turn |-> aliases[n].turn] \in ToSet(responses)
    <3>1. PICK i \in 1 .. Len(responses) : responses[i].id = aliases[n].of /\ responses[i].turn = aliases[n].turn
      BY <1>3, <2>2 DEF StoreInv, Stored
    <3>2. responses[i] \in Records /\ DOMAIN responses = 1 .. Len(responses) BY <1>3 DEF StoreInv, MapInv
    <3>3. responses[i] = [id |-> aliases[n].of, turn |-> aliases[n].turn] BY <3>1, <3>2 DEF Records
    <3> QED BY <3>2, <3>3 DEF ToSet
  <2>3. AliasesFollow BY <2>2 DEF AliasesFollow
  <2> QED BY <2>1, <2>3 DEF LeadsToTheResponse
<1> QED BY <1>1, <1>2, <1>3, PTL DEF StoreSpec
-----------------------------------------------------------------------------
(* The store in files: the calls for an id all come through one provider.  *)
OneProviderEach == \A c, d \in StoreCalls : c.id = d.id => c.provider = d.provider

Running(c) == progress[c] \in Active

(* A call that has begun is the head of its chain, and what it has read    *)
(* still stands.                                                           *)
StillStands(c) ==
  /\ c.op = "put" => progress[c] = "checked" /\ OwnerCanWrite(filed[c.id], c)
  /\ c.op = "putEvents" =>
       progress[c] \in {"checked", "cleared"} /\ OwnedBy(filed[c.id], c) /\ IsCurrent(filed[c.id], c)
  /\ c.op = "delete" =>
       /\ progress[c] \in {"checked", "unlogged"} /\ OwnedBy(filed[c.id], c)
       /\ progress[c] = "unlogged" => events[c.id] = None
LogAt(i) == events[i] # None => filed[i] # None /\ filed[i].owner = events[i].owner

FilesInv ==
  /\ FilesTypeOK /\ LogHasItsRecord
  /\ \A c \in StoreCalls : Running(c) => Turn(c) /\ StillStands(c)

(* Two calls for one id are not at the head of its chain together.         *)
LEMMA HeadsAreOne ==
  ASSUME OneProviderEach, NEW c \in StoreCalls, NEW d \in StoreCalls, Turn(c), Turn(d), c.id = d.id
  PROVE  c = d
BY DEF OneProviderEach, Turn

(* A call that goes on or is answered keeps the invariant, if it changes   *)
(* nothing but its own id's files and leaves them as it must.              *)
LEMMA CallInv ==
  ASSUME OneProviderEach, FilesInv, NEW c \in StoreCalls, Turn(c),
         NEW at \in Active \cup Answers, progress' = [progress EXCEPT ![c] = at],
         at \in Active => UNCHANGED chain, at \in Answers => Settle(c, at),
         filed' \in [Paths -> Contents \cup {None}], events' \in [Paths -> Contents \cup {None}],
         \A i \in Paths : i # c.id => filed'[i] = filed[i] /\ events'[i] = events[i],
         LogAt(c.id)', at \in Active => StillStands(c)'
  PROVE  FilesInv'
<1>1. c.id \in Paths /\ c.provider \in Providers BY CallsAssumption
<1>2. chain \in [Providers -> [Paths -> Seq(StoreCalls)]] /\ chain[c.provider][c.id] # <<>>
  BY DEF FilesInv, FilesTypeOK, Turn
<1>3. FilesTypeOK'
  <2>1. progress' \in [StoreCalls -> {"idle", "queued"} \cup Active \cup Answers]
    BY DEF FilesInv, FilesTypeOK
  <2>2. chain[c.provider][c.id] \in Seq(StoreCalls) BY <1>1, <1>2
  <2>3. Tail(chain[c.provider][c.id]) \in Seq(StoreCalls) BY <1>2, <2>2
  <2>4. chain' \in [Providers -> [Paths -> Seq(StoreCalls)]]
    <3>1. CASE at \in Active BY <1>2, <3>1
    <3>2. CASE at \in Answers
      <4>1. chain' = [chain EXCEPT ![c.provider][c.id] = Tail(chain[c.provider][c.id])]
        BY <3>2 DEF Settle
      <4> QED BY <1>1, <1>2, <2>3, <4>1
    <3> QED BY <3>1, <3>2
  <2> QED BY <2>1, <2>4 DEF FilesTypeOK
<1>4. LogHasItsRecord'
  BY <1>1 DEF FilesInv, LogHasItsRecord, LogAt
<1>5. ASSUME NEW d \in StoreCalls, Running(d)' PROVE Turn(d)' /\ StillStands(d)'
  <2>1. CASE d = c
    <3>1. at \in Active BY <1>5, <2>1 DEF Running, FilesInv, FilesTypeOK, Active, Answers
    <3> QED BY <2>1, <3>1 DEF Turn
  <2>2. CASE d # c
    <3>1. Running(d) /\ progress'[d] = progress[d] BY <1>5, <2>2 DEF Running, FilesInv, FilesTypeOK
    <3>2. Turn(d) /\ StillStands(d) BY <3>1 DEF FilesInv
    <3>3. d.id # c.id BY <2>2, <3>2, HeadsAreOne
    <3>4. d.id \in Paths /\ d.provider \in Providers BY CallsAssumption
    <3>5. chain'[d.provider][d.id] = chain[d.provider][d.id]
      <4>1. CASE at \in Active BY <4>1
      <4>2. CASE at \in Answers
        <5>1. chain' = [chain EXCEPT ![c.provider][c.id] = Tail(chain[c.provider][c.id])]
          BY <4>2 DEF Settle
        <5>2. chain[d.provider] \in [Paths -> Seq(StoreCalls)] BY <1>2, <3>4
        <5> QED BY <1>1, <1>2, <3>3, <3>4, <5>1, <5>2
      <4> QED BY <4>1, <4>2
    <3>6. filed'[d.id] = filed[d.id] /\ events'[d.id] = events[d.id] BY <3>3, <3>4
    <3>7. Turn(d)' BY <3>2, <3>5 DEF Turn
    <3>8. StillStands(d)' BY <3>1, <3>2, <3>6 DEF StillStands
    <3> QED BY <3>7, <3>8
  <2> QED BY <2>1, <2>2
<1> QED BY <1>3, <1>4, <1>5 DEF FilesInv

(* Before the first call there are neither files nor calls.                *)
LEMMA FilesInitInv == FileInit => FilesInv
BY DEF FileInit, FilesInv, FilesTypeOK, LogHasItsRecord, Running, Active

(* A call that is issued goes to the end of the chain.                     *)
LEMMA IssueInv == ASSUME FilesInv, NEW c \in StoreCalls, Issue(c) PROVE FilesInv'
<1>1. c.id \in Paths /\ c.provider \in Providers BY CallsAssumption
<1>2. chain \in [Providers -> [Paths -> Seq(StoreCalls)]] BY DEF FilesInv, FilesTypeOK
<1>3. chain[c.provider][c.id] \in Seq(StoreCalls) BY <1>1, <1>2
<1>4. FilesTypeOK' /\ LogHasItsRecord'
  <2>1. Append(chain[c.provider][c.id], c) \in Seq(StoreCalls) BY <1>3
  <2>2. chain' \in [Providers -> [Paths -> Seq(StoreCalls)]] BY <1>1, <1>2, <2>1 DEF Issue
  <2> QED BY <2>2 DEF Issue, FilesInv, FilesTypeOK, LogHasItsRecord
<1>5. ASSUME NEW d \in StoreCalls, Running(d)' PROVE Turn(d)' /\ StillStands(d)'
  <2>1. Running(d) /\ progress'[d] = progress[d]
    BY <1>5 DEF Issue, Running, FilesInv, FilesTypeOK, Active
  <2>2. Turn(d) /\ StillStands(d) BY <2>1 DEF FilesInv
  <2>3. d.id \in Paths /\ d.provider \in Providers BY CallsAssumption
  <2>4. chain'[d.provider][d.id] \in {chain[d.provider][d.id], Append(chain[d.provider][d.id], c)}
    BY <1>1, <1>2, <2>3 DEF Issue
  <2>5. chain[d.provider][d.id] \in Seq(StoreCalls) BY <1>2, <2>3
  <2>6. Turn(d)'
    <3> DEFINE s == chain[d.provider][d.id]
    <3>1. s \in Seq(StoreCalls) /\ s # <<>> /\ Head(s) = d BY <2>2, <2>5 DEF Turn
    <3>2. Append(s, c) # <<>> /\ Head(Append(s, c)) = d BY <3>1
    <3> QED BY <2>4, <3>1, <3>2 DEF Turn
  <2>7. StillStands(d)' BY <2>1, <2>2 DEF StillStands, Issue
  <2> QED BY <2>6, <2>7
<1> QED BY <1>4, <1>5 DEF FilesInv

(* A step of a call keeps the invariant.                                   *)
LEMMA StepInv == ASSUME OneProviderEach, FilesInv, NEW c \in StoreCalls, Step(c) PROVE FilesInv'
<1>1. c.id \in Paths /\ c.op \in Ops /\ File(c) \in Contents /\ File(c).owner = c.owner /\ File(c) # None
      /\ File(c).gen = c.gen
  BY CallsAssumption, NoneAssumption DEF File, Contents
<1>2. Running(c) => Turn(c) /\ StillStands(c) BY DEF FilesInv
<1>3. /\ filed \in [Paths -> Contents \cup {None}] /\ events \in [Paths -> Contents \cup {None}]
      /\ progress \in [StoreCalls -> {"idle", "queued"} \cup Active \cup Answers] /\ LogAt(c.id)
  BY <1>1 DEF FilesInv, FilesTypeOK, LogHasItsRecord, LogAt
<1>4. CASE UNCHANGED <<filed, events>>
  <2>1. PICK at \in Active \cup Answers :
           /\ progress' = [progress EXCEPT ![c] = at] /\ Turn(c)
           /\ (at \in Active /\ UNCHANGED chain) \/ (at \in Answers /\ Settle(c, at))
           /\ at \in Active => StillStands(c)'
    <3>1. CASE PutReads(c)
      BY <3>1, <1>1, <1>3 DEF PutReads, Starts, Proceeds, Replies, StillStands, Active, Answers, OwnerCanWrite
    <3>2. CASE PutEventsReads(c)
      BY <3>2, <1>1, <1>3 DEF PutEventsReads, Starts, Proceeds, Replies, StillStands, Active, Answers,
         OwnerCanWrite, OwnedBy, IsCurrent
    <3>3. CASE PutEventsReadsLog(c)
      BY <3>3, <1>1, <1>2, <1>3 DEF PutEventsReadsLog, Proceeds, Replies, StillStands, Active, Answers,
         OwnerCanWrite, OwnedBy, IsCurrent, Running
    <3>4. CASE DeleteReads(c)
      BY <3>4, <1>1, <1>3 DEF DeleteReads, Starts, Proceeds, Replies, StillStands, Active, Answers, OwnedBy
    <3>5. CASE Fails(c)
      BY <3>5, <1>2 DEF Fails, Replies, Active, Answers, Open, Running
    <3>6. CASE PutWrites(c)
      BY <3>6, <1>2 DEF PutWrites, Replies, Active, Answers, Running
    <3>7. CASE PutEventsWrites(c)
      BY <3>7, <1>2 DEF PutEventsWrites, Replies, Active, Answers, Running
    <3>8. CASE DeleteRemoves(c)
      BY <3>8, <1>1, <1>2, <1>3, <1>4 DEF DeleteRemoves, Proceeds, Replies, StillStands, Active, Answers, OwnedBy, Running
    <3> QED BY <3>1, <3>2, <3>3, <3>4, <3>5, <3>6, <3>7, <3>8 DEF Step
  <2>2. LogAt(c.id)' BY <1>3, <1>4 DEF LogAt
  <2>3. Active \cap Answers = {} BY DEF Active, Answers
  <2> QED BY <1>3, <1>4, <2>1, <2>2, <2>3, CallInv
<1>5. CASE PutWrites(c)
  <2>1. Running(c) /\ StillStands(c) /\ Turn(c) BY <1>2, <1>5 DEF PutWrites, Running, Active
  <2>2. filed'[c.id] = File(c) /\ events' = events BY <1>1, <1>3, <1>5 DEF PutWrites
  <2>3. LogAt(c.id)'
    BY <1>1, <1>3, <1>5, <2>1, <2>2 DEF LogAt, StillStands, PutWrites, OwnerCanWrite
  <2> QED BY <1>1, <1>3, <1>5, <2>1, <2>3, CallInv DEF PutWrites, Replies, Active, Answers
<1>6. CASE PutEventsWrites(c)
  <2>1. Running(c) /\ StillStands(c) /\ Turn(c) BY <1>2, <1>6 DEF PutEventsWrites, Running, Active
  <2>2. LogAt(c.id)'
    BY <1>1, <1>3, <1>6, <2>1 DEF LogAt, StillStands, PutEventsWrites, OwnedBy
  <2> QED BY <1>1, <1>3, <1>6, <2>1, <2>2, CallInv DEF PutEventsWrites, Replies, Active, Answers
<1>7. CASE DeleteRemoves(c)
  <2>1. Running(c) /\ StillStands(c) /\ Turn(c) BY <1>2, <1>7 DEF DeleteRemoves, Running, Active
  <2>2. LogAt(c.id)'
    BY <1>1, <1>3, <1>7, <2>1 DEF LogAt, StillStands, DeleteRemoves
  <2>3. CASE progress[c] = "checked"
    <3>1. progress' = [progress EXCEPT ![c] = "unlogged"] /\ UNCHANGED <<chain, filed>>
          /\ events' = [events EXCEPT ![c.id] = None]
      BY <1>7, <2>3 DEF DeleteRemoves, Proceeds
    <3>2. StillStands(c)' BY <1>1, <1>3, <1>7, <2>1, <3>1 DEF StillStands, DeleteRemoves
    <3> QED BY <1>1, <1>3, <2>1, <2>2, <3>1, <3>2, CallInv DEF Active, Answers
  <2>4. CASE progress[c] = "unlogged"
    <3>1. PICK a \in {"absent", "deleted"} : progress' = [progress EXCEPT ![c] = a] /\ Settle(c, a)
      BY <1>7, <2>4 DEF DeleteRemoves, Replies
    <3>2. events' = events /\ filed' = [filed EXCEPT ![c.id] = None]
      BY <1>7, <2>4 DEF DeleteRemoves
    <3>3. a \in Answers /\ a \notin Active BY <3>1 DEF Active, Answers
    <3> QED BY <1>1, <1>3, <2>1, <2>2, <3>1, <3>2, <3>3, CallInv
  <2> QED BY <1>7, <2>3, <2>4 DEF DeleteRemoves
<1> QED BY <1>4, <1>5, <1>6, <1>7
    DEF Step, PutReads, PutEventsReads, PutEventsReadsLog, DeleteReads, Fails

(* A process that ends takes its chains with it.                           *)
LEMMA ProcessEndsInv == ASSUME FilesInv, NEW p \in Providers, ProcessEnds(p) PROVE FilesInv'
<1>1. FilesTypeOK' /\ LogHasItsRecord'
  <2>1. <<>> \in Seq(StoreCalls) OBVIOUS
  <2>2. chain' \in [Providers -> [Paths -> Seq(StoreCalls)]]
    BY <2>1 DEF ProcessEnds, FilesInv, FilesTypeOK
  <2>3. progress' \in [StoreCalls -> {"idle", "queued"} \cup Active \cup Answers]
    BY DEF ProcessEnds, FilesInv, FilesTypeOK, Answers
  <2> QED BY <2>2, <2>3 DEF ProcessEnds, FilesInv, FilesTypeOK, LogHasItsRecord
<1>2. ASSUME NEW d \in StoreCalls, Running(d)' PROVE Turn(d)' /\ StillStands(d)'
  <2>1. Running(d) /\ progress'[d] = progress[d] /\ d.provider # p
    BY <1>2 DEF ProcessEnds, Running, Active, Open
  <2>2. Turn(d) /\ StillStands(d) BY <2>1 DEF FilesInv
  <2>3. chain'[d.provider] = chain[d.provider]
    BY <2>1, CallsAssumption DEF ProcessEnds, FilesInv, FilesTypeOK
  <2>4. Turn(d)' BY <2>2, <2>3 DEF Turn
  <2>5. StillStands(d)' BY <2>1, <2>2 DEF StillStands, ProcessEnds
  <2> QED BY <2>4, <2>5
<1> QED BY <1>1, <1>2 DEF FilesInv

(* Every step keeps the invariant.                                         *)
LEMMA FileNextInv == ASSUME OneProviderEach, FilesInv, [FileNext]_fileVars PROVE FilesInv'
<1>1. CASE UNCHANGED fileVars
  <2> USE <1>1 DEF fileVars
  <2>1. FilesTypeOK' /\ LogHasItsRecord' BY DEF FilesInv, FilesTypeOK, LogHasItsRecord
  <2>2. ASSUME NEW d \in StoreCalls, Running(d)' PROVE Turn(d)' /\ StillStands(d)'
    BY <2>2 DEF FilesInv, Running, Turn, StillStands
  <2> QED BY <2>1, <2>2 DEF FilesInv
<1> QED BY <1>1, IssueInv, StepInv, ProcessEndsInv DEF FileNext, FilesDone

(* A log never outlives its response, nor stands under somebody else's.    *)
THEOREM LogsHaveRecords == ASSUME OneProviderEach PROVE FileSpec => []LogHasItsRecord
<1>1. FileInit => FilesInv BY FilesInitInv
<1>2. FilesInv /\ [FileNext]_fileVars => FilesInv' BY FileNextInv
<1>3. FilesInv => LogHasItsRecord BY DEF FilesInv
<1> QED BY <1>1, <1>2, <1>3, PTL DEF FileSpec

(* The answer a call has been given, as AtomicStore has it.                *)
Told(c) == IF progress[c] \in Answers THEN progress[c] ELSE "none"

(* A call that is answered is an atomic one at that moment.                *)
LEMMA StepIsAtomic ==
  ASSUME OneProviderEach, FilesInv, NEW c \in StoreCalls, Step(c)
  PROVE  [Store!Next]_Store!vars
<1> DEFINE told == [d \in StoreCalls |-> Told(d)]
<1>1. c.id \in Paths /\ c.op \in Ops BY CallsAssumption
<1>2. Running(c) => StillStands(c) BY DEF FilesInv
<1>3. /\ progress \in [StoreCalls -> {"idle", "queued"} \cup Active \cup Answers]
      /\ filed \in [Paths -> Contents \cup {None}] /\ events \in [Paths -> Contents \cup {None}]
  BY DEF FilesInv, FilesTypeOK
<1>4. ASSUME NEW at \in Active, Proceeds(c, at), Open(c) PROVE told' = told
  BY <1>3, <1>4 DEF Proceeds, Told, Active, Answers, Open
<1>5. ASSUME NEW a \in Answers, Replies(c, a), Open(c) PROVE Store!Answer(c, a)
  <2>1. told[c] = "none" BY <1>5 DEF Told, Open, Active, Answers
  <2>2. told' = [told EXCEPT ![c] = a] BY <1>3, <1>5 DEF Replies, Told
  <2> QED BY <2>1, <2>2 DEF Store!Answer, Told
<1>6. Store!Put(c) \/ Store!PutEvents(c) \/ Store!Delete(c) \/ Store!Unlog(c) \/ Store!Fail(c)
      => Store!Next
  BY DEF Store!Next
<1>7. UNCHANGED <<filed, events>> /\ told' = told => UNCHANGED Store!vars
  BY DEF Store!vars, Told
<1>8. CASE PutReads(c)
  <2>1. Open(c) BY <1>8 DEF PutReads, Starts, Open
  <2>2. CASE OwnerCanWrite(filed[c.id], c)
    BY <1>8, <2>1, <2>2, <1>4, <1>7 DEF PutReads, Active
  <2>3. CASE ~OwnerCanWrite(filed[c.id], c)
    <3>1. Store!Answer(c, "refused") BY <1>8, <2>1, <2>3, <1>5 DEF PutReads, Answers
    <3>2. Store!Put(c) BY <1>8, <2>3, <3>1 DEF Store!Put, Store!Foreign, PutReads, Starts, OwnerCanWrite
    <3> QED BY <3>2, <1>6
  <2> QED BY <2>2, <2>3
<1>9. CASE PutWrites(c)
  <2>1. Open(c) /\ Running(c) BY <1>9 DEF PutWrites, Open, Running, Active
  <2>2. Store!Answer(c, "done") BY <1>9, <2>1, <1>5 DEF PutWrites, Answers
  <2>3. ~Store!Foreign(c) BY <1>2, <1>9, <2>1 DEF Store!Foreign, StillStands, OwnerCanWrite, PutWrites
  <2>4. Store!Put(c) BY <1>9, <2>2, <2>3 DEF Store!Put, PutWrites, File, Store!File
  <2> QED BY <2>4, <1>6
<1>10. CASE PutEventsReads(c)
  <2>1. Open(c) /\ c.op = "putEvents" BY <1>10 DEF PutEventsReads, Starts, Open
  <2>2. CASE ~OwnerCanWrite(filed[c.id], c)
    <3>1. Store!Answer(c, "refused") BY <1>10, <2>1, <2>2, <1>5 DEF PutEventsReads, Answers
    <3>2. Store!PutEvents(c)
      BY <1>10, <2>1, <2>2, <3>1 DEF Store!PutEvents, Store!Foreign, PutEventsReads, OwnerCanWrite
    <3> QED BY <3>2, <1>6
  <2>3. CASE OwnerCanWrite(filed[c.id], c) /\ ~IsCurrent(filed[c.id], c)
    <3>1. Store!Answer(c, "discarded") BY <1>10, <2>1, <2>3, <1>5 DEF PutEventsReads, Answers
    <3>2. Store!PutEvents(c)
      BY <1>10, <2>1, <2>3, <3>1
      DEF Store!PutEvents, Store!Foreign, Store!Owned, PutEventsReads, OwnerCanWrite, IsCurrent
    <3> QED BY <3>2, <1>6
  <2>4. CASE OwnerCanWrite(filed[c.id], c) /\ IsCurrent(filed[c.id], c)
    BY <1>10, <2>1, <2>4, <1>4, <1>7 DEF PutEventsReads, Active
  <2> QED BY <2>2, <2>3, <2>4
<1>11. CASE PutEventsReadsLog(c)
  <2>1. Open(c) /\ Running(c) BY <1>11 DEF PutEventsReadsLog, Open, Running, Active
  <2>2. OwnedBy(filed[c.id], c) BY <1>2, <1>11, <2>1 DEF StillStands, PutEventsReadsLog
  <2>3. OwnerCanWrite(events[c.id], c)
    BY <1>1, <2>2 DEF FilesInv, LogHasItsRecord, OwnedBy, OwnerCanWrite
  <2> QED BY <1>11, <2>1, <2>3, <1>4, <1>7 DEF PutEventsReadsLog, Active
<1>12. CASE PutEventsWrites(c)
  <2>1. Open(c) /\ Running(c) BY <1>12 DEF PutEventsWrites, Open, Running, Active
  <2>2. OwnedBy(filed[c.id], c) /\ IsCurrent(filed[c.id], c)
    BY <1>2, <1>12, <2>1 DEF StillStands, PutEventsWrites
  <2>3. Store!Answer(c, "done") BY <1>12, <2>1, <1>5 DEF PutEventsWrites, Answers
  <2>4. Store!PutEvents(c)
    BY <1>12, <2>2, <2>3 DEF Store!PutEvents, Store!Owned, PutEventsWrites, OwnedBy, IsCurrent, File, Store!File
  <2> QED BY <2>4, <1>6
<1>13. CASE DeleteReads(c)
  <2>1. Open(c) BY <1>13 DEF DeleteReads, Starts, Open
  <2>2. CASE OwnedBy(filed[c.id], c)
    BY <1>13, <2>1, <2>2, <1>4, <1>7 DEF DeleteReads, Active
  <2>3. CASE ~OwnedBy(filed[c.id], c)
    <3>1. Store!Answer(c, "absent") BY <1>13, <2>1, <2>3, <1>5 DEF DeleteReads, Answers
    <3>2. Store!Delete(c) BY <1>13, <2>3, <3>1 DEF Store!Delete, Store!Owned, DeleteReads, Starts, OwnedBy
    <3> QED BY <3>2, <1>6
  <2> QED BY <2>2, <2>3
<1>14. CASE DeleteRemoves(c)
  <2>1. Open(c) /\ Running(c) BY <1>14 DEF DeleteRemoves, Open, Running, Active
  <2>2. OwnedBy(filed[c.id], c) /\ (progress[c] = "unlogged" => events[c.id] = None)
    BY <1>2, <1>14, <2>1 DEF StillStands, DeleteRemoves
  <2>3. CASE progress[c] = "checked"
    <3>1. Proceeds(c, "unlogged") /\ UNCHANGED filed /\ events' = [events EXCEPT ![c.id] = None]
      BY <1>14, <2>3 DEF DeleteRemoves
    <3>2. told' = told BY <2>1, <3>1, <1>4 DEF Active
    <3>3. told[c] = "none" BY <2>3 DEF Told, Answers
    <3>4. Store!Unlog(c) BY <1>14, <2>2, <3>1, <3>2, <3>3 DEF Store!Unlog, Store!Owned, OwnedBy, DeleteRemoves, Told
    <3> QED BY <3>4, <1>6
  <2>4. CASE progress[c] = "unlogged"
    <3>1. Replies(c, "deleted") /\ filed' = [filed EXCEPT ![c.id] = None] /\ events' = events
      BY <1>14, <2>2, <2>4 DEF DeleteRemoves, OwnedBy
    <3>2. Store!Answer(c, "deleted") BY <2>1, <3>1, <1>5 DEF Answers
    <3>3. events' = [events EXCEPT ![c.id] = None] BY <1>1, <1>3, <2>2, <2>4, <3>1
    <3>4. Store!Delete(c) BY <1>14, <2>2, <3>1, <3>2, <3>3 DEF Store!Delete, Store!Owned, OwnedBy, DeleteRemoves
    <3> QED BY <3>4, <1>6
  <2> QED BY <1>14, <2>3, <2>4 DEF DeleteRemoves
<1>15. CASE Fails(c)
  <2>1. Store!Answer(c, "failed") BY <1>15, <1>5 DEF Fails, Answers
  <2>2. Store!Fail(c) BY <1>15, <2>1 DEF Store!Fail, Fails
  <2> QED BY <2>2, <1>6
<1> QED BY <1>8, <1>9, <1>10, <1>11, <1>12, <1>13, <1>14, <1>15 DEF Step

(* So is any step.                                                         *)
LEMMA FileNextIsAtomic ==
  ASSUME OneProviderEach, FilesInv, [FileNext]_fileVars
  PROVE  [Store!Next]_Store!vars
<1> DEFINE told == [d \in StoreCalls |-> Told(d)]
<1>1. progress \in [StoreCalls -> {"idle", "queued"} \cup Active \cup Answers] BY DEF FilesInv, FilesTypeOK
<1>2. ASSUME NEW c \in StoreCalls, Issue(c) PROVE [Store!Next]_Store!vars
  <2>1. told' = told BY <1>1, <1>2 DEF Issue, Told, Answers
  <2> QED BY <1>2, <2>1 DEF Issue, Store!vars, Told
<1>3. ASSUME NEW p \in Providers, ProcessEnds(p) PROVE [Store!Next]_Store!vars
  <2>1. ASSUME NEW c \in StoreCalls
        PROVE  Told(c)' = IF told[c] = "none" /\ Told(c)' = "lost" THEN "lost" ELSE told[c]
    BY <1>3, <2>1 DEF ProcessEnds, Told, Answers, Open, Active
  <2>2. told' = [c \in StoreCalls |-> IF told[c] = "none" /\ told'[c] = "lost" THEN "lost" ELSE told[c]]
    BY <2>1
  <2>3. UNCHANGED <<filed, events>> BY <1>3 DEF ProcessEnds
  <2>4. Store!Lose BY <2>2, <2>3 DEF Store!Lose, Told
  <2> QED BY <2>4 DEF Store!Next
<1>4. CASE UNCHANGED fileVars
  BY <1>4 DEF fileVars, Store!vars
<1> QED BY <1>2, <1>3, <1>4, StepIsAtomic DEF FileNext, FilesDone

(* The calls through one provider have the effect of atomic ones.          *)
THEOREM FilesAreAtomic == ASSUME OneProviderEach PROVE FileSpec => StoresAtomically
<1>1. FileInit => FilesInv BY FilesInitInv
<1>2. FilesInv /\ [FileNext]_fileVars => FilesInv' BY FileNextInv
<1>3. FileInit => Store!Init BY DEF FileInit, Store!Init, Answers
<1>4. FilesInv /\ [FileNext]_fileVars => [Store!Next]_Store!vars BY FileNextIsAtomic
<1> QED BY <1>1, <1>2, <1>3, <1>4, PTL DEF FileSpec, StoresAtomically, Store!Spec
=============================================================================
