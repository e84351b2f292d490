------------------------------ MODULE FileStore ------------------------------
(***************************************************************************)
(* FileResponseProvider (packages/agentserver/src/store/file.ts): the      *)
(* default store, a response and its replay log in one JSON file each      *)
(* under a root directory.  A put reads, checks and writes; a putEvents    *)
(* reads the response, then the log, and writes; a delete reads and        *)
(* removes the log and then the response.  Each of these accesses is an    *)
(* await of its own and may fail; a write replaces the file in one step    *)
(* (write-then-rename, json-file.ts).  #serialized chains the calls for    *)
(* one id, per provider: a server that is given no store makes a provider  *)
(* of its own over the same root (server.ts), and so does a second process.*)
(* The reads (get, getEvents, assertWritable) are one access that changes  *)
(* nothing and waits for nobody.                                           *)
(***************************************************************************)
EXTENDS Naturals, Sequences

CONSTANTS
  Providers,  \* instances of FileResponseProvider over one root
  Paths,      \* response ids: each names a file of either kind
  Users,
  Gens,       \* the generations: one for each turn that is stored
  StoreCalls, \* the calls that may be made, each at most once
  None

Ops == {"put", "putEvents", "delete"}
Contents == [gen : Gens, owner : Users]
ASSUME CallsAssumption ==
  StoreCalls \subseteq [n : Nat, provider : Providers, op : Ops, id : Paths, owner : Users, gen : Gens]
ASSUME NoneAssumption == None \notin Contents

VARIABLES
  filed,   \* per id: the generation and owner in {id}.json, or None
  events,  \* per id: the generation and owner in events/{id}.json, or None
  chain,   \* per provider and id: the calls chained, whose last is in #pending
  progress \* per call: how far it is, or how it was answered
fileVars == <<filed, events, chain, progress>>

(* "checked" is past the first read; "cleared" past the read of the log;   *)
(* "unlogged" has removed the log.                                         *)
Active  == {"checked", "cleared", "unlogged"}
Answers == {"done", "refused", "discarded", "deleted", "absent", "failed", "lost"}
Open(c) == progress[c] \in {"queued"} \cup Active

FileInit ==
  /\ filed = [i \in Paths |-> None]
  /\ events = [i \in Paths |-> None]
  /\ chain = [p \in Providers |-> [i \in Paths |-> <<>>]]
  /\ progress = [c \in StoreCalls |-> "idle"]

-----------------------------------------------------------------------------
(* The rules of provider.ts.                                               *)

File(c) == [gen |-> c.gen, owner |-> c.owner]
OwnerCanWrite(f, c) == f # None => f.owner = c.owner
OwnedBy(f, c) == f # None /\ f.owner = c.owner
IsCurrent(f, c) == f # None /\ f.gen = c.gen

(* #serialized: a call waits until those before it have settled, however   *)
(* they did.                                                               *)
Issue(c) ==
  /\ progress[c] = "idle"
  /\ progress' = [progress EXCEPT ![c] = "queued"]
  /\ chain' = [chain EXCEPT ![c.provider][c.id] = Append(@, c)]
  /\ UNCHANGED <<filed, events>>

(* Deviation: the calls are not chained.                                   *)
AnyTurn(c) == \E k \in DOMAIN chain[c.provider][c.id] : chain[c.provider][c.id][k] = c
Turn(c) == chain[c.provider][c.id] # <<>> /\ Head(chain[c.provider][c.id]) = c

Settle(c, a) == chain' = [chain EXCEPT ![c.provider][c.id] = Tail(@)]

Replies(c, a)   == progress' = [progress EXCEPT ![c] = a] /\ Settle(c, a)
Proceeds(c, at) == progress' = [progress EXCEPT ![c] = at] /\ UNCHANGED chain
Starts(c, op)   == c.op = op /\ progress[c] = "queued" /\ Turn(c)

-----------------------------------------------------------------------------
PutReads(c) ==
  /\ Starts(c, "put")
  /\ IF OwnerCanWrite(filed[c.id], c) THEN Proceeds(c, "checked") ELSE Replies(c, "refused")
  /\ UNCHANGED <<filed, events>>
PutWrites(c) ==
  /\ c.op = "put" /\ progress[c] = "checked"
  /\ filed' = [filed EXCEPT ![c.id] = File(c)]
  /\ Replies(c, "done")
  /\ UNCHANGED events

(* Ownership outranks the fence; a stale log is discarded silently.        *)
PutEventsReads(c) ==
  /\ Starts(c, "putEvents")
  /\ \/ ~OwnerCanWrite(filed[c.id], c) /\ Replies(c, "refused")
     \/ OwnerCanWrite(filed[c.id], c) /\ ~IsCurrent(filed[c.id], c) /\ Replies(c, "discarded")
     \/ OwnerCanWrite(filed[c.id], c) /\ IsCurrent(filed[c.id], c) /\ Proceeds(c, "checked")
  /\ UNCHANGED <<filed, events>>
PutEventsReadsLog(c) ==
  /\ c.op = "putEvents" /\ progress[c] = "checked"
  /\ IF OwnerCanWrite(events[c.id], c) THEN Proceeds(c, "cleared") ELSE Replies(c, "refused")
  /\ UNCHANGED <<filed, events>>
PutEventsWrites(c) ==
  /\ c.op = "putEvents" /\ progress[c] = "cleared"
  /\ events' = [events EXCEPT ![c.id] = File(c)]
  /\ Replies(c, "done")
  /\ UNCHANGED filed

DeleteReads(c) ==
  /\ Starts(c, "delete")
  /\ IF OwnedBy(filed[c.id], c) THEN Proceeds(c, "checked") ELSE Replies(c, "absent")
  /\ UNCHANGED <<filed, events>>

(* The log first; a response that is gone by then was not there.           *)
DeleteRemoves(c) ==
  /\ c.op = "delete"
  /\ \/ /\ progress[c] = "checked" /\ Proceeds(c, "unlogged")
        /\ events' = [events EXCEPT ![c.id] = None]
        /\ UNCHANGED filed
     \/ /\ progress[c] = "unlogged"
        /\ Replies(c, IF filed[c.id] = None THEN "absent" ELSE "deleted")
        /\ filed' = [filed EXCEPT ![c.id] = None]
        /\ UNCHANGED events

(* A read, a write or a removal fails.                                     *)
Fails(c) ==
  /\ Open(c) /\ (progress[c] = "queued" => Turn(c))
  /\ Replies(c, "failed")
  /\ UNCHANGED <<filed, events>>

(* The provider's process ends; its files stay, and the next process's     *)
(* provider finds them.                                                    *)
ProcessEnds(p) ==
  /\ \E c \in StoreCalls : c.provider = p /\ Open(c)
  /\ chain' = [chain EXCEPT ![p] = [i \in Paths |-> <<>>]]
  /\ progress' = [c \in StoreCalls |-> IF c.provider = p /\ Open(c) THEN "lost" ELSE progress[c]]
  /\ UNCHANGED <<filed, events>>

Step(c) ==
  \/ PutReads(c) \/ PutWrites(c)
  \/ PutEventsReads(c) \/ PutEventsReadsLog(c) \/ PutEventsWrites(c)
  \/ DeleteReads(c) \/ DeleteRemoves(c)
  \/ Fails(c)
FilesDone == (\A c \in StoreCalls : progress[c] \in Answers) /\ UNCHANGED fileVars
FileNext ==
  \/ \E c \in StoreCalls : Issue(c) \/ Step(c)
  \/ \E p \in Providers : ProcessEnds(p)
  \/ FilesDone
FileSpec == FileInit /\ [][FileNext]_fileVars

-----------------------------------------------------------------------------
(* Properties.                                                             *)

(* Every variable keeps the type its declaration states.                   *)
FilesTypeOK ==
  /\ filed \in [Paths -> Contents \cup {None}]
  /\ events \in [Paths -> Contents \cup {None}]
  /\ chain \in [Providers -> [Paths -> Seq(StoreCalls)]]
  /\ progress \in [StoreCalls -> {"idle", "queued"} \cup Active \cup Answers]

(* The calls through one provider have the effect of atomic ones, however  *)
(* their accesses interleave, fail or are cut off by a crash (file.ts      *)
(* #serialized and the checks inside it).                                  *)
Store == INSTANCE AtomicStore WITH
  Calls <- StoreCalls, Ids <- Paths, record <- filed, log <- events,
  answer <- [c \in StoreCalls |-> IF progress[c] \in Answers THEN progress[c] ELSE "none"]
StoresAtomically == Store!Spec

(* A replay log never outlives its response, nor stands under a response   *)
(* of somebody else, not even after a crash or a failure between the two   *)
(* removals of a delete (file.ts delete, putEvents).                       *)
LogHasItsRecord ==
  \A i \in Paths : events[i] # None => filed[i] # None /\ filed[i].owner = events[i].owner
=============================================================================
