----------------------------- MODULE MemoryStore -----------------------------
(* The responses kept in process memory (agentserver/src/store/memory.ts) and  *)
(* how the turns of a server use them (server.ts, persistSnapshot): a response *)
(* under its id, an alias of it under the id of its conversation, a replay log *)
(* beside it.  Each access is one step; the two writes of a snapshot are two.  *)
EXTENDS Naturals, Sequences, SequencesExt
CONSTANTS Turns, NoTurn,
          Ids,           \* of responses; a client may choose one again
          Conversations, \* of conversations, "" for none; one may be a response's
          Owners, MaxResponses,
          MaxDrops       \* bound on the calls of DELETE

ASSUME MemoryStoreAssumption ==
  NoTurn \notin Turns /\ "" \notin Ids /\ Ids \subseteq STRING /\ MaxResponses \in Nat \ {0}

VARIABLES
  responses,   \* the map in its order: [id, turn]
  aliases,     \* of each id: [of, turn], of = "" for none
  aliasIdsFor, \* of each id: the aliases that point at it
  logs,        \* the map of the logs in its order: [id, turn]
  claims,      \* the turn that holds each id
  work,        \* what a turn is doing
  late,        \* the aliases set for a response that was gone by then
  drops
storeVars == <<responses, aliases, aliasIdsFor, logs, claims, work, late, drops>>

Names == Ids \cup (Conversations \ {""})
NoAlias == [of |-> "", turn |-> NoTurn]
NewWork == [pc |-> "new", id |-> "", conversation |-> "", owner |-> "", background |-> FALSE, writes |-> 0]

StoreInit ==
  /\ responses = <<>> /\ logs = <<>> /\ late = {} /\ drops = 0
  /\ aliases = [n \in Names |-> NoAlias] /\ aliasIdsFor = [n \in Names |-> {}]
  /\ claims = [i \in Ids |-> NoTurn]
  /\ work = [t \in Turns |-> NewWork]

-----------------------------------------------------------------------------
(* The maps.                                                                   *)
IdsOf(map) == {map[i].id : i \in DOMAIN map}
TurnAt(map, id) == (CHOOSE e \in ToSet(map) : e.id = id).turn
With(map, id, t) ==
  IF id \in IdsOf(map)
  THEN [i \in DOMAIN map |-> IF map[i].id = id THEN [map[i] EXCEPT !.turn = t] ELSE map[i]]
  ELSE Append(map, [id |-> id, turn |-> t])
Without(map, ids) == \* of the ids, at most one is in the map
  IF ids \cap IdsOf(map) = {} THEN map ELSE RemoveAt(map, CHOOSE i \in DOMAIN map : map[i].id \in ids)

(* #lookup, and the owner of what it finds.                                    *)
Lookup(n) ==
  CASE n \in IdsOf(responses) -> TurnAt(responses, n)
    [] n \notin IdsOf(responses) -> aliases[n].turn
Writable(n, owner) == Lookup(n) # NoTurn => work[Lookup(n)].owner = owner

(* Deviation: the edge of an alias that moves stays.                           *)
EdgesKept(n, target) == [aliasIdsFor EXCEPT ![target] = @ \cup {n}]

(* #setAlias: the edge of an alias that moves goes with it.                    *)
Edges(n, target) ==
  [aliasIdsFor EXCEPT ![aliases[n].of] = @ \ {n}, ![target] = @ \cup {n}]
SetAlias(n, target, t) ==
  /\ aliasIdsFor' = IF aliases[n] = NoAlias THEN [aliasIdsFor EXCEPT ![target] = @ \cup {n}]
                    ELSE Edges(n, target)
  /\ aliases' = [aliases EXCEPT ![n] = [of |-> target, turn |-> t]]

(* #dropAliasesFor                                                             *)
DropAliasesFor(ids) ==
  LET gone == UNION {aliasIdsFor[i] : i \in ids}
  IN  /\ aliases' = [n \in Names |-> IF n \in gone THEN NoAlias ELSE aliases[n]]
      /\ aliasIdsFor' = [n \in Names |-> IF n \in ids THEN {} ELSE aliasIdsFor[n]]

(* #evictOldest: the oldest response goes when a new one comes.                *)
Oldest(map, id) ==
  IF id \in IdsOf(map) \/ Len(map) < MaxResponses THEN {} ELSE {Head(map).id}

(* put of a response: another turn's under its id loses its aliases.           *)
PutResponse(id, t) ==
  LET evicted == Oldest(responses, id)
      replaced == {i \in {id} \cap IdsOf(responses) : TurnAt(responses, i) # t}
  IN  /\ responses' = With(Without(responses, evicted), id, t)
      /\ logs' = Without(logs, evicted)
      /\ DropAliasesFor(evicted \cup replaced)

-----------------------------------------------------------------------------
(* A create claims its id; ids of somebody else are refused.                   *)
Admit(t) ==
  /\ work[t].pc = "new"
  /\ \E id \in Ids, conversation \in Conversations, owner \in Owners, background \in BOOLEAN :
       /\ claims[id] = NoTurn
       /\ Writable(id, owner) /\ (conversation # "" => Writable(conversation, owner))
       /\ claims' = [claims EXCEPT ![id] = t]
       /\ work' = [work EXCEPT ![t] =
            [pc |-> "working", id |-> id, conversation |-> conversation, owner |-> owner,
             background |-> background, writes |-> 0]]
  /\ UNCHANGED <<responses, aliases, aliasIdsFor, logs, late, drops>>

HoldsClaim(t) == claims[work[t].id] = t
Released(t) == IF HoldsClaim(t) THEN [claims EXCEPT ![work[t].id] = NoTurn] ELSE claims

(* persistSnapshot: of a turn that still holds its id.  A turn writes when it  *)
(* is over; the route that cancelled a background turn writes as well.  A      *)
(* refusal of the store ends the write, not the turn.                          *)
MayWrite(t) == work[t].pc = "working" \/ (work[t].pc = "written" /\ work[t].background /\ work[t].writes = 1)
Linked(t) == work[t].conversation \notin {"", work[t].id}
Write(t) ==
  /\ MayWrite(t)
  /\ LET puts == HoldsClaim(t) /\ Writable(work[t].id, work[t].owner)
     IN  /\ work' = [work EXCEPT ![t].pc = IF puts /\ Linked(t) THEN "linking" ELSE "written", ![t].writes = @ + 1]
         /\ IF puts THEN PutResponse(work[t].id, t)
            ELSE UNCHANGED <<responses, aliases, aliasIdsFor, logs>>
  /\ UNCHANGED <<claims, late, drops>>

Link(t) ==
  /\ work[t].pc = "linking"
  /\ LET name == work[t].conversation
         id == work[t].id
     IN  IF Writable(name, work[t].owner)
         THEN /\ SetAlias(name, id, t)
              /\ late' = IF [id |-> id, turn |-> t] \in ToSet(responses) THEN late \ {name} ELSE late \cup {name}
         ELSE UNCHANGED <<aliases, aliasIdsFor, late>>
  /\ work' = [work EXCEPT ![t].pc = "written"]
  /\ UNCHANGED <<responses, logs, claims, drops>>

(* The turn is over; a background turn stores its log, if the record is its    *)
(* own.                                                                        *)
Finish(t) ==
  /\ work[t].pc = "written"
  /\ LET id == work[t].id
         own == work[t].background /\ HoldsClaim(t) /\ id \in IdsOf(responses) /\ TurnAt(responses, id) = t
     IN  logs' = IF own THEN With(Without(logs, Oldest(logs, id)), id, t) ELSE logs
  /\ work' = [work EXCEPT ![t] = [NewWork EXCEPT !.pc = "over", !.owner = work[t].owner]]
  /\ claims' = Released(t)
  /\ UNCHANGED <<responses, aliases, aliasIdsFor, late, drops>>

-----------------------------------------------------------------------------
(* delete: an alias loses its edge, a response its log and its aliases.        *)
Drop(n) ==
  IF aliases[n] # NoAlias
  THEN /\ aliasIdsFor' = [aliasIdsFor EXCEPT ![aliases[n].of] = @ \ {n}]
       /\ aliases' = [aliases EXCEPT ![n] = NoAlias]
       /\ UNCHANGED <<responses, logs>>
  ELSE /\ responses' = Without(responses, {n}) /\ logs' = Without(logs, {n})
       /\ DropAliasesFor({n})

(* DELETE /responses/{id}: not of a background turn that still works; of one   *)
(* that is winding down the claim goes as well.                                *)
RunOf(n, owner) ==
  {t \in Turns : n \in Ids /\ claims[n] = t /\ work[t].background /\ work[t].owner = owner}
DeleteNamed(n, owner) ==
  /\ drops < MaxDrops /\ drops' = drops + 1
  /\ Lookup(n) # NoTurn /\ work[Lookup(n)].owner = owner
  /\ \A t \in RunOf(n, owner) : work[t].writes > 0
  /\ Drop(n)
  /\ claims' = IF RunOf(n, owner) = {} THEN claims ELSE [claims EXCEPT ![n] = NoTurn]
  /\ UNCHANGED <<work, late>>

StoreDone == (\A t \in Turns : work[t].pc = "over") /\ UNCHANGED storeVars

StoreNext ==
  \/ \E t \in Turns : Admit(t) \/ Write(t) \/ Link(t) \/ Finish(t)
  \/ \E n \in Names, owner \in Owners : DeleteNamed(n, owner)
  \/ StoreDone
StoreSpec == StoreInit /\ [][StoreNext]_storeVars

-----------------------------------------------------------------------------
(* The reverse index is the aliases turned round; logs stay beside responses,  *)
(* and both within the cap.                                                    *)
IndexInStep ==
  /\ \A n \in Names : aliasIdsFor[n] = {a \in Names : aliases[a].of = n}
  /\ Len(responses) <= MaxResponses /\ IdsOf(logs) \subseteq IdsOf(responses)

(* A conversation id leads to the response that its newest turn has written    *)
(* as long as that is stored, and to nothing when it is deleted, evicted or    *)
(* replaced by another turn's - unless that came between the two writes.       *)
AliasesFollow ==
  \A n \in Names : aliases[n] # NoAlias /\ n \notin late =>
    [id |-> aliases[n].of, turn |-> aliases[n].turn] \in ToSet(responses)

(* What leads to a response goes and comes with it.                            *)
LeadsToTheResponse == IndexInStep /\ AliasesFollow
=============================================================================
