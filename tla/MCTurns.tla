------------------------------- MODULE MCTurns -------------------------------
(***************************************************************************)
(* The turns of an agent for TLC: a behaviour is one of AgentRun, an agent *)
(* that a program runs itself, of HostedTurn, an agent behind the          *)
(* Responses protocol, of Lifecycle, what the server makes of a handler's  *)
(* events, of MemoryStore, where it keeps them, of Invocations, an agent   *)
(* behind the other protocol, of MemoryProvider, what an agent remembers   *)
(* across sessions, or of Skills, how runs come by theirs. The parts share *)
(* no state: the others stay where they began, where their invariants hold.*)
(***************************************************************************)
EXTENDS Lifecycle, MemoryProvider, Skills, AgentRun, HostedTurn, Invocations, MemoryStore, TLC

(* A handler's items: one in two forms, one without an id.                 *)
First     == [id |-> "a", rev |-> 1]
Second    == [id |-> "a", rev |-> 2]
Anonymous == [id |-> NoId, rev |-> 1]
SomeItems   == {First, Second, Anonymous}
SomeOutputs == {<<>>, <<First>>}

VARIABLE part
turnsVars == <<part, vars, agentVars, hostedVars, invokedVars, memoryVars, storeVars, skillVars>>

(* The names of sessions and scopes mean nothing: the first of each is the *)
(* one that is used first.                                                 *)
InOrder ==
  /\ memory["s1"].scope # "u2"
  /\ memory["s2"].scope # Absent => memory["s1"].scope # Absent

TenantsInOrder == \A r \in Runs : asks[r].tenant = "u2" => \E q \in Runs : asks[q].tenant = "u1"
OwnersInOrder ==
  \A t \in Turns : work[t].owner = "u2" => \E q \in Turns : work[q].owner = "u1"

TurnsInit ==
  /\ Init /\ AgentInit /\ HostedInit /\ InvokedInit /\ MemoryInit /\ StoreInit /\ SkillsInit
  /\ part \in {"run", "hosted", "events", "store", "invoked", "memory", "skills"}
  /\ part # "run" => ~service /\ ~explicit
  /\ part # "hosted" => ~named
  /\ part # "memory" => mode = "throw"
  /\ part # "skills" => ~alone /\ ~refreshes
TurnsNext ==
  \/ part = "run" /\ AgentNext
       /\ UNCHANGED <<part, vars, hostedVars, invokedVars, memoryVars, storeVars, skillVars>>
  \/ part = "hosted" /\ HostedNext
       /\ UNCHANGED <<part, vars, agentVars, invokedVars, memoryVars, storeVars, skillVars>>
  \/ part = "events" /\ Next
       /\ UNCHANGED <<part, agentVars, hostedVars, invokedVars, memoryVars, storeVars, skillVars>>
  \/ part = "invoked" /\ InvokedNext
       /\ UNCHANGED <<part, vars, agentVars, hostedVars, memoryVars, storeVars, skillVars>>
  \/ part = "memory" /\ MemoryNext /\ InOrder'
       /\ UNCHANGED <<part, vars, agentVars, hostedVars, invokedVars, storeVars, skillVars>>
  \/ part = "store" /\ StoreNext /\ OwnersInOrder'
       /\ UNCHANGED <<part, vars, agentVars, hostedVars, invokedVars, memoryVars, skillVars>>
  \/ part = "skills" /\ SkillsNext /\ TenantsInOrder'
       /\ UNCHANGED <<part, vars, agentVars, hostedVars, invokedVars, memoryVars, storeVars>>
TurnsSpec == TurnsInit /\ [][TurnsNext]_turnsVars

Perms == Permutations(Runs)
==============================================================================
