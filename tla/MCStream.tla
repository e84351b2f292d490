------------------------------- MODULE MCStream -------------------------------
(***************************************************************************)
(* What a turn is connected to, for TLC: a behaviour is one of             *)
(* BackgroundRun, a run of at most MaxDelivered events over a cap that it  *)
(* can cross by more than one, with two subscribers of which one may stop, *)
(* one of ForegroundStream, one of FileStore, or one of McpConnection.     *)
(* They share no state: the others stay where they began, where their      *)
(* properties hold.                                                        *)
(***************************************************************************)
EXTENDS BackgroundRun, ForegroundStream, McpConnection, FileStore

SomeCursors == {-1, 0, 3}

(* The calls of a store in files: two owners want one id, each to store a  *)
(* turn and its log under it, and each may delete.                         *)
CallOf(n, op, owner, turn) ==
  [n |-> n, provider |-> "p1", op |-> op, id |-> "r1", owner |-> owner, gen |-> turn]
OneProvider == {"p1"}
OneId       == {"r1"}
TwoOwners   == {"alice", "bob"}
TwoGens     == {"g1", "g2"}
OnePath     ==
  {CallOf(1, "put", "alice", "g1"), CallOf(2, "putEvents", "alice", "g1"), CallOf(3, "delete", "alice", "g1"),
   CallOf(4, "put", "bob", "g2"), CallOf(5, "putEvents", "bob", "g2"), CallOf(6, "delete", "bob", "g2")}

VARIABLE part

StreamInit ==
  part \in {"run", "turn", "files", "mcp"} /\ Init /\ ForegroundInit /\ FileInit /\ McpInit
StreamNext ==
  \/ part = "run" /\ Next /\ UNCHANGED <<part, foregroundVars, fileVars, mcpVars>>
  \/ part = "turn" /\ ForegroundNext /\ UNCHANGED <<part, vars, fileVars, mcpVars>>
  \/ part = "files" /\ FileNext /\ UNCHANGED <<part, vars, foregroundVars, mcpVars>>
  \/ part = "mcp" /\ McpNext /\ UNCHANGED <<part, vars, foregroundVars, fileVars>>

(* The fairness of the modules.                                            *)
OfRun(A)  == part = "run" /\ A /\ UNCHANGED <<part, foregroundVars, fileVars, mcpVars>>
OfTurn(A) == part = "turn" /\ A /\ UNCHANGED <<part, vars, fileVars, mcpVars>>
OfMcp(A)  == part = "mcp" /\ A /\ UNCHANGED <<part, vars, foregroundVars, fileVars>>
StreamSpec ==
  /\ StreamInit /\ [][StreamNext]_<<part, vars, foregroundVars, fileVars, mcpVars>>
  /\ WF_vars(OfRun(RunStep)) /\ \A f \in Followers : WF_vars(OfRun(Pull(f)))
  /\ WF_foregroundVars(OfTurn(HandlerStep)) /\ WF_foregroundVars(OfTurn(SourceReturns))
  /\ WF_foregroundVars(OfTurn(StoreStep)) /\ WF_foregroundVars(OfTurn(DrainEnds))
  /\ \A c \in Clients : WF_mcpVars(OfMcp(AttemptSettles(c))) /\ WF_mcpVars(OfMcp(Resume(c)))
  /\ \A k \in Calls : WF_mcpVars(OfMcp(Answer(k) \/ RequestLost(k)))
===============================================================================
