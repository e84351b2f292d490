------------------------------- MODULE MCServer -------------------------------
(***************************************************************************)
(* Instances of ResponsesServer for TLC.                                   *)
(***************************************************************************)
EXTENDS ResponsesServer, TLC

Request(n, server, id, owner) == [n |-> n, server |-> server, id |-> id, owner |-> owner]
CreateOf(n, server, id, owner, background, stream, store) ==
  [n |-> n, server |-> server, id |-> id, owner |-> owner,
   background |-> background, stream |-> stream, store |-> store]

(* One server, one id, one owner: a streamed background turn and a second  *)
(* turn that wants the same id, with a cancel and a delete in flight.      *)
OneServer == {"s1"}
OneId     == {"r1"}
OneOwner  == {"alice"}
Streamed(n)   == CreateOf(n, "s1", "r1", "alice", TRUE, TRUE, TRUE)
Collected(n)  == CreateOf(n, "s1", "r1", "alice", FALSE, FALSE, TRUE)
OneOfEach     == {Streamed(1), Collected(2)}
FirstAndAny   == {Streamed(1), Streamed(2), Collected(3)}
OneRequest    == {Request(1, "s1", "r1", "alice")}

(* The first turn and any one of the others come, in any order.            *)
Others == {t \in Turns : t.n # 1 /\ stage[t] # "absent"}
PairSpec == Init /\ [][Next /\ Cardinality(Others') <= 1]_vars
===============================================================================
