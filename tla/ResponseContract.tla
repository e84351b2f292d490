--------------------------- MODULE ResponseContract ---------------------------
(***************************************************************************)
(* What the Responses server promises about one turn and about the store,  *)
(* without claims, routes, handlers or writes in flight.                   *)
(*                                                                         *)
(* A turn reaches one verdict, once.  Whatever the store holds under an id *)
(* is a turn that has reached its verdict, filed with that verdict, and    *)
(* whatever the turn's own caller is told is that verdict or the failure   *)
(* to store it.                                                            *)
(***************************************************************************)
CONSTANTS Turns, Ids, Verdicts, Undecided, Unfiled, Unstored

VARIABLES
  verdict,  \* per turn: its verdict or Undecided
  told,     \* per turn: what its own caller was told, or Undecided
  filed     \* per id: the turn the store holds and its verdict, or Unfiled

vars == <<verdict, told, filed>>

Init ==
  /\ verdict = [t \in Turns |-> Undecided]
  /\ told = [t \in Turns |-> Undecided]
  /\ filed = [i \in Ids |-> Unfiled]

Decide(t, v) ==
  /\ verdict[t] = Undecided
  /\ verdict' = [verdict EXCEPT ![t] = v]

Tell(t) ==
  /\ told[t] = Undecided /\ verdict'[t] # Undecided
  /\ told' = [told EXCEPT ![t] = verdict'[t]]

(* The store takes a turn in, and its caller may be told in the same step. *)
File(t, i) ==
  /\ verdict[t] # Undecided
  /\ filed' = [filed EXCEPT ![i] = [turn |-> t, verdict |-> verdict[t]]]

Next ==
  \/ \E t \in Turns, v \in Verdicts :
        Decide(t, v) /\ (Tell(t) \/ UNCHANGED told) /\ UNCHANGED filed
  \/ \E t \in Turns, i \in Ids :
        File(t, i) /\ (Tell(t) \/ UNCHANGED told) /\ UNCHANGED verdict
  \/ \E t \in Turns :
        /\ verdict[t] # Undecided /\ told[t] = Undecided
        /\ told' \in {[told EXCEPT ![t] = Unstored], [told EXCEPT ![t] = verdict[t]]}
        /\ UNCHANGED <<verdict, filed>>
  \/ \E i \in Ids :
        /\ filed' = [filed EXCEPT ![i] = Unfiled]
        /\ UNCHANGED <<verdict, told>>

Spec == Init /\ [][Next]_vars
===============================================================================
