---------------------------- MODULE MCToolApproval ----------------------------
(***************************************************************************)
(* Instances of ToolApproval for TLC.                                      *)
(***************************************************************************)
EXTENDS ToolApproval

TwoIds == {"c1", "c2"}
OneId == {"c1"}

(* Every turn comes to its end.                                            *)
SmoothSpec == Init /\ [][Next /\ ended' \notin {"failed", "abandoned"}]_vars
===============================================================================
