------------------------------- MODULE MCCollExec -------------------------------
(* Model of CollExec for TLC: five ranks, so that the tree is not full.    *)
EXTENDS CollExec

================================================================================
