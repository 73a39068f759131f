------------------------------- MODULE MCWsQueue -------------------------------
(* Model of WsQueue for TLC.                                               *)
EXTENDS WsQueue, TLC

(* Entries are interchangeable, and so are the ranks other than the owner. *)
Symmetry == Permutations(Entry) \cup Permutations(Thieves)

================================================================================
