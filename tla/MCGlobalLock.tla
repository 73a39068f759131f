------------------------------ MODULE MCGlobalLock ------------------------------
(* Model of GlobalLock for TLC: four ranks, so that a holder, a priority   *)
(* waiter and two competing callers can meet.                              *)
EXTENDS GlobalLock

================================================================================
