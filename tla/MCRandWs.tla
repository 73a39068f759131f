-------------------------------- MODULE MCRandWs --------------------------------
(* Model of RandWs for TLC: three ranks, so that a thief, its victim and a *)
(* bystander exist, and fork trees of up to four threads.                  *)
EXTENDS RandWs

================================================================================
