---------------------------- MODULE MCReleaseManager ----------------------------
(* Model of ReleaseManager for TLC.                                        *)
EXTENDS ReleaseManager

CONSTANTS Reader

(* Two ranks that both write can wait for each other; two ranks that ask   *)
(* the same one race with their requests.                                  *)
MCWrites == [r \in Ranks |-> IF r = Reader THEN 0 ELSE 1]

================================================================================
