---------------------------------- MODULE MCAdws ----------------------------------
(* Model of Adws for TLC.                                                  *)
EXTENDS Adws

(* Half and half.                                                          *)
MCHints == {[rest |-> 1, new |-> 1]}

================================================================================
