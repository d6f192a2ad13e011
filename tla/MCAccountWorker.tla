--------------------------- MODULE MCAccountWorker ---------------------------
(* Instances of AccountWorker for TLC.                                     *)
EXTENDS AccountWorker

CONSTANTS m1, m2

OneMessage == {m1}
TwoMessages == {m1, m2}
=============================================================================
