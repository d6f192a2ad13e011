------------------------------ MODULE MCOutbox ------------------------------
(* Instances of Outbox for TLC.                                            *)
EXTENDS Outbox, TLC

CONSTANTS m1, m2, w1, w2

OneMessage == {m1}
TwoMessages == {m1, m2}
OneWorker == {w1}
TwoWorkers == {w1, w2}
Nobody == {}
SecondHasNoRecipients == {m2}

Symmetry == Permutations(Messages \ NoRecipients) \cup Permutations(Workers)
=============================================================================
