------------------------- MODULE MCAccountDiscovery -------------------------
(* An instance of AccountDiscovery for TLC: addresses can be exchanged.    *)
EXTENDS AccountDiscovery, TLC

CONSTANTS alice, bob

Symmetry == Permutations(Emails)
=============================================================================
