---------------------------- MODULE MCStoreThread ----------------------------
(* An instance of StoreThread for TLC.                                     *)
EXTENDS StoreThread, TLC

CONSTANTS h1, h2, t1, t2, t3
=============================================================================
