---------------------------- MODULE MCSyncService ----------------------------
(* Instances of SyncService for TLC.                                       *)
EXTENDS SyncService

CONSTANTS home, work

TwoAccounts == {home, work}
BothOrHome == {{home, work}, {home}}
=============================================================================
