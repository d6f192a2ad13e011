---------------------------- MODULE MCFolderSync ----------------------------
(* Instances of FolderSync for TLC.                                        *)
EXTENDS FolderSync

CONSTANTS inbox, archive

OneFolder == {inbox}
TwoFolders == {inbox, archive}

(* Everything that can happen, but a folder made again with QRESYNC; only  *)
(* a server without CONDSTORE makes up for a synchronisation that failed.  *)
AllServers == {"none", "condstore", "qresync"}
AllEvents == [s \in AllServers |->
                 IF s = "qresync" THEN EventKinds \ {"rebuild"} ELSE EventKinds]
FailuresWithoutCondstore == [s \in AllServers |-> IF s = "none" THEN 2 ELSE 0]

(* A case that goes wrong (FolderLostDelta) ...                            *)
OnlyCondstore == {"condstore"}
Delivery == [s \in OnlyCondstore |-> {"deliver"}]
OneFailure == [s \in OnlyCondstore |-> 1]

(* ... and one that no run has: with these four, KeptWhileOnServer fails.  *)
OnlyQresync == {"qresync"}
Deletion == [s \in OnlyQresync |-> {"delete"}]
NoFailure == [s \in OnlyQresync |-> 0]
=============================================================================
