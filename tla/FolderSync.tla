----------------------------- MODULE FolderSync -----------------------------
(***************************************************************************)
(* The mirror of an account's folders in the store, and the server it      *)
(* follows: sync_folder (mail-core/src/sync/mod.rs) with the statements of *)
(* the store and the calls of the IMAP backend it makes, one at a time,    *)
(* while other clients change the folder between any two of them.          *)
(*                                                                         *)
(* Abstractions.  A message is identified by the UIDVALIDITY of its folder *)
(* and its UID; everything that can change about it (its flags) is the     *)
(* MODSEQ of its last change, its version.  The three kinds of server that *)
(* the backend tells apart are the values of server.                       *)
(***************************************************************************)
EXTENDS Integers, FiniteSets

CONSTANTS
    Folders,
    Nowhere,        \* "no folder is being synchronised"
    Servers,        \* the kinds of server: "none", "condstore", or "qresync"
    Window,         \* EnvelopeWindow: how many messages a first sync takes
    Initial,        \* how many messages a folder has at first
    Events,         \* what may happen to the folders of each kind of server
    MaxUid,         \* the largest UID (bounds the state space)
    MaxEvents,      \* how much may happen (bounds the state space)
    MaxFaults       \* how many synchronisations may fail with each (bounds it too)

EventKinds == {"deliver", "change", "expunge", "rebuild", "delete"}

ASSUME FolderSyncAssumption ==
    /\ Nowhere \notin Folders
    /\ Servers \subseteq {"none", "condstore", "qresync"}
    /\ Window \in Nat \ {0} /\ MaxUid \in Nat \ {0}
    /\ Initial \in 0 .. MaxUid
    /\ Events \in [Servers -> SUBSET EventKinds]
    /\ MaxEvents \in Nat /\ MaxFaults \in [Servers -> Nat]

VARIABLES
    server,     \* what the server can do ("qresync": CONDSTORE, too)
    mailbox,    \* the server's folders
    row,        \* the folder table: UIDVALIDITY and HIGHESTMODSEQ, 0: NULL
    stored,     \* the message table
    sync,       \* where the account worker is, and what it read
    announced,  \* VANISHED responses that the session has not looked at
    events, faults,
    owed        \* history: messages that the mirror ought to hold

vars == <<server, mailbox, row, stored, sync, announced, events, faults, owed>>

Uids == 1 .. MaxUid
Condstore == server # "none"

(* A message in the store, or in an answer of the server.                  *)
Copies == [validity : Nat, version : Nat]
NotStored == [validity |-> 0, version |-> 0]

(* A folder of the server: the version of each message (0: there is none), *)
(* and the MODSEQ at which each expunged one went.                         *)
Mailboxes == [validity : Nat, modseq : Nat, next : 1 .. MaxUid + 1,
              at : [Uids -> Nat], gone : [Uids -> Nat]]
Fresh(validity, count) ==
    [validity |-> validity, modseq |-> 1, next |-> count + 1,
     at |-> [u \in Uids |-> IF u <= count THEN 1 ELSE 0], gone |-> [u \in Uids |-> 0]]

Present(f) == {u \in Uids : mailbox[f].at[u] > 0}
Known(f) == {u \in Uids : stored[f][u] # NotStored}
CopyOf(f, u) == [validity |-> mailbox[f].validity, version |-> mailbox[f].at[u]]

(* EnvelopeWindow::select: the newest ones.                                *)
Newest(uids) == {u \in uids : Cardinality({v \in uids : v > u}) < Window}

(* The locals of sync_folder: the folder's record as it was read, what the *)
(* SELECT reported, the UIDs in the store, those to fetch, the envelopes   *)
(* that came back, the UIDs to delete; quiet: nobody changed the folder    *)
(* since the SELECT.                                                       *)
Syncs == [pc : {"idle", "select", "clear", "state", "known", "delta", "rescan",
                "scan", "envelopes", "upsert", "prune"},
          folder : Folders \cup {Nowhere}, quiet : BOOLEAN,
          oldValidity : Nat, since : Nat, validity : Nat, modseq : Nat,
          known : SUBSET Uids, wanted : SUBSET Uids,
          changed : [Uids -> Copies], vanished : SUBSET Uids]
NoCopies == [u \in Uids |-> NotStored]
AtRest == [pc |-> "idle", folder |-> Nowhere, quiet |-> FALSE,
           oldValidity |-> 0, since |-> 0, validity |-> 0, modseq |-> 0,
           known |-> {}, wanted |-> {}, changed |-> NoCopies, vanished |-> {}]

Init ==
    /\ server \in Servers
    /\ mailbox = [f \in Folders |-> Fresh(1, Initial)]
    /\ row = [f \in Folders |-> [validity |-> 0, modseq |-> 0]]
    /\ stored = [f \in Folders |-> NoCopies]
    /\ sync = AtRest
    /\ announced = {}
    /\ events = 0 /\ faults = 0
    /\ owed = [f \in Folders |-> Newest(1 .. Initial)]

-----------------------------------------------------------------------------
(* The server, and its other clients.                                      *)

Happens(kind) ==
    /\ kind \in Events[server] /\ events < MaxEvents
    /\ events' = events + 1

Disturb(f) == sync' = IF sync.folder = f THEN [sync EXCEPT !.quiet = FALSE] ELSE sync

(* Every change of a folder takes the next MODSEQ.                         *)
Touch(f, u) ==
    LET box == mailbox[f] IN
    mailbox' = [mailbox EXCEPT ![f] =
        [box EXCEPT !.modseq = @ + 1, !.at = [@ EXCEPT ![u] = box.modseq + 1],
                    !.next = IF u = @ THEN @ + 1 ELSE @]]

Remove(f, u) ==
    LET box == mailbox[f] IN
    mailbox' = [mailbox EXCEPT ![f] =
        [box EXCEPT !.modseq = @ + 1, !.at = [@ EXCEPT ![u] = 0],
                    !.gone = [@ EXCEPT ![u] = box.modseq + 1]]]

Deliver(f) ==
    /\ Happens("deliver")
    /\ mailbox[f].next <= MaxUid
    /\ Touch(f, mailbox[f].next)
    /\ owed' = [owed EXCEPT ![f] = @ \cup {mailbox[f].next}]
    /\ Disturb(f)
    /\ UNCHANGED <<server, row, stored, announced, faults>>

Change(f, u) ==
    /\ Happens("change")
    /\ u \in Present(f)
    /\ Touch(f, u)
    /\ Disturb(f)
    /\ UNCHANGED <<server, row, stored, announced, faults, owed>>

Expunge(f, u) ==
    /\ Happens("expunge")
    /\ u \in Present(f)
    /\ Remove(f, u)
    /\ Disturb(f)
    /\ UNCHANGED <<server, row, stored, announced, faults, owed>>

(* The folder is lost and made again: its UIDs start over.                 *)
Rebuild(f, count) ==
    /\ Happens("rebuild")
    /\ mailbox' = [mailbox EXCEPT ![f] = Fresh(@.validity + 1, count)]
    /\ owed' = [owed EXCEPT ![f] = Newest(1 .. count)]
    /\ Disturb(f)
    /\ UNCHANGED <<server, row, stored, announced, faults>>

(* This client removes a message between two synchronisations (delete,     *)
(* move_messages, a replayed operation); a server with QRESYNC answers     *)
(* with VANISHED, which the session keeps.                                 *)
Delete(f, u) ==
    /\ sync.pc = "idle"
    /\ Happens("delete")
    /\ u \in Present(f)
    /\ Remove(f, u)
    /\ announced' = IF server = "qresync" THEN announced \cup {u} ELSE announced
    /\ UNCHANGED <<server, row, stored, sync, faults, owed>>

-----------------------------------------------------------------------------
(* sync_folder.                                                            *)

Step(from, to) == sync.pc = from /\ sync' = [sync EXCEPT !.pc = to]

(* The record of the folder is read from the store.                        *)
Begin(f) ==
    /\ sync.pc = "idle"
    /\ sync' = [AtRest EXCEPT !.pc = "select", !.folder = f,
                              !.oldValidity = row[f].validity, !.since = row[f].modseq]
    /\ UNCHANGED <<server, mailbox, row, stored, announced, events, faults, owed>>

ValidityChanged(old, new) == old # 0 /\ new # 0 /\ old # new

(* SELECT; the old MODSEQ is of no use for a folder that was made again.   *)
SinceEarlier(f) == sync.since - 1
SinceLatest(f) == IF Condstore THEN mailbox[f].modseq ELSE 0
SinceRecorded(f) ==
    IF ValidityChanged(sync.oldValidity, mailbox[f].validity) \/ ~Condstore
    THEN 0 ELSE sync.since

Select ==
    LET f == sync.folder IN
    /\ sync.pc = "select"
    /\ sync' = [sync EXCEPT
           !.pc = IF ValidityChanged(sync.oldValidity, mailbox[f].validity)
                  THEN "clear" ELSE "state",
           !.quiet = TRUE,
           !.validity = mailbox[f].validity,
           !.modseq = IF Condstore THEN mailbox[f].modseq ELSE 0,
           !.since = SinceRecorded(f)]
    /\ UNCHANGED <<server, mailbox, row, stored, announced, events, faults, owed>>

ClearedNothing(f) == stored
Cleared(f) == [stored EXCEPT ![f] = NoCopies]

ClearMessages ==
    /\ Step("clear", "state")
    /\ stored' = Cleared(sync.folder)
    /\ UNCHANGED <<server, mailbox, row, announced, events, faults, owed>>

SetFolderState ==
    /\ Step("state", "known")
    /\ row' = [row EXCEPT ![sync.folder] = [validity |-> sync.validity,
                                            modseq |-> sync.modseq]]
    /\ UNCHANGED <<server, mailbox, stored, announced, events, faults, owed>>

MessageUids ==
    /\ sync.pc = "known"
    /\ sync' = [sync EXCEPT !.pc = IF sync.since > 0 THEN "delta" ELSE "scan",
                            !.known = Known(sync.folder)]
    /\ UNCHANGED <<server, mailbox, row, stored, announced, events, faults, owed>>

(* fetch_delta: what changed since the old MODSEQ and, with QRESYNC, what  *)
(* vanished since; every VANISHED that the session holds counts.           *)
ChangedSince(f, since) ==
    [u \in Uids |-> IF mailbox[f].at[u] > since THEN CopyOf(f, u) ELSE NotStored]
VanishedSince(f, since) ==
    {u \in Uids \ Present(f) : mailbox[f].gone[u] > since} \cup announced

FetchDelta ==
    LET f == sync.folder IN
    /\ sync.pc = "delta"
    /\ sync' = [sync EXCEPT
           !.pc = IF server = "qresync" THEN "upsert" ELSE "rescan",
           !.changed = ChangedSince(f, sync.since),
           !.vanished = IF server = "qresync" THEN VanishedSince(f, sync.since) ELSE {}]
    /\ announced' = {}
    /\ UNCHANGED <<server, mailbox, row, stored, events, faults, owed>>

(* missing_uids, without QRESYNC.                                          *)
MissingNone(f, uids) == {}
MissingBeyondWindow(f, uids) == uids \ Newest(Present(f))
Missing(f, uids) == uids \ Present(f)

MissingUids ==
    /\ sync.pc = "rescan"
    /\ sync' = [sync EXCEPT !.pc = "upsert",
                            !.vanished = Missing(sync.folder, Known(sync.folder))]
    /\ UNCHANGED <<server, mailbox, row, stored, announced, events, faults, owed>>

(* Without an old MODSEQ: the UIDs of the folder, then the envelopes of    *)
(* those among the newest that the store does not have.                    *)
ScanUids ==
    LET f == sync.folder IN
    /\ sync.pc = "scan"
    /\ sync' = [sync EXCEPT !.pc = "envelopes",
                            !.vanished = Missing(f, sync.known),
                            !.wanted = Newest(Present(f)) \ sync.known]
    /\ owed' = [owed EXCEPT ![f] = Newest(Present(f))]
    /\ UNCHANGED <<server, mailbox, row, stored, announced, events, faults>>

FetchEnvelopes ==
    LET f == sync.folder IN
    /\ sync.pc = "envelopes"
    /\ sync' = [sync EXCEPT !.pc = "upsert",
           !.changed = [u \in Uids |-> IF u \in sync.wanted \cap Present(f)
                                       THEN CopyOf(f, u) ELSE NotStored]]
    /\ UNCHANGED <<server, mailbox, row, stored, announced, events, faults, owed>>

UpsertMessages ==
    LET f == sync.folder IN
    /\ Step("upsert", "prune")
    /\ stored' = [stored EXCEPT ![f] =
           [u \in Uids |-> IF sync.changed[u] # NotStored THEN sync.changed[u] ELSE @[u]]]
    /\ UNCHANGED <<server, mailbox, row, announced, events, faults, owed>>

DeleteMessages ==
    LET f == sync.folder IN
    /\ sync.pc = "prune"
    /\ stored' = [stored EXCEPT ![f] =
           [u \in Uids |-> IF u \in sync.vanished THEN NotStored ELSE @[u]]]
    /\ sync' = AtRest
    /\ UNCHANGED <<server, mailbox, row, announced, events, faults, owed>>

(* Any call fails, or the process dies: the synchronisation is given up,   *)
(* and the next one connects anew.                                         *)
Abort ==
    /\ sync.pc # "idle"
    /\ faults < MaxFaults[server] /\ faults' = faults + 1
    /\ sync' = AtRest
    /\ announced' = {}
    /\ UNCHANGED <<server, mailbox, row, stored, events, owed>>

SyncFolder ==
    \/ \E f \in Folders : Begin(f)
    \/ Select \/ ClearMessages \/ SetFolderState \/ MessageUids
    \/ FetchDelta \/ MissingUids \/ ScanUids \/ FetchEnvelopes
    \/ UpsertMessages \/ DeleteMessages

Next ==
    \/ SyncFolder \/ Abort
    \/ \E f \in Folders :
          \/ Deliver(f)
          \/ \E u \in Uids : Change(f, u) \/ Expunge(f, u) \/ Delete(f, u)
          \/ \E count \in 0 .. Initial : Rebuild(f, count)

Spec == Init /\ [][Next]_vars

-----------------------------------------------------------------------------
(* Properties.                                                             *)

(* Every variable has its type.                                            *)
TypeOK ==
    /\ server \in Servers
    /\ mailbox \in [Folders -> Mailboxes]
    /\ row \in [Folders -> [validity : Nat, modseq : Nat]]
    /\ stored \in [Folders -> [Uids -> Copies]]
    /\ sync \in Syncs
    /\ announced \subseteq Uids
    /\ events \in Nat /\ faults \in Nat
    /\ owed \in [Folders -> SUBSET Uids]

(* Between two synchronisations the store holds, under the folder's        *)
(* UIDVALIDITY, no message of an earlier life of the folder: a UID is      *)
(* never shown with the mail that had it before (sync_folder clears, then  *)
(* records the new UIDVALIDITY).                                           *)
OneLife ==
    \A f \in Folders :
        sync.folder # f /\ row[f].validity = mailbox[f].validity
            => \A u \in Known(f) : stored[f][u].validity = row[f].validity

(* Between two synchronisations the mirror is at least as new as the       *)
(* MODSEQ recorded with the folder: a message that changed no later than   *)
(* that is held in its current version, and one that went no later than    *)
(* that is not held.  The next synchronisation asks only for what came     *)
(* after (sync_folder: SELECT first, FETCH after).                         *)
MirrorsModseq ==
    \A f \in Folders :
        sync.folder # f /\ row[f].validity = mailbox[f].validity /\ Condstore
            => /\ \A u \in Present(f) :
                     (u \in owed[f] \cup Known(f)) /\ mailbox[f].at[u] <= row[f].modseq
                         => stored[f][u] = CopyOf(f, u)
               /\ \A u \in Known(f) \ Present(f) : mailbox[f].gone[u] > row[f].modseq

(* A synchronisation that completes without the folder having changed      *)
(* under it leaves the mirror exact: every message held is on the server   *)
(* (in its current version, where the server tells versions), and every    *)
(* message that was in the window, or came after, is held (sync_folder).   *)
Exact(f) ==
    /\ Known(f) \subseteq Present(f)
    /\ \A u \in Known(f) : stored[f][u].validity = mailbox[f].validity
    /\ Condstore => \A u \in Known(f) : stored[f][u] = CopyOf(f, u)
    /\ owed[f] \cap Present(f) \subseteq Known(f)

QuietSyncIsExact ==
    [][\A f \in Folders :
          sync.pc = "prune" /\ sync.folder = f /\ sync.quiet /\ sync'.pc = "idle"
              /\ faults' = faults
                  => Exact(f)']_vars

(* But for the clearing of a folder that was made again, a message leaves   *)
(* the store only when the server no longer has it: nothing that happens   *)
(* in one folder empties another (fetch_delta, missing_uids).              *)
KeptWhileOnServer ==
    [][\A f \in Folders : \A u \in Known(f) :
          stored'[f][u] = NotStored /\ sync.pc # "clear"
              => u \notin Present(f) \/ stored[f][u].validity # mailbox[f].validity]_vars

=============================================================================
