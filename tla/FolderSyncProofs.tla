-------------------------- MODULE FolderSyncProofs --------------------------
(***************************************************************************)
(* What holds of FolderSync for any number of folders and messages, any    *)
(* window and any number of changes and failures, on every kind of server. *)
(***************************************************************************)
EXTENDS FolderSync, TLAPS

-----------------------------------------------------------------------------
(* Types.                                                                  *)

LEMMA CopiesTyped ==
    /\ NotStored \in Copies
    /\ NoCopies \in [Uids -> Copies]
    /\ AtRest \in Syncs
BY DEF NotStored, Copies, NoCopies, AtRest, Syncs

LEMMA FreshTyped ==
    ASSUME NEW validity \in Nat, NEW count \in 0 .. MaxUid
    PROVE  Fresh(validity, count) \in Mailboxes
BY FolderSyncAssumption DEF Fresh, Mailboxes, Uids

LEMMA CopyTyped ==
    ASSUME TypeOK, NEW f \in Folders, NEW u \in Uids
    PROVE  CopyOf(f, u) \in Copies
BY DEF TypeOK, CopyOf, Copies, Mailboxes

LEMMA TouchTyped ==
    ASSUME TypeOK, NEW f \in Folders, NEW u \in Uids, Touch(f, u)
    PROVE  mailbox' \in [Folders -> Mailboxes]
<1> DEFINE box == mailbox[f]
           touched == [box EXCEPT !.modseq = @ + 1, !.at = [@ EXCEPT ![u] = box.modseq + 1],
                                  !.next = IF u = @ THEN @ + 1 ELSE @]
<1>1. box \in Mailboxes
  BY DEF TypeOK
<1>2. touched \in Mailboxes
  <2> DEFINE at == [box.at EXCEPT ![u] = box.modseq + 1]
             next == IF u = box.next THEN box.next + 1 ELSE box.next
  <2>1. at \in [Uids -> Nat] /\ next \in 1 .. MaxUid + 1 /\ box.modseq + 1 \in Nat
    <3>1. box.modseq + 1 \in Nat /\ box.at \in [Uids -> Nat] /\ box.next \in 1 .. MaxUid + 1
      BY <1>1 DEF Mailboxes
    <3>2. next \in 1 .. MaxUid + 1
      BY <3>1, FolderSyncAssumption DEF Uids
    <3>3. QED BY <3>1, <3>2
  <2>2. touched = [box EXCEPT !.modseq = box.modseq + 1, !.at = at, !.next = next]
    BY <1>1 DEF Mailboxes
  <2> HIDE DEF at, next, touched
  <2>3. QED BY <1>1, <2>1, <2>2 DEF Mailboxes
<1>3. mailbox' = [mailbox EXCEPT ![f] = touched]
  BY DEF Touch
<1> HIDE DEF touched
<1>4. QED BY <1>2, <1>3 DEF TypeOK

LEMMA RemoveTyped ==
    ASSUME TypeOK, NEW f \in Folders, NEW u \in Uids, Remove(f, u)
    PROVE  mailbox' \in [Folders -> Mailboxes]
<1> DEFINE box == mailbox[f]
           removed == [box EXCEPT !.modseq = @ + 1, !.at = [@ EXCEPT ![u] = 0],
                                  !.gone = [@ EXCEPT ![u] = box.modseq + 1]]
<1>1. box \in Mailboxes
  BY DEF TypeOK
<1>2. removed \in Mailboxes
  <2> DEFINE at == [box.at EXCEPT ![u] = 0]
             gone == [box.gone EXCEPT ![u] = box.modseq + 1]
  <2>1. at \in [Uids -> Nat] /\ gone \in [Uids -> Nat] /\ box.modseq + 1 \in Nat
    BY <1>1 DEF Mailboxes
  <2>2. removed = [box EXCEPT !.modseq = box.modseq + 1, !.at = at, !.gone = gone]
    BY <1>1 DEF Mailboxes
  <2> HIDE DEF at, gone, removed
  <2>3. QED BY <1>1, <2>1, <2>2 DEF Mailboxes
<1>3. mailbox' = [mailbox EXCEPT ![f] = removed]
  BY DEF Remove
<1> HIDE DEF removed
<1>4. QED BY <1>2, <1>3 DEF TypeOK

(* Whatever is under way concerns a folder.                                *)
Typed == TypeOK /\ (sync.pc # "idle" => sync.folder \in Folders)

LEMMA TypeInit == Init => Typed
<1> SUFFICES ASSUME Init PROVE Typed
  OBVIOUS
<1>1. mailbox \in [Folders -> Mailboxes]
  BY FreshTyped, FolderSyncAssumption DEF Init
<1>2. Newest(1 .. Initial) \subseteq Uids
  BY FolderSyncAssumption DEF Newest, Uids
<1>3. TypeOK
  BY <1>1, <1>2, CopiesTyped DEF Init, TypeOK
<1>4. QED BY <1>3 DEF Init, Typed, AtRest

LEMMA TypeServer ==
    ASSUME Typed, NEW f \in Folders, NEW u \in Uids, NEW count \in 0 .. Initial,
           Deliver(f) \/ Change(f, u) \/ Expunge(f, u) \/ Delete(f, u) \/ Rebuild(f, count)
    PROVE  Typed'
<1> USE DEF Typed, TypeOK
<1>d. ASSUME Disturb(f)
      PROVE  sync' \in Syncs /\ (sync'.pc # "idle" => sync'.folder \in Folders)
  BY <1>d DEF Disturb, Syncs
<1>1. CASE Deliver(f)
  <2>1. mailbox[f].next \in Uids
    BY <1>1 DEF Deliver, Mailboxes, Uids
  <2>2. mailbox' \in [Folders -> Mailboxes]
    BY <1>1, <2>1, TouchTyped DEF Deliver
  <2>3. owed' \in [Folders -> SUBSET Uids]
    BY <1>1, <2>1 DEF Deliver
  <2>4. QED BY <1>1, <1>d, <2>2, <2>3 DEF Deliver, Happens
<1>2. CASE Change(f, u)
  <2>1. mailbox' \in [Folders -> Mailboxes]
    BY <1>2, TouchTyped DEF Change
  <2>2. QED BY <1>2, <1>d, <2>1 DEF Change, Happens
<1>3. CASE Expunge(f, u)
  <2>1. mailbox' \in [Folders -> Mailboxes]
    BY <1>3, RemoveTyped DEF Expunge
  <2>2. QED BY <1>3, <1>d, <2>1 DEF Expunge, Happens
<1>4. CASE Delete(f, u)
  <2>1. mailbox' \in [Folders -> Mailboxes]
    BY <1>4, RemoveTyped DEF Delete
  <2>2. QED BY <1>4, <2>1 DEF Delete, Happens
<1>5. CASE Rebuild(f, count)
  <2>1. mailbox[f].validity + 1 \in Nat /\ count \in 0 .. MaxUid
    BY FolderSyncAssumption DEF Mailboxes
  <2>2. Fresh(mailbox[f].validity + 1, count) \in Mailboxes
    BY <2>1, FreshTyped
  <2>3. Newest(1 .. count) \subseteq Uids
    BY <2>1, FolderSyncAssumption DEF Newest, Uids
  <2>4. mailbox' \in [Folders -> Mailboxes]
    BY <1>5, <2>2 DEF Rebuild
  <2>5. QED BY <1>5, <1>d, <2>3, <2>4 DEF Rebuild, Happens
<1>6. QED BY <1>1, <1>2, <1>3, <1>4, <1>5

LEMMA TypeSync ==
    ASSUME Typed, SyncFolder
    PROVE  Typed'
<1> USE DEF Typed, TypeOK
<1> DEFINE f == sync.folder
<1>s. ASSUME sync.pc # "idle" PROVE f \in Folders /\ mailbox[f] \in Mailboxes
  BY <1>s
<1>1. ASSUME NEW g \in Folders, Begin(g) PROVE Typed'
  BY <1>1 DEF Begin, AtRest, Syncs, NoCopies, Copies, NotStored
<1>2. CASE Select
  <2>1. mailbox[f].validity \in Nat /\ mailbox[f].modseq \in Nat
    BY <1>2, <1>s DEF Select, Mailboxes
  <2>2. SinceRecorded(f) \in Nat
    BY DEF SinceRecorded, Syncs
  <2>3. QED BY <1>2, <1>s, <2>1, <2>2 DEF Select, Syncs
<1>3. CASE ClearMessages
  BY <1>3, CopiesTyped DEF ClearMessages, Step, Cleared, Syncs
<1>4. CASE SetFolderState
  BY <1>4 DEF SetFolderState, Step, Syncs
<1>5. CASE MessageUids
  BY <1>5 DEF MessageUids, Known, Syncs
<1>6. CASE FetchDelta
  <2>1. \A u \in Uids : CopyOf(f, u) \in Copies
    BY <1>6, <1>s, CopyTyped DEF FetchDelta
  <2>2. ChangedSince(f, sync.since) \in [Uids -> Copies]
    BY <2>1, CopiesTyped DEF ChangedSince
  <2>3. VanishedSince(f, sync.since) \subseteq Uids
    BY DEF VanishedSince
  <2>4. QED BY <1>6, <2>2, <2>3 DEF FetchDelta, Syncs
<1>7. CASE MissingUids
  BY <1>7 DEF MissingUids, Missing, Known, Syncs
<1>8. CASE ScanUids
  <2>1. Newest(Present(f)) \subseteq Uids /\ Missing(f, sync.known) \subseteq Uids
    BY DEF Missing, Newest, Present, Syncs
  <2>2. QED BY <1>8, <2>1 DEF ScanUids, Syncs
<1>9. CASE FetchEnvelopes
  <2>1. \A u \in Uids : CopyOf(f, u) \in Copies
    BY <1>9, <1>s, CopyTyped DEF FetchEnvelopes
  <2> DEFINE changed == [u \in Uids |-> IF u \in sync.wanted \cap Present(f)
                                        THEN CopyOf(f, u) ELSE NotStored]
  <2>2. changed \in [Uids -> Copies]
    BY <2>1, CopiesTyped
  <2>3. sync' = [sync EXCEPT !.pc = "upsert", !.changed = changed]
    BY <1>9 DEF FetchEnvelopes
  <2> HIDE DEF changed
  <2>4. QED BY <1>9, <2>2, <2>3 DEF FetchEnvelopes, Syncs
<1>10. CASE UpsertMessages
  BY <1>10 DEF UpsertMessages, Step, Syncs
<1>11. CASE DeleteMessages
  BY <1>11, CopiesTyped DEF DeleteMessages, AtRest
<1>12. QED
  BY <1>1, <1>2, <1>3, <1>4, <1>5, <1>6, <1>7, <1>8, <1>9, <1>10, <1>11 DEF SyncFolder

LEMMA TypeNext == Typed /\ [Next]_vars => Typed'
<1> SUFFICES ASSUME Typed, [Next]_vars PROVE Typed'
  OBVIOUS
<1>1. CASE Abort
  BY <1>1, CopiesTyped DEF Abort, Typed, TypeOK, AtRest
<1>2. CASE UNCHANGED vars
  BY <1>2 DEF vars, Typed, TypeOK
<1>3. ASSUME NEW f \in Folders,
             Deliver(f) \/ (\E u \in Uids : Change(f, u) \/ Expunge(f, u) \/ Delete(f, u))
                 \/ (\E count \in 0 .. Initial : Rebuild(f, count))
      PROVE  Typed'
  <2>1. 1 \in Uids /\ 0 \in 0 .. Initial
    BY FolderSyncAssumption DEF Uids
  <2>2. PICK u \in Uids, count \in 0 .. Initial :
            Deliver(f) \/ Change(f, u) \/ Expunge(f, u) \/ Delete(f, u) \/ Rebuild(f, count)
    BY <1>3, <2>1, Zenon
  <2>3. QED BY <2>2, TypeServer
<1>4. QED BY <1>1, <1>2, <1>3, TypeSync DEF Next

(* Every variable has its type, whatever happens (sync_folder).            *)
THEOREM FolderTypeCorrect == Spec => []TypeOK
<1>1. Spec => []Typed
  BY TypeInit, TypeNext, PTL DEF Spec
<1>2. Typed => TypeOK
  BY DEF Typed
<1>3. QED BY <1>1, <1>2, PTL

-----------------------------------------------------------------------------
(* UIDVALIDITY.                                                            *)

(* What the store holds of a folder is no older than the UIDVALIDITY       *)
(* recorded with it, and that is no newer than the server's.               *)
Aged(f, copy) == row[f].validity <= copy.validity /\ copy.validity <= mailbox[f].validity
FolderLives(f) ==
    /\ 1 <= mailbox[f].validity
    /\ row[f].validity <= mailbox[f].validity
    /\ row[f].validity = 0 => Known(f) = {}
    /\ \A u \in Known(f) : Aged(f, stored[f][u])

(* Where a synchronisation is: before the new UIDVALIDITY is recorded,     *)
(* what is held is of that one or nothing; what it fetched afterwards is   *)
(* no older.                                                               *)
Before == {"select", "clear", "state"}
SyncLives(f) ==
    /\ sync.pc \in Before => sync.oldValidity = row[f].validity
    /\ sync.pc # "select" => 1 <= sync.validity /\ sync.validity <= mailbox[f].validity
    /\ sync.pc = "state" => Known(f) = {} \/ sync.validity = row[f].validity
    /\ sync.pc \notin Before => row[f].validity = sync.validity
    /\ \A u \in Uids : sync.changed[u] # NotStored =>
           sync.pc \notin Before /\ Aged(f, sync.changed[u])

Lives ==
    /\ \A f \in Folders : FolderLives(f)
    /\ sync.pc # "idle" => SyncLives(sync.folder)

LEMMA LivesInit == Init => Lives
BY DEF Init, Lives, FolderLives, Known, NoCopies, NotStored, Fresh, AtRest

(* The server and its clients: UIDVALIDITY only grows.                     *)
LEMMA LivesServer ==
    ASSUME Typed, Typed', Lives, UNCHANGED <<row, stored>>,
           \A f \in Folders : mailbox[f].validity <= mailbox'[f].validity,
           sync' = sync \/ sync' = [sync EXCEPT !.quiet = FALSE]
    PROVE  Lives'
<1> USE DEF Typed, TypeOK
<1>1. /\ sync'.pc = sync.pc /\ sync'.folder = sync.folder /\ sync'.changed = sync.changed
      /\ sync'.validity = sync.validity /\ sync'.oldValidity = sync.oldValidity
  BY DEF Syncs
<1>2. ASSUME NEW f \in Folders
      PROVE  /\ mailbox[f].validity \in Nat /\ mailbox'[f].validity \in Nat
             /\ mailbox[f].validity <= mailbox'[f].validity
             /\ row[f].validity \in Nat
  BY DEF Mailboxes
<1>3. ASSUME NEW f \in Folders, NEW copy \in Copies, Aged(f, copy)
      PROVE  Aged(f, copy)'
  BY <1>2, <1>3 DEF Aged, Copies
<1>4. ASSUME NEW f \in Folders PROVE FolderLives(f)'
  <2>1. FolderLives(f) /\ Known(f)' = Known(f) /\ Known(f) \subseteq Uids
    BY DEF Lives, Known
  <2>2. \A u \in Known(f) : Aged(f, stored[f][u])'
    BY <1>3, <2>1 DEF FolderLives
  <2>3. QED BY <1>2, <2>1, <2>2 DEF FolderLives
<1>5. ASSUME sync.pc # "idle" PROVE SyncLives(sync.folder)'
  <2> DEFINE f == sync.folder
  <2>1. f \in Folders /\ SyncLives(f) /\ Known(f)' = Known(f) /\ sync.changed \in [Uids -> Copies]
    BY <1>5 DEF Lives, Known, Syncs
  <2>2. ASSUME NEW u \in Uids, sync.changed[u] # NotStored PROVE Aged(f, sync.changed[u])'
    <3>1. sync.changed[u] \in Copies /\ Aged(f, sync.changed[u])
      BY <2>1, <2>2 DEF SyncLives
    <3> DEFINE copy == sync.changed[u]
    <3>2. copy \in Copies /\ Aged(f, copy)
      BY <3>1
    <3> HIDE DEF copy
    <3>3. copy' = copy
      BY <1>1 DEF copy
    <3>4. Aged(f, copy)'
      BY <1>1, <1>2, <2>1, <3>2, <3>3 DEF Aged, Copies
    <3>5. QED BY <3>4 DEF copy
  <2>3. sync.validity \in Nat
    BY DEF Syncs
  <2>4. QED BY <1>1, <1>2, <2>1, <2>2, <2>3 DEF SyncLives
<1>6. QED BY <1>1, <1>4, <1>5 DEF Lives

LEMMA LivesEvents ==
    ASSUME Typed, Typed', Lives, NEW f \in Folders, NEW u \in Uids, NEW count \in 0 .. Initial,
           Deliver(f) \/ Change(f, u) \/ Expunge(f, u) \/ Delete(f, u) \/ Rebuild(f, count)
    PROVE  Lives'
<1>1. UNCHANGED <<row, stored>> /\ (sync' = sync \/ sync' = [sync EXCEPT !.quiet = FALSE])
  BY DEF Deliver, Change, Expunge, Delete, Rebuild, Disturb
<1>2. ASSUME NEW g \in Folders PROVE mailbox[g].validity <= mailbox'[g].validity
  <2>1. mailbox[g].validity \in Nat /\ mailbox \in [Folders -> Mailboxes]
    BY DEF Typed, TypeOK, Mailboxes
  <2>2. ASSUME NEW v, Touch(f, v) \/ Remove(f, v)
        PROVE  mailbox'[g].validity = mailbox[g].validity
    <3>1. \A a, b, c : \A box \in Mailboxes :
             /\ [box EXCEPT !.modseq = a, !.at = b, !.next = c].validity = box.validity
             /\ [box EXCEPT !.modseq = a, !.at = b, !.gone = c].validity = box.validity
      BY DEF Mailboxes
    <3>2. CASE Touch(f, v)
      BY <2>1, <3>1, <3>2 DEF Touch
    <3>3. CASE Remove(f, v)
      BY <2>1, <3>1, <3>3 DEF Remove
    <3>4. QED BY <2>2, <3>2, <3>3
  <2>3. CASE Rebuild(f, count)
    BY <2>1, <2>3 DEF Rebuild, Fresh
  <2>4. QED BY <2>1, <2>2, <2>3 DEF Deliver, Change, Expunge, Delete
<1>3. QED BY <1>1, <1>2, LivesServer

(* The steps of sync_folder.                                               *)
LEMMA LivesSync ==
    ASSUME Typed, Typed', Lives, SyncFolder
    PROVE  Lives'
<1> USE DEF Typed, TypeOK
<1> DEFINE f == sync.folder
<1>s. ASSUME sync.pc # "idle"
      PROVE  /\ f \in Folders /\ SyncLives(f) /\ FolderLives(f)
             /\ mailbox[f].validity \in Nat /\ row[f].validity \in Nat
             /\ sync.validity \in Nat /\ sync.changed \in [Uids -> Copies]
  BY <1>s DEF Lives, Mailboxes, Syncs
<1>k. ASSUME UNCHANGED <<mailbox, row, stored>>
      PROVE  /\ \A g \in Folders : FolderLives(g)' /\ Known(g)' = Known(g)
             /\ \A g, copy : Aged(g, copy)' = Aged(g, copy)
  BY <1>k DEF Lives, FolderLives, Known, Aged
<1>1. ASSUME NEW g \in Folders, Begin(g) PROVE Lives'
  <2>1. SyncLives(g)'
    BY <1>1 DEF Begin, AtRest, SyncLives, NoCopies, Before
  <2>2. sync'.folder = g
    BY <1>1 DEF Begin, AtRest
  <2>3. QED BY <1>1, <1>k, <2>1, <2>2 DEF Begin, Lives
<1>2. CASE Select
  <2>1. /\ sync'.folder = f /\ sync'.pc \in {"clear", "state"} /\ sync'.oldValidity = sync.oldValidity
        /\ sync'.validity = mailbox[f].validity /\ sync'.changed = sync.changed
        /\ sync'.pc = "state" => ~ValidityChanged(sync.oldValidity, mailbox[f].validity)
    <3> DEFINE changes == ValidityChanged(sync.oldValidity, mailbox[f].validity)
               modseq == IF Condstore THEN mailbox[f].modseq ELSE 0
    <3>1. /\ sync \in Syncs
          /\ sync' = [sync EXCEPT !.pc = IF changes THEN "clear" ELSE "state", !.quiet = TRUE,
                                  !.validity = mailbox[f].validity, !.modseq = modseq,
                                  !.since = SinceRecorded(f)]
      BY <1>2 DEF Select
    <3> HIDE DEF changes, modseq
    <3>2. /\ sync'.folder = f /\ sync'.oldValidity = sync.oldValidity
          /\ sync'.validity = mailbox[f].validity /\ sync'.changed = sync.changed
          /\ sync'.pc = IF changes THEN "clear" ELSE "state"
      BY <3>1 DEF Syncs
    <3>3. QED BY <3>2 DEF changes
  <2>2. sync'.pc = "state" => Known(f) = {} \/ mailbox[f].validity = row[f].validity
    BY <1>2, <1>s, <2>1 DEF Select, SyncLives, FolderLives, ValidityChanged, Before
  <2>3. UNCHANGED <<mailbox, row, stored>>
    BY <1>2 DEF Select
  <2>4. SyncLives(f)'
    BY <1>2, <1>s, <1>k, <2>1, <2>2, <2>3 DEF Select, SyncLives, FolderLives, Before
  <2>5. QED BY <1>k, <2>1, <2>3, <2>4 DEF Lives
<1>3. CASE ClearMessages
  <2>1. /\ sync'.folder = f /\ sync.pc = "clear" /\ sync'.pc = "state" /\ sync'.oldValidity = sync.oldValidity
        /\ sync'.validity = sync.validity /\ sync'.changed = sync.changed
    BY <1>3 DEF ClearMessages, Step, Syncs
  <2>2. stored' = [stored EXCEPT ![f] = NoCopies] /\ UNCHANGED <<mailbox, row>>
    BY <1>3 DEF ClearMessages, Cleared
  <2>3. Known(f)' = {}
    BY <1>s, <2>1, <2>2 DEF Known, NoCopies
  <2>4. SyncLives(f)'
    BY <1>s, <2>1, <2>2, <2>3 DEF SyncLives, Before, Aged
  <2>5. ASSUME NEW g \in Folders, g # f PROVE FolderLives(g)'
    BY <2>2, <2>5 DEF Lives, FolderLives, Known, Aged
  <2>6. FolderLives(f)'
    BY <1>s, <2>1, <2>2, <2>3 DEF FolderLives
  <2>7. QED BY <2>1, <2>4, <2>5, <2>6 DEF Lives
<1>4. CASE SetFolderState
  <2>1. /\ sync'.folder = f /\ sync.pc = "state" /\ sync'.pc = "known"
        /\ sync'.validity = sync.validity /\ sync'.changed = sync.changed
    BY <1>4 DEF SetFolderState, Step, Syncs
  <2>2. /\ row' = [row EXCEPT ![f] = [validity |-> sync.validity, modseq |-> sync.modseq]]
        /\ UNCHANGED <<mailbox, stored>>
    BY <1>4 DEF SetFolderState
  <2>3. row'[f].validity = sync.validity /\ Known(f)' = Known(f)
    BY <1>s, <2>1, <2>2 DEF Known
  <2>4. SyncLives(f)'
    BY <1>s, <2>1, <2>2, <2>3 DEF SyncLives, Before, Aged
  <2>5. ASSUME NEW g \in Folders, g # f PROVE FolderLives(g)'
    BY <2>2, <2>5 DEF Lives, FolderLives, Known, Aged
  <2>6. FolderLives(f)'
    BY <1>s, <2>1, <2>2, <2>3 DEF FolderLives, SyncLives, Aged
  <2>7. QED BY <2>1, <2>4, <2>5, <2>6 DEF Lives
<1>5. CASE MessageUids \/ MissingUids \/ ScanUids
  <2>1. /\ sync.pc \notin Before \cup {"idle"} /\ sync'.pc \notin Before /\ sync'.folder = f
        /\ sync'.validity = sync.validity /\ sync'.changed = sync.changed
    BY ZenonT(40), <1>5 DEF MessageUids, MissingUids, ScanUids, Syncs, Before
  <2>2. UNCHANGED <<mailbox, row, stored>>
    BY <1>5 DEF MessageUids, MissingUids, ScanUids
  <2>3. SyncLives(f)'
    BY <1>s, <1>k, <2>1, <2>2 DEF SyncLives, Before
  <2>4. QED BY <1>k, <2>1, <2>2, <2>3 DEF Lives
<1>6. CASE FetchDelta \/ FetchEnvelopes
  <2>1. /\ sync.pc \notin Before \cup {"idle"} /\ sync'.pc \notin Before /\ sync'.folder = f
        /\ sync'.validity = sync.validity
    BY <1>6 DEF FetchDelta, FetchEnvelopes, Syncs, Before
  <2>2. \A u \in Uids : sync'.changed[u] \in {NotStored, CopyOf(f, u)}
    <3>1. CASE FetchDelta
      <4>1. sync'.changed = ChangedSince(f, sync.since)
        BY <3>1 DEF FetchDelta, Syncs
      <4>2. QED BY <4>1 DEF ChangedSince
    <3>2. CASE FetchEnvelopes
      <4>1. sync'.changed = [u \in Uids |-> IF u \in sync.wanted \cap Present(f)
                                            THEN CopyOf(f, u) ELSE NotStored]
        BY <3>2 DEF FetchEnvelopes, Syncs
      <4>2. QED BY <4>1
    <3>3. QED BY <1>6, <3>1, <3>2
  <2>3. UNCHANGED <<mailbox, row, stored>>
    BY <1>6 DEF FetchDelta, FetchEnvelopes
  <2>4. \A u \in Uids : Aged(f, CopyOf(f, u))
    BY <1>s, <2>1 DEF Aged, CopyOf, FolderLives, Before
  <2>5. SyncLives(f)'
    BY <1>s, <1>k, <2>1, <2>2, <2>3, <2>4 DEF SyncLives, Before
  <2>6. QED BY <1>k, <2>1, <2>3, <2>5 DEF Lives
<1>7. CASE UpsertMessages
  <2>1. /\ sync.pc = "upsert" /\ sync'.pc = "prune" /\ sync'.folder = f
        /\ sync'.validity = sync.validity /\ sync'.changed = sync.changed
    BY <1>7 DEF UpsertMessages, Step, Syncs
  <2>2. UNCHANGED <<mailbox, row>>
    BY <1>7 DEF UpsertMessages
  <2>3. \A u \in Uids : stored'[f][u] = IF sync.changed[u] # NotStored THEN sync.changed[u]
                                         ELSE stored[f][u]
    BY <1>7, <1>s, <2>1 DEF UpsertMessages
  <2>4. \A g \in Folders \ {f} : stored'[g] = stored[g]
    BY <1>7 DEF UpsertMessages
  <2>5. SyncLives(f)'
    BY <1>s, <2>1, <2>2 DEF SyncLives, Before, Aged
  <2>6. ASSUME NEW g \in Folders, g # f PROVE FolderLives(g)'
    BY <2>2, <2>4, <2>6 DEF Lives, FolderLives, Known, Aged
  <2>7. FolderLives(f)'
    <3>1. \A u \in Known(f)' : Aged(f, stored'[f][u])
      BY <1>s, <2>1, <2>3 DEF Known, FolderLives, SyncLives
    <3>2. row[f].validity # 0
      BY <1>s, <2>1 DEF SyncLives, Before
    <3>3. QED BY <1>s, <2>1, <2>2, <3>1, <3>2 DEF FolderLives, Aged
  <2>8. QED BY <2>1, <2>5, <2>6, <2>7 DEF Lives
<1>8. CASE DeleteMessages
  <2>1. sync.pc = "prune" /\ sync'.pc = "idle" /\ UNCHANGED <<mailbox, row>>
    BY <1>8 DEF DeleteMessages, AtRest
  <2>2. \A g \in Folders, u \in Uids : stored'[g][u] \in {stored[g][u], NotStored}
    BY <1>8, <1>s, <2>1 DEF DeleteMessages
  <2>3. ASSUME NEW g \in Folders PROVE FolderLives(g)'
    BY <2>1, <2>2, <2>3 DEF Lives, FolderLives, Known, Aged
  <2>4. QED BY <2>1, <2>3 DEF Lives
<1>9. QED BY <1>1, <1>2, <1>3, <1>4, <1>5, <1>6, <1>7, <1>8 DEF SyncFolder

LEMMA LivesNext == Typed /\ Lives /\ [Next]_vars => Lives'
<1> SUFFICES ASSUME Typed, Lives, [Next]_vars PROVE Lives'
  OBVIOUS
<1>t. Typed'
  BY TypeNext
<1>1. CASE Abort \/ UNCHANGED vars
  <2>1. UNCHANGED <<mailbox, row, stored>> /\ (sync' = AtRest \/ sync' = sync)
    BY <1>1 DEF Abort, vars
  <2>2. AtRest.pc = "idle"
    BY DEF AtRest
  <2>3. QED BY <2>1, <2>2 DEF Lives, FolderLives, SyncLives, Known, Aged
<1>2. ASSUME NEW f \in Folders,
             Deliver(f) \/ (\E u \in Uids : Change(f, u) \/ Expunge(f, u) \/ Delete(f, u))
                 \/ (\E count \in 0 .. Initial : Rebuild(f, count))
      PROVE  Lives'
  <2>1. 1 \in Uids /\ 0 \in 0 .. Initial
    BY FolderSyncAssumption DEF Uids
  <2>2. PICK u \in Uids, count \in 0 .. Initial :
            Deliver(f) \/ Change(f, u) \/ Expunge(f, u) \/ Delete(f, u) \/ Rebuild(f, count)
    BY <1>2, <2>1, Zenon
  <2>3. QED BY <1>t, <2>2, LivesEvents
<1>3. QED BY <1>t, <1>1, <1>2, LivesSync DEF Next

(* A UID never shows the mail that had it in an earlier life of its        *)
(* folder: what the store holds of a folder between two synchronisations   *)
(* is of the UIDVALIDITY recorded, however often the folder was made again *)
(* and whichever synchronisations failed (sync_folder).                    *)
THEOREM FolderOneLife == Spec => []OneLife
<1>1. Spec => [](Typed /\ Lives)
  BY TypeInit, TypeNext, LivesInit, LivesNext, PTL DEF Spec
<1>2. Typed /\ Lives => OneLife
  <2> SUFFICES ASSUME Typed, Lives, NEW f \in Folders, row[f].validity = mailbox[f].validity,
                      NEW u \in Known(f)
               PROVE  stored[f][u].validity = row[f].validity
    BY DEF OneLife
  <2>1. Aged(f, stored[f][u])
    BY DEF Lives, FolderLives
  <2>2. stored[f][u] \in Copies /\ row[f].validity \in Nat
    BY DEF Typed, TypeOK, Known
  <2>3. QED BY <2>1, <2>2 DEF Aged, Copies
<1>3. QED BY <1>1, <1>2, PTL

-----------------------------------------------------------------------------
(* What a folder has, and what the session announces.                      *)

(* The two ways in which a synchronisation is known to go wrong, left out  *)
(* here as they are left out of the run: a VANISHED response that is not   *)
(* about the folder, or not about the life of it, that is synchronised     *)
(* next, and a synchronisation with CONDSTORE that fails.                  *)
OwnVanished ==
    "qresync" \in Servers /\ "delete" \in Events["qresync"]
        => "rebuild" \notin Events["qresync"] /\ \A f, g \in Folders : f = g
CondstoreNeverFails == \A s \in Servers \ {"none"} : MaxFaults[s] = 0

(* MODSEQs count up, and a UID that has gone does not come back.           *)
Counted(f) ==
    /\ 1 <= mailbox[f].modseq
    /\ \A u \in Uids :
          /\ mailbox[f].at[u] <= mailbox[f].modseq
          /\ mailbox[f].gone[u] <= mailbox[f].modseq
          /\ mailbox[f].at[u] > 0 => u < mailbox[f].next
Gone(f, u) == mailbox[f].at[u] = 0 /\ u < mailbox[f].next

(* A copy of the folder's present life is of a message it has, or had.     *)
OfLife(f, copy) == copy # NotStored /\ copy.validity = mailbox[f].validity
Assigned(f, copies) == \A u \in Uids : OfLife(f, copies[u]) => u < mailbox[f].next

(* What a synchronisation is going to delete is not on the server.         *)
Vanishing(f) ==
    /\ sync.pc = "envelopes" => sync.wanted \cap sync.vanished = {}
    /\ \A u \in sync.vanished :
          OfLife(f, stored[f][u]) \/ OfLife(f, sync.changed[u]) => Gone(f, u)

Deletes ==
    /\ server \in Servers
    /\ \A f \in Folders : Counted(f) /\ Assigned(f, stored[f])
    /\ \A u \in announced :
          /\ server = "qresync" /\ "delete" \in Events[server]
          /\ \A f \in Folders : Gone(f, u)
    /\ sync.pc # "idle" => Assigned(sync.folder, sync.changed)
    /\ sync.pc \in {"envelopes", "upsert", "prune"} => Vanishing(sync.folder)


LEMMA DeletesInit == Init => Deletes
<1> SUFFICES ASSUME Init, NEW f \in Folders PROVE Deletes
  BY DEF Init, Deletes, AtRest
<1>1. \A g \in Folders : mailbox[g] = Fresh(1, Initial) /\ stored[g] = NoCopies
  BY DEF Init
<1>2. ASSUME NEW g \in Folders PROVE Counted(g) /\ Assigned(g, stored[g])
  <2>1. Assigned(g, stored[g])
    BY <1>1 DEF Assigned, OfLife, NoCopies
  <2>2. mailbox[g] = Fresh(1, Initial)
    BY <1>1
  <2>3. Initial \in Nat
    BY FolderSyncAssumption
  <2>4. Counted(g)
    BY <2>2, <2>3 DEF Counted, Fresh, Uids
  <2>5. QED BY <2>1, <2>4
<1>3. QED BY <1>2 DEF Init, Deletes, AtRest

(* What a change of one message does to its folder.                        *)
LEMMA Touched ==
    ASSUME TypeOK, NEW f \in Folders, NEW u \in Uids, Touch(f, u)
    PROVE  /\ \A g \in Folders : g # f => mailbox'[g] = mailbox[g]
           /\ mailbox'[f].validity = mailbox[f].validity
           /\ mailbox'[f].modseq = mailbox[f].modseq + 1
           /\ mailbox'[f].gone = mailbox[f].gone
           /\ mailbox'[f].at = [mailbox[f].at EXCEPT ![u] = mailbox[f].modseq + 1]
           /\ mailbox'[f].next = IF u = mailbox[f].next THEN mailbox[f].next + 1
                                                        ELSE mailbox[f].next
<1> DEFINE box == mailbox[f]
           at == [box.at EXCEPT ![u] = box.modseq + 1]
           next == IF u = box.next THEN box.next + 1 ELSE box.next
<1>1. mailbox \in [Folders -> Mailboxes] /\ box \in Mailboxes
  BY DEF TypeOK
<1>2. mailbox' = [mailbox EXCEPT ![f] =
          [box EXCEPT !.modseq = box.modseq + 1, !.at = at, !.next = next]]
  BY <1>1 DEF Touch, Mailboxes
<1>3. \A a, b, c : LET new == [box EXCEPT !.modseq = a, !.at = b, !.next = c] IN
          /\ new.modseq = a /\ new.at = b /\ new.next = c
          /\ new.validity = box.validity /\ new.gone = box.gone
  BY <1>1 DEF Mailboxes
<1> HIDE DEF at, next
<1>4. QED BY <1>1, <1>2, <1>3 DEF at, next

LEMMA Removed ==
    ASSUME TypeOK, NEW f \in Folders, NEW u \in Uids, Remove(f, u)
    PROVE  /\ \A g \in Folders : g # f => mailbox'[g] = mailbox[g]
           /\ mailbox'[f].validity = mailbox[f].validity
           /\ mailbox'[f].modseq = mailbox[f].modseq + 1
           /\ mailbox'[f].next = mailbox[f].next
           /\ mailbox'[f].at = [mailbox[f].at EXCEPT ![u] = 0]
           /\ mailbox'[f].gone = [mailbox[f].gone EXCEPT ![u] = mailbox[f].modseq + 1]
<1> DEFINE box == mailbox[f]
           at == [box.at EXCEPT ![u] = 0]
           gone == [box.gone EXCEPT ![u] = box.modseq + 1]
<1>1. mailbox \in [Folders -> Mailboxes] /\ box \in Mailboxes
  BY DEF TypeOK
<1>2. mailbox' = [mailbox EXCEPT ![f] =
          [box EXCEPT !.modseq = box.modseq + 1, !.at = at, !.gone = gone]]
  BY <1>1 DEF Remove, Mailboxes
<1>3. \A a, b, c : LET new == [box EXCEPT !.modseq = a, !.at = b, !.gone = c] IN
          /\ new.modseq = a /\ new.at = b /\ new.gone = c
          /\ new.validity = box.validity /\ new.next = box.next
  BY <1>1 DEF Mailboxes
<1> HIDE DEF at, gone
<1>4. QED BY <1>1, <1>2, <1>3 DEF at, gone

(* The server counts on, and what has gone stays away while the folder is  *)
(* not made again.                                                         *)
LEMMA ServerCounts ==
    ASSUME Typed, Deletes, NEW f \in Folders, NEW u \in Uids, NEW g \in Folders,
           Deliver(f) \/ Change(f, u) \/ Expunge(f, u) \/ Delete(f, u)
    PROVE  /\ Counted(g)' /\ mailbox'[g].validity = mailbox[g].validity
           /\ mailbox[g].next <= mailbox'[g].next
           /\ \A w \in Uids : Gone(g, w) => Gone(g, w)'
<1>1. /\ Counted(g) /\ TypeOK /\ mailbox[g].next \in Nat /\ mailbox[g].modseq \in Nat
      /\ mailbox[g].at \in [Uids -> Nat] /\ mailbox[g].gone \in [Uids -> Nat]
  BY DEF Deletes, Typed, TypeOK, Mailboxes
<1>u. Uids \subseteq Nat
  BY DEF Uids
<1>2. CASE g # f
  <2>1. mailbox'[g] = mailbox[g]
    <3>1. CASE Deliver(f)
      <4>1. mailbox[f].next \in Uids
        BY <3>1, <1>1 DEF Deliver, TypeOK, Mailboxes, Uids
      <4>2. QED BY <3>1, <4>1, <1>1, <1>2, Touched DEF Deliver
    <3>2. CASE Change(f, u)
      BY <3>2, <1>1, <1>2, Touched DEF Change
    <3>3. CASE Expunge(f, u) \/ Delete(f, u)
      BY <3>3, <1>1, <1>2, Removed DEF Expunge, Delete
    <3>4. QED BY <3>1, <3>2, <3>3
  <2>2. QED BY <1>1, <2>1 DEF Counted, Gone
<1>3. CASE g = f /\ Deliver(f)
  <2>1. mailbox[f].next \in Uids
    BY <1>1, <1>3 DEF Deliver, TypeOK, Mailboxes, Uids
  <2>2. Touch(f, mailbox[f].next)
    BY <1>3 DEF Deliver
  <2>3. /\ mailbox'[g].validity = mailbox[g].validity
        /\ mailbox'[g].modseq = mailbox[g].modseq + 1
        /\ mailbox'[g].gone = mailbox[g].gone
        /\ mailbox'[g].at = [mailbox[g].at EXCEPT ![mailbox[g].next] = mailbox[g].modseq + 1]
        /\ mailbox'[g].next = mailbox[g].next + 1
    BY <1>1, <1>3, <2>1, <2>2, Touched
  <2>4. ASSUME NEW w \in Uids
        PROVE  /\ mailbox'[g].at[w] <= mailbox'[g].modseq
               /\ mailbox'[g].gone[w] <= mailbox'[g].modseq
               /\ mailbox'[g].at[w] > 0 => w < mailbox'[g].next
               /\ Gone(g, w) => Gone(g, w)'
    <3>1. /\ mailbox[g].at[w] \in Nat /\ mailbox[g].gone[w] \in Nat /\ w \in Nat
          /\ mailbox[g].at[w] <= mailbox[g].modseq /\ mailbox[g].gone[w] <= mailbox[g].modseq
          /\ mailbox[g].at[w] > 0 => w < mailbox[g].next
      BY <1>1, <1>u DEF Counted
    <3>2. CASE w = mailbox[g].next
      BY <1>1, <1>3, <2>3, <3>1, <3>2 DEF Gone
    <3>3. CASE w # mailbox[g].next
      <4>1. mailbox'[g].at[w] = mailbox[g].at[w]
        BY <1>1, <2>3, <3>3
      <4>2. QED BY <1>1, <2>3, <3>1, <4>1 DEF Gone
    <3>4. QED BY <3>2, <3>3
  <2>5. QED BY <1>1, <2>3, <2>4 DEF Counted
<1>4. CASE g = f /\ Change(f, u)
  <2>1. Touch(f, u) /\ mailbox[g].at[u] > 0
    BY <1>4 DEF Change, Present
  <2>2. /\ mailbox'[g].validity = mailbox[g].validity
        /\ mailbox'[g].modseq = mailbox[g].modseq + 1
        /\ mailbox'[g].gone = mailbox[g].gone
        /\ mailbox'[g].at = [mailbox[g].at EXCEPT ![u] = mailbox[g].modseq + 1]
        /\ mailbox'[g].next = IF u = mailbox[g].next THEN mailbox[g].next + 1
                                                     ELSE mailbox[g].next
    BY <1>1, <1>4, <2>1, Touched
  <2>3. u < mailbox[g].next
    BY <1>1, <2>1 DEF Counted
  <2>4. QED BY <1>1, <1>u, <2>1, <2>2, <2>3 DEF Counted, Gone
<1>5. CASE g = f /\ (Expunge(f, u) \/ Delete(f, u))
  <2>1. Remove(f, u) /\ mailbox[g].at[u] > 0
    BY <1>5 DEF Expunge, Delete, Present
  <2>2. /\ mailbox'[g].validity = mailbox[g].validity
        /\ mailbox'[g].modseq = mailbox[g].modseq + 1
        /\ mailbox'[g].next = mailbox[g].next
        /\ mailbox'[g].at = [mailbox[g].at EXCEPT ![u] = 0]
        /\ mailbox'[g].gone = [mailbox[g].gone EXCEPT ![u] = mailbox[g].modseq + 1]
    BY <1>1, <1>5, <2>1, Removed
  <2>3. QED BY <1>1, <1>u, <2>1, <2>2 DEF Counted, Gone
<1>6. QED BY <1>2, <1>3, <1>4, <1>5

LEMMA RebuildCounts ==
    ASSUME Typed, Deletes, NEW f \in Folders, NEW count \in 0 .. Initial, Rebuild(f, count)
    PROVE  /\ \A g \in Folders : Counted(g)' /\ (g # f => mailbox'[g] = mailbox[g])
           /\ mailbox'[f].validity = mailbox[f].validity + 1
<1>1. mailbox' = [mailbox EXCEPT ![f] = Fresh(mailbox[f].validity + 1, count)]
  BY DEF Rebuild
<1>2. mailbox \in [Folders -> Mailboxes]
  BY DEF Typed, TypeOK
<1>3. mailbox'[f] = Fresh(mailbox[f].validity + 1, count)
      /\ \A g \in Folders : g # f => mailbox'[g] = mailbox[g]
  BY <1>1, <1>2
<1>4. Counted(f)'
  BY <1>3, FolderSyncAssumption DEF Counted, Fresh, Uids
<1>5. \A g \in Folders : g # f => Counted(g)'
  BY <1>3 DEF Deletes, Counted
<1>6. QED BY <1>3, <1>4, <1>5 DEF Fresh

LEMMA DeletesServer ==
    ASSUME OwnVanished, Typed, Lives, Deletes, NEW f \in Folders, NEW u \in Uids,
           Deliver(f) \/ Change(f, u) \/ Expunge(f, u) \/ Delete(f, u)
    PROVE  Deletes'
<1>1. /\ UNCHANGED <<server, stored>>
      /\ sync' = sync \/ sync' = [sync EXCEPT !.quiet = FALSE]
  BY DEF Deliver, Change, Expunge, Delete, Disturb
<1>2. /\ sync'.pc = sync.pc /\ sync'.folder = sync.folder /\ sync'.changed = sync.changed
      /\ sync'.wanted = sync.wanted /\ sync'.vanished = sync.vanished
      /\ sync.vanished \subseteq Uids
  BY <1>1 DEF Typed, TypeOK, Syncs
<1>3. \A g \in Folders :
          /\ Counted(g)' /\ mailbox'[g].validity = mailbox[g].validity
          /\ mailbox[g].next <= mailbox'[g].next
          /\ mailbox[g].next \in Nat /\ mailbox'[g].next \in Nat
          /\ \A w \in Uids : Gone(g, w) => Gone(g, w)'
  <2>1. Typed'
    BY FolderSyncAssumption, TypeServer
  <2>2. \A g \in Folders : mailbox[g].next \in Nat /\ mailbox'[g].next \in Nat
    BY <2>1 DEF Typed, TypeOK, Mailboxes
  <2>3. QED BY <2>2, ServerCounts
<1>4. Uids \subseteq Nat
  BY DEF Uids
<1>6. ASSUME NEW g \in Folders PROVE Assigned(g, stored[g])'
  <2>1. Assigned(g, stored[g])
    BY DEF Deletes
  <2>2. QED BY <1>1, <1>3, <1>4, <2>1 DEF Assigned, OfLife
<1>7. ASSUME sync.pc # "idle" PROVE Assigned(sync.folder, sync.changed)'
  <2>1. PICK g \in Folders : g = sync.folder /\ Assigned(g, sync.changed)
    BY <1>7 DEF Deletes, Typed
  <2>2. sync'.folder = g /\ sync'.changed = sync.changed
    BY <1>2, <2>1
  <2>3. \A w \in Uids : OfLife(g, sync.changed[w])' => w < mailbox'[g].next
    BY <1>3, <1>4, <2>1, <2>2 DEF Assigned, OfLife
  <2>4. QED BY <2>2, <2>3 DEF Assigned, OfLife
<1>8. ASSUME sync.pc \in {"envelopes", "upsert", "prune"} PROVE Vanishing(sync.folder)'
  <2> DEFINE g == sync.folder
  <2>1. g \in Folders /\ Vanishing(g)
    BY <1>8 DEF Deletes, Typed
  <2>2. QED BY <1>1, <1>2, <1>3, <2>1 DEF Vanishing, OfLife
<1>9. ASSUME NEW w \in announced'
      PROVE  /\ server = "qresync" /\ "delete" \in Events[server]
             /\ \A g \in Folders : Gone(g, w)'
  <2>1. CASE w \in announced
    <3>1. w \in Uids
      BY <2>1 DEF Typed, TypeOK
    <3>2. QED BY <1>3, <2>1, <3>1 DEF Deletes
  <2>2. CASE w \notin announced
    <3>1. Delete(f, u) /\ w = u /\ server = "qresync"
      BY <1>9, <2>2 DEF Deliver, Change, Expunge, Delete
    <3>2. "delete" \in Events[server] /\ "qresync" \in Servers
      BY <3>1 DEF Delete, Happens, Deletes
    <3>3. \A g \in Folders : g = f
      BY <3>1, <3>2 DEF OwnVanished
    <3>4. mailbox'[f].at[u] = 0 /\ u < mailbox'[f].next
      <4>1. Remove(f, u) /\ mailbox[f].at[u] > 0 /\ mailbox[f].at \in [Uids -> Nat]
        BY <3>1 DEF Delete, Present, Typed, TypeOK, Mailboxes
      <4>2. u < mailbox[f].next
        BY <4>1 DEF Deletes, Counted
      <4>3. /\ mailbox'[f].next = mailbox[f].next
            /\ mailbox'[f].at = [mailbox[f].at EXCEPT ![u] = 0]
        BY <4>1, Removed DEF Typed
      <4>4. QED BY <4>1, <4>2, <4>3
    <3>5. QED BY <3>1, <3>2, <3>3, <3>4 DEF Gone
  <2>3. QED BY <2>1, <2>2
<1>10. QED BY <1>1, <1>2, <1>3, <1>6, <1>7, <1>8, <1>9 DEF Deletes

(* A folder that was made again has none of the messages that are held,    *)
(* and nothing was announced that could be taken for one of them.          *)
LEMMA DeletesRebuild ==
    ASSUME OwnVanished, Typed, Lives, Deletes, NEW f \in Folders,
           NEW count \in 0 .. Initial, Rebuild(f, count)
    PROVE  Deletes'
<1>1. /\ UNCHANGED <<server, stored, announced>>
      /\ sync' = sync \/ sync' = [sync EXCEPT !.quiet = FALSE]
  BY DEF Rebuild, Disturb
<1>2. /\ sync'.pc = sync.pc /\ sync'.folder = sync.folder /\ sync'.changed = sync.changed
      /\ sync'.wanted = sync.wanted /\ sync'.vanished = sync.vanished
      /\ sync.vanished \subseteq Uids /\ sync.changed \in [Uids -> Copies]
  BY <1>1 DEF Typed, TypeOK, Syncs
<1>3. \A g \in Folders : Counted(g)' /\ (g # f => mailbox'[g] = mailbox[g])
  BY RebuildCounts
<1>4. ASSUME NEW u \in Uids
      PROVE  ~OfLife(f, stored[f][u])' /\ (sync.folder = f /\ sync.pc # "idle" => ~OfLife(f, sync.changed[u])')
  <2>1. /\ mailbox'[f].validity = mailbox[f].validity + 1 /\ mailbox[f].validity \in Nat
        /\ stored[f][u] \in Copies /\ sync.changed[u] \in Copies
    BY <1>2, RebuildCounts DEF Typed, TypeOK, Mailboxes
  <2>2. stored[f][u] # NotStored => Aged(f, stored[f][u])
    BY DEF Lives, FolderLives, Known
  <2>3. sync.folder = f /\ sync.pc # "idle" /\ sync.changed[u] # NotStored
            => Aged(f, sync.changed[u])
    BY DEF Lives, SyncLives
  <2>4. QED BY <1>1, <1>2, <2>1, <2>2, <2>3 DEF OfLife, Aged, Copies
<1>5. ASSUME NEW g \in Folders PROVE Assigned(g, stored[g])'
  BY <1>1, <1>3, <1>4 DEF Deletes, Assigned, OfLife
<1>6. ASSUME sync.pc # "idle" PROVE Assigned(sync.folder, sync.changed)'
  <2>1. PICK g \in Folders : g = sync.folder /\ Assigned(g, sync.changed)
    BY <1>6 DEF Deletes, Typed
  <2>2. sync'.folder = g /\ sync'.changed = sync.changed
    BY <1>2, <2>1
  <2>3. CASE g = f
    BY <1>4, <1>6, <2>1, <2>2, <2>3 DEF Assigned
  <2>4. CASE g # f
    BY <1>3, <2>1, <2>2, <2>4 DEF Assigned, OfLife
  <2>5. QED BY <2>3, <2>4
<1>7. ASSUME sync.pc \in {"envelopes", "upsert", "prune"} PROVE Vanishing(sync.folder)'
  <2>1. PICK g \in Folders : g = sync.folder /\ Vanishing(g)
    BY <1>7 DEF Deletes, Typed
  <2>2. sync'.folder = g /\ stored' = stored /\ sync'.changed = sync.changed
    BY <1>1, <1>2, <2>1
  <2>3. CASE g = f
    BY <1>2, <1>4, <1>7, <2>1, <2>2, <2>3 DEF Vanishing
  <2>4. CASE g # f
    BY <1>2, <1>3, <2>1, <2>2, <2>4 DEF Vanishing, OfLife, Gone
  <2>5. QED BY <2>3, <2>4
<1>8. announced = {}
  <2>1. "rebuild" \in Events[server] /\ server \in Servers
    BY DEF Rebuild, Happens, Deletes
  <2>2. QED BY <2>1 DEF Deletes, OwnVanished
<1>9. QED BY <1>1, <1>2, <1>3, <1>5, <1>6, <1>7, <1>8 DEF Deletes

LEMMA DeletesSync ==
    ASSUME Typed, Deletes, SyncFolder
    PROVE  Deletes'
<1> USE DEF Typed, TypeOK
<1> DEFINE f == sync.folder
<1>s. ASSUME sync.pc # "idle"
      PROVE  /\ f \in Folders /\ Counted(f) /\ Assigned(f, stored[f]) /\ Assigned(f, sync.changed)
             /\ mailbox[f].at \in [Uids -> Nat] /\ mailbox[f].next \in Nat
             /\ sync.changed \in [Uids -> Copies] /\ sync.since \in Nat
  BY <1>s DEF Deletes, Mailboxes, Syncs
<1>g. UNCHANGED <<server, mailbox>>
  BY DEF SyncFolder, Begin, Select, ClearMessages, SetFolderState, MessageUids, FetchDelta,
         MissingUids, ScanUids, FetchEnvelopes, UpsertMessages, DeleteMessages
<1>o. \A g, copy : (OfLife(g, copy)' <=> OfLife(g, copy)) /\ (Gone(g, copy)' <=> Gone(g, copy))
  BY <1>g DEF OfLife, Gone
<1>c. \A g \in Folders : Counted(g)'
  BY <1>g DEF Deletes, Counted
<1>p. ASSUME sync.pc # "idle", NEW u \in Uids, mailbox[f].at[u] > 0
      PROVE  u < mailbox[f].next
  BY <1>s, <1>p DEF Counted
<1>v. ASSUME sync.pc # "idle", NEW u \in Uids \ Present(f),
             OfLife(f, stored[f][u]) \/ OfLife(f, sync.changed[u])
      PROVE  Gone(f, u)
  BY <1>s, <1>v DEF Present, Gone, Assigned
<1>1. ASSUME NEW g \in Folders, Begin(g) PROVE Deletes'
  <2>1. Assigned(g, NoCopies)
    BY DEF Assigned, OfLife, NoCopies
  <2>2. sync'.folder = g /\ sync'.changed = NoCopies /\ sync'.pc = "select"
    BY <1>1 DEF Begin, AtRest
  <2>3. UNCHANGED <<stored, announced>>
    BY <1>1 DEF Begin
  <2>4. QED BY <1>g, <1>o, <1>c, <2>1, <2>2, <2>3 DEF Deletes, Assigned, OfLife, Gone
<1>2. CASE Select \/ SetFolderState \/ MessageUids
  <2>1. /\ sync.pc # "idle" /\ sync'.folder = f /\ sync'.changed = sync.changed
        /\ sync'.pc \in {"clear", "state", "known", "delta", "scan"}
    BY ZenonT(40), <1>2 DEF Select, SetFolderState, MessageUids, Step, Syncs
  <2>2. UNCHANGED <<stored, announced>>
    BY <1>2 DEF Select, SetFolderState, MessageUids
  <2>3. QED BY <1>s, <1>g, <1>c, <2>1, <2>2 DEF Deletes, Assigned, OfLife, Gone
<1>3. CASE ClearMessages
  <2>1. /\ sync.pc # "idle" /\ sync'.folder = f /\ sync'.changed = sync.changed
        /\ sync'.pc = "state"
    BY <1>3 DEF ClearMessages, Step, Syncs
  <2>2. stored' = [stored EXCEPT ![f] = NoCopies] /\ announced' = announced
    BY <1>3 DEF ClearMessages, Cleared
  <2>3. ASSUME NEW g \in Folders PROVE Assigned(g, stored[g])'
    BY <1>g, <1>s, <2>1, <2>2 DEF Deletes, Assigned, OfLife, NoCopies
  <2>4. QED BY <1>s, <1>g, <1>c, <2>1, <2>2, <2>3 DEF Deletes, Assigned, OfLife, Gone
<1>4. CASE FetchDelta
  <2>1. /\ sync.pc # "idle" /\ sync'.folder = f /\ sync'.pc \in {"upsert", "rescan"}
        /\ sync'.changed = ChangedSince(f, sync.since)
        /\ sync'.vanished = IF server = "qresync" THEN VanishedSince(f, sync.since) ELSE {}
    BY <1>4 DEF FetchDelta, Syncs
  <2>2. stored' = stored /\ announced' = {}
    BY <1>4 DEF FetchDelta
  <2>3. \A u \in Uids : sync'.changed[u] # NotStored => mailbox[f].at[u] > 0
    BY <1>s, <2>1 DEF ChangedSince
  <2>4. Assigned(f, sync'.changed)
    BY <1>p, <2>1, <2>3 DEF Assigned, OfLife
  <2>5. ASSUME NEW u \in sync'.vanished, OfLife(f, stored[f][u]) \/ OfLife(f, sync'.changed[u])
        PROVE  Gone(f, u)
    <3>1. u \in Uids \ Present(f) \/ u \in announced
      BY <2>1, <2>5 DEF VanishedSince
    <3>2. CASE u \in announced
      BY <1>s, <2>1, <3>2 DEF Deletes
    <3>3. CASE u \in Uids \ Present(f)
      BY <1>v, <2>1, <2>3, <2>5, <3>3 DEF OfLife, Present
    <3>4. QED BY <3>1, <3>2, <3>3
  <2>6. QED BY <1>g, <1>c, <2>1, <2>2, <2>4, <2>5 DEF Deletes, Vanishing, Assigned, OfLife, Gone
<1>5. CASE MissingUids \/ ScanUids
  <2>1. /\ sync.pc # "idle" /\ sync'.folder = f /\ sync'.changed = sync.changed
        /\ sync'.pc \in {"upsert", "envelopes"}
        /\ sync'.vanished \subseteq Uids \ Present(f)
        /\ sync'.pc = "envelopes" => sync'.wanted \subseteq Present(f)
    <3>1. /\ sync.known \subseteq Uids /\ Known(f) \subseteq Uids
          /\ Newest(Present(f)) \subseteq Present(f)
      BY DEF Syncs, Known, Newest
    <3>2. CASE MissingUids
      BY <3>1, <3>2 DEF MissingUids, Missing, Syncs
    <3>3. CASE ScanUids
      BY <3>1, <3>3 DEF ScanUids, Missing, Syncs
    <3>4. QED BY <1>5, <3>2, <3>3
  <2>2. UNCHANGED <<stored, announced>>
    BY <1>5 DEF MissingUids, ScanUids
  <2>3. \A u \in sync'.vanished : OfLife(f, stored[f][u]) \/ OfLife(f, sync'.changed[u])
            => Gone(f, u)
    BY <1>v, <2>1
  <2>4. QED BY <1>s, <1>g, <1>c, <2>1, <2>2, <2>3 DEF Deletes, Vanishing, Assigned, OfLife, Gone
<1>6. CASE FetchEnvelopes
  <2>1. /\ sync.pc = "envelopes" /\ sync'.folder = f /\ sync'.pc = "upsert"
        /\ sync'.vanished = sync.vanished
        /\ sync'.changed = [u \in Uids |-> IF u \in sync.wanted \cap Present(f)
                                           THEN CopyOf(f, u) ELSE NotStored]
    BY <1>6 DEF FetchEnvelopes, Syncs
  <2>2. UNCHANGED <<stored, announced>>
    BY <1>6 DEF FetchEnvelopes
  <2>3. Assigned(f, sync'.changed)
    BY <1>p, <2>1 DEF Assigned, OfLife, Present
  <2>4. Vanishing(f) /\ sync.vanished \subseteq Uids
    BY <2>1 DEF Deletes, Syncs
  <2>5. \A u \in sync.vanished : OfLife(f, stored[f][u]) \/ OfLife(f, sync'.changed[u])
            => Gone(f, u)
    BY <2>1, <2>4 DEF Vanishing, OfLife
  <2>6. QED BY <1>s, <1>g, <1>c, <2>1, <2>2, <2>3, <2>5 DEF Deletes, Vanishing, Assigned, OfLife, Gone
<1>7. CASE UpsertMessages
  <2>1. /\ sync.pc = "upsert" /\ sync'.folder = f /\ sync'.pc = "prune"
        /\ sync'.vanished = sync.vanished /\ sync'.changed = sync.changed
    BY <1>7 DEF UpsertMessages, Step, Syncs
  <2>2. /\ \A u \in Uids : stored'[f][u] = IF sync.changed[u] # NotStored THEN sync.changed[u]
                                            ELSE stored[f][u]
        /\ \A g \in Folders \ {f} : stored'[g] = stored[g]
        /\ announced' = announced
    BY <1>7, <1>s, <2>1 DEF UpsertMessages
  <2>3. Vanishing(f) /\ sync.vanished \subseteq Uids
    BY <2>1 DEF Deletes, Syncs
  <2>4. Assigned(f, stored'[f]) /\ \A u \in sync.vanished :
            OfLife(f, stored'[f][u]) \/ OfLife(f, sync.changed[u]) => Gone(f, u)
    BY <1>s, <2>1, <2>2, <2>3 DEF Assigned, Vanishing
  <2>5. ASSUME NEW g \in Folders PROVE Assigned(g, stored[g])'
    BY <1>g, <2>2, <2>4 DEF Deletes, Assigned, OfLife
  <2>6. QED BY <1>s, <1>g, <1>c, <2>1, <2>2, <2>4, <2>5 DEF Deletes, Vanishing, Assigned, OfLife, Gone
<1>8. CASE DeleteMessages
  <2>1. sync.pc = "prune" /\ sync'.pc = "idle" /\ announced' = announced
    BY <1>8 DEF DeleteMessages, AtRest
  <2>2. \A g \in Folders, u \in Uids : stored'[g][u] \in {stored[g][u], NotStored}
    BY <1>8, <1>s, <2>1 DEF DeleteMessages
  <2>3. ASSUME NEW g \in Folders PROVE Assigned(g, stored[g])'
    BY <1>g, <2>2 DEF Deletes, Assigned, OfLife
  <2>4. QED BY <1>g, <1>c, <2>1, <2>3 DEF Deletes, Gone
<1>9. QED BY <1>1, <1>2, <1>3, <1>4, <1>5, <1>6, <1>7, <1>8 DEF SyncFolder

LEMMA DeletesNext ==
    OwnVanished => (Typed /\ Lives /\ Deletes /\ [Next]_vars => Deletes')
<1> SUFFICES ASSUME OwnVanished, Typed, Lives, Deletes, [Next]_vars PROVE Deletes'
  OBVIOUS
<1>1. CASE Abort \/ UNCHANGED vars
  <2>1. /\ UNCHANGED <<server, mailbox, stored>> /\ (sync' = AtRest \/ sync' = sync)
        /\ announced' = {} \/ announced' = announced
    BY <1>1 DEF Abort, vars
  <2>2. AtRest.pc = "idle"
    BY DEF AtRest
  <2>3. QED BY <2>1, <2>2 DEF Deletes, Counted, Assigned, OfLife, Gone, Vanishing
<1>2. ASSUME NEW f \in Folders, NEW u \in Uids,
             Deliver(f) \/ Change(f, u) \/ Expunge(f, u) \/ Delete(f, u)
      PROVE  Deletes'
  BY <1>2, DeletesServer
<1>3. 1 \in Uids
  BY FolderSyncAssumption DEF Uids
<1>4. QED BY <1>1, <1>2, <1>3, DeletesSync, DeletesRebuild DEF Next

(* But for the clearing of a folder that was made again, a message leaves   *)
(* the mirror only once the server no longer has it, on any server, with    *)
(* any failures, if the VANISHED responses of a session are its folder's    *)
(* own (fetch_delta, missing_uids, EnvelopeWindow).                         *)
THEOREM FolderKeptWhileOnServer ==
    ASSUME OwnVanished PROVE Spec => KeptWhileOnServer
<1> DEFINE Kept(f) == \A u \in Known(f) :
               stored'[f][u] = NotStored /\ sync.pc # "clear"
                   => u \notin Present(f) \/ stored[f][u].validity # mailbox[f].validity
<1>1. Spec => [](Typed /\ Lives /\ Deletes)
  <2>1. OwnVanished
    OBVIOUS
  <2>2. Typed /\ Lives /\ Deletes /\ [Next]_vars => (Typed /\ Lives /\ Deletes)'
    BY <2>1, TypeNext, LivesNext, DeletesNext
  <2>3. Init => Typed /\ Lives /\ Deletes
    BY TypeInit, LivesInit, DeletesInit
  <2>4. QED BY <2>2, <2>3, PTL DEF Spec
<1>2. ASSUME Typed, Deletes, [Next]_vars, NEW f \in Folders PROVE Kept(f)
  <2> SUFFICES ASSUME NEW u \in Known(f), stored'[f][u] = NotStored, sync.pc # "clear",
                      stored[f][u].validity = mailbox[f].validity
               PROVE  u \notin Present(f)
    OBVIOUS
  <2>1. u \in Uids /\ stored[f][u] # NotStored /\ stored' # stored
    BY DEF Known
  <2>2. UpsertMessages \/ DeleteMessages
    BY <1>2, <2>1 DEF Next, SyncFolder, vars, Abort, Deliver, Change, Expunge, Delete, Rebuild,
           Begin, Select, ClearMessages, Step, SetFolderState, MessageUids, FetchDelta,
           MissingUids, ScanUids, FetchEnvelopes
  <2>3. stored \in [Folders -> [Uids -> Copies]]
    BY <1>2 DEF Typed, TypeOK
  <2>4. sync.pc = "prune" /\ f = sync.folder /\ u \in sync.vanished
    BY <2>1, <2>2, <2>3 DEF UpsertMessages, DeleteMessages
  <2>5. Vanishing(f)
    BY <1>2, <2>4 DEF Deletes
  <2>6. QED BY <2>1, <2>4, <2>5 DEF Vanishing, OfLife, Gone, Present
<1>3. Typed /\ Lives /\ Deletes /\ [Next]_vars => [\A f \in Folders : Kept(f)]_vars
  BY <1>2
<1>4. QED BY <1>1, <1>3, PTL DEF Spec, KeptWhileOnServer

-----------------------------------------------------------------------------
(* What a MODSEQ stands for.                                               *)

(* What changed no later than since is held as it is; what went no later   *)
(* is not held.                                                            *)
MirrorAt(f, since) ==
    /\ \A u \in Present(f) :
          (u \in owed[f] \cup Known(f)) /\ mailbox[f].at[u] <= since
              => stored[f][u] = CopyOf(f, u)
    /\ \A u \in Known(f) \ Present(f) : mailbox[f].gone[u] > since

(* What is going to be held.                                               *)
Got(f, u) == IF sync.changed[u] # NotStored THEN sync.changed[u] ELSE stored[f][u]
Fetched(f) ==
    /\ \A u \in Present(f) :
          (u \in owed[f] \/ Got(f, u) # NotStored) /\ mailbox[f].at[u] <= sync.modseq
              => Got(f, u) = CopyOf(f, u) /\ u \notin sync.vanished
    /\ \A u \in Uids \ Present(f) :
          Got(f, u) # NotStored
              => \/ mailbox[f].gone[u] > sync.modseq
                 \/ u \in sync.vanished \/ (sync.pc = "rescan" /\ u \in Known(f))

RowCounted(f) ==
    /\ row[f].validity = 0 => row[f].modseq = 0
    /\ row[f].validity # 0 => 1 <= row[f].modseq
    /\ row[f].validity = mailbox[f].validity => row[f].modseq <= mailbox[f].modseq

(* A synchronisation, from the old MODSEQ to the new one.                  *)
Progress(f) ==
    CASE sync.pc = "clear"               -> sync.since = 0
      [] sync.pc \in {"state", "known"}  -> IF sync.since = 0 THEN Known(f) = {}
                                            ELSE MirrorAt(f, sync.since)
      [] sync.pc = "delta"               -> MirrorAt(f, sync.since)
      [] sync.pc = "scan"                -> Known(f) = {} /\ sync.known = {}
      [] sync.pc = "envelopes"           ->
            /\ Known(f) = {} /\ sync.vanished = {}
            /\ \A u \in Present(f) \cap owed[f] :
                  mailbox[f].at[u] <= sync.modseq => u \in sync.wanted
      [] sync.pc = "rescan"              -> Fetched(f) /\ sync.vanished = {}
      [] sync.pc = "upsert"              -> Fetched(f)
      [] sync.pc = "prune"               ->
            /\ Fetched(f)
            /\ \A u \in Uids : stored[f][u] = Got(f, u)
SyncMirrors(f) ==
    /\ sync.pc = "select" =>
          /\ sync.since = row[f].modseq
          /\ row[f].validity = mailbox[f].validity => MirrorAt(f, sync.since)
    /\ sync.pc # "select" => 1 <= sync.modseq
    /\ sync.pc \notin Before => row[f].modseq = sync.modseq
    /\ sync.pc # "select" /\ sync.validity = mailbox[f].validity =>
          /\ sync.since <= mailbox[f].modseq /\ sync.modseq <= mailbox[f].modseq
          /\ Progress(f)

Mirrors ==
    Condstore =>
        /\ \A f \in Folders : RowCounted(f)
        /\ sync.pc = "idle" => sync.folder = Nowhere
        /\ \A f \in Folders :
              sync.folder # f /\ row[f].validity = mailbox[f].validity
                  => MirrorAt(f, row[f].modseq)
        /\ sync.pc # "idle" => SyncMirrors(sync.folder)

LEMMA MirrorsInit == Init => Mirrors
<1> SUFFICES ASSUME Init PROVE Mirrors
  OBVIOUS
<1>1. \A f \in Folders : row[f].validity = 0 /\ row[f].modseq = 0
  BY DEF Init
<1>2. \A f \in Folders : mailbox[f].validity = 1
  BY DEF Init, Fresh
<1>3. sync.pc = "idle" /\ sync.folder = Nowhere
  BY DEF Init, AtRest
<1>4. QED BY <1>1, <1>2, <1>3 DEF Mirrors, RowCounted

(* What another client does to a folder that is not made again: what       *)
(* changes of a message gets a newer MODSEQ.                               *)
Moved(f) ==
    /\ mailbox'[f].validity = mailbox[f].validity
    /\ mailbox[f].modseq <= mailbox'[f].modseq
    /\ \A u \in Uids :
          \/ /\ mailbox'[f].at[u] = mailbox[f].at[u] /\ mailbox'[f].gone[u] = mailbox[f].gone[u]
             /\ u \in owed'[f] <=> u \in owed[f]
          \/ mailbox'[f].at[u] > mailbox[f].modseq
          \/ mailbox'[f].at[u] = 0 /\ mailbox'[f].gone[u] > mailbox[f].modseq

LEMMA ServerMoves ==
    ASSUME Typed, NEW f \in Folders, NEW u \in Uids, NEW g \in Folders,
           Deliver(f) \/ Change(f, u) \/ Expunge(f, u) \/ Delete(f, u)
    PROVE  Moved(g)
<1>1. /\ TypeOK /\ mailbox[g].next \in 1 .. MaxUid + 1 /\ mailbox[g].modseq \in Nat
      /\ mailbox[g].at \in [Uids -> Nat] /\ mailbox[g].gone \in [Uids -> Nat]
      /\ owed \in [Folders -> SUBSET Uids]
  BY DEF Typed, TypeOK, Mailboxes
<1>2. CASE Deliver(f)
  <2> DEFINE w == mailbox[f].next
  <2>1. w \in Uids /\ Touch(f, w) /\ owed' = [owed EXCEPT ![f] = @ \cup {w}]
    BY <1>2 DEF Deliver, Typed, TypeOK, Mailboxes, Uids
  <2> HIDE DEF w
  <2>2. CASE g = f
    <3>1. /\ mailbox'[g].validity = mailbox[g].validity
          /\ mailbox'[g].modseq = mailbox[g].modseq + 1
          /\ mailbox'[g].gone = mailbox[g].gone
          /\ mailbox'[g].at = [mailbox[g].at EXCEPT ![w] = mailbox[g].modseq + 1]
          /\ owed'[g] = owed[g] \cup {w}
      BY <1>1, <2>1, <2>2, Touched
    <3>2. QED BY <1>1, <2>1, <3>1 DEF Moved
  <2>3. CASE g # f
    <3>1. mailbox'[g] = mailbox[g] /\ owed'[g] = owed[g]
      BY <1>1, <2>1, <2>3, Touched
    <3>2. QED BY <1>1, <3>1 DEF Moved
  <2>4. QED BY <2>2, <2>3
<1>3. CASE Change(f, u)
  <2>1. Touch(f, u) /\ owed' = owed
    BY <1>3 DEF Change
  <2>2. CASE g = f
    <3>1. /\ mailbox'[g].validity = mailbox[g].validity
          /\ mailbox'[g].modseq = mailbox[g].modseq + 1
          /\ mailbox'[g].gone = mailbox[g].gone
          /\ mailbox'[g].at = [mailbox[g].at EXCEPT ![u] = mailbox[g].modseq + 1]
      BY <1>1, <2>1, <2>2, Touched
    <3>2. QED BY <1>1, <2>1, <3>1 DEF Moved
  <2>3. CASE g # f
    <3>1. mailbox'[g] = mailbox[g] /\ owed'[g] = owed[g]
      BY <1>1, <2>1, <2>3, Touched
    <3>2. QED BY <1>1, <3>1 DEF Moved
  <2>4. QED BY <2>2, <2>3
<1>4. CASE Expunge(f, u) \/ Delete(f, u)
  <2>1. Remove(f, u) /\ owed' = owed
    BY <1>4 DEF Expunge, Delete
  <2>2. CASE g = f
    <3>1. /\ mailbox'[g].validity = mailbox[g].validity
          /\ mailbox'[g].modseq = mailbox[g].modseq + 1
          /\ mailbox'[g].at = [mailbox[g].at EXCEPT ![u] = 0]
          /\ mailbox'[g].gone = [mailbox[g].gone EXCEPT ![u] = mailbox[g].modseq + 1]
      BY <1>1, <2>1, <2>2, Removed
    <3>2. QED BY <1>1, <2>1, <3>1 DEF Moved
  <2>3. CASE g # f
    <3>1. mailbox'[g] = mailbox[g] /\ owed'[g] = owed[g]
      BY <1>1, <2>1, <2>3, Removed
    <3>2. QED BY <1>1, <3>1 DEF Moved
  <2>4. QED BY <2>2, <2>3
<1>5. QED BY <1>2, <1>3, <1>4

(* A mirror stays as good as it was for a MODSEQ that is not in the        *)
(* future, and so does what is being fetched.                              *)
LEMMA MirrorMoves ==
    ASSUME Typed, Typed', NEW f \in Folders, Moved(f), stored' = stored,
           NEW since \in Nat, since <= mailbox[f].modseq, MirrorAt(f, since)
    PROVE  MirrorAt(f, since)'
<1>1. /\ mailbox[f].modseq \in Nat
      /\ \A u \in Uids : /\ mailbox[f].at[u] \in Nat /\ mailbox[f].gone[u] \in Nat
                         /\ mailbox'[f].at[u] \in Nat /\ mailbox'[f].gone[u] \in Nat
  BY DEF Typed, TypeOK, Mailboxes
<1>2. Known(f)' = Known(f) /\ Known(f) \subseteq Uids
  BY DEF Known
<1>3. ASSUME NEW u \in Present(f)', u \in owed'[f] \cup Known(f), mailbox'[f].at[u] <= since
      PROVE  stored'[f][u] = CopyOf(f, u)'
  <2>1. u \in Uids /\ mailbox'[f].at[u] > 0
    BY DEF Present
  <2>2. mailbox'[f].at[u] = mailbox[f].at[u] /\ (u \in owed'[f] <=> u \in owed[f])
    BY <1>1, <1>3, <2>1 DEF Moved
  <2>3. stored[f][u] = CopyOf(f, u)
    BY <1>3, <2>1, <2>2 DEF MirrorAt, Present
  <2>4. QED BY <2>2, <2>3 DEF CopyOf, Moved
<1>4. ASSUME NEW u \in Known(f), u \notin Present(f)' PROVE mailbox'[f].gone[u] > since
  <2>1. u \in Uids /\ mailbox'[f].at[u] = 0
    BY <1>1, <1>2, <1>4 DEF Present
  <2>2. QED BY <1>1, <1>2, <2>1 DEF Moved, MirrorAt, Present
<1>5. QED BY <1>2, <1>3, <1>4 DEF MirrorAt

LEMMA FetchedMoves ==
    ASSUME Typed, Typed', sync.pc # "idle", sync.modseq <= mailbox[sync.folder].modseq,
           Moved(sync.folder), stored' = stored, Fetched(sync.folder),
           sync' = sync \/ sync' = [sync EXCEPT !.quiet = FALSE]
    PROVE  Fetched(sync.folder)'
<1>1. /\ sync'.pc = sync.pc /\ sync'.folder = sync.folder /\ sync'.changed = sync.changed
      /\ sync'.modseq = sync.modseq /\ sync'.vanished = sync.vanished /\ sync.modseq \in Nat
  BY DEF Typed, TypeOK, Syncs
<1> PICK f \in Folders : f = sync.folder
  BY DEF Typed
<1>2. /\ mailbox[f].modseq \in Nat
      /\ \A u \in Uids : /\ mailbox[f].at[u] \in Nat /\ mailbox[f].gone[u] \in Nat
                         /\ mailbox'[f].at[u] \in Nat /\ mailbox'[f].gone[u] \in Nat
  BY DEF Typed, TypeOK, Mailboxes
<1>3. Moved(f) /\ Fetched(f) /\ sync.modseq <= mailbox[f].modseq
  OBVIOUS
<1>4. \A u : Got(f, u)' = Got(f, u)
  BY <1>1 DEF Got
<1>5. Known(f)' = Known(f)
  BY DEF Known
<1>6. ASSUME NEW u \in Present(f)', u \in owed'[f] \/ Got(f, u) # NotStored,
             mailbox'[f].at[u] <= sync.modseq
      PROVE  Got(f, u) = CopyOf(f, u)' /\ u \notin sync.vanished
  <2>1. u \in Uids /\ mailbox'[f].at[u] > 0
    BY DEF Present
  <2>2. mailbox'[f].at[u] = mailbox[f].at[u] /\ (u \in owed'[f] <=> u \in owed[f])
    BY <1>1, <1>2, <1>3, <1>6, <2>1 DEF Moved
  <2>3. Got(f, u) = CopyOf(f, u) /\ u \notin sync.vanished
    BY <1>3, <1>6, <2>1, <2>2 DEF Fetched, Present
  <2>4. QED BY <1>3, <2>2, <2>3 DEF CopyOf, Moved
<1>7. ASSUME NEW u \in Uids, u \notin Present(f)', Got(f, u) # NotStored
      PROVE  \/ mailbox'[f].gone[u] > sync.modseq
             \/ u \in sync.vanished \/ (sync.pc = "rescan" /\ u \in Known(f))
  <2>1. mailbox'[f].at[u] = 0
    BY <1>2, <1>7 DEF Present
  <2>2. QED BY <1>1, <1>2, <1>3, <1>7, <2>1 DEF Moved, Fetched, Present
<1>8. QED BY <1>1, <1>4, <1>5, <1>6, <1>7 DEF Fetched

LEMMA MirrorsServer ==
    ASSUME Typed, Typed', Deletes, Mirrors, NEW f \in Folders, NEW u \in Uids,
           Deliver(f) \/ Change(f, u) \/ Expunge(f, u) \/ Delete(f, u)
    PROVE  Mirrors'
<1> SUFFICES ASSUME Condstore PROVE Mirrors'
  BY DEF Mirrors, Condstore, Deliver, Change, Expunge, Delete
<1>1. /\ UNCHANGED <<server, row, stored>>
      /\ sync' = sync \/ sync' = [sync EXCEPT !.quiet = FALSE]
  BY DEF Deliver, Change, Expunge, Delete, Disturb
<1>2. /\ sync'.pc = sync.pc /\ sync'.folder = sync.folder /\ sync'.since = sync.since
      /\ sync'.validity = sync.validity /\ sync'.modseq = sync.modseq
      /\ sync'.known = sync.known /\ sync'.wanted = sync.wanted
      /\ sync'.vanished = sync.vanished
      /\ sync.since \in Nat /\ sync.modseq \in Nat
  BY <1>1 DEF Typed, TypeOK, Syncs
<1>3. \A g \in Folders :
          /\ Moved(g) /\ Known(g)' = Known(g)
          /\ mailbox[g].modseq \in Nat /\ mailbox'[g].modseq \in Nat
          /\ row[g].modseq \in Nat
  BY <1>1, ServerMoves DEF Known, Typed, TypeOK, Mailboxes
<1>4. ASSUME NEW g \in Folders PROVE RowCounted(g)'
  BY <1>1, <1>3 DEF Mirrors, RowCounted, Moved
<1>5. ASSUME NEW g \in Folders, sync.folder # g, row[g].validity = mailbox'[g].validity
      PROVE  MirrorAt(g, row[g].modseq)'
  <2>1. PICK since \in Nat : since = row[g].modseq
    BY <1>3
  <2>2. row[g].validity = mailbox[g].validity
    BY <1>3, <1>5 DEF Moved
  <2>3. MirrorAt(g, since) /\ since <= mailbox[g].modseq
    BY <1>5, <2>1, <2>2 DEF Mirrors, RowCounted
  <2>4. MirrorAt(g, since)'
    BY <1>1, <1>3, <2>3, MirrorMoves
  <2>5. QED BY <1>1, <2>1, <2>4 DEF MirrorAt
<1>6. ASSUME sync.pc # "idle" PROVE SyncMirrors(sync.folder)'
  <2>1. PICK g \in Folders : g = sync.folder
    BY <1>6 DEF Typed
  <2>2. SyncMirrors(g) /\ Moved(g) /\ mailbox'[g].validity = mailbox[g].validity
    BY <1>3, <1>6, <2>1 DEF Mirrors, Moved
  <2>3. PICK since \in Nat : since = sync.since
    BY <1>2
  <2>4. since <= mailbox[g].modseq /\ MirrorAt(g, since) => MirrorAt(g, sync.since)'
    <3>1. since <= mailbox[g].modseq /\ MirrorAt(g, since) => MirrorAt(g, since)'
      BY <1>1, <2>2, MirrorMoves
    <3>2. QED BY <1>2, <2>3, <3>1 DEF MirrorAt
  <2>5. sync.modseq <= mailbox[g].modseq /\ Fetched(g) => Fetched(g)'
    <3>1. sync.modseq <= mailbox[g].modseq /\ Fetched(g) => Fetched(sync.folder)'
      BY <1>1, <1>6, <2>1, <2>2, FetchedMoves
    <3>2. QED BY <1>2, <2>1, <3>1 DEF Fetched
  <2>6. sync.pc = "select" /\ row[g].validity = mailbox'[g].validity => MirrorAt(g, sync.since)'
    BY <1>6, <2>1, <2>2, <2>3, <2>4 DEF SyncMirrors, Mirrors, RowCounted
  <2>7. ASSUME sync.pc # "select", sync.validity = mailbox[g].validity
        PROVE  Progress(g)'
    <3>1. /\ Progress(g) /\ sync.since <= mailbox[g].modseq
          /\ sync.modseq <= mailbox[g].modseq
      BY <2>2, <2>7 DEF SyncMirrors
    <3>2. CASE sync.pc \in {"clear", "scan"}
      BY <1>2, <1>3, <3>1, <3>2 DEF Progress
    <3>3. CASE sync.pc \in {"state", "known", "delta"}
      BY <1>2, <1>3, <2>3, <2>4, <3>1, <3>3 DEF Progress
    <3>4. CASE sync.pc = "envelopes"
      <4>1. ASSUME NEW w \in Uids, w \in Present(g)' \cap owed'[g], mailbox'[g].at[w] <= sync.modseq
            PROVE  w \in sync.wanted
        <5>1. mailbox'[g].at[w] \in Nat /\ mailbox'[g].at[w] > 0
          BY <4>1 DEF Typed, TypeOK, Mailboxes, Present
        <5>2. mailbox'[g].at[w] = mailbox[g].at[w] /\ w \in owed[g]
          BY <1>2, <1>3, <2>2, <3>1, <4>1, <5>1 DEF Moved
        <5>3. QED BY <3>1, <3>4, <4>1, <5>1, <5>2 DEF Progress, Present
      <4>2. Known(g) = {} /\ sync.vanished = {}
        BY <3>1, <3>4 DEF Progress
      <4>3. Present(g)' \subseteq Uids
        BY DEF Present
      <4>4. QED BY <1>2, <1>3, <3>4, <4>1, <4>2, <4>3 DEF Progress
    <3>5. CASE sync.pc \in {"rescan", "upsert"}
      BY <1>2, <2>5, <3>1, <3>5 DEF Progress
    <3>6. CASE sync.pc = "prune"
      <4>1. \A w \in Uids : stored'[g][w] = Got(g, w)'
        <5>1. \A w \in Uids : stored[g][w] = Got(g, w)
          BY <3>1, <3>6 DEF Progress
        <5>2. sync'.changed = sync.changed
          BY <1>1 DEF Typed, TypeOK, Syncs
        <5>3. QED BY <1>1, <5>1, <5>2 DEF Got
      <4>2. QED BY <1>2, <2>5, <3>1, <3>6, <4>1 DEF Progress
    <3>7. sync.pc \in {"clear", "scan", "state", "known", "delta", "envelopes",
                       "rescan", "upsert", "prune"}
      BY <1>6, <2>7 DEF Typed, TypeOK, Syncs
    <3>8. QED BY <3>2, <3>3, <3>4, <3>5, <3>6, <3>7
  <2>8. QED
    <3>1. sync'.folder = g
      BY <1>2, <2>1
    <3>2. mailbox[g].modseq <= mailbox'[g].modseq
      BY <2>2 DEF Moved
    <3> HIDE DEF Progress, MirrorAt
    <3>3. SyncMirrors(g)'
      BY <1>1, <1>2, <1>3, <2>1, <2>2, <2>6, <2>7, <3>2 DEF SyncMirrors
    <3>4. QED BY <3>1, <3>3 DEF SyncMirrors, Progress, MirrorAt, Fetched
<1>7. QED BY <1>1, <1>2, <1>3, <1>4, <1>5, <1>6 DEF Mirrors, Moved

(* Of a folder that was made again nothing is claimed.                     *)
LEMMA MirrorsRebuild ==
    ASSUME Typed, Lives, Deletes, Mirrors, NEW f \in Folders,
           NEW count \in 0 .. Initial, Rebuild(f, count)
    PROVE  Mirrors'
<1> SUFFICES ASSUME Condstore PROVE Mirrors'
  BY DEF Mirrors, Condstore, Rebuild
<1>1. /\ UNCHANGED <<server, row, stored>>
      /\ sync' = sync \/ sync' = [sync EXCEPT !.quiet = FALSE]
      /\ \A g \in Folders : g # f => owed'[g] = owed[g]
  BY DEF Rebuild, Disturb, Typed, TypeOK
<1>2. /\ sync'.pc = sync.pc /\ sync'.folder = sync.folder /\ sync'.since = sync.since
      /\ sync'.validity = sync.validity /\ sync'.modseq = sync.modseq
      /\ sync'.known = sync.known /\ sync'.wanted = sync.wanted
      /\ sync'.vanished = sync.vanished /\ sync'.changed = sync.changed
  BY <1>1 DEF Typed, TypeOK, Syncs
<1>3. /\ \A g \in Folders : g # f => mailbox'[g] = mailbox[g]
      /\ mailbox'[f].validity = mailbox[f].validity + 1 /\ mailbox[f].validity \in Nat
  BY RebuildCounts DEF Typed, TypeOK, Mailboxes
<1>4. row[f].validity # mailbox'[f].validity
  BY <1>3 DEF Lives, FolderLives, Typed, TypeOK
<1>5. sync.pc # "idle" /\ sync.pc # "select" /\ sync.folder = f
          => sync.validity # mailbox'[f].validity
  BY <1>3 DEF Lives, SyncLives, Typed, TypeOK, Syncs
<1>6. ASSUME NEW g \in Folders PROVE RowCounted(g)'
  BY <1>1, <1>3, <1>4 DEF Mirrors, RowCounted
<1>7. ASSUME NEW g \in Folders, sync.folder # g, row[g].validity = mailbox'[g].validity
      PROVE  MirrorAt(g, row[g].modseq)'
  <2>1. g # f /\ mailbox'[g] = mailbox[g] /\ owed'[g] = owed[g]
    BY <1>1, <1>3, <1>4, <1>7
  <2>2. MirrorAt(g, row[g].modseq)
    BY <1>7, <2>1 DEF Mirrors
  <2>3. QED BY <1>1, <2>1, <2>2 DEF MirrorAt, Present, Known, CopyOf
<1>8. ASSUME sync.pc # "idle" PROVE SyncMirrors(sync.folder)'
  <2>1. PICK g \in Folders : g = sync.folder /\ SyncMirrors(g)
    BY <1>8 DEF Typed, Mirrors
  <2>2. sync'.folder = g
    BY <1>2, <2>1
  <2>3. CASE g = f
    BY <1>1, <1>2, <1>4, <1>5, <1>8, <2>1, <2>2, <2>3 DEF SyncMirrors
  <2>4. CASE g # f
    <3>1. mailbox'[g] = mailbox[g] /\ owed'[g] = owed[g]
      BY <1>1, <1>3, <2>4
    <3>2. /\ Known(g)' = Known(g) /\ Present(g)' = Present(g)
          /\ \A u : CopyOf(g, u)' = CopyOf(g, u) /\ Got(g, u)' = Got(g, u)
      BY <1>1, <1>2, <3>1 DEF Known, Present, CopyOf, Got
    <3>4. MirrorAt(g, sync.since) => MirrorAt(g, sync.since)'
      BY <1>1, <1>2, <3>1, <3>2 DEF MirrorAt
    <3>5. Fetched(g) => Fetched(g)'
      BY <1>1, <1>2, <3>1, <3>2 DEF Fetched
    <3>6. ASSUME sync.pc # "select", Progress(g) PROVE Progress(g)'
      <4>1. sync.pc \in {"clear", "scan", "state", "known", "delta", "envelopes",
                         "rescan", "upsert", "prune"}
        BY <1>8, <3>6 DEF Typed, TypeOK, Syncs
      <4>2. CASE sync.pc = "envelopes"
        BY <1>2, <3>1, <3>2, <3>6, <4>2 DEF Progress
      <4>3. CASE sync.pc \in {"rescan", "upsert", "prune"}
        BY <1>1, <1>2, <3>2, <3>5, <3>6, <4>3 DEF Progress
      <4>4. CASE sync.pc \in {"clear", "scan", "state", "known", "delta"}
        BY <1>2, <3>2, <3>4, <3>6, <4>4 DEF Progress
      <4>5. QED BY <4>1, <4>2, <4>3, <4>4
    <3>7. SyncMirrors(g)'
      BY <1>1, <1>2, <2>1, <3>1, <3>4, <3>6 DEF SyncMirrors
    <3>8. QED BY <2>2, <3>7 DEF SyncMirrors, Progress, MirrorAt, Fetched
  <2>5. QED BY <2>3, <2>4
<1>9. QED BY <1>1, <1>2, <1>6, <1>7, <1>8 DEF Mirrors

(* The steps of sync_folder, from the old MODSEQ to the new one.           *)
LEMMA MirrorsElsewhere ==
    ASSUME Typed, Mirrors, Condstore, UNCHANGED <<server, mailbox>>,
           NEW f \in Folders,
           \A g \in Folders : g # f => /\ row'[g] = row[g] /\ stored'[g] = stored[g]
                                       /\ owed'[g] = owed[g],
           sync.folder \in {f, Nowhere},
           sync' = AtRest \/ (sync'.folder = f /\ sync'.pc # "idle"),
           RowCounted(f)',
           sync'.pc = "idle" => (row'[f].validity = mailbox[f].validity
                                    => MirrorAt(f, row[f].modseq)'),
           sync'.pc # "idle" => SyncMirrors(f)'
    PROVE  Mirrors'
<1>1. ASSUME NEW g \in Folders, g # f
      PROVE  RowCounted(g)' /\ (row'[g].validity = mailbox'[g].validity
                                   => MirrorAt(g, row[g].modseq)')
  <2>1. /\ RowCounted(g) /\ sync.folder # g
        /\ row[g].validity = mailbox[g].validity => MirrorAt(g, row[g].modseq)
    BY <1>1, FolderSyncAssumption DEF Mirrors
  <2>2. row'[g] = row[g] /\ stored'[g] = stored[g] /\ owed'[g] = owed[g]
    BY <1>1
  <2>3. QED BY <2>1, <2>2 DEF RowCounted, MirrorAt, Present, Known, CopyOf
<1>2. CASE sync'.pc = "idle"
  <2>1. sync'.folder = Nowhere
    BY <1>2, FolderSyncAssumption DEF AtRest
  <2>2. QED BY <1>1, <1>2, <2>1 DEF Mirrors
<1>3. CASE sync'.pc # "idle"
  <2>1. sync'.folder = f
    BY <1>3 DEF AtRest
  <2>2. RowCounted(f)' /\ SyncMirrors(f)'
    BY <1>3
  <2>3. SyncMirrors(sync.folder)'
    BY <2>1, <2>2 DEF SyncMirrors, Progress, MirrorAt, Fetched
  <2>4. QED BY <1>1, <1>3, <2>1, <2>2, <2>3 DEF Mirrors
<1>4. QED BY <1>2, <1>3

LEMMA MirrorsBegin ==
    ASSUME Typed, Mirrors, Condstore, NEW f \in Folders, Begin(f)
    PROVE  Mirrors'
<1>1. /\ sync.folder = Nowhere /\ sync'.folder = f /\ sync'.pc = "select"
      /\ sync'.since = row[f].modseq /\ UNCHANGED <<server, mailbox, row, stored, owed>>
  BY DEF Mirrors, Begin, AtRest
<1>2. /\ RowCounted(f) /\ Nowhere # f
      /\ row[f].validity = mailbox[f].validity => MirrorAt(f, row[f].modseq)
  BY <1>1, FolderSyncAssumption DEF Mirrors
<1>3. RowCounted(f)'
  BY <1>1, <1>2 DEF RowCounted
<1>4. SyncMirrors(f)'
  BY <1>1, <1>2 DEF SyncMirrors, Before, MirrorAt, Present, Known, CopyOf
<1>5. QED BY <1>1, <1>3, <1>4, MirrorsElsewhere

LEMMA MirrorsOpening ==
    ASSUME Typed, Lives, Deletes, Mirrors, Condstore,
           Select \/ ClearMessages \/ SetFolderState \/ MessageUids
    PROVE  Mirrors'
<1>1. PICK f \in Folders : f = sync.folder
  BY DEF Typed, Select, ClearMessages, SetFolderState, MessageUids, Step
<1>2. /\ sync.pc \in {"select", "clear", "state", "known"} /\ sync'.folder = f
      /\ sync'.pc \in {"clear", "state", "known", "delta", "scan"}
      /\ UNCHANGED <<server, mailbox, owed>>
      /\ \A g \in Folders : g # f => row'[g] = row[g] /\ stored'[g] = stored[g]
  BY <1>1 DEF Select, ClearMessages, SetFolderState, MessageUids, Step, Cleared, Typed, TypeOK, Syncs
<1>3. /\ SyncMirrors(f) /\ RowCounted(f) /\ SyncLives(f) /\ FolderLives(f) /\ Counted(f)
      /\ row[f].validity \in Nat /\ row[f].modseq \in Nat
      /\ mailbox[f].validity \in Nat /\ mailbox[f].modseq \in Nat
      /\ sync.since \in Nat /\ sync.modseq \in Nat /\ sync.validity \in Nat
      /\ stored[f] \in [Uids -> Copies]
  BY <1>1, <1>2 DEF Mirrors, Lives, Deletes, Typed, TypeOK, Mailboxes, Syncs
<1>4. CASE Select
  <2>1. /\ sync.pc = "select" /\ UNCHANGED <<row, stored>>
        /\ sync'.pc = IF ValidityChanged(sync.oldValidity, mailbox[f].validity)
                      THEN "clear" ELSE "state"
        /\ sync'.validity = mailbox[f].validity /\ sync'.modseq = mailbox[f].modseq
        /\ sync'.since = IF ValidityChanged(sync.oldValidity, mailbox[f].validity)
                         THEN 0 ELSE sync.since
    BY <1>1, <1>4 DEF Select, SinceRecorded, Typed, TypeOK, Syncs, Condstore
  <2>2. sync.oldValidity = row[f].validity /\ sync.since = row[f].modseq
    BY <1>3, <2>1 DEF SyncLives, SyncMirrors, Before
  <2>3. ASSUME sync'.since # 0
        PROVE  row[f].validity = mailbox[f].validity
    BY <1>3, <2>1, <2>2, <2>3 DEF RowCounted, ValidityChanged, FolderLives
  <2>4. ASSUME sync'.since = 0, sync'.pc = "state" PROVE Known(f) = {}
    BY <1>3, <2>1, <2>2, <2>4 DEF RowCounted, ValidityChanged, FolderLives
  <2>5. RowCounted(f)'
    BY <1>2, <1>3, <2>1 DEF RowCounted
  <2>6. sync'.since # 0 => MirrorAt(f, sync'.since) /\ sync'.since <= mailbox[f].modseq
    BY <1>3, <2>1, <2>2, <2>3 DEF SyncMirrors, RowCounted
  <2>7. Progress(f)'
    <3>1. Known(f)' = Known(f) /\ (MirrorAt(f, sync.since)' <=> MirrorAt(f, sync'.since))
      BY <1>2, <2>1 DEF Known, MirrorAt, Present, CopyOf
    <3>2. CASE sync'.pc = "clear"
      BY <2>1, <3>2 DEF Progress
    <3>3. CASE sync'.pc = "state"
      BY <2>1, <2>4, <2>6, <3>1, <3>3 DEF Progress
    <3>4. QED BY <2>1, <3>2, <3>3
  <2>8. SyncMirrors(f)'
    BY <1>2, <1>3, <2>1, <2>6, <2>7 DEF SyncMirrors, Before, Counted
  <2>9. QED BY <1>1, <1>2, <2>5, <2>8, MirrorsElsewhere
<1>5. CASE ClearMessages
  <2>1. /\ sync.pc = "clear" /\ sync'.pc = "state" /\ row' = row
        /\ sync'.validity = sync.validity /\ sync'.modseq = sync.modseq /\ sync'.since = sync.since
        /\ stored' = [stored EXCEPT ![f] = NoCopies]
    BY <1>1, <1>5 DEF ClearMessages, Step, Cleared, Typed, TypeOK, Syncs
  <2>2. Known(f)' = {}
    BY <2>1 DEF Known, NoCopies, Typed, TypeOK
  <2>3. sync.validity = mailbox[f].validity => sync.since = 0
    BY <1>3, <2>1 DEF SyncMirrors, Progress
  <2>4. RowCounted(f)'
    BY <1>2, <1>3, <2>1 DEF RowCounted
  <2>5. SyncMirrors(f)'
    BY <1>2, <1>3, <2>1, <2>2, <2>3 DEF SyncMirrors, Before, Progress
  <2>6. QED BY <1>1, <1>2, <2>4, <2>5, MirrorsElsewhere
<1>6. CASE SetFolderState
  <2>1. /\ sync.pc = "state" /\ sync'.pc = "known" /\ stored' = stored
        /\ sync'.validity = sync.validity /\ sync'.modseq = sync.modseq /\ sync'.since = sync.since
        /\ row'[f] = [validity |-> sync.validity, modseq |-> sync.modseq]
    BY <1>1, <1>6 DEF SetFolderState, Step, Typed, TypeOK, Syncs
  <2>2. 1 <= sync.validity /\ 1 <= sync.modseq
    BY <1>3, <2>1 DEF SyncLives, SyncMirrors
  <2>3. RowCounted(f)'
    BY <1>2, <1>3, <2>1, <2>2 DEF RowCounted, SyncMirrors
  <2>4. Known(f)' = Known(f) /\ (MirrorAt(f, sync.since)' <=> MirrorAt(f, sync.since))
    BY <1>2, <2>1 DEF Known, MirrorAt, Present, CopyOf
  <2>5. Progress(f) => Progress(f)'
    BY <2>1, <2>4 DEF Progress
  <2>6. SyncMirrors(f)'
    BY <1>2, <1>3, <2>1, <2>5 DEF SyncMirrors, Before
  <2>7. QED BY <1>1, <1>2, <2>1, <2>3, <2>6, MirrorsElsewhere
<1>7. CASE MessageUids
  <2>1. /\ sync.pc = "known" /\ sync'.pc = (IF sync.since > 0 THEN "delta" ELSE "scan")
        /\ UNCHANGED <<row, stored>> /\ sync'.known = Known(f)
        /\ sync'.validity = sync.validity /\ sync'.modseq = sync.modseq /\ sync'.since = sync.since
    BY <1>1, <1>7 DEF MessageUids, Typed, TypeOK, Syncs
  <2>2. Known(f)' = Known(f) /\ (MirrorAt(f, sync.since)' <=> MirrorAt(f, sync.since))
    BY <1>2, <2>1 DEF Known, MirrorAt, Present, CopyOf
  <2>3. ASSUME Progress(f) PROVE Progress(f)'
    <3>1. IF sync.since = 0 THEN Known(f) = {} ELSE MirrorAt(f, sync.since)
      BY <2>1, <2>3 DEF Progress
    <3>2. CASE sync.since = 0
      BY <2>1, <2>2, <3>1, <3>2 DEF Progress
    <3>3. CASE sync.since # 0
      <4>1. sync'.pc = "delta"
        BY <1>3, <2>1, <3>3
      <4>2. QED BY <2>2, <3>1, <3>3, <4>1 DEF Progress
    <3>4. QED BY <3>2, <3>3
  <2>4. RowCounted(f)'
    BY <1>2, <1>3, <2>1 DEF RowCounted
  <2>5. SyncMirrors(f)'
    BY <1>2, <1>3, <2>1, <2>3 DEF SyncMirrors, Before
  <2>6. QED BY <1>1, <1>2, <2>1, <2>4, <2>5, MirrorsElsewhere
<1>8. QED BY <1>4, <1>5, <1>6, <1>7

LEMMA MirrorsFetching ==
    ASSUME Typed, Lives, Deletes, Mirrors, Condstore,
           FetchDelta \/ MissingUids \/ ScanUids \/ FetchEnvelopes
    PROVE  Mirrors'
<1>1. PICK f \in Folders : f = sync.folder
  BY DEF Typed, FetchDelta, MissingUids, ScanUids, FetchEnvelopes
<1>2. /\ sync.pc \in {"delta", "rescan", "scan", "envelopes"} /\ sync'.folder = f
      /\ sync'.pc \in {"rescan", "envelopes", "upsert"}
      /\ UNCHANGED <<server, mailbox, row, stored>>
      /\ \A g \in Folders : g # f => owed'[g] = owed[g]
      /\ sync'.validity = sync.validity /\ sync'.modseq = sync.modseq /\ sync'.since = sync.since
  BY <1>1 DEF FetchDelta, MissingUids, ScanUids, FetchEnvelopes, Typed, TypeOK, Syncs
<1>3. /\ SyncMirrors(f) /\ RowCounted(f)
      /\ sync.since \in Nat /\ sync.modseq \in Nat /\ sync.changed \in [Uids -> Copies]
      /\ stored[f] \in [Uids -> Copies]
      /\ \A u \in Uids : mailbox[f].at[u] \in Nat /\ mailbox[f].gone[u] \in Nat
  BY <1>1, <1>2 DEF Mirrors, Typed, TypeOK, Mailboxes, Syncs
<1>4. /\ Known(f)' = Known(f) /\ Present(f)' = Present(f) /\ Known(f) \subseteq Uids
      /\ \A u : CopyOf(f, u)' = CopyOf(f, u)
  BY <1>2 DEF Known, Present, CopyOf
<1>5. \A u \in Present(f) : CopyOf(f, u) # NotStored
  BY <1>3 DEF Present, CopyOf, NotStored
<1>6. SUFFICES ASSUME sync.validity = mailbox[f].validity, Progress(f) PROVE Progress(f)'
  <2>1. RowCounted(f)'
    BY <1>2, <1>3 DEF RowCounted
  <2>2. SyncMirrors(f)'
    BY <1>2, <1>3, <1>6 DEF SyncMirrors, Before
  <2>3. QED BY <1>1, <1>2, <2>1, <2>2, MirrorsElsewhere
<1>7. CASE FetchDelta
  <2>1. /\ sync'.pc = (IF server = "qresync" THEN "upsert" ELSE "rescan") /\ owed' = owed
        /\ sync'.changed = ChangedSince(f, sync.since)
        /\ sync'.vanished = IF server = "qresync" THEN VanishedSince(f, sync.since) ELSE {}
    BY <1>1, <1>7 DEF FetchDelta, Typed, TypeOK, Syncs
  <2>2. MirrorAt(f, sync.since)
    BY <1>6, <1>7 DEF FetchDelta, Progress
  <2>3. \A u \in Uids : Got(f, u)' = IF mailbox[f].at[u] > sync.since THEN CopyOf(f, u)
                                     ELSE stored[f][u]
    BY <1>2, <1>3, <1>5, <2>1 DEF Got, ChangedSince, Present
  <2>4. ASSUME NEW u \in Present(f), u \in owed[f] \/ Got(f, u)' # NotStored,
               mailbox[f].at[u] <= sync.modseq
        PROVE  Got(f, u)' = CopyOf(f, u) /\ u \notin sync'.vanished
    <3>1. u \in Uids /\ mailbox[f].at[u] > 0
      BY DEF Present
    <3>2. u \notin announced
      BY <3>1 DEF Deletes, Gone
    <3>3. u \notin sync'.vanished
      BY <2>1, <2>4, <3>2 DEF VanishedSince
    <3>4. CASE mailbox[f].at[u] > sync.since
      BY <2>3, <3>1, <3>3, <3>4
    <3>5. CASE mailbox[f].at[u] <= sync.since
      <4>1. Got(f, u)' = stored[f][u]
        BY <1>3, <2>3, <3>1, <3>5
      <4>2. stored[f][u] = CopyOf(f, u)
        BY <2>2, <2>4, <3>1, <3>5, <4>1 DEF MirrorAt, Known
      <4>3. QED BY <3>3, <4>1, <4>2
    <3>6. QED BY <1>3, <3>1, <3>4, <3>5
  <2>5. ASSUME NEW u \in Uids, u \notin Present(f), Got(f, u)' # NotStored
        PROVE  u \in sync'.vanished \/ (sync'.pc = "rescan" /\ u \in Known(f))
    <3>1. mailbox[f].at[u] = 0
      BY <1>3, <2>5 DEF Present
    <3>2. u \in Known(f)
      BY <1>3, <2>3, <2>5, <3>1 DEF Known
    <3>3. mailbox[f].gone[u] > sync.since
      BY <2>2, <2>5, <3>2 DEF MirrorAt
    <3>4. QED BY <2>1, <2>5, <3>2, <3>3 DEF VanishedSince
  <2>6. Fetched(f)'
    BY <1>2, <1>4, <2>1, <2>4, <2>5 DEF Fetched
  <2>7. QED BY <2>1, <2>6 DEF Progress
<1>8. CASE MissingUids
  <2>1. /\ sync.pc = "rescan" /\ sync'.pc = "upsert" /\ owed' = owed /\ sync'.changed = sync.changed
        /\ sync'.vanished = Known(f) \ Present(f)
    BY <1>1, <1>8 DEF MissingUids, Missing, Typed, TypeOK, Syncs
  <2>2. Fetched(f) /\ sync.vanished = {}
    BY <1>6, <2>1 DEF Progress
  <2>3. \A u : Got(f, u)' = Got(f, u)
    BY <1>2, <2>1 DEF Got
  <2>4. QED
    <3>1. ASSUME NEW u \in Present(f), u \in owed[f] \/ Got(f, u) # NotStored,
                 mailbox[f].at[u] <= sync.modseq
          PROVE  Got(f, u) = CopyOf(f, u) /\ u \notin sync'.vanished
      BY <2>1, <2>2, <3>1 DEF Fetched
    <3>2. ASSUME NEW u \in Uids, u \notin Present(f), Got(f, u) # NotStored
          PROVE  mailbox[f].gone[u] > sync.modseq \/ u \in sync'.vanished
      <4>1. CASE u \in Known(f)
        BY <2>1, <3>2, <4>1
      <4>2. CASE u \notin Known(f)
        <5>1. mailbox[f].gone[u] > sync.modseq \/ u \in sync.vanished
          BY <2>2, <3>2, <4>2 DEF Fetched
        <5>2. QED BY <2>2, <5>1
      <4>3. QED BY <4>1, <4>2
    <3>3. Fetched(f)'
      BY <1>2, <1>4, <2>1, <2>3, <3>1, <3>2 DEF Fetched
    <3>4. QED BY <2>1, <3>3 DEF Progress
<1>9. CASE ScanUids
  <2>1. /\ sync.pc = "scan" /\ sync'.pc = "envelopes" /\ owed'[f] = Newest(Present(f))
        /\ sync'.vanished = sync.known \ Present(f)
        /\ sync'.wanted = Newest(Present(f)) \ sync.known
    BY <1>1, <1>9 DEF ScanUids, Missing, Typed, TypeOK, Syncs
  <2>2. Known(f) = {} /\ sync.known = {}
    BY <1>6, <2>1 DEF Progress
  <2>3. QED BY <1>2, <1>4, <2>1, <2>2 DEF Progress
<1>10. CASE FetchEnvelopes
  <2>1. /\ sync.pc = "envelopes" /\ sync'.pc = "upsert" /\ owed' = owed
        /\ sync'.vanished = sync.vanished
        /\ sync'.changed = [u \in Uids |-> IF u \in sync.wanted \cap Present(f)
                                           THEN CopyOf(f, u) ELSE NotStored]
    BY <1>1, <1>10 DEF FetchEnvelopes, Typed, TypeOK, Syncs
  <2>2. /\ Known(f) = {} /\ sync.vanished = {}
        /\ \A u \in Present(f) \cap owed[f] : mailbox[f].at[u] <= sync.modseq => u \in sync.wanted
    BY <1>6, <2>1 DEF Progress
  <2>3. \A u \in Uids : Got(f, u)' = IF u \in sync.wanted \cap Present(f) THEN CopyOf(f, u)
                                     ELSE NotStored
    BY <1>2, <1>5, <2>1, <2>2 DEF Got, Known
  <2>4. Present(f) \subseteq Uids
    BY DEF Present
  <2>5. Fetched(f)'
    BY <1>2, <1>4, <2>1, <2>2, <2>3, <2>4 DEF Fetched
  <2>6. QED BY <2>1, <2>5 DEF Progress
<1>11. QED BY <1>7, <1>8, <1>9, <1>10

LEMMA MirrorsWriting ==
    ASSUME Typed, Lives, Mirrors, Condstore, UpsertMessages \/ DeleteMessages
    PROVE  Mirrors'
<1>1. PICK f \in Folders : f = sync.folder
  BY DEF Typed, UpsertMessages, DeleteMessages, Step
<1>2. /\ sync.pc \in {"upsert", "prune"} /\ UNCHANGED <<server, mailbox, row, owed>>
      /\ \A g \in Folders : g # f => stored'[g] = stored[g]
      /\ sync' = AtRest \/ (sync'.folder = f /\ sync'.pc = "prune")
  BY <1>1 DEF UpsertMessages, DeleteMessages, Step, Typed, TypeOK, Syncs
<1>3. /\ SyncMirrors(f) /\ RowCounted(f) /\ RowCounted(f)' /\ SyncLives(f)
      /\ sync.modseq \in Nat /\ stored[f] \in [Uids -> Copies]
      /\ row[f].modseq = sync.modseq /\ row[f].validity = sync.validity
  BY <1>1, <1>2 DEF Mirrors, Lives, RowCounted, SyncMirrors, SyncLives, Before, Typed, TypeOK, Syncs
<1>4. CASE UpsertMessages
  <2>1. /\ sync.pc = "upsert" /\ sync'.pc = "prune" /\ sync'.folder = f
        /\ sync'.changed = sync.changed /\ sync'.vanished = sync.vanished
        /\ sync'.validity = sync.validity /\ sync'.modseq = sync.modseq /\ sync'.since = sync.since
        /\ \A u \in Uids : stored'[f][u] = Got(f, u)
    BY <1>1, <1>4 DEF UpsertMessages, Step, Got, Typed, TypeOK, Syncs
  <2>2. \A u \in Uids : Got(f, u)' = Got(f, u)
    BY <2>1 DEF Got
  <2>3. Fetched(f) => Fetched(f)'
    BY <1>2, <2>1, <2>2 DEF Fetched, Present, CopyOf
  <2>4. Progress(f) => Progress(f)'
    BY <2>1, <2>2, <2>3 DEF Progress
  <2>5. SyncMirrors(f)'
    BY <1>2, <1>3, <2>1, <2>4 DEF SyncMirrors, Before
  <2>6. sync'.pc # "idle"
    BY <2>1
  <2>7. QED BY <1>1, <1>2, <1>3, <2>1, <2>5, <2>6, MirrorsElsewhere
<1>5. CASE DeleteMessages
  <2>1. /\ sync.pc = "prune" /\ sync' = AtRest /\ sync'.pc = "idle"
        /\ \A u \in Uids : stored'[f][u] = IF u \in sync.vanished THEN NotStored ELSE stored[f][u]
    BY <1>1, <1>5 DEF DeleteMessages, AtRest, Typed, TypeOK
  <2>2. ASSUME row[f].validity = mailbox[f].validity PROVE MirrorAt(f, row[f].modseq)'
    <3>1. Fetched(f) /\ \A u \in Uids : stored[f][u] = Got(f, u)
      BY <1>3, <2>1, <2>2 DEF SyncMirrors, Progress
    <3>2. Present(f) \subseteq Uids /\ Present(f)' = Present(f)
          /\ \A u : CopyOf(f, u)' = CopyOf(f, u)
      BY <1>2 DEF Present, CopyOf
    <3>3. ASSUME NEW u \in Present(f), u \in owed[f] \cup Known(f)', mailbox[f].at[u] <= sync.modseq
          PROVE  stored'[f][u] = CopyOf(f, u)
      <4>1. u \in owed[f] \/ Got(f, u) # NotStored
        BY <2>1, <3>1, <3>2, <3>3 DEF Known
      <4>2. Got(f, u) = CopyOf(f, u) /\ u \notin sync.vanished
        BY <3>1, <3>3, <4>1 DEF Fetched
      <4>3. QED BY <2>1, <3>1, <3>2, <4>2
    <3>4. ASSUME NEW u \in Known(f)', u \notin Present(f)
          PROVE  mailbox[f].gone[u] > sync.modseq
      <4>1. u \in Uids /\ u \notin sync.vanished /\ Got(f, u) # NotStored
        BY <2>1, <3>1, <3>4 DEF Known
      <4>2. QED BY <2>1, <3>1, <3>4, <4>1 DEF Fetched
    <3>5. QED BY <1>2, <1>3, <3>2, <3>3, <3>4 DEF MirrorAt
  <2>3. QED BY <1>1, <1>2, <1>3, <2>1, <2>2, MirrorsElsewhere
<1>6. QED BY <1>4, <1>5

LEMMA MirrorsNext ==
    OwnVanished /\ CondstoreNeverFails
        => (Typed /\ Lives /\ Deletes /\ Mirrors /\ [Next]_vars => Mirrors')
<1> SUFFICES ASSUME CondstoreNeverFails, Typed, Lives, Deletes, Mirrors, [Next]_vars
             PROVE  Mirrors'
  OBVIOUS
<1>t. Typed'
  BY TypeNext
<1>s. server' = server
  BY DEF Next, SyncFolder, vars, Abort, Deliver, Change, Expunge, Delete, Rebuild, Begin, Select,
         ClearMessages, SetFolderState, MessageUids, FetchDelta, MissingUids, ScanUids,
         FetchEnvelopes, UpsertMessages, DeleteMessages
<1> SUFFICES ASSUME Condstore PROVE Mirrors'
  BY <1>s DEF Mirrors, Condstore
<1>1. CASE UNCHANGED vars
  BY ZenonT(40), <1>1 DEF vars, Mirrors, RowCounted, MirrorAt, SyncMirrors, Progress, Fetched, Got, Present,
              Known, CopyOf
<1>2. CASE Abort
  <2>1. server \in Servers \ {"none"}
    BY DEF Deletes, Condstore
  <2>2. MaxFaults[server] = 0 /\ faults \in Nat
    BY <2>1 DEF CondstoreNeverFails, Typed, TypeOK
  <2>3. QED BY <1>2, <2>2 DEF Abort
<1>3. ASSUME NEW f \in Folders, NEW u \in Uids,
             Deliver(f) \/ Change(f, u) \/ Expunge(f, u) \/ Delete(f, u)
      PROVE  Mirrors'
  BY <1>t, <1>3, MirrorsServer
<1>4. ASSUME NEW f \in Folders, Begin(f) PROVE Mirrors'
  BY <1>4, MirrorsBegin
<1>5. 1 \in Uids
  BY FolderSyncAssumption DEF Uids
<1>6. CASE SyncFolder
  BY <1>4, <1>6, MirrorsOpening, MirrorsFetching, MirrorsWriting DEF SyncFolder
<1>7. QED BY <1>1, <1>2, <1>3, <1>5, <1>6, MirrorsRebuild DEF Next

(* Between two synchronisations the mirror is as new as the MODSEQ that is  *)
(* recorded with the folder, whatever changes at whichever moment of a     *)
(* synchronisation (sync_folder, fetch_delta, missing_uids): with          *)
(* CONDSTORE, while no synchronisation fails and the VANISHED responses of *)
(* a session are its folder's own.                                         *)
THEOREM FolderMirrorsModseq ==
    ASSUME OwnVanished, CondstoreNeverFails PROVE Spec => []MirrorsModseq
<1>1. Spec => [](Typed /\ Lives /\ Deletes /\ Mirrors)
  <2>1. OwnVanished /\ CondstoreNeverFails
    OBVIOUS
  <2>2. Typed /\ Lives /\ Deletes /\ Mirrors /\ [Next]_vars => (Typed /\ Lives /\ Deletes /\ Mirrors)'
    BY <2>1, TypeNext, LivesNext, DeletesNext, MirrorsNext
  <2>3. Init => Typed /\ Lives /\ Deletes /\ Mirrors
    BY TypeInit, LivesInit, DeletesInit, MirrorsInit
  <2>4. QED BY <2>2, <2>3, PTL DEF Spec
<1>2. Mirrors => MirrorsModseq
  BY DEF Mirrors, MirrorsModseq, MirrorAt
<1>3. QED BY <1>1, <1>2, PTL

-----------------------------------------------------------------------------
(* A synchronisation that nobody disturbs.                                 *)

(* Without CONDSTORE there is no old MODSEQ; the UIDs are compared.        *)
Compared(f) ==
    CASE sync.pc \in {"clear", "state", "known"} -> sync.since = 0
      [] sync.pc = "scan"                        -> sync.known = Known(f)
      [] sync.pc = "envelopes"                   ->
            /\ Known(f) \subseteq Present(f) \cup sync.vanished
            /\ owed[f] \cap Present(f) \subseteq Known(f) \cup sync.wanted
            /\ sync.vanished \cap Present(f) = {}
      [] sync.pc \in {"upsert", "prune"}         ->
            /\ \A u \in Uids : Got(f, u) # NotStored => u \in Present(f) \cup sync.vanished
            /\ \A u \in owed[f] \cap Present(f) : Got(f, u) # NotStored
            /\ sync.vanished \cap Present(f) = {}
            /\ sync.pc = "prune" => \A u \in Uids : stored[f][u] = Got(f, u)
      [] sync.pc \in {"delta", "rescan"}         -> FALSE
Undisturbed(f) ==
    /\ sync.pc # "select"
    /\ sync.validity = mailbox[f].validity
    /\ Condstore => sync.modseq = mailbox[f].modseq
    /\ ~Condstore => Compared(f)
Quiet == sync.pc # "idle" /\ sync.quiet => Undisturbed(sync.folder)

LEMMA QuietInit == Init => Quiet
BY DEF Init, Quiet, AtRest

(* Whatever happens to the folder that is synchronised is a disturbance.   *)
LEMMA QuietServer ==
    ASSUME Typed, Deletes, Quiet, NEW f \in Folders, NEW u \in Uids, NEW count \in 0 .. Initial,
           Deliver(f) \/ Change(f, u) \/ Expunge(f, u) \/ Delete(f, u) \/ Rebuild(f, count)
    PROVE  Quiet'
<1> SUFFICES ASSUME sync'.pc # "idle", sync'.quiet PROVE Undisturbed(sync.folder)'
  BY DEF Quiet
<1>1. /\ UNCHANGED <<server, row, stored>>
      /\ sync' = sync \/ sync' = [sync EXCEPT !.quiet = FALSE]
  BY DEF Deliver, Change, Expunge, Delete, Rebuild, Disturb
<1>2. sync' = sync /\ sync.folder # f
  <2>1. sync' = sync
    BY <1>1 DEF Typed, TypeOK, Syncs
  <2>2. CASE Delete(f, u)
    BY <2>1, <2>2 DEF Delete
  <2>3. CASE Disturb(f)
    BY <2>1, <2>3 DEF Disturb, Typed, TypeOK, Syncs
  <2>4. QED BY <2>1, <2>2, <2>3 DEF Deliver, Change, Expunge, Rebuild
<1>3. PICK g \in Folders : g = sync.folder /\ g # f /\ Undisturbed(g)
  BY <1>2 DEF Quiet, Typed
<1>4. mailbox'[g] = mailbox[g] /\ owed'[g] = owed[g]
  <2>1. CASE Rebuild(f, count)
    BY <1>3, <2>1 DEF Rebuild, Typed, TypeOK
  <2>2. CASE Deliver(f)
    <3>1. mailbox[f].next \in Uids
      BY <2>2 DEF Deliver, Typed, TypeOK, Mailboxes, Uids
    <3>2. QED BY <1>3, <2>2, <3>1, Touched DEF Deliver, Typed, TypeOK
  <2>3. CASE Change(f, u)
    BY <1>3, <2>3, Touched DEF Change, Typed
  <2>4. CASE Expunge(f, u) \/ Delete(f, u)
    BY <1>3, <2>4, Removed DEF Expunge, Delete, Typed
  <2>5. QED BY <2>1, <2>2, <2>3, <2>4
<1>5. /\ Present(g)' = Present(g) /\ Known(g)' = Known(g)
      /\ \A w : Got(g, w)' = Got(g, w)
  BY <1>1, <1>2, <1>4 DEF Present, Known, Got
<1>6. Compared(g) => Compared(g)'
  <2>1. sync.pc \in {"clear", "state", "known", "scan", "envelopes", "upsert", "prune",
                     "delta", "rescan"}
    BY <1>2, <1>3 DEF Undisturbed, Typed, TypeOK, Syncs
  <2>2. QED BY <1>1, <1>2, <1>4, <1>5, <2>1 DEF Compared
<1>7. Undisturbed(g)'
  BY <1>1, <1>2, <1>3, <1>4, <1>6 DEF Undisturbed, Condstore
<1>8. QED BY <1>2, <1>3, <1>7

LEMMA QuietSync ==
    ASSUME Typed, Typed', Quiet, SyncFolder
    PROVE  Quiet'
<1> SUFFICES ASSUME sync'.pc # "idle", sync'.quiet PROVE Undisturbed(sync.folder)'
  BY DEF Quiet
<1>0. ~DeleteMessages /\ \A g \in Folders : ~Begin(g)
  <2>1. ASSUME NEW g \in Folders, Begin(g) PROVE sync'.quiet = FALSE
    BY <2>1 DEF Begin, AtRest
  <2>2. QED BY <2>1 DEF DeleteMessages, AtRest
<1>1. sync.pc # "idle" /\ sync'.folder = sync.folder /\ UNCHANGED <<server, mailbox>>
  <2>1. CASE Select \/ ClearMessages \/ SetFolderState \/ MessageUids \/ UpsertMessages
    BY <2>1 DEF Select, ClearMessages, SetFolderState, MessageUids, UpsertMessages, Step,
                Typed, TypeOK, Syncs
  <2>2. CASE FetchDelta \/ MissingUids \/ ScanUids \/ FetchEnvelopes
    BY <2>2 DEF FetchDelta, MissingUids, ScanUids, FetchEnvelopes, Typed, TypeOK, Syncs
  <2>3. QED BY <1>0, <2>1, <2>2 DEF SyncFolder
<1>2. PICK f \in Folders : f = sync.folder
  BY <1>1 DEF Typed
<1>3. /\ Present(f)' = Present(f) /\ Present(f) \subseteq Uids /\ Known(f) \subseteq Uids
      /\ \A u : CopyOf(f, u)' = CopyOf(f, u)
      /\ \A u \in Present(f) : CopyOf(f, u) # NotStored
      /\ stored[f] \in [Uids -> Copies] /\ sync.changed \in [Uids -> Copies]
  BY <1>1 DEF Present, Known, CopyOf, NotStored, Typed, TypeOK, Syncs, Mailboxes
<1>4. SUFFICES Undisturbed(f)'
  BY <1>1, <1>2
<1>5. CASE Select
  <2>1. /\ sync'.pc \in {"clear", "state"} /\ sync'.validity = mailbox[f].validity
        /\ sync'.modseq = (IF Condstore THEN mailbox[f].modseq ELSE 0)
        /\ ~Condstore => sync'.since = 0
    BY ZenonT(40), <1>2, <1>5 DEF Select, SinceRecorded, Typed, TypeOK, Syncs
  <2>2. QED BY <1>1, <2>1 DEF Undisturbed, Compared, Condstore
<1>6. ASSUME ~Select, Undisturbed(f), sync'.validity = sync.validity, sync'.modseq = sync.modseq,
             sync'.pc # "select", ~Condstore => Compared(f)'
      PROVE  Undisturbed(f)'
  BY <1>1, <1>6 DEF Undisturbed, Condstore
<1>7. ASSUME ~Select
      PROVE  /\ Undisturbed(f) /\ sync'.validity = sync.validity /\ sync'.modseq = sync.modseq
             /\ sync'.pc # "select"
  <2>1. /\ sync'.quiet = sync.quiet /\ sync'.validity = sync.validity
        /\ sync'.modseq = sync.modseq /\ sync'.pc # "select"
    <3>0. sync'.quiet = sync.quiet
      <4>1. CASE ClearMessages \/ SetFolderState \/ UpsertMessages
        <5>1. PICK p : sync' = [sync EXCEPT !.pc = p]
          BY <4>1, Zenon DEF ClearMessages, SetFolderState, UpsertMessages, Step
        <5>2. [sync EXCEPT !.pc = p].quiet = sync.quiet
          BY DEF Typed, TypeOK, Syncs
        <5>3. QED BY <5>1, <5>2, Zenon
      <4>2. CASE MessageUids
        <5>1. PICK p, k : sync' = [sync EXCEPT !.pc = p, !.known = k]
          BY <4>2, Zenon DEF MessageUids
        <5>2. [sync EXCEPT !.pc = p, !.known = k].quiet = sync.quiet
          BY DEF Typed, TypeOK, Syncs
        <5>3. QED BY <5>1, <5>2, Zenon
      <4>3. CASE FetchDelta
        <5>1. PICK p, c, v : sync' = [sync EXCEPT !.pc = p, !.changed = c, !.vanished = v]
          BY <4>3, Zenon DEF FetchDelta
        <5>2. [sync EXCEPT !.pc = p, !.changed = c, !.vanished = v].quiet = sync.quiet
          BY DEF Typed, TypeOK, Syncs
        <5>3. QED BY <5>1, <5>2, Zenon
      <4>4. CASE MissingUids
        <5>1. PICK p, v : sync' = [sync EXCEPT !.pc = p, !.vanished = v]
          BY <4>4, Zenon DEF MissingUids
        <5>2. [sync EXCEPT !.pc = p, !.vanished = v].quiet = sync.quiet
          BY DEF Typed, TypeOK, Syncs
        <5>3. QED BY <5>1, <5>2, Zenon
      <4>5. CASE ScanUids
        <5>1. PICK p, v, w : sync' = [sync EXCEPT !.pc = p, !.vanished = v, !.wanted = w]
          BY <4>5, Zenon DEF ScanUids
        <5>2. [sync EXCEPT !.pc = p, !.vanished = v, !.wanted = w].quiet = sync.quiet
          BY DEF Typed, TypeOK, Syncs
        <5>3. QED BY <5>1, <5>2, Zenon
      <4>6. CASE FetchEnvelopes
        <5>1. PICK p, c : sync' = [sync EXCEPT !.pc = p, !.changed = c]
          BY <4>6, Zenon DEF FetchEnvelopes
        <5>2. [sync EXCEPT !.pc = p, !.changed = c].quiet = sync.quiet
          BY DEF Typed, TypeOK, Syncs
        <5>3. QED BY <5>1, <5>2, Zenon
      <4>7. QED
        BY <1>0, <1>7, <4>1, <4>2, <4>3, <4>4, <4>5, <4>6 DEF SyncFolder
    <3>1. CASE ClearMessages \/ SetFolderState \/ MessageUids \/ UpsertMessages
      BY <3>1, <3>0 DEF ClearMessages, SetFolderState, MessageUids, UpsertMessages, Step,
                  Typed, TypeOK, Syncs
    <3>2. CASE FetchDelta \/ MissingUids \/ ScanUids \/ FetchEnvelopes
      BY <3>2, <3>0 DEF FetchDelta, MissingUids, ScanUids, FetchEnvelopes, Typed, TypeOK, Syncs
    <3>3. QED BY <1>0, <1>7, <3>1, <3>2 DEF SyncFolder
  <2>2. QED BY <1>1, <1>2, <2>1 DEF Quiet
<1>8. ASSUME ~Select, ~Condstore, Compared(f) PROVE Compared(f)'
  <2>1. CASE ClearMessages \/ SetFolderState
    <3>1. /\ sync.pc \in {"clear", "state"} /\ sync'.pc \in {"state", "known"}
          /\ sync'.since = sync.since
      BY <2>1 DEF ClearMessages, SetFolderState, Step, Typed, TypeOK, Syncs
    <3>2. QED BY <1>8, <3>1 DEF Compared
  <2>2. CASE MessageUids
    <3>1. /\ sync.pc = "known" /\ sync'.pc = (IF sync.since > 0 THEN "delta" ELSE "scan")
          /\ sync'.known = Known(f) /\ stored' = stored
      BY <1>2, <2>2 DEF MessageUids, Typed, TypeOK, Syncs
    <3>2. sync.since = 0
      BY <1>8, <3>1 DEF Compared
    <3>3. QED BY <3>1, <3>2 DEF Compared, Known
  <2>3. CASE ScanUids
    <3>1. /\ sync.pc = "scan" /\ sync'.pc = "envelopes" /\ owed'[f] = Newest(Present(f))
          /\ sync'.vanished = sync.known \ Present(f)
          /\ sync'.wanted = Newest(Present(f)) \ sync.known /\ Known(f)' = Known(f)
      BY <1>2, <2>3 DEF ScanUids, Missing, Known, Typed, TypeOK, Syncs
    <3>2. sync.known = Known(f)
      BY <1>8, <3>1 DEF Compared
    <3>3. QED BY <1>3, <3>1, <3>2 DEF Compared
  <2>4. CASE FetchEnvelopes
    <3>1. /\ sync.pc = "envelopes" /\ sync'.pc = "upsert" /\ UNCHANGED <<stored, owed>>
          /\ sync'.vanished = sync.vanished
          /\ sync'.changed = [u \in Uids |-> IF u \in sync.wanted \cap Present(f)
                                             THEN CopyOf(f, u) ELSE NotStored]
      BY <1>2, <2>4 DEF FetchEnvelopes, Typed, TypeOK, Syncs
    <3>2. /\ Known(f) \subseteq Present(f) \cup sync.vanished
          /\ owed[f] \cap Present(f) \subseteq Known(f) \cup sync.wanted
          /\ sync.vanished \cap Present(f) = {}
      BY <1>8, <3>1 DEF Compared
    <3>3. \A u \in Uids : Got(f, u)' = IF u \in sync.wanted \cap Present(f) THEN CopyOf(f, u)
                                       ELSE stored[f][u]
      BY <1>3, <3>1 DEF Got
    <3>4. \A u \in Uids : Got(f, u)' # NotStored => u \in Present(f) \cup sync.vanished
      BY <3>2, <3>3 DEF Known
    <3>5. \A u \in owed[f] \cap Present(f) : Got(f, u)' # NotStored
      BY <1>3, <3>2, <3>3 DEF Known
    <3>6. QED BY <1>3, <3>1, <3>2, <3>4, <3>5 DEF Compared
  <2>5. CASE UpsertMessages
    <3>1. /\ sync.pc = "upsert" /\ sync'.pc = "prune" /\ owed' = owed
          /\ sync'.changed = sync.changed /\ sync'.vanished = sync.vanished
          /\ \A u \in Uids : stored'[f][u] = Got(f, u)
      BY <1>2, <2>5 DEF UpsertMessages, Step, Got, Typed, TypeOK, Syncs
    <3>2. \A u \in Uids : Got(f, u)' = Got(f, u)
      BY <3>1 DEF Got
    <3>3. QED BY <1>3, <1>8, <3>1, <3>2 DEF Compared
  <2>6. CASE FetchDelta \/ MissingUids
    BY <1>8, <2>6 DEF Compared, FetchDelta, MissingUids
  <2>7. QED BY <1>0, <1>8, <2>1, <2>2, <2>3, <2>4, <2>5, <2>6 DEF SyncFolder
<1>9. QED BY <1>5, <1>6, <1>7, <1>8 DEF Undisturbed

LEMMA QuietNext == Typed /\ Deletes /\ Quiet /\ [Next]_vars => Quiet'
<1> SUFFICES ASSUME Typed, Deletes, Quiet, [Next]_vars PROVE Quiet'
  OBVIOUS
<1>t. Typed'
  BY TypeNext
<1>1. CASE UNCHANGED vars
  BY <1>1 DEF vars, Quiet, Undisturbed, Compared, Known, Present, Got, Condstore
<1>2. CASE Abort
  BY <1>2 DEF Abort, AtRest, Quiet
<1>3. ASSUME NEW f \in Folders, NEW u \in Uids, NEW count \in 0 .. Initial,
             Deliver(f) \/ Change(f, u) \/ Expunge(f, u) \/ Delete(f, u) \/ Rebuild(f, count)
      PROVE  Quiet'
  BY <1>3, QuietServer
<1>4. 1 \in Uids /\ 0 \in 0 .. Initial
  BY FolderSyncAssumption DEF Uids
<1>5. QED BY <1>t, <1>1, <1>2, <1>3, <1>4, QuietSync DEF Next

(* A synchronisation that completes with nobody having changed the folder  *)
(* under it leaves the mirror exact (sync_folder): on every kind of        *)
(* server, while none with CONDSTORE fails and the VANISHED responses of a *)
(* session are its folder's own.                                           *)
THEOREM FolderQuietSyncIsExact ==
    ASSUME OwnVanished, CondstoreNeverFails PROVE Spec => QuietSyncIsExact
<1> DEFINE Done(f) == sync.pc = "prune" /\ sync.folder = f /\ sync.quiet /\ sync'.pc = "idle"
                          /\ faults' = faults
           IInv == Typed /\ Lives /\ Deletes /\ Mirrors /\ Quiet
<1>1. Spec => []IInv
  <2>1. OwnVanished /\ CondstoreNeverFails
    OBVIOUS
  <2>2. IInv /\ [Next]_vars => IInv'
    BY <2>1, TypeNext, LivesNext, DeletesNext, MirrorsNext, QuietNext
  <2>3. Init => IInv
    BY TypeInit, LivesInit, DeletesInit, MirrorsInit, QuietInit
  <2>4. QED BY <2>2, <2>3, PTL DEF Spec
<1>2. ASSUME IInv, [Next]_vars, NEW f \in Folders, Done(f) PROVE Exact(f)'
  <2>1. /\ UNCHANGED <<server, mailbox, row, owed>>
        /\ \A u \in Uids : stored'[f][u] = IF u \in sync.vanished THEN NotStored ELSE stored[f][u]
    <3>1. DeleteMessages
      BY <1>2 DEF Next, SyncFolder, vars, Abort, Deliver, Change, Expunge, Delete, Rebuild, Disturb,
           Begin, Select, ClearMessages, Step, SetFolderState, MessageUids, FetchDelta,
           MissingUids, ScanUids, FetchEnvelopes, UpsertMessages, Typed, TypeOK, Syncs
    <3>2. QED BY <1>2, <3>1 DEF DeleteMessages, Typed, TypeOK
  <2>2. /\ Undisturbed(f) /\ SyncLives(f) /\ Counted(f) /\ FolderLives(f)
        /\ Condstore => SyncMirrors(f)
        /\ sync.modseq \in Nat /\ mailbox[f].validity \in Nat
        /\ mailbox[f].at \in [Uids -> Nat] /\ mailbox[f].gone \in [Uids -> Nat]
        /\ stored[f] \in [Uids -> Copies]
    BY <1>2 DEF Quiet, Lives, Deletes, Mirrors, Typed, TypeOK, Syncs, Mailboxes
  <2>3. /\ Present(f)' = Present(f) /\ Present(f) \subseteq Uids /\ Known(f)' \subseteq Uids
        /\ \A u : CopyOf(f, u)' = CopyOf(f, u)
        /\ \A u \in Present(f) : CopyOf(f, u) # NotStored
    BY <2>1, <2>2 DEF Present, Known, CopyOf, NotStored
  <2>4. ASSUME NEW u \in Known(f)'
        PROVE  u \in Uids /\ u \notin sync.vanished /\ stored[f][u] # NotStored
               /\ stored'[f][u] = stored[f][u]
    BY <2>1 DEF Known
  <2>5. CASE Condstore
    <3>1. Fetched(f) /\ (\A u \in Uids : stored[f][u] = Got(f, u)) /\ sync.modseq = mailbox[f].modseq
      BY <1>2, <2>2, <2>5 DEF SyncMirrors, Progress, Undisturbed
    <3>2. \A u \in Uids : mailbox[f].at[u] <= sync.modseq /\ ~(mailbox[f].gone[u] > sync.modseq)
      BY <2>2, <3>1 DEF Counted
    <3>3. ASSUME NEW u \in Known(f)' PROVE u \in Present(f) /\ stored'[f][u] = CopyOf(f, u)
      <4>1. Got(f, u) # NotStored /\ u \notin sync.vanished /\ u \in Uids
        BY <2>4, <3>1
      <4>2. u \in Present(f)
        BY <1>2, <3>1, <3>2, <4>1 DEF Fetched
      <4>3. QED BY <2>4, <3>1, <3>2, <4>1, <4>2 DEF Fetched
    <3>4. ASSUME NEW u \in owed[f] \cap Present(f) PROVE u \in Known(f)'
      BY <2>1, <2>3, <3>1, <3>2 DEF Fetched, Known
    <3>5. \A u \in Uids : CopyOf(f, u).validity = mailbox[f].validity
      BY DEF CopyOf
    <3>6. QED BY <2>1, <2>3, <3>3, <3>4, <3>5 DEF Exact
  <2>6. CASE ~Condstore
    <3>1. /\ \A u \in Uids : stored[f][u] # NotStored => u \in Present(f) \cup sync.vanished
          /\ \A u \in owed[f] \cap Present(f) : stored[f][u] # NotStored
          /\ sync.vanished \cap Present(f) = {}
      BY <1>2, <2>2, <2>3, <2>6 DEF Undisturbed, Compared
    <3>2. Known(f)' \subseteq Present(f)
      BY <2>4, <3>1
    <3>3. \A u \in Known(f)' : stored'[f][u].validity = mailbox[f].validity
      <4>1. row[f].validity = mailbox[f].validity
        BY <1>2, <2>2 DEF Undisturbed, SyncLives, Before
      <4>2. \A u \in Known(f)' : Aged(f, stored[f][u]) /\ stored[f][u] \in Copies
        BY <2>2, <2>4 DEF FolderLives, Known
      <4>3. ASSUME NEW u \in Known(f)'
            PROVE  stored[f][u].validity = mailbox[f].validity
        <5>1. Aged(f, stored[f][u]) /\ stored[f][u].validity \in Nat
          BY <4>2, <4>3 DEF Copies
        <5>2. QED BY <2>2, <4>1, <5>1 DEF Aged
      <4>4. QED BY <2>4, <4>3
    <3>4. owed[f] \cap Present(f) \subseteq Known(f)'
      BY <2>1, <2>3, <3>1 DEF Known
    <3>5. QED BY <2>1, <2>3, <2>6, <3>2, <3>3, <3>4 DEF Exact, Condstore
  <2>7. QED BY <2>5, <2>6
<1>3. IInv /\ [Next]_vars => [\A f \in Folders : Done(f) => Exact(f)']_vars
  BY <1>2
<1>4. QED BY <1>1, <1>3, PTL DEF Spec, QuietSyncIsExact

=============================================================================
