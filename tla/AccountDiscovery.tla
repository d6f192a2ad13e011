-------------------------- MODULE AccountDiscovery --------------------------
(***************************************************************************)
(* How the accounts of the desktop become workers: the lists of GNOME      *)
(* Online Accounts and of the Evolution Data Server, merged on the e-mail  *)
(* address (accounts/src/manager.rs), the watcher that compares what it    *)
(* reads at every signal with what it read before, and the discovery that  *)
(* each difference starts (app/src/sync.rs, discover), which reads again,  *)
(* writes the account table and gives the service its list (reconcile).    *)
(*                                                                         *)
(* Watcher and discovery read for themselves and in two calls, one per     *)
(* backend; the desktop changes in between.  An account is its id and its  *)
(* e-mail address, ids are numbers in the order the code sorts them.  The  *)
(* workers themselves are SyncService's.                                   *)
(***************************************************************************)
EXTENDS Integers, Sequences, FiniteSets, FiniteSetsExt, Functions

CONSTANTS
    Goa, Eds,       \* the ids of the accounts of either backend
    Emails, None,
    Keyless,        \* which accounts may have no credential
    Faults,         \* "goa", "eds", "credential", "store", "bus", "crash": what may fail
    MaxFaults,      \* how often (bounds the state space)
    MaxAccounts,    \* how many accounts there are at a time (bounds it)
    MaxChanges      \* how often the desktop changes (bounds it too)

Ids == Goa \cup Eds

ASSUME AccountDiscoveryAssumption ==
    /\ Goa \subseteq Nat \ {0} /\ Eds \subseteq Nat \ {0} /\ Goa \cap Eds = {}
    /\ IsFiniteSet(Ids)
    /\ None \notin Emails /\ None \notin Ids /\ Keyless \subseteq Ids
    /\ MaxFaults \in Nat /\ MaxChanges \in Nat /\ MaxAccounts \in Nat

VARIABLES
    desktop,    \* the accounts there are, and their addresses
    keyless,    \* those for which no password is found
    signals,    \* signals the watcher has not taken yet
    watch,      \* the watcher: what it does, what it has read, its snapshot
    differences,\* the changes it has posted
    disc,       \* the discovery
    rows,       \* the account table: row id -> account
    inbox,      \* AccountsLoaded messages to the service
    workers,    \* row id -> the account whose worker runs
    watching, faults, changes,
    blind,      \* history: the desktop changed after a discovery read it, unwatched
    undone      \* history: a signal found nothing changed, or a call failed

vars == <<desktop, keyless, signals, watch, differences, disc, rows, inbox, workers, watching,
          faults, changes, blind, undone>>

(***************************************************************************)
(* merge: the first EDS source of an address joins the first GOA account   *)
(* that has it, which takes it out of the map; what the map still holds    *)
(* stands for itself, and the other sources of an address are dropped.     *)
(***************************************************************************)
OfBackend(present, ids) == Restrict(present, DOMAIN present \cap ids)
EdsByEmail(eds) ==
    [m \in {eds[x] : x \in DOMAIN eds} |-> Min({x \in DOMAIN eds : eds[x] = m})]

Account(goa, eds, email) == [goa |-> goa, eds |-> eds, email |-> email]

MergedKeeping(goa, eds) ==
    LET byEmail == EdsByEmail(eds)
        Join(x) == Account(x, IF goa[x] \in DOMAIN byEmail THEN byEmail[goa[x]] ELSE None, goa[x])
    IN  {Join(x) : x \in DOMAIN goa} \cup {Account(None, byEmail[m], m) : m \in DOMAIN byEmail}

FirstOfAddress(goa, x) == \A y \in DOMAIN goa : goa[y] = goa[x] => x <= y
Merged(goa, eds) ==
    LET byEmail == EdsByEmail(eds)
        Taken(x) == IF goa[x] \in DOMAIN byEmail /\ FirstOfAddress(goa, x)
                    THEN byEmail[goa[x]] ELSE None
        left == DOMAIN byEmail \ {goa[x] : x \in DOMAIN goa}
    IN  {Account(x, Taken(x), goa[x]) : x \in DOMAIN goa}
            \cup {Account(None, byEmail[m], m) : m \in left}

(* Account::id; to_record's source and external id are those of the same   *)
(* backend.                                                                *)
Identity(account) == IF account.goa # None THEN account.goa ELSE account.eds
Identities(list) == {Identity(a) : a \in list}

(* diff: one change for each account added, removed or modified.           *)
AddedOnly(previous, current) == Cardinality(Identities(current) \ Identities(previous))
Diff(previous, current) ==
    Cardinality((Identities(current) \cup Identities(previous))
                    \ Identities(current \cap previous))

(***************************************************************************)
(* The desktop                                                             *)
(***************************************************************************)
Fault(kind) == kind \in Faults /\ faults < MaxFaults /\ faults' = faults + 1
NoFault == UNCHANGED faults

(* The streams are made before the snapshot is taken, or as if after it.   *)
SubscribedLate == watch.pc \notin {"off", "subscribe"} /\ ~watch.first
Subscribed == watch.pc \notin {"off", "subscribe"}

Change(present) ==
    /\ changes < MaxChanges /\ changes' = changes + 1
    /\ present # desktop /\ desktop' = present
    /\ signals' = IF Subscribed THEN signals + 1 ELSE signals
    /\ blind' = (blind \/ (~Subscribed /\ (watching \/ inbox # <<>> \/ disc.pc # "goa")))
    /\ UNCHANGED <<keyless, watch, differences, disc, rows, inbox, workers, watching, faults,
                   undone>>

Appears(x, m) ==
    /\ x \in Ids \ DOMAIN desktop /\ Cardinality(DOMAIN desktop) < MaxAccounts
    /\ Change([y \in DOMAIN desktop \cup {x} |-> IF y = x THEN m ELSE desktop[y]])
Vanishes(x) == Change(Restrict(desktop, DOMAIN desktop \ {x}))
Edited(x, m) == x \in DOMAIN desktop /\ Change([desktop EXCEPT ![x] = m])

(* An enumeration reads what is there; when it fails it reads nothing, and *)
(* an account whose properties cannot be read is left out.                 *)
Readable(ids) ==
    {Restrict(desktop, some) : some \in SUBSET (DOMAIN desktop \cap ids)}
Enumerated(ids, kind, read) ==
    IF read = OfBackend(desktop, ids) THEN NoFault ELSE Fault(kind)

ReadGoa(read) == Enumerated(Goa, "goa", read) /\ undone' = (undone \/ faults' # faults)
ReadEds(read) == Enumerated(Eds, "eds", read)

(***************************************************************************)
(* The watcher (AccountManager::changes, start_watcher)                    *)
(***************************************************************************)
WatcherOff == [pc |-> "off", goa |-> <<>>, first |-> TRUE, snapshot |-> {}]
Watches(w) == watch' = w
WatchRest == <<desktop, keyless, disc, rows, inbox, workers, watching, changes, blind>>

Subscribe ==
    /\ watch.pc = "subscribe"
    /\ \/ Watches([watch EXCEPT !.pc = "goa"]) /\ NoFault /\ UNCHANGED undone
       \/ Fault("bus") /\ Watches([watch EXCEPT !.pc = "off"]) /\ undone' = TRUE
    /\ UNCHANGED <<WatchRest, signals, differences>>

TakeSignal ==
    /\ watch.pc = "idle" /\ signals > 0
    /\ signals' = signals - 1
    /\ Watches([watch EXCEPT !.pc = "goa"])
    /\ UNCHANGED <<WatchRest, differences, faults, undone>>

WatchGoa ==
    /\ watch.pc = "goa"
    /\ \E read \in Readable(Goa) :
           /\ ReadGoa(read)
           /\ Watches([watch EXCEPT !.pc = "eds", !.goa = read])
    /\ UNCHANGED <<WatchRest, signals, differences>>

WatchEds ==
    /\ watch.pc = "eds"
    /\ \E read \in Readable(Eds) :
           LET current == Merged(watch.goa, read)
               first == watch.first IN
           /\ ReadEds(read)
           /\ undone' = (undone \/ faults' # faults \/ (~first /\ current = watch.snapshot))
           /\ differences' = differences + (IF first THEN 0 ELSE Diff(watch.snapshot, current))
           /\ Watches([watch EXCEPT !.pc = "idle", !.goa = <<>>, !.first = FALSE,
                                    !.snapshot = current])
    /\ UNCHANGED <<WatchRest, signals>>

(***************************************************************************)
(* A discovery                                                             *)
(***************************************************************************)
AtRest == [pc |-> "idle", goa |-> <<>>, eds |-> <<>>, todo |-> {}, list |-> {}, found |-> {}]
Discovers(d) == disc' = d
DiscRest == <<desktop, keyless, signals, watch, workers, watching, changes>>

TakeDifference ==
    /\ watch.pc # "off" /\ disc.pc = "idle" /\ differences > 0
    /\ differences' = differences - 1
    /\ Discovers([AtRest EXCEPT !.pc = "goa"])
    /\ UNCHANGED <<DiscRest, rows, inbox, faults, blind, undone>>

DiscoverGoa ==
    /\ disc.pc = "goa"
    /\ \E read \in Readable(Goa) :
           /\ ReadGoa(read)
           /\ Discovers([disc EXCEPT !.pc = "eds", !.goa = read])
    /\ UNCHANGED <<DiscRest, differences, rows, inbox, blind>>

DiscoverEds ==
    /\ disc.pc = "eds"
    /\ \E read \in Readable(Eds) :
           LET list == Merged(disc.goa, read) IN
           /\ ReadEds(read) /\ undone' = (undone \/ faults' # faults)
           /\ Discovers([disc EXCEPT !.pc = "accounts", !.eds = read, !.list = list,
                                     !.todo = Identities(list)])
    /\ UNCHANGED <<DiscRest, differences, rows, inbox, blind>>

(* upsert_account, then the credential: one that cannot be read ends the   *)
(* whole discovery, one that is not there skips the account.               *)
RowOf(table, account) == {i \in DOMAIN table : table[i] = account}
Upserted(table, account) ==
    IF RowOf(table, account) # {} THEN table
    ELSE LET new == Max(DOMAIN table \cup {0}) + 1
         IN  [i \in DOMAIN table \cup {new} |-> IF i = new THEN account ELSE table[i]]

(* What the service gets of an account: its row, if there is a credential. *)
Served(table, account) ==
    IF account \in keyless THEN {} ELSE {<<i, account>> : i \in RowOf(table, account)}

DiscoverAccount ==
    /\ disc.pc = "accounts" /\ disc.todo # {}
    /\ LET account == Min(disc.todo) IN
       \/ /\ rows' = Upserted(rows, account)
          /\ \/ /\ Discovers([disc EXCEPT
                        !.todo = @ \ {account},
                        !.found = @ \cup Served(rows', account)])
                /\ NoFault /\ UNCHANGED undone
             \/ Fault("credential") /\ Discovers(AtRest) /\ undone' = TRUE
       \/ Fault("store") /\ Discovers(AtRest) /\ undone' = TRUE /\ UNCHANGED rows
    /\ UNCHANGED <<DiscRest, differences, inbox, blind>>

(* prune_accounts, unless nothing was found at all; the service is told.   *)
Pruned(table, seen) ==
    IF seen = {} THEN table ELSE Restrict(table, {i \in DOMAIN table : table[i] \in seen})

DiscoverEnds ==
    /\ disc.pc = "accounts" /\ disc.todo = {}
    /\ \/ /\ rows' = Pruned(rows, Identities(disc.list))
          /\ inbox' = Append(inbox, disc.found)
          /\ NoFault /\ UNCHANGED undone
       \/ disc.list # {} /\ Fault("store") /\ undone' = TRUE /\ UNCHANGED <<rows, inbox>>
    /\ Discovers(AtRest)
    /\ UNCHANGED <<DiscRest, differences, blind>>

(***************************************************************************)
(* The service: AccountsLoaded                                             *)
(***************************************************************************)
KeptAll(found) == DOMAIN workers
Kept(found) == {i \in DOMAIN workers : \E f \in found : f[1] = i}

Reconcile ==
    /\ inbox # <<>>
    /\ LET found == Head(inbox)
           ids == {f[1] : f \in found} IN
       workers' = [i \in Kept(found) \cup ids |->
                      IF i \in DOMAIN workers THEN workers[i]
                      ELSE (CHOOSE f \in found : f[1] = i)[2]]
    /\ inbox' = Tail(inbox)
    /\ watching' = TRUE
    /\ watch' = IF watching THEN watch ELSE [WatcherOff EXCEPT !.pc = "subscribe"]
    /\ UNCHANGED <<desktop, keyless, signals, differences, disc, rows, faults, changes, blind,
                   undone>>

(* The program ends and starts again: Start discovers.                     *)
Crash ==
    /\ Fault("crash")
    /\ signals' = 0 /\ watch' = WatcherOff /\ differences' = 0
    /\ disc' = [AtRest EXCEPT !.pc = "goa"]
    /\ inbox' = <<>> /\ workers' = <<>> /\ watching' = FALSE
    /\ blind' = FALSE /\ undone' = FALSE
    /\ UNCHANGED <<desktop, keyless, rows, changes>>

Init ==
    /\ \E present \in SUBSET Ids :
           Cardinality(present) <= MaxAccounts /\ desktop \in [present -> Emails]
    /\ keyless \in SUBSET Keyless
    /\ signals = 0 /\ watch = WatcherOff /\ differences = 0
    /\ disc = [AtRest EXCEPT !.pc = "goa"]
    /\ rows = <<>> /\ inbox = <<>> /\ workers = <<>> /\ watching = FALSE
    /\ faults = 0 /\ changes = 0 /\ blind = FALSE /\ undone = FALSE

Desktop ==
    \E x \in Ids : Vanishes(x) \/ \E m \in Emails : Appears(x, m) \/ Edited(x, m)
Watcher == Subscribe \/ TakeSignal \/ WatchGoa \/ WatchEds
Discovery == TakeDifference \/ DiscoverGoa \/ DiscoverEds \/ DiscoverAccount \/ DiscoverEnds

Next == Desktop \/ Watcher \/ Discovery \/ Reconcile \/ Crash

Spec == Init /\ [][Next]_vars

(***************************************************************************)
(* Properties                                                              *)
(***************************************************************************)
(* The merged list has every GOA account once, and of the EDS sources of   *)
(* an address exactly one, on an account of that address, with a GOA       *)
(* reference whenever some GOA account has it (manager.rs, merge).         *)
MergedOnce ==
    disc.pc = "accounts" =>
        /\ \A x \in DOMAIN disc.goa : Cardinality({a \in disc.list : a.goa = x}) = 1
        /\ \A x \in DOMAIN disc.eds :
               LET of == {a \in disc.list : a.eds # None /\ a.email = disc.eds[x]} IN
               /\ Cardinality(of) = 1
               /\ \A a \in of :
                      /\ disc.eds[a.eds] = a.email
                      /\ a.goa = None <=> \A y \in DOMAIN disc.goa : disc.goa[y] # a.email
        /\ Cardinality(Identities(disc.list)) = Cardinality(disc.list)

(* Nothing is under way.                                                   *)
Settled ==
    /\ watch.pc = "idle" /\ signals = 0 /\ differences = 0
    /\ disc.pc = "idle" /\ inbox = <<>>

Listed == Merged(OfBackend(desktop, Goa), OfBackend(desktop, Eds))

(* When everything is quiet the watcher's snapshot is the desktop: no      *)
(* change slips by between two reads (manager.rs, changes).  A change that *)
(* comes while the first snapshot is read must cause another read.         *)
SnapshotIsDesktop ==
    watch.pc = "idle" /\ signals = 0 /\ faults = 0 => watch.snapshot = Listed

(* When everything is quiet a worker runs for each account of the desktop  *)
(* that has a credential, and for no other - unless the desktop changed    *)
(* before it was watched, was found back as it had been, or a call failed. *)
ServiceFollowsDesktop ==
    Settled /\ ~blind /\ ~undone =>
        {workers[i] : i \in DOMAIN workers} = Identities(Listed) \ keyless

(* A worker runs for the account that its row belongs to, although the ids *)
(* of rows that were pruned come back: whatever failed, no account is      *)
(* served by another one's worker (sync.rs, discover and reconcile).       *)
WorkerOfItsAccount ==
    inbox = <<>> => \A i \in DOMAIN workers : i \in DOMAIN rows /\ rows[i] = workers[i]
=============================================================================
