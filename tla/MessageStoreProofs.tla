-------------------------- MODULE MessageStoreProofs --------------------------
(***************************************************************************)
(* What holds of MessageStore for any number of mailboxes, accounts and    *)
(* mails, any events on the servers, deletions, failures and crashes: a    *)
(* message has one row, and its index, its cached body and its attachments *)
(* are its own, although the ids of rows come back; and messages are shown *)
(* as one conversation exactly when they belong together.                  *)
(***************************************************************************)
EXTENDS MessageStore, FiniteSetTheorems, WellFoundedInduction, TLAPS

-----------------------------------------------------------------------------
(* The least and the greatest of a set of numbers.                         *)
LEMMA Least ==
    ASSUME NEW S \in SUBSET Nat, S # {}
    PROVE  Min(S) \in S /\ \A y \in S : Min(S) <= y
<1>1. \E x \in S : \A y \in S : <<y, x>> \notin OpToRel(<, Nat)
  BY NatLessThanWellFounded, WFMin
<1>2. \A x, y \in Nat : <<y, x>> \notin OpToRel(<, Nat) => x <= y
  BY DEF OpToRel
<1>3. \E x \in S : \A y \in S : x <= y
  BY <1>1, <1>2
<1>4. QED BY <1>3 DEF Min

LEMMA Greatest ==
    ASSUME NEW S \in SUBSET Nat, S # {}, NEW n \in Nat, \A i \in S : i <= n
    PROVE  Max(S) \in S /\ \A y \in S : y <= Max(S)
<1> DEFINE bounds == {u \in Nat : \A i \in S : i <= u}
<1>1. Min(bounds) \in bounds /\ \A u \in bounds : Min(bounds) <= u
  BY Least
<1>2. PICK m \in Nat : m \in bounds /\ \A u \in bounds : m <= u
  BY <1>1
<1>3. m \in S
  <2>1. SUFFICES ASSUME m \notin S PROVE FALSE
    OBVIOUS
  <2>2. PICK i \in S : TRUE
    OBVIOUS
  <2>3. m - 1 \in Nat /\ \A j \in S : j <= m - 1
    BY <1>2, <2>1, <2>2
  <2>4. m <= m - 1
    BY <1>2, <2>3
  <2>5. QED BY <2>4
<1>4. \E x \in S : \A y \in S : x >= y
  BY <1>2, <1>3
<1>5. QED BY <1>4 DEF Max

-----------------------------------------------------------------------------
(* The ids that rows are given.                                            *)

(* A table: its ids are numbers, and one of them is the largest.           *)
Table(t) == DOMAIN t \subseteq Nat \ {0} /\ \E n \in Nat : \A i \in DOMAIN t : i <= n

LEMMA NextIdIs ==
    ASSUME NEW t, Table(t)
    PROVE  NextId(t) \in Nat \ {0} /\ \A i \in DOMAIN t : i < NextId(t)
<1>1. PICK n \in Nat : \A i \in DOMAIN t : i <= n
  BY DEF Table
<1>2. DOMAIN t \cup {0} \in SUBSET Nat /\ \A i \in DOMAIN t \cup {0} : i <= n
  BY <1>1 DEF Table
<1>3. /\ Max(DOMAIN t \cup {0}) \in Nat
      /\ \A i \in DOMAIN t : i <= Max(DOMAIN t \cup {0})
  BY <1>2, Greatest
<1>4. DOMAIN t \subseteq Nat
  BY DEF Table
<1>5. QED BY <1>3, <1>4 DEF NextId

(* Two messages have two rows.                                             *)
Apart(t) ==
    \A i, j \in DOMAIN t : t[i].folder = t[j].folder /\ t[i].uid = t[j].uid => i = j

LEMMA NotMore == \A n \in Nat : n <= n
OBVIOUS

LEMMA UidsFinite == IsFiniteSet(Uids) /\ Uids \subseteq Nat
BY FS_Interval, MessageStoreAssumption DEF Uids

(* New rows come behind those there are, each with an id of its own; a     *)
(* message that has a row keeps it.                                        *)
LEMMA RowIds ==
    ASSUME NEW t, Table(t), NEW f, NEW uids \in SUBSET Uids
    PROVE  /\ \A u \in uids :
                 IF RowsOf(t, f, u) = {}
                 THEN RowId(t, f, uids, u) \in Nat \ {0} /\ RowId(t, f, uids, u) \notin DOMAIN t
                 ELSE RowId(t, f, uids, u) \in RowsOf(t, f, u)
           /\ \A u, v \in uids : RowId(t, f, uids, u) = RowId(t, f, uids, v) => u = v
           /\ \E n \in Nat : \A u \in uids : RowId(t, f, uids, u) <= n
<1> DEFINE new == Unknown(t, f, uids)
           before(u) == {v \in new : v < u}
           id(u) == RowId(t, f, uids, u)
<1>1. /\ uids \subseteq Nat /\ new \subseteq uids
      /\ \A u \in uids : u \in new <=> RowsOf(t, f, u) = {}
      /\ \A u \in uids : id(u) = IF u \in new THEN NextId(t) + Cardinality(before(u))
                                 ELSE CHOOSE i \in RowsOf(t, f, u) : TRUE
  BY UidsFinite DEF Unknown, RowId
<1>2. IsFiniteSet(new)
  BY <1>1, UidsFinite, FS_Subset
<1>3. \A u : IsFiniteSet(before(u)) /\ Cardinality(before(u)) \in Nat
  BY <1>2, FS_Subset, FS_CardinalityType
<1>4. NextId(t) \in Nat \ {0} /\ (\A i \in DOMAIN t : i < NextId(t)) /\ DOMAIN t \subseteq Nat
  BY NextIdIs DEF Table
<1>5. \A u \in uids : RowsOf(t, f, u) \subseteq DOMAIN t
  BY DEF RowsOf
<1> HIDE DEF new, before, id
<1>6. ASSUME NEW u \in new PROVE id(u) \in Nat \ {0} /\ id(u) \notin DOMAIN t
  <2>1. PICK c \in Nat, n \in Nat \ {0} : c = Cardinality(before(u)) /\ n = NextId(t)
    BY <1>3, <1>4
  <2>2. id(u) = n + c
    BY <1>1, <2>1
  <2>3. QED BY <1>4, <2>1, <2>2
<1>7. ASSUME NEW u \in uids \ new PROVE id(u) \in RowsOf(t, f, u) /\ id(u) \in DOMAIN t
  BY <1>1, <1>5
<1>8. ASSUME NEW u \in new, NEW v \in new, u < v PROVE id(u) # id(v)
  <2>1. /\ u \in Nat /\ v \in Nat /\ u < v
        /\ \A w \in new : w \in Nat
    BY <1>1, <1>8
  <2>2. u \in before(v) /\ u \notin before(u)
    BY <2>1 DEF before
  <2>3. \A w \in before(u) : w \in before(v)
    BY <2>1 DEF before
  <2>4. before(u) \in SUBSET before(v) /\ before(u) # before(v)
    BY <2>2, <2>3
  <2>5. Cardinality(before(u)) # Cardinality(before(v))
    BY <1>3, <2>4, FS_Subset
  <2>6. PICK c \in Nat, d \in Nat, n \in Nat :
            c = Cardinality(before(u)) /\ d = Cardinality(before(v)) /\ n = NextId(t)
    BY <1>3, <1>4
  <2>7. id(u) = n + c /\ id(v) = n + d
    BY <1>1, <2>6
  <2>8. QED BY <2>5, <2>6, <2>7
<1>9. ASSUME NEW u \in uids, NEW v \in uids, id(u) = id(v) PROVE u = v
  <2>1. CASE u \in new /\ v \in new
    <3>1. ~(u < v) /\ ~(v < u) /\ u \in Nat /\ v \in Nat
      BY <1>1, <1>8, <1>9, <2>1
    <3>2. QED BY <3>1
  <2>2. CASE u \notin new /\ v \notin new
    BY <1>7, <1>9, <2>2 DEF RowsOf
  <2>3. CASE u \in new <=> v \notin new
    BY <1>6, <1>7, <1>9, <2>3
  <2>4. QED BY <2>1, <2>2, <2>3
<1>10. \E n \in Nat : \A u \in uids : id(u) <= n
  <2>1. PICK c \in Nat : c = Cardinality(new)
    BY <1>2, FS_CardinalityType
  <2>2. PICK n \in Nat \ {0} : n = NextId(t)
    BY <1>4
  <2>3. ASSUME NEW u \in new PROVE id(u) <= n + c
    <3>1. Cardinality(before(u)) <= Cardinality(new)
      BY <1>2, FS_Subset DEF before
    <3>2. PICK d \in Nat : d = Cardinality(before(u))
      BY <1>3
    <3>3. id(u) = n + d
      BY <1>1, <2>2, <3>2
    <3>4. QED BY <2>1, <3>1, <3>2, <3>3
  <2>4. ASSUME NEW u \in uids \ new PROVE id(u) <= n + c
    <3>1. id(u) \in Nat /\ id(u) < n
      BY <1>4, <1>7, <2>2
    <3>2. QED BY <3>1
  <2>5. n + c \in Nat
    OBVIOUS
  <2>6. QED BY <2>3, <2>4, <2>5
<1>11. QED BY <1>1, <1>6, <1>7, <1>9, <1>10 DEF id

-----------------------------------------------------------------------------
(* The inductive invariant.                                                *)

FetchPcs == {"body", "attachments", "words"}

Boxed == [exists : BOOLEAN, validity : Nat \ {0}, next : Nat \ {0},
          at : [Uids -> Mails \cup {None}]]
FolderRow == [box : Boxes, validity : Nat]
(* What a row's thread is, the invariant does not say.                     *)
MessageRow(r) == [folder : Nat, uid : Uids, mail : Mails, body : {"none", "full"},
                  parts : Mails \cup {None}, thread : {r.thread}]
IndexRow == [subject : Mails, body : Mails \cup {None}]
Working == [pc : {"idle", "replay", "folders", "prune"} \cup FetchPcs, todo : SUBSET Nat,
            folder : Nat, vanished : SUBSET Uids, row : Nat, uid : Uids \cup {0},
            mail : Mails \cup {None}]

Typed ==
    /\ owner \in [Boxes -> Accounts] /\ mailbox \in [Boxes -> Boxed]
    /\ Table(folder) /\ \A f \in DOMAIN folder : folder[f] \in FolderRow
    /\ Table(message)
    /\ \A i \in DOMAIN message :
           message[i] \in MessageRow(message[i]) /\ message[i].folder \in DOMAIN folder
    /\ \A i \in DOMAIN index : index[i] \in IndexRow
    /\ worker \in [Accounts -> Working]

(* A worker keeps to the folders of its account.                           *)
Home(a, w) ==
    /\ w.todo \subseteq FoldersOf(a, folder)
    /\ w.pc \in {"prune"} \cup FetchPcs => w.folder \in FoldersOf(a, folder)
Homes == \A a \in Accounts : Home(a, worker[a])

(* The store has seen the present life of the mailbox, and in it the UID   *)
(* was given to the mail.                                                  *)
Fresh(f) == folder[f].validity = mailbox[folder[f].box].validity
Had(f, u, mail) ==
    /\ u < mailbox[folder[f].box].next
    /\ mailbox[folder[f].box].at[u] \in {None, mail}

Lives ==
    /\ \A b \in Boxes, u \in Uids : mailbox[b].at[u] # None => u < mailbox[b].next
    /\ \A f \in DOMAIN folder : folder[f].validity <= mailbox[folder[f].box].validity
    /\ \A i \in DOMAIN message :
           /\ folder[message[i].folder].validity # 0
           /\ Fresh(message[i].folder)
                  => Had(message[i].folder, message[i].uid, message[i].mail)

Filed(f, u, mail) ==
    BodyFile(f, u) \in DOMAIN files /\ files[BodyFile(f, u)] = mail
Bodies ==
    \A i \in DOMAIN message :
        message[i].body = "full" /\ Fresh(message[i].folder)
            => Filed(message[i].folder, message[i].uid, message[i].mail)

(* No index is left behind by a row but where the history says so.         *)
Indexed == IndexIsOwn /\ DOMAIN index \subseteq DOMAIN message \cup stray

(* A worker is between the statements of a fetch for this row.             *)
Fetching(a, i) ==
    worker[a].pc \in {"attachments", "words"} /\ worker[a].row = i /\ SameRow(worker[a])
Completed ==
    \A i \in DOMAIN message \ (stray \cup cut) :
        /\ message[i].body = "full" /\ Fresh(message[i].folder)
        /\ \A a \in Accounts : ~Fetching(a, i)
        => message[i].parts = message[i].mail /\ index[i].body = message[i].mail

(* What a worker holds of the message it fetches.                          *)
Holds(w) ==
    /\ w.uid \in Uids /\ w.mail \in Mails
    /\ Fresh(w.folder) => Had(w.folder, w.uid, w.mail)
    /\ w.pc = "body" => Filed(w.folder, w.uid, w.mail)
    /\ \A i \in DOMAIN message :
           message[i].folder = w.folder /\ message[i].uid = w.uid =>
               /\ i = w.row
               /\ Fresh(w.folder) => message[i].mail = w.mail
               /\ Fresh(w.folder) /\ i \notin stray /\ w.pc = "words" => message[i].parts = w.mail
Fetches == \A a \in Accounts : worker[a].pc \in FetchPcs => Holds(worker[a])

Inv == /\ Typed /\ Homes /\ OneRowEach /\ Lives
       /\ Bodies /\ Indexed /\ Completed /\ Fetches

LEMMA Shown == Inv => TypeOK /\ IndexIsOwn /\ BodyIsOwn /\ RecordedIsComplete
<1> SUFFICES ASSUME Inv PROVE TypeOK /\ IndexIsOwn /\ BodyIsOwn /\ RecordedIsComplete
  OBVIOUS
<1>1. TypeOK /\ IndexIsOwn
  BY DEF Inv, Indexed, Typed, FolderRow, MessageRow, TypeOK
<1>2. BodyIsOwn
  BY DEF Inv, Bodies, BodyIsOwn, Filed, Fresh, Current
<1>3. RecordedIsComplete
  BY DEF Inv, Completed, RecordedIsComplete, Fetching, Fresh, Current
<1>4. QED BY <1>1, <1>2, <1>3

LEMMA InitInv == Init => Inv
<1> SUFFICES ASSUME Init PROVE Inv
  OBVIOUS
<1>1. PICK world \in Worlds :
          /\ owner = world.owner
          /\ folder = [f \in DOMAIN world.found |-> [box |-> world.found[f], validity |-> 1]]
  BY DEF Init
<1> DEFINE n == Cardinality(Boxes)
<1>2. /\ owner \in [Boxes -> Accounts]
      /\ world.found \in Bijection(1 .. n, Boxes)
  BY <1>1, MessageStoreAssumption
<1>3. n \in Nat
  BY MessageStoreAssumption, FS_CardinalityType
<1> HIDE DEF n
<1>4. /\ DOMAIN world.found = 1 .. n
      /\ \A f \in 1 .. n : world.found[f] \in Boxes
      /\ \A f, g \in 1 .. n : world.found[f] = world.found[g] => f = g
  BY <1>2 DEF Bijection, Injection, Surjection, IsInjective
<1>5. DOMAIN message = {} /\ DOMAIN index = {}
  BY DEF Init
<1>6. /\ DOMAIN folder = 1 .. n
      /\ \A f \in 1 .. n : folder[f].box = world.found[f] /\ folder[f].validity = 1
      /\ \A f \in 1 .. n : folder[f] \in FolderRow
  BY <1>1, <1>4 DEF FolderRow
<1>7. Table(folder) /\ Table(message)
  BY <1>3, <1>5, <1>6 DEF Table
<1>8. /\ mailbox \in [Boxes -> Boxed]
      /\ \A b \in Boxes : mailbox[b].validity = 1 /\ \A u \in Uids : mailbox[b].at[u] = None
  BY DEF Init, Boxed, EmptyBox
<1>9. AtRest \in Working /\ AtRest.pc = "idle" /\ AtRest.todo = {}
  BY DEF AtRest, Working
<1>10. worker \in [Accounts -> Working] /\ \A a \in Accounts : worker[a] = AtRest
  BY <1>9 DEF Init
<1>11. Typed
  BY <1>2, <1>5, <1>6, <1>7, <1>8, <1>10 DEF Typed
<1>12. Homes /\ Fetches
  BY <1>9, <1>10 DEF Homes, Home, Fetches, FetchPcs
<1>13. OneRowEach
  BY <1>4, <1>5, <1>6 DEF OneRowEach
<1>14. Lives
  BY <1>4, <1>5, <1>6, <1>8 DEF Lives
<1>15. Bodies /\ Indexed /\ Completed
  BY <1>5 DEF Bodies, Indexed, IndexIsOwn, Completed
<1>16. QED BY <1>11, <1>12, <1>13, <1>14, <1>15 DEF Inv

-----------------------------------------------------------------------------
(* The servers.                                                            *)

(* A mailbox only goes on, or begins a new life.                           *)
Later(b) ==
    \/ mailbox'[b].validity > mailbox[b].validity
    \/ /\ mailbox'[b].validity = mailbox[b].validity
       /\ mailbox'[b].next >= mailbox[b].next
       /\ \A u \in Uids : u < mailbox[b].next
                              => mailbox'[b].at[u] \in {None, mailbox[b].at[u]}

LEMMA ServersGoOn ==
    ASSUME Inv, mailbox' \in [Boxes -> Boxed],
           \A b \in Boxes : Later(b) /\ \A u \in Uids : mailbox'[b].at[u] # None
                                                           => u < mailbox'[b].next,
           UNCHANGED <<owner, folder, message, index, files, worker, stray, cut>>
    PROVE  Inv'
<1>1. /\ Typed /\ Homes /\ OneRowEach /\ Lives /\ Bodies /\ Indexed /\ Completed /\ Fetches
  BY DEF Inv
<1>2. \A f \in DOMAIN folder : folder[f] \in FolderRow
  BY <1>1 DEF Typed
<1>3. \A b \in Boxes : mailbox[b] \in Boxed /\ mailbox'[b] \in Boxed
  BY <1>1 DEF Typed
<1>4. \A f \in DOMAIN folder : Fresh(f)' => Fresh(f)
  BY <1>1, <1>2, <1>3 DEF Lives, Fresh, Later, FolderRow, Boxed
<1>5. \A f \in DOMAIN folder, u \in Uids, mail \in Mails :
          Fresh(f)' /\ Had(f, u, mail) => Had(f, u, mail)'
  <2>1. SUFFICES ASSUME NEW f \in DOMAIN folder, NEW u \in Uids, NEW mail \in Mails,
                        Fresh(f)', Had(f, u, mail)
                 PROVE  Had(f, u, mail)'
    OBVIOUS
  <2>2. PICK b \in Boxes : b = folder[f].box
    BY <1>2 DEF FolderRow
  <2>3. Later(b) /\ mailbox'[b].validity = mailbox[b].validity
    BY <1>4, <2>1, <2>2 DEF Fresh
  <2>4. u \in Nat /\ mailbox[b].next \in Nat /\ mailbox'[b].next \in Nat
    BY <1>3, UidsFinite DEF Boxed
  <2>5. u < mailbox[b].next /\ mailbox[b].at[u] \in {None, mail}
    BY <2>1, <2>2 DEF Had
  <2>6. u < mailbox'[b].next /\ mailbox'[b].at[u] \in {None, mail}
    BY <1>3, <2>3, <2>4, <2>5 DEF Later, Boxed
  <2>7. QED BY <2>2, <2>6 DEF Had
<1>6. \A i \in DOMAIN message :
          /\ message[i].folder \in DOMAIN folder /\ message[i].uid \in Uids
          /\ message[i].mail \in Mails
  BY <1>1 DEF Typed, MessageRow
<1>7. \A a \in Accounts : worker[a].pc \in FetchPcs => worker[a].folder \in DOMAIN folder
  BY <1>1 DEF Homes, Home, FoldersOf
<1>8. Typed'
  BY <1>1 DEF Typed, Table, MessageRow
<1>9. Homes' /\ OneRowEach'
  BY <1>1 DEF Homes, Home, FoldersOf, OneRowEach
<1>10. Lives'
  <2>1. \A f \in DOMAIN folder : folder[f].validity <= mailbox'[folder[f].box].validity
    BY <1>1, <1>2, <1>3 DEF Lives, Later, FolderRow, Boxed
  <2>2. \A i \in DOMAIN message : Fresh(message[i].folder)'
                                     => Had(message[i].folder, message[i].uid, message[i].mail)'
    BY <1>1, <1>4, <1>5, <1>6 DEF Lives
  <2>3. QED BY <1>1, <2>1, <2>2 DEF Lives
<1>11. Bodies'
  BY <1>1, <1>4, <1>6 DEF Bodies, Filed
<1>12. Indexed'
  BY <1>1, <1>4, <1>6 DEF Indexed, IndexIsOwn, Current, Fresh
<1>13. \A a \in Accounts, i \in DOMAIN message : Fetching(a, i)' <=> Fetching(a, i)
  BY DEF Fetching, SameRow, Rows
<1>14. Completed'
  BY <1>1, <1>4, <1>6, <1>13 DEF Completed
<1>15. Fetches'
  <2>1. SUFFICES ASSUME NEW a \in Accounts, worker[a].pc \in FetchPcs
                 PROVE  Holds(worker[a])'
    BY DEF Fetches
  <2>2. Holds(worker[a]) /\ worker[a].folder \in DOMAIN folder
    BY <1>1, <1>7, <2>1 DEF Fetches
  <2>3. Fresh(worker[a].folder)' => Fresh(worker[a].folder)
    BY <1>4, <2>2
  <2>4. Fresh(worker[a].folder)' =>
            Had(worker[a].folder, worker[a].uid, worker[a].mail)'
    BY <1>5, <2>2, <2>3 DEF Holds
  <2>5. QED BY <2>2, <2>3, <2>4 DEF Holds, Filed
<1>16. QED BY <1>8, <1>9, <1>10, <1>11, <1>12, <1>14, <1>15 DEF Inv

LEMMA InvServer ==
    ASSUME Inv, NEW b \in Boxes, (\E mail \in Mails : Deliver(b, mail))
                                 \/ (\E u \in Uids : Expunge(b, u)) \/ RemoveBox(b) \/ Rebuild(b)
    PROVE  Inv'
<1>1. /\ mailbox \in [Boxes -> Boxed]
      /\ \A c \in Boxes, u \in Uids : mailbox[c].at[u] # None => u < mailbox[c].next
  BY DEF Inv, Typed, Lives
<1>2. UNCHANGED <<owner, folder, message, index, files, worker, stray, cut>>
  BY DEF Deliver, Expunge, RemoveBox, Rebuild, Happens, store, history
<1>3. mailbox[b] \in Boxed /\ (\A u \in Uids : u \in Nat) /\ 1 \in Uids
  BY <1>1, UidsFinite, MessageStoreAssumption DEF Uids
<1> DEFINE Sound(box) ==
        /\ box \in Boxed
        /\ \A u \in Uids : box.at[u] # None => u < box.next
        /\ \/ box.validity > mailbox[b].validity
           \/ /\ box.validity = mailbox[b].validity /\ box.next >= mailbox[b].next
              /\ \A u \in Uids : u < mailbox[b].next => box.at[u] \in {None, mailbox[b].at[u]}
<1>4. \E box \in Boxed : mailbox' = [mailbox EXCEPT ![b] = box] /\ Sound(box)
  <2>1. ASSUME NEW mail \in Mails, Deliver(b, mail)
        PROVE  \E box \in Boxed : mailbox' = [mailbox EXCEPT ![b] = box] /\ Sound(box)
    <3> DEFINE box == [mailbox[b] EXCEPT !.at[mailbox[b].next] = mail, !.next = @ + 1]
    <3>1. mailbox[b].next \in Uids /\ mailbox[b].next \in Nat
      BY <1>3, <2>1 DEF Deliver
    <3>2. PICK next \in Nat \ {0} : next = mailbox[b].next + 1
      BY <3>1
    <3>3. PICK at \in [Uids -> Mails \cup {None}] :
              at = [mailbox[b].at EXCEPT ![mailbox[b].next] = mail]
      BY <1>3, <3>1 DEF Boxed
    <3>4. box = [mailbox[b] EXCEPT !.at = at, !.next = next]
      BY <1>3, <3>2, <3>3 DEF Boxed
    <3>5. box \in Boxed /\ box.validity = mailbox[b].validity /\ box.next = mailbox[b].next + 1
      BY <1>3, <3>2, <3>4 DEF Boxed
    <3>6. \A u \in Uids : box.at[u] = IF u = mailbox[b].next THEN mail ELSE mailbox[b].at[u]
      BY <1>3, <3>1 DEF Boxed
    <3>7. mailbox' = [mailbox EXCEPT ![b] = box]
      BY <1>1, <2>1 DEF Deliver, Boxed
    <3> HIDE DEF box
    <3>8. \A u \in Uids : box.at[u] # None => u < box.next
      BY <1>1, <1>3, <3>1, <3>5, <3>6
    <3>9. \A u \in Uids : u < mailbox[b].next => box.at[u] \in {None, mailbox[b].at[u]}
      BY <1>3, <3>1, <3>6
    <3>10. Sound(box)
      BY <3>1, <3>5, <3>8, <3>9
    <3>11. QED BY <3>5, <3>7, <3>10
  <2>2. ASSUME NEW v \in Uids, Expunge(b, v)
        PROVE  \E box \in Boxed : mailbox' = [mailbox EXCEPT ![b] = box] /\ Sound(box)
    <3> DEFINE box == [mailbox[b] EXCEPT !.at[v] = None]
    <3>1. box \in Boxed /\ box.validity = mailbox[b].validity /\ box.next = mailbox[b].next
      BY <1>3 DEF Boxed
    <3>2. \A u \in Uids : box.at[u] = IF u = v THEN None ELSE mailbox[b].at[u]
      BY <1>3 DEF Boxed
    <3>3. mailbox' = [mailbox EXCEPT ![b] = box]
      BY <1>1, <2>2 DEF Expunge, Boxed
    <3> HIDE DEF box
    <3>4. Sound(box)
      BY <1>1, <1>3, <3>1, <3>2 DEF Boxed
    <3>5. QED BY <3>1, <3>3, <3>4
  <2>3. ASSUME RemoveBox(b)
        PROVE  \E box \in Boxed : mailbox' = [mailbox EXCEPT ![b] = box] /\ Sound(box)
    <3> DEFINE box == [mailbox[b] EXCEPT !.exists = FALSE]
    <3>1. /\ box \in Boxed /\ box.validity = mailbox[b].validity
          /\ box.next = mailbox[b].next /\ box.at = mailbox[b].at
      BY <1>3 DEF Boxed
    <3>2. mailbox' = [mailbox EXCEPT ![b] = box]
      BY <1>1, <2>3 DEF RemoveBox, Boxed
    <3> HIDE DEF box
    <3>3. Sound(box)
      BY <1>1, <1>3, <3>1 DEF Boxed
    <3>4. QED BY <3>1, <3>2, <3>3
  <2>4. ASSUME Rebuild(b)
        PROVE  \E box \in Boxed : mailbox' = [mailbox EXCEPT ![b] = box] /\ Sound(box)
    <3>1. PICK mail \in Mails :
              mailbox' = [mailbox EXCEPT ![b] = [EmptyBox(mailbox[b].validity + 1) EXCEPT
                                                    !.next = 2, !.at[1] = mail]]
      BY <2>4 DEF Rebuild
    <3> DEFINE box == [EmptyBox(mailbox[b].validity + 1) EXCEPT !.next = 2, !.at[1] = mail]
    <3>2. PICK life \in Nat \ {0} : life = mailbox[b].validity + 1
      BY <1>3 DEF Boxed
    <3>3. PICK at \in [Uids -> Mails \cup {None}] : at = [u \in Uids |-> IF u = 1 THEN mail ELSE None]
      OBVIOUS
    <3>4. at = [[u \in Uids |-> None] EXCEPT ![1] = mail]
      BY <1>3, <3>3
    <3>5. /\ EmptyBox(life) \in Boxed /\ EmptyBox(life).validity = life
          /\ EmptyBox(life).at = [u \in Uids |-> None]
      BY DEF EmptyBox, Boxed
    <3>6. PICK e \in Boxed :
              /\ e = EmptyBox(mailbox[b].validity + 1)
              /\ e.validity = life /\ e.at = [u \in Uids |-> None]
      BY <3>2, <3>5
    <3>7. PICK next \in Nat \ {0} : next = 2
      OBVIOUS
    <3>8. box = [e EXCEPT !.at = at, !.next = next]
      BY <3>4, <3>6, <3>7 DEF Boxed
    <3>9. box \in Boxed /\ box.validity = life /\ box.next = 2 /\ box.at = at
      BY <3>6, <3>7, <3>8 DEF Boxed
    <3> HIDE DEF box
    <3>10. \A u \in Uids : box.at[u] # None => u = 1
      BY <3>3, <3>9
    <3>11. mailbox[b].validity \in Nat
      BY <1>3 DEF Boxed
    <3>12. Sound(box)
      BY <3>2, <3>9, <3>10, <3>11
    <3>13. QED BY <3>1, <3>9, <3>12 DEF box
  <2>5. QED BY <2>1, <2>2, <2>3, <2>4
<1>5. PICK box \in Boxed : mailbox' = [mailbox EXCEPT ![b] = box] /\ Sound(box)
  BY <1>4
<1>6. mailbox' \in [Boxes -> Boxed]
  BY <1>1, <1>5
<1>7. \A c \in Boxes : mailbox'[c] = IF c = b THEN box ELSE mailbox[c]
  BY <1>1, <1>5
<1>8. ASSUME NEW c \in Boxes
      PROVE  Later(c) /\ \A u \in Uids : mailbox'[c].at[u] # None => u < mailbox'[c].next
  <2>1. CASE c = b
    BY <1>5, <1>7, <2>1 DEF Later
  <2>2. CASE c # b
    <3>1. mailbox'[c] = mailbox[c] /\ mailbox[c] \in Boxed
      BY <1>1, <1>7, <2>2
    <3>2. mailbox[c].next >= mailbox[c].next
      BY <3>1 DEF Boxed
    <3>3. QED BY <1>1, <3>1, <3>2 DEF Later
  <2>3. QED BY <2>1, <2>2
<1> HIDE DEF Sound
<1>9. QED BY <1>2, <1>6, <1>8, ServersGoOn

(* A deletion that is replayed leaves a UID without a message.             *)
LEMMA InvReplayOne == ASSUME Inv, NEW a \in Accounts, ReplayOne(a) PROVE Inv'
<1>1. /\ mailbox \in [Boxes -> Boxed]
      /\ \A c \in Boxes, u \in Uids : mailbox[c].at[u] # None => u < mailbox[c].next
      /\ \A f \in DOMAIN folder : folder[f] \in FolderRow
  BY DEF Inv, Typed, Lives
<1>2. UNCHANGED <<owner, folder, message, index, files, worker, stray, cut>>
  BY DEF ReplayOne
<1>3. \A c \in Boxes : mailbox[c] \in Boxed /\ mailbox[c].next >= mailbox[c].next
  BY <1>1 DEF Boxed
<1>4. CASE UNCHANGED mailbox
  BY <1>1, <1>2, <1>3, <1>4, ServersGoOn DEF Later
<1>5. ASSUME ~UNCHANGED mailbox PROVE Inv'
  <2> DEFINE o == Head(OpsOf(a))
  <2>1. PICK f \in Resolved(o) :
            mailbox' = [mailbox EXCEPT ![folder[f].box].at[o.uid] = None]
    BY <1>5 DEF ReplayOne
  <2>2. PICK b \in Boxes : b = folder[f].box
    BY <1>1, <2>1 DEF Resolved, FolderRow
  <2> DEFINE box == [mailbox[b] EXCEPT !.at[o.uid] = None]
  <2>3. mailbox[b] \in Boxed
    BY <1>1
  <2>4. box \in Boxed /\ box.validity = mailbox[b].validity /\ box.next = mailbox[b].next
    BY <2>3 DEF Boxed
  <2>5. \A u \in Uids : box.at[u] \in {None, mailbox[b].at[u]}
    BY <2>3 DEF Boxed
  <2>6. mailbox' = [mailbox EXCEPT ![b] = box]
    BY <1>1, <2>1, <2>2 DEF Boxed
  <2> HIDE DEF box, o
  <2>7. mailbox' \in [Boxes -> Boxed]
        /\ \A c \in Boxes : mailbox'[c] = IF c = b THEN box ELSE mailbox[c]
    BY <1>1, <2>4, <2>6
  <2>8. \A c \in Boxes : Later(c) /\ \A u \in Uids : mailbox'[c].at[u] # None
                                                        => u < mailbox'[c].next
    BY <1>1, <1>3, <2>4, <2>5, <2>7 DEF Later
  <2>9. QED BY <1>2, <2>7, <2>8, ServersGoOn
<1>6. QED BY <1>4, <1>5

(* A worker holds what it held, of rows that are as they were.             *)
LEMMA HoldsStill ==
    ASSUME NEW w, Holds(w), UNCHANGED mailbox, folder'[w.folder] = folder[w.folder],
           w.pc = "body" => Filed(w.folder, w.uid, w.mail)',
           \A i \in DOMAIN message' :
               message'[i].folder = w.folder /\ message'[i].uid = w.uid =>
                   /\ i \in DOMAIN message
                   /\ message[i].folder = w.folder /\ message[i].uid = w.uid
                   /\ message'[i].mail = message[i].mail
                   /\ i \notin stray' => i \notin stray /\ message'[i].parts = message[i].parts
    PROVE  Holds(w)'
<1>1. Fresh(w.folder)' <=> Fresh(w.folder)
  BY DEF Fresh
<1>2. Had(w.folder, w.uid, w.mail) => Had(w.folder, w.uid, w.mail)'
  BY DEF Had
<1>3. QED BY <1>1, <1>2 DEF Holds

-----------------------------------------------------------------------------
(* Workers that begin, end or give up.                                     *)

(* A fetch that ends before its last statement is in the history, or its   *)
(* row is gone, or is in the history already.                              *)
LEMMA WorkersStop ==
    ASSUME Inv, UNCHANGED <<owner, mailbox, folder, message, index, files, stray>>,
           worker' \in [Accounts -> Working],
           \A a \in Accounts : \/ worker'[a] = worker[a]
                               \/ worker'[a].pc \in {"idle", "replay"} /\ worker'[a].todo = {},
           cut \subseteq cut',
           \A a \in Accounts, i \in DOMAIN message :
               Fetching(a, i) /\ worker'[a] # worker[a] => i \in cut' \cup stray
    PROVE  Inv'
<1>1. /\ Typed /\ Homes /\ OneRowEach /\ Lives /\ Bodies /\ Indexed /\ Completed /\ Fetches
  BY DEF Inv
<1>2. Typed'
  BY <1>1 DEF Typed, Table, MessageRow
<1>3. Homes'
  BY <1>1 DEF Homes, Home, FoldersOf, FetchPcs
<1>4. OneRowEach' /\ Lives' /\ Bodies' /\ Indexed'
  BY <1>1 DEF OneRowEach, Lives, Fresh, Had, Bodies, Filed, Indexed, IndexIsOwn, Current
<1>5. \A a \in Accounts, i \in DOMAIN message :
          worker'[a] = worker[a] => (Fetching(a, i)' <=> Fetching(a, i))
  BY DEF Fetching, SameRow, Rows
<1>6. Completed'
  BY <1>1, <1>5 DEF Completed, Fresh
<1>7. ASSUME NEW a \in Accounts, worker'[a].pc \in FetchPcs PROVE Holds(worker[a])'
  <2>1. PICK now : now = worker[a] /\ worker'[a] = now /\ Holds(now)
    BY <1>1, <1>7 DEF Fetches, FetchPcs
  <2>2. now.pc = "body" => Filed(now.folder, now.uid, now.mail)'
    BY <2>1 DEF Holds, Filed
  <2>3. Holds(now)'
    BY <2>1, <2>2, HoldsStill
  <2>4. QED BY <2>1, <2>3
<1>8. QED BY <1>2, <1>3, <1>4, <1>6, <1>7 DEF Inv, Fetches

LEMMA RestIs == /\ AtRest \in Working /\ AtRest.pc = "idle" /\ AtRest.todo = {}
                /\ [AtRest EXCEPT !.pc = "replay"] \in Working
                /\ [AtRest EXCEPT !.pc = "replay"].pc = "replay"
                /\ [AtRest EXCEPT !.pc = "replay"].todo = {}
BY DEF AtRest, Working

LEMMA InvSync == ASSUME Inv, NEW a \in Accounts, Sync(a) PROVE Inv'
<1>1. worker \in [Accounts -> Working]
  BY DEF Inv, Typed
<1>2. /\ UNCHANGED <<owner, mailbox, folder, message, index, files, stray, cut>>
      /\ worker' = [worker EXCEPT ![a] = [AtRest EXCEPT !.pc = "replay"]]
      /\ worker[a].pc = "idle"
  BY DEF Sync, store, history, Works
<1>3. \A i \in DOMAIN message : ~Fetching(a, i)
  BY <1>2 DEF Fetching
<1>4. \A c \in Accounts : worker'[c] = IF c = a THEN [AtRest EXCEPT !.pc = "replay"] ELSE worker[c]
  BY <1>1, <1>2
<1>5. worker' \in [Accounts -> Working]
  BY <1>1, <1>2, RestIs
<1>6. \A c \in Accounts : \/ worker'[c] = worker[c]
                          \/ worker'[c].pc \in {"idle", "replay"} /\ worker'[c].todo = {}
  BY <1>4, RestIs
<1>7. ASSUME NEW c \in Accounts, NEW i \in DOMAIN message, Fetching(c, i), worker'[c] # worker[c]
      PROVE  i \in cut' \cup stray
  <2>1. c = a
    BY <1>4, <1>7
  <2>2. Fetching(a, i)
    BY <2>1, <1>7
  <2>3. QED BY <1>3, <2>2
<1>8. cut \subseteq cut'
  BY <1>2
<1>9. QED BY <1>2, <1>5, <1>6, <1>7, <1>8, WorkersStop

LEMMA InvStops ==
    ASSUME Inv, NEW a \in Accounts, SelectFails(a) \/ RowGone(a) \/ Fail(a)
    PROVE  Inv'
<1>1. worker \in [Accounts -> Working] /\ Indexed
  BY DEF Inv, Typed
<1>2. /\ UNCHANGED <<owner, mailbox, folder, message, index, files, stray>>
      /\ worker' = [worker EXCEPT ![a] = AtRest]
  BY DEF SelectFails, RowGone, Fail, store, history, Works
<1>3. cut \subseteq cut'
  BY DEF SelectFails, RowGone, Fail, history
<1>4. ASSUME NEW i \in DOMAIN message, Fetching(a, i) PROVE i \in cut' \cup stray
  <2>1. worker[a].pc \in {"attachments", "words"} /\ worker[a].row = i
    BY <1>4 DEF Fetching
  <2>2. CASE SelectFails(a)
    BY <2>1, <2>2 DEF SelectFails
  <2>3. CASE RowGone(a)
    BY <1>1, <2>1, <2>3 DEF RowGone, Indexed, IndexIsOwn
  <2>4. CASE Fail(a)
    BY <2>1, <2>4 DEF Fail, Halfway
  <2>5. QED BY <2>2, <2>3, <2>4
<1>5. \A c \in Accounts : worker'[c] = IF c = a THEN AtRest ELSE worker[c]
  BY <1>1, <1>2
<1>6. worker' \in [Accounts -> Working]
  BY <1>1, <1>2, RestIs
<1>7. \A c \in Accounts : \/ worker'[c] = worker[c]
                          \/ worker'[c].pc \in {"idle", "replay"} /\ worker'[c].todo = {}
  BY <1>5, RestIs
<1>8. ASSUME NEW c \in Accounts, NEW i \in DOMAIN message, Fetching(c, i), worker'[c] # worker[c]
      PROVE  i \in cut' \cup stray
  <2>1. c = a
    BY <1>5, <1>8
  <2>2. Fetching(a, i)
    BY <2>1, <1>8
  <2>3. QED BY <1>4, <2>2
<1>9. QED BY <1>2, <1>3, <1>6, <1>7, <1>8, WorkersStop

-----------------------------------------------------------------------------
(* Rows that are deleted, with their index or - by a folder - without it.  *)

LEMMA RowsLeave ==
    ASSUME Inv, NEW ids,
           message' = Without(message, ids),
           \/ index' = Without(index, ids) /\ stray' = stray \ ids
           \/ index' = index /\ stray' = stray \cup ids,
           UNCHANGED <<owner, mailbox, files, cut>>,
           Table(folder'),
           \A f \in DOMAIN folder' :
               /\ folder'[f] \in FolderRow
               /\ folder'[f].validity <= mailbox[folder'[f].box].validity,
           \A f, g \in DOMAIN folder' : folder'[f].box = folder'[g].box => f = g,
           \A i \in DOMAIN message \ ids :
               /\ message[i].folder \in DOMAIN folder'
               /\ folder'[message[i].folder] = folder[message[i].folder],
           worker' \in [Accounts -> Working], Homes',
           \A a \in Accounts :
               worker[a].pc \in FetchPcs \/ worker'[a].pc \in FetchPcs =>
                   /\ worker'[a] = worker[a]
                   /\ folder'[worker[a].folder] = folder[worker[a].folder]
    PROVE  Inv'
<1>1. /\ Typed /\ Homes /\ OneRowEach /\ Lives /\ Bodies /\ Indexed /\ Completed /\ Fetches
  BY DEF Inv
<1>2. /\ DOMAIN message' = DOMAIN message \ ids
      /\ \A i \in DOMAIN message \ ids : message'[i] = message[i]
  BY DEF Without, Restrict
<1>3. ASSUME NEW i \in DOMAIN message', i \notin stray'
      PROVE  /\ i \notin stray
             /\ i \in DOMAIN index => i \in DOMAIN index' /\ index'[i] = index[i]
  BY <1>2, <1>3 DEF Without, Restrict
<1>4. DOMAIN index' \subseteq DOMAIN index /\ \A i \in DOMAIN index' : index'[i] = index[i]
  BY DEF Without, Restrict
<1>5. Table(message')
  BY <1>1, <1>2 DEF Typed, Table
<1>6. Typed'
  <2>1. \A i \in DOMAIN message' :
            message'[i] \in MessageRow(message'[i]) /\ message'[i].folder \in DOMAIN folder'
    BY <1>1, <1>2 DEF Typed, MessageRow
  <2>2. \A i \in DOMAIN index' : index'[i] \in IndexRow
    BY <1>1, <1>4 DEF Typed
  <2>3. owner' \in [Boxes -> Accounts] /\ mailbox' \in [Boxes -> Boxed]
    BY <1>1 DEF Typed
  <2>4. QED BY <1>5, <2>1, <2>2, <2>3 DEF Typed, MessageRow
<1>7. OneRowEach'
  BY <1>1, <1>2 DEF OneRowEach
<1>8. \A i \in DOMAIN message' : Fresh(message[i].folder)' <=> Fresh(message[i].folder)
  BY <1>2 DEF Fresh
<1>9. Lives'
  <2>1. ASSUME NEW i \in DOMAIN message'
        PROVE  LET f == message[i].folder IN
               /\ message'[i] = message[i] /\ folder'[f] = folder[f] /\ folder[f].validity # 0
               /\ Fresh(f) => Had(f, message[i].uid, message[i].mail)
    BY <1>1, <1>2 DEF Lives
  <2>2. \A b \in Boxes, u \in Uids : mailbox'[b].at[u] # None => u < mailbox'[b].next
    BY <1>1 DEF Lives
  <2>3. \A f \in DOMAIN folder' : folder'[f].validity <= mailbox'[folder'[f].box].validity
    OBVIOUS
  <2>4. \A i \in DOMAIN message' :
            /\ folder'[message'[i].folder].validity # 0
            /\ Fresh(message[i].folder)'
                   => Had(message[i].folder, message[i].uid, message[i].mail)'
    BY <2>1 DEF Fresh, Had
  <2>5. QED BY <2>2, <2>3, <2>4 DEF Lives
<1>10. Bodies'
  BY <1>1, <1>2, <1>8 DEF Bodies, Filed
<1>11. Indexed'
  <2>1. IndexIsOwn'
    <3>1. SUFFICES ASSUME NEW i \in DOMAIN message', i \notin stray'
                   PROVE  /\ i \in DOMAIN index' /\ index'[i].subject = message'[i].mail
                          /\ Current(i)' => index'[i].body \in {None, message'[i].mail}
      BY DEF IndexIsOwn
    <3>2. i \in DOMAIN message \ stray /\ message'[i] = message[i] /\ i \in DOMAIN index
      BY <1>1, <1>2, <1>3, <3>1 DEF Indexed, IndexIsOwn
    <3>3. i \in DOMAIN index' /\ index'[i] = index[i]
      BY <1>3, <3>1, <3>2
    <3>4. Current(i)' => Current(i)
      BY <1>8, <3>1 DEF Fresh, Current
    <3>5. QED BY <1>1, <3>2, <3>3, <3>4 DEF Indexed, IndexIsOwn
  <2>2. DOMAIN index' \subseteq DOMAIN message' \cup stray'
    <3>1. CASE index' = Without(index, ids) /\ stray' = stray \ ids
      <4>1. DOMAIN index' = DOMAIN index \ ids
        BY <3>1 DEF Without, Restrict
      <4>2. QED BY <1>1, <1>2, <3>1, <4>1 DEF Indexed
    <3>2. CASE index' = index /\ stray' = stray \cup ids
      BY <1>1, <1>2, <3>2 DEF Indexed
    <3>3. QED BY <3>1, <3>2
  <2>3. QED BY <2>1, <2>2 DEF Indexed
<1>12. Completed'
  <2>1. SUFFICES ASSUME NEW i \in DOMAIN message', i \notin stray', i \notin cut',
                        message'[i].body = "full", Fresh(message[i].folder)',
                        \A a \in Accounts : ~Fetching(a, i)'
                 PROVE  message'[i].parts = message'[i].mail /\ index'[i].body = message'[i].mail
    BY DEF Completed
  <2>2. /\ i \in DOMAIN message \ (stray \cup cut) /\ message'[i] = message[i]
        /\ index'[i] = index[i] /\ Fresh(message[i].folder)
    BY <1>1, <1>2, <1>3, <1>8, <2>1 DEF Indexed, IndexIsOwn
  <2>3. \A a \in Accounts : ~Fetching(a, i)
    <3>1. SUFFICES ASSUME NEW a \in Accounts, Fetching(a, i) PROVE Fetching(a, i)'
      BY <2>1
    <3>2. worker'[a] = worker[a]
      BY <3>1 DEF Fetching, FetchPcs
    <3>3. QED BY <2>1, <2>2, <3>1, <3>2 DEF Fetching, SameRow, Rows
  <2>4. QED BY <1>1, <2>1, <2>2, <2>3 DEF Completed
<1>13. Fetches'
  <2>1. SUFFICES ASSUME NEW a \in Accounts, worker'[a].pc \in FetchPcs
                 PROVE  Holds(worker[a])'
    BY DEF Fetches
  <2>2. worker'[a] = worker[a] /\ folder'[worker[a].folder] = folder[worker[a].folder]
    BY <2>1
  <2>3. Holds(worker[a])
    BY <1>1, <2>1, <2>2 DEF Fetches
  <2>4. \A i \in DOMAIN message' : i \notin stray' => i \notin stray
    BY <1>3
  <2>5. PICK w : w = worker[a]
    OBVIOUS
  <2>6. w.pc = "body" => Filed(w.folder, w.uid, w.mail)'
    BY <2>3, <2>5 DEF Holds, Filed
  <2>7. Holds(w)'
    BY <1>2, <2>2, <2>3, <2>4, <2>5, <2>6, HoldsStill
  <2>8. QED BY <2>2, <2>5, <2>7
<1>14. QED BY <1>6, <1>7, <1>9, <1>10, <1>11, <1>12, <1>13 DEF Inv

(* The folders stay as they are.                                           *)
LEMMA FoldersStay ==
    ASSUME Inv
    PROVE  /\ Table(folder)
           /\ \A f \in DOMAIN folder :
                  /\ folder[f] \in FolderRow
                  /\ folder[f].validity <= mailbox[folder[f].box].validity
           /\ \A f, g \in DOMAIN folder : folder[f].box = folder[g].box => f = g
           /\ \A i \in DOMAIN message : message[i].folder \in DOMAIN folder
BY DEF Inv, Typed, Lives, OneRowEach

LEMMA InvDelete == ASSUME Inv, NEW i \in DOMAIN message, Delete(i) PROVE Inv'
<1>1. /\ message' = Without(message, {i}) /\ index' = Without(index, {i}) /\ stray' = stray \ {i}
      /\ UNCHANGED <<owner, mailbox, folder, files, worker, cut>>
  BY DEF Delete, DeleteRows, Cleared
<1>2. worker' \in [Accounts -> Working] /\ Homes'
  BY <1>1 DEF Inv, Typed, Homes, Home, FoldersOf
<1>3. QED BY <1>1, <1>2, FoldersStay, RowsLeave

LEMMA NextFolderIs ==
    ASSUME NEW todo \in SUBSET Nat
    PROVE  /\ NextFolder(todo) \in Working /\ NextFolder(todo).pc \in {"idle", "folders"}
           /\ NextFolder(todo).todo = todo
<1>1. CASE todo = {}
  BY <1>1, RestIs DEF NextFolder
<1>2. CASE todo # {}
  BY <1>2 DEF NextFolder, AtRest, Working
<1>3. QED BY <1>1, <1>2

LEMMA InvDeleteVanished == ASSUME Inv, NEW a \in Accounts, DeleteVanished(a) PROVE Inv'
<1> DEFINE ids == Rows(worker[a].folder, worker[a].vanished)
           todo == worker[a].todo \ {worker[a].folder}
<1>1. /\ message' = Without(message, ids) /\ index' = Without(index, ids) /\ stray' = stray \ ids
      /\ UNCHANGED <<owner, mailbox, folder, files, cut>>
      /\ worker' = [worker EXCEPT ![a] = NextFolder(todo)] /\ worker[a].pc = "prune"
  BY DEF DeleteVanished, DeleteRows, Cleared, Works
<1>2. /\ worker \in [Accounts -> Working] /\ todo \in SUBSET Nat
      /\ todo \subseteq FoldersOf(a, folder) /\ Homes
  BY DEF Inv, Typed, Working, Homes, Home
<1> HIDE DEF ids, todo
<1>3. /\ worker' \in [Accounts -> Working]
      /\ \A c \in Accounts : worker'[c] = IF c = a THEN NextFolder(todo) ELSE worker[c]
  BY <1>1, <1>2, NextFolderIs
<1>4. \A c \in Accounts : Home(c, worker[c])'
  <2>1. /\ worker'[a].pc \in {"idle", "folders"} /\ worker'[a].todo = todo
        /\ FoldersOf(a, folder)' = FoldersOf(a, folder)
    BY <1>1, <1>2, <1>3, NextFolderIs DEF FoldersOf
  <2>2. Home(a, worker[a])'
    BY <1>2, <2>1 DEF Home, FetchPcs
  <2>3. \A c \in Accounts \ {a} : Home(c, worker[c])'
    BY <1>1, <1>2, <1>3 DEF Homes, Home, FoldersOf
  <2>4. QED BY <2>2, <2>3
<1>5. Homes'
  BY <1>4 DEF Homes
<1>6. \A c \in Accounts : worker[c].pc \in FetchPcs \/ worker'[c].pc \in FetchPcs
                              => worker'[c] = worker[c]
  BY <1>1, <1>2, <1>3, NextFolderIs DEF FetchPcs
<1>7. QED BY <1>1, <1>3, <1>5, <1>6, FoldersStay, RowsLeave

(* Mailboxes that are found get rows behind those there are.               *)
LEMMA AddedIs ==
    ASSUME NEW t, Table(t), NEW boxes \in SUBSET Boxes, NEW r \in Added(t, boxes)
    PROVE  /\ Table(r) /\ DOMAIN t \subseteq DOMAIN r
           /\ \A f \in DOMAIN t : r[f] = t[f]
           /\ \A f \in DOMAIN r \ DOMAIN t : r[f] \in [box : boxes, validity : {0}]
           /\ \A f, g \in DOMAIN r \ DOMAIN t : r[f].box = r[g].box => f = g
<1>1. PICK n \in Nat \ {0}, c \in Nat : n = NextId(t) /\ c = Cardinality(boxes)
  BY NextIdIs, MessageStoreAssumption, FS_Subset, FS_CardinalityType
<1> DEFINE new == NextId(t) .. NextId(t) + Cardinality(boxes) - 1
<1>2. PICK order \in Bijection(new, boxes) :
          r = [f \in DOMAIN t \cup new |->
                  IF f \in new THEN [box |-> order[f], validity |-> 0] ELSE t[f]]
  BY DEF Added
<1> HIDE DEF new
<1>3. /\ \A f \in new : order[f] \in boxes
      /\ \A f, g \in new : order[f] = order[g] => f = g
  BY <1>2 DEF Bijection, Injection, Surjection, IsInjective
<1>4. /\ DOMAIN t \subseteq Nat \ {0} /\ \A f \in DOMAIN t : f < n
      /\ new \subseteq Nat \ {0} /\ \A f \in new : f >= n /\ f <= n + c
  BY <1>1, NextIdIs DEF Table, new
<1>5. new \cap DOMAIN t = {}
  BY <1>4
<1>6. /\ DOMAIN r = DOMAIN t \cup new
      /\ \A f \in DOMAIN t : r[f] = t[f]
      /\ \A f \in new : r[f] = [box |-> order[f], validity |-> 0]
  BY <1>2, <1>5
<1>7. ASSUME NEW f \in DOMAIN r PROVE f <= n + c
  <2>1. CASE f \in DOMAIN t
    <3>1. f \in Nat /\ f < n
      BY <1>4, <2>1
    <3>2. QED BY <1>1, <3>1
  <2>2. QED BY <1>4, <1>6, <2>1
<1>8. n + c \in Nat
  BY <1>1
<1>9. Table(r)
  BY <1>4, <1>6, <1>7, <1>8 DEF Table
<1>10. QED BY <1>3, <1>6, <1>9

LEMMA InvSyncFolders == ASSUME Inv, NEW a \in Accounts, SyncFolders(a) PROVE Inv'
<1> DEFINE missing == MissingFolders(a)
           lost == Cascaded(missing)
           boxes == Listed(a) \ {folder[f].box : f \in DOMAIN folder}
<1>1. /\ message' = Without(message, lost) /\ index' = index /\ stray' = stray \cup lost
      /\ UNCHANGED <<owner, mailbox, files, cut>>
      /\ worker' = [worker EXCEPT ![a] = NextFolder(FoldersOf(a, folder'))]
      /\ worker[a].pc = "replay"
  BY DEF SyncFolders, Works
<1>2. PICK table \in Added(folder, boxes) : folder' = Without(table, missing)
  BY DEF SyncFolders, Discovered
<1>3. missing \subseteq FoldersOf(a, folder)
      /\ lost = {i \in DOMAIN message : message[i].folder \in missing}
      /\ boxes \in SUBSET Boxes /\ \A b \in boxes, f \in DOMAIN folder : folder[f].box # b
  BY DEF MissingFolders, Cascaded, Listed
<1> HIDE DEF missing, lost, boxes
<1>4. /\ Typed /\ Homes
      /\ Table(folder)
      /\ \A f \in DOMAIN folder : folder[f] \in FolderRow
                                     /\ folder[f].validity <= mailbox[folder[f].box].validity
      /\ \A f, g \in DOMAIN folder : folder[f].box = folder[g].box => f = g
      /\ \A i \in DOMAIN message : message[i].folder \in DOMAIN folder
  BY FoldersStay DEF Inv
<1>5. /\ Table(table) /\ DOMAIN folder \subseteq DOMAIN table
      /\ \A f \in DOMAIN folder : table[f] = folder[f]
      /\ \A f \in DOMAIN table \ DOMAIN folder : table[f] \in [box : boxes, validity : {0}]
      /\ \A f, g \in DOMAIN table \ DOMAIN folder : table[f].box = table[g].box => f = g
  BY <1>2, <1>3, <1>4, AddedIs
<1>6. \A f \in DOMAIN table : table[f] \in FolderRow
                                  /\ table[f].validity <= mailbox[table[f].box].validity
  <2>1. SUFFICES ASSUME NEW f \in DOMAIN table \ DOMAIN folder
                 PROVE  table[f] \in FolderRow
                            /\ table[f].validity <= mailbox[table[f].box].validity
    BY <1>4, <1>5
  <2>2. table[f].box \in Boxes /\ table[f].validity = 0 /\ table[f] \in FolderRow
    BY <1>3, <1>5 DEF FolderRow
  <2>3. mailbox[table[f].box].validity \in Nat
    BY <1>4, <2>2 DEF Typed, Boxed
  <2>4. QED BY <2>2, <2>3
<1>7. \A f, g \in DOMAIN table : table[f].box = table[g].box => f = g
  <2>1. SUFFICES ASSUME NEW f \in DOMAIN table, NEW g \in DOMAIN table, table[f].box = table[g].box
                 PROVE  f = g
    OBVIOUS
  <2>2. CASE f \in DOMAIN folder /\ g \in DOMAIN folder
    BY <1>4, <1>5, <2>1, <2>2
  <2>3. CASE f \notin DOMAIN folder /\ g \notin DOMAIN folder
    BY <1>5, <2>1, <2>3
  <2>4. CASE f \in DOMAIN folder /\ g \notin DOMAIN folder
    BY <1>3, <1>5, <2>1, <2>4
  <2>5. CASE f \notin DOMAIN folder /\ g \in DOMAIN folder
    BY <1>3, <1>5, <2>1, <2>5
  <2>6. QED BY <2>2, <2>3, <2>4, <2>5
<1>8. /\ DOMAIN folder' = DOMAIN table \ missing
      /\ \A f \in DOMAIN folder' : folder'[f] = table[f]
  BY <1>2 DEF Without, Restrict
<1>9. /\ Table(folder')
      /\ \A f \in DOMAIN folder' : folder'[f] \in FolderRow
                                      /\ folder'[f].validity <= mailbox[folder'[f].box].validity
      /\ \A f, g \in DOMAIN folder' : folder'[f].box = folder'[g].box => f = g
  BY <1>5, <1>6, <1>7, <1>8 DEF Table
<1>10. \A i \in DOMAIN message \ lost :
          /\ message[i].folder \in DOMAIN folder'
          /\ folder'[message[i].folder] = folder[message[i].folder]
  BY <1>3, <1>4, <1>5, <1>8
<1>11. \A c \in Accounts \ {a} : \A f \in FoldersOf(c, folder) :
           f \in DOMAIN folder' /\ folder'[f] = folder[f]
  BY <1>3, <1>5, <1>8 DEF FoldersOf
<1>12. FoldersOf(a, folder') \in SUBSET Nat
  BY <1>9 DEF FoldersOf, Table
<1>13. PICK todo \in SUBSET Nat : todo = FoldersOf(a, folder')
  BY <1>12
<1>14. worker' = [worker EXCEPT ![a] = NextFolder(todo)] /\ worker \in [Accounts -> Working]
  BY <1>1, <1>4, <1>13 DEF Typed
<1>15. /\ worker' \in [Accounts -> Working]
       /\ \A c \in Accounts : worker'[c] = IF c = a THEN NextFolder(todo) ELSE worker[c]
  BY <1>14, NextFolderIs
<1>16. Homes'
  <2>1. Home(a, worker[a])'
    BY <1>1, <1>13, <1>15, NextFolderIs DEF Home, FoldersOf, FetchPcs
  <2>2. ASSUME NEW c \in Accounts \ {a} PROVE Home(c, worker[c])'
    <3>1. Home(c, worker[c]) /\ worker'[c] = worker[c]
      BY <1>4, <1>15 DEF Homes
    <3>2. FoldersOf(c, folder) \subseteq FoldersOf(c, folder)'
      BY <1>1, <1>11 DEF FoldersOf
    <3>3. QED BY <3>1, <3>2 DEF Home
  <2>3. QED BY <2>1, <2>2 DEF Homes
<1>17. ASSUME NEW c \in Accounts, worker[c].pc \in FetchPcs \/ worker'[c].pc \in FetchPcs
       PROVE  worker'[c] = worker[c] /\ folder'[worker[c].folder] = folder[worker[c].folder]
  <2>1. c # a /\ worker'[c] = worker[c]
    BY <1>1, <1>15, <1>17, NextFolderIs DEF FetchPcs
  <2>2. worker[c].folder \in FoldersOf(c, folder)
    BY <1>4, <1>17, <2>1 DEF Homes, Home
  <2>3. QED BY <1>11, <2>1, <2>2
<1>18. QED BY <1>1, <1>9, <1>10, <1>15, <1>16, <1>17, RowsLeave

-----------------------------------------------------------------------------
(* The envelopes that a synchronisation stores.                            *)

(* upsert_messages leaves the other rows alone; a row of one of the UIDs   *)
(* has the mailbox's mail, its id if it had one, and its attachments and   *)
(* the words of its body with it.                                          *)
Untouched(tables, r, f, uids, i) ==
    /\ i \in DOMAIN tables.message /\ r.message[i] = tables.message[i]
    /\ ~(r.message[i].folder = f /\ r.message[i].uid \in uids)
    /\ i \in DOMAIN tables.index => i \in DOMAIN r.index /\ r.index[i] = tables.index[i]
Stored(tables, r, f, box, u, i) ==
    /\ r.message[i].folder = f /\ r.message[i].uid = u /\ r.message[i].mail = box.at[u]
    /\ r.message[i].body = "none"
    /\ r.message[i] = [folder |-> f, uid |-> u, mail |-> box.at[u], body |-> "none",
                       parts |-> IF i \in DOMAIN tables.message THEN tables.message[i].parts
                                 ELSE None,
                       thread |-> 0]
    /\ i \in DOMAIN r.index
    /\ r.index[i] = [subject |-> box.at[u],
                     body |-> IF i \in DOMAIN tables.index THEN tables.index[i].body ELSE None]
    /\ i \in DOMAIN tables.message =>
           tables.message[i].folder = f /\ tables.message[i].uid = u

LEMMA UpsertedIs ==
    ASSUME NEW tables, Table(tables.message), Apart(tables.message),
           NEW f, NEW box, NEW uids \in SUBSET Uids,
           NEW r, r = Upserted(tables, f, box, uids)
    PROVE  /\ Table(r.message) /\ Apart(r.message)
           /\ DOMAIN tables.message \subseteq DOMAIN r.message
           /\ DOMAIN r.index \subseteq DOMAIN tables.index \cup DOMAIN r.message
           /\ \A i \in DOMAIN r.index :
                  \/ i \in DOMAIN tables.index /\ r.index[i] = tables.index[i]
                  \/ \E u \in uids : Stored(tables, r, f, box, u, i)
           /\ \A i \in DOMAIN r.message :
                  \/ Untouched(tables, r, f, uids, i)
                  \/ \E u \in uids : Stored(tables, r, f, box, u, i)
<1> DEFINE t == tables.message
           x == tables.index
           id(u) == RowId(t, f, uids, u)
           ids == {id(u) : u \in uids}
           Uid(i) == CHOOSE u \in uids : id(u) = i
           Row(i) == [Envelope(f, Uid(i), box.at[Uid(i)]) EXCEPT
                         !.parts = IF i \in DOMAIN t THEN t[i].parts ELSE None]
           Words(i) == [subject |-> box.at[Uid(i)],
                        body |-> IF i \in DOMAIN x THEN x[i].body ELSE None]
<1>1. r = [message |-> [i \in DOMAIN t \cup ids |-> IF i \in ids THEN Row(i) ELSE t[i]],
           index |-> [i \in DOMAIN x \cup ids |-> IF i \in ids THEN Words(i) ELSE x[i]]]
  BY DEF Upserted
<1>2. /\ \A u \in uids : IF RowsOf(t, f, u) = {}
                         THEN id(u) \in Nat \ {0} /\ id(u) \notin DOMAIN t
                         ELSE id(u) \in RowsOf(t, f, u)
      /\ \A u, v \in uids : id(u) = id(v) => u = v
      /\ \E n \in Nat : \A u \in uids : id(u) <= n
  BY RowIds
<1> HIDE DEF id
<1>3. /\ DOMAIN r.message = DOMAIN t \cup ids /\ DOMAIN r.index = DOMAIN x \cup ids
      /\ \A i \in ids : r.message[i] = Row(i) /\ r.index[i] = Words(i)
      /\ \A i \in DOMAIN t \ ids : r.message[i] = t[i]
      /\ \A i \in DOMAIN x \ ids : r.index[i] = x[i]
  BY <1>1
<1>4. \A u \in uids : Uid(id(u)) = u
  BY <1>2
<1>5. ASSUME NEW u \in uids PROVE Stored(tables, r, f, box, u, id(u))
  <2>1. id(u) \in ids /\ Uid(id(u)) = u
    BY <1>4
  <2>2. r.message[id(u)] = Row(id(u)) /\ r.index[id(u)] = Words(id(u)) /\ id(u) \in DOMAIN r.index
    BY <1>3, <2>1
  <2>3. Row(id(u)) = [folder |-> f, uid |-> u, mail |-> box.at[u], body |-> "none",
                      parts |-> IF id(u) \in DOMAIN t THEN t[id(u)].parts ELSE None,
                      thread |-> 0]
    <3>1. \A p, mail : [Envelope(f, u, mail) EXCEPT !.parts = p]
                          = [folder |-> f, uid |-> u, mail |-> mail, body |-> "none",
                             parts |-> p, thread |-> 0]
      BY DEF Envelope
    <3>2. Row(id(u)) = [Envelope(f, u, box.at[u]) EXCEPT
                           !.parts = IF id(u) \in DOMAIN t THEN t[id(u)].parts ELSE None]
      BY <2>1
    <3>3. QED BY <3>1, <3>2
  <2>4. id(u) \in DOMAIN t => t[id(u)].folder = f /\ t[id(u)].uid = u
    BY <1>2 DEF RowsOf
  <2> HIDE DEF Row, ids, Uid
  <2>5. QED BY <2>1, <2>2, <2>3, <2>4 DEF Stored
<1>6. \A i \in ids : \E u \in uids : i = id(u) /\ Stored(tables, r, f, box, u, i)
  BY <1>5
<1>7. \A i \in DOMAIN t \ ids : Untouched(tables, r, f, uids, i)
  <2>1. SUFFICES ASSUME NEW i \in DOMAIN t \ ids, t[i].folder = f, t[i].uid \in uids
                 PROVE  FALSE
    BY <1>3 DEF Untouched
  <2>2. i \in RowsOf(t, f, t[i].uid)
    BY <2>1 DEF RowsOf
  <2>3. id(t[i].uid) \in RowsOf(t, f, t[i].uid)
    BY <1>2, <2>1, <2>2
  <2>4. id(t[i].uid) = i
    BY <2>1, <2>3 DEF RowsOf, Apart
  <2>5. QED BY <2>1, <2>4
<1>8. Table(r.message)
  <2>1. PICK n \in Nat : \A u \in uids : id(u) <= n
    BY <1>2
  <2>2. PICK m \in Nat : \A i \in DOMAIN t : i <= m
    BY DEF Table
  <2>3. DOMAIN t \subseteq Nat \ {0} /\ \A u \in uids : id(u) \in Nat \ {0}
    BY <1>2 DEF Table, RowsOf
  <2>4. \A i \in DOMAIN r.message : i \in Nat \ {0} /\ (i <= m \/ i <= n)
    BY <1>3, <2>1, <2>2, <2>3
  <2>5. \A i \in DOMAIN r.message : i <= n + m
    BY <2>4
  <2>6. n + m \in Nat
    OBVIOUS
  <2>7. QED BY <2>4, <2>5, <2>6 DEF Table
<1> HIDE DEF ids, Row, Words, Uid
<1>9. Apart(r.message)
  <2>1. SUFFICES ASSUME NEW i \in DOMAIN r.message, NEW j \in DOMAIN r.message,
                        r.message[i].folder = r.message[j].folder,
                        r.message[i].uid = r.message[j].uid
                 PROVE  i = j
    BY DEF Apart
  <2>2. \A k \in ids : \E u \in uids :
            k = id(u) /\ r.message[k].folder = f /\ r.message[k].uid = u
    BY <1>6 DEF Stored
  <2>3. \A k \in DOMAIN t \ ids :
            r.message[k] = t[k] /\ ~(r.message[k].folder = f /\ r.message[k].uid \in uids)
    BY <1>7 DEF Untouched
  <2>4. CASE i \in ids /\ j \in ids
    BY <2>1, <2>2, <2>4
  <2>5. CASE i \in ids /\ j \notin ids
    BY <1>3, <2>1, <2>2, <2>3, <2>5
  <2>6. CASE i \notin ids /\ j \in ids
    BY <1>3, <2>1, <2>2, <2>3, <2>6
  <2>7. CASE i \notin ids /\ j \notin ids
    BY <1>3, <2>1, <2>3, <2>7 DEF Apart
  <2>8. QED BY <2>4, <2>5, <2>6, <2>7
<1>10. \A i \in DOMAIN r.message : \/ Untouched(tables, r, f, uids, i)
                                   \/ \E u \in uids : Stored(tables, r, f, box, u, i)
  BY <1>3, <1>6, <1>7
<1>11. \A i \in DOMAIN r.index : \/ i \in DOMAIN x /\ r.index[i] = x[i]
                                 \/ \E u \in uids : Stored(tables, r, f, box, u, i)
  BY <1>3, <1>6
<1>12. QED BY <1>3, <1>8, <1>9, <1>10, <1>11

(* Rows that differ in their conversation at most.                         *)
Alike(m, n) == m \in [folder : {n.folder}, uid : {n.uid}, mail : {n.mail}, body : {n.body},
                      parts : {n.parts}, thread : {m.thread}]

(* What a synchronisation of folder f leaves: rows that were there, and    *)
(* rows of mail that the mailbox holds.                                    *)
Kept(f, i) ==
    /\ i \in DOMAIN message /\ Alike(message'[i], message[i])
    /\ message[i].folder = f => Fresh(f)
    /\ i \in DOMAIN index => i \in DOMAIN index' /\ index'[i] = index[i]
New(f, u, i) ==
    LET mail == mailbox[folder[f].box].at[u] IN
    /\ u \in Uids /\ mail # None
    /\ message'[i].folder = f /\ message'[i].uid = u /\ message'[i].mail = mail
    /\ message'[i].body = "none" /\ message'[i] \in MessageRow(message'[i])
    /\ i \in DOMAIN index' /\ index'[i].subject = mail
    /\ index'[i].body \in Mails \cup {None}
    /\ i \notin stray' => index'[i].body \in {None, mail}

LEMMA FolderStored ==
    ASSUME Inv, NEW f \in DOMAIN folder, NEW flagged \in SUBSET Uids,
           NEW fetched, fetched = Fetched(f, mailbox[folder[f].box], flagged),
           Stores(f, fetched),
           DOMAIN message' = DOMAIN fetched.tables.message,
           \A i \in DOMAIN message' :
               fetched.tables.message[i] \in MessageRow(fetched.tables.message[i])
                   => Alike(message'[i], fetched.tables.message[i])
    PROVE  /\ Table(message')
           /\ \A i, j \in DOMAIN message' :
                  message'[i].folder = message'[j].folder /\ message'[i].uid = message'[j].uid
                      => i = j
           /\ \A i \in DOMAIN message' :
                  /\ Kept(f, i) \/ \E u \in Uids : New(f, u, i)
                  /\ Kept(f, i) /\ i \notin stray' => i \notin stray
           /\ \A i \in DOMAIN index' : index'[i] \in IndexRow
           /\ DOMAIN index' \subseteq DOMAIN message' \cup stray'
<1> DEFINE box == mailbox[folder[f].box]
           gone == IF Stale(f, box) THEN Rows(f, Uids) ELSE {}
           known == IF Stale(f, box) THEN {} ELSE UidsOf(f)
           present == {u \in Uids : box.at[u] # None}
           changed == (present \ known) \cup (flagged \cap known \cap present)
           t == Without(message, gone)
           x == Without(index, gone)
           r == Upserted(Cleared(gone), f, box, changed)
<1>1. /\ fetched.tables = r /\ fetched.gone = gone
      /\ Cleared(gone).message = t /\ Cleared(gone).index = x
  BY DEF Fetched, Cleared
<1>2. index' = r.index /\ stray' = stray \ gone
  BY <1>1 DEF Stores
<1>3. DOMAIN message' = DOMAIN r.message
      /\ \A i \in DOMAIN message' : r.message[i] \in MessageRow(r.message[i])
                                       => Alike(message'[i], r.message[i])
  BY <1>1
<1>4. changed \in SUBSET Uids /\ \A u \in changed : box.at[u] # None
  OBVIOUS
<1>5. /\ DOMAIN t = DOMAIN message \ gone /\ \A i \in DOMAIN t : t[i] = message[i]
      /\ DOMAIN x = DOMAIN index \ gone /\ \A i \in DOMAIN x : x[i] = index[i]
  BY DEF Without, Restrict
<1>6. /\ Typed /\ Lives /\ Indexed /\ OneRowEach
  BY DEF Inv
<1>7. gone # {} => gone = Rows(f, Uids) /\ Stale(f, box)
  OBVIOUS
<1>8. \A i \in DOMAIN message \ gone : message[i].folder = f => Fresh(f)
  <2>1. SUFFICES ASSUME NEW i \in DOMAIN message \ gone, message[i].folder = f PROVE Fresh(f)
    OBVIOUS
  <2>2. message[i].uid \in Uids /\ folder[f].validity # 0
    BY <1>6, <2>1 DEF Typed, MessageRow, Lives
  <2>3. ~Stale(f, box)
    BY <2>1, <2>2 DEF Rows
  <2>4. QED BY <2>2, <2>3 DEF Stale, Fresh
<1> HIDE DEF gone, known, present, changed, t, x, r
<1>9. Table(t) /\ Apart(t)
  BY <1>5, <1>6 DEF Typed, Table, OneRowEach, Apart
<1> DEFINE tables == Cleared(gone)
<1>10. /\ Table(r.message) /\ Apart(r.message)
       /\ DOMAIN r.index \subseteq DOMAIN x \cup DOMAIN r.message
       /\ \A i \in DOMAIN r.index : \/ i \in DOMAIN x /\ r.index[i] = x[i]
                                    \/ \E u \in changed : Stored(tables, r, f, box, u, i)
       /\ \A i \in DOMAIN r.message : \/ Untouched(tables, r, f, changed, i)
                                      \/ \E u \in changed : Stored(tables, r, f, box, u, i)
  <2>1. Table(tables.message) /\ Apart(tables.message) /\ r = Upserted(tables, f, box, changed)
    BY <1>1, <1>9 DEF r
  <2> HIDE DEF tables, box
  <2>2. QED BY <1>1, <1>4, <2>1, UpsertedIs DEF tables
<1>11. box \in Boxed /\ box.at \in [Uids -> Mails \cup {None}]
  BY <1>6 DEF Typed, FolderRow, Boxed
<1>12. ASSUME NEW i \in DOMAIN message', Untouched(tables, r, f, changed, i)
       PROVE  Kept(f, i) /\ r.message[i] = message[i] /\ (i \notin stray' => i \notin stray)
  <2>1. /\ i \in DOMAIN message \ gone /\ r.message[i] = message[i]
        /\ i \in DOMAIN x => i \in DOMAIN r.index /\ r.index[i] = x[i]
    BY <1>1, <1>5, <1>12 DEF Untouched
  <2>2. message[i] \in MessageRow(message[i])
    BY <1>6, <2>1 DEF Typed
  <2>3. Alike(message'[i], message[i])
    BY <1>3, <2>1, <2>2
  <2>4. i \in DOMAIN index => i \in DOMAIN index' /\ index'[i] = index[i]
    BY <1>2, <1>5, <2>1
  <2>5. QED BY <1>2, <1>8, <2>1, <2>3, <2>4 DEF Kept
<1>13. ASSUME NEW i, NEW u \in changed, Stored(tables, r, f, box, u, i)
       PROVE  /\ r.index[i] \in IndexRow
              /\ i \in DOMAIN message' =>
                     /\ New(f, u, i) /\ r.message[i].folder = f /\ r.message[i].uid = u
                     /\ message'[i].folder = f /\ message'[i].uid = u
  <2>1. PICK mail \in Mails : mail = box.at[u] /\ mail # None
    BY <1>4, <1>11
  <2> DEFINE p == IF i \in DOMAIN t THEN t[i].parts ELSE None
             words == IF i \in DOMAIN x THEN x[i].body ELSE None
  <2>2. /\ r.message[i] = [folder |-> f, uid |-> u, mail |-> mail, body |-> "none",
                           parts |-> p, thread |-> 0]
        /\ r.index[i] = [subject |-> mail, body |-> words]
        /\ i \in DOMAIN r.index
        /\ i \in DOMAIN t => p = t[i].parts /\ t[i].folder = f /\ t[i].uid = u
        /\ i \notin DOMAIN t => p = None
        /\ i \in DOMAIN x => words = x[i].body
        /\ i \notin DOMAIN x => words = None
    BY <1>1, <1>13, <2>1 DEF Stored
  <2> HIDE DEF p, words
  <2>3. f \in Nat /\ u \in Uids
    BY <1>4, <1>6 DEF Typed, Table
  <2>4. p \in Mails \cup {None}
    <3>1. \A j \in DOMAIN message : message[j].parts \in Mails \cup {None}
      BY <1>6 DEF Typed, MessageRow
    <3>2. CASE i \in DOMAIN t
      BY <1>5, <3>1, <3>2 DEF p
    <3>3. CASE i \notin DOMAIN t
      BY <3>3 DEF p
    <3>4. QED BY <3>2, <3>3
  <2>5. r.message[i] \in MessageRow(r.message[i])
    <3>1. PICK row \in [folder : Nat, uid : Uids, mail : Mails, body : {"none", "full"},
                        parts : Mails \cup {None}, thread : {0}] :
              row = [folder |-> f, uid |-> u, mail |-> mail, body |-> "none",
                     parts |-> p, thread |-> 0]
      BY <2>3, <2>4
    <3>2. row \in MessageRow(row)
      BY DEF MessageRow
    <3>3. r.message[i] = row
      BY <2>2, <3>1
    <3>4. QED BY <3>2, <3>3
  <2>6. words \in Mails \cup {None}
    BY <1>5, <1>6, <2>2 DEF Typed, IndexRow
  <2>7. r.index[i] \in IndexRow
    BY SMTT(30), <2>2, <2>6 DEF IndexRow
  <2>8. i \in DOMAIN x /\ i \notin stray' => words \in {None, mail}
    <3>1. SUFFICES ASSUME i \in DOMAIN x, i \notin stray'
                   PROVE  words \in {None, mail}
      OBVIOUS
    <3>2. i \in DOMAIN message \ stray /\ i \notin gone
      BY <1>2, <1>5, <1>6, <3>1 DEF Indexed
    <3>3. message[i].folder = f /\ message[i].uid = u /\ Fresh(f)
      BY <1>5, <1>8, <2>2, <3>2
    <3>4. box.at[u] \in {None, message[i].mail}
      BY <1>6, <3>2, <3>3 DEF Lives, Had
    <3>5. index[i].body \in {None, message[i].mail}
      BY <1>6, <3>2, <3>3 DEF Indexed, IndexIsOwn, Current, Fresh
    <3>6. QED BY <1>5, <2>1, <2>2, <3>1, <3>4, <3>5
  <2>9. ASSUME i \in DOMAIN message' PROVE New(f, u, i) /\ message'[i].folder = f /\ message'[i].uid = u
    <3>1. Alike(message'[i], r.message[i])
      BY <1>3, <2>5, <2>9
    <3>2. message'[i] \in MessageRow(message'[i])
      BY <2>5, <3>1 DEF Alike, MessageRow
    <3>3. /\ r.message[i].folder = f /\ r.message[i].uid = u /\ r.message[i].mail = mail
          /\ r.message[i].body = "none"
      BY <2>2
    <3>4. /\ message'[i].folder = f /\ message'[i].uid = u /\ message'[i].mail = mail
          /\ message'[i].body = "none"
      BY <3>1, <3>3 DEF Alike
    <3>5. index'[i] = r.index[i] /\ i \in DOMAIN index'
      BY <1>2, <2>2
    <3>6. index'[i].subject = mail /\ index'[i].body = words
      BY <2>2, <3>5
    <3>7. i \notin stray' => words \in {None, mail}
      BY <2>2, <2>8
    <3>8. QED BY <2>1, <2>3, <2>6, <3>2, <3>4, <3>5, <3>6, <3>7 DEF New
  <2>10. r.message[i].folder = f /\ r.message[i].uid = u
    BY <2>2
  <2>11. QED BY <2>7, <2>9, <2>10
<1>14. Table(message')
  BY <1>3, <1>10 DEF Table
<1>15. ASSUME NEW i \in DOMAIN message'
       PROVE  message'[i].folder = r.message[i].folder /\ message'[i].uid = r.message[i].uid
  <2>1. CASE Untouched(tables, r, f, changed, i)
    BY <1>12, <2>1 DEF Kept, Alike
  <2>2. CASE \E u \in changed : Stored(tables, r, f, box, u, i)
    BY <1>13, <2>2
  <2>3. QED BY <1>3, <1>10, <2>1, <2>2
<1>16. \A i, j \in DOMAIN message' :
           message'[i].folder = message'[j].folder /\ message'[i].uid = message'[j].uid => i = j
  BY <1>3, <1>10, <1>15 DEF Apart
<1>17. ASSUME NEW i \in DOMAIN message'
       PROVE  /\ Kept(f, i) \/ \E u \in Uids : New(f, u, i)
              /\ Kept(f, i) /\ i \notin stray' => i \notin stray
  <2>1. CASE Untouched(tables, r, f, changed, i)
    BY <1>12, <2>1
  <2>2. CASE \E u \in changed : Stored(tables, r, f, box, u, i)
    <3>1. \E u \in Uids : New(f, u, i)
      BY <1>4, <1>13, <2>2
    <3>2. Kept(f, i) => i \notin gone
      BY <1>7 DEF Kept, Stale, Fresh, Rows
    <3>3. QED BY <1>2, <3>1, <3>2
  <2>3. QED BY <1>3, <1>10, <2>1, <2>2
<1>18. \A i \in DOMAIN index' : index'[i] \in IndexRow
  BY <1>2, <1>5, <1>6, <1>10, <1>13 DEF Typed
<1>19. DOMAIN index' \subseteq DOMAIN message' \cup stray'
  <2>1. DOMAIN x \subseteq DOMAIN t \cup stray'
    BY <1>2, <1>5, <1>6 DEF Indexed
  <2>2. DOMAIN t \subseteq DOMAIN r.message
    BY <1>1, <1>4, <1>9, UpsertedIs DEF r
  <2>3. QED BY <1>2, <1>3, <1>10, <2>1, <2>2
<1>20. QED BY <1>14, <1>16, <1>17, <1>18, <1>19

LEMMA FolderSynced ==
    ASSUME Inv, NEW a \in Accounts, NEW f \in worker[a].todo, NEW flagged \in SUBSET Uids,
           NEW fetched, fetched = Fetched(f, mailbox[folder[f].box], flagged),
           worker[a].pc = "folders",
           Stores(f, fetched),
           DOMAIN message' = DOMAIN fetched.tables.message,
           \A i \in DOMAIN message' :
               fetched.tables.message[i] \in MessageRow(fetched.tables.message[i])
                   => Alike(message'[i], fetched.tables.message[i]),
           worker' \in [Accounts -> Working], Homes',
           \A c \in Accounts : worker'[c].pc \in FetchPcs => worker'[c] = worker[c],
           cut \subseteq cut',
           \A c \in Accounts, i \in DOMAIN message :
               Fetching(c, i) => worker'[c] = worker[c] \/ i \in cut'
    PROVE  Inv'
<1>1. /\ Typed /\ Homes /\ OneRowEach /\ Lives /\ Bodies /\ Indexed /\ Completed /\ Fetches
  BY DEF Inv
<1>2. f \in FoldersOf(a, folder) /\ f \in DOMAIN folder
  BY <1>1 DEF Homes, Home, FoldersOf
<1>3. /\ Table(message')
      /\ \A i, j \in DOMAIN message' :
             message'[i].folder = message'[j].folder /\ message'[i].uid = message'[j].uid => i = j
      /\ \A i \in DOMAIN message' :
             /\ Kept(f, i) \/ \E u \in Uids : New(f, u, i)
             /\ Kept(f, i) /\ i \notin stray' => i \notin stray
      /\ \A i \in DOMAIN index' : index'[i] \in IndexRow
      /\ DOMAIN index' \subseteq DOMAIN message' \cup stray'
  BY <1>2, FolderStored
<1>4. UNCHANGED <<owner, mailbox, files>>
      /\ folder' = [folder EXCEPT ![f].validity = mailbox[folder[f].box].validity]
  BY DEF Stores
<1> DEFINE box == mailbox[folder[f].box]
<1>5. folder[f] \in FolderRow /\ box \in Boxed
  BY <1>1, <1>2 DEF Typed, FolderRow
<1>6. /\ DOMAIN folder' = DOMAIN folder
      /\ folder'[f].box = folder[f].box /\ folder'[f].validity = box.validity
      /\ folder'[f] \in FolderRow
      /\ \A g \in DOMAIN folder : g # f => folder'[g] = folder[g]
      /\ \A g \in DOMAIN folder : folder'[g].box = folder[g].box
  BY <1>2, <1>4, <1>5 DEF FolderRow, Boxed
<1>7. /\ Fresh(f)' /\ \A g \in DOMAIN folder \ {f} : Fresh(g)' <=> Fresh(g)
      /\ \A g \in DOMAIN folder, u \in Uids, mail \in Mails : Had(g, u, mail)' <=> Had(g, u, mail)
  BY <1>4, <1>6 DEF Fresh, Had
<1>8. \A i \in DOMAIN message : /\ message[i] \in MessageRow(message[i])
                                /\ message[i].folder \in DOMAIN folder /\ message[i].uid \in Uids
                                /\ message[i].mail \in Mails
  BY <1>1 DEF Typed, MessageRow
<1>9. ASSUME NEW i, Kept(f, i)
      PROVE  /\ message'[i].folder = message[i].folder /\ message'[i].uid = message[i].uid
             /\ message'[i].mail = message[i].mail /\ message'[i].body = message[i].body
             /\ message'[i].parts = message[i].parts
             /\ message'[i] \in MessageRow(message'[i])
             /\ Fresh(message[i].folder)' <=> Fresh(message[i].folder)
  BY <1>7, <1>8, <1>9 DEF Kept, Alike, MessageRow
<1>10. ASSUME NEW i, NEW u \in Uids, New(f, u, i)
       PROVE  /\ message'[i].folder = f /\ message'[i].uid = u /\ message'[i].mail = box.at[u]
              /\ box.at[u] # None /\ message'[i].body = "none"
              /\ message'[i] \in MessageRow(message'[i])
  BY <1>10 DEF New
<1> HIDE DEF box
<1>11. Typed'
  <2>1. \A i \in DOMAIN message' :
            message'[i] \in MessageRow(message'[i]) /\ message'[i].folder \in DOMAIN folder'
    <3>1. SUFFICES ASSUME NEW i \in DOMAIN message'
                   PROVE  message'[i] \in MessageRow(message'[i])
                              /\ message'[i].folder \in DOMAIN folder'
      OBVIOUS
    <3>2. CASE Kept(f, i)
      BY <1>6, <1>8, <1>9, <3>2 DEF Kept
    <3>3. CASE \E u \in Uids : New(f, u, i)
      BY <1>2, <1>6, <1>10, <3>3
    <3>4. QED BY <1>3, <3>2, <3>3
  <2>2. Table(folder') /\ \A g \in DOMAIN folder' : folder'[g] \in FolderRow
    BY <1>1, <1>6 DEF Typed, Table
  <2>3. QED BY <1>1, <1>3, <1>4, <2>1, <2>2 DEF Typed, MessageRow
<1>12. OneRowEach'
  BY <1>1, <1>3, <1>6 DEF OneRowEach
<1>13. Lives'
  <2>1. \A g \in DOMAIN folder : folder'[g].validity <= mailbox[folder'[g].box].validity
    <3>1. box.validity \in Nat
      BY <1>5 DEF Boxed
    <3>2. folder'[f].validity = box.validity /\ mailbox[folder'[f].box] = box
      BY <1>6 DEF box
    <3>3. box.validity <= box.validity
      BY <3>1, NotMore
    <3>4. \A g \in DOMAIN folder \ {f} : folder'[g].validity <= mailbox[folder'[g].box].validity
      BY <1>1, <1>6 DEF Lives
    <3>5. QED BY <1>6, <3>2, <3>3, <3>4
  <2>2. ASSUME NEW i \in DOMAIN message'
        PROVE  \E g \in DOMAIN folder, u \in Uids, mail \in Mails :
                   /\ message'[i].folder = g /\ message'[i].uid = u /\ message'[i].mail = mail
                   /\ folder'[g].validity # 0 /\ (Fresh(g)' => Had(g, u, mail)')
    <3>1. CASE Kept(f, i)
      <4>1. i \in DOMAIN message
        BY <3>1 DEF Kept
      <4>2. PICK g \in DOMAIN folder, u \in Uids, mail \in Mails :
                message[i].folder = g /\ message[i].uid = u /\ message[i].mail = mail
        BY <1>8, <4>1
      <4>3. folder[g].validity # 0 /\ (Fresh(g) => Had(g, u, mail))
        BY <1>1, <4>1, <4>2 DEF Lives
      <4>4. g = f => Fresh(f)
        BY <3>1, <4>2 DEF Kept
      <4>5. folder'[g].validity # 0 /\ (Fresh(g)' => Had(g, u, mail)')
        BY <1>2, <1>5, <1>6, <1>7, <4>2, <4>3, <4>4 DEF Boxed
      <4>6. QED BY <1>9, <3>1, <4>2, <4>5
    <3>2. ASSUME NEW u \in Uids, New(f, u, i)
          PROVE  /\ message'[i].folder = f /\ message'[i].uid = u /\ message'[i].mail \in Mails
                 /\ folder'[f].validity # 0 /\ u < box.next
      <4>1. u < box.next /\ box.at[u] # None
        BY <1>1, <1>5, <1>10, <3>2 DEF Lives, FolderRow, box
      <4>2. box.validity # 0 /\ box.at[u] \in Mails
        BY <1>5, <4>1 DEF Boxed
      <4>3. QED BY <1>6, <1>10, <3>2, <4>1, <4>2
    <3>3. CASE \E u \in Uids : New(f, u, i)
      <4>1. PICK u \in Uids : New(f, u, i)
        BY <3>3
      <4>2. PICK mail \in Mails : message'[i].mail = mail /\ mail = box.at[u]
        BY <1>10, <3>2, <4>1
      <4>3. Had(f, u, mail)'
        BY <1>4, <1>6, <3>2, <4>1, <4>2 DEF Had, box
      <4>4. QED BY <1>2, <3>2, <4>1, <4>2, <4>3
    <3>4. QED BY <1>3, <3>1, <3>3
  <2>3. \A b \in Boxes, u \in Uids : mailbox'[b].at[u] # None => u < mailbox'[b].next
    BY <1>1, <1>4 DEF Lives
  <2>4. ASSUME NEW i \in DOMAIN message'
        PROVE  LET now == mailbox'[folder'[message'[i].folder].box] IN
               /\ folder'[message'[i].folder].validity # 0
               /\ folder'[message'[i].folder].validity = now.validity
                      => /\ message'[i].uid < now.next
                         /\ now.at[message'[i].uid] \in {None, message'[i].mail}
    BY <2>2 DEF Fresh, Had
  <2>5. QED BY <1>4, <1>6, <2>1, <2>3, <2>4 DEF Lives, Fresh, Had
<1>14. Bodies'
  <2>1. SUFFICES ASSUME NEW i \in DOMAIN message', message'[i].body = "full",
                        folder'[message'[i].folder].validity
                            = mailbox[folder'[message'[i].folder].box].validity
                 PROVE  Filed(message[i].folder, message[i].uid, message[i].mail)'
    BY <1>4 DEF Bodies, Fresh
  <2>2. Kept(f, i) /\ i \in DOMAIN message
    BY <1>3, <1>10, <2>1 DEF Kept
  <2>3. Fresh(message[i].folder)
    BY <1>4, <1>9, <2>1, <2>2 DEF Fresh
  <2>4. QED BY <1>1, <1>4, <1>9, <2>1, <2>2, <2>3 DEF Bodies, Filed
<1>15. Indexed'
  <2>1. ASSUME NEW i \in DOMAIN message', i \notin stray'
        PROVE  /\ i \in DOMAIN index' /\ index'[i].subject = message'[i].mail
               /\ Current(i)' => index'[i].body \in {None, message'[i].mail}
    <3>1. CASE Kept(f, i)
      <4>1. i \in DOMAIN message \ stray
        BY <1>3, <2>1, <3>1 DEF Kept
      <4>2. /\ i \in DOMAIN index /\ index[i].subject = message[i].mail
            /\ Fresh(message[i].folder) => index[i].body \in {None, message[i].mail}
        BY <1>1, <4>1 DEF Indexed, IndexIsOwn, Current, Fresh
      <4>3. Current(i)' => Fresh(message[i].folder)
        BY <1>4, <1>9, <3>1 DEF Current, Fresh
      <4>4. i \in DOMAIN index' /\ index'[i] = index[i]
        BY <3>1, <4>2 DEF Kept
      <4>5. QED BY <1>9, <3>1, <4>2, <4>3, <4>4
    <3>2. CASE \E u \in Uids : New(f, u, i)
      BY <2>1, <3>2 DEF New
    <3>3. QED BY <1>3, <3>1, <3>2
  <2>2. QED BY <1>3, <2>1 DEF Indexed, IndexIsOwn
<1>16. Completed'
  <2>1. SUFFICES ASSUME NEW i \in DOMAIN message', i \notin stray', i \notin cut',
                        message'[i].body = "full",
                        folder'[message'[i].folder].validity
                            = mailbox[folder'[message'[i].folder].box].validity,
                        \A c \in Accounts : ~Fetching(c, i)'
                 PROVE  message'[i].parts = message'[i].mail /\ index'[i].body = message'[i].mail
    BY <1>4 DEF Completed, Fresh
  <2>2. Kept(f, i)
    BY <1>3, <1>10, <2>1
  <2>3. i \in DOMAIN message \ (stray \cup cut)
    BY <1>3, <2>1, <2>2 DEF Kept
  <2>4. Fresh(message[i].folder) /\ message[i].body = "full"
    BY <1>4, <1>9, <2>1, <2>2 DEF Fresh
  <2>5. \A c \in Accounts : ~Fetching(c, i)
    <3>1. SUFFICES ASSUME NEW c \in Accounts, Fetching(c, i) PROVE Fetching(c, i)'
      BY <2>1
    <3>2. worker'[c] = worker[c]
      BY <2>1, <2>3, <3>1
    <3>3. /\ worker[c].pc \in {"attachments", "words"} /\ worker[c].row = i
          /\ message[i].folder = worker[c].folder /\ message[i].uid = worker[c].uid
      BY <3>1 DEF Fetching, SameRow, Rows
    <3>4. message'[i].folder = worker[c].folder /\ message'[i].uid = worker[c].uid
      BY <1>9, <2>2, <3>3
    <3>5. QED BY <2>1, <3>2, <3>3, <3>4 DEF Fetching, SameRow, Rows
  <2>6. message[i].parts = message[i].mail /\ index[i].body = message[i].mail
    BY <1>1, <2>3, <2>4, <2>5 DEF Completed
  <2>7. i \in DOMAIN index
    BY <1>1, <2>3 DEF Indexed, IndexIsOwn
  <2>8. QED BY <1>9, <2>2, <2>6, <2>7 DEF Kept
<1>17. Fetches'
  <2>1. SUFFICES ASSUME NEW c \in Accounts, worker'[c].pc \in FetchPcs
                 PROVE  Holds(worker[c])'
    BY DEF Fetches
  <2>2. worker'[c] = worker[c] /\ Holds(worker[c])
    BY <1>1, <2>1 DEF Fetches
  <2>3. worker[c].folder \in FoldersOf(c, folder) /\ c # a
    BY <1>1, <2>1, <2>2 DEF Homes, Home, FetchPcs
  <2>4. worker[c].folder \in DOMAIN folder \ {f}
    BY <1>2, <2>3 DEF FoldersOf
  <2>5. PICK w : w = worker[c]
    OBVIOUS
  <2>6. \A i \in DOMAIN message' : message'[i].folder = w.folder => Kept(f, i)
    BY <1>3, <1>10, <2>4, <2>5
  <2>7. \A i : Kept(f, i) => i \in DOMAIN message
    BY DEF Kept
  <2>8. w.pc = "body" => Filed(w.folder, w.uid, w.mail)'
    BY <1>4, <2>2, <2>5 DEF Holds, Filed
  <2>9. folder'[w.folder] = folder[w.folder]
    BY <1>6, <2>4, <2>5
  <2>10. Holds(w)'
    BY <1>3, <1>4, <1>9, <2>2, <2>5, <2>6, <2>7, <2>8, <2>9, HoldsStill
  <2>11. QED BY <2>2, <2>5, <2>10
<1>18. QED BY <1>11, <1>12, <1>13, <1>14, <1>15, <1>16, <1>17 DEF Inv

LEMMA RethreadedIs ==
    ASSUME NEW table
    PROVE  /\ DOMAIN Rethreaded(table) = DOMAIN table
           /\ \A i \in DOMAIN table : table[i] \in MessageRow(table[i])
                                         => Alike(Rethreaded(table)[i], table[i])
<1> DEFINE roots == ThreadRoots(ThreadInputs(table))
<1> HIDE DEF roots
<1>1. Rethreaded(table) = [i \in DOMAIN table |-> [table[i] EXCEPT !.thread = roots[i]]]
  BY DEF Rethreaded, roots
<1>2. ASSUME NEW m, m \in MessageRow(m), NEW root PROVE Alike([m EXCEPT !.thread = root], m)
  <2>1. [m EXCEPT !.thread = root].thread = root
    BY <1>2 DEF MessageRow
  <2>2. QED BY <1>2, <2>1 DEF MessageRow, Alike
<1>3. QED BY <1>1, <1>2

LEMMA HomesStay ==
    ASSUME Inv, NEW f \in DOMAIN folder, NEW fetched, Stores(f, fetched)
    PROVE  \A c \in Accounts : FoldersOf(c, folder)' = FoldersOf(c, folder)
<1>1. folder[f] \in FolderRow
  BY DEF Inv, Typed
<1>2. /\ UNCHANGED owner /\ DOMAIN folder' = DOMAIN folder
      /\ \A g \in DOMAIN folder : folder'[g].box = folder[g].box
  BY <1>1 DEF Stores, FolderRow
<1>3. QED BY <1>2 DEF FoldersOf

LEMMA InvSyncFolder ==
    ASSUME Inv, NEW a \in Accounts, NEW f \in DOMAIN folder, SyncFolder(a, f) PROVE Inv'
<1>1. worker[a].pc = "folders" /\ f \in worker[a].todo /\ cut' = cut
  BY DEF SyncFolder
<1>2. PICK flagged \in SUBSET Uids :
          LET fetched == Fetched(f, mailbox[folder[f].box], flagged) IN
          /\ Stores(f, fetched)
          /\ message' = Rethreaded(fetched.tables.message)
          /\ worker' = [worker EXCEPT ![a] = [worker[a] EXCEPT !.pc = "prune", !.folder = f,
                                                 !.vanished = fetched.vanished]]
  BY DEF SyncFolder, Works
<1>3. PICK fetched : fetched = Fetched(f, mailbox[folder[f].box], flagged)
  OBVIOUS
<1>4. /\ Stores(f, fetched)
      /\ message' = Rethreaded(fetched.tables.message)
      /\ worker' = [worker EXCEPT ![a] = [worker[a] EXCEPT !.pc = "prune", !.folder = f,
                                             !.vanished = fetched.vanished]]
  BY <1>2, <1>3
<1>5. /\ DOMAIN message' = DOMAIN fetched.tables.message
      /\ \A i \in DOMAIN message' :
             fetched.tables.message[i] \in MessageRow(fetched.tables.message[i])
                 => Alike(message'[i], fetched.tables.message[i])
  BY <1>4, RethreadedIs
<1>6. worker \in [Accounts -> Working] /\ Homes /\ f \in Nat
  BY DEF Inv, Typed, Table
<1>7. fetched.vanished \in SUBSET Uids
  BY <1>3 DEF Fetched, UidsOf, Rows
<1> DEFINE w == [worker[a] EXCEPT !.pc = "prune", !.folder = f, !.vanished = fetched.vanished]
<1>8. w \in Working /\ w.pc = "prune" /\ w.folder = f /\ w.todo = worker[a].todo
  BY <1>6, <1>7 DEF Working
<1> HIDE DEF w
<1>9. /\ worker' \in [Accounts -> Working]
      /\ \A c \in Accounts : worker'[c] = IF c = a THEN w ELSE worker[c]
  BY <1>4, <1>6, <1>8 DEF w
<1>10. \A c \in Accounts : FoldersOf(c, folder)' = FoldersOf(c, folder)
  BY <1>4, HomesStay
<1>11. Homes'
  <2>1. Home(a, worker[a])'
    BY <1>1, <1>6, <1>8, <1>9, <1>10 DEF Homes, Home, FetchPcs
  <2>2. \A c \in Accounts \ {a} : Home(c, worker[c])'
    BY <1>6, <1>9, <1>10 DEF Homes, Home
  <2>3. QED BY <2>1, <2>2 DEF Homes
<1>12. \A c \in Accounts : worker'[c].pc \in FetchPcs => worker'[c] = worker[c]
  BY <1>8, <1>9 DEF FetchPcs
<1>13. \A c \in Accounts, i \in DOMAIN message : Fetching(c, i) => worker'[c] = worker[c]
  BY <1>1, <1>9 DEF Fetching
<1>14. QED BY <1>1, <1>3, <1>4, <1>5, <1>9, <1>11, <1>12, <1>13, FolderSynced

LEMMA InvCrash == ASSUME Inv, Crash PROVE Inv'
<1>1. worker' = [a \in Accounts |-> AtRest] /\ cut' = cut \cup UNION {Halfway(a) : a \in Accounts}
  BY DEF Crash
<1>2. /\ worker' \in [Accounts -> Working]
      /\ \A a \in Accounts : worker'[a].pc = "idle" /\ worker'[a].todo = {}
  BY <1>1, RestIs
<1>3. ASSUME NEW a \in Accounts, NEW i \in DOMAIN message, Fetching(a, i) PROVE i \in cut'
  BY <1>1, <1>3 DEF Fetching, Halfway
<1>4. CASE UNCHANGED <<owner, mailbox, folder, message, index, files, stray>>
  BY <1>1, <1>2, <1>3, <1>4, WorkersStop
<1>5. ASSUME NEW a \in Accounts, NEW f \in worker[a].todo, NEW flagged \in SUBSET Uids,
             worker[a].pc = "folders",
             Stores(f, Fetched(f, mailbox[folder[f].box], flagged)),
             message' = Fetched(f, mailbox[folder[f].box], flagged).tables.message
      PROVE  Inv'
  <2>1. PICK fetched : fetched = Fetched(f, mailbox[folder[f].box], flagged)
    OBVIOUS
  <2>2. ASSUME NEW m, m \in MessageRow(m) PROVE Alike(m, m)
    BY <2>2 DEF MessageRow, Alike
  <2>3. Stores(f, fetched) /\ message' = fetched.tables.message
    BY <1>5, <2>1
  <2>4. Homes'
    BY <1>2 DEF Homes, Home, FetchPcs
  <2>5. \A c \in Accounts : worker'[c].pc \notin FetchPcs
    BY <1>2 DEF FetchPcs
  <2>6. cut \subseteq cut'
    BY <1>1
  <2>7. \A i \in DOMAIN message' :
            fetched.tables.message[i] \in MessageRow(fetched.tables.message[i])
                => Alike(message'[i], fetched.tables.message[i])
    BY <2>2, <2>3
  <2>8. QED BY <1>2, <1>3, <1>5, <2>1, <2>3, <2>4, <2>5, <2>6, <2>7, FolderSynced
<1>6. QED BY <1>4, <1>5 DEF Crash, store

-----------------------------------------------------------------------------
(* The fetch of a body.                                                    *)

LEMMA InvFetchMessage ==
    ASSUME Inv, NEW a \in Accounts, NEW f \in DOMAIN folder, NEW u \in Uids,
           FetchMessage(a, f, u)
    PROVE  Inv'
<1> DEFINE box == mailbox[folder[f].box]
<1>1. /\ Typed /\ Homes /\ OneRowEach /\ Lives /\ Bodies /\ Indexed /\ Completed /\ Fetches
  BY DEF Inv
<1>2. /\ worker[a].pc = "idle" /\ f \in FoldersOf(a, folder) /\ box.at[u] # None
      /\ UNCHANGED <<owner, mailbox, folder, message, index, stray, cut>>
      /\ files' = Put(files, BodyFile(f, u), worker'[a].mail)
  BY DEF FetchMessage, history
<1>3. PICK i \in Rows(f, {u}) :
          worker' = [worker EXCEPT ![a] = [AtRest EXCEPT !.pc = "body", !.folder = f, !.row = i,
                                              !.uid = u, !.mail = box.at[u]]]
  BY DEF FetchMessage, Works
<1>4. folder[f] \in FolderRow /\ box \in Boxed /\ box.at[u] \in Mails /\ u < box.next
  <2>1. folder[f] \in FolderRow
    BY <1>1 DEF Typed
  <2>2. box \in Boxed
    BY <1>1, <2>1 DEF Typed, FolderRow
  <2>3. QED BY <1>1, <1>2, <2>1, <2>2 DEF Lives, FolderRow, Boxed
<1>5. i \in DOMAIN message /\ message[i].folder = f /\ message[i].uid = u /\ i \in Nat /\ f \in Nat
  BY <1>1 DEF Rows, Typed, Table
<1>6. PICK w \in Working :
          /\ worker' = [worker EXCEPT ![a] = w]
          /\ w.pc = "body" /\ w.todo = {}
          /\ w.folder = f /\ w.row = i /\ w.uid = u /\ w.mail = box.at[u]
  <2> DEFINE v == [AtRest EXCEPT !.pc = "body", !.folder = f, !.row = i, !.uid = u,
                                 !.mail = box.at[u]]
  <2>1. /\ v \in Working /\ v.pc = "body" /\ v.todo = {}
        /\ v.folder = f /\ v.row = i /\ v.uid = u /\ v.mail = box.at[u]
    BY <1>4, <1>5 DEF AtRest, Working, FetchPcs
  <2>2. worker' = [worker EXCEPT ![a] = v]
    BY <1>3
  <2> HIDE DEF v
  <2>3. QED BY <2>1, <2>2
<1> HIDE DEF box
<1>7. /\ worker' \in [Accounts -> Working]
      /\ \A c \in Accounts : worker'[c] = IF c = a THEN w ELSE worker[c]
  BY <1>1, <1>6 DEF Typed
<1>8. /\ DOMAIN files' = DOMAIN files \cup {<<f, u>>} /\ files'[<<f, u>>] = box.at[u]
      /\ \A k \in DOMAIN files : k # <<f, u>> => files'[k] = files[k]
  BY <1>2, <1>6, <1>7 DEF Put, BodyFile
<1>9. Fresh(f) => \A j \in DOMAIN message : message[j].folder = f /\ message[j].uid = u
                                               => message[j].mail = box.at[u]
  BY <1>1, <1>2 DEF Lives, Had, box
<1>10. Typed'
  BY <1>1, <1>2, <1>7 DEF Typed, Table, MessageRow
<1>11. Homes'
  BY <1>1, <1>2, <1>6, <1>7 DEF Homes, Home, FoldersOf
<1>12. OneRowEach' /\ Lives' /\ Indexed'
  BY <1>1, <1>2 DEF OneRowEach, Lives, Fresh, Had, Indexed, IndexIsOwn, Current
<1>13. Bodies'
  <2>1. SUFFICES ASSUME NEW j \in DOMAIN message, message[j].body = "full",
                        Fresh(message[j].folder)
                 PROVE  /\ <<message[j].folder, message[j].uid>> \in DOMAIN files'
                        /\ files'[<<message[j].folder, message[j].uid>>] = message[j].mail
    BY <1>2 DEF Bodies, Filed, Fresh, BodyFile
  <2>2. CASE message[j].folder = f /\ message[j].uid = u
    BY <1>8, <1>9, <2>1, <2>2
  <2>3. CASE ~(message[j].folder = f /\ message[j].uid = u)
    <3>1. Filed(message[j].folder, message[j].uid, message[j].mail)
      BY <1>1, <2>1 DEF Bodies
    <3>2. <<message[j].folder, message[j].uid>> # <<f, u>>
      BY <2>3
    <3>3. QED BY <1>8, <3>1, <3>2 DEF Filed, BodyFile
  <2>4. QED BY <2>2, <2>3
<1>14. \A c \in Accounts, j \in DOMAIN message : Fetching(c, j)' <=> Fetching(c, j)
  BY <1>2, <1>6, <1>7 DEF Fetching, SameRow, Rows
<1>15. Completed'
  BY <1>1, <1>2, <1>14 DEF Completed, Fresh
<1>16. ASSUME NEW c \in Accounts, worker'[c].pc \in FetchPcs PROVE Holds(worker[c])'
  <2>1. CASE c = a
    <3>1. worker'[c] = w
      BY <1>7, <2>1
    <3>2. Fresh(w.folder) => Had(w.folder, w.uid, w.mail)
      BY <1>4, <1>6 DEF Had, box
    <3>3. \A j \in DOMAIN message : message[j].folder = f /\ message[j].uid = u => j = i
      BY <1>1, <1>5 DEF OneRowEach
    <3>4. Filed(w.folder, w.uid, w.mail)'
      BY <1>6, <1>8 DEF Filed, BodyFile
    <3>5. QED BY <1>2, <1>4, <1>6, <1>9, <3>1, <3>2, <3>3, <3>4 DEF Holds, Fresh, Had, Filed
  <2>2. CASE c # a
    <3>1. worker'[c] = worker[c] /\ Holds(worker[c]) /\ worker[c].folder \in FoldersOf(c, folder)
      BY <1>1, <1>7, <1>16, <2>2 DEF Fetches, Homes, Home
    <3>2. worker[c].folder # f
      BY <1>2, <2>2, <3>1 DEF FoldersOf
    <3>3. <<worker[c].folder, worker[c].uid>> # <<f, u>>
      BY <3>2
    <3>4. PICK now : now = worker[c]
      OBVIOUS
    <3>5. now.pc = "body" => Filed(now.folder, now.uid, now.mail)'
      BY <1>8, <3>1, <3>3, <3>4 DEF Holds, Filed, BodyFile
    <3>6. Holds(now)'
      BY <1>2, <3>1, <3>4, <3>5, HoldsStill
    <3>7. QED BY <3>1, <3>4, <3>6
  <2>3. QED BY <2>1, <2>2
<1>17. Fetches'
  BY <1>16 DEF Fetches
<1>18. QED BY <1>10, <1>11, <1>12, <1>13, <1>15, <1>17 DEF Inv

(* A statement of a fetch leaves a row its folder, its UID and its mail.   *)
LEMMA FetchGoesOn ==
    ASSUME Inv, NEW a \in Accounts, NEW w \in Working,
           worker' = [worker EXCEPT ![a] = w],
           w.todo \subseteq worker[a].todo, w.pc \in {"idle"} \cup FetchPcs,
           w.pc # "idle" => w.folder = worker[a].folder /\ worker[a].pc \in FetchPcs,
           UNCHANGED <<owner, mailbox, folder, files>>,
           DOMAIN message' = DOMAIN message,
           \A i \in DOMAIN message :
               /\ message'[i] \in MessageRow(message'[i])
               /\ message'[i].folder = message[i].folder /\ message'[i].uid = message[i].uid
               /\ message'[i].mail = message[i].mail,
           DOMAIN index' = DOMAIN index,
           \A i \in DOMAIN index : index'[i] \in IndexRow,
           stray \subseteq stray'
    PROVE  /\ Typed' /\ Homes' /\ OneRowEach' /\ Lives'
           /\ DOMAIN index' \subseteq DOMAIN message' \cup stray'
           /\ \A c \in Accounts : worker'[c] = IF c = a THEN w ELSE worker[c]
           /\ \A c \in Accounts \ {a}, i \in DOMAIN message : Fetching(c, i)' <=> Fetching(c, i)
<1>1. Typed /\ Homes /\ OneRowEach /\ Lives /\ Indexed
  BY DEF Inv
<1>2. /\ worker' \in [Accounts -> Working]
      /\ \A c \in Accounts : worker'[c] = IF c = a THEN w ELSE worker[c]
  BY <1>1 DEF Typed
<1>3. Typed'
  <2>1. Table(message') /\ Table(folder')
    BY <1>1 DEF Typed, Table
  <2>2. \A i \in DOMAIN message' : message'[i].folder \in DOMAIN folder'
    BY <1>1 DEF Typed
  <2>3. QED BY <1>1, <1>2, <2>1, <2>2 DEF Typed, MessageRow
<1>4. Homes'
  <2>1. Home(a, worker[a])'
    BY <1>1, <1>2 DEF Homes, Home, FoldersOf, FetchPcs
  <2>2. \A c \in Accounts \ {a} : Home(c, worker[c])'
    BY <1>1, <1>2 DEF Homes, Home, FoldersOf
  <2>3. QED BY <2>1, <2>2 DEF Homes
<1>5. OneRowEach'
  BY <1>1 DEF OneRowEach
<1>6. Lives'
  BY <1>1 DEF Lives, Fresh, Had
<1>7. DOMAIN index' \subseteq DOMAIN message' \cup stray'
  BY <1>1 DEF Indexed
<1>8. \A c \in Accounts \ {a}, i \in DOMAIN message : Fetching(c, i)' <=> Fetching(c, i)
  BY <1>2 DEF Fetching, SameRow, Rows
<1>9. QED BY <1>2, <1>3, <1>4, <1>5, <1>6, <1>7, <1>8

LEMMA InvSetMessageBody == ASSUME Inv, NEW a \in Accounts, SetMessageBody(a) PROVE Inv'
<1> DEFINE w == worker[a]
           v == [worker[a] EXCEPT !.pc = After("body")]
<1>1. /\ Typed /\ Homes /\ OneRowEach /\ Lives /\ Bodies /\ Indexed /\ Completed /\ Fetches
  BY DEF Inv
<1>2. /\ w.pc = "body" /\ worker' = [worker EXCEPT ![a] = v]
      /\ UNCHANGED <<owner, mailbox, folder, index, files, stray, cut>>
      /\ message' = [i \in DOMAIN message |-> IF i \in Rows(w.folder, {w.uid})
                                              THEN [message[i] EXCEPT !.body = "full"]
                                              ELSE message[i]]
  BY DEF SetMessageBody, history, Works
<1>3. w \in Working /\ Holds(w)
  BY <1>1, <1>2 DEF Typed, Fetches, FetchPcs
<1>4. /\ v \in Working /\ v.pc = "attachments" /\ v.folder = w.folder /\ v.row = w.row
      /\ v.uid = w.uid /\ v.mail = w.mail /\ v.todo = w.todo
  BY <1>3 DEF Working, FetchPcs, After
<1>5. \A i \in DOMAIN message : message[i] \in MessageRow(message[i])
  BY <1>1 DEF Typed
<1>6. \A i \in DOMAIN message :
          /\ message'[i] \in MessageRow(message'[i])
          /\ message'[i].folder = message[i].folder /\ message'[i].uid = message[i].uid
          /\ message'[i].mail = message[i].mail /\ message'[i].parts = message[i].parts
          /\ message'[i].body = IF message[i].folder = w.folder /\ message[i].uid = w.uid
                                THEN "full" ELSE message[i].body
  <2>1. SUFFICES ASSUME NEW i \in DOMAIN message
                 PROVE  /\ message'[i] \in MessageRow(message'[i])
                        /\ message'[i].folder = message[i].folder
                        /\ message'[i].uid = message[i].uid
                        /\ message'[i].mail = message[i].mail
                        /\ message'[i].parts = message[i].parts
                        /\ message'[i].body =
                               IF message[i].folder = w.folder /\ message[i].uid = w.uid
                               THEN "full" ELSE message[i].body
    OBVIOUS
  <2>2. i \in Rows(w.folder, {w.uid}) <=> message[i].folder = w.folder /\ message[i].uid = w.uid
    BY DEF Rows
  <2>3. message'[i] = IF i \in Rows(w.folder, {w.uid})
                      THEN [message[i] EXCEPT !.body = "full"] ELSE message[i]
    BY <1>2
  <2>4. QED BY <1>5, <2>2, <2>3 DEF MessageRow
<1>7. DOMAIN message' = DOMAIN message
  BY <1>2
<1> HIDE DEF v
<1>8. /\ Typed' /\ Homes' /\ OneRowEach' /\ Lives'
      /\ DOMAIN index' \subseteq DOMAIN message' \cup stray'
      /\ \A c \in Accounts : worker'[c] = IF c = a THEN v ELSE worker[c]
      /\ \A c \in Accounts \ {a}, i \in DOMAIN message : Fetching(c, i)' <=> Fetching(c, i)
  <2>1. \A i \in DOMAIN index : index'[i] \in IndexRow
    BY <1>1, <1>2 DEF Typed
  <2>2. v.pc \in {"idle"} \cup FetchPcs /\ w.pc \in FetchPcs
    BY <1>2, <1>4 DEF FetchPcs
  <2>3. QED BY <1>2, <1>4, <1>6, <1>7, <2>1, <2>2, FetchGoesOn
<1>9. \A f : Fresh(f)' <=> folder[f].validity = mailbox[folder[f].box].validity
  BY <1>2 DEF Fresh
<1>10. Bodies'
  <2>1. SUFFICES ASSUME NEW i \in DOMAIN message, message'[i].body = "full",
                        Fresh(message[i].folder)
                 PROVE  Filed(message[i].folder, message[i].uid, message[i].mail)
    BY <1>2, <1>6, <1>7 DEF Bodies, Filed, Fresh
  <2>2. CASE message[i].folder = w.folder /\ message[i].uid = w.uid
    BY <1>2, <1>3, <2>1, <2>2 DEF Holds
  <2>3. CASE ~(message[i].folder = w.folder /\ message[i].uid = w.uid)
    BY <1>1, <1>6, <2>1, <2>3 DEF Bodies
  <2>4. QED BY <2>2, <2>3
<1>11. Indexed'
  BY <1>1, <1>2, <1>6, <1>7, <1>8 DEF Indexed, IndexIsOwn, Current
<1>12. Completed'
  <2>1. SUFFICES ASSUME NEW i \in DOMAIN message \ (stray \cup cut), message'[i].body = "full",
                        Fresh(message[i].folder), \A c \in Accounts : ~Fetching(c, i)'
                 PROVE  message[i].parts = message[i].mail /\ index[i].body = message[i].mail
    BY <1>2, <1>6, <1>7 DEF Completed, Fresh
  <2>2. ~(message[i].folder = w.folder /\ message[i].uid = w.uid)
    <3>1. SUFFICES ASSUME message[i].folder = w.folder, message[i].uid = w.uid PROVE FALSE
      OBVIOUS
    <3>2. i = w.row
      BY <1>3, <3>1 DEF Holds
    <3>3. Fetching(a, i)'
      BY <1>4, <1>6, <1>7, <1>8, <3>1, <3>2 DEF Fetching, SameRow, Rows
    <3>4. QED BY <2>1, <3>3
  <2>3. \A c \in Accounts : ~Fetching(c, i)
    BY <1>2, <1>8, <2>1 DEF Fetching
  <2>4. QED BY <1>1, <1>6, <2>1, <2>2, <2>3 DEF Completed
<1>13. ASSUME NEW c \in Accounts, worker'[c].pc \in FetchPcs PROVE Holds(worker[c])'
  <2>1. CASE c = a
    <3>1. PICK now : now = v /\ worker'[c] = now
      BY <1>8, <2>1
    <3>2. Holds(now) /\ now.pc # "body"
      BY <1>2, <1>3, <1>4, <3>1 DEF Holds
    <3>3. Holds(now)'
      BY <1>2, <1>6, <1>7, <3>2, HoldsStill
    <3>4. QED BY <3>1, <3>3
  <2>2. CASE c # a
    <3>1. PICK now : now = worker[c] /\ worker'[c] = now /\ Holds(now)
      BY <1>1, <1>8, <1>13, <2>2 DEF Fetches
    <3>2. now.pc = "body" => Filed(now.folder, now.uid, now.mail)'
      BY <1>2, <3>1 DEF Holds, Filed
    <3>3. Holds(now)'
      BY <1>2, <1>6, <1>7, <3>1, <3>2, HoldsStill
    <3>4. QED BY <3>1, <3>3
  <2>3. QED BY <2>1, <2>2
<1>14. Fetches'
  BY <1>13 DEF Fetches
<1>15. QED BY <1>8, <1>10, <1>11, <1>12, <1>14 DEF Inv

LEMMA InvReplaceAttachments == ASSUME Inv, NEW a \in Accounts, ReplaceAttachments(a) PROVE Inv'
<1> DEFINE w == worker[a]
           v == [worker[a] EXCEPT !.pc = After("attachments")]
<1>1. /\ Typed /\ Homes /\ OneRowEach /\ Lives /\ Bodies /\ Indexed /\ Completed /\ Fetches
  BY DEF Inv
<1>0. UNCHANGED <<owner, mailbox, folder, index, files, cut>>
  BY DEF ReplaceAttachments
<1>2. /\ w.pc = "attachments" /\ w.row \in DOMAIN message
      /\ worker' = [worker EXCEPT ![a] = v]
      /\ message' = [message EXCEPT ![w.row].parts = w.mail]
      /\ stray' = IF SameRow(w) THEN stray ELSE stray \cup {w.row}
  BY DEF ReplaceAttachments, Works
<1>3. w \in Working /\ Holds(w) /\ w.folder \in FoldersOf(a, folder)
  BY <1>1, <1>2 DEF Typed, Fetches, FetchPcs, Homes, Home
<1>4. /\ v \in Working /\ v.pc = "words" /\ v.folder = w.folder /\ v.row = w.row
      /\ v.uid = w.uid /\ v.mail = w.mail /\ v.todo = w.todo
  BY <1>3 DEF Working, FetchPcs, After
<1>5. \A i \in DOMAIN message : message[i] \in MessageRow(message[i])
  BY <1>1 DEF Typed
<1>6. ASSUME NEW i \in DOMAIN message
      PROVE  /\ message'[i] \in MessageRow(message'[i])
             /\ message'[i].folder = message[i].folder /\ message'[i].uid = message[i].uid
             /\ message'[i].mail = message[i].mail /\ message'[i].body = message[i].body
             /\ message'[i].parts = IF i = w.row THEN w.mail ELSE message[i].parts
  <2>1. message'[i] = IF i = w.row THEN [message[i] EXCEPT !.parts = w.mail] ELSE message[i]
    BY <1>2
  <2>2. w.mail \in Mails \cup {None}
    BY <1>3 DEF Holds
  <2>3. QED BY <1>5, <2>1, <2>2 DEF MessageRow
<1>7. DOMAIN message' = DOMAIN message /\ stray \subseteq stray'
  BY <1>2
<1>8. SameRow(w) <=> message[w.row].folder = w.folder /\ message[w.row].uid = w.uid
  BY <1>2 DEF SameRow, Rows
<1> HIDE DEF v
<1>9. /\ Typed' /\ Homes' /\ OneRowEach' /\ Lives'
      /\ DOMAIN index' \subseteq DOMAIN message' \cup stray'
      /\ \A c \in Accounts : worker'[c] = IF c = a THEN v ELSE worker[c]
      /\ \A c \in Accounts \ {a}, i \in DOMAIN message : Fetching(c, i)' <=> Fetching(c, i)
  <2>1. \A i \in DOMAIN index : index'[i] \in IndexRow
    BY <1>0, <1>1 DEF Typed
  <2>2. v.pc \in {"idle"} \cup FetchPcs /\ w.pc \in FetchPcs
    BY <1>2, <1>4 DEF FetchPcs
  <2>3. DOMAIN index' = DOMAIN index
    BY <1>0
  <2>4. QED BY <1>0, <1>2, <1>4, <1>6, <1>7, <2>1, <2>2, <2>3, FetchGoesOn
<1>10. Bodies'
  BY <1>0, <1>1, <1>6, <1>7 DEF Bodies, Filed, Fresh
<1>11. Indexed'
  BY <1>0, <1>1, <1>6, <1>7, <1>9 DEF Indexed, IndexIsOwn, Current
<1>12. Completed'
  <2>1. SUFFICES ASSUME NEW i \in DOMAIN message \ (stray' \cup cut), message[i].body = "full",
                        Fresh(message[i].folder), \A c \in Accounts : ~Fetching(c, i)'
                 PROVE  message'[i].parts = message[i].mail /\ index[i].body = message[i].mail
    BY <1>0, <1>6, <1>7 DEF Completed, Fresh
  <2>2. i # w.row
    <3>1. SUFFICES ASSUME i = w.row PROVE FALSE
      OBVIOUS
    <3>2. message[i].folder = w.folder /\ message[i].uid = w.uid
      BY <1>2, <1>8, <2>1, <3>1
    <3>3. Fetching(a, i)'
      BY <1>4, <1>6, <1>7, <1>9, <3>1, <3>2 DEF Fetching, SameRow, Rows
    <3>4. QED BY <2>1, <3>3
  <2>3. \A c \in Accounts : ~Fetching(c, i)
    BY <1>9, <2>1, <2>2 DEF Fetching
  <2>4. QED BY <1>1, <1>6, <1>7, <2>1, <2>2, <2>3 DEF Completed
<1>13. ASSUME NEW c \in Accounts, worker'[c].pc \in FetchPcs PROVE Holds(worker[c])'
  <2>1. CASE c = a
    <3>1. worker'[c] = v
      BY <1>9, <2>1
    <3>2. \A i \in DOMAIN message : message[i].folder = w.folder /\ message[i].uid = w.uid =>
              i = w.row /\ (Fresh(w.folder) => message[i].mail = w.mail)
      BY <1>3 DEF Holds
    <3>3. Fresh(w.folder) => Had(w.folder, w.uid, w.mail)
      BY <1>3 DEF Holds
    <3>4. \A i \in DOMAIN message' :
              message'[i].folder = w.folder /\ message'[i].uid = w.uid =>
                  /\ i = w.row
                  /\ Fresh(w.folder) => message'[i].mail = w.mail
                  /\ message'[i].parts = w.mail
      BY <1>6, <1>7, <3>2
    <3>5. w.uid \in Uids /\ w.mail \in Mails
      BY <1>3 DEF Holds
    <3>6. PICK now \in Working : /\ now = v /\ worker'[c] = now
      BY <1>4, <3>1
    <3>7. Holds(now)'
      <4>1. /\ now.uid = w.uid /\ now.mail = w.mail /\ now.folder = w.folder
            /\ now.row = w.row /\ now.pc = "words"
        BY <1>4, <3>6
      <4>2. Fresh(now.folder)' => Fresh(w.folder) /\ Had(now.folder, now.uid, now.mail)'
        BY <1>0, <3>3, <4>1 DEF Fresh, Had
      <4>3. QED BY <3>4, <3>5, <4>1, <4>2 DEF Holds
    <3>8. QED BY <3>6, <3>7
  <2>2. CASE c # a
    <3>1. worker'[c] = worker[c] /\ Holds(worker[c]) /\ worker[c].folder \in FoldersOf(c, folder)
      BY <1>1, <1>9, <1>13, <2>2 DEF Fetches, Homes, Home
    <3>2. worker[c].folder # w.folder
      BY <1>3, <2>2, <3>1 DEF FoldersOf
    <3>3. \A i \in DOMAIN message : i \notin stray' /\ message[i].folder = worker[c].folder
                                       => i # w.row /\ i \notin stray
      BY <1>2, <1>8, <3>2
    <3>4. PICK now : now = worker[c]
      OBVIOUS
    <3>5. now.pc = "body" => Filed(now.folder, now.uid, now.mail)'
      BY <1>0, <3>1, <3>4 DEF Holds, Filed
    <3>6. Holds(now)'
      BY <1>0, <1>6, <1>7, <3>1, <3>3, <3>4, <3>5, HoldsStill
    <3>7. QED BY <3>1, <3>4, <3>6
  <2>3. QED BY <2>1, <2>2
<1>14. Fetches'
  BY <1>13 DEF Fetches
<1>15. QED BY <1>9, <1>10, <1>11, <1>12, <1>14 DEF Inv

LEMMA InvIndexBody == ASSUME Inv, NEW a \in Accounts, IndexBody(a) PROVE Inv'
<1> DEFINE w == worker[a]
<1>1. /\ Typed /\ Homes /\ OneRowEach /\ Lives /\ Bodies /\ Indexed /\ Completed /\ Fetches
  BY DEF Inv
<1>2. /\ w.pc = "words" /\ w.row \in DOMAIN index
      /\ worker' = [worker EXCEPT ![a] = AtRest]
      /\ UNCHANGED <<owner, mailbox, folder, message, files>>
      /\ index' = [index EXCEPT ![w.row].body = w.mail]
      /\ stray' = IF SameRow(w) THEN stray ELSE stray \cup {w.row}
      /\ cut' = cut \ {w.row}
  BY DEF IndexBody, Works
<1>3. w \in Working /\ Holds(w)
  BY <1>1, <1>2 DEF Typed, Fetches, FetchPcs
<1>4. ASSUME NEW i \in DOMAIN index
      PROVE  /\ index'[i] \in IndexRow /\ index'[i].subject = index[i].subject
             /\ index'[i].body = IF i = w.row THEN w.mail ELSE index[i].body
  <2>1. index[i] \in IndexRow
    BY <1>1 DEF Typed
  <2>2. index'[i] = IF i = w.row THEN [index[i] EXCEPT !.body = w.mail] ELSE index[i]
    BY <1>2
  <2>3. w.mail \in Mails \cup {None}
    BY <1>3 DEF Holds
  <2>4. QED BY <2>1, <2>2, <2>3 DEF IndexRow
<1>5. DOMAIN index' = DOMAIN index /\ stray \subseteq stray'
  BY <1>2
<1>6. w.row \in DOMAIN message /\ w.row \notin stray'
          => message[w.row].folder = w.folder /\ message[w.row].uid = w.uid
  BY <1>2 DEF SameRow, Rows
<1>7. /\ Typed' /\ Homes' /\ OneRowEach' /\ Lives'
      /\ DOMAIN index' \subseteq DOMAIN message' \cup stray'
      /\ \A c \in Accounts : worker'[c] = IF c = a THEN AtRest ELSE worker[c]
      /\ \A c \in Accounts \ {a}, i \in DOMAIN message : Fetching(c, i)' <=> Fetching(c, i)
  <2>1. \A i \in DOMAIN message : message[i] \in MessageRow(message[i])
    BY <1>1 DEF Typed
  <2>2. \A i \in DOMAIN message :
            /\ message'[i] \in MessageRow(message'[i])
            /\ message'[i].folder = message[i].folder /\ message'[i].uid = message[i].uid
            /\ message'[i].mail = message[i].mail
    BY <1>2, <2>1 DEF MessageRow
  <2>3. DOMAIN message' = DOMAIN message /\ AtRest.todo \subseteq worker[a].todo
        /\ AtRest.pc \in {"idle"} \cup FetchPcs /\ AtRest.pc = "idle"
    BY <1>2, RestIs
  <2>4. QED BY <1>2, <1>4, <1>5, <2>2, <2>3, RestIs, FetchGoesOn
<1>8. Bodies'
  BY <1>1, <1>2 DEF Bodies, Filed, Fresh
<1>9. Indexed'
  <2>1. SUFFICES ASSUME NEW i \in DOMAIN message \ stray'
                 PROVE  /\ i \in DOMAIN index' /\ index'[i].subject = message[i].mail
                        /\ Fresh(message[i].folder) => index'[i].body \in {None, message[i].mail}
    BY <1>2, <1>7 DEF Indexed, IndexIsOwn, Current, Fresh
  <2>2. /\ i \in DOMAIN index /\ index[i].subject = message[i].mail
        /\ Fresh(message[i].folder) => index[i].body \in {None, message[i].mail}
    BY <1>1, <1>5, <2>1 DEF Indexed, IndexIsOwn, Current, Fresh
  <2>3. i = w.row /\ Fresh(message[i].folder) => w.mail = message[i].mail
    BY <1>3, <1>6, <2>1 DEF Holds
  <2>4. QED BY <1>4, <1>5, <2>2, <2>3
<1>10. Completed'
  <2>1. SUFFICES ASSUME NEW i \in DOMAIN message \ (stray' \cup cut'), message[i].body = "full",
                        Fresh(message[i].folder), \A c \in Accounts : ~Fetching(c, i)'
                 PROVE  message[i].parts = message[i].mail /\ index'[i].body = message[i].mail
    BY <1>2 DEF Completed, Fresh
  <2>2. i \in DOMAIN index
    BY <1>1, <1>5, <2>1 DEF Indexed, IndexIsOwn
  <2>3. CASE i = w.row
    BY <1>2, <1>3, <1>4, <1>5, <1>6, <2>1, <2>2, <2>3 DEF Holds
  <2>4. CASE i # w.row
    <3>1. \A c \in Accounts : ~Fetching(c, i)
      BY <1>7, <2>1, <2>4 DEF Fetching
    <3>2. i \in DOMAIN message \ (stray \cup cut)
      BY <1>2, <1>5, <2>1, <2>4
    <3>3. QED BY <1>1, <1>4, <2>1, <2>2, <2>4, <3>1, <3>2 DEF Completed
  <2>5. QED BY <2>3, <2>4
<1>11. ASSUME NEW c \in Accounts, worker'[c].pc \in FetchPcs PROVE Holds(worker[c])'
  <2>1. c # a
    BY <1>7, <1>11, RestIs DEF FetchPcs
  <2>2. worker'[c] = worker[c] /\ Holds(worker[c])
    BY <1>1, <1>7, <1>11, <2>1 DEF Fetches
  <2>3. PICK now : now = worker[c]
    OBVIOUS
  <2>4. now.pc = "body" => Filed(now.folder, now.uid, now.mail)'
    BY <1>2, <2>2, <2>3 DEF Holds, Filed
  <2>5. Holds(now)'
    BY <1>2, <1>5, <2>2, <2>3, <2>4, HoldsStill
  <2>6. QED BY <2>2, <2>3, <2>5
<1>12. Fetches'
  BY <1>11 DEF Fetches
<1>13. QED BY <1>7, <1>8, <1>9, <1>10, <1>12 DEF Inv

-----------------------------------------------------------------------------
(* Every step keeps the invariant.                                         *)

LEMMA InvNext == Inv /\ [Next]_vars => Inv'
<1> SUFFICES ASSUME Inv, [Next]_vars PROVE Inv'
  OBVIOUS
<1>1. CASE Server
  BY <1>1, InvServer DEF Server
<1>2. CASE Crash
  BY <1>2, InvCrash
<1>3. ASSUME NEW a \in Accounts, Work(a) PROVE Inv'
  <2>1. CASE Sync(a)
    BY <2>1, InvSync
  <2>2. CASE ReplayOne(a)
    BY <2>2, InvReplayOne
  <2>3. CASE SyncFolders(a)
    BY <2>3, InvSyncFolders
  <2>4. CASE \E f \in DOMAIN folder : SyncFolder(a, f)
    BY <2>4, InvSyncFolder
  <2>5. CASE DeleteVanished(a)
    BY <2>5, InvDeleteVanished
  <2>6. CASE SelectFails(a) \/ RowGone(a) \/ Fail(a)
    BY <2>6, InvStops
  <2>7. CASE \E f \in DOMAIN folder, u \in Uids : FetchMessage(a, f, u)
    BY <2>7, InvFetchMessage
  <2>8. CASE SetMessageBody(a)
    BY <2>8, InvSetMessageBody
  <2>9. CASE ReplaceAttachments(a)
    BY <2>9, InvReplaceAttachments
  <2>10. CASE IndexBody(a)
    BY <2>10, InvIndexBody
  <2>11. QED BY <1>3, <2>1, <2>2, <2>3, <2>4, <2>5, <2>6, <2>7, <2>8, <2>9, <2>10 DEF Work
<1>4. CASE \E i \in DOMAIN message : Delete(i)
  BY <1>4, InvDelete
<1>5. CASE UNCHANGED vars
  <2>1. UNCHANGED <<owner, mailbox, folder, message, index, files, worker, stray, cut>>
    BY <1>5 DEF vars, store, history
  <2>2. \A b \in Boxes : mailbox[b] \in Boxed
    BY DEF Inv, Typed
  <2>3. \A b \in Boxes : Later(b)
    BY <2>1, <2>2 DEF Later, Boxed
  <2>4. /\ mailbox' \in [Boxes -> Boxed]
        /\ \A b \in Boxes, u \in Uids : mailbox'[b].at[u] # None => u < mailbox'[b].next
    BY <2>1 DEF Inv, Typed, Lives
  <2>5. QED BY <2>1, <2>3, <2>4, ServersGoOn
<1>6. QED BY <1>1, <1>2, <1>3, <1>4, <1>5 DEF Next

LEMMA AlwaysInv == Spec => []Inv
BY InitInv, InvNext, PTL DEF Spec

(* Rows are of their types and their folders are there, a message has one  *)
(* row and a mailbox one folder, however ids come back and whenever a      *)
(* synchronisation is cut short.                                           *)
THEOREM KeysAreKept == Spec => []TypeOK
BY AlwaysInv, Shown, PTL

(* A search finds a message by its own words and by no other's: no row is  *)
(* left without its index, and no index is left to a row it is not of, but *)
(* where a folder's removal or a fetch for a row that is gone did it.      *)
THEOREM SearchFindsItsOwn == Spec => []IndexIsOwn
BY AlwaysInv, Shown, PTL

(* The body that the cache shows for a message is the message's.           *)
THEOREM CachedBodyIsOwn == Spec => []BodyIsOwn
BY AlwaysInv, Shown, PTL

(* A body that is recorded comes with its attachments and its words, but   *)
(* where its fetch was cut short.                                          *)
THEOREM RecordedBodyIsComplete == Spec => []RecordedIsComplete
BY AlwaysInv, Shown, PTL

-----------------------------------------------------------------------------
(* The conversations.  A forest of the rows is a partition of their ids;   *)
(* joining blocks along links makes it coarser, and keeps whole whatever   *)
(* no link leaves.                                                         *)
Partition(forest, rows) ==
    /\ UNION forest = rows /\ {} \notin forest
    /\ \A b, c \in forest : b # c => b \cap c = {}
Ties(forest, link) == \E b \in forest : link \subseteq b
Whole(set, T) == set \subseteq T \/ set \cap T = {}
(* What joining makes of a forest.                                         *)
Coarser(forest, rows, links, result) ==
    /\ Partition(result, rows)
    /\ \A link \in links : Ties(result, link)
    /\ \A b \in forest : Ties(result, b)
    /\ \A T : (\A b \in forest : Whole(b, T)) /\ (\A link \in links : Whole(link, T))
              => \A b \in result : Whole(b, T)

LEMMA SameForest ==
    ASSUME NEW forest, NEW rows, Partition(forest, rows)
    PROVE  Coarser(forest, rows, {}, forest)
BY DEF Coarser, Ties

LEMMA JoinedIs ==
    ASSUME NEW forest, NEW rows, Partition(forest, rows),
           NEW link, link # {}, link \subseteq rows
    PROVE  Coarser(forest, rows, {link}, Joined(forest, link))
<1> DEFINE touched == {b \in forest : link \cap b # {}}
<1>1. PICK new, all : new = Joined(forest, link) /\ all = UNION touched
  OBVIOUS
<1>2. new = (forest \ touched) \cup {all}
  BY <1>1 DEF Joined
<1>3. /\ UNION forest = rows /\ {} \notin forest
      /\ \A b, c \in forest : b # c => b \cap c = {}
  BY DEF Partition
<1>4. link \subseteq all
  BY <1>1, <1>3
<1>5. \A b \in touched : b \subseteq all
  BY <1>1
<1>6. \A b \in forest \ touched : b \cap all = {}
  BY <1>1, <1>3
<1>7. Partition(new, rows)
  <2>1. UNION new = rows
    <3>1. ASSUME NEW x \in UNION new PROVE x \in rows
      <4>1. PICK b \in new : x \in b
        OBVIOUS
      <4>2. CASE b = all
        BY <1>1, <1>3, <4>1, <4>2
      <4>3. CASE b \in forest
        BY <1>3, <4>1, <4>3
      <4>4. QED BY <1>2, <4>1, <4>2, <4>3
    <3>2. ASSUME NEW x \in rows PROVE x \in UNION new
      <4>1. PICK b \in forest : x \in b
        BY <1>3
      <4>2. CASE b \in touched
        BY <1>2, <1>5, <4>1, <4>2
      <4>3. CASE b \notin touched
        BY <1>2, <4>1, <4>3
      <4>4. QED BY <4>2, <4>3
    <3>3. QED BY <3>1, <3>2
  <2>2. {} \notin new
    BY <1>2, <1>3, <1>4
  <2>3. \A b, c \in new : b # c => b \cap c = {}
    BY <1>2, <1>3, <1>6
  <2>4. QED BY <2>1, <2>2, <2>3 DEF Partition
<1>8. Ties(new, link)
  BY <1>2, <1>4 DEF Ties
<1>9. \A b \in forest : Ties(new, b)
  BY <1>2, <1>5 DEF Ties
<1>10. ASSUME NEW T, \A b \in forest : Whole(b, T), Whole(link, T), NEW b \in new
       PROVE  Whole(b, T)
  <2>1. CASE b \in forest
    BY <1>10, <2>1
  <2>2. CASE b = all /\ link \subseteq T
    <3>1. \A c \in touched : c \subseteq T
      BY <1>10, <2>2 DEF Whole
    <3>2. QED BY <1>1, <2>2, <3>1 DEF Whole
  <2>3. CASE b = all /\ link \cap T = {}
    <3>1. \A c \in touched : c \cap T = {}
      BY <1>10, <2>3 DEF Whole
    <3>2. QED BY <1>1, <2>3, <3>1 DEF Whole
  <2>4. QED BY <1>2, <1>10, <2>1, <2>2, <2>3 DEF Whole
<1>11. QED BY <1>1, <1>7, <1>8, <1>9, <1>10 DEF Coarser

LEMMA CoarserStill ==
    ASSUME NEW forest, NEW rows, NEW links, NEW middle, NEW more, NEW result,
           Coarser(forest, rows, links, middle), Coarser(middle, rows, more, result)
    PROVE  Coarser(forest, rows, links \cup more, result)
<1>1. ASSUME NEW set, Ties(middle, set) PROVE Ties(result, set)
  <2>1. PICK b \in middle : set \subseteq b
    BY <1>1 DEF Ties
  <2>2. Ties(result, b)
    BY <2>1 DEF Coarser
  <2>3. QED BY <2>1, <2>2 DEF Ties
<1>2. Partition(result, rows)
  BY DEF Coarser
<1>3. \A link \in links \cup more : Ties(result, link)
  BY <1>1 DEF Coarser
<1>4. \A b \in forest : Ties(result, b)
  BY <1>1 DEF Coarser
<1>5. ASSUME NEW T, \A b \in forest : Whole(b, T),
             \A link \in links \cup more : Whole(link, T)
      PROVE  \A b \in result : Whole(b, T)
  <2>1. \A b \in middle : Whole(b, T)
    BY <1>5 DEF Coarser
  <2>2. QED BY <1>5, <2>1 DEF Coarser
<1>6. QED BY <1>2, <1>3, <1>4, <1>5 DEF Coarser

(* Numbers, one after the other.                                           *)
LEMMA EveryNumber ==
    ASSUME NEW S \in SUBSET Nat, 0 \in S, \A n \in Nat : n \in S => n + 1 \in S
    PROVE  S = Nat
<1> DEFINE others == Nat \ S
<1>1. SUFFICES ASSUME others # {} PROVE FALSE
  OBVIOUS
<1>2. PICK n : n = Min(others)
  OBVIOUS
<1>3. n \in others /\ \A m \in others : n <= m
  BY <1>1, <1>2, Least
<1>4. n # 0 /\ n - 1 \in Nat
  BY <1>3
<1>5. n - 1 \in S
  BY <1>3, <1>4
<1>6. QED BY <1>3, <1>4, <1>5

(* The fold over the links, as the function that it is the value of.       *)
OneOf(s) == CHOOSE x \in s : TRUE
Step(g, forest, s) == IF s = {} THEN forest ELSE Joined(g[s \ {OneOf(s)}], OneOf(s))
Folds(g, forest, links) == g = [s \in SUBSET links |-> Step(g, forest, s)]

LEMMA SmallerSets ==
    ASSUME NEW s, IsFiniteSet(s), s # {}
    PROVE  /\ OneOf(s) \in s /\ IsFiniteSet(s \ {OneOf(s)})
           /\ Cardinality(s \ {OneOf(s)}) = Cardinality(s) - 1
           /\ Cardinality(s) \in Nat \ {0}
<1>1. OneOf(s) \in s
  BY DEF OneOf
<1>2. Cardinality(s) \in Nat /\ Cardinality(s) # 0
  BY FS_CardinalityType, FS_EmptySet
<1>3. QED BY <1>1, <1>2, FS_RemoveElement

LEMMA FoldExists ==
    ASSUME NEW forest, NEW links, IsFiniteSet(links)
    PROVE  \E g : Folds(g, forest, links)
<1> DEFINE Until(g, n) == /\ g = [s \in SUBSET links |-> g[s]]
                          /\ \A s \in SUBSET links :
                                 Cardinality(s) <= n => g[s] = Step(g, forest, s)
           reached == {n \in Nat : \E g : Until(g, n)}
<1>1. \A s \in SUBSET links : IsFiniteSet(s) /\ Cardinality(s) \in Nat
                               /\ Cardinality(s) <= Cardinality(links)
  BY FS_Subset, FS_CardinalityType
<1>2. \A s \in SUBSET links : s # {} =>
          /\ s \ {OneOf(s)} \in SUBSET links
          /\ Cardinality(s \ {OneOf(s)}) = Cardinality(s) - 1
          /\ Cardinality(s) # 0
  BY <1>1, SmallerSets
<1>3. 0 \in reached
  <2>1. PICK g : g = [s \in SUBSET links |-> forest]
    OBVIOUS
  <2>2. ASSUME NEW s \in SUBSET links, Cardinality(s) <= 0 PROVE s = {}
    <3>1. Cardinality(s) \in Nat /\ Cardinality(s) = 0
      BY <1>1, <2>2
    <3>2. QED BY <1>2, <3>1
  <2>3. Until(g, 0)
    BY <2>1, <2>2 DEF Step
  <2>4. QED BY <2>3
<1>4. ASSUME NEW n \in Nat, n \in reached PROVE n + 1 \in reached
  <2>1. PICK g : Until(g, n)
    BY <1>4
  <2>2. PICK h : h = [s \in SUBSET links |->
                         IF Cardinality(s) <= n THEN g[s] ELSE Step(g, forest, s)]
    OBVIOUS
  <2>3. ASSUME NEW s \in SUBSET links, Cardinality(s) <= n + 1
        PROVE  h[s] = Step(h, forest, s)
    <3>1. h[s] = Step(g, forest, s)
      BY <2>1, <2>2
    <3>2. CASE s = {}
      BY <3>1, <3>2 DEF Step
    <3>3. CASE s # {}
      <4>1. PICK t : t = s \ {OneOf(s)}
        OBVIOUS
      <4>2. t \in SUBSET links /\ Cardinality(t) <= n
        BY <1>1, <1>2, <2>3, <3>3, <4>1
      <4>3. h[t] = g[t]
        BY <2>2, <4>2
      <4>4. QED BY <3>1, <3>3, <4>1, <4>3 DEF Step
    <3>4. QED BY <3>2, <3>3
  <2>4. h = [s \in SUBSET links |-> h[s]]
    BY <2>2
  <2>5. Until(h, n + 1)
    BY <2>3, <2>4
  <2>6. n + 1 \in Nat
    OBVIOUS
  <2> HIDE DEF Until
  <2>7. QED BY <2>5, <2>6
<1>5. reached = Nat
  <2> HIDE DEF reached
  <2>1. reached \in SUBSET Nat
    BY DEF reached
  <2>2. QED BY <1>3, <1>4, <2>1, EveryNumber
<1>6. PICK g : Until(g, Cardinality(links))
  BY <1>1, <1>5
<1>7. \A s \in SUBSET links : g[s] = Step(g, forest, s)
  BY <1>1, <1>6
<1>8. QED BY <1>6, <1>7 DEF Folds

LEMMA FoldIs ==
    ASSUME NEW forest, NEW links, IsFiniteSet(links)
    PROVE  \E g : Folds(g, forest, links) /\ JoinedAll(forest, links) = g[links]
<1>1. Folds(CHOOSE g : Folds(g, forest, links), forest, links)
  BY FoldExists
<1>2. JoinedAll(forest, links) = (CHOOSE g : Folds(g, forest, links))[links]
  BY DEF JoinedAll, FoldSet, MapThenFoldSet, Folds, Step, OneOf
<1>3. QED BY <1>1, <1>2

LEMMA JoinedAllIs ==
    ASSUME NEW rows, NEW forest, Partition(forest, rows), NEW links, IsFiniteSet(links),
           \A link \in links : link # {} /\ link \subseteq rows
    PROVE  Coarser(forest, rows, links, JoinedAll(forest, links))
<1>1. PICK g : Folds(g, forest, links) /\ JoinedAll(forest, links) = g[links]
  BY FoldIs
<1> DEFINE Good(s) == Coarser(forest, rows, s, g[s])
           joined == {n \in Nat : \A s \in SUBSET links : Cardinality(s) = n => Good(s)}
<1>2. \A s \in SUBSET links : /\ IsFiniteSet(s) /\ Cardinality(s) \in Nat
                              /\ g[s] = Step(g, forest, s)
  BY <1>1, FS_Subset, FS_CardinalityType DEF Folds
<1>3. 0 \in joined
  <2>1. ASSUME NEW s \in SUBSET links, Cardinality(s) = 0 PROVE Good(s)
    <3>1. s = {}
      BY <1>2, <2>1, SmallerSets
    <3>2. g[s] = forest
      BY <1>2, <3>1 DEF Step
    <3>3. QED BY <3>1, <3>2, SameForest
  <2>2. QED BY <2>1
<1>4. ASSUME NEW n \in Nat, n \in joined PROVE n + 1 \in joined
  <2>1. ASSUME NEW s \in SUBSET links, Cardinality(s) = n + 1 PROVE Good(s)
    <3>1. s # {}
      BY <2>1, FS_EmptySet
    <3>2. PICK link, t : link = OneOf(s) /\ t = s \ {link}
      OBVIOUS
    <3>3. link \in s /\ t \in SUBSET links /\ Cardinality(t) = n
      BY <1>2, <2>1, <3>1, <3>2, SmallerSets
    <3>4. PICK middle : middle = g[t]
      OBVIOUS
    <3>5. Coarser(forest, rows, t, middle)
      BY <1>4, <3>3, <3>4
    <3>6. g[s] = Joined(middle, link)
      BY <1>2, <3>1, <3>2, <3>4 DEF Step
    <3>7. PICK result : result = Joined(middle, link)
      OBVIOUS
    <3>8. Partition(middle, rows) /\ link # {} /\ link \subseteq rows
      BY <3>3, <3>5 DEF Coarser
    <3>9. Coarser(middle, rows, {link}, result)
      BY <3>7, <3>8, JoinedIs
    <3>10. Coarser(forest, rows, t \cup {link}, result)
      BY <3>5, <3>9, CoarserStill
    <3>11. t \cup {link} = s
      BY <3>2, <3>3
    <3>12. QED BY <3>6, <3>7, <3>10, <3>11
  <2>2. n + 1 \in Nat
    OBVIOUS
  <2> HIDE DEF Good
  <2>3. QED BY <2>1, <2>2
<1>5. joined = Nat
  <2> HIDE DEF joined
  <2>1. joined \in SUBSET Nat
    BY DEF joined
  <2>2. QED BY <1>3, <1>4, <2>1, EveryNumber
<1>6. Good(links)
  BY <1>2, <1>5
<1>7. QED BY <1>1, <1>6

(* Messages as the algorithm gets them: each with a row of its own, none   *)
(* with an ancestor that has no id.                                        *)
Ids(msgs) == {m.id : m \in msgs}
Messages(msgs) ==
    /\ IsFiniteSet(msgs) /\ \A m \in msgs : m.id \in Nat /\ Absent \notin m.ancestors
    /\ \A m, n \in msgs : m.id = n.id => m = n

Links(msgs) == SameId(msgs) \cup Replies(msgs) \cup SubjectPeers(msgs)

LEMMA LinksAre ==
    ASSUME NEW msgs, Messages(msgs)
    PROVE  /\ \A links \in {SameId(msgs), Replies(msgs), SubjectPeers(msgs)} :
                  /\ IsFiniteSet(links)
                  /\ \A link \in links : link # {} /\ link \subseteq Ids(msgs)
           /\ \A link \in Links(msgs) :
                  \E m, n \in msgs : /\ link = {m.id, n.id}
                                     /\ Related(msgs, m, n) \/ Related(msgs, n, m)
           /\ \A m, n \in msgs : Related(msgs, m, n) => {m.id, n.id} \in Links(msgs)
<1>1. \A link \in SameId(msgs) : \E m, n \in msgs :
          link = {m.id, n.id} /\ n \in Holders(msgs, m.mid)
  BY DEF SameId
<1>2. \A link \in Replies(msgs) : \E m, n \in msgs :
          link = {m.id, n.id} /\ \E a \in m.ancestors : n \in Holders(msgs, a)
  BY DEF Replies
<1>3. \A link \in SubjectPeers(msgs) : \E m, n \in msgs :
          /\ link = {m.id, n.id} /\ ~Linked(msgs, m) /\ m.subject # Absent
          /\ m.subject = n.subject /\ m.account = n.account
  BY DEF SubjectPeers
<1>4. \A m \in msgs : ~Linked(msgs, m) <=> \A o \in msgs : o.mid \notin m.ancestors
  BY DEF Linked, Holders, Messages
<1>5. \A link \in Links(msgs) : \E m, n \in msgs : link = {m.id, n.id}
  BY <1>1, <1>2, <1>3 DEF Links
<1>6. ASSUME NEW links, links \subseteq Links(msgs)
      PROVE  /\ IsFiniteSet(links)
             /\ \A link \in links : link # {} /\ link \subseteq Ids(msgs)
  <2>1. \A link \in links : link # {} /\ link \subseteq Ids(msgs)
    BY <1>5, <1>6 DEF Ids
  <2>2. IsFiniteSet(Ids(msgs))
    <3>1. PICK f : f = [m \in msgs |-> m.id]
      OBVIOUS
    <3>2. f \in [msgs -> Ids(msgs)] /\ \A i \in Ids(msgs) : \E m \in msgs : f[m] = i
      BY <3>1 DEF Ids
    <3>3. f \in Surjection(msgs, Ids(msgs))
      BY <3>2 DEF Surjection
    <3>4. QED BY <3>3, FS_Surjection DEF Messages
  <2>3. IsFiniteSet(SUBSET Ids(msgs))
    BY <2>2, FS_SUBSET
  <2>4. links \subseteq SUBSET Ids(msgs)
    BY <2>1
  <2>5. QED BY <2>1, <2>3, <2>4, FS_Subset
<1>7. \A link \in Links(msgs) :
          \E m, n \in msgs : /\ link = {m.id, n.id}
                             /\ Related(msgs, m, n) \/ Related(msgs, n, m)
  <2>1. ASSUME NEW link \in SameId(msgs)
        PROVE  \E m, n \in msgs : /\ link = {m.id, n.id}
                                  /\ Related(msgs, m, n) \/ Related(msgs, n, m)
    BY <1>1 DEF Holders, Related
  <2>2. ASSUME NEW link \in Replies(msgs)
        PROVE  \E m, n \in msgs : /\ link = {m.id, n.id}
                                  /\ Related(msgs, m, n) \/ Related(msgs, n, m)
    BY <1>2 DEF Holders, Related
  <2>3. ASSUME NEW link \in SubjectPeers(msgs)
        PROVE  \E m, n \in msgs : /\ link = {m.id, n.id}
                                  /\ Related(msgs, m, n) \/ Related(msgs, n, m)
    BY <1>3, <1>4 DEF Related
  <2>4. QED BY <2>1, <2>2, <2>3 DEF Links
<1>8. ASSUME NEW m \in msgs, NEW n \in msgs, Related(msgs, m, n)
      PROVE  {m.id, n.id} \in Links(msgs)
  <2>1. CASE m.mid # Absent /\ m.mid = n.mid
    <3>1. n \in Holders(msgs, m.mid)
      BY <2>1 DEF Holders
    <3>2. PICK p : p = <<m, n>>
      OBVIOUS
    <3>3. p \in {q \in msgs \X msgs : q[2] \in Holders(msgs, q[1].mid)} /\ p[1] = m /\ p[2] = n
      BY <3>1, <3>2
    <3>4. QED BY <3>3 DEF SameId, Links
  <2>2. CASE m.mid # Absent /\ m.mid \in n.ancestors
    <3>1. m \in Holders(msgs, m.mid)
      BY <2>2 DEF Holders
    <3>2. PICK p : p = <<n, m>>
      OBVIOUS
    <3>3. /\ p \in {q \in msgs \X msgs : \E a \in q[1].ancestors : q[2] \in Holders(msgs, a)}
          /\ p[1] = n /\ p[2] = m
      BY <2>2, <3>1, <3>2
    <3>4. {n.id, m.id} \in Replies(msgs)
      BY <3>3 DEF Replies
    <3>5. {n.id, m.id} = {m.id, n.id}
      OBVIOUS
    <3>6. QED BY <3>4, <3>5 DEF Links
  <2>3. CASE /\ m.subject # Absent /\ m.subject = n.subject /\ m.account = n.account
             /\ \A o \in msgs : o.mid \notin m.ancestors
    <3>1. ~Linked(msgs, m)
      BY <1>4, <2>3
    <3>2. PICK p : p = <<m, n>>
      OBVIOUS
    <3>3. /\ p \in {q \in msgs \X msgs :
                      /\ ~Linked(msgs, q[1])
                      /\ q[1].subject # Absent
                      /\ q[1].subject = q[2].subject /\ q[1].account = q[2].account}
          /\ p[1] = m /\ p[2] = n
      BY <2>3, <3>1, <3>2
    <3>4. QED BY <3>3 DEF SubjectPeers, Links
  <2>4. QED BY <1>8, <2>1, <2>2, <2>3 DEF Related
<1>9. \A links \in {SameId(msgs), Replies(msgs), SubjectPeers(msgs)} : links \subseteq Links(msgs)
  BY DEF Links
<1>10. QED BY <1>6, <1>7, <1>8, <1>9

LEMMA ForestIs ==
    ASSUME NEW msgs, Messages(msgs)
    PROVE  Coarser({{m.id} : m \in msgs}, Ids(msgs), Links(msgs), Forest(msgs))
<1>1. PICK forest, first, second, third :
          /\ forest = {{m.id} : m \in msgs}
          /\ first = JoinedAll(forest, SameId(msgs))
          /\ second = JoinedAll(first, Replies(msgs))
          /\ third = JoinedAll(second, SubjectPeers(msgs))
  OBVIOUS
<1>2. third = Forest(msgs)
  BY <1>1 DEF Forest
<1>3. Partition(forest, Ids(msgs))
  <2>1. \A b \in forest : \E m \in msgs : b = {m.id}
    BY <1>1
  <2>2. \A m \in msgs : {m.id} \in forest
    BY <1>1
  <2>3. UNION forest = Ids(msgs)
    <3>1. ASSUME NEW x \in UNION forest PROVE x \in Ids(msgs)
      BY <2>1 DEF Ids
    <3>2. ASSUME NEW x \in Ids(msgs) PROVE x \in UNION forest
      BY <2>2 DEF Ids
    <3>3. QED BY <3>1, <3>2
  <2>4. /\ \A b \in forest : b # {}
        /\ \A b, c \in forest : b # c => b \cap c = {}
    BY <2>1
  <2>5. QED BY <2>3, <2>4 DEF Partition
<1>4. Coarser(forest, Ids(msgs), SameId(msgs), first)
  BY <1>1, <1>3, LinksAre, JoinedAllIs
<1>5. Coarser(first, Ids(msgs), Replies(msgs), second)
  <2>1. Partition(first, Ids(msgs))
    BY <1>4 DEF Coarser
  <2>2. QED BY <1>1, <2>1, LinksAre, JoinedAllIs
<1>6. Coarser(second, Ids(msgs), SubjectPeers(msgs), third)
  <2>1. Partition(second, Ids(msgs))
    BY <1>5 DEF Coarser
  <2>2. QED BY <1>1, <2>1, LinksAre, JoinedAllIs
<1>7. Coarser(forest, Ids(msgs), SameId(msgs) \cup Replies(msgs), second)
  BY <1>4, <1>5, CoarserStill
<1>8. Coarser(forest, Ids(msgs), Links(msgs), third)
  <2>1. PICK two : two = SameId(msgs) \cup Replies(msgs)
    OBVIOUS
  <2>2. Coarser(forest, Ids(msgs), two \cup SubjectPeers(msgs), third)
    BY <1>6, <1>7, <2>1, CoarserStill
  <2>3. QED BY <2>1, <2>2 DEF Links
<1>9. QED BY <1>1, <1>2, <1>8

LEMMA RootIs ==
    ASSUME NEW msgs, Messages(msgs), NEW block, block # {}, block \subseteq Ids(msgs)
    PROVE  RootOf(msgs, block) \in block
<1>1. PICK parentless : parentless = {m.id : m \in {n \in msgs : n.id \in block /\ ~Linked(msgs, n)}}
  OBVIOUS
<1>2. parentless \subseteq block /\ block \in SUBSET Nat /\ parentless \in SUBSET Nat
  BY <1>1 DEF Messages, Ids
<1>3. RootOf(msgs, block) = IF parentless # {} THEN Min(parentless) ELSE Min(block)
  BY <1>1 DEF RootOf
<1>4. CASE parentless # {}
  <2>1. Min(parentless) \in parentless
    BY <1>2, <1>4, Least
  <2>2. QED BY <1>2, <1>3, <1>4, <2>1
<1>5. CASE parentless = {}
  <2>1. Min(block) \in block
    BY <1>2, Least
  <2>2. QED BY <1>3, <1>5, <2>1
<1>6. QED BY <1>4, <1>5

(* threading.rs: two messages get the same root exactly when they belong   *)
(* together, and the root is one of theirs.                                *)
THEOREM RootsAre ==
    ASSUME NEW msgs, Messages(msgs)
    PROVE  /\ \A m \in msgs : ThreadRoots(msgs)[m.id] \in Ids(msgs)
           /\ \A m, n \in msgs :
                  (ThreadRoots(msgs)[m.id] = ThreadRoots(msgs)[n.id])
                      <=> \A S \in Closed(msgs) : m \in S <=> n \in S
<1>1. PICK forest, singles : forest = Forest(msgs) /\ singles = {{m.id} : m \in msgs}
  OBVIOUS
<1>2. Coarser(singles, Ids(msgs), Links(msgs), forest)
  BY <1>1, ForestIs
<1>3. /\ UNION forest = Ids(msgs) /\ {} \notin forest
      /\ \A b, c \in forest : b # c => b \cap c = {}
      /\ \A link \in Links(msgs) : \E b \in forest : link \subseteq b
  BY <1>2 DEF Coarser, Partition, Ties
<1>4. ASSUME NEW m \in msgs
      PROVE  \E b \in forest : m.id \in b /\ ThreadRoots(msgs)[m.id] \in b
  <2>1. PICK b : b = CHOOSE block \in forest : m.id \in block
    OBVIOUS
  <2>2. m.id \in Ids(msgs)
    BY DEF Ids
  <2>3. b \in forest /\ m.id \in b
    BY <1>3, <2>1, <2>2
  <2>4. RootOf(msgs, b) \in b
    BY <1>3, <2>3, RootIs
  <2>5. ThreadRoots(msgs)[m.id] = RootOf(msgs, b)
    BY <1>1, <2>1 DEF ThreadRoots
  <2>6. QED BY <2>3, <2>4, <2>5
<1>5. \A m \in msgs : ThreadRoots(msgs)[m.id] \in Ids(msgs)
  BY <1>3, <1>4
<1>6. ASSUME NEW m \in msgs, NEW n \in msgs, ThreadRoots(msgs)[m.id] = ThreadRoots(msgs)[n.id],
             NEW S \in Closed(msgs)
      PROVE  m \in S <=> n \in S
  <2>1. PICK b \in forest : m.id \in b /\ n.id \in b
    <3>1. PICK b \in forest : m.id \in b /\ ThreadRoots(msgs)[m.id] \in b
      BY <1>4
    <3>2. PICK c \in forest : n.id \in c /\ ThreadRoots(msgs)[n.id] \in c
      BY <1>4
    <3>3. b = c
      BY <1>3, <1>6, <3>1, <3>2
    <3>4. QED BY <3>1, <3>2, <3>3
  <2>2. PICK T : T = {s.id : s \in S}
    OBVIOUS
  <2>3. \A o \in msgs : o.id \in T <=> o \in S
    BY <2>2 DEF Messages, Closed
  <2>4. \A link \in Links(msgs) : Whole(link, T)
    <3>1. ASSUME NEW x \in msgs, NEW y \in msgs, Related(msgs, x, y) \/ Related(msgs, y, x)
          PROVE  Whole({x.id, y.id}, T)
      <4>1. x \in S <=> y \in S
        BY <3>1 DEF Closed
      <4>2. QED BY <2>3, <4>1 DEF Whole
    <3>2. QED BY <3>1, LinksAre
  <2>5. \A single \in singles : Whole(single, T)
    BY <1>1 DEF Whole
  <2>6. Whole(b, T)
    BY <1>2, <2>4, <2>5 DEF Coarser
  <2>7. QED BY <2>1, <2>3, <2>6 DEF Whole
<1>7. ASSUME NEW m \in msgs, NEW n \in msgs, \A S \in Closed(msgs) : m \in S <=> n \in S
      PROVE  ThreadRoots(msgs)[m.id] = ThreadRoots(msgs)[n.id]
  <2>1. PICK b \in forest : m.id \in b
    BY <1>4
  <2>2. PICK S : S = {x \in msgs : x.id \in b}
    OBVIOUS
  <2>3. ASSUME NEW x \in msgs, NEW y \in msgs, Related(msgs, x, y) PROVE x \in S <=> y \in S
    <3>1. PICK c \in forest : x.id \in c /\ y.id \in c
      <4>1. PICK link : link = {x.id, y.id}
        OBVIOUS
      <4>2. link \in Links(msgs)
        BY <2>3, <4>1, LinksAre
      <4>3. QED BY <1>3, <4>1, <4>2
    <3>2. CASE c = b
      BY <2>2, <3>1, <3>2
    <3>3. CASE c # b
      BY <1>3, <2>1, <2>2, <3>1, <3>3
    <3>4. QED BY <3>2, <3>3
  <2>4. S \in Closed(msgs)
    BY <2>2, <2>3 DEF Closed
  <2>5. n.id \in b
    BY <1>7, <2>1, <2>2, <2>4
  <2>6. ASSUME NEW o \in msgs, o.id \in b PROVE ThreadRoots(msgs)[o.id] = RootOf(msgs, b)
    <3>1. PICK c : c = CHOOSE block \in forest : o.id \in block
      OBVIOUS
    <3>2. c = b
      BY <1>3, <2>6, <3>1
    <3>3. ThreadRoots(msgs)[o.id] = RootOf(msgs, c)
      BY <1>1, <3>1 DEF ThreadRoots
    <3>4. QED BY <3>2, <3>3
  <2>7. QED BY <2>1, <2>5, <2>6
<1>8. QED BY <1>5, <1>6, <1>7

-----------------------------------------------------------------------------
(* The conversations that the table has.                                   *)

(* What rethread is given, of tables as they are or will be.               *)
Inputs(heads, owners, folders, table) ==
    {[id |-> i, account |-> owners[folders[table[i].folder].box],
      mid |-> heads[table[i].mail].mid, ancestors |-> heads[table[i].mail].ancestors,
      subject |-> heads[table[i].mail].subject] : i \in DOMAIN table}
Settled(table) == \A i \in DOMAIN table : table[i].thread # 0
Rooted(heads, owners, folders, table) ==
    \A i \in DOMAIN table : table[i].thread = ThreadRoots(Inputs(heads, owners, folders, table))[i]

(* Where every row has a conversation and none was deleted since the last  *)
(* rethread, the conversations are those of the algorithm.                 *)
Headed == \A m \in Mails : Absent \notin headers[m].ancestors
Conversing == threaded /\ Settled(message) => Rooted(headers, owner, folder, message)

(* The tables may change in all that the algorithm does not see.           *)
SameMail(folders, table, folders2, table2) ==
    /\ DOMAIN table2 = DOMAIN table
    /\ \A i \in DOMAIN table : /\ table2[i].mail = table[i].mail
                               /\ folders2[table2[i].folder].box = folders[table[i].folder].box

LEMMA InputsStay ==
    ASSUME NEW heads, NEW owners, NEW folders, NEW table, NEW folders2, NEW table2,
           SameMail(folders, table, folders2, table2)
    PROVE  Inputs(heads, owners, folders2, table2) = Inputs(heads, owners, folders, table)
BY DEF SameMail, Inputs

LEMMA RootedStill ==
    ASSUME NEW heads, NEW owners, NEW folders, NEW table, NEW folders2, NEW table2,
           SameMail(folders, table, folders2, table2),
           \A i \in DOMAIN table : table2[i].thread = table[i].thread
    PROVE  /\ Settled(table2) <=> Settled(table)
           /\ Rooted(heads, owners, folders2, table2) <=> Rooted(heads, owners, folders, table)
<1>1. Inputs(heads, owners, folders2, table2) = Inputs(heads, owners, folders, table)
  BY InputsStay
<1>2. DOMAIN table2 = DOMAIN table
  BY DEF SameMail
<1>3. QED BY <1>1, <1>2 DEF Settled, Rooted

LEMMA ConversationsStay ==
    ASSUME Conversing, UNCHANGED <<headers, owner>>, threaded' => threaded,
           SameMail(folder, message, folder', message'),
           \A i \in DOMAIN message : message'[i].thread = message[i].thread
    PROVE  Conversing'
<1>1. PICK folders2, table2 : folders2 = folder' /\ table2 = message'
  OBVIOUS
<1>2. /\ SameMail(folder, message, folders2, table2)
      /\ \A i \in DOMAIN message : table2[i].thread = message[i].thread
  BY <1>1
<1>3. /\ Settled(table2) <=> Settled(message)
      /\ Rooted(headers, owner, folders2, table2) <=> Rooted(headers, owner, folder, message)
  BY <1>2, RootedStill
<1>4. QED BY <1>1, <1>3 DEF Conversing

LEMMA ShapeOf ==
    ASSUME NEW m, m \in MessageRow(m), NEW v
    PROVE  /\ [m EXCEPT !.thread = v].thread = v /\ [m EXCEPT !.thread = v].mail = m.mail
           /\ [m EXCEPT !.thread = v].folder = m.folder
           /\ [m EXCEPT !.parts = v].thread = m.thread /\ [m EXCEPT !.parts = v].mail = m.mail
           /\ [m EXCEPT !.parts = v].folder = m.folder
           /\ [m EXCEPT !.body = v].thread = m.thread /\ [m EXCEPT !.body = v].mail = m.mail
           /\ [m EXCEPT !.body = v].folder = m.folder
BY DEF MessageRow

(* What upsert_messages makes of the table before rethread: a row is as it *)
(* was, or has no conversation yet.                                        *)
LEMMA UpsertedRows ==
    ASSUME Inv, NEW f \in DOMAIN folder, NEW flagged \in SUBSET Uids, NEW fetched,
           fetched = Fetched(f, mailbox[folder[f].box], flagged),
           NEW table, table = fetched.tables.message
    PROVE  /\ fetched.gone = {} => DOMAIN message \subseteq DOMAIN table
           /\ \A i \in DOMAIN table :
                  /\ \A v : /\ [table[i] EXCEPT !.thread = v].thread = v
                            /\ [table[i] EXCEPT !.thread = v].mail = table[i].mail
                            /\ [table[i] EXCEPT !.thread = v].folder = table[i].folder
                  /\ table[i].folder \in DOMAIN folder
                  /\ \/ table[i].thread = 0
                     \/ i \in DOMAIN message /\ table[i] = message[i]
<1> DEFINE box == mailbox[folder[f].box]
           gone == IF Stale(f, box) THEN Rows(f, Uids) ELSE {}
           known == IF Stale(f, box) THEN {} ELSE UidsOf(f)
           present == {u \in Uids : box.at[u] # None}
           changed == (present \ known) \cup (flagged \cap known \cap present)
<1>1. /\ fetched.tables = Upserted(Cleared(gone), f, box, changed) /\ fetched.gone = gone
      /\ changed \in SUBSET Uids
  BY DEF Fetched
<1>2. PICK tables, r : tables = Cleared(gone) /\ r = Upserted(tables, f, box, changed)
  OBVIOUS
<1>3. table = r.message
  BY <1>1, <1>2
<1>4. /\ DOMAIN tables.message = DOMAIN message \ gone
      /\ \A i \in DOMAIN tables.message : tables.message[i] = message[i]
  BY <1>2 DEF Cleared, Without, Restrict
<1>5. Typed /\ OneRowEach
  BY DEF Inv
<1>6. Table(tables.message) /\ Apart(tables.message)
  BY <1>4, <1>5 DEF Typed, Table, OneRowEach, Apart
<1> HIDE DEF gone, known, present, changed, box
<1>7. /\ DOMAIN tables.message \subseteq DOMAIN r.message
      /\ \A i \in DOMAIN r.message :
             \/ Untouched(tables, r, f, changed, i)
             \/ \E u \in changed : Stored(tables, r, f, box, u, i)
  BY <1>1, <1>2, <1>6, UpsertedIs
<1>8. ASSUME NEW i \in DOMAIN table
      PROVE  /\ \A v : /\ [table[i] EXCEPT !.thread = v].thread = v
                       /\ [table[i] EXCEPT !.thread = v].mail = table[i].mail
                       /\ [table[i] EXCEPT !.thread = v].folder = table[i].folder
             /\ table[i].folder \in DOMAIN folder
             /\ table[i].thread = 0 \/ (i \in DOMAIN message /\ table[i] = message[i])
  <2>1. CASE Untouched(tables, r, f, changed, i)
    <3>1. i \in DOMAIN message /\ table[i] = message[i]
      BY <1>3, <1>4, <2>1 DEF Untouched
    <3>2. message[i] \in MessageRow(message[i]) /\ message[i].folder \in DOMAIN folder
      BY <1>5, <3>1 DEF Typed
    <3>3. QED BY <3>1, <3>2, ShapeOf
  <2>2. ASSUME NEW u \in changed, Stored(tables, r, f, box, u, i)
        PROVE  /\ \A v : /\ [table[i] EXCEPT !.thread = v].thread = v
                         /\ [table[i] EXCEPT !.thread = v].mail = table[i].mail
                         /\ [table[i] EXCEPT !.thread = v].folder = table[i].folder
               /\ table[i].folder = f /\ table[i].thread = 0
    <3>1. PICK mail, parts :
              table[i] = [folder |-> f, uid |-> u, mail |-> mail, body |-> "none",
                          parts |-> parts, thread |-> 0]
      BY <1>3, <2>2 DEF Stored
    <3>2. QED BY <3>1
  <2>3. QED BY <1>3, <1>7, <2>1, <2>2
<1>9. QED BY <1>1, <1>3, <1>4, <1>7, <1>8

LEMMA FolderBoxes ==
    ASSUME Inv, NEW f \in DOMAIN folder, NEW fetched, Stores(f, fetched)
    PROVE  UNCHANGED <<headers, owner>> /\ \A g \in DOMAIN folder : folder'[g].box = folder[g].box
<1>1. folder[f] \in FolderRow
  BY DEF Inv, Typed
<1>2. QED BY <1>1 DEF Stores, FolderRow

LEMMA FolderRethreaded ==
    ASSUME Inv, NEW a \in Accounts, NEW f \in DOMAIN folder, SyncFolder(a, f)
    PROVE  Conversing'
<1>1. PICK flagged \in SUBSET Uids :
          LET fetched == Fetched(f, mailbox[folder[f].box], flagged) IN
          Stores(f, fetched) /\ message' = Rethreaded(fetched.tables.message)
  BY DEF SyncFolder
<1>2. PICK fetched, table : /\ fetched = Fetched(f, mailbox[folder[f].box], flagged)
                            /\ table = fetched.tables.message
  OBVIOUS
<1>3. Stores(f, fetched) /\ message' = Rethreaded(table)
  BY <1>1, <1>2
<1>4. PICK roots : roots = ThreadRoots(Inputs(headers, owner, folder, table))
  OBVIOUS
<1>5. PICK new : message' = new /\ new = [i \in DOMAIN table |-> [table[i] EXCEPT !.thread = roots[i]]]
  BY <1>3, <1>4 DEF Rethreaded, ThreadInputs, Inputs
<1>6. UNCHANGED <<headers, owner>> /\ \A g \in DOMAIN folder : folder'[g].box = folder[g].box
  BY <1>3, FolderBoxes
<1>7. \A i \in DOMAIN table : /\ new[i].thread = roots[i] /\ new[i].mail = table[i].mail
                              /\ new[i].folder = table[i].folder
                              /\ table[i].folder \in DOMAIN folder
  <2>1. ASSUME NEW i \in DOMAIN table
        PROVE  /\ new[i].thread = roots[i] /\ new[i].mail = table[i].mail
               /\ new[i].folder = table[i].folder /\ table[i].folder \in DOMAIN folder
    <3>1. PICK v : v = roots[i]
      OBVIOUS
    <3>2. new[i] = [table[i] EXCEPT !.thread = v]
      BY <1>5, <3>1
    <3>3. /\ \A x : /\ [table[i] EXCEPT !.thread = x].thread = x
                    /\ [table[i] EXCEPT !.thread = x].mail = table[i].mail
                    /\ [table[i] EXCEPT !.thread = x].folder = table[i].folder
          /\ table[i].folder \in DOMAIN folder
      BY <1>2, UpsertedRows
    <3>4. QED BY <3>1, <3>2, <3>3
  <2>2. QED BY <2>1
<1>8. PICK folders2 : folders2 = folder'
  OBVIOUS
<1>9. SameMail(folder, table, folders2, new)
  BY <1>5, <1>6, <1>7, <1>8 DEF SameMail
<1>10. Inputs(headers, owner, folders2, new) = Inputs(headers, owner, folder, table)
  BY <1>9, InputsStay
<1>11. Rooted(headers, owner, folders2, new)
  BY <1>4, <1>5, <1>7, <1>10 DEF Rooted
<1>12. QED BY <1>5, <1>6, <1>8, <1>11 DEF Conversing

LEMMA ConversationsCrash ==
    ASSUME Inv, Conversing, Crash
    PROVE  Conversing'
<1>1. CASE UNCHANGED <<headers, owner, folder, message, threaded>>
  <2>1. SameMail(folder, message, folder', message')
    BY <1>1 DEF SameMail
  <2>2. QED BY <1>1, <2>1, ConversationsStay
<1>2. ASSUME NEW a \in Accounts, NEW f \in worker[a].todo, NEW flagged \in SUBSET Uids,
             LET fetched == Fetched(f, mailbox[folder[f].box], flagged)
             IN  /\ Stores(f, fetched) /\ message' = fetched.tables.message
                 /\ threaded' = (threaded /\ fetched.gone = {})
      PROVE  Conversing'
  <2>1. PICK fetched, table : /\ fetched = Fetched(f, mailbox[folder[f].box], flagged)
                              /\ table = fetched.tables.message
    OBVIOUS
  <2>2. /\ Stores(f, fetched) /\ message' = table
        /\ threaded' = (threaded /\ fetched.gone = {})
    BY <1>2, <2>1
  <2>3. f \in DOMAIN folder
    BY DEF Inv, Homes, Home, FoldersOf
  <2>4. UNCHANGED <<headers, owner>> /\ \A g \in DOMAIN folder : folder'[g].box = folder[g].box
    BY <2>2, <2>3, FolderBoxes
  <2>5. /\ fetched.gone = {} => DOMAIN message \subseteq DOMAIN table
        /\ \A i \in DOMAIN table : table[i].thread = 0 \/ (i \in DOMAIN message /\ table[i] = message[i])
    BY <2>1, <2>3, UpsertedRows
  <2>6. CASE ~(threaded' /\ Settled(table))
    BY <2>2, <2>6 DEF Conversing
  <2>7. CASE threaded' /\ Settled(table)
    <3>1. /\ DOMAIN table = DOMAIN message
          /\ \A i \in DOMAIN message : table[i] = message[i]
      BY <2>2, <2>5, <2>7 DEF Settled
    <3>2. \A i \in DOMAIN message : message[i].folder \in DOMAIN folder
      BY DEF Inv, Typed
    <3>3. SameMail(folder, message, folder', message')
      BY <2>2, <2>4, <3>1, <3>2 DEF SameMail
    <3>4. QED BY <2>2, <2>4, <2>7, <3>1, <3>3, ConversationsStay
  <2>8. QED BY <2>6, <2>7
<1>3. QED BY <1>1, <1>2 DEF Crash, store

LEMMA RowsGone ==
    ASSUME Inv, Conversing, NEW ids, message' = Without(message, ids),
           threaded' = (threaded /\ ids = {}), UNCHANGED <<headers, owner>>,
           \A i \in DOMAIN message \ ids : folder'[message[i].folder].box = folder[message[i].folder].box
    PROVE  Conversing'
<1>1. CASE ids = {}
  <2>1. DOMAIN message' = DOMAIN message /\ \A i \in DOMAIN message : message'[i] = message[i]
    BY <1>1 DEF Without, Restrict
  <2>2. SameMail(folder, message, folder', message')
    BY <1>1, <2>1 DEF SameMail
  <2>3. QED BY <2>1, <2>2, ConversationsStay
<1>2. CASE ids # {}
  BY <1>2 DEF Conversing
<1>3. QED BY <1>1, <1>2

LEMMA ConversationsWork ==
    ASSUME Inv, Conversing, NEW a \in Accounts, Work(a)
    PROVE  Conversing'
<1>1. CASE UNCHANGED <<headers, owner, folder, message, threaded>>
  <2>1. SameMail(folder, message, folder', message')
    BY <1>1 DEF SameMail
  <2>2. QED BY <1>1, <2>1, ConversationsStay
<1>2. \A i \in DOMAIN message :
          message[i] \in MessageRow(message[i]) /\ message[i].folder \in DOMAIN folder
  BY DEF Inv, Typed
<1>3. CASE SyncFolders(a)
  <2>1. PICK lost, missing :
            /\ missing = MissingFolders(a) /\ lost = Cascaded(missing)
            /\ message' = Without(message, lost) /\ threaded' = (threaded /\ lost = {})
            /\ UNCHANGED <<headers, owner>>
    BY <1>3 DEF SyncFolders
  <2>2. PICK table \in Discovered(a) : folder' = Without(table, missing)
    BY <1>3, <2>1 DEF SyncFolders
  <2>3. \A f \in DOMAIN folder : f \in DOMAIN table /\ table[f] = folder[f]
    <3>1. PICK boxes : /\ boxes = Listed(a) \ {folder[f].box : f \in DOMAIN folder}
                       /\ boxes \in SUBSET Boxes
      BY DEF Listed
    <3>2. table \in Added(folder, boxes) /\ Table(folder)
      BY <3>1 DEF Discovered, Inv, Typed
    <3>3. QED BY <3>1, <3>2, AddedIs
  <2>4. \A f \in DOMAIN folder \ missing : folder'[f] = folder[f]
    BY <2>2, <2>3 DEF Without, Restrict
  <2>5. \A i \in DOMAIN message \ lost : message[i].folder \in DOMAIN folder \ missing
    BY <1>2, <2>1 DEF Cascaded
  <2>6. QED BY <2>1, <2>4, <2>5, RowsGone
<1>4. CASE \E f \in DOMAIN folder : SyncFolder(a, f)
  BY <1>4, FolderRethreaded
<1>5. CASE DeleteVanished(a)
  <2>1. PICK ids : ids = Rows(worker[a].folder, worker[a].vanished)
    OBVIOUS
  <2>2. /\ message' = Without(message, ids) /\ threaded' = (threaded /\ ids = {})
        /\ UNCHANGED <<headers, owner, folder>>
    BY <1>5, <2>1 DEF DeleteVanished, DeleteRows, Cleared
  <2>3. QED BY <2>2, RowsGone
<1>6. CASE SetMessageBody(a)
  <2>1. PICK ids : /\ message' = [i \in DOMAIN message |->
                                     IF i \in ids THEN [message[i] EXCEPT !.body = "full"]
                                     ELSE message[i]]
                   /\ UNCHANGED <<headers, owner, folder, threaded>>
    BY <1>6 DEF SetMessageBody, history
  <2>2. /\ DOMAIN message' = DOMAIN message
        /\ \A i \in DOMAIN message : /\ message'[i].thread = message[i].thread
                                     /\ message'[i].mail = message[i].mail
                                     /\ message'[i].folder = message[i].folder
    BY <1>2, <2>1, ShapeOf
  <2>3. SameMail(folder, message, folder', message')
    BY <2>1, <2>2 DEF SameMail
  <2>4. QED BY <2>1, <2>2, <2>3, ConversationsStay
<1>7. CASE ReplaceAttachments(a)
  <2>1. PICK row, parts :
            /\ message' = [message EXCEPT ![row].parts = parts]
            /\ UNCHANGED <<headers, owner, folder, threaded>>
    BY <1>7 DEF ReplaceAttachments
  <2>2. /\ DOMAIN message' = DOMAIN message
        /\ \A i \in DOMAIN message :
               message'[i] = IF i = row THEN [message[i] EXCEPT !.parts = parts] ELSE message[i]
    BY <2>1
  <2>3. \A i \in DOMAIN message : /\ message'[i].thread = message[i].thread
                                  /\ message'[i].mail = message[i].mail
                                  /\ message'[i].folder = message[i].folder
    <3>1. ASSUME NEW i \in DOMAIN message
          PROVE  /\ message'[i].thread = message[i].thread
                 /\ message'[i].mail = message[i].mail
                 /\ message'[i].folder = message[i].folder
      <4>1. PICK new, old : new = message'[i] /\ old = message[i]
        OBVIOUS
      <4>2. new = old \/ new = [old EXCEPT !.parts = parts]
        BY <2>2, <4>1
      <4>3. old \in MessageRow(old)
        BY <1>2, <4>1
      <4>4. new.thread = old.thread /\ new.mail = old.mail /\ new.folder = old.folder
        <5>1. CASE new = old
          BY <5>1
        <5>2. CASE new = [old EXCEPT !.parts = parts]
          BY <4>3, <5>2 DEF MessageRow
        <5>3. QED BY <4>2, <5>1, <5>2
      <4>5. QED BY <4>1, <4>4
    <3>2. QED BY <3>1
  <2>4. SameMail(folder, message, folder', message')
    BY <2>1, <2>2, <2>3 DEF SameMail
  <2>5. QED BY <2>1, <2>2, <2>3, <2>4, ConversationsStay
<1>8. CASE \/ Sync(a) \/ ReplayOne(a) \/ SelectFails(a) \/ IndexBody(a) \/ RowGone(a) \/ Fail(a)
           \/ \E f \in DOMAIN folder, u \in Uids : FetchMessage(a, f, u)
  BY <1>1, <1>8 DEF Sync, ReplayOne, SelectFails, IndexBody, RowGone, Fail, FetchMessage, store,
     history
<1>9. QED BY <1>3, <1>4, <1>5, <1>6, <1>7, <1>8 DEF Work

LEMMA ConversationsNext == Inv /\ Conversing /\ [Next]_vars => Conversing'
<1> SUFFICES ASSUME Inv, Conversing, [Next]_vars PROVE Conversing'
  OBVIOUS
<1>1. CASE UNCHANGED <<headers, owner, folder, message, threaded>>
  <2>1. SameMail(folder, message, folder', message')
    BY <1>1 DEF SameMail
  <2>2. QED BY <1>1, <2>1, ConversationsStay
<1>2. CASE Server
  BY <1>1, <1>2 DEF Server, Deliver, Expunge, RemoveBox, Rebuild, Happens, store, history
<1>3. CASE Crash
  BY <1>3, ConversationsCrash
<1>4. CASE \E a \in Accounts : Work(a)
  BY <1>4, ConversationsWork
<1>5. ASSUME NEW i \in DOMAIN message, Delete(i) PROVE Conversing'
  <2>1. /\ message' = Without(message, {i}) /\ threaded' = (threaded /\ {i} = {})
        /\ UNCHANGED <<headers, owner, folder>>
    BY <1>5 DEF Delete, DeleteRows, Cleared
  <2>2. QED BY <2>1, RowsGone
<1>6. CASE UNCHANGED vars
  BY <1>1, <1>6 DEF vars, store, history
<1>7. QED BY <1>2, <1>3, <1>4, <1>5, <1>6 DEF Next

(* The headers of the mails are never changed.                             *)
LEMMA HeadedNext == Headed /\ [Next]_vars => Headed'
<1>1. ASSUME [Next]_vars PROVE UNCHANGED headers
  <2>1. CASE Server
    BY <2>1 DEF Server, Deliver, Expunge, RemoveBox, Rebuild, Happens, store, history
  <2>2. CASE Crash
    BY <2>2 DEF Crash, Stores
  <2>3. ASSUME NEW a \in Accounts, Work(a) PROVE UNCHANGED headers
    <3>1. CASE Sync(a) \/ ReplayOne(a) \/ SyncFolders(a) \/ \E f \in DOMAIN folder : SyncFolder(a, f)
      <4>1. CASE Sync(a) \/ ReplayOne(a)
        BY <4>1 DEF Sync, ReplayOne
      <4>2. CASE SyncFolders(a)
        BY <4>2 DEF SyncFolders
      <4>3. CASE \E f \in DOMAIN folder : SyncFolder(a, f)
        BY <4>3 DEF SyncFolder, Stores
      <4>4. QED BY <3>1, <4>1, <4>2, <4>3
    <3>2. CASE DeleteVanished(a) \/ SelectFails(a) \/ Fail(a)
      BY <3>2 DEF DeleteVanished, SelectFails, Fail
    <3>3. CASE \E f \in DOMAIN folder, u \in Uids : FetchMessage(a, f, u)
      BY <3>3 DEF FetchMessage
    <3>4. CASE SetMessageBody(a) \/ ReplaceAttachments(a) \/ IndexBody(a) \/ RowGone(a)
      BY <3>4 DEF SetMessageBody, ReplaceAttachments, IndexBody, RowGone
    <3>5. QED BY <2>3, <3>1, <3>2, <3>3, <3>4 DEF Work
  <2>4. ASSUME NEW i \in DOMAIN message, Delete(i) PROVE UNCHANGED headers
    BY <2>4 DEF Delete
  <2>5. CASE UNCHANGED vars
    BY <2>5 DEF vars
  <2>6. QED BY <1>1, <2>1, <2>2, <2>3, <2>4, <2>5 DEF Next
<1>2. QED BY <1>1 DEF Headed

LEMMA ConversationsInit == Init => Headed /\ Conversing
<1> SUFFICES ASSUME Init PROVE Headed /\ Conversing
  OBVIOUS
<1>1. message = <<>>
  BY DEF Init
<1>2. PICK world \in Worlds : headers = world.headers
  BY DEF Init
<1>3. headers \in [Mails -> [mid : Mails \cup {Absent}, ancestors : SUBSET (Mails \cup {None}),
                           subject : Mails \cup {Absent}]]
  BY <1>2, MessageStoreAssumption
<1>4. Headed
  BY <1>3, MessageStoreAssumption DEF Headed
<1>5. Conversing
  BY <1>1 DEF Conversing, Rooted
<1>6. QED BY <1>4, <1>5

(* Every row is there in rethread's input, and none twice.                 *)
LEMMA InputsAre ==
    ASSUME Inv, Headed
    PROVE  /\ Messages(ThreadInputs(message)) /\ Ids(ThreadInputs(message)) = DOMAIN message
           /\ ThreadInputs(message) = Inputs(headers, owner, folder, message)
<1>1. Typed
  BY DEF Inv
<1>2. PICK msgs : msgs = ThreadInputs(message)
  OBVIOUS
<1>3. PICK f : f = [i \in DOMAIN message |->
          [id |-> i, account |-> owner[folder[message[i].folder].box],
           mid |-> headers[message[i].mail].mid,
           ancestors |-> headers[message[i].mail].ancestors,
           subject |-> headers[message[i].mail].subject]]
  OBVIOUS
<1>4. msgs = {f[i] : i \in DOMAIN message}
  BY <1>2, <1>3 DEF ThreadInputs
<1>5. \A i \in DOMAIN message :
          f[i].id = i /\ f[i].ancestors = headers[message[i].mail].ancestors
  BY <1>3
<1>6. IsFiniteSet(msgs)
  <2>1. PICK n \in Nat : DOMAIN message \subseteq 1 .. n
    BY <1>1 DEF Typed, Table
  <2>2. IsFiniteSet(DOMAIN message)
    <3>1. IsFiniteSet(1 .. n)
      BY FS_Interval
    <3>2. QED BY <2>1, <3>1, FS_Subset
  <2>3. f \in Surjection(DOMAIN message, msgs)
    BY <1>3, <1>4 DEF Surjection
  <2>4. QED BY <2>2, <2>3, FS_Surjection
<1>7. Messages(msgs)
  <2>1. \A m \in msgs : m.id \in Nat /\ Absent \notin m.ancestors
    BY <1>1, <1>4, <1>5 DEF Typed, Table, MessageRow, Headed
  <2>2. \A m, n \in msgs : m.id = n.id => m = n
    BY <1>4, <1>5
  <2>3. QED BY <1>6, <2>1, <2>2 DEF Messages
<1>8. Ids(msgs) = DOMAIN message
  BY <1>4, <1>5 DEF Ids
<1>9. QED BY <1>2, <1>7, <1>8 DEF ThreadInputs, Inputs

(* threading.rs and rethread: as long as nothing was deleted since, two    *)
(* messages are one conversation exactly when an id, a reply or a subject  *)
(* leads from one to the other, however many there are and in whichever    *)
(* order they came.                                                        *)
THEOREM ConversationsBelongTogether == Spec => []ThreadsAreConversations
<1>1. Inv /\ Headed /\ Conversing => ThreadsAreConversations
  <2> SUFFICES ASSUME Inv, Headed, Conversing, threaded,
                      \A i \in DOMAIN message : message[i].thread # 0
               PROVE  LET msgs == ThreadInputs(message) IN
                      /\ \A m \in msgs : message[m.id].thread \in DOMAIN message
                      /\ \A m, n \in msgs :
                             (message[m.id].thread = message[n.id].thread)
                                 <=> \A S \in Closed(msgs) : m \in S <=> n \in S
    BY DEF ThreadsAreConversations
  <2>1. PICK msgs : msgs = ThreadInputs(message)
    OBVIOUS
  <2>2. Messages(msgs) /\ Ids(msgs) = DOMAIN message
    BY <2>1, InputsAre
  <2>3. \A i \in DOMAIN message : message[i].thread = ThreadRoots(msgs)[i]
    BY <2>1, InputsAre DEF Conversing, Settled, Rooted
  <2>4. \A m \in msgs : message[m.id].thread = ThreadRoots(msgs)[m.id]
    BY <2>2, <2>3 DEF Ids
  <2>5. /\ \A m \in msgs : ThreadRoots(msgs)[m.id] \in Ids(msgs)
        /\ \A m, n \in msgs : (ThreadRoots(msgs)[m.id] = ThreadRoots(msgs)[n.id])
                                  <=> \A S \in Closed(msgs) : m \in S <=> n \in S
    BY <2>2, RootsAre
  <2>6. QED BY <2>1, <2>2, <2>4, <2>5
<1>2. QED BY <1>1, InitInv, InvNext, ConversationsInit, ConversationsNext, HeadedNext, PTL DEF Spec
=============================================================================
