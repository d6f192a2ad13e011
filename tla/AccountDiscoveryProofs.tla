----------------------- MODULE AccountDiscoveryProofs -----------------------
(***************************************************************************)
(* What holds of AccountDiscovery for any accounts of the desktop, any     *)
(* number of changes and any failures.                                     *)
(***************************************************************************)
EXTENDS AccountDiscovery, FiniteSetTheorems, FunctionTheorems, WellFoundedInduction, TLAPS

-----------------------------------------------------------------------------
(* The least and the greatest of a set of numbers.                         *)
LEMMA Least ==
    ASSUME NEW S \in SUBSET Nat, S # {}
    PROVE  Min(S) \in S /\ \A y \in S : Min(S) <= y
<1>1. \E x \in S : \A y \in S : <<y, x>> \notin OpToRel(<, Nat)
  BY NatLessThanWellFounded, WFMin
<1>2. \A x, y \in Nat : <<y, x>> \notin OpToRel(<, Nat) => x <= y
  BY DEF OpToRel
<1>3. \E x \in S : \A y \in S : x <= y
  BY <1>1, <1>2
<1>4. QED BY <1>3 DEF Min

LEMMA Greatest ==
    ASSUME NEW S \in SUBSET Nat, S # {}, NEW n \in Nat, \A i \in S : i <= n
    PROVE  Max(S) \in S /\ \A y \in S : y <= Max(S)
<1> DEFINE bounds == {u \in Nat : \A i \in S : i <= u}
<1>1. Min(bounds) \in bounds /\ \A u \in bounds : Min(bounds) <= u
  BY Least
<1>2. PICK m \in Nat : m \in bounds /\ \A u \in bounds : m <= u
  BY <1>1
<1>3. m \in S
  <2>1. SUFFICES ASSUME m \notin S PROVE FALSE
    OBVIOUS
  <2>2. PICK i \in S : TRUE
    OBVIOUS
  <2>3. m - 1 \in Nat /\ \A j \in S : j <= m - 1
    BY <1>2, <2>1, <2>2
  <2>4. m <= m - 1
    BY <1>2, <2>3
  <2>5. QED BY <2>4
<1>4. \E x \in S : \A y \in S : x >= y
  BY <1>2, <1>3
<1>5. QED BY <1>4 DEF Max

-----------------------------------------------------------------------------
(* The merge.                                                              *)

(* What is read of a backend, and the lists that come of it: an identity   *)
(* is that of one account.                                                 *)
Reads(ids) == UNION {[some -> Emails] : some \in SUBSET ids}
Accounts == [goa : Ids \cup {None}, eds : Ids \cup {None}, email : Emails]
Distinct(list) == \A a, b \in list : Identity(a) = Identity(b) => a = b
Lists == {list \in SUBSET Accounts : Identities(list) \subseteq Ids /\ Distinct(list)}

LEMMA NoneIsNoId == None \notin Ids /\ Ids \subseteq Nat \ {0} /\ Goa \subseteq Ids /\ Eds \subseteq Ids
BY AccountDiscoveryAssumption DEF Ids

LEMMA ReadIs ==
    ASSUME NEW ids, NEW read \in Reads(ids)
    PROVE  DOMAIN read \subseteq ids /\ \A x \in DOMAIN read : read[x] \in Emails
BY DEF Reads

LEMMA FirstSource ==
    ASSUME NEW eds \in Reads(Eds)
    PROVE  /\ DOMAIN EdsByEmail(eds) = {eds[x] : x \in DOMAIN eds}
           /\ \A m \in DOMAIN EdsByEmail(eds) :
                 EdsByEmail(eds)[m] \in DOMAIN eds /\ eds[EdsByEmail(eds)[m]] = m
<1>1. DOMAIN eds \subseteq Nat
  BY ReadIs, NoneIsNoId
<1>2. ASSUME NEW m \in {eds[x] : x \in DOMAIN eds}
      PROVE  LET of == {x \in DOMAIN eds : eds[x] = m} IN Min(of) \in of
  <2>1. {x \in DOMAIN eds : eds[x] = m} \in SUBSET Nat /\ {x \in DOMAIN eds : eds[x] = m} # {}
    BY <1>1
  <2>2. QED BY <2>1, Least
<1>3. QED BY <1>2 DEF EdsByEmail

(* The account of the list that x of GOA, and a source that was left, is.  *)
Joined(goa, eds, x) ==
    Account(x, IF goa[x] \in DOMAIN EdsByEmail(eds) /\ FirstOfAddress(goa, x)
               THEN EdsByEmail(eds)[goa[x]] ELSE None, goa[x])
Lone(eds, m) == Account(None, EdsByEmail(eds)[m], m)
LeftOver(goa, eds) == DOMAIN EdsByEmail(eds) \ {goa[x] : x \in DOMAIN goa}

LEMMA MergedAre ==
    ASSUME NEW goa, NEW eds
    PROVE  Merged(goa, eds) = {Joined(goa, eds, x) : x \in DOMAIN goa}
                                  \cup {Lone(eds, m) : m \in LeftOver(goa, eds)}
BY DEF Merged, Joined, Lone, LeftOver

LEMMA MergedFields ==
    ASSUME NEW goa \in Reads(Goa), NEW eds \in Reads(Eds)
    PROVE  /\ \A x \in DOMAIN goa :
                 /\ Joined(goa, eds, x) \in Accounts
                 /\ Joined(goa, eds, x).goa = x /\ Joined(goa, eds, x).email = goa[x]
                 /\ Identity(Joined(goa, eds, x)) = x
                 /\ x \in Goa /\ x # None
           /\ \A m \in LeftOver(goa, eds) :
                 /\ Lone(eds, m) \in Accounts
                 /\ Lone(eds, m).goa = None /\ Lone(eds, m).email = m
                 /\ Lone(eds, m).eds = EdsByEmail(eds)[m]
                 /\ EdsByEmail(eds)[m] \in Eds /\ eds[EdsByEmail(eds)[m]] = m
                 /\ Identity(Lone(eds, m)) = EdsByEmail(eds)[m]
<1>1. /\ \A x \in DOMAIN goa : x \in Goa /\ goa[x] \in Emails
      /\ \A x \in DOMAIN eds : x \in Eds /\ eds[x] \in Emails
  BY ReadIs
<1>2. \A m \in DOMAIN EdsByEmail(eds) :
         EdsByEmail(eds)[m] \in Eds /\ eds[EdsByEmail(eds)[m]] = m /\ m \in Emails
  BY <1>1, FirstSource
<1>3. ASSUME NEW x \in DOMAIN goa
      PROVE  /\ Joined(goa, eds, x) \in Accounts
             /\ Joined(goa, eds, x).goa = x /\ Joined(goa, eds, x).email = goa[x]
             /\ Identity(Joined(goa, eds, x)) = x
             /\ x \in Goa /\ x # None
  BY <1>1, <1>2, NoneIsNoId DEF Joined, Account, Accounts, Identity
<1>4. ASSUME NEW m \in LeftOver(goa, eds)
      PROVE  /\ Lone(eds, m) \in Accounts
             /\ Lone(eds, m).goa = None /\ Lone(eds, m).email = m
             /\ Lone(eds, m).eds = EdsByEmail(eds)[m]
             /\ EdsByEmail(eds)[m] \in Eds /\ eds[EdsByEmail(eds)[m]] = m
             /\ Identity(Lone(eds, m)) = EdsByEmail(eds)[m]
  BY <1>2, NoneIsNoId DEF Lone, Account, Accounts, Identity, LeftOver
<1>5. QED BY <1>3, <1>4

LEMMA MergedIsList ==
    ASSUME NEW goa \in Reads(Goa), NEW eds \in Reads(Eds)
    PROVE  Merged(goa, eds) \in Lists
<1> DEFINE list == Merged(goa, eds)
<1>1. /\ list = {Joined(goa, eds, x) : x \in DOMAIN goa}
                    \cup {Lone(eds, m) : m \in LeftOver(goa, eds)}
      /\ Goa \cap Eds = {}
  BY MergedAre, AccountDiscoveryAssumption
<1> HIDE DEF list
<1>2. list \in SUBSET Accounts
  BY <1>1, MergedFields
<1>3. Identities(list) \subseteq Ids
  <2>1. \A a \in list : Identity(a) \in Goa \cup Eds
    BY <1>1, MergedFields
  <2>2. QED BY <2>1 DEF Identities, Ids
<1>4. Distinct(list)
  <2>1. ASSUME NEW a \in list, NEW b \in list, Identity(a) = Identity(b) PROVE a = b
    <3>1. CASE \E x \in DOMAIN goa : a = Joined(goa, eds, x)
      BY <1>1, <2>1, <3>1, MergedFields
    <3>2. CASE \E m \in LeftOver(goa, eds) : a = Lone(eds, m)
      BY <1>1, <2>1, <3>2, MergedFields
    <3>3. QED BY <1>1, <3>1, <3>2
  <2>2. QED BY <2>1 DEF Distinct
<1>5. QED BY <1>2, <1>3, <1>4 DEF Lists, list

(* Whatever the two backends have, every GOA account is in the list once,  *)
(* and so is every address of the sources, with the GOA account that has   *)
(* it.                                                                     *)
LEMMA MergedOnceOnly ==
    ASSUME NEW goa \in Reads(Goa), NEW eds \in Reads(Eds)
    PROVE  LET list == Merged(goa, eds) IN
           /\ \A x \in DOMAIN goa : Cardinality({a \in list : a.goa = x}) = 1
           /\ \A x \in DOMAIN eds :
                  LET of == {a \in list : a.eds # None /\ a.email = eds[x]} IN
                  /\ Cardinality(of) = 1
                  /\ \A a \in of :
                         /\ eds[a.eds] = a.email
                         /\ a.goa = None <=> \A y \in DOMAIN goa : goa[y] # a.email
<1> DEFINE list == Merged(goa, eds)
<1>1. list = {Joined(goa, eds, x) : x \in DOMAIN goa}
                 \cup {Lone(eds, m) : m \in LeftOver(goa, eds)}
  BY MergedAre
<1> HIDE DEF list
<1>2. ASSUME NEW x \in DOMAIN goa PROVE Cardinality({a \in list : a.goa = x}) = 1
  <2>1. {a \in list : a.goa = x} = {Joined(goa, eds, x)}
    BY <1>1, MergedFields
  <2>2. QED BY <2>1, FS_Singleton
<1>3. ASSUME NEW x \in DOMAIN eds
      PROVE  LET of == {a \in list : a.eds # None /\ a.email = eds[x]} IN
             /\ Cardinality(of) = 1
             /\ \A a \in of :
                    /\ eds[a.eds] = a.email
                    /\ a.goa = None <=> \A y \in DOMAIN goa : goa[y] # a.email
  <2> DEFINE m == eds[x]
             of == {a \in list : a.eds # None /\ a.email = m}
  <2>1. /\ m \in DOMAIN EdsByEmail(eds) /\ EdsByEmail(eds)[m] \in Eds /\ EdsByEmail(eds)[m] # None
        /\ eds[EdsByEmail(eds)[m]] = m
    <3>1. m \in DOMAIN EdsByEmail(eds)
      <4>1. DOMAIN EdsByEmail(eds) = {eds[y] : y \in DOMAIN eds}
        BY FirstSource
      <4>2. QED BY <4>1
    <3>2. DOMAIN eds \subseteq Eds
      BY ReadIs
    <3>3. QED BY <3>1, <3>2, FirstSource, NoneIsNoId
  <2> HIDE DEF m
  <2>2. CASE \A y \in DOMAIN goa : goa[y] # m
    <3>1. m \in LeftOver(goa, eds)
      BY <2>1, <2>2 DEF LeftOver
    <3>2. of = {Lone(eds, m)}
      BY <1>1, <2>1, <2>2, <3>1, MergedFields
    <3>3. Cardinality(of) = 1
      BY <3>2, FS_Singleton
    <3>4. QED BY <2>1, <2>2, <3>1, <3>2, <3>3, MergedFields DEF m
  <2>3. CASE \E y \in DOMAIN goa : goa[y] = m
    <3> DEFINE having == {y \in DOMAIN goa : goa[y] = m}
               first == Min(having)
    <3>1. having \in SUBSET Nat /\ having # {}
      BY <2>3, ReadIs, NoneIsNoId
    <3>2. first \in having /\ \A y \in having : first <= y
      BY <3>1, Least
    <3> HIDE DEF first
    <3>3. /\ first \in DOMAIN goa /\ goa[first] = m /\ FirstOfAddress(goa, first)
          /\ \A y \in DOMAIN goa : goa[y] = m /\ FirstOfAddress(goa, y) => y = first
      <4>1. \A y \in having : y <= first => y = first
        BY <3>1, <3>2
      <4>2. QED BY <3>2, <4>1 DEF FirstOfAddress
    <3>4. /\ Joined(goa, eds, first).eds = EdsByEmail(eds)[m]
          /\ \A y \in DOMAIN goa : goa[y] = m /\ Joined(goa, eds, y).eds # None => y = first
      BY <2>1, <3>3 DEF Joined, Account
    <3>5. m \notin LeftOver(goa, eds)
      BY <2>3 DEF LeftOver
    <3>6. of = {Joined(goa, eds, first)}
      BY <1>1, <2>1, <3>3, <3>4, <3>5, MergedFields
    <3>7. Cardinality(of) = 1
      BY <3>6, FS_Singleton
    <3>8. QED BY <2>1, <3>3, <3>4, <3>6, <3>7, MergedFields DEF m
  <2>4. QED BY <2>2, <2>3
<1>4. QED BY <1>2, <1>3 DEF list

(* Two lists that are not the same differ in an identity that diff names.  *)
LEMMA DiffCounts ==
    ASSUME NEW previous \in Lists, NEW current \in Lists
    PROVE  Diff(previous, current) \in Nat
           /\ (previous # current => Diff(previous, current) > 0)
<1> DEFINE named == (Identities(current) \cup Identities(previous))
                        \ Identities(current \cap previous)
<1>1. IsFiniteSet(named)
  <2>1. named \subseteq Ids
    BY DEF Lists
  <2>2. QED BY <2>1, FS_Subset, AccountDiscoveryAssumption
<1>2. Cardinality(named) \in Nat
  BY <1>1, FS_CardinalityType
<1>3. ASSUME previous # current PROVE named # {}
  <2>1. ASSUME NEW l \in Lists, NEW k \in Lists, NEW a \in l, a \notin k
        PROVE  Identity(a) \in Identities(l) \ Identities(l \cap k)
    <3>1. \A b \in l : Identity(b) = Identity(a) => b = a
      BY DEF Lists, Distinct
    <3>2. Identity(a) \notin Identities(l \cap k)
      BY <2>1, <3>1 DEF Identities
    <3>3. QED BY <3>2 DEF Identities
  <2>2. current \cap previous = previous \cap current
    OBVIOUS
  <2>3. CASE \E a \in current : a \notin previous
    BY <2>1, <2>3
  <2>4. CASE \E a \in previous : a \notin current
    BY <2>1, <2>2, <2>4
  <2>5. QED BY <1>3, <2>3, <2>4
<1>4. previous # current => Cardinality(named) # 0
  BY <1>1, <1>3, FS_EmptySet
<1> HIDE DEF named
<1>5. previous # current => Cardinality(named) > 0
  BY <1>2, <1>4
<1>6. QED BY <1>2, <1>5 DEF Diff, named

-----------------------------------------------------------------------------
(* Types.                                                                  *)

(* A row, as the service is given it; a table of rows.                     *)
Rows == (Nat \ {0}) \X Ids
Tables == UNION {[some -> Ids] : some \in SUBSET (Nat \ {0})}
Pairs(table) == {<<i, table[i]>> : i \in DOMAIN table}

Typed ==
    /\ desktop \in Reads(Ids)
    /\ signals \in Nat /\ differences \in Nat /\ faults \in Nat
    /\ watch \in [pc : {"off", "subscribe", "goa", "eds", "idle"}, goa : Reads(Goa),
                  first : BOOLEAN, snapshot : Lists]
    /\ watch.pc = "idle" => ~watch.first
    /\ disc \in [pc : {"idle", "goa", "eds", "accounts"}, goa : Reads(Goa), eds : Reads(Eds),
                 todo : SUBSET Ids, list : Lists, found : SUBSET Rows]
    /\ disc.pc = "accounts" => /\ disc.list = Merged(disc.goa, disc.eds)
                               /\ disc.todo \subseteq Identities(disc.list)
    /\ rows \in Tables /\ (\E n \in Nat : \A i \in DOMAIN rows : i <= n)
    /\ inbox \in Seq(SUBSET Rows)
    /\ workers \in Tables

LEMMA TableIs ==
    ASSUME NEW table \in Tables
    PROVE  DOMAIN table \subseteq Nat \ {0} /\ \A i \in DOMAIN table : table[i] \in Ids
BY DEF Tables

LEMMA NothingRead ==
    /\ <<>> \in Reads(Goa) /\ <<>> \in Reads(Eds) /\ <<>> \in Tables /\ {} \in Lists
    /\ DOMAIN <<>> = {} /\ <<>> \in Seq(SUBSET Rows)
<1>1. \A S : <<>> \in [{} -> S]
  <2>1. \A S : <<>> \in Seq(S) /\ Len(<<>>) = 0
    OBVIOUS
  <2>2. \A S : \A r \in Seq(S) : r \in [1 .. Len(r) -> S]
    OBVIOUS
  <2>3. 1 .. 0 = {}
    OBVIOUS
  <2>4. QED BY <2>1, <2>2, <2>3
<1>2. \A ids : <<>> \in Reads(ids)
  BY <1>1 DEF Reads
<1>3. <<>> \in Tables
  BY <1>1 DEF Tables
<1>4. {} \in Lists
  BY DEF Lists, Identities, Distinct
<1>5. DOMAIN <<>> = {} /\ <<>> \in Seq(SUBSET Rows)
  OBVIOUS
<1>6. QED BY <1>2, <1>3, <1>4, <1>5

LEMMA RestrictedReads ==
    ASSUME NEW present \in Reads(Ids), NEW ids, NEW some \in SUBSET (DOMAIN present \cap ids)
    PROVE  Restrict(present, some) \in Reads(ids)
<1>1. some \in SUBSET ids /\ \A x \in some : present[x] \in Emails
  BY ReadIs
<1>2. Restrict(present, some) \in [some -> Emails]
  BY <1>1 DEF Restrict
<1>3. QED BY <1>1, <1>2 DEF Reads

LEMMA TypeInit == Init => Typed
<1> SUFFICES ASSUME Init PROVE Typed
  OBVIOUS
<1>1. desktop \in Reads(Ids)
  BY DEF Init, Reads
<1>2. \A i \in DOMAIN <<>> : i <= 0
  BY NothingRead
<1>3. QED BY <1>1, <1>2, NothingRead DEF Init, Typed, WatcherOff, AtRest

LEMMA TypeDesktop == Typed /\ Desktop => Typed'
<1> SUFFICES ASSUME Typed, Desktop PROVE Typed'
  OBVIOUS
<1>1. ASSUME NEW present \in Reads(Ids), Change(present) PROVE Typed'
  BY <1>1 DEF Typed, Change
<1>2. ASSUME NEW x \in Ids, NEW m \in Emails, Appears(x, m) PROVE Typed'
  <2>1. [y \in DOMAIN desktop \cup {x} |-> IF y = x THEN m ELSE desktop[y]]
            \in [DOMAIN desktop \cup {x} -> Emails] /\ DOMAIN desktop \cup {x} \in SUBSET Ids
    BY ReadIs DEF Typed
  <2>2. QED BY <1>1, <1>2, <2>1 DEF Appears, Reads
<1>3. ASSUME NEW x \in Ids, Vanishes(x) PROVE Typed'
  <2>1. DOMAIN desktop \ {x} \in SUBSET (DOMAIN desktop \cap Ids)
    BY ReadIs DEF Typed
  <2>2. QED BY <1>1, <1>3, <2>1, RestrictedReads DEF Typed, Vanishes
<1>4. ASSUME NEW x \in Ids, NEW m \in Emails, Edited(x, m) PROVE Typed'
  <2>1. PICK some \in SUBSET Ids : desktop \in [some -> Emails]
    BY DEF Typed, Reads
  <2>2. [desktop EXCEPT ![x] = m] \in [some -> Emails]
    BY <2>1
  <2>3. QED BY <1>1, <1>4, <2>1, <2>2 DEF Edited, Reads
<1>5. QED BY <1>2, <1>3, <1>4 DEF Desktop

LEMMA ReadsAre ==
    ASSUME Typed
    PROVE  /\ Readable(Goa) \subseteq Reads(Goa) /\ Readable(Eds) \subseteq Reads(Eds)
           /\ OfBackend(desktop, Goa) \in Reads(Goa) /\ OfBackend(desktop, Eds) \in Reads(Eds)
BY RestrictedReads DEF Typed, Readable, OfBackend

LEMMA TypeWatcher == Typed /\ Watcher => Typed'
<1> SUFFICES ASSUME Typed, Watcher PROVE Typed'
  OBVIOUS
<1> USE DEF WatchRest
<1>f. \A kind : Fault(kind) \/ NoFault => faults' \in Nat
  BY DEF Typed, Fault, NoFault
<1>1. CASE Subscribe
  <2>1. faults' \in Nat
    BY <1>1, <1>f DEF Subscribe
  <2>2. QED BY <1>1, <2>1 DEF Typed, Subscribe, Watches
<1>2. CASE TakeSignal
  BY <1>2 DEF Typed, TakeSignal, Watches
<1>3. CASE WatchGoa
  <2>1. PICK read \in Reads(Goa) : /\ ReadGoa(read)
                                   /\ Watches([watch EXCEPT !.pc = "eds", !.goa = read])
    BY <1>3, ReadsAre DEF WatchGoa
  <2>2. faults' \in Nat
    BY <1>f, <2>1 DEF ReadGoa, Enumerated
  <2>3. QED BY <1>3, <2>1, <2>2 DEF Typed, WatchGoa, Watches
<1>4. CASE WatchEds
  <2>1. PICK read \in Reads(Eds) :
           LET current == Merged(watch.goa, read) IN
           /\ ReadEds(read)
           /\ differences' =
                differences + (IF watch.first THEN 0 ELSE Diff(watch.snapshot, current))
           /\ Watches([watch EXCEPT !.pc = "idle", !.goa = <<>>, !.first = FALSE,
                                    !.snapshot = current])
    BY <1>4, ReadsAre DEF WatchEds
  <2>2. faults' \in Nat
    BY <1>f, <2>1 DEF ReadEds, Enumerated
  <2>3. Merged(watch.goa, read) \in Lists
    BY MergedIsList DEF Typed
  <2>4. Diff(watch.snapshot, Merged(watch.goa, read)) \in Nat
    BY <2>3, DiffCounts DEF Typed
  <2>5. differences' \in Nat
    BY <2>1, <2>4 DEF Typed
  <2>6. QED BY <1>4, <2>1, <2>2, <2>3, <2>5, NothingRead DEF Typed, WatchEds, Watches
<1>5. QED BY <1>1, <1>2, <1>3, <1>4 DEF Watcher

(* upsert_account finds the account's row, or makes one with a new id.     *)
LEMMA UpsertedIs ==
    ASSUME NEW table \in Tables, NEW n \in Nat, \A i \in DOMAIN table : i <= n,
           NEW account \in Ids
    PROVE  /\ Upserted(table, account) \in Tables
           /\ \E k \in Nat : \A i \in DOMAIN Upserted(table, account) : i <= k
           /\ Pairs(table) \subseteq Pairs(Upserted(table, account))
           /\ RowOf(Upserted(table, account), account) # {}
<1>1. CASE RowOf(table, account) # {}
  BY <1>1 DEF Upserted
<1>2. CASE RowOf(table, account) = {}
  <2> DEFINE new == Max(DOMAIN table \cup {0}) + 1
             grown == [i \in DOMAIN table \cup {new} |-> IF i = new THEN account ELSE table[i]]
  <2>1. DOMAIN table \subseteq Nat \ {0} /\ \A i \in DOMAIN table : table[i] \in Ids
    BY DEF Tables
  <2>2. DOMAIN table \cup {0} \in SUBSET Nat /\ \A i \in DOMAIN table \cup {0} : i <= n
    BY <2>1
  <2>3. /\ Max(DOMAIN table \cup {0}) \in Nat
        /\ \A i \in DOMAIN table : i <= Max(DOMAIN table \cup {0})
    BY <2>2, Greatest
  <2>4. new \in Nat \ {0} /\ \A i \in DOMAIN table : i < new
    BY <2>1, <2>3
  <2>5. Upserted(table, account) = grown
    BY <1>2 DEF Upserted
  <2> HIDE DEF new
  <2>6. grown \in [DOMAIN table \cup {new} -> Ids] /\ DOMAIN table \cup {new} \in SUBSET (Nat \ {0})
    BY <2>1, <2>4
  <2>7. \A i \in DOMAIN grown : i <= new
    BY <2>1, <2>4
  <2>8. new \notin DOMAIN table
    BY <2>1, <2>4
  <2>9. Pairs(table) \subseteq Pairs(grown)
    BY <2>8 DEF Pairs
  <2>10. new \in RowOf(grown, account)
    BY DEF RowOf
  <2>11. grown \in Tables /\ new \in Nat
    BY <2>4, <2>6 DEF Tables
  <2> HIDE DEF grown
  <2>12. QED BY <2>5, <2>7, <2>9, <2>10, <2>11
<1>3. QED BY <1>1, <1>2

LEMMA ServedRows ==
    ASSUME NEW table \in Tables, NEW account \in Ids
    PROVE  /\ Served(table, account) \subseteq Pairs(table)
           /\ Served(table, account) \in SUBSET Rows
           /\ \A row \in Served(table, account) : row[2] = account
           /\ RowOf(table, account) # {} =>
                 {row[2] : row \in Served(table, account)} = {account} \ keyless
<1>1. DOMAIN table \subseteq Nat \ {0}
  BY DEF Tables
<1>2. RowOf(table, account) \subseteq DOMAIN table
      /\ \A i \in RowOf(table, account) : table[i] = account
  BY DEF RowOf
<1>3. \/ Served(table, account) = {} /\ account \in keyless
      \/ Served(table, account) = {<<i, account>> : i \in RowOf(table, account)}
         /\ account \notin keyless
  BY DEF Served
<1>4. \A row \in Served(table, account) :
         \E i \in RowOf(table, account) : row = <<i, account>>
  BY <1>3
<1>5. Served(table, account) \subseteq Pairs(table)
  BY <1>2, <1>4 DEF Pairs
<1>6. Served(table, account) \in SUBSET Rows
  BY <1>1, <1>2, <1>4 DEF Rows
<1>7. \A row \in Served(table, account) : row[2] = account
  BY <1>4
<1>8. RowOf(table, account) # {} =>
         {row[2] : row \in Served(table, account)} = {account} \ keyless
  <2>1. CASE account \in keyless
    BY <1>3, <2>1
  <2>2. CASE account \notin keyless /\ RowOf(table, account) # {}
    <3>1. \A i \in RowOf(table, account) : <<i, account>> \in Served(table, account)
      BY <1>3, <2>2
    <3>2. \E row \in Served(table, account) : row[2] = account
      BY <1>7, <2>2, <3>1
    <3>3. {row[2] : row \in Served(table, account)} = {account}
      BY <1>7, <3>2
    <3>4. QED BY <2>2, <3>3
  <2>3. QED BY <2>1, <2>2
<1>9. QED BY <1>5, <1>6, <1>7, <1>8

LEMMA TypeDiscovery == Typed /\ Discovery => Typed'
<1> SUFFICES ASSUME Typed, Discovery PROVE Typed'
  OBVIOUS
<1> USE DEF DiscRest, Discovers
<1>f. \A kind : Fault(kind) \/ NoFault => faults' \in Nat
  BY DEF Typed, Fault, NoFault
<1>1. CASE TakeDifference
  <2>1. differences' \in Nat
    BY <1>1 DEF Typed, TakeDifference
  <2>2. disc' = [AtRest EXCEPT !.pc = "goa"]
    BY <1>1 DEF TakeDifference
  <2>3. /\ disc' \in [pc : {"idle", "goa", "eds", "accounts"}, goa : Reads(Goa), eds : Reads(Eds),
                      todo : SUBSET Ids, list : Lists, found : SUBSET Rows]
        /\ disc'.pc = "goa"
    BY <2>2, NothingRead DEF AtRest
  <2>4. QED BY <1>1, <2>1, <2>3 DEF Typed, TakeDifference
<1>2. CASE DiscoverGoa
  <2>1. PICK read \in Reads(Goa) : /\ ReadGoa(read)
                                   /\ disc' = [disc EXCEPT !.pc = "eds", !.goa = read]
    BY <1>2, ReadsAre DEF DiscoverGoa
  <2>2. faults' \in Nat
    BY <1>f, <2>1 DEF ReadGoa, Enumerated
  <2>3. QED BY <1>2, <2>1, <2>2 DEF Typed, DiscoverGoa
<1>3. CASE DiscoverEds
  <2>1. PICK read \in Reads(Eds) :
           LET list == Merged(disc.goa, read) IN
           /\ ReadEds(read)
           /\ disc' = [disc EXCEPT !.pc = "accounts", !.eds = read, !.list = list,
                                   !.todo = Identities(list)]
    BY <1>3, ReadsAre DEF DiscoverEds
  <2>2. faults' \in Nat
    BY <1>f, <2>1 DEF ReadEds, Enumerated
  <2>3. Merged(disc.goa, read) \in Lists
    BY MergedIsList DEF Typed
  <2>4. Identities(Merged(disc.goa, read)) \in SUBSET Ids
    BY <2>3 DEF Lists
  <2>5. QED BY <1>3, <2>1, <2>2, <2>3, <2>4 DEF Typed, DiscoverEds
<1>4. CASE DiscoverAccount
  <2> DEFINE account == Min(disc.todo)
  <2>1. account \in disc.todo /\ account \in Ids
    BY <1>4, Least, NoneIsNoId DEF Typed, DiscoverAccount
  <2>2. faults' \in Nat
    BY <1>4, <1>f DEF DiscoverAccount
  <2> HIDE DEF account
  <2>3. rows' \in {rows, Upserted(rows, account)}
    BY <1>4 DEF DiscoverAccount, account
  <2>4. rows' \in Tables /\ \E n \in Nat : \A i \in DOMAIN rows' : i <= n
    BY <2>1, <2>3, UpsertedIs DEF Typed
  <2>5. \/ disc' = AtRest
        \/ disc' = [disc EXCEPT !.todo = @ \ {account}, !.found = @ \cup Served(rows', account)]
    BY <1>4 DEF DiscoverAccount, account
  <2>6. Served(rows', account) \in SUBSET Rows
    <3>1. PICK table \in Tables : table = rows'
      BY <2>4
    <3>2. QED BY <2>1, <3>1, ServedRows
  <2>7. /\ disc' \in [pc : {"idle", "goa", "eds", "accounts"}, goa : Reads(Goa), eds : Reads(Eds),
                      todo : SUBSET Ids, list : Lists, found : SUBSET Rows]
        /\ disc'.pc = "accounts" => /\ disc'.list = Merged(disc'.goa, disc'.eds)
                                    /\ disc'.todo \subseteq Identities(disc'.list)
    <3>1. CASE disc' = AtRest
      BY <3>1, NothingRead DEF AtRest
    <3>2. CASE disc' = [disc EXCEPT !.todo = @ \ {account},
                                    !.found = @ \cup Served(rows', account)]
      BY <2>6, <3>2 DEF Typed
    <3>3. QED BY <2>5, <3>1, <3>2
  <2>8. QED BY <1>4, <2>2, <2>4, <2>7 DEF Typed, DiscoverAccount
<1>5. CASE DiscoverEnds
  <2>1. faults' \in Nat
    BY <1>5, <1>f DEF DiscoverEnds
  <2>2. rows' \in Tables /\ \E n \in Nat : \A i \in DOMAIN rows' : i <= n
    <3> DEFINE seen == Identities(disc.list)
               kept == {i \in DOMAIN rows : rows[i] \in seen}
    <3>1. CASE rows' = rows
      BY <3>1 DEF Typed
    <3>2. CASE rows' = Restrict(rows, kept)
      <4>1. /\ DOMAIN rows \in SUBSET (Nat \ {0}) /\ \A i \in DOMAIN rows : rows[i] \in Ids
            /\ kept \subseteq DOMAIN rows
        BY DEF Typed, Tables
      <4> HIDE DEF kept
      <4>2. rows' \in [kept -> Ids] /\ DOMAIN rows' = kept
        BY <3>2, <4>1 DEF Restrict
      <4>3. QED BY <4>1, <4>2 DEF Typed, Tables
    <3>3. QED BY <1>5, <3>1, <3>2 DEF DiscoverEnds, Pruned
  <2>3. inbox' \in Seq(SUBSET Rows)
    BY <1>5 DEF Typed, DiscoverEnds
  <2>4. QED BY <1>5, <2>1, <2>2, <2>3, NothingRead DEF Typed, DiscoverEnds, AtRest
<1>6. QED BY <1>1, <1>2, <1>3, <1>4, <1>5 DEF Discovery

LEMMA TypeReconcile == Typed /\ Reconcile => Typed'
<1> SUFFICES ASSUME Typed, Reconcile PROVE Typed'
  OBVIOUS
<1> DEFINE found == Head(inbox)
           ids == {f[1] : f \in found}
<1>1. found \in SUBSET Rows /\ Tail(inbox) \in Seq(SUBSET Rows)
  BY DEF Typed, Reconcile
<1>2. DOMAIN workers \subseteq Nat \ {0} /\ \A i \in DOMAIN workers : workers[i] \in Ids
  BY TableIs DEF Typed
<1>3. workers' = [i \in Kept(found) \cup ids |->
                     IF i \in DOMAIN workers THEN workers[i]
                     ELSE (CHOOSE f \in found : f[1] = i)[2]]
  BY DEF Reconcile
<1> HIDE DEF found
<1>4. Kept(found) \cup ids \in SUBSET (Nat \ {0})
  BY <1>1, <1>2 DEF Kept, Rows
<1>5. \A i \in ids : (CHOOSE f \in found : f[1] = i)[2] \in Ids
  <2>1. \A i \in ids : (CHOOSE f \in found : f[1] = i) \in found
    OBVIOUS
  <2>2. QED BY <1>1, <2>1 DEF Rows
<1>6. workers' \in [Kept(found) \cup ids -> Ids]
  BY <1>2, <1>3, <1>5 DEF Kept
<1>7. workers' \in Tables
  BY <1>4, <1>6 DEF Tables
<1>8. watch' \in [pc : {"off", "subscribe", "goa", "eds", "idle"}, goa : Reads(Goa),
                  first : BOOLEAN, snapshot : Lists]
      /\ (watch'.pc = "idle" => ~watch'.first)
  BY NothingRead DEF Typed, Reconcile, WatcherOff
<1>9. QED BY <1>1, <1>7, <1>8 DEF Typed, Reconcile, found

LEMMA TypeCrash == Typed /\ Crash => Typed'
<1> SUFFICES ASSUME Typed, Crash PROVE Typed'
  OBVIOUS
<1>1. /\ UNCHANGED <<desktop, rows>> /\ faults' = faults + 1
      /\ signals' = 0 /\ differences' = 0 /\ inbox' = <<>> /\ workers' = <<>>
      /\ watch' = WatcherOff /\ disc' = [AtRest EXCEPT !.pc = "goa"]
  BY DEF Crash, Fault
<1>2. /\ WatcherOff \in [pc : {"off", "subscribe", "goa", "eds", "idle"}, goa : Reads(Goa),
                         first : BOOLEAN, snapshot : Lists]
      /\ WatcherOff.pc = "off"
  BY NothingRead DEF WatcherOff
<1>3. /\ [AtRest EXCEPT !.pc = "goa"]
            \in [pc : {"idle", "goa", "eds", "accounts"}, goa : Reads(Goa), eds : Reads(Eds),
                 todo : SUBSET Ids, list : Lists, found : SUBSET Rows]
      /\ [AtRest EXCEPT !.pc = "goa"].pc = "goa"
  BY NothingRead DEF AtRest
<1>4. QED BY SMTT(30), <1>1, <1>2, <1>3, NothingRead DEF Typed

LEMMA TypeNext == Typed /\ [Next]_vars => Typed'
<1> SUFFICES ASSUME Typed, [Next]_vars PROVE Typed'
  OBVIOUS
<1>1. CASE UNCHANGED vars
  BY <1>1 DEF Typed, vars
<1>2. QED BY <1>1, TypeDesktop, TypeWatcher, TypeDiscovery, TypeReconcile, TypeCrash DEF Next

-----------------------------------------------------------------------------
(* The workers and the rows.                                               *)

(* Lists that give no id to two accounts.                                  *)
Agree(g, h) == \A p \in g, q \in h : p[1] = q[1] => p = q

(* The list that the service has, or will have, of the discoveries so far. *)
LastGiven == IF inbox = <<>> THEN Pairs(workers) ELSE inbox[Len(inbox)]

(* The last list is of rows that are there: a discovery prunes at its end, *)
(* with the list that comes after; an id that is pruned goes to another    *)
(* account only in a later discovery, and each list is without the ids     *)
(* that the table lost before it.                                          *)
Consistent ==
    /\ LastGiven \subseteq Pairs(rows)
    /\ \A k \in DOMAIN inbox : Agree(inbox[k], inbox[k])
    /\ inbox # <<>> => Agree(Pairs(workers), inbox[1])
    /\ \A k \in 1 .. Len(inbox) - 1 : Agree(inbox[k], inbox[k + 1])
    /\ disc.pc \in {"goa", "eds"} => disc.found = {}
    /\ disc.pc = "accounts" =>
          /\ disc.found \subseteq Pairs(rows)
          /\ {row[2] : row \in disc.found} = (Identities(disc.list) \ disc.todo) \ keyless

LEMMA PairsAgree ==
    ASSUME NEW table, NEW g \in SUBSET Pairs(table), NEW h \in SUBSET Pairs(table)
    PROVE  Agree(g, h)
BY DEF Agree, Pairs

LEMMA ConsistentInit == Init => Consistent
BY NothingRead DEF Init, Consistent, LastGiven, Pairs, AtRest

LEMMA ConsistentFrame ==
    ASSUME Consistent, UNCHANGED <<rows, inbox, workers, disc, keyless>>
    PROVE  Consistent'
<1>1. LastGiven' = LastGiven /\ Pairs(rows)' = Pairs(rows) /\ Pairs(workers)' = Pairs(workers)
  BY DEF LastGiven, Pairs
<1>2. Identities(disc.list)' = Identities(disc.list)
  BY DEF Identities
<1>3. QED BY <1>1, <1>2 DEF Consistent, Agree

LEMMA ConsistentBy ==
    ASSUME Consistent, UNCHANGED <<inbox, workers>>, Pairs(rows) \subseteq Pairs(rows'),
           disc'.pc \in {"goa", "eds"} => disc'.found = {},
           disc'.pc = "accounts" =>
              /\ disc'.found \subseteq Pairs(rows')
              /\ {row[2] : row \in disc'.found} =
                    (Identities(disc'.list) \ disc'.todo) \ keyless'
    PROVE  Consistent'
<1>1. LastGiven' = LastGiven /\ Pairs(workers)' = Pairs(workers) /\ Pairs(rows)' = Pairs(rows')
  BY DEF LastGiven, Pairs
<1>2. LastGiven' \subseteq Pairs(rows)'
  BY <1>1 DEF Consistent
<1>3. /\ \A k \in DOMAIN inbox' : Agree(inbox'[k], inbox'[k])
      /\ inbox' # <<>> => Agree(Pairs(workers)', inbox'[1])
      /\ \A k \in 1 .. Len(inbox') - 1 : Agree(inbox'[k], inbox'[k + 1])
  BY <1>1 DEF Consistent
<1>4. Identities(disc.list)' = Identities(disc'.list)
  BY DEF Identities
<1>5. disc'.pc \in {"goa", "eds"} => disc'.found = {}
  OBVIOUS
<1>6. disc'.pc = "accounts" =>
          /\ disc'.found \subseteq Pairs(rows)'
          /\ {row[2] : row \in disc'.found} =
                (Identities(disc.list)' \ disc'.todo) \ keyless'
  BY <1>1, <1>4
<1>7. QED BY <1>2, <1>3, <1>5, <1>6 DEF Consistent, Agree

LEMMA ConsistentDiscovery ==
    ASSUME Typed, Consistent, Discovery
    PROVE  Consistent'
<1> USE DEF DiscRest, Discovers
<1>t. /\ disc \in [pc : {"idle", "goa", "eds", "accounts"}, goa : Reads(Goa), eds : Reads(Eds),
                   todo : SUBSET Ids, list : Lists, found : SUBSET Rows]
      /\ rows \in Tables /\ inbox \in Seq(SUBSET Rows)
  BY DEF Typed
<1>1. CASE TakeDifference
  <2>1. disc'.pc = "goa" /\ disc'.found = {}
    BY <1>1 DEF TakeDifference, AtRest
  <2>2. QED BY <1>1, <2>1, ConsistentBy DEF TakeDifference
<1>2. CASE DiscoverGoa
  <2>1. disc'.pc = "eds" /\ disc'.found = disc.found /\ disc.pc = "goa"
    BY <1>2, <1>t DEF DiscoverGoa
  <2>2. QED BY <1>2, <2>1, ConsistentBy DEF DiscoverGoa, Consistent
<1>3. CASE DiscoverEds
  <2>1. /\ disc'.pc = "accounts" /\ disc'.found = disc.found /\ disc.pc = "eds"
        /\ disc'.todo = Identities(disc'.list)
    BY <1>3, <1>t DEF DiscoverEds
  <2>2. disc'.found = {}
    BY <2>1 DEF Consistent
  <2>3. QED BY <1>3, <2>1, <2>2, ConsistentBy DEF DiscoverEds
<1>4. CASE DiscoverAccount
  <2> DEFINE account == Min(disc.todo)
  <2>1. account \in disc.todo /\ account \in Ids /\ disc.todo \subseteq Identities(disc.list)
    BY <1>4, Least, NoneIsNoId DEF Typed, DiscoverAccount
  <2>2. /\ UNCHANGED <<inbox, workers, keyless>> /\ disc.pc = "accounts"
        /\ rows' \in {rows, Upserted(rows, account)}
        /\ \/ disc' = AtRest
           \/ /\ rows' = Upserted(rows, account)
              /\ disc' = [disc EXCEPT !.todo = @ \ {account},
                                      !.found = @ \cup Served(rows', account)]
    BY <1>4 DEF DiscoverAccount
  <2> HIDE DEF account
  <2>3. PICK n \in Nat : \A i \in DOMAIN rows : i <= n
    BY DEF Typed
  <2>4. /\ Pairs(rows) \subseteq Pairs(Upserted(rows, account))
        /\ Upserted(rows, account) \in Tables
        /\ RowOf(Upserted(rows, account), account) # {}
    BY <1>t, <2>1, <2>3, UpsertedIs
  <2>5. CASE disc' = AtRest
    BY <2>2, <2>4, <2>5, ConsistentBy DEF AtRest
  <2>6. CASE /\ rows' = Upserted(rows, account)
             /\ disc' = [disc EXCEPT !.todo = @ \ {account},
                                     !.found = @ \cup Served(rows', account)]
    <3>1. /\ disc'.pc = "accounts" /\ disc'.todo = disc.todo \ {account}
          /\ disc'.found = disc.found \cup Served(rows', account) /\ disc'.list = disc.list
      BY <1>t, <2>2, <2>6
    <3>2. /\ Served(Upserted(rows, account), account) \subseteq Pairs(Upserted(rows, account))
          /\ {row[2] : row \in Served(Upserted(rows, account), account)} = {account} \ keyless
      BY <2>1, <2>4, ServedRows
    <3>3. Served(rows', account) = Served(Upserted(rows, account), account)
      BY <2>6
    <3>4. disc'.found \subseteq Pairs(rows')
      BY <2>2, <2>4, <2>6, <3>1, <3>2, <3>3 DEF Consistent
    <3>5. {row[2] : row \in disc'.found} =
             {row[2] : row \in disc.found} \cup {row[2] : row \in Served(rows', account)}
      BY <3>1
    <3>6. {row[2] : row \in disc'.found} = (Identities(disc'.list) \ disc'.todo) \ keyless'
      BY <2>1, <2>2, <3>1, <3>2, <3>3, <3>5 DEF Consistent
    <3>7. QED BY <2>2, <2>4, <2>6, <3>1, <3>4, <3>6, ConsistentBy
  <2>7. QED BY <2>2, <2>5, <2>6
<1>5. CASE DiscoverEnds
  <2> DEFINE seen == Identities(disc.list)
  <2>1. disc'.pc = "idle" /\ UNCHANGED <<workers, keyless>> /\ disc.pc = "accounts"
    BY <1>5 DEF DiscoverEnds, AtRest
  <2>2. CASE UNCHANGED <<rows, inbox>>
    BY <2>1, <2>2, ConsistentBy
  <2>3. CASE rows' = Pruned(rows, seen) /\ inbox' = Append(inbox, disc.found)
    <3>1. disc.found \subseteq Pairs(rows) /\ \A row \in disc.found : row[2] \in seen
      BY <2>1 DEF Consistent
    <3>2. disc.found \subseteq Pairs(rows')
      BY <2>3, <3>1 DEF Pruned, Pairs, Restrict
    <3>3. Agree(disc.found, disc.found) /\ Agree(LastGiven, disc.found)
      BY <3>1, PairsAgree DEF Consistent
    <3>4. disc.found \in SUBSET Rows
      BY <1>t
    <3>5. /\ Len(inbox') = Len(inbox) + 1 /\ inbox'[Len(inbox')] = disc.found /\ inbox' # <<>>
          /\ \A k \in 1 .. Len(inbox) : inbox'[k] = inbox[k]
          /\ DOMAIN inbox = 1 .. Len(inbox) /\ DOMAIN inbox' = 1 .. Len(inbox')
          /\ Len(inbox) \in Nat
      BY <1>t, <2>3, <3>4
    <3>6. LastGiven' \subseteq Pairs(rows)'
      BY <3>2, <3>5 DEF LastGiven, Pairs
    <3>7. \A k \in DOMAIN inbox' : Agree(inbox'[k], inbox'[k])
      BY <3>3, <3>5 DEF Consistent
    <3>8. Agree(Pairs(workers), inbox'[1])
      <4>1. CASE inbox = <<>>
        BY <3>3, <3>5, <4>1 DEF LastGiven
      <4>2. CASE inbox # <<>>
        <5>1. 1 \in 1 .. Len(inbox)
          BY <1>t, <4>2
        <5>2. QED BY <3>5, <4>2, <5>1 DEF Consistent
      <4>3. QED BY <4>1, <4>2
    <3>9. \A k \in 1 .. Len(inbox') - 1 : Agree(inbox'[k], inbox'[k + 1])
      <4> DEFINE n == Len(inbox)
      <4>f. n \in Nat /\ n = Len(inbox) /\ Len(inbox') = n + 1
        BY <3>5
      <4> HIDE DEF n
      <4>1. ASSUME NEW k \in 1 .. n, k = n PROVE Agree(inbox'[k], inbox'[k + 1])
        <5>1. inbox # <<>> /\ k \in 1 .. Len(inbox)
          BY <4>1, <4>f
        <5>2. LastGiven = inbox'[k] /\ inbox'[k + 1] = disc.found
          <6>1. LastGiven = inbox[n] /\ inbox'[n] = inbox[n]
            BY <3>5, <4>1, <4>f, <5>1 DEF LastGiven
          <6>2. inbox'[n + 1] = disc.found
            BY <3>5, <4>f
          <6>3. QED BY <4>1, <6>1, <6>2
        <5>3. QED BY <3>3, <5>2
      <4>2. ASSUME NEW k \in 1 .. n, k # n PROVE Agree(inbox'[k], inbox'[k + 1])
        <5>1. k \in 1 .. n - 1 /\ k + 1 \in 1 .. n
          BY <4>f, <4>2
        <5>2. inbox'[k] = inbox[k] /\ inbox'[k + 1] = inbox[k + 1]
          BY <3>5, <4>f, <5>1
        <5>3. Agree(inbox[k], inbox[k + 1])
          BY <4>f, <5>1 DEF Consistent
        <5>4. QED BY <5>2, <5>3
      <4>3. 1 .. Len(inbox') - 1 = 1 .. n
        BY <4>f
      <4>4. QED BY <4>1, <4>2, <4>3
    <3>10. QED BY <2>1, <3>6, <3>7, <3>8, <3>9 DEF Consistent, Pairs, Agree
  <2>4. QED BY <1>5, <2>2, <2>3 DEF DiscoverEnds
<1>6. QED BY <1>1, <1>2, <1>3, <1>4, <1>5 DEF Discovery

(* reconcile makes the workers those of the list.                          *)
LEMMA Reconciled ==
    ASSUME Typed, Consistent, Reconcile
    PROVE  Pairs(workers') = inbox[1]
<1> DEFINE found == Head(inbox)
           ids == {f[1] : f \in found}
<1>1. /\ found \in SUBSET Rows /\ found = inbox[1] /\ inbox # <<>> /\ 1 \in DOMAIN inbox
      /\ workers' = [i \in Kept(found) \cup ids |->
                        IF i \in DOMAIN workers THEN workers[i]
                        ELSE (CHOOSE f \in found : f[1] = i)[2]]
  BY DEF Typed, Reconcile
<1>2. Agree(found, found) /\ Agree(Pairs(workers), found)
  BY <1>1 DEF Consistent
<1> HIDE DEF found
<1>3. Kept(found) \cup ids = ids
  BY DEF Kept
<1>4. \A f \in found : f = <<f[1], f[2]>>
  BY <1>1 DEF Rows
<1>5. ASSUME NEW f \in found PROVE workers'[f[1]] = f[2]
  <2>1. f[1] \in ids
    OBVIOUS
  <2>2. CASE f[1] \in DOMAIN workers
    <3>1. <<f[1], workers[f[1]]>> \in Pairs(workers)
      BY <2>2 DEF Pairs
    <3>2. <<f[1], workers[f[1]]>> = f
      BY <1>2, <3>1 DEF Agree
    <3>3. QED BY <1>1, <1>3, <2>1, <2>2, <3>2
  <2>3. CASE f[1] \notin DOMAIN workers
    <3>1. (CHOOSE g \in found : g[1] = f[1]) \in found /\ (CHOOSE g \in found : g[1] = f[1])[1] = f[1]
      OBVIOUS
    <3>2. (CHOOSE g \in found : g[1] = f[1]) = f
      BY <1>2, <3>1 DEF Agree
    <3>3. QED BY <1>1, <1>3, <2>1, <2>3, <3>2
  <2>4. QED BY <2>2, <2>3
<1>6. DOMAIN workers' = ids
  BY <1>1, <1>3
<1>7. Pairs(workers') = found
  BY <1>4, <1>5, <1>6 DEF Pairs
<1>8. QED BY <1>1, <1>7

LEMMA LastGivenKept ==
    ASSUME Typed, Consistent, Reconcile
    PROVE  LastGiven' = LastGiven
<1> DEFINE rest == Tail(inbox)
<1>1. /\ Pairs(workers') = inbox[1] /\ inbox' = rest /\ inbox # <<>>
      /\ UNCHANGED <<rows, disc, keyless>>
  BY Reconciled DEF Reconcile
<1>2. /\ inbox \in Seq(SUBSET Rows) /\ DOMAIN inbox = 1 .. Len(inbox) /\ Len(inbox) \in Nat \ {0}
      /\ rest \in Seq(SUBSET Rows) /\ DOMAIN rest = 1 .. Len(inbox) - 1 /\ Len(rest) = Len(inbox) - 1
      /\ \A k \in 1 .. Len(inbox) - 1 : rest[k] = inbox[k + 1]
  BY <1>1 DEF Typed
<1> HIDE DEF rest
<1>3. LastGiven' = LastGiven
  <2>1. CASE rest = <<>>
    <3>1. Len(inbox) = 1
      <4>1. Len(rest) = 0
        BY <2>1
      <4>2. Len(rest) = Len(inbox) - 1 /\ Len(inbox) \in Nat
        BY <1>2
      <4>3. QED BY <4>1, <4>2
    <3>2. QED BY <1>1, <2>1, <3>1 DEF LastGiven, Pairs
  <2>2. CASE rest # <<>>
    <3>1. Len(inbox) - 1 \in 1 .. Len(inbox) - 1
      BY <1>2, <2>2
    <3>2. rest[Len(rest)] = inbox[Len(inbox)]
      BY <1>2, <3>1
    <3>3. QED BY <1>1, <2>2, <3>2 DEF LastGiven
  <2>3. QED BY <2>1, <2>2
<1>4. QED BY <1>3

LEMMA ConsistentReconcile ==
    ASSUME Typed, Consistent, Reconcile
    PROVE  Consistent'
<1> DEFINE rest == Tail(inbox)
<1>1. /\ Pairs(workers') = inbox[1] /\ inbox' = rest /\ inbox # <<>>
      /\ UNCHANGED <<rows, disc, keyless>>
  BY Reconciled DEF Reconcile
<1>2. /\ inbox \in Seq(SUBSET Rows) /\ DOMAIN inbox = 1 .. Len(inbox) /\ Len(inbox) \in Nat \ {0}
      /\ rest \in Seq(SUBSET Rows) /\ DOMAIN rest = 1 .. Len(inbox) - 1 /\ Len(rest) = Len(inbox) - 1
      /\ \A k \in 1 .. Len(inbox) - 1 : rest[k] = inbox[k + 1]
  BY <1>1 DEF Typed
<1> HIDE DEF rest
<1>3. LastGiven' = LastGiven
  BY LastGivenKept
<1>4. \A k \in DOMAIN rest : Agree(rest[k], rest[k])
  BY <1>2 DEF Consistent
<1>5. rest # <<>> => Agree(Pairs(workers'), rest[1])
  <2>1. rest # <<>> => 1 \in 1 .. Len(inbox) - 1
    BY <1>2
  <2>2. QED BY <1>1, <1>2, <2>1 DEF Consistent
<1>6. \A k \in 1 .. Len(rest) - 1 : Agree(rest[k], rest[k + 1])
  <2>1. ASSUME NEW k \in 1 .. Len(rest) - 1 PROVE Agree(rest[k], rest[k + 1])
    <3>1. /\ k \in 1 .. Len(inbox) - 1 /\ k + 1 \in 1 .. Len(inbox) - 1
          /\ rest[k] = inbox[k + 1] /\ rest[k + 1] = inbox[(k + 1) + 1]
      BY <1>2
    <3>2. QED BY <3>1 DEF Consistent
  <2>2. QED BY <2>1
<1>7. QED BY <1>1, <1>3, <1>4, <1>5, <1>6 DEF Consistent, Pairs, Agree, Identities

LEMMA ConsistentNext == Typed /\ Consistent /\ [Next]_vars => Consistent'
<1> SUFFICES ASSUME Typed, Consistent, [Next]_vars PROVE Consistent'
  OBVIOUS
<1>1. CASE UNCHANGED vars
  BY <1>1, ConsistentFrame DEF vars
<1>2. CASE Desktop
  BY <1>2, ConsistentFrame DEF Desktop, Appears, Vanishes, Edited, Change
<1>3. CASE Watcher
  BY <1>3, ConsistentFrame DEF Watcher, Subscribe, TakeSignal, WatchGoa, WatchEds, WatchRest
<1>4. CASE Crash
  <2>1. /\ inbox' = <<>> /\ workers' = <<>> /\ rows' = rows
        /\ disc'.pc = "goa" /\ disc'.found = {}
    BY <1>4 DEF Crash, AtRest
  <2>2. Pairs(workers') = {} /\ DOMAIN inbox' = {} /\ 1 .. Len(inbox') - 1 = {}
    BY <2>1, NothingRead DEF Pairs
  <2>3. QED BY <2>1, <2>2 DEF Consistent, LastGiven, Pairs
<1>5. QED BY <1>1, <1>2, <1>3, <1>4, ConsistentDiscovery, ConsistentReconcile DEF Next

(* No account is served by the worker of another one, although the ids of  *)
(* rows that were pruned come back: whatever fails, and however many       *)
(* discoveries are in the service's inbox when it looks (sync.rs, discover *)
(* and reconcile; worker.rs, upsert_account and prune_accounts).           *)
THEOREM NoForeignWorker == Spec => []WorkerOfItsAccount
<1> DEFINE Inv == Typed /\ Consistent
<1>1. Init => Inv
  BY TypeInit, ConsistentInit
<1>2. Inv /\ [Next]_vars => Inv'
  BY TypeNext, ConsistentNext
<1>3. Inv => WorkerOfItsAccount
  <2> SUFFICES ASSUME Consistent, inbox = <<>>, NEW i \in DOMAIN workers
               PROVE  i \in DOMAIN rows /\ rows[i] = workers[i]
    BY DEF WorkerOfItsAccount
  <2>1. <<i, workers[i]>> \in Pairs(workers)
    BY DEF Pairs
  <2>2. <<i, workers[i]>> \in Pairs(rows)
    BY <2>1 DEF Consistent, LastGiven
  <2>3. QED BY <2>2 DEF Pairs
<1> HIDE DEF Inv
<1>4. QED BY <1>1, <1>2, <1>3, PTL DEF Spec

(* Of every two lists that a discovery reads the merge makes one of each   *)
(* GOA account and each address of a source (manager.rs, merge).           *)
THEOREM MergeIsRight == Spec => []MergedOnce
<1>1. Typed => MergedOnce
  <2>0. disc.pc # "accounts" => MergedOnce
    BY DEF MergedOnce
  <2> SUFFICES ASSUME Typed, disc.pc = "accounts" PROVE MergedOnce
    BY <2>0
  <2>1. /\ disc.goa \in Reads(Goa) /\ disc.eds \in Reads(Eds)
        /\ disc.list = Merged(disc.goa, disc.eds) /\ disc.list \in Lists
    BY DEF Typed
  <2>2. Cardinality(Identities(disc.list)) = Cardinality(disc.list)
    <3> DEFINE list == disc.list
               id == [a \in list |-> Identity(a)]
    <3>1. IsFiniteSet(Identities(list))
      <4>1. Identities(list) \subseteq Ids
        BY <2>1 DEF Lists
      <4>2. QED BY <4>1, FS_Subset, AccountDiscoveryAssumption
    <3>2. id \in Bijection(list, Identities(list))
      <4>1. Distinct(list)
        BY <2>1 DEF Lists
      <4> HIDE DEF list
      <4>2. id \in [list -> Identities(list)] /\ \A a \in list : id[a] = Identity(a)
        BY DEF Identities
      <4>3. \A b \in Identities(list) : \E a \in list : id[a] = b
        BY <4>2 DEF Identities
      <4>4. \A a, b \in list : id[a] = id[b] => a = b
        BY <4>1, <4>2 DEF Distinct
      <4> HIDE DEF id
      <4>5. QED BY <4>2, <4>3, <4>4, Fun_IsBij
    <3> HIDE DEF id
    <3>3. ExistsBijection(Identities(list), list)
      BY <3>2, Fun_ExistsBij, Fun_ExistsBijSymmetric
    <3>4. QED BY <3>1, <3>3, FS_Bijection
  <2>3. /\ \A x \in DOMAIN disc.goa : Cardinality({a \in disc.list : a.goa = x}) = 1
        /\ \A x \in DOMAIN disc.eds :
               LET of == {a \in disc.list : a.eds # None /\ a.email = disc.eds[x]} IN
               /\ Cardinality(of) = 1
               /\ \A a \in of :
                      /\ disc.eds[a.eds] = a.email
                      /\ a.goa = None <=> \A y \in DOMAIN disc.goa : disc.goa[y] # a.email
    <3>1. PICK goa \in Reads(Goa), eds \in Reads(Eds) : goa = disc.goa /\ eds = disc.eds
      BY <2>1
    <3>2. /\ \A x \in DOMAIN goa : Cardinality({a \in Merged(goa, eds) : a.goa = x}) = 1
          /\ \A x \in DOMAIN eds :
                 LET of == {a \in Merged(goa, eds) : a.eds # None /\ a.email = eds[x]} IN
                 /\ Cardinality(of) = 1
                 /\ \A a \in of :
                        /\ eds[a.eds] = a.email
                        /\ a.goa = None <=> \A y \in DOMAIN goa : goa[y] # a.email
      BY MergedOnceOnly
    <3>3. Merged(goa, eds) = disc.list
      BY <2>1, <3>1
    <3>4. QED BY <3>1, <3>2, <3>3
  <2>4. QED BY <2>2, <2>3 DEF MergedOnce
<1>2. QED BY <1>1, TypeInit, TypeNext, PTL DEF Spec

-----------------------------------------------------------------------------
(* What is quiet is up to date.                                            *)

(* A call that does not fail returns what there is.                        *)
LEMMA ReadWithoutFault ==
    ASSUME Typed, NEW ids, NEW kind, NEW read, Enumerated(ids, kind, read), faults' = faults
    PROVE  read = OfBackend(desktop, ids)
BY DEF Typed, Enumerated, Fault

(* What the watcher has read is the desktop, or a signal waits.            *)
Watched ==
    faults = 0 /\ signals = 0 =>
        /\ watch.pc = "eds" => watch.goa = OfBackend(desktop, Goa)
        /\ watch.pc = "idle" => watch.snapshot = Listed

LEMMA WatchedFrame ==
    ASSUME Typed, Watched, UNCHANGED <<desktop, signals, watch>>, faults' \in {faults, faults + 1}
    PROVE  Watched'
<1>1. faults' = 0 => faults = 0
  BY DEF Typed
<1>2. /\ OfBackend(desktop, Goa)' = OfBackend(desktop, Goa)
      /\ Listed' = Listed
  BY DEF Listed, OfBackend
<1>3. QED BY <1>1, <1>2 DEF Watched

LEMMA WatchedNext == Typed /\ Watched /\ [Next]_vars => Watched'
<1> SUFFICES ASSUME Typed, Watched, [Next]_vars PROVE Watched'
  OBVIOUS
<1>w. /\ watch \in [pc : {"off", "subscribe", "goa", "eds", "idle"}, goa : Reads(Goa),
                    first : BOOLEAN, snapshot : Lists]
      /\ faults \in Nat /\ signals \in Nat
  BY DEF Typed
<1>1. CASE UNCHANGED vars
  BY <1>1, WatchedFrame DEF vars
<1>2. CASE Desktop
  <2>1. PICK present : Change(present)
    BY <1>2 DEF Desktop, Appears, Vanishes, Edited
  <2>2. watch' = watch /\ signals' = IF Subscribed THEN signals + 1 ELSE signals
    BY <2>1 DEF Change
  <2>3. signals' = 0 => watch'.pc \in {"off", "subscribe"}
    BY <1>w, <2>2 DEF Subscribed
  <2>4. QED BY <2>3 DEF Watched
<1>3. CASE Subscribe \/ TakeSignal
  <2>1. watch'.pc \in {"goa", "off"}
    BY <1>3, <1>w DEF Subscribe, TakeSignal, Watches
  <2>2. QED BY <2>1 DEF Watched
<1>4. CASE WatchGoa
  <2>1. PICK read : /\ Enumerated(Goa, "goa", read)
                    /\ watch' = [watch EXCEPT !.pc = "eds", !.goa = read]
    BY <1>4 DEF WatchGoa, ReadGoa, Watches
  <2>2. desktop' = desktop
    BY <1>4 DEF WatchGoa, WatchRest
  <2>3. faults' = 0 => faults' = faults
    BY <1>w, <2>1 DEF Enumerated, Fault, NoFault
  <2>4. watch'.pc = "eds" /\ watch'.goa = read
    BY <1>w, <2>1
  <2>5. faults' = 0 => read = OfBackend(desktop, Goa)
    BY <2>1, <2>3, ReadWithoutFault
  <2>6. QED BY <2>2, <2>4, <2>5 DEF Watched, OfBackend
<1>5. CASE WatchEds
  <2>1. PICK read : /\ Enumerated(Eds, "eds", read)
                    /\ watch' = [watch EXCEPT !.pc = "idle", !.goa = <<>>, !.first = FALSE,
                                              !.snapshot = Merged(watch.goa, read)]
    BY <1>5 DEF WatchEds, ReadEds, Watches
  <2>2. desktop' = desktop /\ signals' = signals /\ watch.pc = "eds"
    BY <1>5 DEF WatchEds, WatchRest
  <2>3. faults' = 0 => faults' = faults /\ faults = 0
    BY <1>w, <2>1 DEF Enumerated, Fault, NoFault
  <2>4. watch'.pc = "idle" /\ watch'.snapshot = Merged(watch.goa, read)
    BY <1>w, <2>1
  <2>5. faults' = 0 => read = OfBackend(desktop, Eds)
    BY <2>1, <2>3, ReadWithoutFault
  <2>6. faults' = 0 /\ signals' = 0 => watch'.snapshot = Listed
    BY <2>2, <2>3, <2>4, <2>5 DEF Watched, Listed
  <2>7. Listed' = Listed
    BY <2>2 DEF Listed, OfBackend
  <2>8. QED BY <2>4, <2>6, <2>7 DEF Watched
<1>6. CASE TakeDifference \/ DiscoverGoa \/ DiscoverEds
  <2>1. UNCHANGED <<desktop, signals, watch>>
    BY <1>6 DEF TakeDifference, DiscoverGoa, DiscoverEds, DiscRest
  <2>2. faults' \in {faults, faults + 1}
    BY <1>6 DEF TakeDifference, DiscoverGoa, DiscoverEds, ReadGoa, ReadEds, Enumerated, Fault, NoFault
  <2>3. QED BY <2>1, <2>2, WatchedFrame
<1>7. CASE DiscoverAccount \/ DiscoverEnds
  <2>1. UNCHANGED <<desktop, signals, watch>>
    BY <1>7 DEF DiscoverAccount, DiscoverEnds, DiscRest
  <2>2. faults' \in {faults, faults + 1}
    BY <1>7 DEF DiscoverAccount, DiscoverEnds, Fault, NoFault
  <2>3. QED BY <2>1, <2>2, WatchedFrame
<1>8. CASE Reconcile
  <2>1. CASE watching
    BY <1>8, <2>1, WatchedFrame DEF Reconcile
  <2>2. CASE ~watching
    <3>1. watch'.pc = "subscribe"
      BY <1>8, <2>2 DEF Reconcile, WatcherOff
    <3>2. QED BY <3>1 DEF Watched
  <2>3. QED BY <2>1, <2>2
<1>9. CASE Crash
  <2>1. watch'.pc = "off"
    BY <1>9 DEF Crash, WatcherOff
  <2>2. QED BY <2>1 DEF Watched
<1>10. QED
  BY <1>1, <1>2, <1>3, <1>4, <1>5, <1>6, <1>7, <1>8, <1>9 DEF Next, Watcher, Discovery

(* As long as no call fails, the list that the watcher compares with is    *)
(* the desktop whenever no signal waits, however the desktop changes while *)
(* it reads, the first time included (manager.rs, changes).                *)
THEOREM SnapshotKept == Spec => []SnapshotIsDesktop
<1>1. Init => Watched
  BY DEF Init, Watched, WatcherOff
<1>2. Watched => SnapshotIsDesktop
  BY DEF Watched, SnapshotIsDesktop
<1>3. QED BY <1>1, <1>2, TypeInit, TypeNext, WatchedNext, PTL DEF Spec

(* What the service has been given, or will be, is of these accounts.      *)
Given == {row[2] : row \in LastGiven}

(* A change of the desktop that was seen and did not fail is on its way:   *)
(* as a signal, in the watcher's hands, as a difference, or in those of    *)
(* the discovery; or the last list has it.                                 *)
OnItsWay ==
    \/ signals > 0 \/ differences > 0 \/ disc.pc = "goa"
    \/ watch.pc \in {"goa", "eds"} /\ ~watch.first
    \/ disc.pc = "eds" /\ disc.goa = OfBackend(desktop, Goa)
    \/ disc.pc = "accounts" /\ disc.list = Listed
    \/ disc.pc = "idle" /\ Given = Identities(Listed) \ keyless

Due ==
    /\ ~watching => watch.pc = "off"
    /\ ~blind /\ ~undone => OnItsWay

LEMMA SameDesktop ==
    ASSUME UNCHANGED desktop
    PROVE  /\ OfBackend(desktop, Goa)' = OfBackend(desktop, Goa)
           /\ OfBackend(desktop, Eds)' = OfBackend(desktop, Eds)
           /\ Listed' = Listed /\ Identities(Listed)' = Identities(Listed)
BY DEF Listed, OfBackend, Identities

(* What leaves the desktop and the service alone, but for a signal, a      *)
(* difference or a step of the discovery that comes of it.                 *)
LEMMA DueFrame ==
    ASSUME Due, UNCHANGED <<desktop, keyless, workers, inbox, disc, watching, blind>>,
           undone' = FALSE => undone = FALSE, undone' \in BOOLEAN,
           ~watching => watch'.pc = "off",
           signals > 0 => signals' > 0 \/ (watch'.pc \in {"goa", "eds"} /\ ~watch'.first),
           differences > 0 => differences' > 0,
           watch.pc \in {"goa", "eds"} /\ ~watch.first /\ ~undone' =>
               differences' > 0 \/ (watch'.pc \in {"goa", "eds"} /\ ~watch'.first)
    PROVE  Due'
<1>1. Given' = Given
  BY DEF Given, LastGiven, Pairs
<1>2. ~blind' /\ ~undone' => ~blind /\ ~undone
  OBVIOUS
<1>3. ~blind' /\ ~undone' => OnItsWay'
  BY <1>1, <1>2, SameDesktop DEF Due, OnItsWay
<1>4. QED BY <1>3 DEF Due

LEMMA DueWatcher ==
    ASSUME Typed, Due, Watcher, undone \in BOOLEAN
    PROVE  Due'
<1>w. /\ watch \in [pc : {"off", "subscribe", "goa", "eds", "idle"}, goa : Reads(Goa),
                    first : BOOLEAN, snapshot : Lists]
      /\ watch.pc = "idle" => ~watch.first
      /\ faults \in Nat /\ signals \in Nat /\ differences \in Nat
  BY DEF Typed
<1>1. CASE Subscribe
  <2>1. /\ UNCHANGED <<desktop, keyless, workers, inbox, disc, watching, blind, signals, differences>>
        /\ watch.pc = "subscribe" /\ undone' \in BOOLEAN /\ (undone' = FALSE => undone = FALSE)
    BY <1>1 DEF Subscribe, WatchRest
  <2>2. watching
    BY <2>1 DEF Due
  <2>3. QED BY <2>1, <2>2, DueFrame
<1>2. CASE TakeSignal
  <2>1. /\ UNCHANGED <<desktop, keyless, workers, inbox, disc, watching, blind, differences, undone>>
        /\ watch.pc = "idle" /\ watch'.pc = "goa" /\ watch'.first = watch.first
    BY <1>2, <1>w DEF TakeSignal, WatchRest, Watches
  <2>2. watching /\ ~watch'.first
    BY <1>w, <2>1 DEF Due
  <2>3. QED BY <2>1, <2>2, DueFrame
<1>3. CASE WatchGoa
  <2>1. PICK read \in Readable(Goa) : /\ ReadGoa(read)
                                      /\ watch' = [watch EXCEPT !.pc = "eds", !.goa = read]
    BY <1>3 DEF WatchGoa, Watches
  <2>2. /\ UNCHANGED <<desktop, keyless, workers, inbox, disc, watching, blind, signals, differences>>
        /\ watch.pc = "goa" /\ watch'.pc = "eds" /\ watch'.first = watch.first
    BY <1>3, <1>w, <2>1 DEF WatchGoa, WatchRest
  <2>3. undone' \in BOOLEAN /\ (undone' = FALSE => undone = FALSE)
    BY <2>1 DEF ReadGoa
  <2>4. watching
    BY <2>2 DEF Due
  <2>5. QED BY <2>2, <2>3, <2>4, DueFrame
<1>4. CASE WatchEds
  <2>1. PICK read \in Reads(Eds) :
           /\ undone' = (undone \/ faults' # faults
                            \/ (~watch.first /\ Merged(watch.goa, read) = watch.snapshot))
           /\ differences' = differences + (IF watch.first THEN 0
                                            ELSE Diff(watch.snapshot, Merged(watch.goa, read)))
           /\ watch' = [watch EXCEPT !.pc = "idle", !.goa = <<>>, !.first = FALSE,
                                     !.snapshot = Merged(watch.goa, read)]
    BY <1>4, ReadsAre DEF WatchEds, Watches
  <2>2. /\ UNCHANGED <<desktop, keyless, workers, inbox, disc, watching, blind, signals>>
        /\ watch.pc = "eds"
    BY <1>4 DEF WatchEds, WatchRest
  <2>3. undone' \in BOOLEAN /\ (undone' = FALSE => undone = FALSE)
    BY <2>1
  <2>4. Merged(watch.goa, read) \in Lists /\ watch.snapshot \in Lists
    BY <1>w, MergedIsList
  <2>5. PICK d \in Nat : d = Diff(watch.snapshot, Merged(watch.goa, read))
    BY <2>4, DiffCounts
  <2>6. watch.snapshot # Merged(watch.goa, read) => d > 0
    BY <2>4, <2>5, DiffCounts
  <2>7. differences > 0 => differences' > 0
    BY <1>w, <2>1, <2>5
  <2>8. ~watch.first /\ ~undone' => differences' > 0
    <3>1. ~watch.first /\ ~undone' => d > 0 /\ differences' = differences + d
      BY <2>1, <2>5, <2>6
    <3>2. QED BY <1>w, <3>1
  <2>9. watching
    BY <2>2 DEF Due
  <2>10. QED BY <2>2, <2>3, <2>7, <2>8, <2>9, DueFrame
<1>5. QED BY <1>1, <1>2, <1>3, <1>4 DEF Watcher

LEMMA DueDiscovery ==
    ASSUME Typed, Consistent, Due, Discovery, undone \in BOOLEAN
    PROVE  Due'
<1> USE DEF DiscRest, Discovers
<1>d. /\ disc \in [pc : {"idle", "goa", "eds", "accounts"}, goa : Reads(Goa), eds : Reads(Eds),
                   todo : SUBSET Ids, list : Lists, found : SUBSET Rows]
      /\ faults \in Nat /\ inbox \in Seq(SUBSET Rows)
  BY DEF Typed
<1>1. UNCHANGED <<desktop, keyless, signals, watch, workers, watching>>
  BY DEF Discovery, TakeDifference, DiscoverGoa, DiscoverEds, DiscoverAccount, DiscoverEnds
<1>2. ~watching' => watch'.pc = "off"
  BY <1>1 DEF Due
<1> SUFFICES ASSUME ~blind', ~undone' PROVE OnItsWay'
  BY <1>2 DEF Due
<1>3. CASE TakeDifference
  <2>1. disc'.pc = "goa"
    BY <1>3 DEF TakeDifference, AtRest
  <2>2. QED BY <2>1 DEF OnItsWay
<1>4. CASE DiscoverGoa
  <2>1. PICK read : /\ ReadGoa(read) /\ disc' = [disc EXCEPT !.pc = "eds", !.goa = read]
    BY <1>4 DEF DiscoverGoa
  <2>2. faults' = faults
    BY <2>1 DEF ReadGoa
  <2>3. read = OfBackend(desktop, Goa)
    BY <2>1, <2>2, ReadWithoutFault DEF ReadGoa
  <2>4. disc'.pc = "eds" /\ disc'.goa = read
    BY <1>d, <2>1
  <2>5. QED BY <1>1, <2>3, <2>4, SameDesktop DEF OnItsWay
<1>5. CASE DiscoverEds
  <2>1. PICK read : /\ ReadEds(read) /\ undone' = (undone \/ faults' # faults)
                    /\ disc' = [disc EXCEPT !.pc = "accounts", !.eds = read,
                                            !.list = Merged(disc.goa, read),
                                            !.todo = Identities(Merged(disc.goa, read))]
    BY <1>5 DEF DiscoverEds
  <2>2. faults' = faults
    BY <2>1
  <2>3. read = OfBackend(desktop, Eds)
    BY <2>1, <2>2, ReadWithoutFault DEF ReadEds
  <2>4. disc'.pc = "accounts" /\ disc'.list = Merged(disc.goa, read)
    BY <1>d, <2>1
  <2>5. /\ disc.pc = "eds" /\ ~blind /\ ~undone /\ UNCHANGED differences
    BY <1>5, <2>1 DEF DiscoverEds
  <2>6. OnItsWay
    BY <2>5 DEF Due
  <2>7. disc.goa = OfBackend(desktop, Goa) => disc'.list = Listed'
    BY <1>1, <2>3, <2>4, SameDesktop DEF Listed
  <2>8. QED BY <1>1, <2>4, <2>5, <2>6, <2>7 DEF OnItsWay
<1>6. CASE DiscoverAccount
  <2> DEFINE account == Min(disc.todo)
  <2>1. /\ disc.pc = "accounts" /\ ~blind /\ ~undone /\ UNCHANGED differences
        /\ disc' = [disc EXCEPT !.todo = @ \ {account},
                                !.found = @ \cup Served(rows', account)]
    BY <1>6 DEF DiscoverAccount, NoFault
  <2> HIDE DEF account
  <2>2. disc'.pc = disc.pc /\ disc'.list = disc.list
    BY <1>d, <2>1
  <2>3. OnItsWay
    BY <2>1 DEF Due
  <2>4. QED BY <1>1, <2>1, <2>2, <2>3, SameDesktop DEF OnItsWay
<1>7. CASE DiscoverEnds
  <2>1. /\ disc.pc = "accounts" /\ disc.todo = {} /\ ~blind /\ ~undone /\ UNCHANGED differences
        /\ inbox' = Append(inbox, disc.found) /\ disc'.pc = "idle"
    BY <1>7 DEF DiscoverEnds, AtRest
  <2>2. OnItsWay
    BY <2>1 DEF Due
  <2>3. inbox' # <<>> /\ inbox'[Len(inbox')] = disc.found
    <3>1. disc.found \in SUBSET Rows
      BY <1>d
    <3>2. QED BY <1>d, <2>1, <3>1
  <2>4. LastGiven' = disc.found
    BY <2>3 DEF LastGiven
  <2>5. Given' = Identities(disc.list) \ keyless
    BY <2>1, <2>4 DEF Given, Consistent
  <2>6. disc.list = Listed => Given' = Identities(Listed)' \ keyless'
    BY <1>1, <2>5, SameDesktop
  <2>7. QED BY <1>1, <2>1, <2>2, <2>6 DEF OnItsWay
<1>8. QED BY <1>3, <1>4, <1>5, <1>6, <1>7 DEF Discovery

LEMMA DueNext ==
    ASSUME Typed, Consistent, Due, undone \in BOOLEAN, [Next]_vars
    PROVE  Due' /\ undone' \in BOOLEAN
<1>w. /\ watch \in [pc : {"off", "subscribe", "goa", "eds", "idle"}, goa : Reads(Goa),
                    first : BOOLEAN, snapshot : Lists]
      /\ signals \in Nat
  BY DEF Typed
<1>1. CASE UNCHANGED vars
  <2>1. UNCHANGED <<desktop, keyless, workers, inbox, disc, watching, blind, undone, watch, signals,
                    differences>>
    BY <1>1 DEF vars
  <2>2. ~watching => watch'.pc = "off"
    BY <2>1 DEF Due
  <2>3. QED BY <2>1, <2>2, DueFrame
<1>2. CASE Desktop
  <2>1. PICK present : Change(present)
    BY <1>2 DEF Desktop, Appears, Vanishes, Edited
  <2>2. /\ UNCHANGED <<watch, disc, watching, undone>>
        /\ signals' = IF Subscribed THEN signals + 1 ELSE signals
        /\ blind' = (blind \/ (~Subscribed /\ (watching \/ inbox # <<>> \/ disc.pc # "goa")))
    BY <2>1 DEF Change
  <2>3. CASE Subscribed
    <3>1. signals' > 0
      BY <1>w, <2>2, <2>3
    <3>2. QED BY <2>2, <3>1 DEF Due, OnItsWay
  <2>4. CASE ~Subscribed
    <3>1. ~blind' => disc'.pc = "goa"
      BY <2>2, <2>4
    <3>2. QED BY <2>2, <3>1 DEF Due, OnItsWay
  <2>5. QED BY <2>3, <2>4
<1>3. CASE Watcher
  <2>1. undone' \in BOOLEAN
    BY <1>3 DEF Watcher, Subscribe, TakeSignal, WatchGoa, WatchEds, ReadGoa
  <2>2. QED BY <1>3, <2>1, DueWatcher
<1>4. CASE Discovery
  <2>1. undone' \in BOOLEAN
    BY <1>4 DEF Discovery, TakeDifference, DiscoverGoa, DiscoverEds, DiscoverAccount, DiscoverEnds,
                ReadGoa
  <2>2. QED BY <1>4, <2>1, DueDiscovery
<1>5. CASE Reconcile
  <2>1. /\ UNCHANGED <<desktop, keyless, signals, differences, disc, blind, undone>> /\ watching'
        /\ watch' = IF watching THEN watch ELSE [WatcherOff EXCEPT !.pc = "subscribe"]
    BY <1>5 DEF Reconcile
  <2>2. Given' = Given
    BY <1>5, LastGivenKept DEF Given
  <2>3. watch.pc \in {"goa", "eds"} => watch' = watch
    BY <2>1 DEF Due
  <2>4. QED BY <2>1, <2>2, <2>3, SameDesktop DEF Due, OnItsWay
<1>6. CASE Crash
  <2>1. disc'.pc = "goa" /\ undone' = FALSE /\ watch'.pc = "off"
    BY <1>6 DEF Crash, AtRest, WatcherOff
  <2>2. QED BY <2>1 DEF Due, OnItsWay
<1>7. QED BY <1>1, <1>2, <1>3, <1>4, <1>5, <1>6 DEF Next

(* When everything is quiet a worker runs for each account of the desktop  *)
(* that has a credential, and for no other: a change that was watched for, *)
(* was found and did not fail is on its way until the service has it,      *)
(* wherever watcher, discovery and service are in their own steps          *)
(* (app/src/sync.rs, start_watcher, discover and reconcile).               *)
THEOREM ServiceFollows == Spec => []ServiceFollowsDesktop
<1> DEFINE Inv == Typed /\ Consistent /\ Due /\ undone \in BOOLEAN
<1>1. Init => Inv
  <2>1. ASSUME Init PROVE Due /\ undone \in BOOLEAN
    <3>1. watch.pc = "off" /\ disc.pc = "goa" /\ undone = FALSE
      BY <2>1 DEF Init, WatcherOff, AtRest
    <3>2. QED BY <3>1 DEF Due, OnItsWay
  <2>2. QED BY <2>1, TypeInit, ConsistentInit
<1>2. Inv /\ [Next]_vars => Inv'
  BY TypeNext, ConsistentNext, DueNext
<1>3. Inv => ServiceFollowsDesktop
  <2> SUFFICES ASSUME Due, Settled, ~blind, ~undone
               PROVE  {workers[i] : i \in DOMAIN workers} = Identities(Listed) \ keyless
    BY DEF ServiceFollowsDesktop
  <2>1. Given = Identities(Listed) \ keyless
    BY DEF Due, OnItsWay, Settled
  <2>2. LastGiven = {<<i, workers[i]>> : i \in DOMAIN workers}
    BY DEF LastGiven, Pairs, Settled
  <2>3. Given = {workers[i] : i \in DOMAIN workers}
    <3>1. ASSUME NEW i \in DOMAIN workers PROVE workers[i] \in Given
      <4>1. <<i, workers[i]>> \in LastGiven
        BY <2>2
      <4>2. QED BY <4>1 DEF Given
    <3>2. ASSUME NEW row \in LastGiven PROVE row[2] \in {workers[i] : i \in DOMAIN workers}
      BY <2>2
    <3>3. QED BY <3>1, <3>2 DEF Given
  <2>4. QED BY <2>1, <2>3
<1> HIDE DEF Inv
<1>4. QED BY <1>1, <1>2, <1>3, PTL DEF Spec
=============================================================================
