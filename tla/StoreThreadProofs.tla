-------------------------- MODULE StoreThreadProofs --------------------------
(***************************************************************************)
(* What holds of StoreThread for any number of handles, tasks, calls and   *)
(* slots of the channel.                                                   *)
(***************************************************************************)
EXTENDS StoreThread, FiniteSetTheorems, TLAPS

-----------------------------------------------------------------------------
(* Sequences in which some elements stand once only, or before others.     *)

Once(s, S) == \A i, j \in DOMAIN s : s[i] = s[j] /\ s[i] \in S => i = j
Before(s, S, x) == \A i, j \in DOMAIN s : s[i] \in S /\ s[j] = x => i < j

LEMMA Emptied ==
    /\ Elements(<<>>) = {}
    /\ \A S, x : Once(<<>>, S) /\ Before(<<>>, S, x)
BY DEF Elements, Once, Before

LEMMA Appended ==
    ASSUME NEW T, NEW s \in Seq(T), NEW e \in T
    PROVE  /\ Append(s, e) \in Seq(T) /\ Len(Append(s, e)) = Len(s) + 1
           /\ Elements(Append(s, e)) = Elements(s) \cup {e}
           /\ \A S : Once(s, S) /\ (e \notin S \/ e \notin Elements(s)) => Once(Append(s, e), S)
           /\ \A S, x : Before(s, S, x) /\ e \notin S => Before(Append(s, e), S, x)
<1> DEFINE r == Append(s, e)
<1>1. /\ r \in Seq(T) /\ Len(r) = Len(s) + 1 /\ Len(s) \in Nat
      /\ DOMAIN s = 1 .. Len(s) /\ DOMAIN r = 1 .. Len(s) + 1
      /\ r[Len(s) + 1] = e
  OBVIOUS
<1>2. \A i \in DOMAIN s : r[i] = s[i]
  OBVIOUS
<1> HIDE DEF r
<1>3. \A i \in DOMAIN r : i \in DOMAIN s \/ i = Len(s) + 1
  BY <1>1
<1>4. Elements(r) = Elements(s) \cup {e}
  BY <1>1, <1>2, <1>3 DEF Elements
<1>5. ASSUME NEW S, Once(s, S), e \notin S \/ e \notin Elements(s) PROVE Once(r, S)
  BY <1>1, <1>2, <1>3, <1>5 DEF Once, Elements
<1>6. ASSUME NEW S, NEW x, Before(s, S, x), e \notin S PROVE Before(r, S, x)
  BY <1>1, <1>2, <1>3, <1>6 DEF Before
<1>7. QED BY <1>1, <1>4, <1>5, <1>6 DEF r

LEMMA Taken ==
    ASSUME NEW T, NEW s \in Seq(T), s # <<>>
    PROVE  /\ Tail(s) \in Seq(T) /\ Len(Tail(s)) = Len(s) - 1 /\ Head(s) \in T
           /\ Elements(s) = Elements(Tail(s)) \cup {Head(s)}
           /\ \A S : Once(s, S) =>
                  Once(Tail(s), S) /\ (Head(s) \in S => Head(s) \notin Elements(Tail(s)))
           /\ \A S, x : Before(s, S, x) => Before(Tail(s), S, x)
<1> DEFINE r == Tail(s)
<1>1. /\ r \in Seq(T) /\ Len(r) = Len(s) - 1 /\ Len(s) \in Nat \ {0}
      /\ DOMAIN s = 1 .. Len(s) /\ DOMAIN r = 1 .. Len(s) - 1
      /\ Head(s) = s[1] /\ Head(s) \in T
  OBVIOUS
<1>2. \A i \in DOMAIN r : r[i] = s[i + 1]
  OBVIOUS
<1> HIDE DEF r
<1>3. /\ \A i \in DOMAIN s \ {1} : i - 1 \in DOMAIN r /\ r[i - 1] = s[i]
      /\ \A i \in DOMAIN r : i + 1 \in DOMAIN s \ {1}
      /\ 1 \in DOMAIN s
  BY <1>1, <1>2
<1>4. Elements(s) = Elements(r) \cup {Head(s)}
  <2>1. \A i \in DOMAIN s : s[i] \in Elements(r) \cup {Head(s)}
    BY <1>1, <1>3 DEF Elements
  <2>2. \A i \in DOMAIN r : r[i] \in Elements(s)
    BY <1>2, <1>3 DEF Elements
  <2>3. Head(s) \in Elements(s)
    BY <1>1, <1>3 DEF Elements
  <2>4. QED BY <2>1, <2>2, <2>3 DEF Elements
<1>5. ASSUME NEW S, Once(s, S)
      PROVE  Once(r, S) /\ (Head(s) \in S => Head(s) \notin Elements(r))
  BY <1>1, <1>2, <1>3, <1>5 DEF Once, Elements
<1>6. ASSUME NEW S, NEW x, Before(s, S, x) PROVE Before(r, S, x)
  <2> SUFFICES ASSUME NEW i \in DOMAIN r, NEW j \in DOMAIN r, r[i] \in S, r[j] = x
               PROVE  i < j
    BY DEF Before
  <2>1. i + 1 < j + 1
    BY <1>2, <1>3, <1>6 DEF Before
  <2>2. QED BY <1>1, <2>1
<1>7. QED BY <1>1, <1>4, <1>5, <1>6 DEF r

LEMMA LeftOut ==
    ASSUME NEW T, NEW s \in Seq(T), NEW c \in Elements(s), Once(s, T)
    PROVE  /\ Left(s, c) \in Seq(T)
           /\ Elements(Left(s, c)) = Elements(s) \ {c}
           /\ Once(Left(s, c), T)
<1> DEFINE r == Left(s, c)
<1>1. PICK n \in 1 .. Len(s) : s[n] = c
  BY DEF Elements
<1>2. /\ Len(s) \in Nat \ {0} /\ DOMAIN s = 1 .. Len(s)
      /\ \A i \in DOMAIN s : s[i] \in T
  BY <1>1
<1>3. \A i \in DOMAIN s : (\A j \in 1 .. i : s[j] # c) <=> i < n
  BY <1>1, <1>2 DEF Once
<1>4. r = [i \in 1 .. Len(s) - 1 |-> IF i < n THEN s[i] ELSE s[i + 1]]
  BY <1>2, <1>3 DEF Left
<1> HIDE DEF r
<1>5. DOMAIN r = 1 .. Len(s) - 1 /\ Len(s) - 1 \in Nat
      /\ \A i \in DOMAIN r : r[i] = (IF i < n THEN s[i] ELSE s[i + 1]) /\ r[i] \in T
  BY <1>2, <1>4
<1>6. r \in Seq(T)
  BY <1>4, <1>5
<1>7. \A i \in DOMAIN r : r[i] \in Elements(s) \ {c}
  BY <1>1, <1>2, <1>5 DEF Elements, Once
<1>8. \A i \in DOMAIN s : s[i] # c => \E k \in DOMAIN r : r[k] = s[i]
  <2> SUFFICES ASSUME NEW i \in DOMAIN s, s[i] # c PROVE \E k \in DOMAIN r : r[k] = s[i]
    OBVIOUS
  <2>1. CASE i < n
    BY <1>1, <1>2, <1>5, <2>1
  <2>2. CASE i > n
    <3>1. i - 1 \in DOMAIN r /\ r[i - 1] = s[i]
      BY <1>1, <1>2, <1>5, <2>2
    <3>2. QED BY <3>1
  <2>3. QED BY <1>1, <1>2, <2>1, <2>2
<1>9. Once(r, T)
  BY <1>1, <1>2, <1>5 DEF Once
<1>10. QED BY <1>6, <1>7, <1>8, <1>9 DEF r, Elements

LEMMA ElementsTyped == \A T : \A s \in Seq(T) : Elements(s) \subseteq T
BY DEF Elements

-----------------------------------------------------------------------------
(* The inductive invariant.                                                *)

(* Every variable has its type, and few tasks hold a slot.                 *)
Typed == TypeOK /\ IsFiniteSet(granted)

(* A task's command is in one place at most: it waits for a slot or has    *)
(* been given one while the task sends, it is in the channel or with the   *)
(* thread while the task waits or has given up for good.                   *)
Places ==
    /\ Once(queue, Callers) /\ Once(blocked, Callers)
    /\ Elements(blocked) \cap granted = {}
    /\ \A c \in Callers :
          /\ c \in Elements(blocked) \cup granted <=> call[c] = "sending"
          /\ c \in Elements(queue) \/ c = thread => call[c] \in {"waiting", "abandoned"}
          /\ c \in Elements(queue) => c # thread
          /\ call[c] = "abandoned" => made[c] = MaxCalls

(* How often the statements of a call were executed, by where it is.       *)
Counts ==
    \A c \in Callers :
        /\ c \in Elements(queue) \cup Elements(blocked) \cup granted => executed[c] = 0
        /\ c = thread => executed[c] \in {0, 1}
        /\ call[c] = "answered" => executed[c] = 1
        /\ call[c] = "closed" => executed[c] = 0

(* What was queued before the first drop stands before every Shutdown.     *)
Drops ==
    /\ ~Dropped => early = {} /\ Shutdown \notin Elements(queue)
    /\ Before(queue, early, Shutdown)
    /\ \A c \in early : call[c] # "sending"
    /\ QueuedBeforeADropIsDone

Inv == Typed /\ Places /\ Counts /\ Drops

LEMMA InvParts ==
    Inv =>
        /\ handles \subseteq Handles /\ using \in [Callers -> Handles \cup {None}]
        /\ call \in [Callers -> {"none", "sending", "waiting", "answered", "closed", "abandoned"}]
        /\ queue \in Seq(Commands) /\ blocked \in Seq(Callers)
        /\ granted \subseteq Callers /\ IsFiniteSet(granted) /\ Cardinality(granted) \in Nat
        /\ Elements(blocked) \subseteq Callers /\ Elements(queue) \subseteq Commands
        /\ made \in [Callers -> Nat] /\ executed \in [Callers -> Nat] /\ early \subseteq Callers
        /\ thread \in Callers \cup {"opening", "idle", "ended", "failed"}
        /\ Len(queue) \in Nat /\ Len(queue) + Cardinality(granted) <= Capacity
        /\ Capacity \in Nat \ {0} /\ Shutdown \notin Callers
        /\ \A t \in {"opening", "idle", "ended", "failed"} : t \notin Callers
BY StoreThreadAssumption, ElementsTyped, FS_CardinalityType DEF Inv, Typed, TypeOK

LEMMA InvInit == Init => Inv
<1> SUFFICES ASSUME Init PROVE Inv
  OBVIOUS
<1>1. Elements(queue) = {} /\ Elements(blocked) = {} /\ Len(queue) = 0
      /\ Once(queue, Callers) /\ Once(blocked, Callers) /\ Before(queue, early, Shutdown)
  BY Emptied DEF Init
<1>2. IsFiniteSet(granted) /\ Cardinality(granted) = 0
  BY FS_EmptySet DEF Init
<1>3. Typed
  BY <1>1, <1>2, StoreThreadAssumption DEF Init, Typed, TypeOK
<1>4. thread \notin Callers
  BY StoreThreadAssumption DEF Init
<1>5. Places /\ Counts
  BY <1>1, <1>4 DEF Init, Places, Counts
<1>6. Drops
  BY <1>1 DEF Init, Drops, QueuedBeforeADropIsDone, Dropped
<1>7. QED BY <1>3, <1>5, <1>6 DEF Inv

(* A task calls: nothing of an earlier call is left on the way.            *)
LEMMA InvCall ==
    ASSUME Inv, NEW c \in Callers, NEW h \in Handles,
           CallQueued(c, h) \/ CallBlocks(c, h) \/ CallRefused(c, h)
    PROVE  Inv'
<1> USE InvParts
<1>1. PICK to \in {"sending", "waiting", "closed"} : Made(c, h, to)
  BY DEF CallQueued, CallBlocks, CallRefused
<1>2. /\ c \notin Elements(queue) \cup Elements(blocked) \cup granted \cup {thread}
      /\ call[c] \notin {"sending", "waiting", "abandoned"}
  <2>1. call[c] \notin {"sending", "waiting"} /\ made[c] # MaxCalls
    BY <1>1, StoreThreadAssumption DEF Made, Busy
  <2>2. QED BY <2>1 DEF Inv, Places
<1>3. /\ call' = [call EXCEPT ![c] = to] /\ using' = [using EXCEPT ![c] = h]
      /\ made' = [made EXCEPT ![c] = @ + 1] /\ executed' = [executed EXCEPT ![c] = 0]
      /\ early' = early \ {c} /\ UNCHANGED <<handles, thread, granted>>
  BY <1>1 DEF Made, CallQueued, CallBlocks, CallRefused
<1>4. \/ to = "waiting" /\ queue' = Append(queue, c) /\ blocked' = blocked /\ Room
      \/ to = "sending" /\ queue' = queue /\ blocked' = Append(blocked, c)
      \/ to = "closed" /\ queue' = queue /\ blocked' = blocked
  <2>1. call'[c] = to
    BY <1>3
  <2>2. QED BY <2>1 DEF CallQueued, CallBlocks, CallRefused, Made
<1>5. /\ queue' \in Seq(Commands) /\ blocked' \in Seq(Callers)
      /\ Elements(queue') = Elements(queue) \cup (IF to = "waiting" THEN {c} ELSE {})
      /\ Elements(blocked') = Elements(blocked) \cup (IF to = "sending" THEN {c} ELSE {})
      /\ Once(queue', Callers) /\ Once(blocked', Callers)
      /\ Before(queue', early', Shutdown)
      /\ Len(queue') = (IF to = "waiting" THEN Len(queue) + 1 ELSE Len(queue))
  <2>1. Before(queue, early', Shutdown)
    BY <1>3 DEF Inv, Drops, Before
  <2>2. Once(queue, Callers) /\ Once(blocked, Callers) /\ c \in Commands /\ c \notin early'
    BY <1>3 DEF Inv, Places, Commands
  <2>3. CASE to = "waiting"
    <3>1. queue' = Append(queue, c) /\ blocked' = blocked
      BY <1>4, <2>3
    <3>2. QED BY <1>2, <2>1, <2>2, <2>3, <3>1, Appended
  <2>4. CASE to = "sending"
    <3>1. queue' = queue /\ blocked' = Append(blocked, c)
      BY <1>4, <2>4
    <3>2. QED BY <1>2, <2>1, <2>2, <2>4, <3>1, Appended
  <2>5. CASE to = "closed"
    <3>1. queue' = queue /\ blocked' = blocked
      BY <1>4, <2>5
    <3>2. QED BY <2>1, <2>2, <2>5, <3>1
  <2>6. QED BY <2>3, <2>4, <2>5
<1>6. Typed'
  <2>1. Len(queue') + Cardinality(granted) <= Capacity
    BY <1>4, <1>5 DEF Room, Free
  <2>2. QED BY SMTT(30), <1>3, <1>5, <2>1 DEF Typed, TypeOK
<1>7. Places' /\ Counts'
  BY SMTT(30), <1>2, <1>3, <1>5 DEF Inv, Places, Counts
<1>8. Drops'
  <2>1. ~Dropped' => early' = {} /\ Shutdown \notin Elements(queue')
    BY <1>3, <1>5 DEF Inv, Drops, Dropped
  <2>2. \A d \in early' : call'[d] = call[d] /\ d \in early
    BY <1>3
  <2>3. QED BY <1>3, <1>5, <2>1, <2>2 DEF Inv, Drops, QueuedBeforeADropIsDone
<1>9. QED BY <1>6, <1>7, <1>8 DEF Inv

(* A task that was given a slot fills it.                                  *)
LEMMA InvPush ==
    ASSUME Inv, NEW c \in Callers, Push(c)
    PROVE  Inv'
<1> USE InvParts
<1>1. /\ c \in granted /\ granted' = granted \ {c} /\ call[c] = "sending" /\ executed[c] = 0
      /\ c \notin Elements(queue) \cup Elements(blocked) \cup {thread} /\ c \notin early
      /\ UNCHANGED <<handles, using, blocked, thread, made, executed, early>>
  BY DEF Push, Inv, Places, Counts, Drops
<1>2. IsFiniteSet(granted') /\ Cardinality(granted') = Cardinality(granted) - 1
  BY <1>1, FS_RemoveElement
<1>3. CASE Gone
  <2>1. call' = [call EXCEPT ![c] = "closed"] /\ queue' = queue
    BY <1>3 DEF Push
  <2>2. Typed'
    BY <1>1, <1>2, <2>1 DEF Typed, TypeOK
  <2>3. Places' /\ Counts'
    BY <1>1, <2>1 DEF Inv, Places, Counts
  <2>4. Drops'
    BY <1>1, <2>1 DEF Inv, Drops, Dropped, QueuedBeforeADropIsDone
  <2>5. QED BY <2>2, <2>3, <2>4 DEF Inv
<1>4. CASE ~Gone
  <2>1. call' = [call EXCEPT ![c] = "waiting"] /\ queue' = Append(queue, c)
    BY <1>4 DEF Push
  <2>2. /\ queue' \in Seq(Commands) /\ Len(queue') = Len(queue) + 1
        /\ Elements(queue') = Elements(queue) \cup {c}
        /\ Once(queue', Callers) /\ Before(queue', early, Shutdown)
    BY ZenonT(40), <1>1, <2>1, Appended DEF Inv, Places, Drops, Commands
  <2>3. Typed'
    BY <1>1, <1>2, <2>1, <2>2 DEF Typed, TypeOK
  <2>4. Places' /\ Counts'
    BY <1>1, <2>1, <2>2 DEF Inv, Places, Counts
  <2>5. Drops'
    BY <1>1, <2>1, <2>2 DEF Inv, Drops, Dropped, QueuedBeforeADropIsDone
  <2>6. QED BY <2>3, <2>4, <2>5 DEF Inv
<1>5. QED BY <1>3, <1>4

(* A slot that is free again goes to the one that waits longest.           *)
LEMMA PassedOn ==
    ASSUME Inv, NEW g \in SUBSET granted, SlotPassedOn(g)
    PROVE  /\ blocked' \in Seq(Callers) /\ granted' \subseteq Callers /\ Once(blocked', Callers)
           /\ IsFiniteSet(granted') /\ Cardinality(granted') <= Cardinality(g) + 1
           /\ Cardinality(g) \in Nat /\ Cardinality(granted') \in Nat
           /\ Elements(blocked') \cap granted' = {}
           /\ Elements(blocked') \cup granted' = Elements(blocked) \cup g
<1> USE InvParts
<1>1. IsFiniteSet(g) /\ Cardinality(g) \in Nat
  BY FS_Subset, FS_CardinalityType
<1>2. Once(blocked, Callers) /\ Elements(blocked) \cap granted = {}
  BY DEF Inv, Places
<1>3. CASE blocked = <<>>
  BY <1>1, <1>2, <1>3 DEF SlotPassedOn
<1>4. CASE blocked # <<>>
  <2>1. granted' = g \cup {Head(blocked)} /\ blocked' = Tail(blocked)
    BY <1>4 DEF SlotPassedOn
  <2>2. /\ blocked' \in Seq(Callers) /\ Head(blocked) \in Callers /\ Once(blocked', Callers)
        /\ Elements(blocked) = Elements(blocked') \cup {Head(blocked)}
        /\ Head(blocked) \notin Elements(blocked')
    BY <1>2, <1>4, <2>1, Taken
  <2>3. IsFiniteSet(granted') /\ Cardinality(granted') <= Cardinality(g) + 1
        /\ Cardinality(granted') \in Nat
    <3>1. IsFiniteSet(g \cup {Head(blocked)})
          /\ Cardinality(g \cup {Head(blocked)}) \in {Cardinality(g), Cardinality(g) + 1}
      BY <1>1, FS_AddElement
    <3>2. QED BY <1>1, <2>1, <3>1
  <2>4. QED BY SMTT(30), <1>1, <1>2, <2>1, <2>2, <2>3
<1>5. QED BY <1>3, <1>4

(* A task gives up.                                                        *)
LEMMA InvAbandon ==
    ASSUME Inv, NEW c \in Callers, Abandon(c)
    PROVE  Inv'
<1> USE InvParts
<1>1. /\ call[c] \in {"sending", "waiting"} /\ call' = [call EXCEPT ![c] = "abandoned"]
      /\ made' = [made EXCEPT ![c] = MaxCalls]
      /\ UNCHANGED <<handles, using, queue, thread, executed, early>>
  BY DEF Abandon, Busy
<1>2. /\ blocked' \in Seq(Callers) /\ granted' \subseteq Callers /\ Once(blocked', Callers)
      /\ IsFiniteSet(granted') /\ Cardinality(granted') <= Cardinality(granted)
      /\ Cardinality(granted') \in Nat
      /\ Elements(blocked') \cap granted' = {}
      /\ Elements(blocked') \cup granted' = (Elements(blocked) \cup granted) \ {c}
  <2>p. Once(blocked, Callers) /\ Elements(blocked) \cap granted = {}
    BY DEF Inv, Places
  <2>1. CASE c \in granted
    <3>1. SlotPassedOn(granted \ {c})
      <4>1. c \notin Elements(blocked)
        BY <2>p, <2>1
      <4>2. QED BY <2>1, <4>1 DEF Abandon
    <3>2. Cardinality(granted \ {c}) = Cardinality(granted) - 1
      BY <2>1, FS_RemoveElement
    <3>3. QED BY <2>1, <2>p, <3>1, <3>2, PassedOn
  <2>2. CASE c \notin granted /\ c \in Elements(blocked)
    <3>1. blocked' = Left(blocked, c) /\ granted' = granted
      BY <2>2 DEF Abandon
    <3>2. QED BY <2>2, <2>p, <3>1, LeftOut
  <2>3. CASE c \notin granted /\ c \notin Elements(blocked)
    <3>1. blocked' = blocked /\ granted' = granted
      BY <2>3 DEF Abandon
    <3>2. QED BY <2>3, <2>p, <3>1
  <2>4. QED BY <2>1, <2>2, <2>3
<1>3. Typed'
  BY <1>1, <1>2, StoreThreadAssumption DEF Typed, TypeOK
<1>4. Places' /\ Counts'
  BY <1>1, <1>2 DEF Inv, Places, Counts
<1>5. Drops'
  BY <1>1 DEF Inv, Drops, Dropped, QueuedBeforeADropIsDone
<1>6. QED BY <1>3, <1>4, <1>5 DEF Inv

(* A handle goes, with or without room for its Shutdown.                   *)
LEMMA InvDrop ==
    ASSUME Inv, NEW h \in Handles, Drop(h)
    PROVE  Inv'
<1> USE InvParts
<1>1. /\ handles' = handles \ {h} /\ h \in handles
      /\ UNCHANGED <<using, call, blocked, granted, thread, made, executed>>
      /\ early' = IF Dropped THEN early ELSE (Elements(queue) \cup {thread}) \cap Callers
      /\ queue' = queue \/ (Room /\ queue' = Append(queue, Shutdown))
  BY DEF Drop, Posted
<1>2. Dropped'
  BY <1>1 DEF Dropped
<1>3. Once(queue, Callers) /\ Before(queue, early', Shutdown)
  <2>1. Shutdown \notin Elements(queue) => \A S : Before(queue, S, Shutdown)
    BY DEF Before, Elements
  <2>2. QED BY <1>1, <2>1 DEF Inv, Places, Drops
<1>4. /\ queue' \in Seq(Commands) /\ Once(queue', Callers) /\ Before(queue', early', Shutdown)
      /\ Elements(queue') \cap Callers = Elements(queue) \cap Callers
      /\ Len(queue') + Cardinality(granted) <= Capacity
  <2>1. CASE queue' = queue
    BY <1>3, <2>1
  <2>2. CASE Room /\ queue' = Append(queue, Shutdown)
    <3>1. Shutdown \in Commands /\ Shutdown \notin early'
      BY <1>1 DEF Commands
    <3>2. Len(queue) + 1 + Cardinality(granted) <= Capacity
      BY <2>2 DEF Room, Free
    <3>3. QED BY <1>3, <2>2, <3>1, <3>2, Appended
  <2>3. QED BY <1>1, <2>1, <2>2
<1>5. Typed'
  BY <1>1, <1>4 DEF Typed, TypeOK
<1>6. Places' /\ Counts'
  <2>1. \A c \in Callers : c \in Elements(queue') <=> c \in Elements(queue)
    BY <1>4
  <2>2. QED BY <1>1, <1>4, <2>1 DEF Inv, Places, Counts
<1>7. \A c \in early' : call[c] # "sending" /\ (call[c] = "closed" => thread = "failed")
  BY <1>1 DEF Inv, Places, Drops, QueuedBeforeADropIsDone
<1>8. Drops'
  BY <1>1, <1>2, <1>4, <1>7 DEF Drops, QueuedBeforeADropIsDone
<1>9. QED BY <1>5, <1>6, <1>8 DEF Inv

(* The thread ends, in order or because the database does not open.        *)
LEMMA InvEnd ==
    ASSUME Inv, NEW how \in {"ended", "failed"}, End(how), thread \notin Callers,
           thread # "failed", how = "ended" => Over
    PROVE  Inv'
<1> USE InvParts
<1>1. /\ thread' = how /\ queue' = <<>> /\ blocked' = <<>>
      /\ call' = [c \in Callers |-> IF c \in Unanswered /\ c \in Busy THEN "closed" ELSE call[c]]
      /\ UNCHANGED <<handles, using, granted, made, executed, early>>
  BY DEF End
<1>2. /\ Elements(queue') = {} /\ Elements(blocked') = {} /\ Len(queue') = 0
      /\ Once(queue', Callers) /\ Once(blocked', Callers) /\ Before(queue', early, Shutdown)
  BY <1>1, Emptied
<1>3. \A c \in Callers : call'[c] = call[c] \/ (c \in Unanswered /\ c \in Busy /\ call'[c] = "closed")
  BY <1>1
<1>4. Typed'
  <2>1. call' \in [Callers -> {"none", "sending", "waiting", "answered", "closed", "abandoned"}]
    BY <1>1
  <2>2. Cardinality(granted) <= Capacity
    OBVIOUS
  <2>3. QED BY <1>1, <1>2, <2>1, <2>2 DEF Typed, TypeOK
<1>5. Places'
  <2>1. ASSUME NEW c \in Callers PROVE c \in granted <=> call'[c] = "sending"
    <3>1. c \in Elements(blocked) \cup granted <=> call[c] = "sending"
      BY DEF Inv, Places
    <3>2. c \in Elements(blocked) => c \notin granted
      BY DEF Inv, Places
    <3>3. c \in granted => c \notin Elements(queue)
      BY DEF Inv, Places
    <3>4. CASE c \in Elements(blocked)
      BY <1>1, <3>1, <3>2, <3>4 DEF Unanswered, Busy
    <3>5. CASE c \in granted
      BY <1>1, <3>1, <3>2, <3>3, <3>5 DEF Unanswered
    <3>6. CASE c \notin Elements(blocked) \cup granted
      BY <1>3, <3>1, <3>6
    <3>7. QED BY <3>4, <3>5, <3>6
  <2>2. \A c \in Callers : c # thread' /\ (call'[c] = "abandoned" => call[c] = "abandoned")
    BY <1>1, <1>3
  <2>3. QED BY <1>1, <1>2, <2>1, <2>2 DEF Inv, Places
<1>6. Counts'
  <2>1. \A c \in Callers : c \in Unanswered => executed[c] = 0
    BY DEF Inv, Counts, Unanswered
  <2>2. QED BY <1>1, <1>2, <1>3, <2>1 DEF Inv, Counts
<1>7. Drops'
  <2>1. \A c \in early : call[c] # "sending" /\ call[c] # "closed"
    BY DEF Inv, Drops, QueuedBeforeADropIsDone
  <2>2. ASSUME NEW c \in early, how = "ended" PROVE call'[c] # "closed"
    <3>1. c \notin Elements(queue)
      <4>1. CASE queue # <<>> /\ Head(queue) = Shutdown
        <5>1. 1 \in DOMAIN queue /\ queue[1] = Shutdown /\ \A i \in DOMAIN queue : ~(i < 1)
          BY <4>1
        <5>2. QED BY <5>1 DEF Inv, Drops, Before, Elements
      <4>2. CASE queue = <<>>
        BY <4>2, Emptied
      <4>3. QED BY <2>2, <4>1, <4>2 DEF Over
    <3>2. c \notin Elements(blocked)
      BY <2>1 DEF Inv, Places
    <3>3. QED BY <1>3, <2>1, <3>1, <3>2 DEF Unanswered
  <2>3. \A c \in early : call'[c] # "sending"
    BY <1>3, <2>1
  <2>4. QED BY <1>1, <1>2, <2>2, <2>3 DEF Inv, Drops, Dropped, QueuedBeforeADropIsDone
<1>8. QED BY <1>4, <1>5, <1>6, <1>7 DEF Inv

LEMMA InvThread ==
    ASSUME Inv, Thread
    PROVE  Inv'
<1> USE InvParts
<1>1. CASE Open
  <2>1. CASE End("failed")
    BY <1>1, <2>1, InvEnd DEF Open
  <2>2. CASE ~End("failed")
    <3>1. /\ thread = "opening" /\ thread' = "idle"
          /\ UNCHANGED <<handles, using, call, queue, blocked, granted, made, executed, early>>
      BY <1>1, <2>2 DEF Open
    <3>2. QED BY <3>1 DEF Inv, Typed, TypeOK, Places, Counts, Drops, Dropped,
                          QueuedBeforeADropIsDone
  <2>3. QED BY <2>1, <2>2
<1>2. CASE Receive
  <2> DEFINE c == Head(queue)
  <2>1. /\ thread = "idle" /\ queue # <<>> /\ c # Shutdown /\ thread' = c /\ queue' = Tail(queue)
        /\ SlotPassedOn(granted) /\ UNCHANGED <<handles, using, call, made, executed, early>>
    BY <1>2 DEF Receive
  <2>2. /\ queue' \in Seq(Commands) /\ Len(queue') = Len(queue) - 1 /\ c \in Callers
        /\ Elements(queue) = Elements(queue') \cup {c} /\ c \notin Elements(queue')
        /\ Once(queue', Callers) /\ Before(queue', early, Shutdown)
    BY <2>1, Taken DEF Inv, Places, Drops, Commands
  <2>3. /\ blocked' \in Seq(Callers) /\ granted' \subseteq Callers /\ Once(blocked', Callers)
        /\ IsFiniteSet(granted') /\ Cardinality(granted') <= Cardinality(granted) + 1
        /\ Cardinality(granted') \in Nat /\ Elements(blocked') \cap granted' = {}
        /\ Elements(blocked') \cup granted' = Elements(blocked) \cup granted
    BY <2>1, PassedOn
  <2>4. Typed'
    <3>1. Len(queue') + Cardinality(granted') <= Capacity
      BY <2>2, <2>3
    <3>2. thread' \in Callers
      BY <2>1, <2>2
    <3>3. QED BY <2>1, <2>2, <2>3, <3>1, <3>2 DEF Typed, TypeOK
  <2>5. Places' /\ Counts'
    BY <2>1, <2>2, <2>3 DEF Inv, Places, Counts
  <2>6. Drops'
    BY <2>1, <2>2 DEF Inv, Drops, Dropped, QueuedBeforeADropIsDone
  <2>7. QED BY <2>4, <2>5, <2>6 DEF Inv
<1>3. CASE Execute
  <2>1. /\ thread \in Callers /\ executed[thread] = 0
        /\ executed' = [executed EXCEPT ![thread] = @ + 1]
        /\ UNCHANGED <<handles, using, call, queue, blocked, granted, thread, made, early>>
    BY <1>3 DEF Execute, Serving
  <2>2. Typed'
    BY <2>1 DEF Inv, Typed, TypeOK
  <2>3. Places' /\ Drops'
    BY <2>1 DEF Inv, Places, Drops, Dropped, QueuedBeforeADropIsDone
  <2>4. thread \notin Elements(queue) \cup Elements(blocked) \cup granted
        /\ call[thread] \in {"waiting", "abandoned"}
    BY <2>1 DEF Inv, Places
  <2>5. Counts'
    BY <2>1, <2>4 DEF Inv, Counts
  <2>6. QED BY <2>2, <2>3, <2>5 DEF Inv
<1>4. CASE Answer
  <2>1. /\ thread \in Callers /\ executed[thread] > 0 /\ thread' = "idle"
        /\ call' = [call EXCEPT ![thread] = IF @ = "waiting" THEN "answered" ELSE @]
        /\ UNCHANGED <<handles, using, queue, blocked, granted, made, executed, early>>
    BY <1>4 DEF Answer, Reply, Serving
  <2>2. thread \notin Elements(queue) \cup Elements(blocked) \cup granted
        /\ call[thread] \in {"waiting", "abandoned"} /\ executed[thread] = 1
    BY <2>1 DEF Inv, Places, Counts
  <2>3. Typed'
    BY <2>1 DEF Inv, Typed, TypeOK
  <2>4. Places' /\ Counts'
    BY <2>1, <2>2 DEF Inv, Places, Counts
  <2>5. Drops'
    BY <2>1, <2>2 DEF Inv, Drops, Dropped, QueuedBeforeADropIsDone
  <2>6. QED BY <2>3, <2>4, <2>5 DEF Inv
<1>5. CASE Leave
  BY <1>5, InvEnd DEF Leave
<1>6. QED BY <1>1, <1>2, <1>3, <1>4, <1>5 DEF Thread

LEMMA InvNext == Inv /\ [Next]_vars => Inv'
<1> SUFFICES ASSUME Inv, [Next]_vars PROVE Inv'
  OBVIOUS
<1>1. CASE UNCHANGED vars
  BY <1>1 DEF vars, Inv, Typed, TypeOK, Places, Counts, Drops, Dropped,
              QueuedBeforeADropIsDone
<1>2. CASE Next
  BY <1>2, InvCall, InvPush, InvAbandon, InvDrop, InvThread, InvParts DEF Next, Task, Drop
<1>3. QED BY <1>1, <1>2

(* Every variable keeps its type, and the channel its limit, for every     *)
(* capacity and any number of tasks that wait for a slot.                  *)
THEOREM ThreadTypeCorrect == Spec => []TypeOK
<1>1. Inv => TypeOK
  BY DEF Inv, Typed
<1>2. QED BY <1>1, InvInit, InvNext, PTL DEF Spec

(* What a caller is told about its call is what was done with it.          *)
THEOREM OutcomesAreTrue == Spec => []OutcomeIsTrue
<1>1. Inv => OutcomeIsTrue
  BY DEF Inv, Places, Counts, OutcomeIsTrue
<1>2. QED BY <1>1, InvInit, InvNext, PTL DEF Spec

(* A call that was queued before the first drop of a handle is executed.   *)
THEOREM DropsSpareTheQueue == Spec => []QueuedBeforeADropIsDone
<1>1. Inv => QueuedBeforeADropIsDone
  BY DEF Inv, Drops
<1>2. QED BY <1>1, InvInit, InvNext, PTL DEF Spec
=============================================================================
