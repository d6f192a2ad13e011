------------------------- MODULE AccountWorkerProofs -------------------------
(***************************************************************************)
(* What holds of AccountWorker for any number of messages, actions,        *)
(* commands and failures of every kind, on every kind of server.           *)
(***************************************************************************)
EXTENDS AccountWorker, TLAPS

-----------------------------------------------------------------------------
(* Sequences of commands, and the table of pending operations.             *)

LEMMA ElementOfSeq ==
    ASSUME NEW S, NEW q \in Seq(S), NEW i \in 1 .. Len(q)
    PROVE  q[i] \in S
OBVIOUS

LEMMA ActionsOfEmpty == Actions(<<>>) = {}
BY DEF Actions

LEMMA ActionsOfAppend ==
    ASSUME NEW q \in Seq(Commands), NEW c \in Commands
    PROVE  Actions(Append(q, c)) = Actions(q) \cup ({c.id} \ {0})
<1> DEFINE r == Append(q, c)
<1>1. DOMAIN r = DOMAIN q \cup {Len(q) + 1} /\ r[Len(q) + 1] = c
  OBVIOUS
<1>2. \A i \in DOMAIN q : r[i] = q[i]
  OBVIOUS
<1> HIDE DEF r
<1>3. QED BY <1>1, <1>2 DEF Actions, r

LEMMA ActionsOfTail ==
    ASSUME NEW q \in Seq(Commands), q # <<>>
    PROVE  Actions(q) = Actions(Tail(q)) \cup ({Head(q).id} \ {0})
<1> DEFINE r == Tail(q)
<1>1. /\ DOMAIN r = 1 .. Len(q) - 1 /\ DOMAIN q = 1 .. Len(q) /\ Len(q) \in Nat \ {0}
      /\ Head(q) = q[1]
  OBVIOUS
<1>2. \A i \in DOMAIN r : r[i] = q[i + 1]
  OBVIOUS
<1> HIDE DEF r
<1>3. \A i \in DOMAIN q \ {1} : i - 1 \in DOMAIN r /\ r[i - 1] = q[i]
  BY <1>1, <1>2
<1>4. \A i \in DOMAIN r : i + 1 \in DOMAIN q \ {1}
  BY <1>1
<1>5. QED BY <1>1, <1>2, <1>3, <1>4 DEF Actions, r

(* delete_op takes out one row at most, and no other than the one named.   *)
LEMMA WithoutKeeps ==
    ASSUME NEW S, NEW ops \in Seq(S), NEW a
    PROVE  /\ Without(ops, a) \in Seq(S)
           /\ \A i \in DOMAIN ops : ops[i] # a =>
                  \E j \in DOMAIN Without(ops, a) : Without(ops, a)[j] = ops[i]
<1> DEFINE Before(i) == \A j \in 1 .. i : ops[j] # a
           r == [i \in 1 .. Len(ops) - 1 |-> IF Before(i) THEN ops[i] ELSE ops[i + 1]]
<1>1. CASE Before(Len(ops))
  BY <1>1 DEF Without
<1>2. CASE ~Before(Len(ops))
  <2>1. Without(ops, a) = r
    BY <1>2 DEF Without
  <2>2. PICK n \in 1 .. Len(ops) : ops[n] = a
    BY <1>2
  <2>3. Len(ops) \in Nat \ {0} /\ DOMAIN r = 1 .. Len(ops) - 1 /\ DOMAIN ops = 1 .. Len(ops)
    BY <2>2
  <2>4. r \in Seq(S)
    <3>1. \A i \in 1 .. Len(ops) - 1 : r[i] \in S
      BY <2>3
    <3>2. QED BY <2>3, <3>1
  <2>5. ASSUME NEW i \in DOMAIN ops, ops[i] # a
        PROVE  \E j \in DOMAIN r : r[j] = ops[i]
    <3>1. CASE Before(i)
      <4>1. i \in DOMAIN r
        BY <2>2, <2>3, <3>1
      <4>2. QED BY <3>1, <4>1
    <3>2. CASE ~Before(i)
      <4>1. ~Before(i - 1) /\ i - 1 \in DOMAIN r
        BY <2>3, <2>5, <3>2
      <4>2. r[i - 1] = ops[i]
        BY <2>3, <4>1
      <4>3. QED BY <4>1, <4>2
    <3>3. QED BY <3>1, <3>2
  <2> HIDE DEF r
  <2>6. QED BY <2>1, <2>4, <2>5
<1>3. QED BY <1>1, <1>2

-----------------------------------------------------------------------------
(* Types.                                                                  *)

(* Every command, row and operation of a replay is of an action that the   *)
(* user did; the worker has a command in hand exactly while it handles     *)
(* one; what it forgets was applied.                                       *)
Acted == 1 .. Len(intents)
Good == {c \in Commands : IF c.kind = "Action" THEN c.id \in Acted ELSE c.id = 0}
Loop == {"off", "next", "idle", "wait"}
Syncing == {"replay", "forget", "sync"}

WorkerTyped ==
    /\ worker.pc \in Loop <=> worker.cur = Nothing
    /\ worker.cur \in Good \cup {Nothing}
    /\ worker.pc = "keep" => worker.cur.kind = "Action"
    /\ worker.pc \in Syncing => worker.cur.kind = "Sync"
    /\ worker.batch \in Seq(Acted)
    /\ worker.pc = "forget" => worker.batch # <<>> /\ applied[Head(worker.batch)] > 0

Typed ==
    /\ TypeOK
    /\ Len(intents) <= MaxActions
    /\ resolving \subseteq Acted
    /\ channel \in Seq(Good) /\ queue \in Seq(Good) /\ pending \in Seq(Acted)
    /\ WorkerTyped

LEMMA NothingIsNoCommand == Nothing \notin Commands
BY AccountWorkerAssumption DEF Commands, Ids

LEMMA RequestsGood == \A kind \in RequestKinds : Request(kind) \in Good
BY AccountWorkerAssumption DEF Request, Good, Commands, RequestKinds

LEMMA GoodCommands == Good \subseteq Commands
BY DEF Good

(* What a step must keep, if the user does not act.                        *)
Others ==
    /\ server \in [Messages -> [flag : BOOLEAN, here : BOOLEAN, copies : Nat]]
    /\ online \in BOOLEAN /\ session \in BOOLEAN /\ known \in BOOLEAN
    /\ faults \in Nat /\ requests \in Nat
    /\ applied \in [Ids -> Nat]
    /\ reported \subseteq Ids /\ lost \subseteq Ids /\ overtaken \subseteq Messages

LEMMA TypedParts ==
    Typed <=> /\ Others
              /\ intents \in Seq([msg : Messages, kind : ActionKinds]) /\ Len(intents) <= MaxActions
              /\ resolving \subseteq Acted
              /\ channel \in Seq(Good) /\ queue \in Seq(Good) /\ pending \in Seq(Acted)
              /\ worker \in Workers /\ WorkerTyped
<1>1. \A q : q \in Seq(Good) => q \in Seq(Commands)
  BY GoodCommands
<1>2. Len(intents) <= MaxActions /\ intents \in Seq([msg : Messages, kind : ActionKinds])
        => Acted \subseteq Ids /\ \A q : q \in Seq(Acted) => q \in Seq(Ids)
  BY AccountWorkerAssumption DEF Acted, Ids
<1>3. QED BY <1>1, <1>2 DEF Typed, TypeOK, Others

LEMMA TypeInit == Init => Typed
<1> SUFFICES ASSUME Init PROVE Typed
  OBVIOUS
<1>1. worker \in Workers /\ WorkerTyped
  BY DEF Init, Fresh, Workers, WorkerTyped, Loop, Syncing
<1>2. queue \in Seq(Good) /\ queue \in Seq(Commands)
  BY RequestsGood, GoodCommands DEF Init, RequestKinds
<1>3. intents \in Seq([msg : Messages, kind : ActionKinds]) /\ Len(intents) = 0
  BY DEF Init
<1>4. Others
  BY DEF Init, Others
<1>5. channel \in Seq(Good) /\ pending \in Seq(Acted) /\ resolving \subseteq Acted
  BY DEF Init
<1>6. Len(intents) <= MaxActions
  BY <1>3, AccountWorkerAssumption
<1>7. QED BY <1>1, <1>2, <1>3, <1>4, <1>5, <1>6, TypedParts

(* What the backend's calls do to the server.                              *)
LEMMA DoneTyped ==
    ASSUME Typed, NEW a \in Acted
    PROVE  /\ Done(a) \in [Messages -> [flag : BOOLEAN, here : BOOLEAN, copies : Nat]]
           /\ Copied(a) \in [Messages -> [flag : BOOLEAN, here : BOOLEAN, copies : Nat]]
           /\ [applied EXCEPT ![a] = @ + 1] \in [Ids -> Nat]
           /\ a \in Ids /\ intents[a].msg \in Messages
<1> DEFINE Server == [Messages -> [flag : BOOLEAN, here : BOOLEAN, copies : Nat]]
<1>1. intents[a].msg \in Messages /\ intents[a].kind \in ActionKinds /\ a \in Ids
  <2>1. intents[a] \in [msg : Messages, kind : ActionKinds]
    <3>1. intents \in Seq([msg : Messages, kind : ActionKinds])
      BY DEF Typed, TypeOK
    <3>2. QED BY <3>1, ElementOfSeq DEF Acted
  <2>2. a \in Ids
    BY AccountWorkerAssumption DEF Typed, TypeOK, Acted, Ids
  <2>3. QED BY <2>1, <2>2
<1>2. server \in Server /\ applied \in [Ids -> Nat]
  BY DEF Typed, TypeOK
<1>3. \A m \in Messages : server[m].copies + 1 \in Nat
  BY <1>2
<1>4. Copied(a) \in Server
  BY <1>1, <1>2, <1>3 DEF Copied
<1>5. Done(a) \in Server
  BY ZenonT(40), <1>1, <1>2, <1>3 DEF Done, ActionKinds
<1>6. QED BY <1>1, <1>2, <1>4, <1>5

LEMMA CallTyped ==
    ASSUME Typed, NEW a \in Acted, Applies(a) \/ FailsToApply(a)
    PROVE  /\ server' \in [Messages -> [flag : BOOLEAN, here : BOOLEAN, copies : Nat]]
           /\ session' \in BOOLEAN /\ faults' \in Nat /\ applied' \in [Ids -> Nat]
           /\ \A b \in Ids : applied[b] > 0 => applied'[b] > 0
<1>1. applied' \in {applied, [applied EXCEPT ![a] = @ + 1]}
  BY DEF Applies, FailsToApply
<1>2. a \in Ids /\ applied \in [Ids -> Nat]
  BY DoneTyped DEF Typed, TypeOK
<1>3. applied' \in [Ids -> Nat] /\ \A b \in Ids : applied[b] > 0 => applied'[b] > 0
  BY <1>1, <1>2
<1>4. server' \in {server, Done(a), Copied(a)}
  BY DEF Applies, FailsToApply
<1>5. session' \in BOOLEAN /\ faults' \in Nat
  <2>1. session \in BOOLEAN /\ faults \in Nat
    BY DEF Typed, TypeOK
  <2>2. /\ session' \in {session, FALSE}
        /\ faults' \in {faults, faults + 1}
    BY DEF Applies, FailsToApply, Refuses, Fault
  <2>3. session' \in BOOLEAN
    BY <2>1, <2>2, Zenon
  <2>4. faults' \in Nat
    BY <2>1, <2>2
  <2>5. QED BY <2>3, <2>4
<1>6. QED BY <1>3, <1>4, <1>5, DoneTyped DEF Typed, TypeOK

(* The frame of a step that leaves the user's actions alone.               *)
LEMMA TypedFrame ==
    ASSUME Typed, UNCHANGED <<intents, resolving>>, Others',
           channel' \in Seq(Good), queue' \in Seq(Good), pending' \in Seq(Acted),
           worker' \in Workers, WorkerTyped'
    PROVE  Typed'
<1>1. Good' = Good /\ Acted' = Acted
  BY DEF Good, Acted
<1>2. channel' \in Seq(Commands) /\ queue' \in Seq(Commands)
  BY GoodCommands
<1>3. Acted \subseteq Ids /\ resolving \subseteq Acted /\ Len(intents) <= MaxActions
      /\ intents \in Seq([msg : Messages, kind : ActionKinds])
  BY AccountWorkerAssumption DEF Typed, TypeOK, Acted, Ids
<1>4. pending' \in Seq(Ids)
  BY <1>3
<1>5. TypeOK'
  BY <1>2, <1>3, <1>4 DEF TypeOK, Others
<1>6. QED BY <1>1, <1>3, <1>5 DEF Typed

(* The worker takes, refuses, keeps or ends a command.                     *)
LEMMA TypeCommand ==
    ASSUME Typed, TakeCommand \/ ShutDown \/ Connects \/ CannotConnect \/ KeepAction
    PROVE  Typed'
<1>t. /\ Others /\ worker \in Workers /\ WorkerTyped /\ resolving \subseteq Acted
      /\ channel \in Seq(Good) /\ queue \in Seq(Good) /\ pending \in Seq(Acted)
  BY TypedParts
<1>g. Acted' = Acted /\ Good' = Good
  BY DEF TakeCommand, ShutDown, Connects, CannotConnect, KeepAction, Acted, Good,
         userVars
<1>1. CASE TakeCommand
  <2>1. queue' \in Seq(Good) /\ Head(queue) \in Good
    BY <1>1, <1>t DEF TakeCommand
  <2>2. worker' \in Workers
    BY <1>1, <1>t, <2>1, GoodCommands DEF TakeCommand, Workers
  <2>3. WorkerTyped'
    BY <1>1, <1>t, <1>g, <2>1, NothingIsNoCommand, GoodCommands
    DEF TakeCommand, WorkerTyped, Workers, At, Loop, Syncing
  <2>4. QED BY <1>1, <1>t, <2>1, <2>2, <2>3, TypedFrame
       DEF TakeCommand, Others, netVars, userVars, fateVars
<1>2. CASE ShutDown
  <2>1. worker' \in Workers /\ WorkerTyped'
    <3>1. worker' = [pc |-> "off", cur |-> Nothing, connected |-> FALSE, watch |-> FALSE,
                     resync |-> FALSE, batch |-> <<>>, interrupted |-> FALSE]
      BY <1>2 DEF ShutDown, Fresh
    <3>2. QED BY <3>1 DEF Workers, WorkerTyped, Loop, Syncing
  <2>2. lost' \subseteq Ids
    BY <1>2, <1>t, GoodCommands DEF ShutDown, Actions, Others, Commands, Ids
  <2>3. Others'
    BY <1>2, <1>t, <2>2 DEF ShutDown, Others, userVars
  <2>4. channel' \in Seq(Good) /\ queue' \in Seq(Good)
    BY <1>2 DEF ShutDown
  <2>5. QED BY <1>2, <1>t, <2>1, <2>3, <2>4, TypedFrame DEF ShutDown, userVars
<1>3. CASE Connects
  <2>1. worker' \in Workers /\ WorkerTyped'
    BY <1>3, <1>t, <1>g DEF Connects, At, Becomes, Workers, WorkerTyped, Loop, Syncing
  <2>2. session' \in BOOLEAN
    BY <1>3, <1>t DEF Connects, Others
  <2>3. QED BY <1>3, <1>t, <2>1, <2>2, TypedFrame
       DEF Connects, Others, netVars, userVars, fateVars
<1>4. CASE CannotConnect
  <2>1. worker' \in Workers /\ WorkerTyped'
    BY <1>4, <1>t, <1>g DEF CannotConnect, At, Becomes, Workers, WorkerTyped, Loop, Syncing
  <2>2. faults' \in Nat
    BY <1>4, <1>t DEF CannotConnect, Fault, Others
  <2>3. QED BY <1>4, <1>t, <2>1, <2>2, TypedFrame
       DEF CannotConnect, Others, netVars, userVars, fateVars
<1>5. CASE KeepAction
  <2>1. worker' \in Workers /\ WorkerTyped'
    BY <1>5, <1>t, <1>g DEF KeepAction, At, Becomes, Workers, WorkerTyped, Loop, Syncing
  <2>2. worker.cur.id \in Acted /\ worker.cur.id \in Ids
    BY <1>5, <1>t, AccountWorkerAssumption
    DEF KeepAction, At, WorkerTyped, Loop, Syncing, Good, Commands, Ids, Acted
  <2>3. faults' \in Nat /\ reported' \subseteq Ids
    BY <1>5, <1>t, <2>2 DEF KeepAction, Fault, Others
  <2>4. pending' \in Seq(Acted)
    BY SMTT(30), <1>5, <1>t, <2>2 DEF KeepAction
  <2>5. QED BY <1>5, <1>t, <2>1, <2>3, <2>4, TypedFrame
       DEF KeepAction, Others, netVars, userVars, fateVars
<1>6. QED BY <1>1, <1>2, <1>3, <1>4, <1>5

(* The calls of the other commands, and a Sync after its replay.           *)
LEMMA TypeRun ==
    ASSUME Typed, RunAction \/ ActionFails \/ RunPlain \/ PlainFails \/ SyncAccount
    PROVE  Typed'
<1>t. /\ Others /\ worker \in Workers /\ WorkerTyped /\ resolving \subseteq Acted
      /\ channel \in Seq(Good) /\ queue \in Seq(Good) /\ pending \in Seq(Acted)
  BY TypedParts
<1>g. Acted' = Acted /\ Good' = Good
  BY DEF RunAction, ActionFails, RunPlain, PlainFails, SyncAccount, Acted, Good, userVars
<1>q. \A kind \in RequestKinds : Append(queue, Request(kind)) \in Seq(Good)
  BY <1>t, RequestsGood
<1>c. /\ "SyncFolder" \in RequestKinds
      /\ \A p \in Messages : {p} \subseteq Messages
      /\ \A ids : PastTable(ids) \subseteq {intents[ids].msg}
  BY DEF RequestKinds, PastTable
<1>a. ASSUME At("run"), worker.cur.kind = "Action" PROVE worker.cur.id \in Acted
  BY <1>a, <1>t, NothingIsNoCommand DEF At, WorkerTyped, Loop, Syncing, Good
<1>1. CASE RunAction \/ ActionFails
  <2> DEFINE a == worker.cur.id
  <2>1. a \in Acted /\ (Applies(a) \/ FailsToApply(a))
    BY <1>1, <1>a DEF RunAction, ActionFails
  <2>2. overtaken' \subseteq Messages
    <3>1. intents[a].msg \in Messages
      BY <2>1, DoneTyped
    <3>2. QED BY <1>1, <1>c, <1>t, <3>1 DEF RunAction, ActionFails, Others
  <2>3. Others'
    BY <1>1, <1>t, <2>1, <2>2, CallTyped DEF RunAction, ActionFails, Others, userVars
  <2>4. worker' \in Workers /\ WorkerTyped'
    BY ZenonT(40), <1>1, <1>t, <1>g DEF RunAction, ActionFails, At, Becomes, Workers, WorkerTyped, Loop, Syncing
  <2>5. queue' \in Seq(Good)
    BY <1>1, <1>t, <1>q, <1>c DEF RunAction, ActionFails, Enqueue
  <2>6. QED BY <1>1, <1>t, <2>3, <2>4, <2>5, TypedFrame DEF RunAction, ActionFails, userVars
<1>2. CASE RunPlain
  <2>1. worker' \in Workers /\ WorkerTyped'
    BY <1>2, <1>t, <1>g, AccountWorkerAssumption
    DEF RunPlain, Watching, At, Workers, WorkerTyped, Loop, Syncing
  <2>2. queue' \in Seq(Good)
    BY <1>2, <1>t, <1>q, <1>c DEF RunPlain, Enqueue
  <2>3. known' \in BOOLEAN
    BY <1>2, Zenon DEF RunPlain
  <2>4. Others'
    BY <1>2, <1>t, <2>3 DEF RunPlain, Others, netVars, userVars, fateVars
  <2>5. QED BY <1>2, <1>t, <2>1, <2>2, <2>4, TypedFrame DEF RunPlain, userVars
<1>3. CASE PlainFails
  <2>1. worker' \in Workers /\ WorkerTyped'
    BY <1>3, <1>t, <1>g, AccountWorkerAssumption
    DEF PlainFails, Watching, At, Workers, WorkerTyped, Loop, Syncing
  <2>2. faults' \in Nat
    <3>1. faults' \in {faults, faults + 1}
      BY <1>3 DEF PlainFails, Refuses, Fault
    <3>2. QED BY <1>t, <3>1 DEF Others
  <2>3. Others'
    BY <1>3, <1>t, <2>2 DEF PlainFails, Others, netVars, userVars, fateVars
  <2>4. QED BY <1>3, <1>t, <2>1, <2>3, TypedFrame DEF PlainFails, userVars
<1>4. CASE SyncAccount
  <2>1. worker' \in Workers /\ WorkerTyped'
    <3>1. \A b \in BOOLEAN, c \in BOOLEAN : (b \/ c) \in BOOLEAN /\ (b /\ c) \in BOOLEAN
      OBVIOUS
    <3>2. PICK watch \in BOOLEAN, connected \in BOOLEAN :
              worker' = [worker EXCEPT !.pc = "next", !.cur = Nothing,
                                       !.connected = connected, !.watch = watch]
      <4>1. worker.watch \in BOOLEAN /\ worker.connected \in BOOLEAN /\ known \in BOOLEAN
        BY <1>t DEF Workers, Others
      <4>2. (worker.watch \/ HasIdle) \in BOOLEAN /\ (worker.watch \/ (HasIdle /\ known)) \in BOOLEAN
        OBVIOUS
      <4>3. \/ worker' = [worker EXCEPT !.pc = "next", !.cur = Nothing,
                                        !.watch = @ \/ HasIdle]
            \/ worker' = [worker EXCEPT !.pc = "next", !.cur = Nothing, !.connected = FALSE,
                                        !.watch = @ \/ (HasIdle /\ known)]
        BY <1>4 DEF SyncAccount
      <4>4. [worker EXCEPT !.pc = "next", !.cur = Nothing, !.watch = @ \/ HasIdle]
              = [worker EXCEPT !.pc = "next", !.cur = Nothing,
                               !.connected = worker.connected, !.watch = worker.watch \/ HasIdle]
        BY <1>t DEF Workers
      <4>5. QED BY <4>1, <4>2, <4>3, <4>4
    <3>3. QED BY <1>4, <1>t, <1>g, <3>2 DEF SyncAccount, At, Workers, WorkerTyped, Loop, Syncing
  <2>2. queue' \in Seq(Good)
    BY <1>4, <1>t, <1>q, <1>c DEF SyncAccount
  <2>3. known' \in BOOLEAN /\ faults' \in Nat
    <3>1. known' \in {known, TRUE}
      BY <1>4 DEF SyncAccount
    <3>2. known' \in BOOLEAN
      BY <1>t, <3>1, Zenon DEF Others
    <3>3. faults' \in {faults, faults + 1}
      BY <1>4 DEF SyncAccount, Refuses, Fault
    <3>4. faults' \in Nat
      BY <1>t, <3>3 DEF Others
    <3>5. QED BY <3>2, <3>4
  <2>4. Others'
    BY <1>4, <1>t, <2>3 DEF SyncAccount, Others, netVars, userVars, fateVars
  <2>5. QED BY <1>4, <1>t, <2>1, <2>2, <2>4, TypedFrame DEF SyncAccount, userVars
<1>5. QED BY <1>1, <1>2, <1>3, <1>4

LEMMA SyncTyped ==
    ASSUME worker \in Workers, worker.cur \in Good, worker.cur # Nothing, worker.cur.kind = "Sync",
           Good' = Good, Acted' = Acted,
           worker' = [worker EXCEPT !.pc = "sync", !.connected = FALSE, !.batch = <<>>]
    PROVE  worker' \in Workers /\ WorkerTyped'
<1>e. <<>> \in Seq(Ids) /\ <<>> \in Seq(Acted)
  OBVIOUS
<1>1. worker' \in Workers
  BY <1>e DEF Workers
<1>2. worker'.pc = "sync" /\ worker'.cur = worker.cur /\ worker'.batch = <<>>
  BY DEF Workers
<1>3. QED BY <1>e, <1>1, <1>2 DEF WorkerTyped, Loop, Syncing

LEMMA TypeReplay ==
    ASSUME Typed, ReplayBegins \/ ReplayOne \/ ForgetOne \/ ReplayFails \/ ReplayEnds
    PROVE  Typed'
<1>t. /\ Others /\ worker \in Workers /\ WorkerTyped /\ resolving \subseteq Acted
      /\ channel \in Seq(Good) /\ queue \in Seq(Good) /\ pending \in Seq(Acted)
  BY TypedParts
<1>g. Acted' = Acted /\ Good' = Good
  BY DEF ReplayBegins, ReplayOne, ForgetOne, ReplayFails, ReplayEnds, Acted, Good, userVars
<1>i. Acted \subseteq Ids
  BY AccountWorkerAssumption DEF Typed, TypeOK, Acted, Ids
<1>p. pending \in Seq(Ids)
  BY DEF Typed, TypeOK
<1>1. CASE ReplayBegins
  <2>1. faults' \in {faults, faults + 1}
    BY <1>1 DEF ReplayBegins, Fault
  <2>2. faults' \in Nat
    BY <1>t, <2>1 DEF Others
  <2>3. worker' \in Workers /\ WorkerTyped'
    BY <1>1, <1>t, <1>g, <1>p DEF ReplayBegins, Becomes, At, Workers, WorkerTyped, Loop, Syncing
  <2>4. Others'
    BY <1>1, <1>t, <2>2 DEF ReplayBegins, Others, netVars, userVars, fateVars
  <2>5. QED BY <1>1, <1>t, <2>3, <2>4, TypedFrame DEF ReplayBegins, userVars
<1>2. CASE ReplayOne
  <2> DEFINE a == Head(worker.batch)
  <2>1. a \in Acted /\ Applies(a)
    BY <1>2, <1>t DEF ReplayOne, Oldest, WorkerTyped
  <2>2. applied' = [applied EXCEPT ![a] = @ + 1] /\ applied'[a] > 0
    BY <1>t, <1>i, <2>1 DEF Applies, Others
  <2>3. worker' \in Workers /\ WorkerTyped'
    BY <1>2, <1>t, <1>g, <2>2 DEF ReplayOne, Becomes, At, Workers, WorkerTyped, Loop, Syncing
  <2>4. Others'
    BY <1>2, <1>t, <2>1, CallTyped DEF ReplayOne, Others, userVars, fateVars
  <2>5. QED BY <1>2, <1>t, <2>3, <2>4, TypedFrame DEF ReplayOne, userVars
<1>3. CASE ForgetOne
  <2>1. pending' \in Seq(Acted)
    BY <1>3, <1>t, WithoutKeeps DEF ForgetOne
  <2>2. faults' \in {faults, faults + 1}
    BY <1>3 DEF ForgetOne, Fault
  <2>3. faults' \in Nat
    BY <1>t, <2>2 DEF Others
  <2>4. worker' \in Workers /\ WorkerTyped'
    <3>1. Tail(worker.batch) \in Seq(Acted) /\ Tail(worker.batch) \in Seq(Ids)
      <4>1. worker.batch \in Seq(Acted) /\ worker.batch # <<>>
        BY <1>3, <1>t DEF ForgetOne, At, WorkerTyped
      <4>2. Tail(worker.batch) \in Seq(Acted)
        BY <4>1
      <4>3. \A q : q \in Seq(Acted) => q \in Seq(Ids)
        BY <1>i
      <4>4. QED BY <4>2, <4>3
    <3>2. /\ worker.cur \in Good \cup {Nothing} /\ worker.cur # Nothing
          /\ worker.cur.kind = "Sync"
      BY <1>3, <1>t DEF ForgetOne, At, WorkerTyped, Loop, Syncing
    <3>3. CASE worker' = [worker EXCEPT !.pc = "replay", !.batch = Tail(@)]
      <4>1. worker' \in Workers
        BY <1>t, <3>1, <3>3 DEF Workers
      <4>2. worker'.pc = "replay" /\ worker'.cur = worker.cur
            /\ worker'.batch = Tail(worker.batch)
        BY <1>t, <3>3 DEF Workers
      <4>3. QED BY <1>g, <3>1, <3>2, <4>1, <4>2 DEF WorkerTyped, Loop, Syncing
    <3>4. CASE worker' = [worker EXCEPT !.pc = "sync", !.connected = FALSE, !.batch = <<>>]
      BY <1>t, <1>g, <3>2, <3>4, SyncTyped
    <3>5. QED BY <1>3, <3>3, <3>4 DEF ForgetOne
  <2>5. Others'
    BY <1>3, <1>t, <2>3 DEF ForgetOne, Others, netVars, userVars, fateVars
  <2>6. QED BY <1>3, <1>t, <2>1, <2>4, <2>5, TypedFrame DEF ForgetOne, userVars
<1>4. CASE ReplayFails
  <2> DEFINE a == Head(worker.batch)
  <2>1. a \in Acted /\ FailsToApply(a)
    BY <1>4, <1>t DEF ReplayFails, Oldest, WorkerTyped
  <2>2. worker' \in Workers /\ WorkerTyped'
    <3>1. /\ worker.cur \in Good \cup {Nothing} /\ worker.cur # Nothing
          /\ worker.cur.kind = "Sync"
      BY <1>4, <1>t DEF ReplayFails, At, WorkerTyped, Loop, Syncing
    <3>2. worker' = [worker EXCEPT !.pc = "sync", !.connected = FALSE, !.batch = <<>>]
      BY <1>4 DEF ReplayFails
    <3>3. QED BY <1>t, <1>g, <3>1, <3>2, SyncTyped
  <2>3. Others'
    BY <1>4, <1>t, <2>1, CallTyped DEF ReplayFails, Others, userVars, fateVars
  <2>4. QED BY <1>4, <1>t, <2>2, <2>3, TypedFrame DEF ReplayFails, userVars
<1>5. CASE ReplayEnds
  <2>1. worker' \in Workers /\ WorkerTyped'
    BY <1>5, <1>t, <1>g DEF ReplayEnds, Becomes, At, Workers, WorkerTyped, Loop, Syncing
  <2>2. Others'
    BY <1>5, <1>t DEF ReplayEnds, Others, netVars, userVars, fateVars
  <2>3. QED BY <1>5, <1>t, <2>1, <2>2, TypedFrame DEF ReplayEnds, userVars
<1>6. QED BY <1>1, <1>2, <1>3, <1>4, <1>5

LEMMA TypeLoop ==
    ASSUME Typed,
           ReadChannel \/ Rest \/ Receive \/ IdleReceives \/ IdleInterrupted \/ IdleChanged
               \/ IdleFails
    PROVE  Typed'
<1>t. /\ Others /\ worker \in Workers /\ WorkerTyped /\ resolving \subseteq Acted
      /\ channel \in Seq(Good) /\ queue \in Seq(Good) /\ pending \in Seq(Acted)
  BY TypedParts
<1>g. Acted' = Acted /\ Good' = Good
  BY DEF ReadChannel, Rest, Receive, IdleReceives, IdleInterrupted, IdleChanged, IdleFails,
         Acted, Good, userVars
<1>s. "SyncFolder" \in RequestKinds
  BY DEF RequestKinds
<1>1. worker' \in Workers /\ WorkerTyped'
  <2>1. CASE ReadChannel
    BY <2>1, <1>t, <1>g DEF ReadChannel, WorkerTyped
  <2>2. CASE Rest
    BY <2>2, <1>t, <1>g DEF Rest, At, Workers, WorkerTyped, Loop, Syncing
  <2>3. CASE Receive \/ IdleInterrupted
    BY <2>3, <1>t, <1>g DEF Receive, IdleInterrupted, Becomes, At, Workers, WorkerTyped, Loop, Syncing
  <2>4. CASE IdleReceives \/ IdleChanged \/ IdleFails
    BY <2>4, <1>t, <1>g DEF IdleReceives, IdleChanged, IdleFails, At, Workers, WorkerTyped, Loop, Syncing
  <2>5. QED BY <2>1, <2>2, <2>3, <2>4
<1>2. channel' \in Seq(Good) /\ queue' \in Seq(Good) /\ pending' = pending
  <2>1. CASE ReadChannel
    <3>1. queue' = channel /\ channel' = <<>> /\ pending' = pending
      BY <2>1 DEF ReadChannel
    <3>2. QED BY <1>t, <3>1
  <2>2. CASE Receive \/ IdleReceives
    <3>1. /\ channel # <<>> /\ channel' = Tail(channel)
          /\ queue' = Append(queue, Head(channel)) /\ pending' = pending
      BY <2>2 DEF Receive, IdleReceives
    <3>2. QED BY <1>t, <3>1
  <2>3. CASE IdleChanged
    <3>1. Append(queue, Request("SyncFolder")) \in Seq(Good)
      BY <1>t, <1>s, RequestsGood
    <3>2. queue' \in {queue, Append(queue, Request("SyncFolder"))}
      BY <2>3 DEF IdleChanged, Enqueue
    <3>3. QED BY <2>3, <1>t, <3>1, <3>2 DEF IdleChanged
  <2>4. QED BY <1>t, <2>1, <2>2, <2>3 DEF Rest, IdleInterrupted, IdleFails
<1>3. Others'
  <2>1. CASE IdleFails
    <3>1. faults' \in {faults, faults + 1}
      BY <2>1 DEF IdleFails, Refuses, Fault
    <3>2. faults' \in Nat
      BY <1>t, <3>1 DEF Others
    <3>3. QED BY <2>1, <1>t, <3>2 DEF IdleFails, Others, userVars, fateVars
  <2>2. CASE ~IdleFails
    BY <2>2, <1>t DEF ReadChannel, Rest, Receive, IdleReceives, IdleInterrupted, IdleChanged,
                      Others, netVars, userVars, fateVars
  <2>3. QED BY <2>1, <2>2
<1>4. UNCHANGED <<intents, resolving>>
  BY DEF ReadChannel, Rest, Receive, IdleReceives, IdleInterrupted, IdleChanged, IdleFails,
         userVars
<1>5. QED BY <1>t, <1>1, <1>2, <1>3, <1>4, TypedFrame

(* The user acts, the service resolves or asks, the network and the        *)
(* process come and go.                                                    *)
LEMMA TypeAct ==
    ASSUME Typed, NEW m \in Messages, NEW kind \in ActionKinds, Act(m, kind)
    PROVE  Typed'
<1>t. /\ Others /\ worker \in Workers /\ WorkerTyped /\ resolving \subseteq Acted
      /\ channel \in Seq(Good) /\ queue \in Seq(Good) /\ pending \in Seq(Acted)
      /\ intents \in Seq([msg : Messages, kind : ActionKinds]) /\ Len(intents) <= MaxActions
  BY TypedParts
<1>u. UNCHANGED <<server, netVars, known, requests, channel, queue, worker, pending, faults,
                  applied, fateVars>>
  BY DEF Act
<1>1. /\ intents' \in Seq([msg : Messages, kind : ActionKinds])
      /\ Len(intents') = Len(intents) + 1 /\ Len(intents') <= MaxActions
      /\ Len(intents) \in Nat
  <2>1. intents' = Append(intents, [msg |-> m, kind |-> kind]) /\ Len(intents) < MaxActions
    BY DEF Act
  <2>2. [msg |-> m, kind |-> kind] \in [msg : Messages, kind : ActionKinds]
    OBVIOUS
  <2>3. QED BY <1>t, <2>1, <2>2, AccountWorkerAssumption
<1>2. Acted \subseteq Acted' /\ Len(intents) + 1 \in Acted' /\ Acted' \subseteq Ids
  BY <1>1, AccountWorkerAssumption DEF Acted, Ids
<1>3. Good \subseteq Good'
  BY <1>2 DEF Good
<1>4. channel' \in Seq(Good') /\ queue' \in Seq(Good') /\ pending' \in Seq(Acted')
  BY <1>t, <1>u, <1>2, <1>3
<1>5. resolving' \subseteq Acted'
  BY <1>t, <1>2 DEF Act
<1>6. WorkerTyped'
  <2>1. worker' = worker /\ applied' = applied
    BY <1>u
  <2>2. worker.batch \in Seq(Acted')
    BY <1>t, <1>2 DEF WorkerTyped
  <2>3. QED BY <1>t, <1>3, <2>1, <2>2 DEF WorkerTyped
<1>7. Others' /\ worker' \in Workers
  BY <1>t, <1>u DEF Others, netVars, fateVars
<1>8. channel' \in Seq(Commands) /\ queue' \in Seq(Commands) /\ pending' \in Seq(Ids)
  BY <1>t, <1>u, <1>2, <1>4, GoodCommands
<1>9. TypeOK'
  BY <1>1, <1>2, <1>5, <1>7, <1>8 DEF TypeOK, Others
<1>10. QED BY <1>1, <1>4, <1>5, <1>6, <1>9 DEF Typed

LEMMA TypeHost ==
    ASSUME Typed,
           \/ GoOffline \/ GoOnline \/ Crash
           \/ \E a \in resolving : Resolve(a) \/ ResolveFails(a)
           \/ \E kind \in RequestKinds : Ask(kind)
    PROVE  Typed'
<1>t. /\ Others /\ worker \in Workers /\ WorkerTyped /\ resolving \subseteq Acted
      /\ channel \in Seq(Good) /\ queue \in Seq(Good) /\ pending \in Seq(Acted)
      /\ intents \in Seq([msg : Messages, kind : ActionKinds]) /\ Len(intents) <= MaxActions
  BY TypedParts
<1>i. Acted \subseteq Ids
  BY AccountWorkerAssumption DEF Typed, TypeOK, Acted, Ids
<1>n. /\ intents' = intents /\ server' = server /\ known' = known /\ pending' = pending
      /\ applied' = applied
  BY DEF GoOffline, GoOnline, Crash, Resolve, ResolveFails, Ask, userVars
<1>g. Acted' = Acted /\ Good' = Good
  BY <1>n DEF Acted, Good
<1>1. faults' \in Nat /\ requests' \in Nat
  <2>1. faults' \in {faults, faults + 1} /\ requests' \in {requests, requests + 1}
    BY DEF GoOffline, GoOnline, Crash, Resolve, ResolveFails, Ask, Fault, userVars
  <2>2. QED BY <1>t, <2>1 DEF Others
<1>2. online' \in BOOLEAN /\ session' \in BOOLEAN
  <2>1. online' \in {online, TRUE, FALSE} /\ session' \in {session, FALSE}
    BY DEF GoOffline, GoOnline, Crash, Resolve, ResolveFails, Ask, netVars
  <2>2. QED BY <1>t, <2>1, Zenon DEF Others
<1>3. /\ reported' \subseteq Ids /\ lost' \subseteq Ids /\ overtaken' \subseteq Messages
      /\ resolving' \subseteq Acted'
  <2>1. CASE GoOffline \/ GoOnline \/ (\E kind \in RequestKinds : Ask(kind))
    BY <2>1, <1>t, <1>g DEF GoOffline, GoOnline, Ask, userVars, fateVars, Others
  <2>2. CASE Crash
    <3>1. InMemory \subseteq Ids
      BY <1>t, GoodCommands DEF InMemory, InHand, Actions, Commands, Ids, WorkerTyped
    <3>2. QED BY <2>2, <1>t, <1>i, <3>1 DEF Crash, Others
  <2>3. CASE \E a \in resolving : Resolve(a) \/ ResolveFails(a)
    <3>1. PICK a \in resolving : Resolve(a) \/ ResolveFails(a)
      BY <2>3
    <3>2. a \in Ids /\ intents[a].msg \in Messages
      BY <1>t, DoneTyped
    <3>3. QED BY <1>t, <1>g, <3>1, <3>2 DEF Resolve, ResolveFails, Others
  <2>4. QED BY <2>1, <2>2, <2>3
<1>4. channel' \in Seq(Good)
  <2>1. CASE \E a \in resolving : Resolve(a)
    <3>1. PICK a \in resolving : Resolve(a)
      BY <2>1
    <3>2. [kind |-> "Action", id |-> a] \in Good
      BY <1>t, <1>i DEF Good, Commands, Ids
    <3>3. QED BY <1>t, <3>1, <3>2 DEF Resolve, Post
  <2>2. CASE \E kind \in RequestKinds : Ask(kind)
    <3>1. PICK kind \in RequestKinds : Ask(kind)
      BY <2>2
    <3>2. Request(kind) \in Good
      BY RequestsGood
    <3>3. QED BY <1>t, <3>1, <3>2 DEF Ask, Post
  <2>3. CASE Crash
    BY <2>3 DEF Crash
  <2>4. CASE GoOffline \/ GoOnline \/ (\E a \in resolving : ResolveFails(a))
    BY <2>4, <1>t DEF GoOffline, GoOnline, ResolveFails
  <2>5. QED BY <2>1, <2>2, <2>3, <2>4
<1>5. queue' \in Seq(Good)
  <2>1. <<Request("Sync")>> \in Seq(Good)
    BY RequestsGood DEF RequestKinds
  <2>2. queue' \in {queue, <<Request("Sync")>>}
    BY DEF GoOffline, GoOnline, Crash, Resolve, ResolveFails, Ask
  <2>3. QED BY <1>t, <2>1, <2>2
<1>6. worker' \in Workers /\ WorkerTyped'
  <2>1. CASE Crash
    <3>1. worker' = [pc |-> "next", cur |-> Nothing, connected |-> FALSE, watch |-> FALSE,
                     resync |-> FALSE, batch |-> <<>>, interrupted |-> FALSE]
      BY <2>1 DEF Crash, Fresh
    <3>2. QED BY <3>1 DEF Workers, WorkerTyped, Loop, Syncing
  <2>2. CASE ~Crash
    <3>1. worker' = worker
      BY <2>2 DEF GoOffline, GoOnline, Resolve, ResolveFails, Ask
    <3>2. QED BY <1>t, <1>n, <1>g, <3>1 DEF WorkerTyped
  <2>3. QED BY <2>1, <2>2
<1>7. Others'
  BY <1>t, <1>n, <1>1, <1>2, <1>3 DEF Others
<1>8. /\ channel' \in Seq(Commands) /\ queue' \in Seq(Commands) /\ pending' \in Seq(Ids)
      /\ resolving' \subseteq Ids
  BY <1>t, <1>n, <1>g, <1>i, <1>3, <1>4, <1>5, GoodCommands
<1>9. TypeOK'
  BY <1>t, <1>n, <1>6, <1>7, <1>8 DEF TypeOK, Others
<1>10. QED BY <1>t, <1>n, <1>g, <1>3, <1>4, <1>5, <1>6, <1>9 DEF Typed

LEMMA TypeNext == Typed /\ [Next]_vars => Typed'
<1> SUFFICES ASSUME Typed, [Next]_vars PROVE Typed'
  OBVIOUS
<1>1. CASE HandleCommand
  BY <1>1, TypeCommand, TypeRun, TypeReplay DEF HandleCommand
<1>2. CASE WorkerStep \/ IdleChanged
  BY <1>1, <1>2, TypeLoop DEF WorkerStep
<1>3. CASE \E m \in Messages, kind \in ActionKinds : Act(m, kind)
  BY <1>3, TypeAct
<1>4. CASE UNCHANGED vars
  <2>1. Others' /\ worker' \in Workers
    BY <1>4, TypedParts DEF vars, Others, netVars, userVars, fateVars
  <2>2. WorkerTyped' /\ channel' \in Seq(Good) /\ queue' \in Seq(Good) /\ pending' \in Seq(Acted)
    BY <1>4 DEF vars, userVars, Typed, WorkerTyped, Good, Acted
  <2>3. QED BY <1>4, <2>1, <2>2, TypedFrame DEF vars, userVars
<1>5. QED BY <1>1, <1>2, <1>3, <1>4, TypeHost DEF Next

(* Every variable keeps its type, whatever commands come and whatever      *)
(* fails.                                                                  *)
THEOREM AccountTypeCorrect == Spec => []TypeOK
<1>1. Typed => TypeOK
  BY DEF Typed
<1>2. QED BY <1>1, TypeInit, TypeNext, PTL DEF Spec

-----------------------------------------------------------------------------
(* No action is lost.                                                      *)

Accounted(a) ==
    a \in resolving \cup InMemory \cup Table \cup reported \cup lost \/ applied[a] > 0

LEMMA NoneLostFrame ==
    ASSUME Typed, NoActionLost, intents' = intents,
           \A a \in Acted : Accounted(a) => Accounted(a)'
    PROVE  NoActionLost'
<1>1. DOMAIN intents = Acted
  BY DEF Typed, TypeOK, Acted
<1>2. \A a \in Acted : Accounted(a)
  BY <1>1 DEF NoActionLost, Accounted
<1>3. QED BY <1>1, <1>2 DEF NoActionLost, Accounted

LEMMA NoneLostInit == Init => NoActionLost
BY DEF Init, NoActionLost

(* What a command that is no action, and a table that grew, hold.          *)
LEMMA InHandIs ==
    ASSUME Typed
    PROVE  /\ worker.pc \in Loop => InHand = {}
           /\ worker.pc \notin Loop => InHand = {worker.cur.id} \ {0}
           /\ worker.pc \notin Loop /\ worker.cur.kind # "Action" => InHand = {}
BY NothingIsNoCommand DEF Typed, WorkerTyped, InHand, Good

LEMMA TableOfAppend ==
    ASSUME NEW S, NEW p \in Seq(S), NEW a \in S
    PROVE  {Append(p, a)[i] : i \in DOMAIN Append(p, a)} = {p[i] : i \in DOMAIN p} \cup {a}
<1> DEFINE r == Append(p, a)
<1>1. DOMAIN r = DOMAIN p \cup {Len(p) + 1} /\ r[Len(p) + 1] = a
  OBVIOUS
<1>2. \A i \in DOMAIN p : r[i] = p[i]
  OBVIOUS
<1> HIDE DEF r
<1>3. QED BY <1>1, <1>2 DEF r

LEMMA NoneLostCommand ==
    ASSUME Typed, NoActionLost, Typed',
           TakeCommand \/ ShutDown \/ Connects \/ CannotConnect \/ KeepAction
    PROVE  NoActionLost'
<1>t. /\ worker \in Workers /\ WorkerTyped
      /\ channel \in Seq(Commands) /\ queue \in Seq(Commands) /\ pending \in Seq(Ids)
  BY DEF Typed, TypeOK
<1>1. CASE TakeCommand
  <2>1. /\ queue # <<>> /\ queue' = Tail(queue) /\ Head(queue) \in Commands
        /\ worker.pc \in Loop /\ worker'.cur = Head(queue)
    BY <1>1, <1>t DEF TakeCommand, At, Loop, Workers
  <2>2. Actions(queue) = Actions(queue') \cup ({Head(queue).id} \ {0})
    BY <1>t, <2>1, ActionsOfTail
  <2>3. InHand = {} /\ InHand' = {Head(queue).id} \ {0}
    BY <2>1, InHandIs, NothingIsNoCommand DEF InHand
  <2>4. InMemory' = InMemory
    BY <1>1, <2>2, <2>3 DEF InMemory, TakeCommand
  <2>5. QED BY <1>1, <2>4, NoneLostFrame DEF TakeCommand, Accounted, Table, userVars, fateVars
<1>2. CASE ShutDown
  <2>1. InHand = {}
    BY <1>2, InHandIs DEF ShutDown, At, Loop
  <2>2. InMemory \subseteq lost' /\ lost \subseteq lost'
    BY <1>2, <2>1 DEF ShutDown, InMemory
  <2>3. QED BY <1>2, <2>2, NoneLostFrame DEF ShutDown, Accounted, Table, userVars
<1>3. CASE Connects
  <2>1. InHand' = InHand
    BY <1>3, <1>t DEF Connects, InHand, Becomes, Workers
  <2>2. QED BY <1>3, <2>1, NoneLostFrame
       DEF Connects, Accounted, InMemory, Table, userVars, fateVars
<1>4. CASE CannotConnect
  <2>1. InHand \subseteq InHand'
    <3>1. CASE worker.cur.kind = "Action"
      BY <1>4, <1>t, <3>1 DEF CannotConnect, InHand, Becomes, Workers
    <3>2. CASE worker.cur.kind # "Action"
      BY <1>4, <3>2, InHandIs DEF CannotConnect, At, Loop
    <3>3. QED BY <3>1, <3>2
  <2>2. QED BY <1>4, <2>1, NoneLostFrame
       DEF CannotConnect, Accounted, InMemory, Table, userVars, fateVars
<1>5. CASE KeepAction
  <2> DEFINE a == worker.cur.id
  <2>1. InHand = {a} \ {0} /\ a \in Ids
    <3>1. worker.pc = "keep" /\ worker.pc \notin Loop
      BY <1>5 DEF KeepAction, At, Loop
    <3>2. worker.cur \in Good /\ worker.cur.kind = "Action"
      BY <3>1, <1>t DEF WorkerTyped
    <3>3. Acted \subseteq Ids
      BY AccountWorkerAssumption DEF Typed, TypeOK, Acted, Ids
    <3>4. QED BY <3>1, <3>2, <3>3, InHandIs DEF Good
  <2>2. CASE pending' = Append(pending, a)
    <3>1. Table' = Table \cup {a}
      BY SMTT(30), <1>t, <2>1, <2>2, TableOfAppend DEF Table
    <3>2. QED BY <1>5, <2>1, <3>1, NoneLostFrame
         DEF KeepAction, Accounted, InMemory, userVars
  <2>3. CASE reported' = reported \cup {a} /\ UNCHANGED pending
    BY <1>5, <2>1, <2>3, NoneLostFrame DEF KeepAction, Accounted, InMemory, Table, userVars
  <2>4. QED BY <1>5, <2>2, <2>3 DEF KeepAction
<1>6. QED BY <1>1, <1>2, <1>3, <1>4, <1>5

LEMMA NoneLostRun ==
    ASSUME Typed, NoActionLost, Typed',
           RunAction \/ ActionFails \/ RunPlain \/ PlainFails \/ SyncAccount
    PROVE  NoActionLost'
<1>t. /\ worker \in Workers /\ WorkerTyped
      /\ queue \in Seq(Commands) /\ applied \in [Ids -> Nat] /\ Acted \subseteq Ids
  BY SMTT(30), AccountWorkerAssumption DEF Typed, TypeOK, Acted, Ids
<1>q. \A kind \in RequestKinds : Actions(queue) \subseteq Actions(Append(queue, Request(kind)))
  BY <1>t, ActionsOfAppend, RequestsGood, GoodCommands
<1>s. "SyncFolder" \in RequestKinds
  BY DEF RequestKinds
<1>n. UNCHANGED <<intents, resolving, channel, pending, reported, lost>>
  BY DEF RunAction, ActionFails, RunPlain, PlainFails, SyncAccount, userVars, fateVars
<1>m. Actions(queue) \subseteq Actions(queue')
  <2>1. queue' \in {queue, Append(queue, Request("SyncFolder"))}
    BY DEF RunAction, ActionFails, RunPlain, PlainFails, SyncAccount, Enqueue
  <2>2. QED BY <1>q, <1>s, <2>1
<1>1. CASE RunAction \/ ActionFails
  <2> DEFINE a == worker.cur.id
  <2>1. worker.pc = "run" /\ worker.pc \notin Loop /\ worker.cur.kind = "Action"
    BY <1>1 DEF RunAction, ActionFails, At, Loop
  <2>2. a \in Acted /\ a \in Ids
    BY <1>t, <2>1 DEF WorkerTyped, Good
  <2>3. \A b \in Ids : applied[b] > 0 => applied'[b] > 0
    BY <1>1, <2>2, CallTyped DEF RunAction, ActionFails
  <2>4. InHand \subseteq InHand' \cup {b \in Ids : applied'[b] > 0}
    <3>1. CASE RunAction
      <4>1. applied'[a] > 0
        BY <1>t, <2>2, <3>1 DEF RunAction, Applies
      <4>2. QED BY <2>1, <2>2, <4>1, InHandIs
    <3>2. CASE ActionFails
      <4>1. InHand' = InHand
        BY <1>t, <3>2 DEF ActionFails, Becomes, InHand, Workers
      <4>2. QED BY <4>1
    <3>3. QED BY <1>1, <3>1, <3>2
  <2>5. \A b \in Acted : Accounted(b) => Accounted(b)'
    BY <1>t, <1>n, <1>m, <2>3, <2>4 DEF Accounted, InMemory, Table
  <2>6. QED BY <1>n, <2>5, NoneLostFrame
<1>2. CASE RunPlain \/ PlainFails \/ SyncAccount
  <2>1. worker.pc \notin Loop /\ worker.cur.kind # "Action"
    BY <1>2, <1>t DEF RunPlain, PlainFails, SyncAccount, At, Loop, Plain, WorkerTyped, Syncing
  <2>2. InHand = {} /\ applied' = applied
    BY <1>2, <2>1, InHandIs DEF RunPlain, PlainFails, SyncAccount
  <2>3. \A b \in Acted : Accounted(b) => Accounted(b)'
    BY <1>n, <1>m, <2>2 DEF Accounted, InMemory, Table
  <2>4. QED BY <1>n, <2>3, NoneLostFrame
<1>3. QED BY <1>1, <1>2

LEMMA NoneLostReplay ==
    ASSUME Typed, NoActionLost, Typed',
           ReplayBegins \/ ReplayOne \/ ForgetOne \/ ReplayFails \/ ReplayEnds
    PROVE  NoActionLost'
<1>t. /\ worker \in Workers /\ WorkerTyped /\ pending \in Seq(Ids)
      /\ applied \in [Ids -> Nat] /\ Acted \subseteq Ids
  BY SMTT(30), AccountWorkerAssumption DEF Typed, TypeOK, Acted, Ids
<1>n. UNCHANGED <<intents, resolving, channel, queue, reported, lost>>
  BY DEF ReplayBegins, ReplayOne, ForgetOne, ReplayFails, ReplayEnds, userVars, fateVars
<1>h. InHand' = InHand
  <2>1. worker'.cur = worker.cur
    BY <1>t DEF ReplayBegins, ReplayOne, ForgetOne, ReplayFails, ReplayEnds, Becomes, Workers
  <2>2. QED BY <2>1 DEF InHand
<1>1. \A b \in Ids : applied[b] > 0 => applied'[b] > 0
  <2>1. CASE ReplayOne \/ ReplayFails
    <3>1. Head(worker.batch) \in Acted
      BY <1>t, <2>1 DEF ReplayOne, ReplayFails, WorkerTyped
    <3>2. QED BY <2>1, <3>1, CallTyped DEF ReplayOne, ReplayFails, Oldest
  <2>2. CASE ReplayBegins \/ ForgetOne \/ ReplayEnds
    BY <2>2 DEF ReplayBegins, ForgetOne, ReplayEnds
  <2>3. QED BY <2>1, <2>2
<1>2. Table \subseteq Table' \cup {b \in Ids : applied'[b] > 0}
  <2>1. CASE pending' = pending
    BY <2>1 DEF Table
  <2>2. CASE ForgetOne /\ pending' = Without(pending, Head(worker.batch))
    <3> DEFINE a == Head(worker.batch)
    <3>1. a \in Ids /\ applied'[a] > 0
      <4>1. /\ worker.batch \in Seq(Acted) /\ worker.batch # <<>> /\ applied[a] > 0
            /\ applied' = applied
        BY <1>t, <2>2 DEF ForgetOne, At, WorkerTyped
      <4>2. QED BY <1>t, <4>1
    <3>2. \A i \in DOMAIN pending : pending[i] # a => pending[i] \in Table'
      BY <1>t, <2>2, WithoutKeeps DEF Table
    <3>3. QED BY <3>1, <3>2 DEF Table
  <2>3. QED BY <2>1, <2>2
       DEF ReplayBegins, ReplayOne, ForgetOne, ReplayFails, ReplayEnds, Oldest
<1>3. \A b \in Acted : Accounted(b) => Accounted(b)'
  BY <1>t, <1>n, <1>h, <1>1, <1>2 DEF Accounted, InMemory
<1>4. QED BY <1>n, <1>3, NoneLostFrame

LEMMA NoneLostLoop ==
    ASSUME Typed, NoActionLost, Typed',
           ReadChannel \/ Rest \/ Receive \/ IdleReceives \/ IdleInterrupted \/ IdleChanged
               \/ IdleFails
    PROVE  NoActionLost'
<1>t. /\ worker \in Workers /\ channel \in Seq(Commands) /\ queue \in Seq(Commands)
  BY DEF Typed, TypeOK
<1>n. UNCHANGED <<intents, resolving, pending, applied, reported, lost>>
  BY DEF ReadChannel, Rest, Receive, IdleReceives, IdleInterrupted, IdleChanged, IdleFails,
         userVars, fateVars
<1>h. InHand = {}
  BY InHandIs DEF ReadChannel, Rest, Receive, IdleReceives, IdleInterrupted, IdleChanged,
                  IdleFails, At, Loop
<1>1. Actions(channel) \cup Actions(queue) \subseteq Actions(channel') \cup Actions(queue')
  <2>1. CASE ReadChannel
    BY <2>1, ActionsOfEmpty DEF ReadChannel
  <2>2. CASE Receive \/ IdleReceives
    <3>1. /\ channel # <<>> /\ channel' = Tail(channel)
          /\ queue' = Append(queue, Head(channel)) /\ Head(channel) \in Commands
      BY <1>t, <2>2 DEF Receive, IdleReceives
    <3>2. QED BY <1>t, <3>1, ActionsOfTail, ActionsOfAppend
  <2>3. CASE IdleChanged
    <3>1. Actions(queue) \subseteq Actions(Append(queue, Request("SyncFolder")))
      BY <1>t, ActionsOfAppend, RequestsGood, GoodCommands DEF RequestKinds
    <3>2. channel' = channel /\ queue' \in {queue, Append(queue, Request("SyncFolder"))}
      BY <2>3 DEF IdleChanged, Enqueue
    <3>3. QED BY <3>1, <3>2
  <2>4. QED BY <2>1, <2>2, <2>3 DEF Rest, IdleInterrupted, IdleFails
<1>2. \A b \in Acted : Accounted(b) => Accounted(b)'
  BY <1>n, <1>h, <1>1 DEF Accounted, InMemory, Table
<1>3. QED BY <1>n, <1>2, NoneLostFrame

LEMMA NoneLostAct ==
    ASSUME Typed, NoActionLost, Typed', NEW m \in Messages, NEW kind \in ActionKinds,
           Act(m, kind)
    PROVE  NoActionLost'
<1>1. PICK new : DOMAIN intents' = DOMAIN intents \cup {new} /\ new \in resolving'
  <2>1. intents \in Seq([msg : Messages, kind : ActionKinds])
    BY DEF Typed, TypeOK
  <2>2. intents' = Append(intents, [msg |-> m, kind |-> kind])
    BY DEF Act
  <2>3. DOMAIN intents' = DOMAIN intents \cup {Len(intents) + 1}
    BY <2>1, <2>2
  <2>4. QED BY <2>3 DEF Act
<1>2. \A a \in DOMAIN intents : Accounted(a)
  BY DEF NoActionLost, Accounted
<1>3. \A a : Accounted(a) => Accounted(a)'
  BY DEF Act, Accounted, InMemory, InHand, Table, fateVars
<1>4. Accounted(new)'
  BY <1>1 DEF Accounted
<1>5. QED BY <1>1, <1>2, <1>3, <1>4 DEF NoActionLost, Accounted

LEMMA NoneLostHost ==
    ASSUME Typed, NoActionLost, Typed',
           \/ GoOffline \/ GoOnline \/ Crash
           \/ \E a \in resolving : Resolve(a) \/ ResolveFails(a)
           \/ \E kind \in RequestKinds : Ask(kind)
    PROVE  NoActionLost'
<1>n. intents' = intents /\ applied' = applied /\ pending' = pending
  BY DEF GoOffline, GoOnline, Crash, Resolve, ResolveFails, Ask, userVars
<1>p. \A c \in Commands : /\ Actions(channel) \subseteq Actions(Append(channel, c))
                          /\ c.id \in Actions(Append(channel, c)) \cup {0}
  BY ActionsOfAppend DEF Typed, TypeOK
<1>1. CASE GoOffline \/ GoOnline
  BY <1>1, NoneLostFrame
  DEF GoOffline, GoOnline, Accounted, InMemory, InHand, Table, userVars, fateVars
<1>2. CASE Crash
  <2>1. resolving \cup InMemory \subseteq lost' \cup Table' /\ lost \subseteq lost'
    BY <1>2 DEF Crash, Table
  <2>2. Table' = Table
    BY <1>n DEF Table
  <2>3. QED BY <1>2, <1>n, <2>1, <2>2, NoneLostFrame DEF Crash, Accounted
<1>3. CASE \E a \in resolving : Resolve(a)
  <2>1. PICK a \in resolving : Resolve(a)
    BY <1>3
  <2>2. [kind |-> "Action", id |-> a] \in Commands /\ a # 0
    BY AccountWorkerAssumption DEF Typed, TypeOK, Commands, Ids
  <2>3. Actions(channel) \subseteq Actions(channel') /\ a \in Actions(channel') \cup lost'
        /\ lost \subseteq lost'
    BY <1>p, <2>1, <2>2 DEF Resolve, Post
  <2>4. InHand' = InHand
    BY <2>1 DEF Resolve, InHand
  <2>5. QED BY <1>n, <2>1, <2>3, <2>4, NoneLostFrame DEF Resolve, Accounted, InMemory, Table
<1>4. CASE \E a \in resolving : ResolveFails(a)
  BY <1>4, <1>n, NoneLostFrame DEF ResolveFails, Accounted, InMemory, InHand, Table
<1>5. CASE \E kind \in RequestKinds : Ask(kind)
  <2>1. PICK kind \in RequestKinds : Ask(kind)
    BY <1>5
  <2>2. Actions(channel) \subseteq Actions(channel')
    BY <1>p, <2>1, RequestsGood, GoodCommands DEF Ask, Post
  <2>3. QED BY <1>n, <2>1, <2>2, NoneLostFrame
       DEF Ask, Accounted, InMemory, InHand, Table, fateVars
<1>6. QED BY <1>1, <1>2, <1>3, <1>4, <1>5

LEMMA NoneLostNext == Typed /\ NoActionLost /\ [Next]_vars => NoActionLost'
<1> SUFFICES ASSUME Typed, NoActionLost, [Next]_vars PROVE NoActionLost'
  OBVIOUS
<1>t. Typed'
  BY TypeNext
<1>1. CASE HandleCommand
  BY <1>t, <1>1, NoneLostCommand, NoneLostRun, NoneLostReplay DEF HandleCommand
<1>2. CASE WorkerStep \/ IdleChanged
  BY <1>t, <1>1, <1>2, NoneLostLoop DEF WorkerStep
<1>3. CASE \E m \in Messages, kind \in ActionKinds : Act(m, kind)
  BY <1>t, <1>3, NoneLostAct
<1>4. CASE UNCHANGED vars
  BY <1>4, NoneLostFrame
  DEF vars, userVars, fateVars, Accounted, InMemory, InHand, Table
<1>5. QED BY <1>t, <1>1, <1>2, <1>3, <1>4, NoneLostHost DEF Next

(* Whatever the user asks for, in whatever order, and whatever fails, is   *)
(* on its way, or done, or in the table of pending operations, unless the  *)
(* store did not take it or the thread ended with it in memory.            *)
THEOREM NothingForgotten == Spec => []NoActionLost
<1> DEFINE Inv == Typed /\ NoActionLost
<1>1. Init => Inv
  BY TypeInit, NoneLostInit
<1>2. Inv /\ [Next]_vars => Inv'
  BY TypeNext, NoneLostNext
<1>3. Inv => NoActionLost
  OBVIOUS
<1> HIDE DEF Inv
<1>4. QED BY <1>1, <1>2, <1>3, PTL DEF Spec

-----------------------------------------------------------------------------
(* The last intent of the user: the actions on a message that are under    *)
(* way stand in a line, from the table of pending operations to those that *)
(* the service resolves, and the server has done those that left it.       *)

Moving == {"move", "delete"}
Flagging == {"flag", "unflag"}
Records == [flag : BOOLEAN, here : BOOLEAN, copies : Nat]

(* Nothing on m went wrong, and no younger action came first.              *)
Sound(m) == m \notin overtaken /\ On(m, reported \cup lost) = {}

Elements(ops) == {ops[i] : i \in DOMAIN ops}
Under(m, some, others) == \A a \in On(m, some), b \in On(m, others) : a < b
SortedOps(m, ops) ==
    \A i, j \in DOMAIN ops :
        i < j /\ intents[ops[i]].msg = m /\ intents[ops[j]].msg = m => ops[i] < ops[j]
Sorted(m, q) ==
    \A i, j \in DOMAIN q :
        /\ i < j /\ q[i].id # 0 /\ q[j].id # 0
        /\ intents[q[i].id].msg = m /\ intents[q[j].id].msg = m
        => q[i].id < q[j].id

(* The line: the table ops, the action in hand, the queue q, the channel   *)
(* c and the actions ids that are being resolved, in the order in which    *)
(* the user asked for them.                                                *)
InOrder(m, ops, hand, q, c, ids) ==
    /\ SortedOps(m, ops) /\ Sorted(m, q) /\ Sorted(m, c)
    /\ Under(m, Elements(ops), hand \cup Actions(q) \cup Actions(c) \cup ids)
    /\ Under(m, hand, Actions(q) \cup Actions(c) \cup ids)
    /\ Under(m, Actions(q), Actions(c) \cup ids)
    /\ Under(m, Actions(c), ids)

(* What the server's record s of m says of the actions on m under way: the *)
(* ones that are not came before, s is as the last of them left it, or as  *)
(* the first one in the line, whose answer was lost, did.                  *)
NoneSkipped(m, ids) == \A b \in ids, a \in On(m, DOMAIN intents) : b < a => a \in ids
Books(m, ids, s) ==
    /\ NoneSkipped(m, ids)
    /\ ~s.here => \A b \in ids : intents[b].kind \in Moving
    /\ \A a \in Wanted(m, Moving) : a \notin ids => ~s.here
    /\ \A a \in Wanted(m, Flagging) :
          a \notin ids /\ (\A b \in Wanted(m, Flagging) : a < b => b \in ids)
            => \/ s.flag = (intents[a].kind = "flag")
               \/ \E b \in ids : intents[b].kind \in Flagging /\ \A x \in ids : b <= x

Line(m, ops, hand, q, c, ids, s) ==
    /\ InOrder(m, ops, hand, q, c, ids)
    /\ Books(m, On(m, Elements(ops) \cup hand \cup Actions(q) \cup Actions(c) \cup ids), s)

(* The record s is as the action a left it.                                *)
Reflects(a, s) ==
    /\ intents[a].kind \in Moving => ~s.here
    /\ intents[a].kind \in Flagging => s.flag = (intents[a].kind = "flag")

Forgetting(m) ==
    worker.pc = "forget" /\ intents[Head(worker.batch)].msg = m
        => Reflects(Head(worker.batch), server[m])

Tracked(m) ==
    /\ Line(m, pending, InHand, queue, channel, resolving, server[m])
    /\ Forgetting(m)

(* Nothing is done with a message after it was moved or deleted, and it    *)
(* vanishes only by that; a replay has in hand what is left of the table.  *)
MovesAreLast ==
    \A a, b \in DOMAIN intents :
        intents[a].msg = intents[b].msg /\ intents[a].kind \in Moving => b <= a
GoneIsMoved == \A m \in Messages : ~server[m].here => Wanted(m, Moving) # {}
Replaying == worker.pc \in {"replay", "forget"} => worker.batch = pending
Blamed == reported \cup lost \subseteq Acted

Intended ==
    /\ Typed /\ MovesAreLast /\ GoneIsMoved /\ Replaying /\ Blamed
    /\ \A m \in Messages : Sound(m) => Tracked(m)

-----------------------------------------------------------------------------
(* Sequences in order.                                                     *)

LEMMA ActedAre ==
    ASSUME Typed
    PROVE  /\ DOMAIN intents = Acted /\ Acted \subseteq Nat \ {0}
           /\ \A a \in Acted : intents[a].kind \in Moving \cup Flagging /\ intents[a].msg \in Messages
<1>1. /\ DOMAIN intents = Acted /\ Acted \subseteq Nat \ {0}
      /\ intents \in Seq([msg : Messages, kind : ActionKinds])
  BY DEF Typed, TypeOK, Acted
<1>2. \A a \in Acted : intents[a] \in [msg : Messages, kind : ActionKinds]
  BY <1>1, ElementOfSeq DEF Acted
<1>3. QED BY <1>1, <1>2 DEF ActionKinds, Moving, Flagging

LEMMA ActionsActed ==
    ASSUME Typed, NEW q \in Seq(Good)
    PROVE  Actions(q) \subseteq Acted
<1>1. \A i \in DOMAIN q : q[i] \in Good
  OBVIOUS
<1>2. QED BY <1>1 DEF Actions, Good

LEMMA SortedTail ==
    ASSUME NEW q \in Seq(Good), q # <<>>, NEW m, Sorted(m, q)
    PROVE  Sorted(m, Tail(q)) /\ Under(m, {Head(q).id} \ {0}, Actions(Tail(q)))
<1> DEFINE r == Tail(q)
<1>1. /\ DOMAIN r = 1 .. Len(q) - 1 /\ DOMAIN q = 1 .. Len(q) /\ Len(q) \in Nat \ {0}
      /\ Head(q) = q[1]
  OBVIOUS
<1>2. \A i \in DOMAIN r : r[i] = q[i + 1] /\ i + 1 \in DOMAIN q /\ 1 < i + 1 /\ i \in Nat
  OBVIOUS
<1> HIDE DEF r
<1>3. \A i, j \in DOMAIN r : i < j => i + 1 < j + 1
  BY <1>2
<1>4. Sorted(m, r)
  BY <1>2, <1>3 DEF Sorted
<1>5. Under(m, {Head(q).id} \ {0}, Actions(r))
  <2>1. 1 \in DOMAIN q
    BY <1>1
  <2>2. QED BY <1>1, <1>2, <2>1 DEF Under, On, Sorted, Actions
<1>6. QED BY <1>4, <1>5 DEF r

LEMMA SortedAppend ==
    ASSUME NEW q \in Seq(Good), NEW c \in Good, NEW m, Sorted(m, q),
           Under(m, Actions(q), {c.id} \ {0})
    PROVE  Sorted(m, Append(q, c))
<1> DEFINE r == Append(q, c)
           n == Len(q) + 1
<1>1. DOMAIN r = DOMAIN q \cup {n} /\ r[n] = c /\ \A i \in DOMAIN q : i < n /\ ~(n < i)
  OBVIOUS
<1>2. \A i \in DOMAIN q : r[i] = q[i]
  OBVIOUS
<1>3. ~(n < n)
  OBVIOUS
<1> HIDE DEF r, n
<1>4. \A i \in DOMAIN q : q[i].id # 0 => q[i].id \in Actions(q)
  BY DEF Actions
<1>5. QED BY <1>1, <1>2, <1>3, <1>4 DEF Sorted, Under, On, r

LEMMA OpsTail ==
    ASSUME NEW ops \in Seq(Acted), ops # <<>>, NEW m, SortedOps(m, ops)
    PROVE  /\ SortedOps(m, Tail(ops))
           /\ Under(m, {Head(ops)}, Elements(Tail(ops)))
           /\ Elements(ops) = {Head(ops)} \cup Elements(Tail(ops))
<1> DEFINE r == Tail(ops)
<1>1. /\ DOMAIN r = 1 .. Len(ops) - 1 /\ DOMAIN ops = 1 .. Len(ops) /\ Len(ops) \in Nat \ {0}
      /\ Head(ops) = ops[1]
  OBVIOUS
<1>2. \A i \in DOMAIN r : r[i] = ops[i + 1] /\ i + 1 \in DOMAIN ops /\ 1 < i + 1 /\ i \in Nat
  OBVIOUS
<1> HIDE DEF r
<1>3. \A i, j \in DOMAIN r : i < j => i + 1 < j + 1
  BY <1>2
<1>4. SortedOps(m, r)
  BY <1>2, <1>3 DEF SortedOps
<1>5. 1 \in DOMAIN ops
  BY <1>1
<1>6. Under(m, {Head(ops)}, Elements(r))
  BY <1>1, <1>2, <1>5 DEF Under, On, SortedOps, Elements
<1>7. \A i \in DOMAIN ops \ {1} : i - 1 \in DOMAIN r /\ r[i - 1] = ops[i]
  BY <1>1, <1>2
<1>8. Elements(ops) = {Head(ops)} \cup Elements(r)
  BY <1>1, <1>2, <1>5, <1>7 DEF Elements
<1>9. QED BY <1>4, <1>6, <1>8 DEF r

LEMMA OpsAppend ==
    ASSUME NEW ops \in Seq(Acted), NEW a \in Acted, NEW m, SortedOps(m, ops),
           Under(m, Elements(ops), {a})
    PROVE  /\ SortedOps(m, Append(ops, a))
           /\ Elements(Append(ops, a)) = Elements(ops) \cup {a}
<1> DEFINE r == Append(ops, a)
           n == Len(ops) + 1
<1>1. DOMAIN r = DOMAIN ops \cup {n} /\ r[n] = a /\ \A i \in DOMAIN ops : i < n /\ ~(n < i)
  OBVIOUS
<1>2. \A i \in DOMAIN ops : r[i] = ops[i]
  OBVIOUS
<1>3. ~(n < n)
  OBVIOUS
<1> HIDE DEF r, n
<1>4. \A i \in DOMAIN ops : ops[i] \in Elements(ops)
  BY DEF Elements
<1>5. SortedOps(m, r)
  BY <1>1, <1>2, <1>3, <1>4 DEF SortedOps, Under, On, r
<1>6. Elements(r) = Elements(ops) \cup {a}
  BY <1>1, <1>2 DEF Elements
<1>7. QED BY <1>5, <1>6 DEF r

(* delete_op of the oldest row.                                            *)
LEMMA WithoutHead ==
    ASSUME NEW S, NEW ops \in Seq(S), ops # <<>>
    PROVE  Without(ops, Head(ops)) = Tail(ops)
<1> DEFINE Before(i) == \A j \in 1 .. i : ops[j] # Head(ops)
<1>1. /\ DOMAIN ops = 1 .. Len(ops) /\ Len(ops) \in Nat \ {0} /\ Head(ops) = ops[1]
  OBVIOUS
<1>2. \A i \in 1 .. Len(ops) : ~Before(i)
  <2>1. \A i \in 1 .. Len(ops) : 1 \in 1 .. i
    BY <1>1
  <2>2. QED BY <1>1, <2>1
<1>3. Without(ops, Head(ops)) =
         [i \in 1 .. Len(ops) - 1 |-> IF Before(i) THEN ops[i] ELSE ops[i + 1]]
  BY <1>1, <1>2 DEF Without
<1>4. \A i \in 1 .. Len(ops) - 1 : ~Before(i)
  BY <1>1, <1>2
<1> HIDE DEF Before
<1>5. Without(ops, Head(ops)) = [i \in 1 .. Len(ops) - 1 |-> ops[i + 1]]
  BY <1>3, <1>4
<1>6. /\ Tail(ops) \in [1 .. Len(ops) - 1 -> S]
      /\ \A i \in 1 .. Len(ops) - 1 : Tail(ops)[i] = ops[i + 1]
  <2>1. Tail(ops) \in Seq(S) /\ Len(Tail(ops)) = Len(ops) - 1
    OBVIOUS
  <2>2. Tail(ops) \in [1 .. Len(ops) - 1 -> S]
    <3>1. \A r \in Seq(S) : r \in [1 .. Len(r) -> S]
      OBVIOUS
    <3>2. QED BY <2>1, <3>1
  <2>3. \A i \in 1 .. Len(ops) - 1 : Tail(ops)[i] = ops[i + 1]
    OBVIOUS
  <2>4. QED BY <2>2, <2>3
<1>7. Tail(ops) = [i \in 1 .. Len(ops) - 1 |-> Tail(ops)[i]]
  BY <1>6
<1>8. QED BY <1>5, <1>6, <1>7

-----------------------------------------------------------------------------
(* What the server does, and what leaves the line.                         *)

(* The record t that s becomes when the server does a.                     *)
Becoming(a, s, t) ==
    IF ~s.here THEN t = s
    ELSE /\ t.here = (intents[a].kind \notin Moving)
         /\ t.flag = IF intents[a].kind \in Flagging THEN intents[a].kind = "flag" ELSE s.flag

First(a, ids) == a \in ids /\ \A b \in ids : a <= b

LEMMA BooksDone ==
    ASSUME Typed, MovesAreLast, NEW m \in Messages, NEW ids \in SUBSET On(m, Acted),
           NEW s \in Records, NEW t \in Records, Books(m, ids, s),
           NEW a, First(a, ids), Becoming(a, s, t)
    PROVE  Books(m, ids, t) /\ Reflects(a, t)
<1>0. /\ DOMAIN intents = Acted /\ Acted \subseteq Nat /\ ids \subseteq Acted /\ a \in Acted
      /\ \A b \in Acted : intents[b].kind \in Moving \cup Flagging
      /\ \A b \in ids : intents[b].msg = m
      /\ Moving \cap Flagging = {}
      /\ a \in ids /\ \A b \in ids : a <= b
      /\ \A b \in On(m, Acted) : b \in Acted /\ intents[b].msg = m
  BY ActedAre DEF First, On, Moving, Flagging
<1>1. intents[a].kind \in Moving => \A b \in ids : b = a
  <2>1. ASSUME intents[a].kind \in Moving, NEW b \in ids PROVE b = a
    <3>1. b <= a /\ a <= b /\ a \in Nat /\ b \in Nat
      BY <1>0, <2>1 DEF MovesAreLast
    <3>2. QED BY <3>1
  <2>2. QED BY <2>1
<1>2. intents[a].kind \in Flagging => s.here
  BY <1>0 DEF Books
<1>3. Reflects(a, t)
  BY <1>0, <1>2 DEF Reflects, Becoming
<1>4. ~t.here => \A b \in ids : intents[b].kind \in Moving
  BY <1>0, <1>1 DEF Becoming, Books
<1>5. \A b \in Wanted(m, Moving) : b \notin ids => ~t.here
  BY DEF Becoming, Books
<1>6. ASSUME NEW x \in Wanted(m, Flagging), x \notin ids,
             \A b \in Wanted(m, Flagging) : x < b => b \in ids
      PROVE  \/ t.flag = (intents[x].kind = "flag")
             \/ \E b \in ids : intents[b].kind \in Flagging /\ \A y \in ids : b <= y
  <2>1. CASE intents[a].kind \in Flagging
    BY <1>0, <2>1
  <2>2. CASE intents[a].kind \in Moving
    <3>1. t.flag = s.flag
      BY <1>0, <2>2 DEF Becoming
    <3>2. ~ \E b \in ids : intents[b].kind \in Flagging
      BY <1>0, <1>1, <2>2
    <3>3. s.flag = (intents[x].kind = "flag")
      BY <1>6, <3>2 DEF Books
    <3>4. QED BY <3>1, <3>3
  <2>3. QED BY <1>0, <2>1, <2>2
<1>7. QED BY <1>3, <1>4, <1>5, <1>6 DEF Books

LEMMA BooksLeave ==
    ASSUME Typed, MovesAreLast, NEW m \in Messages, NEW ids \in SUBSET On(m, Acted),
           NEW s \in Records, Books(m, ids, s),
           NEW a, First(a, ids), Reflects(a, s)
    PROVE  Books(m, ids \ {a}, s)
<1>0. /\ DOMAIN intents = Acted /\ Acted \subseteq Nat /\ ids \subseteq Acted /\ a \in Acted
      /\ \A b \in Acted : intents[b].kind \in Moving \cup Flagging
      /\ \A b \in ids : intents[b].msg = m
      /\ Moving \cap Flagging = {}
      /\ a \in ids /\ \A b \in ids : a <= b
  BY ActedAre DEF First, On, Moving, Flagging
<1>1. NoneSkipped(m, ids \ {a})
  <2>1. ASSUME NEW b \in ids \ {a}, NEW x \in On(m, DOMAIN intents), b < x
        PROVE  x \in ids \ {a}
    <3>1. x \in ids
      BY <2>1 DEF Books, NoneSkipped
    <3>2. a <= b /\ a \in Nat /\ b \in Nat /\ x \in Nat
      BY <1>0, <3>1
    <3>3. QED BY <2>1, <3>1, <3>2
  <2>2. QED BY <2>1 DEF NoneSkipped
<1>2. /\ ~s.here => \A b \in ids \ {a} : intents[b].kind \in Moving
      /\ \A b \in Wanted(m, Moving) : b \notin ids \ {a} => ~s.here
  BY <1>0 DEF Books, Wanted, Reflects
<1>3. ASSUME NEW x \in Wanted(m, Flagging), x \notin ids \ {a},
             \A b \in Wanted(m, Flagging) : x < b => b \in ids \ {a}
      PROVE  s.flag = (intents[x].kind = "flag")
  <2>1. CASE x = a
    BY <2>1, <1>3 DEF Reflects, Wanted
  <2>2. CASE x # a /\ intents[a].kind \in Flagging
    <3>1. a \in Wanted(m, Flagging) /\ x \in On(m, DOMAIN intents) /\ x \in Nat /\ a \in Nat
      BY <1>0, <1>3, <2>2 DEF Wanted, On
    <3>2. ~(x < a)
      BY <1>3, <3>1
    <3>3. ~(a < x)
      BY <1>0, <1>3, <2>2, <3>1 DEF Books, NoneSkipped
    <3>4. QED BY <2>2, <3>1, <3>2, <3>3
  <2>3. CASE x # a /\ intents[a].kind \in Moving
    <3>1. ~ \E b \in ids : intents[b].kind \in Flagging
      <4>1. ASSUME NEW b \in ids PROVE b = a
        <5>1. b <= a /\ a <= b /\ a \in Nat /\ b \in Nat
          BY <1>0, <2>3 DEF MovesAreLast
        <5>2. QED BY <5>1
      <4>2. QED BY <1>0, <2>3, <4>1
    <3>2. QED BY <1>3, <2>3, <3>1 DEF Books
  <2>4. QED BY <1>0, <2>1, <2>2, <2>3
<1>4. QED BY <1>1, <1>2, <1>3 DEF Books

-----------------------------------------------------------------------------
(* How the line moves.                                                     *)

All(ops, hand, q, c, ids) ==
    Elements(ops) \cup hand \cup Actions(q) \cup Actions(c) \cup ids

(* Where the line is, and what of it is in order, is all that counts.      *)
LEMMA LineMoves ==
    ASSUME NEW m, NEW ops, NEW hand, NEW q, NEW c, NEW ids, NEW s,
           NEW ops2, NEW hand2, NEW q2, NEW c2, NEW ids2,
           Line(m, ops, hand, q, c, ids, s),
           InOrder(m, ops2, hand2, q2, c2, ids2),
           On(m, All(ops2, hand2, q2, c2, ids2)) = On(m, All(ops, hand, q, c, ids))
    PROVE  Line(m, ops2, hand2, q2, c2, ids2, s)
BY DEF Line, All

LEMMA LineTake ==
    ASSUME NEW m, NEW ops, NEW q \in Seq(Good), q # <<>>, NEW c, NEW ids, NEW s,
           Line(m, ops, {}, q, c, ids, s)
    PROVE  Line(m, ops, {Head(q).id} \ {0}, Tail(q), c, ids, s)
<1> DEFINE h == {Head(q).id} \ {0}
<1>1. Actions(q) = Actions(Tail(q)) \cup h
  <2>1. q \in Seq(Commands)
    BY GoodCommands
  <2>2. QED BY <2>1, ActionsOfTail
<1>2. Sorted(m, Tail(q)) /\ Under(m, h, Actions(Tail(q)))
  BY SortedTail DEF Line, InOrder
<1> HIDE DEF h
<1>3. InOrder(m, ops, h, Tail(q), c, ids)
  BY <1>1, <1>2 DEF Line, InOrder, Under, On
<1>4. On(m, All(ops, h, Tail(q), c, ids)) = On(m, All(ops, {}, q, c, ids))
  BY <1>1 DEF All
<1>5. QED BY <1>3, <1>4, LineMoves DEF h

LEMMA LineReceive ==
    ASSUME NEW m, NEW ops, NEW q \in Seq(Good), NEW c \in Seq(Good), c # <<>>, NEW ids,
           NEW s, NEW hand, Line(m, ops, hand, q, c, ids, s)
    PROVE  Line(m, ops, hand, Append(q, Head(c)), Tail(c), ids, s)
<1> DEFINE h == {Head(c).id} \ {0}
<1>1. /\ Actions(c) = Actions(Tail(c)) \cup h /\ Head(c) \in Good
      /\ Actions(Append(q, Head(c))) = Actions(q) \cup h
  <2>1. q \in Seq(Commands) /\ c \in Seq(Commands) /\ Head(c) \in Good
    BY GoodCommands
  <2>2. Head(c) \in Commands
    BY <2>1
  <2>3. QED BY <2>1, <2>2, ActionsOfTail, ActionsOfAppend
<1>2. Sorted(m, Tail(c)) /\ Under(m, h, Actions(Tail(c)))
  BY SortedTail DEF Line, InOrder
<1>3. Sorted(m, Append(q, Head(c)))
  <2>1. Under(m, Actions(q), h)
    BY <1>1 DEF Line, InOrder, Under, On
  <2>2. QED BY <1>1, <2>1, SortedAppend DEF Line, InOrder
<1> HIDE DEF h
<1>4. InOrder(m, ops, hand, Append(q, Head(c)), Tail(c), ids)
  BY <1>1, <1>2, <1>3 DEF Line, InOrder, Under, On
<1>5. On(m, All(ops, hand, Append(q, Head(c)), Tail(c), ids)) = On(m, All(ops, hand, q, c, ids))
  BY <1>1 DEF All
<1>6. QED BY <1>4, <1>5, LineMoves

LEMMA LineRead ==
    ASSUME NEW m, NEW ops, NEW hand, NEW c, NEW ids, NEW s,
           Line(m, ops, hand, <<>>, c, ids, s)
    PROVE  Line(m, ops, hand, c, <<>>, ids, s)
<1>1. InOrder(m, ops, hand, c, <<>>, ids)
  BY ActionsOfEmpty DEF Line, InOrder, Under, On, Sorted
<1>2. On(m, All(ops, hand, c, <<>>, ids)) = On(m, All(ops, hand, <<>>, c, ids))
  BY ActionsOfEmpty DEF All
<1>3. QED BY <1>1, <1>2, LineMoves

(* A command that is no action.                                            *)
LEMMA RequestSorted ==
    ASSUME NEW m, NEW q \in Seq(Good), Sorted(m, q), NEW kind \in RequestKinds
    PROVE  /\ Sorted(m, Append(q, Request(kind)))
           /\ Actions(Append(q, Request(kind))) = Actions(q)
<1>1. Request(kind) \in Good /\ Request(kind) \in Commands /\ q \in Seq(Commands)
      /\ {Request(kind).id} \ {0} = {}
  BY RequestsGood, GoodCommands DEF Request
<1>2. Under(m, Actions(q), {Request(kind).id} \ {0})
  BY <1>1 DEF Under, On
<1>3. QED BY <1>1, <1>2, SortedAppend, ActionsOfAppend

LEMMA LineRequest ==
    ASSUME NEW m, NEW ops, NEW hand, NEW q \in Seq(Good), NEW c \in Seq(Good), NEW ids, NEW s,
           Line(m, ops, hand, q, c, ids, s), NEW kind \in RequestKinds
    PROVE  /\ Line(m, ops, hand, Append(q, Request(kind)), c, ids, s)
           /\ Line(m, ops, hand, q, Append(c, Request(kind)), ids, s)
<1>1. Sorted(m, q) /\ Sorted(m, c)
  BY DEF Line, InOrder
<1>2. InOrder(m, ops, hand, Append(q, Request(kind)), c, ids)
  BY <1>1, RequestSorted DEF Line, InOrder
<1>3. InOrder(m, ops, hand, q, Append(c, Request(kind)), ids)
  BY <1>1, RequestSorted DEF Line, InOrder
<1>4. /\ On(m, All(ops, hand, Append(q, Request(kind)), c, ids)) = On(m, All(ops, hand, q, c, ids))
      /\ On(m, All(ops, hand, q, Append(c, Request(kind)), ids)) = On(m, All(ops, hand, q, c, ids))
  BY <1>1, RequestSorted DEF All
<1>5. QED BY <1>2, <1>3, <1>4, LineMoves

(* The service resolves the oldest action on its message.                  *)
LEMMA LineResolve ==
    ASSUME NEW m, NEW ops, NEW hand, NEW q, NEW c \in Seq(Good), NEW ids, NEW s,
           Line(m, ops, hand, q, c, ids, s), NEW a \in ids, a # 0, Under(m, {a}, ids \ {a}),
           [kind |-> "Action", id |-> a] \in Good
    PROVE  Line(m, ops, hand, q, Append(c, [kind |-> "Action", id |-> a]), ids \ {a}, s)
<1> DEFINE command == [kind |-> "Action", id |-> a]
<1>1. /\ command \in Good /\ command \in Commands /\ c \in Seq(Commands)
      /\ {command.id} \ {0} = {a}
  BY GoodCommands
<1>2. Actions(Append(c, command)) = Actions(c) \cup {a}
  BY <1>1, ActionsOfAppend
<1>3. Under(m, Actions(c), {a})
  BY DEF Line, InOrder, Under, On
<1>4. Sorted(m, Append(c, command))
  BY <1>1, <1>3, SortedAppend DEF Line, InOrder
<1> HIDE DEF command
<1>5. InOrder(m, ops, hand, q, Append(c, command), ids \ {a})
  BY <1>2, <1>4 DEF Line, InOrder, Under, On
<1>6. On(m, All(ops, hand, q, Append(c, command), ids \ {a})) = On(m, All(ops, hand, q, c, ids))
  BY <1>2 DEF All
<1>7. QED BY <1>5, <1>6, LineMoves DEF command

(* The action in hand goes into the table.                                 *)
LEMMA LineKeep ==
    ASSUME NEW m, NEW ops \in Seq(Acted), NEW q, NEW c, NEW ids, NEW s, NEW a \in Acted,
           Line(m, ops, {a}, q, c, ids, s)
    PROVE  Line(m, Append(ops, a), {}, q, c, ids, s)
<1>1. /\ SortedOps(m, Append(ops, a))
      /\ Elements(Append(ops, a)) = Elements(ops) \cup {a}
  <2>1. SortedOps(m, ops) /\ Under(m, Elements(ops), {a})
    BY DEF Line, InOrder, Under, On
  <2>2. QED BY <2>1, OpsAppend
<1>2. InOrder(m, Append(ops, a), {}, q, c, ids)
  BY <1>1 DEF Line, InOrder, Under, On
<1>3. On(m, All(Append(ops, a), {}, q, c, ids)) = On(m, All(ops, {a}, q, c, ids))
  BY <1>1 DEF All
<1>4. QED BY <1>2, <1>3, LineMoves

(* Who stands in a line.                                                   *)
LEMMA AllActed ==
    ASSUME Typed, NEW m, NEW ops \in Seq(Acted), NEW hand \in SUBSET Acted, NEW q \in Seq(Good),
           NEW c \in Seq(Good), NEW ids \in SUBSET Acted
    PROVE  On(m, All(ops, hand, q, c, ids)) \in SUBSET On(m, Acted)
<1>1. Elements(ops) \subseteq Acted
  BY DEF Elements
<1>2. QED BY <1>1, ActionsActed DEF All, On

(* The action in hand is done, and behind nothing: it stays in hand, or    *)
(* leaves.                                                                 *)
LEMMA LineHand ==
    ASSUME Typed, MovesAreLast, NEW m \in Messages,
           NEW ops \in Seq(Acted), NEW q \in Seq(Good), NEW c \in Seq(Good),
           NEW ids \in SUBSET Acted, NEW s \in Records, NEW t \in Records, NEW a \in Acted,
           Line(m, ops, {a}, q, c, ids, s), intents[a].msg = m, Becoming(a, s, t),
           On(m, Elements(ops)) = {}
    PROVE  Line(m, ops, {a}, q, c, ids, t) /\ Line(m, ops, {}, q, c, ids, t)
<1> DEFINE all == On(m, All(ops, {a}, q, c, ids))
           rest == On(m, All(ops, {}, q, c, ids))
<1>1. all \in SUBSET On(m, Acted)
  BY AllActed
<1>2. First(a, all)
  <2>1. a \in Nat /\ a \in all
    BY ActedAre DEF All, On
  <2>2. all = {a} \cup On(m, Actions(q) \cup Actions(c) \cup ids)
    BY DEF All, On
  <2>3. \A b \in On(m, Actions(q) \cup Actions(c) \cup ids) : a < b /\ b \in Nat
    BY <1>1, <2>2, ActedAre DEF Line, InOrder, Under, On
  <2>4. a <= a
    BY <2>1
  <2>5. \A b \in On(m, Actions(q) \cup Actions(c) \cup ids) : a <= b
    BY <2>1, <2>3
  <2> HIDE DEF all
  <2>6. \A b \in all : b = a \/ b \in On(m, Actions(q) \cup Actions(c) \cup ids)
    BY <2>2
  <2>7. QED BY <2>1, <2>4, <2>5, <2>6 DEF First
<1>3. rest = all \ {a}
  <2>1. ~(a < a)
    BY ActedAre
  <2>2. a \notin On(m, Actions(q) \cup Actions(c) \cup ids)
    BY <2>1 DEF Line, InOrder, Under, On
  <2>3. QED BY <2>2 DEF All, On
<1> HIDE DEF all, rest
<1>4. Books(m, all, s)
  BY DEF Line, all, All
<1>5. Books(m, all, t) /\ Reflects(a, t)
  BY <1>1, <1>2, <1>4, BooksDone
<1>6. Books(m, rest, t)
  BY <1>1, <1>2, <1>3, <1>5, BooksLeave
<1>7. InOrder(m, ops, {}, q, c, ids) /\ InOrder(m, ops, {a}, q, c, ids)
  BY DEF Line, InOrder, Under, On
<1>8. QED BY <1>5, <1>6, <1>7 DEF Line, all, rest, All

(* The oldest operation of the table is done, and stays or leaves.         *)
LEMMA LineTable ==
    ASSUME Typed, MovesAreLast, NEW m \in Messages,
           NEW ops \in Seq(Acted), ops # <<>>, intents[Head(ops)].msg = m,
           NEW hand \in SUBSET Acted, NEW q \in Seq(Good),
           NEW c \in Seq(Good), NEW ids \in SUBSET Acted, NEW s \in Records,
           Line(m, ops, hand, q, c, ids, s)
    PROVE  /\ \A t \in Records : Becoming(Head(ops), s, t) =>
                  Line(m, ops, hand, q, c, ids, t) /\ Reflects(Head(ops), t)
           /\ Reflects(Head(ops), s) => Line(m, Tail(ops), hand, q, c, ids, s)
<1> DEFINE all == On(m, All(ops, hand, q, c, ids))
           rest == On(m, All(Tail(ops), hand, q, c, ids))
           a == Head(ops)
<1>0. a \in Acted /\ intents[a].msg = m
  OBVIOUS
<1>1. all \in SUBSET On(m, Acted)
  BY AllActed
<1>2. /\ SortedOps(m, Tail(ops)) /\ Under(m, {a}, Elements(Tail(ops)))
      /\ Elements(ops) = {a} \cup Elements(Tail(ops))
  BY OpsTail DEF Line, InOrder
<1> HIDE DEF a
<1>3. Under(m, {a}, Elements(Tail(ops)) \cup hand \cup Actions(q) \cup Actions(c) \cup ids)
  BY <1>2 DEF Line, InOrder, Under, On
<1>4. all = {a} \cup rest
  BY <1>0, <1>2 DEF All, On
<1>5. \A b \in rest : a < b
  BY <1>0, <1>3 DEF Under, On, All
<1>6. First(a, all) /\ rest = all \ {a}
  <2>1. a \in Nat /\ \A b \in rest : b \in Nat
    BY <1>0, <1>1, <1>4, ActedAre DEF On
  <2> HIDE DEF all, rest
  <2>2. a \notin rest /\ \A b \in all : a <= b
    BY <1>4, <1>5, <2>1
  <2>3. QED BY <1>4, <2>2 DEF First
<1> HIDE DEF all, rest
<1>7. Books(m, all, s)
  BY DEF Line, all, All
<1>8. ASSUME NEW t \in Records, Becoming(a, s, t)
      PROVE  Line(m, ops, hand, q, c, ids, t) /\ Reflects(a, t)
  <2>1. Books(m, all, t) /\ Reflects(a, t)
    BY <1>1, <1>6, <1>7, <1>8, BooksDone
  <2>2. QED BY <2>1 DEF Line, all, All
<1>9. ASSUME Reflects(a, s) PROVE Line(m, Tail(ops), hand, q, c, ids, s)
  <2>1. Books(m, rest, s)
    BY <1>1, <1>6, <1>7, <1>9, BooksLeave
  <2>2. InOrder(m, Tail(ops), hand, q, c, ids)
    BY <1>2 DEF Line, InOrder, Under, On
  <2>3. QED BY <2>1, <2>2 DEF Line, rest, All
<1>10. QED BY <1>8, <1>9 DEF a

-----------------------------------------------------------------------------
(* The steps that the user does not take.                                  *)

LEMMA LineNext ==
    ASSUME intents' = intents, NEW m,
           Line(m, pending', InHand', queue', channel', resolving', server'[m])
    PROVE  Line(m, pending, InHand, queue, channel, resolving, server[m])'
BY DEF Line, InOrder, Books, Under, On, Sorted, SortedOps, NoneSkipped, Wanted

LEMMA SoundBefore ==
    ASSUME intents' = intents, overtaken \subseteq overtaken', reported \subseteq reported',
           lost \subseteq lost', NEW m, Sound(m)'
    PROVE  Sound(m) /\ m \notin overtaken' /\ On(m, reported' \cup lost') = {}
BY DEF Sound, On

LEMMA TrackedBy ==
    ASSUME intents' = intents, NEW m,
           Line(m, pending', InHand', queue', channel', resolving', server'[m]),
           worker'.pc # "forget"
    PROVE  Tracked(m)'
BY LineNext DEF Tracked, Forgetting

(* What the lemmas about the line ask of the state.                        *)
LEMMA LineTyped ==
    ASSUME Typed
    PROVE  /\ pending \in Seq(Acted) /\ queue \in Seq(Good) /\ channel \in Seq(Good)
           /\ resolving \in SUBSET Acted /\ InHand \in SUBSET Acted
           /\ server \in [Messages -> Records]
           /\ worker \in Workers /\ worker.batch \in Seq(Acted)
<1>1. worker.cur \in Good \cup {Nothing}
  BY DEF Typed, WorkerTyped
<1>2. InHand \subseteq Acted
  BY <1>1 DEF InHand, Good
<1>3. QED BY <1>2 DEF Typed, TypeOK, WorkerTyped, Records

LEMMA TrackedQuiet ==
    ASSUME Intended,
           UNCHANGED <<intents, pending, resolving, server, fateVars>>, InHand' = InHand,
           queue' \in {queue, Append(queue, Request("SyncFolder"))},
           \/ channel' = channel
           \/ \E kind \in RequestKinds : channel' = Append(channel, Request(kind)),
           worker'.pc = "forget" => worker.pc = "forget" /\ worker'.batch = worker.batch
    PROVE  \A m \in Messages : Sound(m)' => Tracked(m)'
<1> SUFFICES ASSUME NEW m \in Messages, Sound(m)' PROVE Tracked(m)'
  OBVIOUS
<1>t. /\ queue \in Seq(Good) /\ channel \in Seq(Good) /\ "SyncFolder" \in RequestKinds
      /\ Append(queue, Request("SyncFolder")) \in Seq(Good)
  BY LineTyped, RequestsGood DEF Intended, RequestKinds
<1>1. Tracked(m)
  BY SoundBefore DEF fateVars, Intended
<1>2. Line(m, pending, InHand, queue', channel, resolving, server[m])
  BY <1>t, <1>1, LineRequest DEF Tracked
<1>3. Line(m, pending, InHand, queue', channel', resolving, server[m])
  <2>1. PICK q \in Seq(Good) : q = queue'
    BY <1>t
  <2>2. Line(m, pending, InHand, q, channel', resolving, server[m])
    BY <1>t, <1>2, <2>1, LineRequest
  <2>3. QED BY <2>1, <2>2
<1>4. Line(m, pending, InHand, queue, channel, resolving, server[m])'
  BY <1>3, LineNext
<1>5. Forgetting(m)'
  BY <1>1 DEF Tracked, Forgetting, Reflects
<1>6. QED BY <1>4, <1>5 DEF Tracked

LEMMA TrackedCalls ==
    ASSUME Intended,
           \/ Connects \/ CannotConnect \/ RunPlain \/ PlainFails \/ SyncAccount
           \/ ReplayBegins \/ ReplayEnds \/ Rest \/ IdleInterrupted \/ IdleChanged \/ IdleFails
           \/ GoOffline \/ GoOnline \/ (\E kind \in RequestKinds : Ask(kind)) \/ UNCHANGED vars
    PROVE  \A m \in Messages : Sound(m)' => Tracked(m)'
<1>t. worker \in Workers /\ Typed /\ WorkerTyped
  BY DEF Intended, Typed, TypeOK
<1> USE DEF fateVars, userVars, netVars
<1>1. CASE Connects \/ CannotConnect
  <2>1. /\ worker.pc = "connect" /\ worker'.pc \in {"run", "keep", "next"}
        /\ worker'.cur = IF worker'.pc = "next" THEN Nothing ELSE worker.cur
        /\ worker'.pc = "next" => worker.cur.kind # "Action"
    <3>1. CASE Connects
      BY <3>1, <1>t DEF Connects, Becomes, At, Workers
    <3>2. CASE CannotConnect
      BY <3>2, <1>t DEF CannotConnect, Becomes, At, Workers
    <3>3. QED BY <1>1, <3>1, <3>2
  <2>2. InHand' = InHand
    <3>1. CASE worker'.pc = "next"
      <4>1. InHand = {}
        BY <1>t, <2>1, <3>1, InHandIs DEF Loop
      <4>2. QED BY <2>1, <3>1, <4>1 DEF InHand
    <3>2. CASE worker'.pc # "next"
      BY <2>1, <3>2 DEF InHand
    <3>3. QED BY <3>1, <3>2
  <2>3. QED BY <1>1, <2>1, <2>2, TrackedQuiet DEF Connects, CannotConnect
<1>2. CASE RunPlain \/ PlainFails \/ SyncAccount
  <2>1. /\ worker.pc \notin Loop /\ worker.cur.kind # "Action"
        /\ worker'.pc = "next" /\ worker'.cur = Nothing
    BY <1>2, <1>t DEF RunPlain, PlainFails, SyncAccount, At, Loop, Plain, WorkerTyped, Syncing,
                      Watching, Workers
  <2>2. InHand = {} /\ InHand' = {}
    BY <1>t, <2>1, InHandIs DEF InHand
  <2>3. queue' \in {queue, Append(queue, Request("SyncFolder"))}
    BY <1>2 DEF RunPlain, PlainFails, SyncAccount, Enqueue
  <2>4. QED BY <1>2, <2>1, <2>2, <2>3, TrackedQuiet DEF RunPlain, PlainFails, SyncAccount
<1>3. CASE ReplayBegins \/ ReplayEnds
  <2>1. worker'.cur = worker.cur /\ worker'.pc \in {"replay", "sync"}
    BY <1>3, <1>t DEF ReplayBegins, ReplayEnds, Becomes, Workers
  <2>2. InHand' = InHand
    BY <2>1 DEF InHand
  <2>3. QED BY <1>3, <2>1, <2>2, TrackedQuiet DEF ReplayBegins, ReplayEnds
<1>4. CASE Rest \/ IdleInterrupted \/ IdleChanged \/ IdleFails
  <2>1. worker.pc \in Loop /\ worker'.pc \in {"next", "idle", "wait"} /\ worker'.cur = Nothing
    BY <1>4, <1>t DEF Rest, IdleInterrupted, IdleChanged, IdleFails, At, Becomes, Workers, Loop,
                      WorkerTyped
  <2>2. InHand = {} /\ InHand' = {}
    BY <1>t, <2>1, InHandIs DEF InHand
  <2>3. queue' \in {queue, Append(queue, Request("SyncFolder"))}
    BY <1>4 DEF Rest, IdleInterrupted, IdleChanged, IdleFails, Enqueue
  <2>4. QED BY <1>4, <2>1, <2>2, <2>3, TrackedQuiet
       DEF Rest, IdleInterrupted, IdleChanged, IdleFails
<1>5. CASE GoOffline \/ GoOnline \/ (\E kind \in RequestKinds : Ask(kind)) \/ UNCHANGED vars
  <2>1. worker' = worker /\ InHand' = InHand
    BY <1>5 DEF GoOffline, GoOnline, Ask, vars, InHand
  <2>2. UNCHANGED <<intents, pending, resolving, server, reported, lost, overtaken, queue>>
    BY <1>5 DEF GoOffline, GoOnline, Ask, vars
  <2>3. \/ channel' = channel
        \/ \E kind \in RequestKinds : channel' = Append(channel, Request(kind))
    BY <1>5 DEF GoOffline, GoOnline, Ask, vars, Post
  <2>4. QED BY <2>1, <2>2, <2>3, TrackedQuiet
<1>6. QED BY <1>1, <1>2, <1>3, <1>4, <1>5

(* A command is taken, kept or received.                                   *)
LEMMA TrackedTaken ==
    ASSUME Intended,
           TakeCommand \/ ShutDown \/ KeepAction \/ ReadChannel \/ Receive \/ IdleReceives
    PROVE  \A m \in Messages : Sound(m)' => Tracked(m)'
<1> SUFFICES ASSUME NEW m \in Messages, Sound(m)' PROVE Tracked(m)'
  OBVIOUS
<1> USE DEF fateVars, userVars
<1>t. /\ Typed /\ WorkerTyped /\ worker \in Workers
      /\ queue \in Seq(Good) /\ channel \in Seq(Good) /\ pending \in Seq(Acted)
      /\ UNCHANGED <<intents, resolving, server>>
  BY LineTyped DEF Intended, Typed, TakeCommand, ShutDown, KeepAction, ReadChannel, Receive,
                   IdleReceives
<1>1. Tracked(m) /\ On(m, reported' \cup lost') = {}
  <2>1. overtaken' = overtaken /\ reported \subseteq reported' /\ lost \subseteq lost'
    BY DEF TakeCommand, ShutDown, KeepAction, ReadChannel, Receive, IdleReceives
  <2>2. QED BY <1>t, <2>1, SoundBefore DEF Intended
<1>2. CASE TakeCommand
  <2>1. /\ InHand = {} /\ InHand' = {Head(queue).id} \ {0} /\ queue # <<>>
        /\ worker'.pc = "connect"
    <3>1. /\ worker.pc \in Loop /\ Head(queue) \in Commands /\ worker'.cur = Head(queue)
          /\ queue # <<>> /\ worker'.pc = "connect"
      BY <1>2, <1>t, GoodCommands DEF TakeCommand, At, Loop, Workers
    <3>2. QED BY <1>t, <3>1, InHandIs, NothingIsNoCommand DEF InHand
  <2>2. Line(m, pending, {}, queue, channel, resolving, server[m])
    BY <1>1, <2>1 DEF Tracked
  <2>3. Line(m, pending, {Head(queue).id} \ {0}, Tail(queue), channel, resolving, server[m])
    BY <1>t, <2>1, <2>2, LineTake
  <2>4. QED BY <1>2, <1>t, <2>1, <2>3, TrackedBy DEF TakeCommand
<1>3. CASE ShutDown
  <2>1. /\ InHand = {} /\ InHand' = {} /\ worker'.pc = "off"
    <3>1. worker.pc \notin Loop /\ worker.cur.kind # "Action" /\ worker'.cur = Nothing
          /\ worker'.pc = "off"
      BY <1>3 DEF ShutDown, At, Loop, Fresh
    <3>2. QED BY <1>t, <3>1, InHandIs DEF InHand
  <2>2. On(m, Actions(channel) \cup Actions(queue)) = {}
    BY <1>1, <1>3 DEF ShutDown, On
  <2>3. InOrder(m, pending, {}, <<>>, <<>>, resolving)
    BY <1>1, <2>1, ActionsOfEmpty DEF Tracked, Line, InOrder, Under, On, Sorted
  <2>4. On(m, All(pending, {}, <<>>, <<>>, resolving)) =
           On(m, All(pending, InHand, queue, channel, resolving))
    BY <2>1, <2>2, ActionsOfEmpty DEF All, On
  <2>5. Line(m, pending, {}, <<>>, <<>>, resolving, server[m])
    BY <1>1, <2>3, <2>4, LineMoves DEF Tracked
  <2>6. QED BY <1>3, <1>t, <2>1, <2>5, TrackedBy DEF ShutDown
<1>4. CASE KeepAction
  <2> DEFINE a == worker.cur.id
  <2>1. InHand = {a} /\ a \in Acted /\ InHand' = {} /\ worker'.pc = "next"
    <3>1. /\ worker.pc = "keep" /\ worker.pc \notin Loop
          /\ worker'.cur = Nothing /\ worker'.pc = "next"
      BY <1>4, <1>t DEF KeepAction, At, Loop, Becomes, Workers
    <3>2. worker.cur \in Good /\ worker.cur.kind = "Action"
      BY <3>1, <1>t DEF WorkerTyped
    <3>3. a \in Acted /\ a # 0
      BY <3>2 DEF Good, Acted
    <3>4. QED BY <1>t, <3>1, <3>3, InHandIs DEF InHand
  <2>2. CASE pending' = Append(pending, a)
    <3>1. Line(m, Append(pending, a), {}, queue, channel, resolving, server[m])
      BY <1>t, <1>1, <2>1, LineKeep DEF Tracked
    <3>2. QED BY <1>4, <1>t, <2>1, <2>2, <3>1, TrackedBy DEF KeepAction
  <2>3. CASE reported' = reported \cup {a} /\ UNCHANGED pending
    <3>1. intents[a].msg # m
      BY <1>1, <2>3 DEF On
    <3>2. InOrder(m, pending, {}, queue, channel, resolving)
      BY <1>1, <2>1 DEF Tracked, Line, InOrder, Under, On
    <3>3. On(m, All(pending, {}, queue, channel, resolving)) =
             On(m, All(pending, InHand, queue, channel, resolving))
      BY <2>1, <3>1 DEF All, On
    <3>4. Line(m, pending, {}, queue, channel, resolving, server[m])
      BY <1>1, <3>2, <3>3, LineMoves DEF Tracked
    <3>5. QED BY <1>4, <1>t, <2>1, <2>3, <3>4, TrackedBy DEF KeepAction
  <2>4. QED BY <1>4, <2>2, <2>3 DEF KeepAction
<1>5. CASE ReadChannel \/ Receive \/ IdleReceives
  <2>1. /\ InHand' = InHand /\ worker'.pc # "forget" /\ pending' = pending
    <3>1. worker.pc \in Loop /\ worker'.cur = Nothing /\ worker'.pc \in {"next", "idle"}
          /\ pending' = pending
      BY <1>5, <1>t DEF ReadChannel, Receive, IdleReceives, At, Loop, Becomes, Workers,
                        WorkerTyped
    <3>2. QED BY <1>t, <3>1, InHandIs DEF InHand
  <2>2. Line(m, pending, InHand, queue', channel', resolving, server[m])
    <3>1. CASE ReadChannel
      <4>1. Line(m, pending, InHand, <<>>, channel, resolving, server[m])
        BY <1>1, <3>1 DEF Tracked, ReadChannel
      <4>2. QED BY <3>1, <4>1, LineRead DEF ReadChannel
    <3>2. CASE Receive \/ IdleReceives
      <4>1. channel # <<>> /\ channel' = Tail(channel) /\ queue' = Append(queue, Head(channel))
        BY <3>2 DEF Receive, IdleReceives
      <4>2. QED BY <1>t, <1>1, <4>1, LineReceive DEF Tracked
    <3>3. QED BY <1>5, <3>1, <3>2
  <2>3. QED BY <1>t, <2>1, <2>2, TrackedBy
<1>6. QED BY <1>2, <1>3, <1>4, <1>5

-----------------------------------------------------------------------------
(* The server is asked to do an action.                                    *)

(* What a call leaves of the record of m.                                  *)
Outcome(a, m) ==
    \/ /\ intents[a].msg = m /\ applied' # applied
       /\ Becoming(a, server[m], server'[m])
    \/ /\ intents[a].msg = m => applied' = applied
       /\ server'[m].here = server[m].here /\ server'[m].flag = server[m].flag

LEMMA CallOutcome ==
    ASSUME Typed, NEW a \in Acted, NEW m \in Messages, Applies(a) \/ FailsToApply(a)
    PROVE  /\ Outcome(a, m) /\ server'[m] \in Records
           /\ Applies(a) => applied' # applied
<1>0. /\ server \in [Messages -> Records] /\ intents[a].msg \in Messages
      /\ intents[a].kind \in Moving \cup Flagging /\ a \in Ids /\ applied \in [Ids -> Nat]
      /\ intents[a].kind \in ActionKinds
  BY LineTyped, ActedAre, DoneTyped DEF Typed, TypeOK, ActionKinds, Moving, Flagging
<1>1. server'[m] \in Records
  BY CallTyped DEF Records
<1>2. [applied EXCEPT ![a] = @ + 1] # applied
  <2>1. applied[a] + 1 # applied[a] /\ [applied EXCEPT ![a] = @ + 1][a] = applied[a] + 1
    BY <1>0
  <2>2. QED BY <2>1
<1>3. ASSUME server' = Done(a), applied' # applied PROVE Outcome(a, m)
  <2>1. CASE intents[a].msg # m
    BY <1>0, <1>3, <2>1 DEF Done, Outcome, ActionKinds
  <2>2. CASE intents[a].msg = m /\ ~server[m].here
    BY <1>3, <2>2 DEF Done, Outcome, Becoming
  <2>3. CASE intents[a].msg = m /\ server[m].here
    <3>1. /\ server'[m].here = (intents[a].kind \notin Moving)
          /\ server'[m].flag = IF intents[a].kind \in Flagging THEN intents[a].kind = "flag"
                               ELSE server[m].flag
      <4>1. CASE intents[a].kind = "flag"
        BY <1>0, <1>3, <2>3, <4>1 DEF Done, Moving, Flagging, Records
      <4>2. CASE intents[a].kind = "unflag"
        BY <1>0, <1>3, <2>3, <4>2 DEF Done, Moving, Flagging, Records
      <4>3. CASE intents[a].kind = "move"
        BY <1>0, <1>3, <2>3, <4>3 DEF Done, Moving, Flagging, Records
      <4>4. CASE intents[a].kind = "delete"
        BY <1>0, <1>3, <2>3, <4>4 DEF Done, Moving, Flagging, Records
      <4>5. QED BY <1>0, <4>1, <4>2, <4>3, <4>4 DEF ActionKinds
    <3>2. QED BY <1>3, <2>3, <3>1 DEF Outcome, Becoming
  <2>4. QED BY <2>1, <2>2, <2>3
<1>4. ASSUME server' \in {server, Copied(a)}, applied' = applied PROVE Outcome(a, m)
  <2>1. server'[m].here = server[m].here /\ server'[m].flag = server[m].flag
    BY <1>0, <1>4 DEF Copied, Records
  <2>2. QED BY <1>4, <2>1 DEF Outcome
<1>5. CASE Applies(a)
  BY <1>1, <1>2, <1>3, <1>5 DEF Applies
<1>6. CASE FailsToApply(a)
  <2>1. Outcome(a, m)
    BY <1>2, <1>3, <1>4, <1>6 DEF FailsToApply
  <2>2. Applies(a) => applied' # applied
    BY <1>2 DEF Applies
  <2>3. QED BY <1>1, <2>1, <2>2
<1>7. QED BY <1>5, <1>6

LEMMA LineSame ==
    ASSUME NEW m, NEW ops, NEW hand, NEW q, NEW c, NEW ids, NEW s, NEW t,
           t.here = s.here, t.flag = s.flag, Line(m, ops, hand, q, c, ids, s)
    PROVE  Line(m, ops, hand, q, c, ids, t)
BY DEF Line, Books

LEMMA TrackedRun ==
    ASSUME Intended, RunAction \/ ActionFails
    PROVE  \A m \in Messages : Sound(m)' => Tracked(m)'
<1> SUFFICES ASSUME NEW m \in Messages, Sound(m)' PROVE Tracked(m)'
  OBVIOUS
<1> USE DEF fateVars, userVars
<1> DEFINE a == worker.cur.id
<1>t. /\ Typed /\ WorkerTyped /\ worker \in Workers /\ MovesAreLast
      /\ queue \in Seq(Good) /\ channel \in Seq(Good) /\ pending \in Seq(Acted)
      /\ resolving \in SUBSET Acted /\ server \in [Messages -> Records]
      /\ UNCHANGED <<intents, resolving, pending, channel, reported, lost>>
  BY LineTyped DEF Intended, Typed, RunAction, ActionFails
<1>1. Tracked(m) /\ m \notin overtaken'
  <2>1. overtaken \subseteq overtaken'
    BY DEF RunAction, ActionFails
  <2>2. QED BY <1>t, <2>1, SoundBefore DEF Intended
<1>2. a \in Acted /\ InHand = {a}
  <2>1. worker.pc \notin Loop /\ worker.cur.kind = "Action"
    BY DEF RunAction, ActionFails, At, Loop
  <2>2. worker.cur \in Good
    BY <1>t, <2>1 DEF WorkerTyped
  <2>3. a \in Acted /\ a # 0
    BY <2>1, <2>2 DEF Good, Acted
  <2>4. QED BY <1>t, <2>1, <2>3, InHandIs
<1>3. Applies(a) \/ FailsToApply(a)
  BY DEF RunAction, ActionFails
<1>4. Line(m, pending, {a}, queue, channel, resolving, server[m])
  BY <1>1, <1>2 DEF Tracked
<1>5. PICK t \in Records : t = server'[m]
  BY <1>t, <1>2, <1>3, CallOutcome
<1>6. applied' # applied /\ intents[a].msg = m => On(m, Elements(pending)) = {}
  BY <1>1 DEF RunAction, ActionFails, PastTable, Elements, Table
<1> HIDE DEF a
<1>7. /\ Line(m, pending, {a}, queue, channel, resolving, t)
      /\ RunAction => Line(m, pending, {}, queue, channel, resolving, t)
  <2>1. CASE intents[a].msg = m /\ applied' # applied /\ Becoming(a, server[m], server'[m])
    BY <1>t, <1>2, <1>4, <1>5, <1>6, <2>1, LineHand
  <2>2. CASE /\ intents[a].msg = m => applied' = applied
             /\ server'[m].here = server[m].here /\ server'[m].flag = server[m].flag
    <3>1. Line(m, pending, {a}, queue, channel, resolving, t)
      BY <1>4, <1>5, <2>2, LineSame
    <3>2. ASSUME RunAction PROVE Line(m, pending, {}, queue, channel, resolving, t)
      <4>1. intents[a].msg # m
        <5>1. Applies(a)
          BY <3>2 DEF RunAction, a
        <5>2. QED BY <1>t, <1>2, <2>2, <5>1, CallOutcome
      <4>2. InOrder(m, pending, {}, queue, channel, resolving)
        BY <3>1 DEF Line, InOrder, Under, On
      <4>3. On(m, All(pending, {}, queue, channel, resolving)) =
               On(m, All(pending, {a}, queue, channel, resolving))
        BY <4>1 DEF All, On
      <4>4. QED BY <3>1, <4>2, <4>3, LineMoves
    <3>3. QED BY <3>1, <3>2
  <2>3. QED BY <1>t, <1>2, <1>3, <2>1, <2>2, CallOutcome DEF Outcome
<1>8. CASE RunAction
  <2>1. /\ queue' = Append(queue, Request("SyncFolder"))
        /\ InHand' = {} /\ worker'.pc = "next"
    <3>1. worker'.cur = Nothing /\ worker'.pc = "next"
      BY <1>8, <1>t DEF RunAction, Becomes, Workers
    <3>2. QED BY <1>8, <3>1 DEF RunAction, Enqueue, InHand
  <2>2. Line(m, pending, {}, Append(queue, Request("SyncFolder")), channel, resolving, t)
    BY <1>t, <1>7, <1>8, LineRequest DEF RequestKinds
  <2>3. QED BY <1>t, <1>5, <2>1, <2>2, TrackedBy
<1>9. CASE ActionFails
  <2>1. InHand' = {a} /\ worker'.pc = "keep" /\ queue' = queue
    <3>1. worker'.cur = worker.cur /\ worker'.pc = "keep" /\ queue' = queue
      BY <1>9, <1>t DEF ActionFails, Becomes, Workers
    <3>2. QED BY <1>2, <3>1 DEF InHand
  <2>2. QED BY <1>t, <1>5, <1>7, <2>1, TrackedBy
<1>10. QED BY <1>8, <1>9

LEMMA TrackedReplay ==
    ASSUME Intended, ReplayOne \/ ForgetOne \/ ReplayFails
    PROVE  \A m \in Messages : Sound(m)' => Tracked(m)'
<1> SUFFICES ASSUME NEW m \in Messages, Sound(m)' PROVE Tracked(m)'
  OBVIOUS
<1> USE DEF fateVars, userVars
<1> DEFINE a == Head(pending)
<1>t. /\ Typed /\ WorkerTyped /\ worker \in Workers /\ MovesAreLast
      /\ queue \in Seq(Good) /\ channel \in Seq(Good) /\ pending \in Seq(Acted)
      /\ resolving \in SUBSET Acted /\ InHand \in SUBSET Acted
      /\ server \in [Messages -> Records]
      /\ UNCHANGED <<intents, resolving, channel, queue, reported, lost, overtaken>>
  BY LineTyped DEF Intended, Typed, ReplayOne, ForgetOne, ReplayFails
<1>1. Tracked(m)
  BY <1>t, SoundBefore DEF Intended
<1>2. /\ worker.batch = pending /\ pending # <<>> /\ a \in Acted
      /\ InHand' = InHand
  <2>1. worker.pc \in {"replay", "forget"} /\ worker.batch # <<>>
    BY <1>t DEF ReplayOne, ForgetOne, ReplayFails, At, WorkerTyped
  <2>2. worker'.cur = worker.cur
    BY <1>t DEF ReplayOne, ForgetOne, ReplayFails, Becomes, Workers
  <2>3. worker.batch = pending
    BY <2>1 DEF Intended, Replaying
  <2>4. QED BY <1>t, <2>1, <2>2, <2>3 DEF InHand
<1>3. Line(m, pending, InHand, queue, channel, resolving, server[m])
  BY <1>1 DEF Tracked
<1>4. CASE ReplayOne \/ ReplayFails
  <2>1. Applies(a) \/ FailsToApply(a)
    BY <1>2, <1>4 DEF ReplayOne, ReplayFails, Oldest
  <2>2. PICK t \in Records : t = server'[m]
    BY <1>t, <1>2, <2>1, CallOutcome
  <2>3. /\ pending' = pending /\ worker'.pc \in {"forget", "sync"}
        /\ ReplayOne => worker'.batch = pending /\ Applies(a)
        /\ worker'.pc = "forget" => ReplayOne
    BY <1>4, <1>t, <1>2 DEF ReplayOne, ReplayFails, Becomes, Workers, Oldest
  <2> HIDE DEF a
  <2>4. /\ Line(m, pending, InHand, queue, channel, resolving, t)
        /\ ReplayOne /\ intents[a].msg = m => Reflects(a, t)
    <3>1. CASE intents[a].msg = m /\ applied' # applied /\ Becoming(a, server[m], server'[m])
      <4>1. \A u \in Records : Becoming(a, server[m], u) =>
               Line(m, pending, InHand, queue, channel, resolving, u) /\ Reflects(a, u)
        BY <1>t, <1>2, <1>3, <3>1, LineTable DEF a
      <4>2. QED BY <2>2, <3>1, <4>1
    <3>2. CASE /\ intents[a].msg = m => applied' = applied
               /\ server'[m].here = server[m].here /\ server'[m].flag = server[m].flag
      <4>1. ~(ReplayOne /\ intents[a].msg = m)
        BY <1>t, <1>2, <2>1, <2>3, <3>2, CallOutcome
      <4>2. QED BY <1>3, <2>2, <3>2, <4>1, LineSame
    <3>3. QED BY <1>t, <1>2, <2>1, <3>1, <3>2, CallOutcome DEF Outcome
  <2>5. Line(m, pending, InHand, queue, channel, resolving, server[m])'
    BY <1>t, <1>2, <2>2, <2>3, <2>4, LineNext
  <2>6. Forgetting(m)'
    BY <1>t, <2>2, <2>3, <2>4 DEF Forgetting, Reflects, a
  <2>7. QED BY <2>5, <2>6 DEF Tracked
<1>5. CASE ForgetOne
  <2>1. server' = server /\ worker'.pc # "forget" /\ worker.pc = "forget"
    BY <1>5, <1>t DEF ForgetOne, At, Workers
  <2>2. CASE pending' = pending
    BY <1>t, <1>2, <1>3, <2>1, <2>2, TrackedBy
  <2>3. CASE pending' = Without(pending, Head(worker.batch))
    <3>1. pending' = Tail(pending)
      BY <1>t, <1>2, <2>3, WithoutHead
    <3>2. CASE intents[a].msg = m
      <4>1. Reflects(a, server[m])
        BY <1>1, <1>2, <2>1, <3>2 DEF Tracked, Forgetting
      <4>2. Line(m, Tail(pending), InHand, queue, channel, resolving, server[m])
        BY <1>t, <1>2, <1>3, <3>2, <4>1, LineTable
      <4>3. QED BY <1>t, <1>2, <2>1, <3>1, <4>2, TrackedBy
    <3>3. CASE intents[a].msg # m
      <4>1. /\ SortedOps(m, Tail(pending))
            /\ Elements(pending) = {a} \cup Elements(Tail(pending))
        BY <1>t, <1>2, <1>3, OpsTail DEF Line, InOrder
      <4> HIDE DEF a
      <4>2. InOrder(m, Tail(pending), InHand, queue, channel, resolving)
        BY <1>3, <4>1 DEF Line, InOrder, Under, On
      <4>3. On(m, All(Tail(pending), InHand, queue, channel, resolving)) =
               On(m, All(pending, InHand, queue, channel, resolving))
        BY <3>3, <4>1 DEF All, On
      <4>4. Line(m, Tail(pending), InHand, queue, channel, resolving, server[m])
        BY <1>3, <4>2, <4>3, LineMoves
      <4>5. QED BY <1>t, <1>2, <2>1, <3>1, <4>4, TrackedBy
    <3>4. QED BY <3>2, <3>3
  <2>4. QED BY <1>5, <2>2, <2>3 DEF ForgetOne, Oldest
<1>6. QED BY <1>4, <1>5

-----------------------------------------------------------------------------
(* An action is resolved, or not; the process dies.                        *)
LEMMA TrackedResolve ==
    ASSUME Intended, NEW a \in resolving, Resolve(a) \/ ResolveFails(a)
    PROVE  \A m \in Messages : Sound(m)' => Tracked(m)'
<1> SUFFICES ASSUME NEW m \in Messages, Sound(m)' PROVE Tracked(m)'
  OBVIOUS
<1>t. /\ Typed /\ queue \in Seq(Good) /\ channel \in Seq(Good) /\ pending \in Seq(Acted)
      /\ resolving \in SUBSET Acted
      /\ UNCHANGED <<intents, server, worker, queue, pending>> /\ resolving' = resolving \ {a}
      /\ InHand' = InHand
  BY LineTyped DEF Intended, Resolve, ResolveFails, InHand
<1>a. a \in Acted /\ a \in Nat \ {0} /\ [kind |-> "Action", id |-> a] \in Good
  <2>1. a \in Acted /\ a \in Nat \ {0} /\ a \in Ids
    BY <1>t, ActedAre DEF Typed, TypeOK
  <2>2. QED BY <2>1 DEF Good, Commands, Ids
<1>1. /\ Tracked(m) /\ m \notin overtaken' /\ On(m, reported' \cup lost') = {}
  <2>1. overtaken \subseteq overtaken' /\ reported \subseteq reported' /\ lost \subseteq lost'
    BY DEF Resolve, ResolveFails
  <2>2. QED BY <1>t, <2>1, SoundBefore DEF Intended
<1>2. ASSUME UNCHANGED channel, intents[a].msg # m PROVE Tracked(m)'
  <2>1. InOrder(m, pending, InHand, queue, channel, resolving \ {a})
    BY <1>1 DEF Tracked, Line, InOrder, Under, On
  <2>2. On(m, All(pending, InHand, queue, channel, resolving \ {a})) =
           On(m, All(pending, InHand, queue, channel, resolving))
    BY <1>2 DEF All, On
  <2>3. Line(m, pending, InHand, queue, channel, resolving \ {a}, server[m])
    BY <1>1, <2>1, <2>2, LineMoves DEF Tracked
  <2>4. Line(m, pending, InHand, queue, channel, resolving, server[m])'
    BY <1>t, <1>2, <2>3, LineNext
  <2>5. QED BY <1>t, <1>1, <2>4 DEF Tracked, Forgetting, Reflects
<1>3. CASE Resolve(a)
  <2>1. CASE worker.pc = "off"
    <3>1. UNCHANGED channel /\ lost' = lost \cup {a}
      BY <1>3, <2>1 DEF Resolve, Post
    <3>2. QED BY <1>1, <1>2, <3>1 DEF On
  <2>2. CASE worker.pc # "off"
    <3>1. channel' = Append(channel, [kind |-> "Action", id |-> a])
      BY <1>3, <2>2 DEF Resolve, Post
    <3>2. Line(m, pending, InHand, queue, channel', resolving \ {a}, server[m])
      <4>1. CASE intents[a].msg = m
        <5>1. On(m, {b \in resolving : b < a}) = {}
          BY <1>1, <1>3, <4>1 DEF Resolve
        <5>2. Under(m, {a}, resolving \ {a})
          <6>1. \A b \in resolving : b \in Nat
            BY <1>t, ActedAre
          <6>2. \A b \in resolving \ {a} : ~(b < a) => a < b
            BY <6>1, <1>a
          <6>3. QED BY <5>1, <6>2 DEF Under, On
        <5>3. QED BY <1>t, <1>a, <1>1, <3>1, <5>2, LineResolve DEF Tracked
      <4>2. CASE intents[a].msg # m
        <5> DEFINE command == [kind |-> "Action", id |-> a]
        <5>1. /\ command \in Good /\ command \in Commands /\ channel \in Seq(Commands)
              /\ command.id = a
          BY <1>t, <1>a, GoodCommands
        <5>2. Actions(Append(channel, command)) = Actions(channel) \cup {a}
          BY <1>a, <5>1, ActionsOfAppend
        <5>3. Sorted(m, Append(channel, command))
          <6>1. Under(m, Actions(channel), {command.id} \ {0}) /\ Sorted(m, channel)
            BY <1>1, <4>2, <5>1 DEF Under, On, Tracked, Line, InOrder
          <6>2. QED BY <1>t, <5>1, <6>1, SortedAppend
        <5> HIDE DEF command
        <5>4. InOrder(m, pending, InHand, queue, Append(channel, command), resolving \ {a})
          BY <1>1, <4>2, <5>2, <5>3 DEF Tracked, Line, InOrder, Under, On
        <5>5. On(m, All(pending, InHand, queue, Append(channel, command), resolving \ {a})) =
                 On(m, All(pending, InHand, queue, channel, resolving))
          BY <4>2, <5>2 DEF All, On
        <5>6. Line(m, pending, InHand, queue, Append(channel, command), resolving \ {a}, server[m])
          BY <1>1, <5>4, <5>5, LineMoves DEF Tracked
        <5>7. QED BY <3>1, <5>6 DEF command
      <4>3. QED BY <4>1, <4>2
    <3>3. Line(m, pending, InHand, queue, channel, resolving, server[m])'
      BY <1>t, <3>2, LineNext
    <3>4. QED BY <1>t, <1>1, <3>3 DEF Tracked, Forgetting, Reflects
  <2>3. QED BY <2>1, <2>2
<1>4. CASE ResolveFails(a)
  <2>1. UNCHANGED channel /\ intents[a].msg # m
    BY <1>1, <1>4 DEF ResolveFails, On
  <2>2. QED BY <1>2, <2>1
<1>5. QED BY <1>3, <1>4

LEMMA TrackedCrash ==
    ASSUME Intended, Crash
    PROVE  \A m \in Messages : Sound(m)' => Tracked(m)'
<1> SUFFICES ASSUME NEW m \in Messages, Sound(m)' PROVE Tracked(m)'
  OBVIOUS
<1>t. /\ Typed /\ queue \in Seq(Good) /\ channel \in Seq(Good) /\ pending \in Seq(Acted)
      /\ resolving \in SUBSET Acted /\ InHand \in SUBSET Acted
      /\ UNCHANGED <<intents, server, pending, reported, overtaken>> /\ resolving' = {}
      /\ channel' = <<>> /\ queue' = <<Request("Sync")>> /\ InHand' = {}
      /\ worker'.pc = "next" /\ lost' = lost \cup ((InMemory \cup resolving) \ Table)
  BY LineTyped DEF Intended, Crash, InHand, Fresh
<1>1. /\ Tracked(m) /\ On(m, (InMemory \cup resolving) \ Table) = {}
  <2>1. On(m, reported' \cup lost') = {} /\ Sound(m)
    BY <1>t, SoundBefore
  <2>2. QED BY <1>t, <2>1 DEF On, Intended
<1>2. /\ Elements(pending) = Table
      /\ \A x \in On(m, Table) : ~(x < x)
  <2>1. Table \subseteq Acted
    BY <1>t DEF Table
  <2>2. QED BY <1>t, <2>1, ActedAre DEF Elements, Table, On
<1>3. On(m, InMemory \cup resolving) = {}
  <2>1. \A x \in On(m, InMemory \cup resolving) : x \in On(m, Table)
    BY <1>1 DEF On
  <2>2. Under(m, Table, InMemory \cup resolving)
    BY <1>1, <1>2 DEF Tracked, Line, InOrder, InMemory
  <2>3. QED BY <1>2, <2>1, <2>2 DEF Under
<1>4. Actions(<<Request("Sync")>>) = {} /\ Sorted(m, <<Request("Sync")>>)
  BY DEF Actions, Request, Sorted
<1>5. InOrder(m, pending, {}, <<Request("Sync")>>, <<>>, {})
  BY <1>1, <1>4, ActionsOfEmpty DEF Tracked, Line, InOrder, Under, On, Sorted
<1>6. On(m, All(pending, {}, <<Request("Sync")>>, <<>>, {})) =
         On(m, All(pending, InHand, queue, channel, resolving))
  BY <1>3, <1>4, ActionsOfEmpty DEF All, On, InMemory
<1>7. Line(m, pending, {}, <<Request("Sync")>>, <<>>, {}, server[m])
  BY <1>1, <1>5, <1>6, LineMoves DEF Tracked
<1>8. QED BY <1>t, <1>7, TrackedBy

-----------------------------------------------------------------------------
(* The user acts: the newest action stands at the end of the line.         *)
LEMMA TrackedAct ==
    ASSUME Intended, NEW n \in Messages, NEW kind \in ActionKinds, Act(n, kind)
    PROVE  \A m \in Messages : Sound(m)' => Tracked(m)'
<1> SUFFICES ASSUME NEW m \in Messages, Sound(m)' PROVE Tracked(m)'
  OBVIOUS
<1> USE DEF fateVars
<1> DEFINE new == Len(intents) + 1
           hand == InHand
<1>t. /\ Typed /\ queue \in Seq(Good) /\ channel \in Seq(Good) /\ pending \in Seq(Acted)
      /\ resolving \in SUBSET Acted /\ InHand \in SUBSET Acted /\ WorkerTyped
      /\ UNCHANGED <<server, worker, queue, channel, pending, reported, lost, overtaken>>
      /\ resolving' = resolving \cup {new} /\ InHand' = InHand
      /\ intents' = Append(intents, [msg |-> n, kind |-> kind])
  BY LineTyped DEF Intended, Act, InHand, Typed
<1>1. /\ \A a \in Acted : intents'[a] = intents[a] /\ a < new /\ ~(new < a) /\ a # new
      /\ intents'[new].msg = n /\ intents'[new].kind = kind /\ new \in Nat /\ ~(new < new)
      /\ DOMAIN intents = Acted /\ DOMAIN intents' = Acted \cup {new} /\ new \notin Acted
  <2>1. intents \in Seq([msg : Messages, kind : ActionKinds])
    BY <1>t DEF Typed, TypeOK
  <2>2. QED BY <1>t, <2>1 DEF Acted
<1> HIDE DEF new
<1>2. \A A \in SUBSET Acted : {a \in A : intents'[a].msg = m} = On(m, A)
  BY <1>1 DEF On
<1>3. Sound(m) /\ Tracked(m)
  <2>1. reported \cup lost \in SUBSET Acted
    BY DEF Intended, Blamed
  <2>2. On(m, reported \cup lost) = {}
    BY <1>t, <1>2, <2>1 DEF Sound, On
  <2>3. QED BY <1>t, <2>2 DEF Sound, Intended
<1>4. /\ Elements(pending) \subseteq Acted /\ Actions(queue) \subseteq Acted
      /\ Actions(channel) \subseteq Acted
      /\ \A i \in DOMAIN pending : pending[i] \in Acted
      /\ \A i \in DOMAIN queue : queue[i].id # 0 => queue[i].id \in Acted
      /\ \A i \in DOMAIN channel : channel[i].id # 0 => channel[i].id \in Acted
  <2>1. Actions(queue) \subseteq Acted /\ Actions(channel) \subseteq Acted
    BY <1>t, ActionsActed
  <2>2. \A i \in DOMAIN pending : pending[i] \in Acted
    BY <1>t
  <2>3. QED BY <2>1, <2>2 DEF Actions, Elements
<1>5. InOrder(m, pending, hand, queue, channel, resolving)
  BY <1>3 DEF Tracked, Line
<1>6. InOrder(m, pending, hand, queue, channel, resolving)'
  <2>1. SortedOps(m, pending)' /\ Sorted(m, queue)' /\ Sorted(m, channel)'
    <3>1. SortedOps(m, pending)'
      BY <1>t, <1>1, <1>4, <1>5 DEF InOrder, SortedOps
    <3>2. Sorted(m, queue)'
      BY <1>t, <1>1, <1>4, <1>5 DEF InOrder, Sorted
    <3>3. Sorted(m, channel)'
      BY SMTT(30), <1>t, <1>1, <1>4, <1>5 DEF InOrder, Sorted
    <3>4. QED BY <3>1, <3>2, <3>3
  <2>2. ASSUME NEW A \in SUBSET Acted, NEW B \in SUBSET Acted, Under(m, A, B)
        PROVE  /\ \A a \in {x \in A : intents'[x].msg = m},
                     b \in {x \in B : intents'[x].msg = m} : a < b
               /\ \A a \in {x \in A : intents'[x].msg = m},
                     b \in {x \in B \cup {new} : intents'[x].msg = m} : a < b
    BY <1>1, <2>2 DEF Under, On
  <2>3. /\ Elements(pending)' = Elements(pending) /\ hand' = hand
        /\ Actions(queue)' = Actions(queue) /\ Actions(channel)' = Actions(channel)
    BY <1>t DEF Elements, Actions
  <2>4. /\ hand \cup Actions(queue) \cup Actions(channel) \cup resolving \in SUBSET Acted
        /\ Actions(queue) \cup Actions(channel) \cup resolving \in SUBSET Acted
        /\ Actions(channel) \cup resolving \in SUBSET Acted
        /\ resolving \in SUBSET Acted
    BY <1>t, <1>4
  <2>a. hand \in SUBSET Acted
    BY <1>t
  <2> HIDE DEF hand
  <2>5. Under(m, Elements(pending), hand \cup Actions(queue) \cup Actions(channel) \cup resolving)'
    <3>1. \A a \in {x \in Elements(pending) : intents'[x].msg = m},
             b \in {x \in (hand \cup Actions(queue) \cup Actions(channel) \cup resolving) \cup {new} : intents'[x].msg = m} :
                a < b
      BY <1>4, <1>5, <2>2, <2>4, <2>a DEF InOrder
    <3>2. (hand \cup Actions(queue) \cup Actions(channel) \cup resolving)' = (hand \cup Actions(queue) \cup Actions(channel) \cup resolving) \cup {new}
      BY <1>t, <2>3
    <3>3. QED BY <2>3, <3>1, <3>2 DEF Under, On
  <2>6. Under(m, hand, Actions(queue) \cup Actions(channel) \cup resolving)'
    <3>1. \A a \in {x \in hand : intents'[x].msg = m},
             b \in {x \in (Actions(queue) \cup Actions(channel) \cup resolving) \cup {new} : intents'[x].msg = m} :
                a < b
      BY <1>4, <1>5, <2>2, <2>4, <2>a DEF InOrder
    <3>2. (Actions(queue) \cup Actions(channel) \cup resolving)' = (Actions(queue) \cup Actions(channel) \cup resolving) \cup {new}
      BY <1>t, <2>3
    <3>3. QED BY <2>3, <3>1, <3>2 DEF Under, On
  <2>7. Under(m, Actions(queue), Actions(channel) \cup resolving)'
    <3>1. \A a \in {x \in Actions(queue) : intents'[x].msg = m},
             b \in {x \in (Actions(channel) \cup resolving) \cup {new} : intents'[x].msg = m} :
                a < b
      BY <1>4, <1>5, <2>2, <2>4, <2>a DEF InOrder
    <3>2. (Actions(channel) \cup resolving)' = (Actions(channel) \cup resolving) \cup {new}
      BY <1>t, <2>3
    <3>3. QED BY <2>3, <3>1, <3>2 DEF Under, On
  <2>8. Under(m, Actions(channel), resolving)'
    <3>1. \A a \in {x \in Actions(channel) : intents'[x].msg = m},
             b \in {x \in (resolving) \cup {new} : intents'[x].msg = m} :
                a < b
      BY <1>4, <1>5, <2>2, <2>4, <2>a DEF InOrder
    <3>2. (resolving)' = (resolving) \cup {new}
      BY <1>t, <2>3
    <3>3. QED BY <2>3, <3>1, <3>2 DEF Under, On
  <2>9. QED BY <2>1, <2>5, <2>6, <2>7, <2>8 DEF InOrder
<1> DEFINE ids == On(m, All(pending, hand, queue, channel, resolving))
           s == server[m]
<1>7. /\ ids \in SUBSET Acted
      /\ ids' = IF m = n THEN ids \cup {new} ELSE ids
  <2>1. ids \in SUBSET On(m, Acted)
    BY <1>t, AllActed
  <2>2. All(pending, hand, queue, channel, resolving) \in SUBSET Acted
    BY <1>t, <1>4 DEF All
  <2>3. All(pending, hand, queue, channel, resolving)' =
           All(pending, hand, queue, channel, resolving) \cup {new}
    BY <1>t DEF All, Elements, Actions
  <2>4. ids' = {a \in All(pending, hand, queue, channel, resolving) \cup {new} :
                   intents'[a].msg = m}
    BY <2>3 DEF On
  <2>5. QED BY <1>1, <1>2, <2>1, <2>2, <2>4 DEF On
<1>8. Books(m, ids, s)
  BY <1>3 DEF Tracked, Line, All
<1>9. /\ \A k \in SUBSET ActionKinds : Wanted(m, k) \subseteq Acted
      /\ Wanted(m, Moving)' = IF m = n /\ kind \in Moving THEN Wanted(m, Moving) \cup {new}
                              ELSE Wanted(m, Moving)
      /\ Wanted(m, Flagging)' = IF m = n /\ kind \in Flagging THEN Wanted(m, Flagging) \cup {new}
                                ELSE Wanted(m, Flagging)
      /\ On(m, DOMAIN intents)' = IF m = n THEN On(m, Acted) \cup {new} ELSE On(m, Acted)
      /\ Wanted(m, Moving) \subseteq Acted /\ Wanted(m, Flagging) \subseteq Acted
  BY <1>1 DEF Wanted, On
<1>10. m = n => s.here /\ Wanted(m, Moving) = {}
  <2>1. m = n => Wanted(m, Moving) = {}
    BY DEF Act, Wanted, On, Moving
  <2>2. QED BY <2>1 DEF Intended, GoneIsMoved
<1> HIDE DEF ids, s, hand
<1>11. Books(m, ids, s)'
  <2>0. s' = s
    BY <1>t DEF s
  <2>1. NoneSkipped(m, ids)'
    <3>1. ASSUME NEW b \in ids', NEW x \in On(m, DOMAIN intents)', b < x PROVE x \in ids'
      <4>1. CASE b = new
        BY <1>1, <1>9, <3>1, <4>1 DEF On
      <4>2. CASE b # new
        <5>1. b \in ids
          BY <1>7, <4>2
        <5>2. x \in On(m, Acted) => x \in ids
          BY <1>1, <1>8, <3>1, <5>1 DEF Books, NoneSkipped
        <5>3. QED BY <1>7, <1>9, <5>2
      <4>3. QED BY <4>1, <4>2
    <3>2. QED BY <3>1 DEF NoneSkipped
  <2>2. ~s'.here => \A b \in ids' : intents'[b].kind \in Moving
    BY <1>1, <1>7, <1>8, <1>10, <2>0 DEF Books
  <2>3. \A a \in Wanted(m, Moving)' : a \notin ids' => ~s'.here
    BY <1>7, <1>8, <1>9, <2>0 DEF Books
  <2>4. ASSUME NEW x \in Wanted(m, Flagging)', x \notin ids',
               \A b \in Wanted(m, Flagging)' : x < b => b \in ids'
        PROVE  \/ s'.flag = (intents'[x].kind = "flag")
               \/ \E b \in ids' : intents'[b].kind \in Flagging /\ \A y \in ids' : b <= y
    <3>1. x \in Wanted(m, Flagging) /\ x \in Acted /\ x \notin ids /\ intents'[x] = intents[x]
      BY <1>1, <1>7, <1>9, <2>4
    <3>2. \A b \in Wanted(m, Flagging) : x < b => b \in ids
      BY <1>1, <1>7, <1>9, <2>4
    <3>3. CASE s.flag = (intents[x].kind = "flag")
      BY <2>0, <3>1, <3>3
    <3>4. CASE \E b \in ids : intents[b].kind \in Flagging /\ \A y \in ids : b <= y
      <4>1. PICK b \in ids : intents[b].kind \in Flagging /\ \A y \in ids : b <= y
        BY <3>4
      <4>2. b \in Acted /\ b \in ids' /\ b <= new
        <5>1. b \in Nat /\ b < new
          BY <1>t, <1>1, <1>7, ActedAre
        <5>2. QED BY <1>1, <1>7, <5>1
      <4>3. \A y \in ids' : b <= y
        BY <1>7, <4>1, <4>2
      <4>4. QED BY <1>1, <4>1, <4>2, <4>3
    <3>5. QED BY <1>8, <3>1, <3>2, <3>3, <3>4 DEF Books
  <2>5. QED BY <2>1, <2>2, <2>3, <2>4 DEF Books
<1>12. Line(m, pending, hand, queue, channel, resolving, s)'
  BY <1>6, <1>11 DEF Line, ids, All
<1>13. Forgetting(m)'
  <2>1. worker.pc = "forget" => Head(worker.batch) \in Acted
    BY <1>t DEF WorkerTyped
  <2>2. QED BY <1>t, <1>1, <1>3, <2>1 DEF Tracked, Forgetting, Reflects
<1>14. QED BY <1>12, <1>13 DEF Tracked, hand, s

-----------------------------------------------------------------------------
(* The rest of the invariant.                                              *)
Circumstances == MovesAreLast /\ GoneIsMoved /\ Replaying /\ Blamed

LEMMA CircumstancesKept ==
    ASSUME Intended, intents' = intents, server' = server,
           reported' \cup lost' \subseteq Acted,
           \/ worker'.pc \notin {"replay", "forget"}
           \/ worker' = worker /\ pending' = pending
    PROVE  Circumstances'
BY DEF Intended, Circumstances, MovesAreLast, GoneIsMoved, Wanted, On, Replaying, Blamed, Acted

(* A call makes a message vanish only when that was asked for.             *)
LEMMA GoneByCall ==
    ASSUME Intended, intents' = intents, NEW a \in Acted, Applies(a) \/ FailsToApply(a)
    PROVE  MovesAreLast' /\ GoneIsMoved'
<1>1. MovesAreLast'
  BY DEF Intended, MovesAreLast
<1>2. ASSUME NEW m \in Messages, ~server'[m].here PROVE Wanted(m, Moving) # {}
  <2>1. CASE server'[m].here = server[m].here
    BY <1>2, <2>1 DEF Intended, GoneIsMoved
  <2>2. CASE intents[a].msg = m /\ Becoming(a, server[m], server'[m]) /\ server[m].here
    <3>1. intents[a].kind \in Moving
      BY <1>2, <2>2 DEF Becoming
    <3>2. QED BY <2>2, <3>1, ActedAre DEF Intended, Wanted, On
  <2>3. CASE Becoming(a, server[m], server'[m]) /\ ~server[m].here
    BY <2>3 DEF Intended, GoneIsMoved
  <2>4. QED BY <2>1, <2>2, <2>3, CallOutcome DEF Intended, Outcome
<1>3. GoneIsMoved'
  BY <1>2 DEF GoneIsMoved, Wanted, On
<1>4. QED BY <1>1, <1>3

LEMMA CircumstancesCommand ==
    ASSUME Intended,
           \/ TakeCommand \/ ShutDown \/ Connects \/ CannotConnect \/ KeepAction
           \/ RunPlain \/ PlainFails \/ SyncAccount \/ ReplayEnds
    PROVE  Circumstances'
<1> USE DEF fateVars, userVars
<1>t. /\ Typed /\ WorkerTyped /\ worker \in Workers /\ reported \cup lost \subseteq Acted
      /\ queue \in Seq(Good) /\ channel \in Seq(Good) /\ pending \in Seq(Acted)
  BY LineTyped DEF Intended, Typed, Blamed
<1>1. intents' = intents /\ server' = server
  BY DEF TakeCommand, ShutDown, Connects, CannotConnect, KeepAction, RunPlain, PlainFails,
         SyncAccount, ReplayEnds
<1>2. worker'.pc \notin {"replay", "forget"}
  <2>1. CASE TakeCommand \/ ShutDown \/ Connects \/ CannotConnect \/ KeepAction
    <3>1. CASE TakeCommand \/ ShutDown
      BY <1>t, <3>1 DEF TakeCommand, ShutDown, Fresh, Workers
    <3>2. CASE Connects \/ CannotConnect \/ KeepAction
      BY <1>t, <3>2 DEF Connects, CannotConnect, KeepAction, Becomes, Workers
    <3>3. QED BY <2>1, <3>1, <3>2
  <2>2. CASE RunPlain \/ PlainFails \/ SyncAccount
    BY <1>t, <2>2 DEF RunPlain, PlainFails, SyncAccount, Watching, Workers
  <2>3. CASE ReplayEnds
    BY <1>t, <2>3 DEF ReplayEnds, Becomes, Workers
  <2>4. QED BY <2>1, <2>2, <2>3
<1>3. reported' \cup lost' \subseteq Acted
  <2>1. CASE ShutDown
    <3>1. Actions(channel) \subseteq Acted /\ Actions(queue) \subseteq Acted
      BY <1>t, ActionsActed
    <3>2. QED BY <1>t, <2>1, <3>1 DEF ShutDown
  <2>2. CASE KeepAction
    <3>1. worker.cur.id \in Acted
      BY <1>t, <2>2 DEF KeepAction, At, WorkerTyped, Loop, Good
    <3>2. QED BY <1>t, <2>2, <3>1 DEF KeepAction
  <2>3. CASE \/ TakeCommand \/ Connects \/ CannotConnect
             \/ RunPlain \/ PlainFails \/ SyncAccount \/ ReplayEnds
    BY <1>t, <2>3 DEF TakeCommand, Connects, CannotConnect, RunPlain, PlainFails, SyncAccount,
                      ReplayEnds
  <2>4. QED BY <2>1, <2>2, <2>3
<1>4. QED BY <1>1, <1>2, <1>3, CircumstancesKept

LEMMA CircumstancesCall ==
    ASSUME Intended,
           RunAction \/ ActionFails \/ ReplayBegins \/ ReplayOne \/ ForgetOne \/ ReplayFails
    PROVE  Circumstances'
<1> USE DEF fateVars, userVars
<1>t. /\ Typed /\ WorkerTyped /\ worker \in Workers /\ pending \in Seq(Acted)
      /\ intents' = intents /\ reported' \cup lost' \subseteq Acted /\ Acted' = Acted
  BY LineTyped DEF Intended, Typed, Blamed, RunAction, ActionFails, ReplayBegins, ReplayOne,
                   ForgetOne, ReplayFails, Acted
<1>b. Blamed'
  BY <1>t DEF Blamed
<1>1. CASE RunAction \/ ActionFails
  <2>1. worker.cur.id \in Acted
    BY <1>t, <1>1 DEF RunAction, ActionFails, At, WorkerTyped, Loop, Good
  <2>2. MovesAreLast' /\ GoneIsMoved'
    BY <1>t, <1>1, <2>1, GoneByCall DEF RunAction, ActionFails
  <2>3. worker'.pc \notin {"replay", "forget"}
    BY <1>t, <1>1 DEF RunAction, ActionFails, Becomes, Workers
  <2>4. QED BY <1>b, <2>2, <2>3 DEF Circumstances, Replaying
<1>2. CASE ReplayOne \/ ReplayFails
  <2>1. worker.batch = pending /\ worker.batch # <<>> /\ Head(pending) \in Acted
    <3>1. worker.batch = pending /\ worker.batch # <<>>
      BY <1>2 DEF ReplayOne, ReplayFails, At, Intended, Replaying
    <3>2. QED BY <1>t, <3>1
  <2>2. MovesAreLast' /\ GoneIsMoved'
    BY <1>t, <1>2, <2>1, GoneByCall DEF ReplayOne, ReplayFails, Oldest
  <2>3. pending' = pending /\ (worker'.pc = "sync" \/ worker'.batch = worker.batch)
    BY <1>t, <1>2 DEF ReplayOne, ReplayFails, Becomes, Workers
  <2>4. QED BY <1>b, <2>1, <2>2, <2>3 DEF Circumstances, Replaying
<1>3. CASE ReplayBegins
  <2>1. /\ server' = server /\ pending' = pending
        /\ worker'.pc = "sync" \/ worker'.batch = pending
    BY <1>t, <1>3 DEF ReplayBegins, Becomes, Workers
  <2>2. MovesAreLast' /\ GoneIsMoved'
    BY <1>t, <2>1 DEF Intended, MovesAreLast, GoneIsMoved, Wanted, On
  <2>3. QED BY <1>b, <2>1, <2>2 DEF Circumstances, Replaying
<1>4. CASE ForgetOne
  <2>1. server' = server
    BY <1>4 DEF ForgetOne
  <2>2. MovesAreLast' /\ GoneIsMoved'
    BY <1>t, <2>1 DEF Intended, MovesAreLast, GoneIsMoved, Wanted, On
  <2>3. worker.batch = pending /\ pending # <<>>
    BY <1>t, <1>4 DEF ForgetOne, At, Intended, Replaying, WorkerTyped
  <2>4. worker'.pc = "sync" \/ worker'.batch = pending'
    <3>1. CASE pending' = Without(pending, Head(worker.batch)) /\ worker'.batch = Tail(worker.batch)
      BY <1>t, <2>3, <3>1, WithoutHead
    <3>2. CASE worker'.pc = "sync"
      BY <3>2
    <3>3. QED BY <1>t, <1>4, <3>1, <3>2 DEF ForgetOne, Workers, Oldest
  <2>5. QED BY <1>b, <2>2, <2>4 DEF Circumstances, Replaying
<1>5. QED BY <1>1, <1>2, <1>3, <1>4

LEMMA CircumstancesHost ==
    ASSUME Intended,
           \/ ReadChannel \/ Rest \/ Receive \/ IdleReceives \/ IdleInterrupted \/ IdleChanged
           \/ IdleFails \/ GoOffline \/ GoOnline \/ Crash \/ UNCHANGED vars
           \/ \E a \in resolving : Resolve(a) \/ ResolveFails(a)
           \/ \E kind \in RequestKinds : Ask(kind)
    PROVE  Circumstances'
<1> USE DEF fateVars, userVars
<1>t. /\ Typed /\ worker \in Workers /\ reported \cup lost \subseteq Acted
      /\ queue \in Seq(Good) /\ channel \in Seq(Good) /\ InHand \subseteq Acted
      /\ resolving \subseteq Acted
  BY LineTyped DEF Intended, Typed, Blamed
<1>1. CASE Rest \/ Receive \/ IdleInterrupted \/ IdleChanged \/ IdleFails
  <2>1. worker'.pc \notin {"replay", "forget"}
    BY <1>t, <1>1 DEF Rest, Receive, IdleInterrupted, IdleChanged, IdleFails, Becomes, Workers
  <2>2. QED BY <1>t, <1>1, <2>1, CircumstancesKept
       DEF Rest, Receive, IdleInterrupted, IdleChanged, IdleFails
<1>2. CASE ReadChannel \/ GoOffline \/ GoOnline \/ UNCHANGED vars
  BY <1>t, <1>2, CircumstancesKept DEF ReadChannel, GoOffline, GoOnline, vars
<1>3. CASE IdleReceives
  <2>1. worker'.pc = "idle"
    BY <1>t, <1>3 DEF IdleReceives, At, Workers
  <2>2. QED BY <1>t, <1>3, <2>1, CircumstancesKept DEF IdleReceives
<1>4. CASE Crash
  <2>1. InMemory \subseteq Acted
    BY <1>t, ActionsActed DEF InMemory
  <2>2. worker'.pc = "next"
    BY <1>4 DEF Crash, Fresh
  <2>3. QED BY <1>t, <1>4, <2>1, <2>2, CircumstancesKept DEF Crash
<1>5. CASE \E a \in resolving : Resolve(a) \/ ResolveFails(a)
  <2>1. PICK a \in resolving : Resolve(a) \/ ResolveFails(a)
    BY <1>5
  <2>2. reported' \cup lost' \subseteq Acted
    BY <1>t, <2>1 DEF Resolve, ResolveFails
  <2>3. QED BY <2>1, <2>2, CircumstancesKept DEF Resolve, ResolveFails
<1>6. CASE \E kind \in RequestKinds : Ask(kind)
  BY <1>t, <1>6, CircumstancesKept DEF Ask
<1>7. QED BY <1>1, <1>2, <1>3, <1>4, <1>5, <1>6

LEMMA CircumstancesAct ==
    ASSUME Intended, NEW n \in Messages, NEW kind \in ActionKinds, Act(n, kind)
    PROVE  Circumstances'
<1> USE DEF fateVars
<1> DEFINE new == Len(intents) + 1
<1>t. /\ Typed /\ intents \in Seq([msg : Messages, kind : ActionKinds])
      /\ UNCHANGED <<server, worker, pending, reported, lost>>
      /\ intents' = Append(intents, [msg |-> n, kind |-> kind])
  BY DEF Intended, Act, Typed, TypeOK
<1>1. /\ \A a \in Acted : intents'[a] = intents[a] /\ a <= new
      /\ intents'[new].msg = n /\ new <= new
      /\ DOMAIN intents = Acted /\ DOMAIN intents' = Acted \cup {new}
      /\ Acted' = Acted \cup {new}
  BY <1>t DEF Acted
<1> HIDE DEF new
<1>2. MovesAreLast'
  <2>1. \A a \in Acted : intents[a].msg = n => intents[a].kind \notin Moving
    BY <1>1 DEF Act, Moving
  <2>2. QED BY <1>1, <2>1 DEF Intended, MovesAreLast
<1>3. GoneIsMoved'
  BY <1>t, <1>1 DEF Intended, GoneIsMoved, Wanted, On
<1>4. Replaying' /\ Blamed'
  BY <1>t, <1>1 DEF Intended, Replaying, Blamed
<1>5. QED BY <1>2, <1>3, <1>4 DEF Circumstances

LEMMA IntendedInit == Init => Intended
<1> SUFFICES ASSUME Init PROVE Intended
  OBVIOUS
<1>1. Typed
  BY TypeInit
<1>2. /\ InHand = {} /\ Actions(queue) = {} /\ DOMAIN intents = {} /\ worker.pc = "next"
      /\ DOMAIN pending = {} /\ \A m \in Messages : server[m].here
  BY DEF Init, InHand, Fresh, Actions, Request
<1>3. MovesAreLast /\ GoneIsMoved /\ Replaying /\ Blamed
  BY <1>2 DEF Init, MovesAreLast, GoneIsMoved, Replaying, Blamed
<1>4. ASSUME NEW m \in Messages PROVE Tracked(m)
  <2>1. InOrder(m, pending, InHand, queue, channel, resolving)
    <3>1. Sorted(m, queue) /\ Sorted(m, channel)
      BY DEF Init, Sorted, Request
    <3>2. SortedOps(m, pending) /\ Elements(pending) = {}
      BY <1>2 DEF SortedOps, Elements
    <3>3. Actions(channel) = {} /\ resolving = {}
      BY ActionsOfEmpty DEF Init
    <3>4. QED BY <1>2, <3>1, <3>2, <3>3 DEF InOrder, Under, On
  <2>2. On(m, All(pending, InHand, queue, channel, resolving)) = {}
    BY <1>2, ActionsOfEmpty DEF Init, All, On, Elements
  <2>3. Books(m, {}, server[m])
    BY <1>2 DEF Books, NoneSkipped, Wanted, On
  <2>4. QED BY <1>2, <2>1, <2>2, <2>3 DEF Tracked, Line, All, Forgetting
<1>5. QED BY <1>1, <1>3, <1>4 DEF Intended

LEMMA IntendedNext == Intended /\ [Next]_vars => Intended'
<1> SUFFICES ASSUME Intended, [Next]_vars PROVE Intended'
  OBVIOUS
<1>1. Typed'
  BY TypeNext DEF Intended
<1>2. Circumstances' /\ \A m \in Messages : Sound(m)' => Tracked(m)'
  <2>1. CASE HandleCommand
    <3>1. Circumstances'
      BY <2>1, CircumstancesCommand, CircumstancesCall DEF HandleCommand
    <3>2. QED BY <2>1, <3>1, TrackedCalls, TrackedTaken, TrackedRun, TrackedReplay
         DEF HandleCommand
  <2>2. CASE \/ ReadChannel \/ Rest \/ Receive \/ IdleReceives \/ IdleInterrupted \/ IdleChanged
             \/ IdleFails \/ GoOffline \/ GoOnline \/ Crash \/ UNCHANGED vars
             \/ \E a \in resolving : Resolve(a) \/ ResolveFails(a)
             \/ \E kind \in RequestKinds : Ask(kind)
    <3>1. Circumstances'
      BY <2>2, CircumstancesHost
    <3>2. QED BY <2>2, <3>1, TrackedCalls, TrackedTaken, TrackedCrash, TrackedResolve
  <2>3. CASE \E m \in Messages, kind \in ActionKinds : Act(m, kind)
    BY <2>3, CircumstancesAct, TrackedAct
  <2>4. QED BY <2>1, <2>2, <2>3 DEF Next, WorkerStep
<1>3. QED BY <1>1, <1>2 DEF Circumstances, Intended

(* Once everything is done - resolved, sent, applied or replayed, through  *)
(* any loss of the connection - a message on which nothing went wrong, and *)
(* of which no younger action came first, is as the user wanted it last.   *)
THEOREM LastIntentWins == Spec => []LastIntentHolds
<1>1. Intended => LastIntentHolds
  <2> SUFFICES ASSUME Intended, Settled, NEW m \in Messages \ overtaken, On(m, reported \cup lost) = {}
               PROVE  /\ \A a \in Wanted(m, {"flag", "unflag"}) :
                            (\A b \in Wanted(m, {"flag", "unflag"}) : b <= a)
                                => server[m].flag = (intents[a].kind = "flag")
                      /\ Wanted(m, {"move", "delete"}) # {} => ~server[m].here
    BY DEF LastIntentHolds
  <2>1. Tracked(m)
    BY DEF Intended, Sound
  <2>2. On(m, All(pending, InHand, queue, channel, resolving)) = {}
    BY DEF Settled, All, On, InMemory, Elements, Table
  <2>3. Books(m, {}, server[m])
    BY <2>1, <2>2 DEF Tracked, Line, All
  <2>4. \A a \in Wanted(m, {"move", "delete"}) : ~server[m].here
    BY <2>3 DEF Books, Moving
  <2>5. ASSUME NEW a \in Wanted(m, {"flag", "unflag"}),
               \A b \in Wanted(m, {"flag", "unflag"}) : b <= a
        PROVE  server[m].flag = (intents[a].kind = "flag")
    <3>1. \A b \in Wanted(m, Flagging) : b \in Nat /\ a \in Nat
      BY ActedAre DEF Intended, Wanted, On, Flagging
    <3>2. \A b \in Wanted(m, Flagging) : ~(a < b)
      BY <2>5, <3>1 DEF Flagging
    <3>3. QED BY <2>3, <3>2 DEF Books, Flagging
  <2>6. QED BY <2>4, <2>5
<1>2. QED BY <1>1, IntendedInit, IntendedNext, PTL DEF Spec
=============================================================================
