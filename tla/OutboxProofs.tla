---------------------------- MODULE OutboxProofs ----------------------------
(***************************************************************************)
(* What holds of Outbox for any number of messages, workers, failures and  *)
(* retries: types and bounds, no recorded message is lost, the outbox      *)
(* keeps the promise of MailPromise; and what becomes of a message: it is  *)
(* submitted and appended twice only for the reasons in resend and recopy, *)
(* given up only after all attempts, cleared only once it is in the Sent   *)
(* folder, and retried on time.                                            *)
(***************************************************************************)
EXTENDS Outbox, SequenceTheorems, TLAPS

(* What the service, the user, the clock and a crash do.                   *)
HostStep ==
    \/ \E w \in Workers : Spawn(w)
    \/ \E m \in Messages : Send(m)
    \/ Retire \/ RequestDrain \/ Prune \/ Tick \/ Crash

LEMMA NextCases ==
    ASSUME [Next]_vars
    PROVE  \/ UNCHANGED vars
           \/ HostStep
           \/ \E w \in Workers : SendWorkerStep(w) \/ SaveStep(w)
BY DEF Next, HostStep

-----------------------------------------------------------------------------
(* Types.                                                                  *)

(* The shift of backoff stays positive, so that no delay is negative.      *)
LEMMA ShiftPositive == ASSUME NEW n \in 0 .. 19 PROVE 2 ^ n \in Nat \ {0}
<1> DEFINE P(k) == 2 ^ k \in Nat \ {0}
<1>1. n \in {0, 1, 2, 3, 4, 5, 6, 7, 8, 9, 10, 11, 12, 13, 14, 15, 16, 17, 18, 19}
  OBVIOUS
<1>2. /\ P(0) /\ P(1) /\ P(2) /\ P(3) /\ P(4) /\ P(5) /\ P(6) /\ P(7) /\ P(8)
      /\ P(9) /\ P(10) /\ P(11) /\ P(12) /\ P(13) /\ P(14) /\ P(15) /\ P(16)
      /\ P(17) /\ P(18) /\ P(19)
  OBVIOUS
<1> HIDE DEF P
<1>3. P(n)
  BY <1>1, <1>2, Zenon
<1>4. QED BY <1>3 DEF P

(* A delay is positive and never exceeds MAX_BACKOFF_SECS, however many    *)
(* attempts failed (outbox.rs, backoff).                                   *)
THEOREM BackoffBounded ==
    ASSUME NEW n \in Int PROVE Backoff(n) \in 1 .. MaxBackoff
<1> DEFINE shift == 2 ^ (Clamp(n, 1, 20) - 1)
<1>1. Clamp(n, 1, 20) - 1 \in 0 .. 19
  BY DEF Clamp
<1>2. shift \in Nat \ {0}
  BY <1>1, ShiftPositive
<1> HIDE DEF shift
<1>3. BaseBackoff * shift \in Nat \ {0}
  BY <1>2, OutboxAssumption
<1>4. QED BY <1>3, OutboxAssumption DEF Backoff, shift

(* A row that is missing is NoRow, and a pending one has an attempt left.  *)
TableTyped ==
    /\ outbox \in [Messages -> Rows]
    /\ \A m \in Messages :
          /\ outbox[m].state = "none" => outbox[m] = NoRow
          /\ IsPending(m) => outbox[m].attempts < MaxAttempts

(* Every entry that a pass may still submit has an attempt left, and a     *)
(* thread at work on an entry has one.                                     *)
BusyPcs == {"sending", "accepted", "rejected", "enqueue"}
GoodWorkers ==
    {x \in WorkerStates :
        /\ \A e \in x.batch : e.attempts < MaxAttempts
        /\ x.pc \in BusyPcs => x.cur \in Entries /\ x.cur.attempts < MaxAttempts}
GoodSavers == {x \in SaverStates : x.pc \in {"clear", "unlink"} => x.cur \in Messages}

Typed ==
    /\ TypeOK
    /\ TableTyped
    /\ worker \in [Workers -> GoodWorkers]
    /\ saver \in [Workers -> GoodSavers]

LEMMA OffIsGood ==
    /\ Off \in GoodWorkers
    /\ [Off EXCEPT !.pc = "timer", !.mode = "Due"] \in GoodWorkers
    /\ [Off EXCEPT !.pc = "drain"] \in GoodWorkers
    /\ SaverOff \in GoodSavers
<1> USE DEF Off, GoodWorkers, WorkerStates, InPass, NoTimer, BusyPcs
<1>1. \A pc \in {"off", "drain", "timer"}, mode \in {"Force", "Due"} :
        [pc |-> pc, mode |-> mode, batch |-> {}, cur |-> None, timer |-> -1, lag |-> 0]
          \in GoodWorkers
  BY OutboxAssumption
<1>2. Off \in GoodWorkers
  BY <1>1
<1>3. [Off EXCEPT !.pc = "timer", !.mode = "Due"] \in GoodWorkers
  BY ZenonT(40), <1>1
<1>4. [Off EXCEPT !.pc = "drain"] \in GoodWorkers
  BY <1>1
<1>5. SaverOff \in GoodSavers
  BY DEF SaverOff, GoodSavers, SaverStates
<1>6. QED BY <1>2, <1>3, <1>4, <1>5

LEMMA GoodIsTyped ==
    /\ GoodWorkers \subseteq WorkerStates
    /\ GoodSavers \subseteq SaverStates
BY DEF GoodWorkers, GoodSavers

(* What UpdateOutbox does to a well-formed table.                          *)
LEMMA UpdateOutboxTyped ==
    ASSUME TableTyped, NEW m \in Messages,
           NEW state \in {"queued", "sending", "sent", "failed"},
           NEW attempts \in 0 .. MaxAttempts, NEW wait \in 0 .. MaxBackoff,
           state \in {"queued", "sending"} => attempts < MaxAttempts,
           UpdateOutbox(m, state, attempts, wait)
    PROVE  /\ TableTyped'
           /\ \A n \in Messages :
                 /\ outbox'[n] = NoRow <=> outbox[n] = NoRow
                 /\ n # m => outbox'[n] = outbox[n]
           /\ outbox[m] # NoRow =>
                 outbox'[m] = [state |-> state, attempts |-> attempts, wait |-> wait]
<1> DEFINE row == [state |-> state, attempts |-> attempts, wait |-> wait]
<1>1. row \in Rows /\ row # NoRow /\ row.state = state /\ row.attempts = attempts
  BY DEF Rows, NoRow
<1>2. outbox' = IF outbox[m] = NoRow THEN outbox ELSE [outbox EXCEPT ![m] = row]
  BY DEF UpdateOutbox
<1> HIDE DEF row
<1>3. CASE outbox[m] = NoRow
  BY <1>2, <1>3 DEF TableTyped, IsPending
<1>4. CASE outbox[m] # NoRow
  BY <1>1, <1>2, <1>4 DEF TableTyped, IsPending, row
<1>5. QED BY <1>3, <1>4

(* Types are kept by the service, the window, the clock and crashes.       *)
LEMMA TypedHost ==
    ASSUME Typed, HostStep
    PROVE  Typed'
<1> USE DEF Typed, TypeOK, hostVars, smtpVars, imapVars, logVars
<1>1. ASSUME NEW w \in Workers, Spawn(w) PROVE Typed'
  <2>1. worker' \in [Workers -> GoodWorkers]
    BY <1>1, OffIsGood DEF Spawn
  <2>2. saver' \in [Workers -> GoodSavers]
    <3>1. \A x \in GoodSavers : [x EXCEPT !.pc = "idle"] \in GoodSavers
      BY DEF GoodSavers, SaverStates
    <3>2. QED BY <1>1, <3>1 DEF Spawn
  <2>3. QED BY <1>1, <2>1, <2>2, GoodIsTyped DEF Spawn, TableTyped, IsPending
<1>2. ASSUME NEW m \in Messages, Send(m) PROVE Typed'
  BY <1>2 DEF Send, Post, Commands, TableTyped, IsPending
<1>3. CASE Retire
  BY <1>3 DEF Retire, Post, Fault, Commands, TableTyped, IsPending
<1>4. CASE RequestDrain
  BY <1>4 DEF RequestDrain, Post, Commands, TableTyped, IsPending
<1>5. CASE Prune
  <2>1. TableTyped'
    BY <1>5, OutboxAssumption DEF Prune, TableTyped, IsPending, NoRow, Rows
  <2>2. account' = FALSE /\ pruned' \subseteq Messages /\ faults' \in Nat
    BY <1>5 DEF Prune, Fault
  <2>3. outbox' \in [Messages -> Rows]
    BY <2>1 DEF TableTyped
  <2>4. /\ UNCHANGED <<files, storeOpen, current, inbox, worker, saver, handed, recorded>>
        /\ UNCHANGED <<delivered, resend, copies, recopy>>
    BY <1>5 DEF Prune
  <2>5. QED BY <2>1, <2>2, <2>3, <2>4
<1>6. CASE Tick
  <2>1. TableTyped'
    <3>1. ASSUME NEW x \in Rows
          PROVE  LET y == [x EXCEPT !.wait = Less(@, 1)] IN
                 /\ y \in Rows /\ y.state = x.state /\ y.attempts = x.attempts
                 /\ x = NoRow => y = NoRow
      <4>1. x.wait \in 0 .. MaxBackoff
        BY DEF Rows
      <4>2. Less(x.wait, 1) \in 0 .. MaxBackoff /\ Less(0, 1) = 0
        BY <4>1, OutboxAssumption DEF Less
      <4>3. PICK y \in Rows : y = [x EXCEPT !.wait = Less(x.wait, 1)]
        BY <4>2 DEF Rows
      <4>4. y.state = x.state /\ y.attempts = x.attempts /\ y.wait = Less(x.wait, 1)
        BY <4>3 DEF Rows
      <4>5. x = NoRow => y = NoRow
        BY <4>2, <4>4 DEF Rows, NoRow
      <4>6. QED BY <4>3, <4>4, <4>5
    <3>2. \A n \in Messages : outbox'[n] = [outbox[n] EXCEPT !.wait = Less(@, 1)]
      BY <1>6 DEF Tick
    <3>3. outbox' \in [Messages -> Rows]
      BY <1>6, <3>1 DEF Tick, TableTyped
    <3>4. \A n \in Messages :
             /\ outbox'[n].state = outbox[n].state
             /\ outbox'[n].attempts = outbox[n].attempts
             /\ outbox[n] = NoRow => outbox'[n] = NoRow
      BY <3>1, <3>2 DEF TableTyped
    <3>5. QED BY <3>3, <3>4 DEF TableTyped, IsPending
  <2>2. worker' \in [Workers -> GoodWorkers]
    <3>1. ASSUME NEW x \in GoodWorkers, NEW t \in -1 .. MaxBackoff, NEW l \in 0 .. MaxBackoff
          PROVE  [x EXCEPT !.timer = t, !.lag = l] \in GoodWorkers
      BY DEF GoodWorkers, WorkerStates, BusyPcs
    <3>2. ASSUME NEW x \in GoodWorkers
          PROVE  [x EXCEPT !.timer = IF @ > 0 THEN @ - 1 ELSE @,
                           !.lag = IF x.pc \in InPass /\ @ < MaxBackoff THEN @ + 1 ELSE @]
                   \in GoodWorkers
      <4>1. x.timer \in -1 .. MaxBackoff /\ x.lag \in 0 .. MaxBackoff
        BY DEF GoodWorkers, WorkerStates
      <4>2. MaxBackoff \in Nat
        BY OutboxAssumption
      <4>3. /\ (IF x.timer > 0 THEN x.timer - 1 ELSE x.timer) \in -1 .. MaxBackoff
            /\ (IF x.pc \in InPass /\ x.lag < MaxBackoff THEN x.lag + 1 ELSE x.lag)
                 \in 0 .. MaxBackoff
        BY <4>1, <4>2
      <4>4. QED BY <3>1, <4>3
    <3>3. QED BY <1>6, <3>2 DEF Tick
  <2>3. QED BY <1>6, <2>1, <2>2, GoodIsTyped DEF Tick, TableTyped
<1>7. CASE Crash
  <2>1. worker' \in [Workers -> GoodWorkers] /\ saver' \in [Workers -> GoodSavers]
    BY <1>7, OffIsGood DEF Crash
  <2>2. resend' \subseteq Messages
    BY <1>7 DEF Crash, GoodWorkers, Entries, BusyPcs
  <2>3. recopy' \subseteq Messages
    BY <1>7 DEF Crash, Uncleared
  <2>4. QED BY <1>7, <2>1, <2>2, <2>3, GoodIsTyped DEF Crash, Fault, TableTyped, IsPending
<1>8. QED BY <1>1, <1>2, <1>3, <1>4, <1>5, <1>6, <1>7 DEF HostStep

(* An entry that a worker took from the store is worth an attempt.         *)
LEMMA EntryTyped ==
    ASSUME Typed, NEW w \in Workers
    PROVE  /\ worker[w] \in GoodWorkers /\ worker[w] \in WorkerStates
           /\ worker[w].batch \subseteq Entries
           /\ \A e \in worker[w].batch :
                 e.msg \in Messages /\ e.attempts \in 0 .. MaxAttempts /\ e.attempts < MaxAttempts
           /\ worker[w].pc \in BusyPcs =>
                 /\ worker[w].cur \in Entries /\ worker[w].cur.msg \in Messages
                 /\ worker[w].cur.attempts \in 0 .. MaxAttempts
                 /\ worker[w].cur.attempts < MaxAttempts
BY DEF Typed, GoodWorkers, WorkerStates, Entries

(* The next delay, shortened by the time the pass took, is a wait.         *)
LEMMA DelayTyped ==
    ASSUME NEW n \in Int, NEW lag \in 0 .. MaxBackoff
    PROVE  Less(Backoff(n), lag) \in 0 .. MaxBackoff
<1>1. MaxBackoff \in Nat /\ Backoff(n) \in 1 .. MaxBackoff
  BY BackoffBounded, OutboxAssumption
<1>2. QED BY <1>1 DEF Less

LEMMA Bounds ==
    /\ MaxAttempts \in Nat \ {0} /\ MaxBackoff \in Nat \ {0}
    /\ 0 \in 0 .. MaxAttempts /\ 0 \in 0 .. MaxBackoff /\ -1 \in -1 .. MaxBackoff
    /\ None \notin Messages /\ None \notin Workers /\ None \notin Entries
BY OutboxAssumption DEF Entries

(* How the steps of a send worker change its record.                       *)
LEMMA GoodWorkerChanges ==
    ASSUME NEW x \in GoodWorkers
    PROVE  /\ \A batch \in SUBSET Entries :
                 (\A e \in batch : e.attempts < MaxAttempts) =>
                    [x EXCEPT !.pc = "pass", !.lag = 0, !.batch = batch] \in GoodWorkers
           /\ \A e \in x.batch :
                 /\ [x EXCEPT !.batch = Served(@, e)] \in GoodWorkers
                 /\ [x EXCEPT !.pc = "sending", !.cur = e, !.batch = Served(@, e)] \in GoodWorkers
           /\ x.pc = "sending" =>
                 /\ [x EXCEPT !.pc = "accepted"] \in GoodWorkers
                 /\ [x EXCEPT !.pc = "rejected"] \in GoodWorkers
           /\ [x EXCEPT !.pc = "pass", !.cur = None] \in GoodWorkers
           /\ [x EXCEPT !.pc = "drain", !.cur = None] \in GoodWorkers
           /\ [x EXCEPT !.pc = "drain", !.timer = NoTimer] \in GoodWorkers
           /\ \A sleep \in -1 .. MaxBackoff :
                 [x EXCEPT !.pc = "select", !.timer = sleep] \in GoodWorkers
<1> USE DEF GoodWorkers, WorkerStates, InPass, BusyPcs
<1>1. ASSUME NEW batch \in SUBSET Entries, \A e \in batch : e.attempts < MaxAttempts
      PROVE  [x EXCEPT !.pc = "pass", !.lag = 0, !.batch = batch] \in GoodWorkers
  BY <1>1, Bounds
<1>2. ASSUME NEW e \in x.batch
      PROVE  /\ [x EXCEPT !.batch = Served(@, e)] \in GoodWorkers
             /\ [x EXCEPT !.pc = "sending", !.cur = e, !.batch = Served(@, e)] \in GoodWorkers
  BY DEF Served
<1>3. ASSUME x.pc = "sending"
      PROVE  /\ [x EXCEPT !.pc = "accepted"] \in GoodWorkers
             /\ [x EXCEPT !.pc = "rejected"] \in GoodWorkers
  <2>1. [x EXCEPT !.pc = "accepted"] \in GoodWorkers
    BY <1>3
  <2>2. [x EXCEPT !.pc = "rejected"] \in GoodWorkers
    BY <1>3
  <2>3. QED BY <2>1, <2>2
<1>4. /\ [x EXCEPT !.pc = "pass", !.cur = None] \in GoodWorkers
      /\ [x EXCEPT !.pc = "drain", !.cur = None] \in GoodWorkers
  OBVIOUS
<1>5. ASSUME NEW sleep \in -1 .. MaxBackoff
      PROVE  /\ [x EXCEPT !.pc = "select", !.timer = sleep] \in GoodWorkers
             /\ [x EXCEPT !.pc = "drain", !.timer = sleep] \in GoodWorkers
  OBVIOUS
<1>6. [x EXCEPT !.pc = "drain", !.timer = NoTimer] \in GoodWorkers
  BY <1>5, Bounds DEF NoTimer
<1> HIDE DEF GoodWorkers
<1>7. QED BY <1>1, <1>2, <1>3, <1>4, <1>5, <1>6

LEMMA EnqueuerIsGood ==
    ASSUME NEW m \in Messages
    PROVE  [Off EXCEPT !.pc = "enqueue", !.cur = [msg |-> m, attempts |-> 0]] \in GoodWorkers
<1> DEFINE e == [msg |-> m, attempts |-> 0]
<1>1. e \in Entries /\ e.attempts = 0
  BY Bounds DEF Entries
<1> HIDE DEF e
<1>2. ASSUME NEW x \in GoodWorkers
      PROVE  [x EXCEPT !.pc = "enqueue", !.cur = e] \in GoodWorkers
  <2>1. e.attempts < MaxAttempts
    BY <1>1, Bounds
  <2>2. QED BY <1>1, <2>1 DEF GoodWorkers, WorkerStates, BusyPcs
<1>3. [Off EXCEPT !.pc = "enqueue", !.cur = e] \in GoodWorkers
  BY <1>2, OffIsGood
<1>4. QED BY <1>3 DEF e

LEMMA NewRow ==
    /\ [NoRow EXCEPT !.state = "queued"] \in Rows
    /\ [NoRow EXCEPT !.state = "queued"] = [state |-> "queued", attempts |-> 0, wait |-> 0]
BY Bounds DEF NoRow, Rows

LEMMA CountTyped ==
    ASSUME NEW f \in [Messages -> Nat], NEW k \in Messages
    PROVE  [f EXCEPT ![k] = @ + 1] \in [Messages -> Nat]
OBVIOUS

(* Types are kept by a send worker.                                        *)
LEMMA TypedSendWorker ==
    ASSUME Typed, NEW w \in Workers, SendWorkerStep(w)
    PROVE  Typed'
<1> USE DEF Typed, TypeOK, hostVars, smtpVars, imapVars, logVars
<1> DEFINE here == worker[w]
<1>1. CASE DrainSelect(w)
  <2>1. \A m \in Selected(w) : outbox[m].attempts \in 0 .. MaxAttempts /\ outbox[m].attempts < MaxAttempts
    BY DEF Selected, TableTyped, Rows
  <2> DEFINE batch == {[msg |-> m, attempts |-> outbox[m].attempts] : m \in Selected(w)}
  <2>2. batch \subseteq Entries /\ \A e \in batch : e.attempts < MaxAttempts
    BY <2>1 DEF Entries, Selected
  <2> HIDE DEF batch
  <2>3. [here EXCEPT !.pc = "pass", !.lag = 0, !.batch = batch] \in GoodWorkers
    BY <2>2, EntryTyped, GoodWorkerChanges
  <2>4. worker' \in [Workers -> GoodWorkers]
    BY <1>1, <2>3 DEF DrainSelect, batch
  <2>5. resend' \subseteq Messages
    BY <1>1 DEF DrainSelect, Selected
  <2>6. QED BY <1>1, <2>4, <2>5, GoodIsTyped DEF DrainSelect, StoreWorks, TableTyped, IsPending
<1>2. CASE PassAborts(w)
  <2>1. worker' \in [Workers -> GoodWorkers]
    BY <1>2, OffIsGood DEF PassAborts, EndPass
  <2>2. resend' \subseteq Messages
    BY <1>2, EntryTyped DEF PassAborts, BusyPcs
  <2>3. QED BY <1>2, <2>1, <2>2, GoodIsTyped
            DEF PassAborts, StoreFails, Fault, TableTyped, IsPending
<1>3. CASE FinishPass(w)
  <2>1. worker' \in [Workers -> GoodWorkers]
    BY <1>3, OffIsGood DEF FinishPass, EndPass
  <2>2. QED BY <1>3, <2>1, GoodIsTyped DEF FinishPass, TableTyped, IsPending
<1>4. ASSUME NEW e \in here.batch, SubmitUnusable(w, e) PROVE Typed'
  <2>1. TableTyped'
    BY <1>4, EntryTyped, UpdateOutboxTyped, Bounds DEF SubmitUnusable
  <2>2. [here EXCEPT !.batch = Served(@, e)] \in GoodWorkers
    BY EntryTyped, GoodWorkerChanges
  <2>3. worker' \in [Workers -> GoodWorkers]
    BY <1>4, <2>2 DEF SubmitUnusable
  <2>4. faults' \in Nat
    BY <1>4 DEF SubmitUnusable, StoreWorks, Fault
  <2>5. QED BY <1>4, <2>1, <2>3, <2>4, GoodIsTyped DEF SubmitUnusable, TableTyped
<1>5. ASSUME NEW e \in here.batch, SubmitMark(w, e) PROVE Typed'
  <2>1. TableTyped'
    BY <1>5, EntryTyped, UpdateOutboxTyped, Bounds DEF SubmitMark
  <2>2. [here EXCEPT !.pc = "sending", !.cur = e, !.batch = Served(@, e)] \in GoodWorkers
    BY EntryTyped, GoodWorkerChanges
  <2>3. worker' \in [Workers -> GoodWorkers]
    BY <1>5, <2>2 DEF SubmitMark
  <2>4. QED BY <1>5, <2>1, <2>3, GoodIsTyped DEF SubmitMark, StoreWorks, TableTyped
<1>6. CASE TransportAccepts(w)
  <2>1. [here EXCEPT !.pc = "accepted"] \in GoodWorkers
    BY <1>6, EntryTyped, GoodWorkerChanges DEF TransportAccepts
  <2>2. worker' \in [Workers -> GoodWorkers]
    BY <1>6, <2>1 DEF TransportAccepts
  <2>3. delivered' \in [Messages -> Nat]
    BY <1>6, EntryTyped, CountTyped DEF TransportAccepts, BusyPcs
  <2>4. QED BY <1>6, <2>2, <2>3, GoodIsTyped DEF TransportAccepts, TableTyped, IsPending
<1>7. CASE TransportFails(w)
  <2>1. [here EXCEPT !.pc = "rejected"] \in GoodWorkers
    BY <1>7, EntryTyped, GoodWorkerChanges DEF TransportFails
  <2>2. worker' \in [Workers -> GoodWorkers]
    BY <1>7, <2>1 DEF TransportFails
  <2>3. here.cur.msg \in Messages
    BY <1>7, EntryTyped DEF TransportFails, BusyPcs
  <2>4. delivered' \in [Messages -> Nat] /\ resend' \subseteq Messages /\ faults' \in Nat
    <3>1. CASE UNCHANGED <<faults, smtpVars>>
      BY <3>1
    <3>2. CASE /\ Fault("ambiguous")
               /\ delivered' = [delivered EXCEPT ![here.cur.msg] = @ + 1]
               /\ resend' = resend \cup {here.cur.msg}
      BY <2>3, <3>2, CountTyped DEF Fault
    <3>3. QED BY <1>7, <3>1, <3>2 DEF TransportFails
  <2>5. QED BY <1>7, <2>2, <2>4, GoodIsTyped DEF TransportFails, TableTyped, IsPending
<1>8. CASE RecordSent(w)
  <2>1. here.pc \in BusyPcs
    BY <1>8 DEF RecordSent, BusyPcs
  <2>2. TableTyped'
    BY <1>8, <2>1, EntryTyped, UpdateOutboxTyped, Bounds DEF RecordSent
  <2>3. [here EXCEPT !.pc = "pass", !.cur = None] \in GoodWorkers
    BY EntryTyped, GoodWorkerChanges
  <2>4. worker' \in [Workers -> GoodWorkers]
    BY <1>8, <2>3 DEF RecordSent
  <2>5. QED BY <1>8, <2>2, <2>4, GoodIsTyped DEF RecordSent, StoreWorks, TableTyped
<1>9. CASE Reschedule(w)
  <2> DEFINE n == here.cur.attempts + 1
             delay == Less(Backoff(n), here.lag)
  <2>1. /\ here.cur.msg \in Messages /\ n \in 0 .. MaxAttempts
        /\ ~Exhausted(n) => n < MaxAttempts
    BY SMTT(30), <1>9, EntryTyped, Bounds DEF Reschedule, BusyPcs, Exhausted
  <2>2. delay \in 0 .. MaxBackoff /\ 0 \in 0 .. MaxBackoff
    <3>1. here.lag \in 0 .. MaxBackoff
      BY EntryTyped DEF WorkerStates
    <3>2. n \in Int
      BY <2>1, Bounds
    <3>3. QED BY <3>1, <3>2, DelayTyped, Bounds
  <2>3. IF Exhausted(n) THEN UpdateOutbox(here.cur.msg, "failed", n, 0)
                        ELSE UpdateOutbox(here.cur.msg, "queued", n, delay)
    BY <1>9 DEF Reschedule
  <2> HIDE DEF n, delay
  <2>4. TableTyped'
    BY <2>1, <2>2, <2>3, UpdateOutboxTyped
  <2>5. [here EXCEPT !.pc = "pass", !.cur = None] \in GoodWorkers
    BY EntryTyped, GoodWorkerChanges
  <2>6. worker' \in [Workers -> GoodWorkers]
    BY <1>9, <2>5 DEF Reschedule
  <2>7. QED BY <1>9, <2>4, <2>6, GoodIsTyped DEF Reschedule, StoreWorks, TableTyped
<1>10. CASE NextRetry(w)
  <2>1. \A sleep \in -1 .. MaxBackoff : [here EXCEPT !.pc = "select", !.timer = sleep] \in GoodWorkers
    BY EntryTyped, GoodWorkerChanges
  <2>2. worker' \in [Workers -> GoodWorkers]
    BY <1>10, <2>1 DEF NextRetry
  <2>3. faults' \in Nat
    BY <1>10 DEF NextRetry, StoreWorks, StoreFails, Fault
  <2>4. QED BY <1>10, <2>2, <2>3, GoodIsTyped DEF NextRetry, TableTyped, IsPending
<1>11. CASE TimerFires(w)
  <2>1. [here EXCEPT !.pc = "drain", !.timer = NoTimer] \in GoodWorkers
    BY EntryTyped, GoodWorkerChanges
  <2>2. worker' \in [Workers -> GoodWorkers]
    BY <1>11, <2>1 DEF TimerFires
  <2>3. QED BY <1>11, <2>2, GoodIsTyped DEF TimerFires, TableTyped, IsPending
<1>12. ASSUME NEW kind \in {"Send", "Drain", "Shutdown"}, Receive(w, kind)
       PROVE  /\ inbox' \in [Workers -> Seq(Commands)]
              /\ kind = "Send" => Head(inbox[w]).raw \in Messages
  <2>1. inbox[w] \in Seq(Commands) /\ inbox[w] # <<>>
    BY <1>12 DEF Receive
  <2>2. Head(inbox[w]) \in Commands /\ Tail(inbox[w]) \in Seq(Commands)
    BY <2>1
  <2>3. QED BY <1>12, <2>2 DEF Receive, Commands
<1>13. CASE ReceiveDrain(w)
  <2>1. worker' \in [Workers -> GoodWorkers]
    BY <1>13, OffIsGood DEF ReceiveDrain
  <2>2. QED BY <1>12, <1>13, <2>1, GoodIsTyped DEF ReceiveDrain, TableTyped, IsPending
<1>14. CASE ReceiveSend(w)
  <2> DEFINE m == Head(inbox[w]).raw
  <2>1. inbox' \in [Workers -> Seq(Commands)] /\ m \in Messages
    BY <1>12, <1>14 DEF ReceiveSend
  <2>2. [Off EXCEPT !.pc = "enqueue", !.cur = [msg |-> m, attempts |-> 0]] \in GoodWorkers
    BY <2>1, EnqueuerIsGood
  <2>3. worker' \in [Workers -> GoodWorkers]
    BY <1>14, <2>2, OffIsGood DEF ReceiveSend
  <2>4. files' \subseteq Messages /\ faults' \in Nat
    BY <1>14, <2>1 DEF ReceiveSend, Fault
  <2>5. QED BY <1>14, <2>1, <2>3, <2>4, GoodIsTyped DEF ReceiveSend, TableTyped, IsPending
<1>15. CASE Enqueue(w)
  <2>1. here.cur.msg \in Messages
    BY <1>15, EntryTyped DEF Enqueue, BusyPcs
  <2>2. [here EXCEPT !.pc = "drain", !.cur = None] \in GoodWorkers
    BY EntryTyped, GoodWorkerChanges
  <2>3. worker' \in [Workers -> GoodWorkers]
    BY <1>15, <2>2 DEF Enqueue
  <2> DEFINE row == [NoRow EXCEPT !.state = "queued"]
  <2>4. row \in Rows /\ row.state = "queued" /\ row.attempts = 0
    BY NewRow
  <2>5. outbox' = outbox \/ outbox' = [outbox EXCEPT ![here.cur.msg] = row]
    BY <1>15 DEF Enqueue
  <2> HIDE DEF row
  <2>8. TableTyped'
    <3>1. row.attempts < MaxAttempts
      BY <2>4, Bounds
    <3>2. CASE outbox' = outbox
      BY <3>2 DEF TableTyped, IsPending
    <3>3. CASE outbox' = [outbox EXCEPT ![here.cur.msg] = row]
      <4>1. outbox' \in [Messages -> Rows]
        BY <2>1, <2>4, <3>3
      <4>2. \A n \in Messages : outbox'[n] = IF n = here.cur.msg THEN row ELSE outbox[n]
        BY <2>1, <3>3
      <4>3. QED BY <2>4, <3>1, <4>1, <4>2 DEF TableTyped, IsPending
    <3>4. QED BY <2>5, <3>2, <3>3
  <2>6. files' \subseteq Messages /\ recorded' \subseteq Messages /\ faults' \in Nat
    BY <1>15, <2>1 DEF Enqueue, StoreWorks, StoreFails, Fault
  <2>7. QED BY <1>15, <2>3, <2>6, <2>8, GoodIsTyped DEF Enqueue, TableTyped
<1>16. CASE ReceiveShutdown(w)
  <2>1. worker' \in [Workers -> GoodWorkers]
    BY <1>16, OffIsGood DEF ReceiveShutdown
  <2>2. QED BY <1>12, <1>16, <2>1, GoodIsTyped DEF ReceiveShutdown, TableTyped, IsPending
<1>17. QED BY <1>1, <1>2, <1>3, <1>4, <1>5, <1>6, <1>7, <1>8, <1>9, <1>10, <1>11, <1>13,
            <1>14, <1>15, <1>16 DEF SendWorkerStep

(* How the steps of an account worker change its record.                   *)
LEMMA GoodSaverChanges ==
    ASSUME NEW x \in GoodSavers
    PROVE  /\ \A batch \in SUBSET Messages :
                 x.pc = "idle" => [x EXCEPT !.pc = "saving", !.batch = batch] \in GoodSavers
           /\ \A m \in x.batch :
                 /\ [x EXCEPT !.pc = "clear", !.cur = m, !.batch = Served(@, m)] \in GoodSavers
                 /\ [x EXCEPT !.batch = Served(@, m)] \in GoodSavers
           /\ x.pc = "clear" => [x EXCEPT !.pc = "unlink"] \in GoodSavers
           /\ [x EXCEPT !.pc = "saving", !.cur = None] \in GoodSavers
           /\ [x EXCEPT !.pc = "idle"] \in GoodSavers
           /\ [x EXCEPT !.pc = "off"] \in GoodSavers
<1> USE DEF GoodSavers, SaverStates
<1>1. ASSUME NEW batch \in SUBSET Messages
      PROVE  [x EXCEPT !.pc = "saving", !.batch = batch] \in GoodSavers
  OBVIOUS
<1>2. ASSUME NEW m \in x.batch
      PROVE  /\ [x EXCEPT !.pc = "clear", !.cur = m, !.batch = Served(@, m)] \in GoodSavers
             /\ [x EXCEPT !.batch = Served(@, m)] \in GoodSavers
  BY DEF Served
<1>3. ASSUME x.pc = "clear" PROVE [x EXCEPT !.pc = "unlink"] \in GoodSavers
  BY <1>3
<1>4. /\ [x EXCEPT !.pc = "saving", !.cur = None] \in GoodSavers
      /\ [x EXCEPT !.pc = "idle"] \in GoodSavers
      /\ [x EXCEPT !.pc = "off"] \in GoodSavers
  OBVIOUS
<1> HIDE DEF GoodSavers
<1>5. QED BY <1>1, <1>2, <1>3, <1>4

(* Types are kept by an account worker.                                    *)
LEMMA TypedSaver ==
    ASSUME Typed, NEW w \in Workers, SaveStep(w)
    PROVE  Typed'
<1> USE DEF Typed, TypeOK, hostVars, smtpVars, imapVars, logVars
<1> DEFINE here == saver[w]
<1>1. here \in GoodSavers
  OBVIOUS
<1>2. CASE SaveSelect(w)
  <2>1. saver' \in [Workers -> GoodSavers]
    BY <1>1, <1>2, GoodSaverChanges DEF SaveSelect, ToSave
  <2>2. recopy' \subseteq Messages
    BY <1>2 DEF SaveSelect, ToSave
  <2>3. QED BY <1>2, <2>1, <2>2, GoodIsTyped DEF SaveSelect, StoreWorks, TableTyped, IsPending
<1>3. CASE ClearRow(w)
  <2>1. saver' \in [Workers -> GoodSavers]
    BY <1>1, <1>3, GoodSaverChanges DEF ClearRow
  <2>2. outbox' = outbox \/ outbox' = [outbox EXCEPT ![here.cur] = NoRow]
    BY <1>3 DEF ClearRow
  <2>3. TableTyped'
    <3>1. CASE outbox' = outbox
      BY <3>1 DEF TableTyped, IsPending
    <3>2. CASE outbox' = [outbox EXCEPT ![here.cur] = NoRow]
      <4>1. NoRow \in Rows
        BY Bounds DEF NoRow, Rows
      <4>2. QED BY <3>2, <4>1 DEF TableTyped, IsPending, NoRow
    <3>3. QED BY <2>2, <3>1, <3>2
  <2>4. faults' \in Nat
    BY <1>3 DEF ClearRow, StoreWorks, StoreFails, Fault
  <2>5. QED BY <1>3, <2>1, <2>3, <2>4, GoodIsTyped DEF ClearRow, TableTyped
<1>4. CASE ClearFile(w)
  <2>1. saver' \in [Workers -> GoodSavers]
    BY <1>1, <1>4, GoodSaverChanges DEF ClearFile
  <2>2. files' \subseteq Messages /\ recopy' \subseteq Messages /\ faults' \in Nat
    BY <1>4 DEF ClearFile, Fault, Uncleared
  <2>3. QED BY <1>4, <2>1, <2>2, GoodIsTyped DEF ClearFile, TableTyped, IsPending
<1>5. CASE SaveEnds(w)
  <2>1. saver' \in [Workers -> GoodSavers]
    BY <1>1, <1>5, GoodSaverChanges DEF SaveEnds
  <2>2. QED BY <1>5, <2>1, GoodIsTyped DEF SaveEnds, TableTyped, IsPending
<1>6. CASE AccountWorkerEnds(w)
  <2>1. saver' \in [Workers -> GoodSavers]
    BY <1>1, <1>6, GoodSaverChanges DEF AccountWorkerEnds
  <2>2. QED BY <1>6, <2>1, GoodIsTyped DEF AccountWorkerEnds, TableTyped, IsPending
<1>7. ASSUME NEW m \in here.batch, SaveTaken(w, m) PROVE Typed'
  <2>1. saver' \in [Workers -> GoodSavers]
    BY <1>1, <1>7, GoodSaverChanges DEF SaveTaken
  <2>2. m \in Messages
    BY <1>1 DEF GoodSavers, SaverStates
  <2>3. copies' \in [Messages -> Nat] /\ faults' \in Nat
    BY <1>7, <2>2, CountTyped DEF SaveTaken, Fault
  <2>4. QED BY <1>7, <2>1, <2>3, GoodIsTyped DEF SaveTaken, TableTyped, IsPending
<1>8. ASSUME NEW m \in here.batch, SaveRefused(w, m) PROVE Typed'
  <2>1. saver' \in [Workers -> GoodSavers]
    BY <1>1, <1>8, GoodSaverChanges DEF SaveRefused
  <2>2. m \in Messages
    BY <1>1 DEF GoodSavers, SaverStates
  <2>3. copies' \in [Messages -> Nat] /\ recopy' \subseteq Messages /\ faults' \in Nat
    BY <1>8, <2>2, CountTyped DEF SaveRefused, Fault
  <2>4. QED BY <1>8, <2>1, <2>3, GoodIsTyped DEF SaveRefused, TableTyped, IsPending
<1>9. QED BY <1>2, <1>3, <1>4, <1>5, <1>6, <1>7, <1>8 DEF SaveStep

LEMMA TypedInit == Init => Typed
<1> SUFFICES ASSUME Init PROVE Typed
  OBVIOUS
<1>1. NoRow \in Rows
  BY Bounds DEF NoRow, Rows
<1>2. TableTyped
  BY <1>1 DEF Init, TableTyped, IsPending, NoRow
<1>3. worker \in [Workers -> GoodWorkers] /\ saver \in [Workers -> GoodSavers]
  BY OffIsGood DEF Init
<1>4. QED BY <1>2, <1>3, GoodIsTyped DEF Init, Typed, TypeOK, TableTyped

LEMMA TypedNext == Typed /\ [Next]_vars => Typed'
<1> SUFFICES ASSUME Typed, [Next]_vars PROVE Typed'
  OBVIOUS
<1>1. CASE UNCHANGED vars
  BY <1>1 DEF vars, hostVars, logVars, smtpVars, imapVars, Typed, TypeOK, TableTyped, IsPending
<1>2. QED BY <1>1, NextCases, TypedHost, TypedSendWorker, TypedSaver

(* Every variable has its type; no row counts more than MAX_ATTEMPTS, nor  *)
(* waits longer than MAX_BACKOFF_SECS (outbox.rs, reschedule).             *)
THEOREM TypeCorrect == Spec => []TypeOK
<1>1. Typed => TypeOK
  BY DEF Typed
<1>2. QED BY <1>1, TypedInit, TypedNext, PTL DEF Spec

-----------------------------------------------------------------------------
(* Nothing is lost.                                                        *)

(* The places of a message between the window and the store.               *)
Waiting(w, i, m) ==
    i \in DOMAIN inbox[w] /\ inbox[w][i].kind = "Send" /\ inbox[w][i].raw = m
Enqueuing(w, m) == worker[w].pc = "enqueue" /\ worker[w].cur.msg = m

(* A message handed over is at one place until it is recorded, and its     *)
(* file is there once it is being recorded.  So the file that a failing    *)
(* enqueue removes is never the file of a recorded message.                *)
OnePlace ==
    \A m \in Messages, v, w \in Workers :
        /\ Enqueuing(v, m) => m \in (handed \ recorded) \cap files
        /\ Enqueuing(v, m) /\ Enqueuing(w, m) => v = w
        /\ \A i \in DOMAIN inbox[v] :
              Waiting(v, i, m) =>
                 /\ m \in handed \ recorded
                 /\ ~Enqueuing(w, m)
                 /\ \A j \in DOMAIN inbox[w] : Waiting(w, j, m) => v = w /\ i = j

(* What the history says of the rows and of the workers' memories.         *)
Accepted(w, m) == worker[w].pc = "accepted" /\ worker[w].cur.msg = m
EmptyHands(w) ==
    worker[w].pc \notin InPass =>
        worker[w].batch = {} /\ (worker[w].pc # "enqueue" => worker[w].cur = None)
Ledger ==
    /\ recorded \subseteq handed
    /\ \A m \in Messages :
          /\ delivered[m] > 0 => m \in recorded
          /\ outbox[m] # NoRow => m \in recorded
          /\ outbox[m].state = "sent" => delivered[m] > 0
    /\ \A m \in Messages, w \in Workers :
          /\ Holds(w, m) => m \in recorded
          /\ Accepted(w, m) => delivered[m] > 0
          /\ Appending(w, m) => delivered[m] > 0
    /\ \A w \in Workers : EmptyHands(w)

Safe == Typed /\ OnePlace /\ Ledger /\ KeptUntilDelivered

-----------------------------------------------------------------------------
(* A message on its way is at one place.                                   *)

(* The types that the steps below need, and no more.                       *)
Shapes ==
    /\ outbox \in [Messages -> Rows]
    /\ worker \in [Workers -> WorkerStates]
    /\ saver \in [Workers -> SaverStates]
    /\ inbox \in [Workers -> Seq(Commands)]
    /\ delivered \in [Messages -> Nat]

LEMMA ShapesTyped == Typed => Shapes
BY DEF Typed, TypeOK, Shapes

(* Nothing is read from or put into a channel, and nobody starts to        *)
(* record a message.                                                       *)
LEMMA OnePlaceStays ==
    ASSUME OnePlace, inbox' = inbox, handed' = handed, recorded' = recorded,
           \A w \in Workers, m \in Messages :
               Enqueuing(w, m)' => Enqueuing(w, m) /\ m \in files'
    PROVE  OnePlace'
BY DEF OnePlace, Waiting

(* Reading a command moves the others one place forward.                   *)
LEMMA TailShifts ==
    ASSUME Shapes, NEW w \in Workers, inbox[w] # <<>>,
           inbox' = [inbox EXCEPT ![w] = Tail(@)],
           NEW v \in Workers, NEW i \in DOMAIN inbox'[v]
    PROVE  \E k \in DOMAIN inbox[v] :
              /\ inbox'[v][i] = inbox[v][k]
              /\ i \in Nat \ {0} /\ k = IF v = w THEN i + 1 ELSE i
<1>1. CASE v # w
  <2>1. inbox[v] \in Seq(Commands) /\ inbox'[v] = inbox[v]
    BY <1>1 DEF Shapes
  <2>2. QED BY <1>1, <2>1, LenProperties
<1>2. CASE v = w
  <2>1. inbox[w] \in Seq(Commands) /\ inbox'[v] = Tail(inbox[w])
    BY <1>2 DEF Shapes
  <2>2. /\ Tail(inbox[w]) \in Seq(Commands)
        /\ Len(Tail(inbox[w])) = Len(inbox[w]) - 1
        /\ \A k \in 1 .. Len(Tail(inbox[w])) : Tail(inbox[w])[k] = inbox[w][k + 1]
    BY <2>1, HeadTailProperties
  <2>3. /\ Len(inbox[w]) \in Nat /\ i \in 1 .. Len(Tail(inbox[w]))
        /\ DOMAIN inbox[w] = 1 .. Len(inbox[w])
    BY <2>1, <2>2, LenProperties
  <2>4. i + 1 \in 1 .. Len(inbox[w]) /\ i \in Nat \ {0}
    BY <2>2, <2>3
  <2>5. inbox'[v][i] = inbox[w][i + 1]
    BY <2>1, <2>2, <2>3
  <2>6. QED BY <1>2, <2>3, <2>4, <2>5
<1>3. QED BY <1>1, <1>2

(* A worker reads a command that is not a message.                         *)
LEMMA OnePlaceShrinks ==
    ASSUME OnePlace, Shapes, NEW w \in Workers, inbox[w] # <<>>,
           inbox' = [inbox EXCEPT ![w] = Tail(@)],
           handed' = handed, recorded' = recorded, files' = files,
           \A v \in Workers, m \in Messages : Enqueuing(v, m)' => Enqueuing(v, m)
    PROVE  OnePlace'
<1>0. \A v \in Workers : \A i \in DOMAIN inbox'[v] : \E k \in DOMAIN inbox[v] :
         /\ inbox'[v][i] = inbox[v][k]
         /\ i \in Nat \ {0} /\ k = IF v = w THEN i + 1 ELSE i
  BY TailShifts
<1>1. ASSUME NEW v \in Workers, NEW i \in DOMAIN inbox'[v], NEW m \in Messages,
             Waiting(v, i, m)'
      PROVE  \E k \in DOMAIN inbox[v] :
                Waiting(v, k, m) /\ i \in Nat \ {0} /\ k = IF v = w THEN i + 1 ELSE i
  <2>1. PICK k \in DOMAIN inbox[v] :
           /\ inbox'[v][i] = inbox[v][k]
           /\ i \in Nat \ {0} /\ k = IF v = w THEN i + 1 ELSE i
    BY <1>0
  <2>2. QED BY <1>1, <2>1 DEF Waiting
<1>2. SUFFICES ASSUME NEW m \in Messages, NEW v \in Workers, NEW u \in Workers
      PROVE  /\ Enqueuing(v, m)' => m \in ((handed \ recorded) \cap files)'
             /\ (Enqueuing(v, m) /\ Enqueuing(u, m))' => v = u
             /\ \A i \in DOMAIN inbox'[v] :
                   Waiting(v, i, m)' =>
                      /\ m \in (handed \ recorded)'
                      /\ ~Enqueuing(u, m)'
                      /\ \A j \in DOMAIN inbox'[u] : Waiting(u, j, m)' => v = u /\ i = j
  BY DEF OnePlace
<1>3. /\ Enqueuing(v, m)' => m \in ((handed \ recorded) \cap files)'
      /\ (Enqueuing(v, m) /\ Enqueuing(u, m))' => v = u
  BY DEF OnePlace
<1>4. ASSUME NEW i \in DOMAIN inbox'[v], Waiting(v, i, m)'
      PROVE  /\ m \in (handed \ recorded)'
             /\ ~Enqueuing(u, m)'
             /\ \A j \in DOMAIN inbox'[u] : Waiting(u, j, m)' => v = u /\ i = j
  <2>1. PICK k \in DOMAIN inbox[v] :
           Waiting(v, k, m) /\ i \in Nat \ {0} /\ k = IF v = w THEN i + 1 ELSE i
    BY <1>1, <1>4
  <2>2. m \in handed \ recorded /\ ~Enqueuing(u, m)
    BY <2>1 DEF OnePlace
  <2>3. ASSUME NEW j \in DOMAIN inbox'[u], Waiting(u, j, m)' PROVE v = u /\ i = j
    <3>1. PICK l \in DOMAIN inbox[u] :
             Waiting(u, l, m) /\ j \in Nat \ {0} /\ l = IF u = w THEN j + 1 ELSE j
      BY <1>1, <2>3
    <3>2. v = u /\ k = l
      BY <2>1, <3>1 DEF OnePlace
    <3>3. QED BY <2>1, <3>1, <3>2
  <2>4. QED BY <2>2, <2>3
<1>5. QED BY <1>3, <1>4

(* A command that is not a message, or one that was never handed over,     *)
(* enters a channel.                                                       *)
LEMMA OnePlaceGrows ==
    ASSUME OnePlace, Shapes, NEW w \in Workers, NEW command \in Commands,
           inbox' = [inbox EXCEPT ![w] = Append(@, command)],
           recorded \subseteq handed, recorded' = recorded, files' = files,
           IF command.kind = "Send"
             THEN command.raw \notin handed /\ handed' = handed \cup {command.raw}
             ELSE handed' = handed,
           \A v \in Workers, m \in Messages : Enqueuing(v, m)' => Enqueuing(v, m)
    PROVE  OnePlace'
<1> DEFINE last == Len(inbox[w]) + 1
<1>1. ASSUME NEW v \in Workers, NEW i \in DOMAIN inbox'[v]
      PROVE  \/ i \in DOMAIN inbox[v] /\ inbox'[v][i] = inbox[v][i]
             \/ v = w /\ i = last /\ inbox'[v][i] = command
  <2>1. CASE v # w
    BY <2>1 DEF Shapes
  <2>2. CASE v = w
    <3>1. inbox[w] \in Seq(Commands) /\ inbox'[v] = Append(inbox[w], command)
      BY <2>2 DEF Shapes
    <3>2. QED BY <2>2, <3>1
  <2>3. QED BY <2>1, <2>2
<1> HIDE DEF last
<1>2. QED BY <1>1 DEF OnePlace, Waiting

LEMMA OnePlaceHost ==
    ASSUME Typed, Ledger, OnePlace, HostStep
    PROVE  OnePlace'
<1>0. Shapes
  BY ShapesTyped
<1> USE DEF hostVars, smtpVars, imapVars, logVars
<1>1. ASSUME NEW w \in Workers, Spawn(w) PROVE OnePlace'
  <2>1. \A v \in Workers : worker'[v].pc = "enqueue" => worker'[v] = worker[v]
    BY <1>0, <1>1 DEF Spawn, Shapes, Off
  <2>2. QED BY <1>1, <2>1, OnePlaceStays DEF Spawn, Enqueuing, OnePlace
<1>2. ASSUME NEW m \in Messages, Send(m) PROVE OnePlace'
  <2> DEFINE command == [kind |-> "Send", raw |-> m]
  <2>1. command \in Commands /\ command.kind = "Send" /\ command.raw = m
    BY DEF Commands
  <2>2. current \in Workers /\ inbox' = [inbox EXCEPT ![current] = Append(@, command)]
    BY <1>2 DEF Send, Post, Typed, TypeOK
  <2> HIDE DEF command
  <2>3. QED BY <1>0, <1>2, <2>1, <2>2, OnePlaceGrows DEF Send, Ledger, Enqueuing
<1>3. ASSUME NEW kind \in {"Drain", "Shutdown"}, Post([kind |-> kind]), handed' = handed,
             recorded' = recorded, files' = files, worker' = worker
      PROVE  OnePlace'
  <2> DEFINE command == [kind |-> kind]
  <2>1. command \in Commands /\ command.kind # "Send"
    BY DEF Commands
  <2>2. current \in Workers /\ inbox' = [inbox EXCEPT ![current] = Append(@, command)]
    BY <1>3 DEF Post, Typed, TypeOK
  <2> HIDE DEF command
  <2>3. QED BY <1>0, <1>3, <2>1, <2>2, OnePlaceGrows DEF Ledger, Enqueuing
<1>4. CASE Retire
  BY <1>3, <1>4 DEF Retire
<1>5. CASE RequestDrain
  BY <1>3, <1>5 DEF RequestDrain
<1>6. CASE Prune
  BY <1>6, OnePlaceStays DEF Prune, Enqueuing, OnePlace
<1>7. CASE Tick
  <2>1. \A v \in Workers : worker'[v].pc = worker[v].pc /\ worker'[v].cur = worker[v].cur
    BY <1>0, <1>7 DEF Tick, Shapes, WorkerStates
  <2>2. \A v \in Workers, m \in Messages :
           Enqueuing(v, m)' => Enqueuing(v, m) /\ m \in files'
    BY ZenonT(40), <1>7, <2>1 DEF Tick, Enqueuing, OnePlace
  <2>3. QED BY <1>7, <2>2, OnePlaceStays DEF Tick
<1>8. CASE Crash
  BY <1>8 DEF Crash, OnePlace, Enqueuing, Off
<1>9. QED BY <1>1, <1>2, <1>4, <1>5, <1>6, <1>7, <1>8 DEF HostStep

(* Outside of ReceiveSend and Enqueue no worker comes to record a message. *)
LEMMA OnePlaceSendWorker ==
    ASSUME Typed, Ledger, OnePlace, NEW w \in Workers, SendWorkerStep(w)
    PROVE  OnePlace'
<1>0. Shapes
  BY ShapesTyped
<1> USE DEF hostVars, smtpVars, imapVars, logVars
<1> DEFINE Quiet == \A v \in Workers : worker'[v].pc = "enqueue" => worker'[v] = worker[v]
<1>1. ASSUME Quiet, inbox' = inbox, files' = files, UNCHANGED logVars PROVE OnePlace'
  BY <1>1, OnePlaceStays DEF Enqueuing, OnePlace
<1>2. ASSUME Quiet, inbox[w] # <<>>, inbox' = [inbox EXCEPT ![w] = Tail(@)], files' = files,
             UNCHANGED logVars
      PROVE  OnePlace'
  BY <1>0, <1>2, OnePlaceShrinks DEF Enqueuing
<1>3. CASE DrainSelect(w)
  BY <1>0, <1>1, <1>3 DEF DrainSelect, Shapes, WorkerStates
<1>4. CASE PassAborts(w)
  BY <1>0, <1>1, <1>4 DEF PassAborts, EndPass, Shapes, Off
<1>5. CASE FinishPass(w)
  BY <1>0, <1>1, <1>5 DEF FinishPass, EndPass, Shapes, Off
<1>6. ASSUME NEW e \in worker[w].batch, SubmitUnusable(w, e) PROVE OnePlace'
  <2>1. Quiet
    BY <1>0, <1>6 DEF SubmitUnusable, Shapes, WorkerStates
  <2>2. QED BY <1>1, <1>6, <2>1 DEF SubmitUnusable
<1>7. ASSUME NEW e \in worker[w].batch, SubmitMark(w, e) PROVE OnePlace'
  BY <1>0, <1>1, <1>7 DEF SubmitMark, Shapes, WorkerStates
<1>8. CASE TransportAccepts(w)
  BY <1>0, <1>1, <1>8 DEF TransportAccepts, Shapes, WorkerStates
<1>9. CASE TransportFails(w)
  BY <1>0, <1>1, <1>9 DEF TransportFails, Shapes, WorkerStates
<1>10. CASE RecordSent(w)
  BY <1>0, <1>1, <1>10 DEF RecordSent, Shapes, WorkerStates
<1>11. CASE Reschedule(w)
  BY <1>0, <1>1, <1>11 DEF Reschedule, Shapes, WorkerStates
<1>12. CASE NextRetry(w)
  BY <1>0, <1>1, <1>12 DEF NextRetry, Shapes, WorkerStates
<1>13. CASE TimerFires(w)
  BY <1>0, <1>1, <1>13 DEF TimerFires, Shapes, WorkerStates
<1>14. CASE ReceiveDrain(w)
  BY <1>0, <1>2, <1>14 DEF ReceiveDrain, Receive, Shapes, Off
<1>15. CASE ReceiveShutdown(w)
  BY <1>0, <1>2, <1>15 DEF ReceiveShutdown, Receive, Shapes, Off
<1>16. CASE ReceiveSend(w)
  <2> DEFINE m == Head(inbox[w]).raw
  <2>1. /\ inbox[w] \in Seq(Commands) /\ inbox[w] # <<>>
        /\ inbox' = [inbox EXCEPT ![w] = Tail(@)]
        /\ Head(inbox[w]).kind = "Send"
    BY <1>0, <1>16 DEF ReceiveSend, Receive, Shapes
  <2>2. 1 \in DOMAIN inbox[w] /\ Head(inbox[w]) = inbox[w][1]
    BY <2>1, HeadTailProperties, LenProperties
  <2>3. Waiting(w, 1, m) /\ m \in Messages
    BY <2>1, <2>2 DEF Waiting, Commands
  <2>4. /\ \A v \in Workers : worker'[v].pc = "enqueue" =>
              \/ v # w /\ worker'[v] = worker[v]
              \/ v = w /\ worker'[v].cur.msg = m /\ m \in files'
        /\ files \subseteq files' /\ UNCHANGED logVars
    <3>1. files \subseteq files' /\ UNCHANGED logVars
      BY <1>16 DEF ReceiveSend
    <3>2. CASE /\ files' = files \cup {m}
               /\ worker' = [worker EXCEPT ![w] =
                     [Off EXCEPT !.pc = "enqueue", !.cur = [msg |-> m, attempts |-> 0]]]
      BY <1>0, <3>1, <3>2 DEF Shapes, Off
    <3>3. CASE worker' = [worker EXCEPT ![w] = [Off EXCEPT !.pc = "drain"]]
      BY <1>0, <3>1, <3>3 DEF Shapes, Off
    <3>4. QED BY <1>16, <3>2, <3>3 DEF ReceiveSend
  <2> HIDE DEF m
  <2>5. ASSUME NEW n \in Messages, NEW v \in Workers, NEW i \in DOMAIN inbox'[v],
               Waiting(v, i, n)'
        PROVE  \E k \in DOMAIN inbox[v] :
                  /\ Waiting(v, k, n) /\ n # m
                  /\ i \in Nat \ {0} /\ k = IF v = w THEN i + 1 ELSE i
    <3>1. PICK k \in DOMAIN inbox[v] :
             /\ inbox'[v][i] = inbox[v][k]
             /\ i \in Nat \ {0} /\ k = IF v = w THEN i + 1 ELSE i
      <4>1. inbox[w] # <<>>
        BY <2>1
      <4>2. inbox' = [inbox EXCEPT ![w] = Tail(@)]
        BY <2>1
      <4>3. \A u \in Workers : \A j \in DOMAIN inbox'[u] : \E k \in DOMAIN inbox[u] :
               /\ inbox'[u][j] = inbox[u][k]
               /\ j \in Nat \ {0} /\ k = IF u = w THEN j + 1 ELSE j
        BY <1>0, <4>1, <4>2, TailShifts
      <4>4. QED BY <4>3
    <3>2. Waiting(v, k, n) /\ ~(v = w /\ k = 1)
      BY <2>5, <3>1 DEF Waiting
    <3>3. n # m
      BY <2>2, <2>3, <3>2 DEF OnePlace
    <3>4. QED BY <3>1, <3>2, <3>3
  <2>6. \A n \in Messages, v \in Workers :
           Enqueuing(v, n)' => \/ Enqueuing(v, n) /\ v # w
                               \/ v = w /\ n = m /\ m \in files'
    <3>1. TAKE n \in Messages, v \in Workers
    <3>2. HAVE Enqueuing(v, n)'
    <3>3. worker'[v].pc = "enqueue" /\ worker'[v].cur.msg = n
      BY <3>2 DEF Enqueuing
    <3>4. QED BY <2>4, <3>3 DEF Enqueuing
  <2>7. m \in handed \ recorded /\ \A v \in Workers : ~Enqueuing(v, m)
    BY <2>2, <2>3 DEF OnePlace
  <2>8. QED BY <2>4, <2>5, <2>6, <2>7 DEF OnePlace, Waiting
<1>17. CASE Enqueue(w)
  <2> DEFINE m == worker[w].cur.msg
  <2>1. \A v \in Workers : worker'[v].pc = "enqueue" => v # w /\ worker'[v] = worker[v]
    BY <1>0, <1>17 DEF Enqueue, Shapes, WorkerStates
  <2>2. Enqueuing(w, m)
    BY <1>17 DEF Enqueue, Enqueuing
  <2>3. m \in Messages
    BY <1>17, EntryTyped DEF Enqueue, BusyPcs
  <2>4. /\ recorded' \subseteq recorded \cup {m} /\ files \ {m} \subseteq files'
        /\ inbox' = inbox /\ handed' = handed
    BY <1>17 DEF Enqueue
  <2> HIDE DEF m
  <2>5. QED BY <2>1, <2>2, <2>3, <2>4 DEF OnePlace, Enqueuing, Waiting
<1>18. QED BY <1>3, <1>4, <1>5, <1>6, <1>7, <1>8, <1>9, <1>10, <1>11, <1>12, <1>13, <1>14,
            <1>15, <1>16, <1>17 DEF SendWorkerStep

(* The clock neither adds nor removes a row.                               *)
LEMMA TickRows ==
    ASSUME Typed, Tick
    PROVE  \A m \in Messages :
              /\ outbox'[m].state = outbox[m].state
              /\ outbox'[m] = NoRow <=> outbox[m] = NoRow
<1>1. TAKE m \in Messages
<1>2. /\ outbox[m] \in Rows /\ Typed' /\ NoRow.state = "none"
      /\ outbox'[m] = [outbox[m] EXCEPT !.wait = Less(@, 1)]
  BY TypedHost DEF Tick, HostStep, Typed, TypeOK, NoRow
<1>3. outbox'[m].state = outbox[m].state
  BY <1>2 DEF Rows
<1>4. QED BY <1>2, <1>3 DEF Typed, TableTyped

(* Only a file of a delivered message is removed by an account worker.     *)
LEMMA OnePlaceSaver ==
    ASSUME Typed, Ledger, OnePlace, NEW w \in Workers, SaveStep(w)
    PROVE  OnePlace'
<1> USE DEF hostVars, smtpVars, imapVars, logVars
<1>1. ASSUME inbox' = inbox, worker' = worker, files' = files, UNCHANGED logVars
      PROVE  OnePlace'
  BY <1>1, OnePlaceStays DEF Enqueuing, OnePlace
<1>2. CASE SaveSelect(w)
  BY <1>1, <1>2 DEF SaveSelect
<1>3. CASE ClearRow(w)
  BY <1>1, <1>3 DEF ClearRow
<1>4. CASE ClearFile(w)
  <2>1. \A m \in Messages : m \in files \ files' => m \in recorded
    BY <1>4 DEF ClearFile, Ledger, Appending
  <2>2. QED BY <1>4, <2>1, OnePlaceStays DEF ClearFile, Enqueuing, OnePlace
<1>5. CASE SaveEnds(w)
  BY <1>1, <1>5 DEF SaveEnds
<1>6. CASE AccountWorkerEnds(w)
  BY <1>1, <1>6 DEF AccountWorkerEnds
<1>7. ASSUME NEW m \in saver[w].batch, SaveTaken(w, m) PROVE OnePlace'
  BY <1>1, <1>7 DEF SaveTaken
<1>8. ASSUME NEW m \in saver[w].batch, SaveRefused(w, m) PROVE OnePlace'
  BY <1>1, <1>8 DEF SaveRefused
<1>9. QED BY <1>2, <1>3, <1>4, <1>5, <1>6, <1>7, <1>8 DEF SaveStep

-----------------------------------------------------------------------------
(* What a step of a send worker does to its hands, and to the table.       *)

(* UpdateOutbox neither adds nor removes a row, and changes one at most.   *)
LEMMA UpdateOutboxEffect ==
    ASSUME Shapes, NEW m \in Messages, NEW state \in {"queued", "sending", "sent", "failed"},
           NEW attempts, NEW wait, UpdateOutbox(m, state, attempts, wait)
    PROVE  /\ \A n \in Messages : outbox'[n] = NoRow <=> outbox[n] = NoRow
           /\ \A n \in Messages \ {m} : outbox'[n] = outbox[n]
           /\ outbox[m] # NoRow => outbox'[m].state = state
<1> DEFINE row == [state |-> state, attempts |-> attempts, wait |-> wait]
<1>1. row # NoRow /\ row.state = state
  BY DEF NoRow
<1>2. outbox' = IF outbox[m] = NoRow THEN outbox ELSE [outbox EXCEPT ![m] = row]
  BY DEF UpdateOutbox
<1> HIDE DEF row
<1>3. QED BY <1>1, <1>2 DEF Shapes

(* Only DrainSelect puts messages into a worker's hands, and only          *)
(* TransportAccepts makes one accepted.                                    *)
HandsKept(w) ==
    /\ \A v \in Workers \ {w} : worker'[v] = worker[v]
    /\ EmptyHands(w)'
    /\ DrainSelect(w) \/ \A n \in Messages : Holds(w, n)' => Holds(w, n)
    /\ TransportAccepts(w) \/ \A n \in Messages : Accepted(w, n)' => Accepted(w, n)

LEMMA HandsEffect ==
    ASSUME Typed, Ledger, NEW w \in Workers, SendWorkerStep(w)
    PROVE  HandsKept(w)
<1>0. Shapes /\ EmptyHands(w)
  BY ShapesTyped DEF Ledger
<1> DEFINE here == worker[w]
           Others == \A v \in Workers \ {w} : worker'[v] = worker[v]
<1>1. ASSUME Others, worker'[w].pc \notin InPass, EmptyHands(w)', worker'[w].batch = {}
      PROVE  HandsKept(w)
  BY <1>1 DEF HandsKept, Holds, Accepted, InPass
<1>2. ASSUME Others, here.pc \in InPass, worker'[w].pc \in InPass \ {"accepted"},
             worker'[w].batch \subseteq here.batch,
             worker'[w].cur \in {None, here.cur}
      PROVE  HandsKept(w)
  BY <1>2 DEF HandsKept, EmptyHands, Holds, Accepted, InPass
<1>3. CASE DrainSelect(w)
  <2>1. Others /\ worker'[w].pc = "pass"
    BY <1>0, <1>3 DEF DrainSelect, Shapes, WorkerStates
  <2>2. QED BY <1>3, <2>1 DEF HandsKept, EmptyHands, InPass, Accepted
<1>4. CASE PassAborts(w) \/ FinishPass(w)
  <2>1. Others /\ worker'[w].pc = "timer" /\ worker'[w].batch = {} /\ worker'[w].cur = None
    <3>1. EndPass(w)
      BY <1>4 DEF PassAborts, FinishPass
    <3>2. QED BY <1>0, <3>1 DEF EndPass, Shapes, Off
  <2>2. QED BY <1>1, <2>1 DEF EmptyHands, InPass
<1>5. ASSUME NEW e \in here.batch, SubmitUnusable(w, e) PROVE HandsKept(w)
  <2>1. /\ Others /\ worker'[w].pc = here.pc /\ worker'[w].cur = here.cur
        /\ worker'[w].batch \subseteq here.batch /\ here.pc = "pass"
    BY <1>0, <1>5 DEF SubmitUnusable, Shapes, WorkerStates, Served
  <2>2. QED BY <1>2, <2>1 DEF InPass
<1>6. ASSUME NEW e \in here.batch, SubmitMark(w, e) PROVE HandsKept(w)
  <2>1. /\ Others /\ worker'[w].pc = "sending" /\ worker'[w].cur = e
        /\ worker'[w].batch \subseteq here.batch
    BY <1>0, <1>6 DEF SubmitMark, Shapes, WorkerStates, Served
  <2>2. QED BY <2>1 DEF HandsKept, EmptyHands, Holds, Accepted, InPass
<1>7. CASE TransportAccepts(w)
  <2>1. /\ Others /\ worker'[w].pc = "accepted" /\ worker'[w].cur = here.cur
        /\ worker'[w].batch = here.batch /\ here.pc = "sending"
    BY <1>0, <1>7 DEF TransportAccepts, Shapes, WorkerStates
  <2>2. QED BY <1>7, <2>1 DEF HandsKept, EmptyHands, Holds, InPass
<1>8. CASE TransportFails(w)
  <2>1. /\ Others /\ worker'[w].pc = "rejected" /\ worker'[w].cur = here.cur
        /\ worker'[w].batch = here.batch /\ here.pc = "sending"
    BY <1>0, <1>8 DEF TransportFails, Shapes, WorkerStates
  <2>2. QED BY <1>2, <2>1 DEF InPass
<1>9. CASE RecordSent(w) \/ Reschedule(w)
  <2>1. /\ Others /\ worker'[w].pc = "pass" /\ worker'[w].cur = None
        /\ worker'[w].batch = here.batch /\ here.pc \in {"accepted", "rejected"}
    BY <1>0, <1>9 DEF RecordSent, Reschedule, Shapes, WorkerStates
  <2>2. QED BY <1>2, <2>1 DEF InPass
<1>10. CASE NextRetry(w) \/ TimerFires(w)
  <2>1. /\ Others /\ worker'[w].pc \in {"select", "drain"} /\ worker'[w].batch = here.batch
        /\ worker'[w].cur = here.cur
        /\ here.pc \in {"timer", "select"}
    BY <1>0, <1>10 DEF NextRetry, TimerFires, Shapes, WorkerStates
  <2>2. QED BY <1>0, <1>1, <2>1 DEF EmptyHands, InPass
<1>11. CASE ReceiveDrain(w) \/ ReceiveSend(w) \/ ReceiveShutdown(w)
  <2>1. /\ Others /\ worker'[w].pc \in {"drain", "enqueue", "off"} /\ worker'[w].batch = {}
        /\ worker'[w].pc # "enqueue" => worker'[w].cur = None
    <3>1. CASE ReceiveDrain(w)
      BY <1>0, <3>1 DEF ReceiveDrain, Shapes, Off
    <3>2. CASE ReceiveSend(w)
      BY ZenonT(40), <1>0, <3>2 DEF ReceiveSend, Shapes, Off
    <3>3. CASE ReceiveShutdown(w)
      BY <1>0, <3>3 DEF ReceiveShutdown, Shapes, Off
    <3>4. QED BY <1>11, <3>1, <3>2, <3>3
  <2>2. QED BY <1>1, <2>1 DEF EmptyHands, InPass
<1>12. CASE Enqueue(w)
  <2>1. /\ Others /\ worker'[w].pc = "drain" /\ worker'[w].batch = here.batch
        /\ worker'[w].cur = None
        /\ here.pc = "enqueue"
    BY <1>0, <1>12 DEF Enqueue, Shapes, WorkerStates
  <2>2. QED BY <1>0, <1>1, <2>1 DEF EmptyHands, InPass
<1>13. QED BY <1>3, <1>4, <1>5, <1>6, <1>7, <1>8, <1>9, <1>10, <1>11, <1>12
           DEF SendWorkerStep

(* Outside of Enqueue no row appears or vanishes, no file is removed, and  *)
(* a row is marked Sent only for a message in accepted hands.              *)
TableKept(w) ==
    /\ files \subseteq files' /\ saver' = saver /\ account' = account
    /\ UNCHANGED logVars
    /\ \A n \in Messages :
          /\ outbox'[n] = NoRow <=> outbox[n] = NoRow
          /\ outbox'[n].state = "sent" => outbox[n].state = "sent" \/ Accepted(w, n)
    /\ files' # files => \E n \in Messages : files' = files \cup {n} /\ n \notin recorded

(* The server takes only what is in a worker's hands.                      *)
DeliversHeld(w) ==
    \/ delivered' = delivered
    \/ \E m \in Messages :
          /\ Holds(w, m) /\ delivered' = [delivered EXCEPT ![m] = @ + 1]

LEMMA TableEffect ==
    ASSUME Typed, OnePlace, NEW w \in Workers, SendWorkerStep(w), ~Enqueue(w)
    PROVE  TableKept(w) /\ DeliversHeld(w)
<1>0. Shapes
  BY ShapesTyped
<1> USE DEF hostVars, smtpVars, imapVars, logVars
<1> DEFINE here == worker[w]
<1>1. ASSUME files' = files, saver' = saver, account' = account, UNCHANGED logVars,
             outbox' = outbox
      PROVE  TableKept(w)
  BY <1>1 DEF TableKept
<1>2. ASSUME NEW m \in Messages, NEW state \in {"queued", "sending", "sent", "failed"},
             NEW attempts, NEW wait, UpdateOutbox(m, state, attempts, wait),
             state = "sent" => Accepted(w, m),
             files' = files, saver' = saver, account' = account, UNCHANGED logVars
      PROVE  TableKept(w)
  <2>1. /\ \A n \in Messages : outbox'[n] = NoRow <=> outbox[n] = NoRow
        /\ \A n \in Messages \ {m} : outbox'[n] = outbox[n]
        /\ outbox[m] # NoRow => outbox'[m].state = state
    BY <1>0, <1>2, UpdateOutboxEffect
  <2>2. QED BY <1>2, <2>1 DEF TableKept, NoRow
<1>3. CASE DrainSelect(w) \/ PassAborts(w) \/ FinishPass(w) \/ NextRetry(w) \/ TimerFires(w)
  <2>1. /\ files' = files /\ saver' = saver /\ account' = account /\ UNCHANGED logVars
        /\ outbox' = outbox /\ delivered' = delivered
    BY <1>3 DEF DrainSelect, PassAborts, FinishPass, NextRetry, TimerFires
  <2>2. QED BY <1>1, <2>1 DEF DeliversHeld
<1>4. ASSUME NEW e \in here.batch, SubmitUnusable(w, e) PROVE TableKept(w) /\ DeliversHeld(w)
  <2>1. e.msg \in Messages /\ UpdateOutbox(e.msg, "failed", e.attempts, 0)
    BY <1>4, EntryTyped DEF SubmitUnusable
  <2>2. QED BY <1>2, <1>4, <2>1 DEF SubmitUnusable, DeliversHeld
<1>5. ASSUME NEW e \in here.batch, SubmitMark(w, e) PROVE TableKept(w) /\ DeliversHeld(w)
  <2>1. e.msg \in Messages /\ UpdateOutbox(e.msg, "sending", e.attempts, 0)
    BY <1>5, EntryTyped DEF SubmitMark
  <2>2. QED BY <1>2, <1>5, <2>1 DEF SubmitMark, DeliversHeld
<1>6. ASSUME here.pc \in {"sending", "accepted", "rejected"}
      PROVE  here.cur.msg \in Messages /\ Holds(w, here.cur.msg)
  BY <1>6, EntryTyped, Bounds DEF BusyPcs, Holds, InPass
<1>7. CASE TransportAccepts(w) \/ TransportFails(w)
  <2>1. /\ here.pc = "sending" /\ outbox' = outbox
        /\ files' = files /\ saver' = saver /\ account' = account /\ UNCHANGED logVars
        /\ \/ delivered' = delivered
           \/ delivered' = [delivered EXCEPT ![here.cur.msg] = @ + 1]
    BY <1>7 DEF TransportAccepts, TransportFails
  <2>2. QED BY <1>1, <1>6, <2>1 DEF DeliversHeld
<1>8. CASE RecordSent(w)
  <2>1. /\ here.pc = "accepted" /\ UpdateOutbox(here.cur.msg, "sent", here.cur.attempts, 0)
        /\ files' = files /\ saver' = saver /\ account' = account /\ UNCHANGED logVars
        /\ delivered' = delivered
    BY <1>8 DEF RecordSent
  <2>2. here.cur.msg \in Messages /\ Accepted(w, here.cur.msg)
    BY <1>6, <2>1 DEF Accepted
  <2>3. QED BY <1>2, <2>1, <2>2 DEF DeliversHeld
<1>9. CASE Reschedule(w)
  <2>1. /\ here.pc = "rejected" /\ delivered' = delivered
        /\ files' = files /\ saver' = saver /\ account' = account /\ UNCHANGED logVars
        /\ \E state \in {"queued", "failed"} : \E attempts, wait :
              UpdateOutbox(here.cur.msg, state, attempts, wait)
    BY <1>9 DEF Reschedule
  <2>2. here.cur.msg \in Messages
    BY <1>6, <2>1
  <2>3. QED BY <1>2, <2>1, <2>2 DEF DeliversHeld
<1>10. CASE ReceiveDrain(w) \/ ReceiveShutdown(w)
  <2>1. /\ files' = files /\ saver' = saver /\ account' = account /\ UNCHANGED logVars
        /\ outbox' = outbox /\ delivered' = delivered
    BY <1>10 DEF ReceiveDrain, ReceiveShutdown
  <2>2. QED BY <1>1, <2>1 DEF DeliversHeld
<1>11. CASE ReceiveSend(w)
  <2> DEFINE m == Head(inbox[w]).raw
  <2>1. /\ inbox[w] \in Seq(Commands) /\ inbox[w] # <<>> /\ Head(inbox[w]).kind = "Send"
    BY <1>0, <1>11 DEF ReceiveSend, Receive, Shapes
  <2>2. 1 \in DOMAIN inbox[w] /\ Head(inbox[w]) = inbox[w][1] /\ Head(inbox[w]) \in Commands
    BY <2>1, HeadTailProperties, LenProperties
  <2>3. m \in Messages /\ Waiting(w, 1, m)
    BY <2>1, <2>2 DEF Waiting, Commands
  <2>4. m \notin recorded
    BY <2>2, <2>3 DEF OnePlace
  <2>5. files' = files \cup {m} \/ files' = files
    BY <1>11 DEF ReceiveSend
  <2>6. /\ saver' = saver /\ account' = account /\ UNCHANGED logVars
        /\ outbox' = outbox /\ delivered' = delivered
    BY <1>11 DEF ReceiveSend
  <2> HIDE DEF m
  <2>7. QED BY <2>3, <2>4, <2>5, <2>6 DEF TableKept, DeliversHeld
<1>12. QED BY <1>3, <1>4, <1>5, <1>7, <1>8, <1>9, <1>10, <1>11 DEF SendWorkerStep

-----------------------------------------------------------------------------
(* The ledger, and what it protects.                                       *)

(* Enqueue adds a row, and the message to the recorded ones, or neither.   *)
EnqueueOutcome(m) ==
    \/ /\ files' = files /\ account
       /\ outbox' = [outbox EXCEPT ![m] = [NoRow EXCEPT !.state = "queued"]]
       /\ recorded' = recorded \cup {m}
    \/ /\ files' = files \ {m}
       /\ outbox' = outbox /\ recorded' = recorded

LEMMA EnqueueEffect ==
    ASSUME Typed, OnePlace, Ledger, NEW w \in Workers, Enqueue(w)
    PROVE  \E m \in Messages :
              /\ m \in (handed \ recorded) \cap files
              /\ outbox[m] = NoRow /\ delivered[m] = 0
              /\ EnqueueOutcome(m)
              /\ handed' = handed /\ saver' = saver /\ delivered' = delivered
              /\ pruned' = pruned /\ account' = account
<1> DEFINE m == worker[w].cur.msg
<1>1. m \in Messages /\ Enqueuing(w, m)
  BY EntryTyped DEF Enqueue, BusyPcs, Enqueuing
<1>2. m \in (handed \ recorded) \cap files
  BY <1>1 DEF OnePlace
<1>3. delivered \in [Messages -> Nat]
  BY DEF Typed, TypeOK
<1>4. outbox[m] = NoRow /\ delivered[m] = 0
  BY <1>1, <1>2, <1>3 DEF Ledger
<1>5. EnqueueOutcome(m)
  BY DEF Enqueue, EnqueueOutcome
<1>6. /\ handed' = handed /\ saver' = saver /\ delivered' = delivered
      /\ pruned' = pruned /\ account' = account
  BY DEF Enqueue, hostVars, smtpVars
<1> HIDE DEF m
<1>7. QED BY <1>1, <1>2, <1>4, <1>5, <1>6

(* The server never takes a message back.                                  *)
LEMMA DeliveriesGrow ==
    ASSUME Shapes, NEW w \in Workers, DeliversHeld(w)
    PROVE  \A m \in Messages :
              /\ delivered[m] \in Nat /\ delivered'[m] \in Nat
              /\ delivered[m] <= delivered'[m]
              /\ delivered'[m] > delivered[m] => Holds(w, m)
<1>1. CASE delivered' = delivered
  BY <1>1 DEF Shapes
<1>2. ASSUME NEW n \in Messages, Holds(w, n), delivered' = [delivered EXCEPT ![n] = @ + 1]
      PROVE  \A m \in Messages :
                /\ delivered[m] \in Nat /\ delivered'[m] \in Nat
                /\ delivered[m] <= delivered'[m]
                /\ delivered'[m] > delivered[m] => Holds(w, m)
  <2>1. \A m \in Messages :
           /\ delivered[m] \in Nat
           /\ delivered'[m] = IF m = n THEN delivered[m] + 1 ELSE delivered[m]
    BY <1>2 DEF Shapes
  <2>2. QED BY <1>2, <2>1
<1>3. QED BY <1>1, <1>2 DEF DeliversHeld

(* What is in hand after a step of w.                                      *)
LEMMA LedgerHands ==
    ASSUME Typed, OnePlace, Ledger, NEW w \in Workers, SendWorkerStep(w),
           recorded \subseteq recorded', DeliversHeld(w)
    PROVE  /\ \A m \in Messages, v \in Workers :
                 /\ Holds(v, m)' => m \in recorded'
                 /\ Accepted(v, m)' => delivered'[m] > 0
           /\ \A v \in Workers : EmptyHands(v)'
           /\ \A m \in Messages : delivered[m] <= delivered'[m]
<1>0. Shapes /\ HandsKept(w)
  BY ShapesTyped, HandsEffect
<1>1. \A m \in Messages :
         delivered[m] \in Nat /\ delivered'[m] \in Nat /\ delivered[m] <= delivered'[m]
  BY <1>0, DeliveriesGrow
<1>2. ASSUME NEW m \in Messages, NEW v \in Workers, Holds(v, m)' PROVE m \in recorded'
  <2>1. CASE v # w
    BY <1>0, <1>2, <2>1 DEF HandsKept, Ledger, Holds
  <2>2. CASE v = w /\ ~DrainSelect(w)
    BY <1>0, <1>2, <2>2 DEF HandsKept, Ledger
  <2>3. CASE v = w /\ DrainSelect(w)
    <3>1. worker'[w].pc = "pass" /\ worker'[w].cur = worker[w].cur /\ worker[w].pc = "drain"
          /\ worker'[w].batch =
                {[msg |-> n, attempts |-> outbox[n].attempts] : n \in Selected(w)}
      BY <1>0, <2>3 DEF DrainSelect, Shapes, WorkerStates
    <3>2. CASE m \in Selected(w)
      BY <3>2 DEF Selected, IsPending, Ledger, NoRow
    <3>3. CASE \A e \in worker'[w].batch : e.msg # m
      <4>1. worker'[w].cur # None /\ worker'[w].cur.msg = m
        BY <1>2, <2>3, <3>3 DEF Holds
      <4>2. QED BY <4>1, <3>1 DEF Ledger, EmptyHands, InPass
    <3>4. QED BY <3>1, <3>2, <3>3
  <2>4. QED BY <2>1, <2>2, <2>3
<1>3. ASSUME NEW m \in Messages, NEW v \in Workers, Accepted(v, m)' PROVE delivered'[m] > 0
  <2>1. CASE v # w
    BY <1>0, <1>1, <1>3, <2>1 DEF HandsKept, Ledger, Accepted
  <2>2. CASE v = w /\ ~TransportAccepts(w)
    BY <1>0, <1>1, <1>3, <2>2 DEF HandsKept, Ledger
  <2>3. CASE v = w /\ TransportAccepts(w)
    <3>1. worker'[w].cur = worker[w].cur
          /\ delivered' = [delivered EXCEPT ![worker[w].cur.msg] = @ + 1]
      BY <1>0, <2>3 DEF TransportAccepts, Shapes, WorkerStates
    <3>2. worker[w].cur.msg = m
      BY <1>3, <2>3, <3>1 DEF Accepted
    <3>3. QED BY <1>0, <3>1, <3>2 DEF Shapes
  <2>4. QED BY <2>1, <2>2, <2>3
<1>4. \A v \in Workers : EmptyHands(v)'
  BY <1>0 DEF HandsKept, Ledger, EmptyHands
<1>5. QED BY <1>1, <1>2, <1>3, <1>4

LEMMA LedgerSendWorker ==
    ASSUME Safe, NEW w \in Workers, SendWorkerStep(w)
    PROVE  Ledger' /\ KeptUntilDelivered'
<1>0. Shapes /\ recorded \subseteq Messages
  BY ShapesTyped DEF Safe, Typed, TypeOK
<1> USE DEF Safe
<1>1. CASE Enqueue(w)
  <2>1. PICK m \in Messages :
              /\ m \in (handed \ recorded) \cap files
              /\ outbox[m] = NoRow /\ delivered[m] = 0
              /\ EnqueueOutcome(m)
              /\ handed' = handed /\ saver' = saver /\ delivered' = delivered
              /\ pruned' = pruned /\ account' = account
    BY <1>1, EnqueueEffect
  <2>2. /\ recorded \subseteq recorded' /\ recorded' \subseteq recorded \cup {m}
        /\ DeliversHeld(w)
    BY <2>1 DEF EnqueueOutcome, DeliversHeld
  <2>3. /\ \A n \in Messages, v \in Workers :
              /\ Holds(v, n)' => n \in recorded'
              /\ Accepted(v, n)' => delivered'[n] > 0
        /\ \A v \in Workers : EmptyHands(v)'
    BY <2>2, LedgerHands
  <2>4. CASE outbox' = outbox
    <3>1. recorded' = recorded /\ files \ {m} \subseteq files'
      <4>1. outbox[m].state = "none"
        BY <2>1 DEF NoRow
      <4>2. outbox' # [outbox EXCEPT ![m] = [NoRow EXCEPT !.state = "queued"]]
        BY <1>0, <2>4, <4>1, NewRow DEF Shapes
      <4>3. QED BY <2>1, <4>2 DEF EnqueueOutcome
    <3>2. Ledger'
      BY <2>1, <2>3, <2>4, <3>1 DEF Ledger, Appending
    <3>3. KeptUntilDelivered'
      BY <2>1, <2>4, <3>1 DEF KeptUntilDelivered
    <3>4. QED BY <3>2, <3>3
  <2>5. CASE outbox' # outbox
    <3>1. /\ files' = files /\ recorded' = recorded \cup {m}
          /\ \A n \in Messages :
               /\ n # m => outbox'[n] = outbox[n]
               /\ outbox'[m].state = "queued"
      BY <1>0, <2>1, <2>5, NewRow DEF EnqueueOutcome, Shapes
    <3>2. Ledger'
      BY <2>1, <2>3, <3>1 DEF Ledger, Appending
    <3>3. KeptUntilDelivered'
      BY <1>0, <2>1, <3>1 DEF KeptUntilDelivered, NoRow
    <3>4. QED BY <3>2, <3>3
  <2>6. QED BY <2>4, <2>5
<1>2. CASE ~Enqueue(w)
  <2>1. TableKept(w) /\ DeliversHeld(w)
    BY <1>2, TableEffect
  <2>2. /\ \A m \in Messages, v \in Workers :
              /\ Holds(v, m)' => m \in recorded'
              /\ Accepted(v, m)' => delivered'[m] > 0
        /\ \A v \in Workers : EmptyHands(v)'
        /\ \A m \in Messages : delivered[m] <= delivered'[m]
    BY <2>1, LedgerHands DEF TableKept, logVars
  <2>3. \A m \in Messages :
           /\ delivered[m] \in Nat /\ delivered'[m] \in Nat
           /\ delivered'[m] > 0 => m \in recorded
    BY <1>0, <2>1, DeliveriesGrow DEF Ledger
  <2>4. Ledger'
    BY <2>1, <2>2, <2>3 DEF Ledger, TableKept, logVars, Appending
  <2>5. KeptUntilDelivered'
    BY <1>0, <2>1, <2>2, <2>3 DEF KeptUntilDelivered, TableKept, logVars
  <2>6. QED BY <2>4, <2>5
<1>3. QED BY <1>1, <1>2

(* An account worker clears only what was delivered.                       *)
LEMMA LedgerSaver ==
    ASSUME Safe, NEW w \in Workers, SaveStep(w)
    PROVE  Ledger' /\ KeptUntilDelivered'
<1>0. /\ Shapes /\ recorded \subseteq Messages
      /\ saver[w] \in GoodSavers /\ saver[w].batch \subseteq Messages
  BY ShapesTyped DEF Safe, Typed, TypeOK, GoodSavers, SaverStates
<1> USE DEF Safe, hostVars, smtpVars, logVars
<1>1. ASSUME worker' = worker, delivered' = delivered, UNCHANGED logVars,
             \A v \in Workers, m \in Messages :
                 Appending(v, m)' => Appending(v, m) \/ m \in ToSave,
             \A m \in Messages :
                 /\ outbox'[m] = outbox[m] \/ (outbox'[m] = NoRow /\ Appending(w, m))
                 /\ m \in files => m \in files' \/ Appending(w, m)
      PROVE  Ledger' /\ KeptUntilDelivered'
  <2>1. \A m \in Messages : Appending(w, m) \/ m \in ToSave => delivered[m] > 0
    BY DEF Ledger, ToSave
  <2>2. NoRow.state # "sent"
    BY DEF NoRow
  <2>3. \A m \in Messages, v \in Workers :
           /\ Holds(v, m)' <=> Holds(v, m)
           /\ Accepted(v, m)' <=> Accepted(v, m)
           /\ EmptyHands(v)' <=> EmptyHands(v)
    BY <1>1 DEF Holds, Accepted, EmptyHands
  <2>4. Ledger'
    BY <1>1, <2>2, <2>3 DEF Ledger, ToSave, Accepted, EmptyHands
  <2>5. KeptUntilDelivered'
    BY <1>0, <1>1, <2>1 DEF KeptUntilDelivered
  <2>6. QED BY <2>4, <2>5
<1>2. CASE SaveSelect(w)
  <2>1. \A v \in Workers, m \in Messages : Appending(v, m)' => Appending(v, m) \/ m \in ToSave
    BY <1>0, <1>2 DEF SaveSelect, Shapes, SaverStates, Appending
  <2>2. QED BY <1>1, <1>2, <2>1 DEF SaveSelect
<1>3. CASE ClearRow(w)
  <2>1. \A v \in Workers : saver'[v].batch = saver[v].batch /\ saver'[v].cur = saver[v].cur
    BY <1>0, <1>3 DEF ClearRow, Shapes, SaverStates
  <2>2. \A m \in Messages :
           outbox'[m] = outbox[m] \/ (outbox'[m] = NoRow /\ saver[w].cur = m)
    BY <1>0, <1>3 DEF ClearRow, Shapes
  <2>3. QED BY <1>1, <1>3, <2>1, <2>2 DEF ClearRow, Appending
<1>4. CASE ClearFile(w)
  <2>1. \A v \in Workers, m \in Messages : Appending(v, m)' => Appending(v, m)
    BY <1>0, <1>4, Bounds DEF ClearFile, Shapes, SaverStates, Appending
  <2>2. QED BY <1>1, <1>4, <2>1 DEF ClearFile, Appending
<1>5. CASE SaveEnds(w) \/ AccountWorkerEnds(w)
  <2>1. \A v \in Workers : saver'[v].batch = saver[v].batch /\ saver'[v].cur = saver[v].cur
    <3>1. CASE SaveEnds(w)
      BY <1>0, <3>1 DEF SaveEnds, Shapes, SaverStates
    <3>2. CASE AccountWorkerEnds(w)
      BY <1>0, <3>2 DEF AccountWorkerEnds, Shapes, SaverStates
    <3>3. QED BY <1>5, <3>1, <3>2
  <2>2. QED BY <1>1, <1>5, <2>1 DEF SaveEnds, AccountWorkerEnds, Appending
<1>6. ASSUME NEW m \in saver[w].batch, SaveTaken(w, m) PROVE Ledger' /\ KeptUntilDelivered'
  <2>1. \A v \in Workers, n \in Messages : Appending(v, n)' => Appending(v, n)
    BY <1>0, <1>6 DEF SaveTaken, Shapes, SaverStates, Appending, Served
  <2>2. QED BY <1>1, <1>6, <2>1 DEF SaveTaken
<1>7. ASSUME NEW m \in saver[w].batch, SaveRefused(w, m) PROVE Ledger' /\ KeptUntilDelivered'
  <2>1. \A v \in Workers, n \in Messages : Appending(v, n)' => Appending(v, n)
    BY <1>0, <1>7 DEF SaveRefused, Shapes, SaverStates, Appending, Served
  <2>2. QED BY <1>1, <1>7, <2>1 DEF SaveRefused
<1>8. QED BY <1>2, <1>3, <1>4, <1>5, <1>6, <1>7 DEF SaveStep

(* The service, the window, the clock and a crash touch neither files nor  *)
(* the rows of an account that stays.                                      *)
LEMMA LedgerHost ==
    ASSUME Safe, HostStep
    PROVE  Ledger' /\ KeptUntilDelivered'
<1>0. Shapes /\ recorded \subseteq Messages /\ current \in Workers \cup {None}
  BY ShapesTyped DEF Safe, Typed, TypeOK
<1> USE DEF Safe, hostVars, smtpVars, logVars
<1>1. ASSUME delivered' = delivered, recorded' = recorded, handed \subseteq handed',
             pruned' = pruned, files' = files,
             \A m \in Messages :
                 outbox'[m].state = outbox[m].state /\ (outbox'[m] = NoRow <=> outbox[m] = NoRow),
             \A v \in Workers, m \in Messages :
                 /\ Holds(v, m)' => Holds(v, m)
                 /\ Accepted(v, m)' => Accepted(v, m)
                 /\ Appending(v, m)' => Appending(v, m),
             \A v \in Workers : EmptyHands(v)'
      PROVE  Ledger' /\ KeptUntilDelivered'
  <2>1. Ledger'
    BY <1>1 DEF Ledger
  <2>2. KeptUntilDelivered'
    BY <1>0, <1>1 DEF KeptUntilDelivered
  <2>3. QED BY <2>1, <2>2
<1>2. ASSUME worker' = worker, saver' = saver
      PROVE  /\ \A v \in Workers, m \in Messages :
                    /\ Holds(v, m)' => Holds(v, m)
                    /\ Accepted(v, m)' => Accepted(v, m)
                    /\ Appending(v, m)' => Appending(v, m)
             /\ \A v \in Workers : EmptyHands(v)'
  BY <1>2 DEF Holds, Accepted, Appending, EmptyHands, Ledger
<1>3. ASSUME NEW w \in Workers, Spawn(w) PROVE Ledger' /\ KeptUntilDelivered'
  <2>1. \A v \in Workers :
           /\ v # w => worker'[v] = worker[v]
           /\ saver'[v].batch = saver[v].batch /\ saver'[v].cur = saver[v].cur
    BY <1>0, <1>3 DEF Spawn, Shapes, SaverStates
  <2>2. worker'[w].pc = "drain" /\ worker'[w].batch = {} /\ worker'[w].cur = None
    BY <1>0, <1>3 DEF Spawn, Shapes, Off
  <2>3. \A v \in Workers, m \in Messages :
           /\ Holds(v, m)' => Holds(v, m)
           /\ Accepted(v, m)' => Accepted(v, m)
           /\ Appending(v, m)' => Appending(v, m)
    BY <2>1, <2>2 DEF Holds, Accepted, Appending
  <2>4. \A v \in Workers : EmptyHands(v)'
    BY <2>1, <2>2 DEF EmptyHands, Ledger
  <2>5. QED BY <1>1, <1>3, <2>3, <2>4 DEF Spawn
<1>4. ASSUME NEW m \in Messages, Send(m) PROVE Ledger' /\ KeptUntilDelivered'
  BY <1>1, <1>2, <1>4 DEF Send
<1>5. CASE Retire \/ RequestDrain
  BY <1>1, <1>2, <1>5 DEF Retire, RequestDrain
<1>6. CASE Prune
  <2>1. /\ worker' = worker /\ saver' = saver /\ delivered' = delivered
        /\ recorded' = recorded /\ handed' = handed /\ files' = files
        /\ pruned' = pruned \cup {m \in Messages : outbox[m] # NoRow}
        /\ \A m \in Messages : outbox'[m] = NoRow /\ NoRow.state # "sent"
    BY <1>6 DEF Prune, NoRow
  <2>2. Ledger'
    BY <1>2, <2>1 DEF Ledger
  <2>3. KeptUntilDelivered'
    BY <1>0, <2>1 DEF KeptUntilDelivered
  <2>4. QED BY <2>2, <2>3
<1>7. CASE Tick
  <2>1. \A v \in Workers :
           /\ worker'[v].pc = worker[v].pc /\ worker'[v].cur = worker[v].cur
           /\ worker'[v].batch = worker[v].batch
    BY <1>0, <1>7 DEF Tick, Shapes, WorkerStates
  <2>2. \A v \in Workers, m \in Messages :
           /\ Holds(v, m)' => Holds(v, m)
           /\ Accepted(v, m)' => Accepted(v, m)
           /\ Appending(v, m)' => Appending(v, m)
    BY <1>7, <2>1 DEF Tick, Holds, Accepted, Appending
  <2>3. \A v \in Workers : EmptyHands(v)'
    BY <2>1 DEF EmptyHands, Ledger
  <2>4. \A m \in Messages :
           outbox'[m].state = outbox[m].state /\ (outbox'[m] = NoRow <=> outbox[m] = NoRow)
    BY <1>7, TickRows
  <2>5. QED BY <1>1, <1>7, <2>2, <2>3, <2>4 DEF Tick
<1>8. CASE Crash
  <2>1. \A v \in Workers : worker'[v] = Off /\ saver'[v] = SaverOff
    BY <1>8 DEF Crash
  <2>2. \A v \in Workers, m \in Messages :
           ~Holds(v, m)' /\ ~Accepted(v, m)' /\ ~Appending(v, m)'
    BY <2>1, Bounds DEF Holds, Accepted, Appending, Off, SaverOff, InPass
  <2>3. \A v \in Workers : EmptyHands(v)'
    BY <2>1 DEF EmptyHands, Off
  <2>4. QED BY <1>1, <1>8, <2>2, <2>3 DEF Crash
<1>9. QED BY <1>3, <1>4, <1>5, <1>6, <1>7, <1>8 DEF HostStep

LEMMA SafeInit == Init => Safe
<1> SUFFICES ASSUME Init PROVE Safe
  OBVIOUS
<1>1. OnePlace
  BY DEF Init, OnePlace, Enqueuing, Waiting, Off
<1>2. Ledger
  BY Bounds DEF Init, Ledger, Holds, Accepted, Appending, EmptyHands, Off, SaverOff, NoRow, InPass
<1>3. KeptUntilDelivered
  BY DEF Init, KeptUntilDelivered
<1>4. QED BY <1>1, <1>2, <1>3, TypedInit DEF Safe

LEMMA SafeNext == Safe /\ [Next]_vars => Safe'
<1> SUFFICES ASSUME Safe, [Next]_vars PROVE Safe'
  OBVIOUS
<1>1. CASE UNCHANGED vars
  <2>1. OnePlace'
    BY <1>1 DEF vars, logVars, Safe, OnePlace, Enqueuing, Waiting
  <2>2. Ledger'
    BY <1>1 DEF vars, logVars, smtpVars, Safe, Ledger, Holds, Accepted, Appending, EmptyHands
  <2>3. KeptUntilDelivered'
    BY <1>1 DEF vars, logVars, smtpVars, Safe, KeptUntilDelivered
  <2>4. QED BY <2>1, <2>2, <2>3, TypedNext DEF Safe
<1>2. CASE HostStep
  BY <1>2, TypedNext, OnePlaceHost, LedgerHost DEF Safe
<1>3. ASSUME NEW w \in Workers, SendWorkerStep(w) \/ SaveStep(w) PROVE Safe'
  BY <1>3, TypedNext, OnePlaceSendWorker, OnePlaceSaver, LedgerSendWorker, LedgerSaver DEF Safe
<1>4. QED BY <1>1, <1>2, <1>3, NextCases

(* No failure loses the mail: once recorded, a message that the server has *)
(* not accepted keeps its row and its file, until the account itself goes  *)
(* (outbox.rs, module comment).                                            *)
THEOREM NothingLost == Spec => []KeptUntilDelivered
<1>1. Safe => KeptUntilDelivered
  BY DEF Safe
<1>2. QED BY <1>1, SafeInit, SafeNext, PTL DEF Spec

-----------------------------------------------------------------------------
(* The refinement.                                                         *)

kept == {m \in files : outbox[m] # NoRow}

(* The steps of MailPromise, as the outbox takes them.                     *)
PromiseStep ==
    \/ UNCHANGED <<kept, recorded, delivered, account>>
    \/ \E m \in Messages : Promise!Keep(m) \/ Promise!Deliver(m) \/ Promise!Release(m)
    \/ Promise!CloseAccount

LEMMA PromiseSendWorker ==
    ASSUME Safe, NEW w \in Workers, SendWorkerStep(w)
    PROVE  PromiseStep
<1>0. /\ Shapes /\ Typed /\ OnePlace /\ Ledger
      /\ files \subseteq Messages /\ recorded \subseteq Messages
  BY ShapesTyped DEF Safe, Typed, TypeOK
<1>1. CASE Enqueue(w)
  <2>1. PICK m \in Messages :
              /\ m \in (handed \ recorded) \cap files
              /\ outbox[m] = NoRow /\ delivered[m] = 0
              /\ EnqueueOutcome(m)
              /\ handed' = handed /\ saver' = saver /\ delivered' = delivered
              /\ pruned' = pruned /\ account' = account
    BY <1>0, <1>1, EnqueueEffect
  <2>2. CASE files' = files \ {m} /\ outbox' = outbox /\ recorded' = recorded
    BY <2>1, <2>2 DEF PromiseStep, kept
  <2>3. CASE /\ files' = files /\ account
             /\ outbox' = [outbox EXCEPT ![m] = [NoRow EXCEPT !.state = "queued"]]
             /\ recorded' = recorded \cup {m}
    <3>1. /\ outbox'[m].state = "queued" /\ NoRow.state = "none"
          /\ \A n \in Messages \ {m} : outbox'[n] = outbox[n]
      BY <1>0, <2>3, NewRow DEF Shapes, NoRow
    <3>2. kept' = kept \cup {m}
      BY <1>0, <2>1, <2>3, <3>1 DEF kept
    <3>3. Promise!Keep(m)
      BY <2>1, <2>3, <3>2 DEF Promise!Keep, kept
    <3>4. QED BY <3>3 DEF PromiseStep
  <2>4. QED BY <2>1, <2>2, <2>3 DEF EnqueueOutcome
<1>2. CASE ~Enqueue(w)
  <2>1. TableKept(w) /\ DeliversHeld(w)
    BY <1>0, <1>2, TableEffect
  <2>2. kept' = kept
    <3>1. \A m \in Messages : m \in files' \ files => outbox[m] = NoRow
      BY <1>0, <2>1 DEF TableKept, Ledger
    <3>2. files' \subseteq Messages
      BY <1>0, <2>1 DEF TableKept
    <3>3. QED BY <1>0, <2>1, <3>1, <3>2 DEF TableKept, kept
  <2>3. recorded' = recorded /\ account' = account
    BY <2>1 DEF TableKept, logVars
  <2>4. CASE delivered' = delivered
    BY <2>2, <2>3, <2>4 DEF PromiseStep
  <2>5. ASSUME NEW m \in Messages, Holds(w, m), delivered' = [delivered EXCEPT ![m] = @ + 1]
        PROVE  PromiseStep
    <3>1. m \in recorded
      BY <1>0, <2>5 DEF Ledger
    <3>2. Promise!Deliver(m)
      BY <2>2, <2>3, <2>5, <3>1 DEF Promise!Deliver, kept
    <3>3. QED BY <3>2 DEF PromiseStep
  <2>6. QED BY <2>1, <2>4, <2>5 DEF DeliversHeld
<1>3. QED BY <1>1, <1>2

LEMMA PromiseSaver ==
    ASSUME Safe, NEW w \in Workers, SaveStep(w)
    PROVE  PromiseStep
<1>0. /\ Shapes /\ Ledger /\ files \subseteq Messages
      /\ saver[w] \in GoodSavers
  BY ShapesTyped DEF Safe, Typed, TypeOK
<1> DEFINE Same == recorded' = recorded /\ delivered' = delivered /\ account' = account
<1>1. ASSUME Same, files' = files, outbox' = outbox PROVE PromiseStep
  BY <1>1 DEF PromiseStep, kept
<1>2. ASSUME NEW m \in Messages, Appending(w, m), Same, kept' = kept \ {m} PROVE PromiseStep
  <2>1. delivered[m] > 0
    BY <1>0, <1>2 DEF Ledger
  <2>2. CASE m \in kept
    BY <1>2, <2>1, <2>2 DEF PromiseStep, Promise!Release, kept
  <2>3. CASE m \notin kept
    BY <1>2, <2>3 DEF PromiseStep
  <2>4. QED BY <2>2, <2>3
<1> USE DEF hostVars, smtpVars, logVars
<1>3. CASE SaveSelect(w) \/ SaveEnds(w) \/ AccountWorkerEnds(w)
  BY <1>1, <1>3 DEF SaveSelect, SaveEnds, AccountWorkerEnds
<1>4. CASE ClearRow(w)
  <2> DEFINE m == saver[w].cur
  <2>1. m \in Messages /\ Appending(w, m) /\ Same /\ files' = files
    BY <1>0, <1>4 DEF ClearRow, GoodSavers, Appending
  <2>2. outbox' = outbox \/ outbox' = [outbox EXCEPT ![m] = NoRow]
    BY <1>4 DEF ClearRow
  <2> HIDE DEF m
  <2>3. CASE outbox' = outbox
    BY <1>1, <2>1, <2>3
  <2>4. CASE outbox' = [outbox EXCEPT ![m] = NoRow]
    <3>1. kept' = kept \ {m}
      BY <1>0, <2>1, <2>4 DEF kept, Shapes
    <3>2. QED BY <1>2, <2>1, <3>1
  <2>5. QED BY <2>2, <2>3, <2>4
<1>5. CASE ClearFile(w)
  <2> DEFINE m == saver[w].cur
  <2>1. m \in Messages /\ Appending(w, m) /\ Same /\ outbox' = outbox
    BY <1>0, <1>5 DEF ClearFile, GoodSavers, Appending
  <2>2. files' = files \/ files' = files \ {m}
    BY <1>5 DEF ClearFile
  <2> HIDE DEF m
  <2>3. CASE files' = files
    BY <1>1, <2>1, <2>3
  <2>4. CASE files' = files \ {m}
    <3>1. kept' = kept \ {m}
      BY <2>1, <2>4 DEF kept
    <3>2. QED BY <1>2, <2>1, <3>1
  <2>5. QED BY <2>2, <2>3, <2>4
<1>6. ASSUME NEW m \in saver[w].batch, SaveTaken(w, m) \/ SaveRefused(w, m) PROVE PromiseStep
  BY <1>1, <1>6 DEF SaveTaken, SaveRefused
<1>7. QED BY <1>3, <1>4, <1>5, <1>6 DEF SaveStep

LEMMA PromiseHost ==
    ASSUME Safe, HostStep
    PROVE  PromiseStep
<1>0. Typed /\ files \subseteq Messages
  BY DEF Safe, Typed, TypeOK
<1> USE DEF hostVars, smtpVars, logVars
<1>1. ASSUME files' = files, recorded' = recorded, delivered' = delivered, account' = account,
             \A m \in Messages : outbox'[m] = NoRow <=> outbox[m] = NoRow
      PROVE  PromiseStep
  BY <1>0, <1>1 DEF PromiseStep, kept
<1>2. ASSUME NEW w \in Workers, Spawn(w) PROVE PromiseStep
  BY <1>1, <1>2 DEF Spawn
<1>3. ASSUME NEW m \in Messages, Send(m) PROVE PromiseStep
  BY <1>1, <1>3 DEF Send
<1>4. CASE Retire \/ RequestDrain
  BY <1>1, <1>4 DEF Retire, RequestDrain
<1>5. CASE Prune
  <2>1. /\ account /\ account' = FALSE /\ recorded' = recorded /\ delivered' = delivered
        /\ files' = files /\ \A m \in Messages : outbox'[m] = NoRow
    BY <1>5 DEF Prune
  <2>2. kept' = {}
    BY <1>0, <2>1 DEF kept
  <2>3. Promise!CloseAccount
    BY <2>1, <2>2 DEF Promise!CloseAccount, kept
  <2>4. QED BY <2>3 DEF PromiseStep
<1>6. CASE Tick
  BY <1>0, <1>1, <1>6, TickRows DEF Tick
<1>7. CASE Crash
  BY <1>1, <1>7 DEF Crash
<1>8. QED BY <1>2, <1>3, <1>4, <1>5, <1>6, <1>7 DEF HostStep

(* The send worker, the account worker and the service, with every failure *)
(* of Outbox, implement MailPromise (outbox.rs, module comment).           *)
THEOREM OutboxKeepsPromise == Spec => KeepsPromise
<1>1. Init => Promise!PromiseInit
  BY DEF Init, Promise!PromiseInit
<1>2. Safe /\ [Next]_vars => [Promise!PromiseNext]_(Promise!promiseVars)
  <2> SUFFICES ASSUME Safe, [Next]_vars
               PROVE  [Promise!PromiseNext]_(Promise!promiseVars)
    OBVIOUS
  <2>1. CASE UNCHANGED vars
    BY <2>1 DEF vars, hostVars, smtpVars, logVars, Promise!promiseVars
  <2>2. CASE HostStep \/ \E w \in Workers : SendWorkerStep(w) \/ SaveStep(w)
    <3>1. PromiseStep
      BY <2>2, PromiseHost, PromiseSendWorker, PromiseSaver
    <3>2. QED BY <3>1 DEF PromiseStep, kept, Promise!PromiseNext, Promise!promiseVars
  <2>3. QED BY <2>1, <2>2, NextCases
<1>3. QED BY <1>1, <1>2, SafeInit, SafeNext, PTL DEF Spec, KeepsPromise, Promise!PromiseSpec

-----------------------------------------------------------------------------
(* Submitted twice.                                                        *)
(* A pass holds an entry once: still to submit, or being submitted.        *)
Snapshot ==
    \A w \in Workers :
        /\ \A e, f \in worker[w].batch : e.msg = f.msg => e = f
        /\ worker[w].pc = "pass" => worker[w].cur = None
        /\ worker[w].pc \in BusyPcs => \A e \in worker[w].batch : e.msg # worker[w].cur.msg

(* Without a reason to be submitted twice, one worker at most holds a      *)
(* message, the server has not taken it while somebody may still submit    *)
(* it, and a pending one that it took is about to be marked.               *)
Lone ==
    \A m \in Messages \ resend :
        /\ delivered[m] <= 1
        /\ IsPending(m) /\ delivered[m] > 0 => \E w \in Workers : Accepted(w, m)
        /\ \A w \in Workers :
              /\ Holds(w, m) => Accepted(w, m) \/ delivered[m] = 0
              /\ \A v \in Workers : Holds(v, m) /\ Holds(w, m) => v = w

Careful == Safe /\ Snapshot /\ Lone

-----------------------------------------------------------------------------
(* The entries in a worker's hands.                                        *)

SnapshotAt(w) ==
    /\ \A e, f \in worker[w].batch : e.msg = f.msg => e = f
    /\ worker[w].pc = "pass" => worker[w].cur = None
    /\ worker[w].pc \in BusyPcs => \A e \in worker[w].batch : e.msg # worker[w].cur.msg

LEMMA SnapshotSendWorker ==
    ASSUME Safe, Snapshot, NEW w \in Workers, SendWorkerStep(w)
    PROVE  Snapshot'
<1> DEFINE here == worker[w]
<1>0. /\ Shapes /\ EmptyHands(w) /\ HandsKept(w) /\ SnapshotAt(w)
      /\ here.batch \subseteq Entries
  BY ShapesTyped, HandsEffect, EntryTyped DEF Safe, Ledger, Snapshot, SnapshotAt
<1>1. ASSUME SnapshotAt(w)' PROVE Snapshot'
  BY <1>0, <1>1 DEF HandsKept, Snapshot, SnapshotAt
<1>2. ASSUME worker'[w].batch = {}, worker'[w].pc # "pass" PROVE Snapshot'
  BY <1>1, <1>2 DEF SnapshotAt
<1>3. CASE DrainSelect(w)
  <2>1. /\ here.cur = None /\ worker'[w].pc = "pass" /\ worker'[w].cur = here.cur
        /\ worker'[w].batch =
              {[msg |-> m, attempts |-> outbox[m].attempts] : m \in Selected(w)}
    BY <1>0, <1>3 DEF DrainSelect, Shapes, WorkerStates, EmptyHands, InPass
  <2>2. QED BY <1>1, <2>1 DEF SnapshotAt, BusyPcs
<1>4. CASE PassAborts(w) \/ FinishPass(w)
  BY <1>0, <1>2, <1>4 DEF PassAborts, FinishPass, EndPass, Shapes, Off
<1>5. ASSUME NEW e \in here.batch, SubmitUnusable(w, e) PROVE Snapshot'
  <2>1. /\ worker'[w].pc = here.pc /\ worker'[w].cur = here.cur /\ here.pc = "pass"
        /\ worker'[w].batch \subseteq here.batch
    BY <1>0, <1>5 DEF SubmitUnusable, Shapes, WorkerStates, Served
  <2>2. QED BY <1>0, <1>1, <2>1 DEF SnapshotAt, BusyPcs
<1>6. ASSUME NEW e \in here.batch, SubmitMark(w, e) PROVE Snapshot'
  <2>1. /\ worker'[w].pc = "sending" /\ worker'[w].cur = e
        /\ worker'[w].batch = here.batch \ {e}
    BY <1>0, <1>6 DEF SubmitMark, Shapes, WorkerStates, Served
  <2>2. QED BY <1>0, <1>1, <2>1 DEF SnapshotAt
<1>7. CASE TransportAccepts(w) \/ TransportFails(w)
  <2>1. /\ worker'[w].pc \in {"accepted", "rejected"} /\ worker'[w].cur = here.cur
        /\ worker'[w].batch = here.batch /\ here.pc = "sending"
    BY <1>0, <1>7 DEF TransportAccepts, TransportFails, Shapes, WorkerStates
  <2>2. QED BY <1>0, <1>1, <2>1 DEF SnapshotAt, BusyPcs
<1>8. CASE RecordSent(w) \/ Reschedule(w)
  <2>1. /\ worker'[w].pc = "pass" /\ worker'[w].cur = None
        /\ worker'[w].batch = here.batch
    BY <1>0, <1>8 DEF RecordSent, Reschedule, Shapes, WorkerStates
  <2>2. QED BY <1>0, <1>1, <2>1 DEF SnapshotAt, BusyPcs
<1>9. CASE NextRetry(w) \/ TimerFires(w) \/ Enqueue(w)
  <2>1. /\ worker'[w].pc \in {"select", "drain"} /\ worker'[w].batch = here.batch
        /\ here.pc \in {"timer", "select", "enqueue"}
    BY <1>0, <1>9 DEF NextRetry, TimerFires, Enqueue, Shapes, WorkerStates
  <2>2. QED BY <1>0, <1>2, <2>1 DEF EmptyHands, InPass
<1>10. CASE ReceiveDrain(w)
  BY <1>0, <1>2, <1>10 DEF ReceiveDrain, Shapes, Off
<1>11. CASE ReceiveSend(w)
  BY <1>0, <1>2, <1>11 DEF ReceiveSend, Shapes, Off
<1>12. CASE ReceiveShutdown(w)
  BY <1>0, <1>2, <1>12 DEF ReceiveShutdown, Shapes, Off
<1>13. QED BY <1>3, <1>4, <1>5, <1>6, <1>7, <1>8, <1>9, <1>10, <1>11, <1>12 DEF SendWorkerStep

LEMMA SnapshotOthers ==
    ASSUME Safe, Snapshot,
           HostStep \/ (\E w \in Workers : SaveStep(w)) \/ UNCHANGED vars
    PROVE  Snapshot'
<1>0. Shapes
  BY ShapesTyped DEF Safe
<1>1. ASSUME worker' = worker PROVE Snapshot'
  BY <1>1 DEF Snapshot
<1>2. ASSUME NEW w \in Workers, Spawn(w) PROVE Snapshot'
  <2>1. /\ worker'[w].pc = "drain" /\ worker'[w].batch = {}
        /\ \A v \in Workers \ {w} : worker'[v] = worker[v]
    BY <1>0, <1>2 DEF Spawn, Shapes, Off
  <2>2. QED BY <2>1 DEF Snapshot, BusyPcs
<1>3. CASE Tick
  <2>1. \A v \in Workers :
           /\ worker'[v].pc = worker[v].pc /\ worker'[v].cur = worker[v].cur
           /\ worker'[v].batch = worker[v].batch
    BY <1>0, <1>3 DEF Tick, Shapes, WorkerStates
  <2>2. QED BY <2>1 DEF Snapshot
<1>4. CASE Crash
  BY <1>4 DEF Crash, Snapshot, Off
<1>5. CASE Retire \/ RequestDrain \/ Prune \/ (\E m \in Messages : Send(m)) \/ UNCHANGED vars
  BY <1>1, <1>5 DEF Retire, RequestDrain, Prune, Send, vars
<1>6. ASSUME NEW w \in Workers, SaveStep(w) PROVE Snapshot'
  BY <1>1, <1>6 DEF SaveStep, SaveSelect, ClearRow, ClearFile, SaveEnds, AccountWorkerEnds,
                    SaveTaken, SaveRefused
<1>7. QED BY <1>2, <1>3, <1>4, <1>5, <1>6 DEF HostStep

-----------------------------------------------------------------------------
(* One holder at most.                                                     *)

(* A step of w that gives w nothing new, after which w has nothing that    *)
(* was accepted and is not any more, and that leaves nothing pending that  *)
(* the server took - but for messages with a reason to be submitted twice. *)
LEMMA LoneStays ==
    ASSUME Lone, NEW w \in Workers, resend \subseteq resend',
           \A v \in Workers \ {w} : worker'[v] = worker[v],
           \A m \in Messages \ resend' :
               /\ delivered'[m] = delivered[m]
               /\ Holds(w, m)' => Holds(w, m) /\ (Accepted(w, m) => Accepted(w, m)')
               /\ IsPending(m)' => \/ delivered[m] = 0
                                   \/ IsPending(m) /\ (Accepted(w, m) => Accepted(w, m)')
    PROVE  Lone'
<1>1. SUFFICES ASSUME NEW m \in Messages \ resend'
      PROVE  /\ delivered'[m] <= 1
             /\ IsPending(m)' /\ delivered'[m] > 0 => \E v \in Workers : Accepted(v, m)'
             /\ \A v \in Workers :
                   /\ Holds(v, m)' => Accepted(v, m)' \/ delivered'[m] = 0
                   /\ \A u \in Workers : (Holds(u, m) /\ Holds(v, m))' => u = v
  BY DEF Lone
<1>2. m \notin resend /\ delivered'[m] = delivered[m]
  OBVIOUS
<1>3. \A v \in Workers \ {w} :
         (Holds(v, m)' <=> Holds(v, m)) /\ (Accepted(v, m)' <=> Accepted(v, m))
  BY DEF Holds, Accepted
<1>4. delivered'[m] <= 1
  BY <1>2 DEF Lone
<1>5. IsPending(m)' /\ delivered'[m] > 0 => \E v \in Workers : Accepted(v, m)'
  <2>1. SUFFICES ASSUME IsPending(m)', delivered'[m] > 0 PROVE \E v \in Workers : Accepted(v, m)'
    OBVIOUS
  <2>2. delivered[m] # 0 /\ delivered[m] > 0
    BY <1>2, <2>1
  <2>3. IsPending(m) /\ (Accepted(w, m) => Accepted(w, m)')
    BY <2>1, <2>2
  <2>4. PICK v \in Workers : Accepted(v, m)
    BY <1>2, <2>2, <2>3 DEF Lone
  <2>5. QED BY <1>3, <2>3, <2>4
<1>6. ASSUME NEW v \in Workers, Holds(v, m)' PROVE Accepted(v, m)' \/ delivered'[m] = 0
  <2>1. Holds(v, m) /\ (Accepted(v, m) => Accepted(v, m)')
    BY <1>3, <1>6
  <2>2. QED BY <1>2, <2>1 DEF Lone
<1>7. \A u, v \in Workers : (Holds(u, m) /\ Holds(v, m))' => u = v
  BY <1>2, <1>3 DEF Lone
<1>8. QED BY <1>4, <1>5, <1>6, <1>7

LEMMA LoneSelect ==
    ASSUME Careful, NEW w \in Workers, DrainSelect(w)
    PROVE  Lone'
<1>0. Shapes /\ Ledger /\ EmptyHands(w) /\ Lone
  BY ShapesTyped DEF Careful, Safe, Ledger
<1>1. /\ worker[w].pc = "drain" /\ worker[w].cur = None
      /\ worker'[w].pc = "pass" /\ worker'[w].cur = None
      /\ worker'[w].batch =
            {[msg |-> m, attempts |-> outbox[m].attempts] : m \in Selected(w)}
      /\ \A v \in Workers \ {w} : worker'[v] = worker[v]
  BY <1>0 DEF DrainSelect, Shapes, WorkerStates, EmptyHands, InPass
<1>2. /\ delivered' = delivered /\ outbox' = outbox
      /\ resend' = resend \cup {m \in Selected(w) : \E v \in Workers \ {w} : Holds(v, m)}
  BY DEF DrainSelect
<1>3. \A m \in Messages : (Holds(w, m)' => m \in Selected(w)) /\ ~Accepted(w, m) /\ ~Accepted(w, m)'
  BY <1>1 DEF Holds, Accepted
<1>4. SUFFICES ASSUME NEW m \in Messages \ resend'
      PROVE  /\ delivered'[m] <= 1
             /\ IsPending(m)' /\ delivered'[m] > 0 => \E v \in Workers : Accepted(v, m)'
             /\ \A v \in Workers :
                   /\ Holds(v, m)' => Accepted(v, m)' \/ delivered'[m] = 0
                   /\ \A u \in Workers : (Holds(u, m) /\ Holds(v, m))' => u = v
  BY DEF Lone
<1>5. \A v \in Workers \ {w} :
         (Holds(v, m)' <=> Holds(v, m)) /\ (Accepted(v, m)' <=> Accepted(v, m))
  BY <1>1 DEF Holds, Accepted
<1>6. m \notin resend /\ delivered'[m] = delivered[m] /\ (IsPending(m)' <=> IsPending(m))
  BY <1>2 DEF IsPending
<1>7. Holds(w, m)' => delivered[m] = 0 /\ \A v \in Workers \ {w} : ~Holds(v, m)
  <2>1. SUFFICES ASSUME Holds(w, m)'
        PROVE  delivered[m] = 0 /\ \A v \in Workers \ {w} : ~Holds(v, m)
    OBVIOUS
  <2>2. m \in Selected(w) /\ IsPending(m)
    BY <1>3, <2>1 DEF Selected
  <2>3. \A v \in Workers \ {w} : ~Holds(v, m)
    BY <1>2, <2>2
  <2>4. \A v \in Workers : ~Accepted(v, m)
    <3>1. ASSUME NEW v \in Workers, Accepted(v, m) PROVE FALSE
      <4>1. worker[v].cur # None
        BY <1>0, <3>1, EntryTyped, Bounds DEF Accepted, Careful, Safe, BusyPcs
      <4>2. Holds(v, m)
        BY <3>1, <4>1 DEF Accepted, Holds, InPass
      <4>3. QED BY <1>3, <2>3, <3>1, <4>2
    <3>2. QED BY <3>1
  <2>5. delivered[m] \in Nat
    BY <1>0 DEF Shapes
  <2>6. QED BY <1>0, <1>6, <2>2, <2>3, <2>4, <2>5 DEF Lone
<1>8. QED BY <1>0, <1>3, <1>5, <1>6, <1>7 DEF Lone

LEMMA LoneAccepts ==
    ASSUME Careful, NEW w \in Workers, TransportAccepts(w)
    PROVE  Lone'
<1> DEFINE n == worker[w].cur.msg
<1>0. Shapes /\ Ledger /\ Lone /\ SnapshotAt(w)
  BY ShapesTyped DEF Careful, Safe, Snapshot, SnapshotAt
<1>1. /\ worker[w].pc = "sending" /\ worker'[w].pc = "accepted"
      /\ worker'[w].cur = worker[w].cur /\ worker'[w].batch = worker[w].batch
      /\ \A v \in Workers \ {w} : worker'[v] = worker[v]
  BY <1>0 DEF TransportAccepts, Shapes, WorkerStates
<1>2. n \in Messages /\ worker[w].cur # None
  BY <1>1, EntryTyped, Bounds DEF Careful, Safe, BusyPcs
<1>3. /\ outbox' = outbox /\ resend' = resend
      /\ delivered' = [delivered EXCEPT ![n] = @ + 1]
  BY DEF TransportAccepts
<1>4. \A m \in Messages :
         /\ Holds(w, m)' <=> Holds(w, m)
         /\ Accepted(w, m)' <=> m = n
         /\ ~Accepted(w, m)
         /\ IsPending(m)' <=> IsPending(m)
         /\ delivered[m] \in Nat
         /\ delivered'[m] = IF m = n THEN delivered[m] + 1 ELSE delivered[m]
  BY <1>0, <1>1, <1>3 DEF Holds, Accepted, IsPending, InPass, Shapes
<1>5. Holds(w, n)
  BY <1>1, <1>2 DEF Holds, InPass
<1>6. \A v \in Workers \ {w}, m \in Messages :
         (Holds(v, m)' <=> Holds(v, m)) /\ (Accepted(v, m)' <=> Accepted(v, m))
  BY <1>1 DEF Holds, Accepted
<1> HIDE DEF n
<1>7. n \notin resend => delivered[n] = 0 /\ \A v \in Workers \ {w} : ~Holds(v, n)
  BY <1>0, <1>2, <1>4, <1>5 DEF Lone
<1>8. SUFFICES ASSUME NEW m \in Messages \ resend
      PROVE  /\ delivered'[m] <= 1
             /\ IsPending(m)' /\ delivered'[m] > 0 => \E v \in Workers : Accepted(v, m)'
             /\ \A v \in Workers :
                   /\ Holds(v, m)' => Accepted(v, m)' \/ delivered'[m] = 0
                   /\ \A u \in Workers : (Holds(u, m) /\ Holds(v, m))' => u = v
  BY <1>3 DEF Lone
<1>9. CASE m = n
  BY <1>4, <1>6, <1>7, <1>9
<1>10. CASE m # n
  <2>1. delivered'[m] = delivered[m] /\ delivered[m] <= 1
    BY <1>0, <1>4, <1>10 DEF Lone
  <2>2. IsPending(m)' /\ delivered'[m] > 0 => \E v \in Workers : Accepted(v, m)'
    BY <1>0, <1>4, <1>6, <1>10, <2>1 DEF Lone
  <2>3. \A v \in Workers : Holds(v, m)' => Accepted(v, m)' \/ delivered'[m] = 0
    BY <1>0, <1>4, <1>6, <1>10, <2>1 DEF Lone
  <2>4. \A u, v \in Workers : (Holds(u, m) /\ Holds(v, m))' => u = v
    BY <1>0, <1>4, <1>6 DEF Lone
  <2>5. QED BY <2>1, <2>2, <2>3, <2>4
<1>11. QED BY <1>9, <1>10

LEMMA LoneSendWorker ==
    ASSUME Careful, NEW w \in Workers, SendWorkerStep(w)
    PROVE  Lone'
<1> DEFINE here == worker[w]
           n == here.cur.msg
<1>0. /\ Shapes /\ Typed /\ OnePlace /\ Ledger /\ Lone /\ SnapshotAt(w)
      /\ HandsKept(w) /\ EmptyHands(w)'
  BY ShapesTyped, HandsEffect DEF Careful, Safe, Snapshot, SnapshotAt, HandsKept
<1> USE DEF smtpVars
(* A step that changes neither the table nor what was delivered.           *)
<1>1. ASSUME ~DrainSelect(w), here.pc # "accepted", outbox' = outbox, delivered' = delivered,
             resend' = resend
      PROVE  Lone'
  BY <1>0, <1>1, LoneStays DEF HandsKept, Accepted, IsPending
<1>2. CASE DrainSelect(w)
  BY <1>2, LoneSelect
<1>3. CASE TransportAccepts(w)
  BY <1>3, LoneAccepts
<1>4. CASE PassAborts(w)
  <2>1. /\ delivered' = delivered /\ outbox' = outbox /\ ~DrainSelect(w)
        /\ resend' = IF here.pc = "accepted" THEN resend \cup {n} ELSE resend
    BY ZenonT(40), <1>0, <1>4 DEF PassAborts, EndPass, DrainSelect, Shapes, Off
  <2>2. \A m \in Messages \ resend' : ~Accepted(w, m)
    BY <2>1 DEF Accepted
  <2>3. QED BY <1>0, <2>1, <2>2, LoneStays DEF HandsKept, IsPending
<1>5. CASE FinishPass(w)
  BY <1>0, <1>1, <1>5 DEF FinishPass, EndPass, DrainSelect, Shapes, Off
(* A step that updates the row of a message that w holds.                  *)
<1>6. ASSUME NEW m \in Messages, NEW state \in {"queued", "sending", "sent", "failed"},
             NEW attempts, NEW wait, UpdateOutbox(m, state, attempts, wait),
             Holds(w, m), ~DrainSelect(w), delivered' = delivered, resend' = resend,
             \A k \in Messages : Accepted(w, k) => k = m,
             \A k \in Messages : Holds(w, k)' => ~Accepted(w, k),
             Accepted(w, m) => state = "sent"
      PROVE  Lone'
  <2>1. /\ \A k \in Messages : outbox'[k] = NoRow <=> outbox[k] = NoRow
        /\ \A k \in Messages \ {m} : outbox'[k] = outbox[k]
        /\ outbox[m] # NoRow => outbox'[m].state = state
    BY <1>0, <1>6, UpdateOutboxEffect
  <2>2. ASSUME NEW k \in Messages \ resend', IsPending(k)'
        PROVE  \/ delivered[k] = 0
               \/ IsPending(k) /\ (Accepted(w, k) => Accepted(w, k)')
    <3>1. CASE k = m
      <4>1. outbox[m] # NoRow /\ outbox'[m].state = state
        BY <2>1, <2>2, <3>1 DEF IsPending, NoRow
      <4>2. ~Accepted(w, m)
        BY <1>6, <2>2, <3>1, <4>1 DEF IsPending
      <4>3. QED BY <1>0, <1>6, <3>1, <4>2 DEF Lone
    <3>2. CASE k # m
      BY <1>6, <2>1, <2>2, <3>2 DEF IsPending
    <3>3. QED BY <3>1, <3>2
  <2>3. \A k \in Messages : Holds(w, k)' => Holds(w, k)
    BY <1>0, <1>3, <1>6 DEF HandsKept
  <2>4. QED BY <1>0, <1>6, <2>2, <2>3, LoneStays DEF HandsKept
<1>7. ASSUME NEW e \in here.batch, SubmitUnusable(w, e) \/ SubmitMark(w, e) PROVE Lone'
  <2>1. /\ e.msg \in Messages /\ Holds(w, e.msg) /\ here.pc = "pass" /\ ~DrainSelect(w)
    BY <1>0, <1>7, EntryTyped DEF SubmitUnusable, SubmitMark, DrainSelect, Holds
  <2>2. /\ delivered' = delivered /\ resend' = resend
        /\ \E state \in {"failed", "sending"} : UpdateOutbox(e.msg, state, e.attempts, 0)
    BY <1>7 DEF SubmitUnusable, SubmitMark
  <2>3. \A k \in Messages : ~Accepted(w, k)
    BY <2>1 DEF Accepted
  <2>4. QED BY <1>6, <2>1, <2>2, <2>3
<1>8. ASSUME here.pc \in {"sending", "accepted", "rejected"}
      PROVE  /\ n \in Messages /\ Holds(w, n) /\ ~DrainSelect(w)
             /\ \A k \in Messages : Accepted(w, k) => k = n
  BY <1>0, <1>8, EntryTyped, Bounds DEF BusyPcs, Holds, InPass, Accepted, DrainSelect
<1>9. CASE TransportFails(w)
  <2>1. /\ here.pc = "sending" /\ worker'[w].pc = "rejected" /\ outbox' = outbox
        /\ resend \subseteq resend'
        /\ \A m \in Messages \ resend' : delivered'[m] = delivered[m]
    BY <1>0, <1>9 DEF TransportFails, Shapes
  <2>2. /\ \A m \in Messages : ~Accepted(w, m) /\ (IsPending(m)' <=> IsPending(m))
        /\ \A m \in Messages : Holds(w, m)' => Holds(w, m)
    BY <1>0, <1>8, <2>1 DEF Accepted, IsPending, HandsKept
  <2>3. QED BY <1>0, <2>1, <2>2, LoneStays DEF HandsKept
<1>10. CASE RecordSent(w) \/ Reschedule(w)
  <2>1. /\ here.pc \in {"accepted", "rejected"}
        /\ worker'[w].pc = "pass" /\ worker'[w].cur = None /\ worker'[w].batch = here.batch
        /\ delivered' = delivered /\ resend' = resend
        /\ \E state \in {"sent", "queued", "failed"} : \E attempts, wait :
              /\ UpdateOutbox(n, state, attempts, wait)
              /\ here.pc = "accepted" => state = "sent"
    <3>1. CASE RecordSent(w)
      BY <1>0, <3>1 DEF RecordSent, Shapes, WorkerStates
    <3>2. CASE Reschedule(w)
      BY <1>0, <3>2 DEF Reschedule, Shapes, WorkerStates
    <3>3. QED BY <1>10, <3>1, <3>2
  <2>2. \A k \in Messages : Holds(w, k)' => ~Accepted(w, k)
    BY <1>0, <2>1 DEF Holds, Accepted, SnapshotAt, BusyPcs
  <2>3. Accepted(w, n) => here.pc = "accepted"
    BY DEF Accepted
  <2>4. n \in Messages /\ Holds(w, n) /\ ~DrainSelect(w) /\ \A k \in Messages : Accepted(w, k) => k = n
    BY <1>8, <2>1
  <2> HIDE DEF n
  <2>5. QED BY <1>6, <2>1, <2>2, <2>3, <2>4
<1>11. CASE NextRetry(w) \/ TimerFires(w) \/ ReceiveDrain(w) \/ ReceiveSend(w) \/ ReceiveShutdown(w)
  <2>1. here.pc \in {"timer", "select"} /\ delivered' = delivered /\ resend' = resend
        /\ outbox' = outbox
    BY <1>11 DEF NextRetry, TimerFires, ReceiveDrain, ReceiveSend, ReceiveShutdown, Receive
  <2>2. QED BY <1>1, <2>1 DEF DrainSelect
<1>12. CASE Enqueue(w)
  <2>1. PICK m \in Messages :
              /\ m \in (handed \ recorded) \cap files
              /\ outbox[m] = NoRow /\ delivered[m] = 0
              /\ EnqueueOutcome(m)
              /\ handed' = handed /\ saver' = saver /\ delivered' = delivered
              /\ pruned' = pruned /\ account' = account
    BY <1>0, <1>12, EnqueueEffect
  <2>2. here.pc = "enqueue" /\ resend' = resend
    BY <1>12 DEF Enqueue
  <2>3. \A k \in Messages : IsPending(k)' => delivered[k] = 0 \/ IsPending(k)
    BY <1>0, <2>1 DEF EnqueueOutcome, IsPending, Shapes
  <2>4. /\ \A k \in Messages : ~Accepted(w, k)
        /\ \A k \in Messages : Holds(w, k)' => Holds(w, k)
    BY <1>0, <2>2 DEF Accepted, HandsKept, DrainSelect
  <2>5. QED BY <1>0, <2>1, <2>2, <2>3, <2>4, LoneStays DEF HandsKept
<1>13. QED BY <1>2, <1>3, <1>4, <1>5, <1>7, <1>9, <1>10, <1>11, <1>12 DEF SendWorkerStep

LEMMA LoneOthers ==
    ASSUME Careful, HostStep \/ (\E w \in Workers : SaveStep(w)) \/ UNCHANGED vars
    PROVE  Lone'
<1>0. Shapes /\ Typed /\ Lone
  BY ShapesTyped DEF Careful, Safe
<1> USE DEF smtpVars, hostVars
<1>1. ASSUME delivered' = delivered, resend' = resend,
             \A m \in Messages : IsPending(m)' => IsPending(m),
             \A v \in Workers, m \in Messages :
                 (Holds(v, m)' <=> Holds(v, m)) /\ (Accepted(v, m)' <=> Accepted(v, m))
      PROVE  Lone'
  BY <1>0, <1>1 DEF Lone
<1>2. ASSUME worker' = worker
      PROVE  \A v \in Workers, m \in Messages :
                 (Holds(v, m)' <=> Holds(v, m)) /\ (Accepted(v, m)' <=> Accepted(v, m))
  BY <1>2 DEF Holds, Accepted
<1>3. ASSUME NEW w \in Workers, Spawn(w) PROVE Lone'
  <2>1. /\ worker[w].pc = "off" /\ worker'[w].pc = "drain" /\ worker'[w].batch = {}
        /\ \A v \in Workers \ {w} : worker'[v] = worker[v]
        /\ outbox' = outbox /\ delivered' = delivered /\ resend' = resend
    BY <1>0, <1>3 DEF Spawn, Shapes, Off
  <2>2. \A m \in Messages :
           /\ Holds(w, m)' => Holds(w, m) /\ (Accepted(w, m) => Accepted(w, m)')
           /\ IsPending(m)' => IsPending(m) /\ ~Accepted(w, m)
    BY <2>1 DEF Holds, Accepted, IsPending, InPass
  <2>3. QED BY <1>0, <2>1, <2>2, LoneStays
<1>4. CASE Tick
  <2>1. \A v \in Workers :
           /\ worker'[v].pc = worker[v].pc /\ worker'[v].cur = worker[v].cur
           /\ worker'[v].batch = worker[v].batch
    BY <1>0, <1>4 DEF Tick, Shapes, WorkerStates
  <2>2. \A v \in Workers, m \in Messages :
           (Holds(v, m)' <=> Holds(v, m)) /\ (Accepted(v, m)' <=> Accepted(v, m))
    BY <2>1 DEF Holds, Accepted
  <2>3. \A m \in Messages : IsPending(m)' => IsPending(m)
    BY <1>0, <1>4, TickRows DEF IsPending
  <2>4. QED BY <1>1, <1>4, <2>2, <2>3 DEF Tick
<1>5. CASE Crash
  <2>1. /\ \A v \in Workers : worker'[v] = Off
        /\ outbox' = outbox /\ delivered' = delivered
        /\ resend \subseteq resend'
        /\ \A v \in Workers : worker[v].pc = "accepted" => worker[v].cur.msg \in resend'
    BY <1>5 DEF Crash
  <2>2. \A v \in Workers, m \in Messages : ~Holds(v, m)'
    BY <2>1, Bounds DEF Holds, Off, InPass
  <2>3. \A v \in Workers, m \in Messages \ resend' : ~Accepted(v, m)
    BY <2>1 DEF Accepted
  <2>4. \A m \in Messages : IsPending(m)' <=> IsPending(m)
    BY <2>1 DEF IsPending
  <2>5. QED BY <1>0, <2>1, <2>2, <2>3, <2>4 DEF Lone
<1>6. CASE Prune
  <2>1. \A m \in Messages : ~IsPending(m)'
    BY <1>6 DEF Prune, IsPending, NoRow
  <2>2. QED BY <1>1, <1>2, <1>6, <2>1 DEF Prune
<1>7. CASE Retire \/ RequestDrain \/ (\E m \in Messages : Send(m)) \/ UNCHANGED vars
  <2>1. worker' = worker /\ outbox' = outbox /\ delivered' = delivered /\ resend' = resend
    BY <1>7 DEF Retire, RequestDrain, Send, vars
  <2>2. QED BY <1>1, <1>2, <2>1 DEF IsPending
<1>8. ASSUME NEW w \in Workers, SaveStep(w) PROVE Lone'
  <2>1. worker' = worker /\ delivered' = delivered /\ resend' = resend
    BY <1>8 DEF SaveStep, SaveSelect, ClearRow, ClearFile, SaveEnds, AccountWorkerEnds,
                SaveTaken, SaveRefused
  <2>2. outbox' = outbox \/ outbox' = [outbox EXCEPT ![saver[w].cur] = NoRow]
    BY <1>8 DEF SaveStep, SaveSelect, ClearRow, ClearFile, SaveEnds, AccountWorkerEnds,
                SaveTaken, SaveRefused
  <2>3. \A m \in Messages : IsPending(m)' => IsPending(m)
    <3>1. CASE outbox' = outbox
      BY <3>1 DEF IsPending
    <3>2. CASE outbox' = [outbox EXCEPT ![saver[w].cur] = NoRow]
      <4>1. NoRow.state = "none"
        BY DEF NoRow
      <4>2. \A m \in Messages : outbox'[m] = outbox[m] \/ outbox'[m] = NoRow
        BY <1>0, <3>2 DEF Shapes
      <4>3. QED BY <4>1, <4>2 DEF IsPending
    <3>3. QED BY <2>2, <3>1, <3>2
  <2>4. QED BY <1>1, <1>2, <2>1, <2>3
<1>9. QED BY <1>3, <1>4, <1>5, <1>6, <1>7, <1>8 DEF HostStep

LEMMA CarefulInit == Init => Careful
<1> SUFFICES ASSUME Init PROVE Careful
  OBVIOUS
<1>1. Snapshot
  BY DEF Init, Snapshot, Off, BusyPcs
<1>2. Lone
  BY DEF Init, Lone, IsPending, NoRow, Holds, Off, InPass
<1>3. QED BY <1>1, <1>2, SafeInit DEF Careful

LEMMA CarefulNext == Careful /\ [Next]_vars => Careful'
BY SafeNext, NextCases, SnapshotSendWorker, SnapshotOthers, LoneSendWorker, LoneOthers
   DEF Careful

(* The server takes a message twice only if the process died, or the store *)
(* failed, between its answer and the Sent mark, if its answer was lost,   *)
(* or if two workers had the entry in their snapshots (outbox.rs, submit). *)
THEOREM DuplicatesExplained == Spec => []DuplicatesHaveACause
<1>1. Careful => DuplicatesHaveACause
  <2>1. SUFFICES ASSUME Careful, NEW m \in Messages, delivered[m] > 1 PROVE m \in resend
    BY DEF DuplicatesHaveACause
  <2>2. delivered[m] \in Nat
    BY <2>1, ShapesTyped DEF Careful, Safe, Shapes
  <2>3. QED BY <2>1, <2>2 DEF Careful, Lone
<1>2. QED BY <1>1, CarefulInit, CarefulNext, PTL DEF Spec

-----------------------------------------------------------------------------
(* Given up, and appended twice.                                           *)


(* Nothing is kept for an account that is gone, nor pruned before it goes. *)
Owned ==
    /\ account => pruned = {}
    /\ ~account => \A m \in Messages : outbox[m] = NoRow

(* Only what is being cleared is in an account worker's hand.              *)
EmptySaver(w) ==
    /\ saver[w].pc \in {"off", "idle"} => saver[w].batch = {}
    /\ saver[w].pc \notin {"clear", "unlink"} => saver[w].cur = None

(* A message without a reason to be appended twice: one worker at most     *)
(* appends it, the Sent folder does not have it while its file may still   *)
(* be appended, and what the folder has is about to go, or is gone.        *)
Solo(m) ==
    /\ copies[m] <= 1
    /\ outbox[m] # NoRow /\ m \in files /\ copies[m] > 0
          => \E w \in Workers : saver[w].cur = m
    /\ \A w \in Workers :
          /\ m \in saver[w].batch =>
                 saver[w].cur # m /\ (m \in files => copies[m] = 0)
          /\ \A v \in Workers : Appending(v, m) /\ Appending(w, m) => v = w

Single ==
    /\ \A w \in Workers : EmptySaver(w)
    /\ \A m \in Messages : copies[m] > 0 => m \in recorded
    /\ \A m \in Messages \ recopy : Solo(m)

Settled == Safe /\ Owned /\ GivesUpOnlyWhenExhausted
Saved == Safe /\ Single

-----------------------------------------------------------------------------
(* The rows of an account that is gone.                                    *)

LEMMA OwnedNext ==
    ASSUME Safe, Owned, [Next]_vars
    PROVE  Owned'
<1>0. Shapes /\ Typed /\ OnePlace /\ Ledger
  BY ShapesTyped DEF Safe
<1> USE DEF hostVars, logVars
<1>1. ASSUME account' = account, pruned' = pruned,
             \A m \in Messages : outbox[m] = NoRow => outbox'[m] = NoRow
      PROVE  Owned'
  BY <1>1 DEF Owned
<1>2. CASE UNCHANGED vars
  BY <1>1, <1>2 DEF vars
<1>3. CASE HostStep
  <2>1. CASE Prune
    BY <2>1 DEF Prune, Owned
  <2>2. CASE Tick
    BY <1>0, <1>1, <2>2, TickRows DEF Tick
  <2>3. CASE \/ \E w \in Workers : Spawn(w)
             \/ \E m \in Messages : Send(m)
             \/ Retire \/ RequestDrain \/ Crash
    BY <1>1, <2>3 DEF Spawn, Send, Retire, RequestDrain, Crash
  <2>4. QED BY <1>3, <2>1, <2>2, <2>3 DEF HostStep
<1>4. ASSUME NEW w \in Workers, SendWorkerStep(w) PROVE Owned'
  <2>1. CASE ~Enqueue(w)
    BY <1>0, <1>1, <1>4, <2>1, TableEffect DEF TableKept
  <2>2. CASE Enqueue(w)
    <3>1. PICK m \in Messages :
             EnqueueOutcome(m) /\ pruned' = pruned /\ account' = account
      BY <1>0, <2>2, EnqueueEffect
    <3>2. CASE account
      BY <3>1, <3>2 DEF Owned
    <3>3. CASE ~account
      BY <1>1, <3>1, <3>3 DEF EnqueueOutcome
    <3>4. QED BY <3>2, <3>3
  <2>3. QED BY <2>1, <2>2
<1>5. ASSUME NEW w \in Workers, SaveStep(w) PROVE Owned'
  <2>1. account' = account /\ pruned' = pruned
    BY <1>5 DEF SaveStep, SaveSelect, ClearRow, ClearFile, SaveEnds, AccountWorkerEnds,
                SaveTaken, SaveRefused
  <2>2. outbox' = outbox \/ outbox' = [outbox EXCEPT ![saver[w].cur] = NoRow]
    BY <1>5 DEF SaveStep, SaveSelect, ClearRow, ClearFile, SaveEnds, AccountWorkerEnds,
                SaveTaken, SaveRefused
  <2>3. QED BY <1>0, <1>1, <2>1, <2>2 DEF Shapes
<1>6. QED BY <1>2, <1>3, <1>4, <1>5, NextCases

-----------------------------------------------------------------------------
(* Giving up.                                                              *)

(* A row given up by this step had all its attempts.                       *)
LEMMA GivesUpStays ==
    ASSUME GivesUpOnlyWhenExhausted,
           \A m \in Messages : delivered'[m] = 0 => delivered[m] = 0,
           \A m \in Messages \ NoRecipients :
               "file" \notin Faults /\ outbox'[m].state = "failed" /\ delivered[m] = 0 =>
                   \/ outbox'[m].attempts = MaxAttempts
                   \/ /\ outbox[m].state = "failed"
                      /\ outbox'[m].attempts = outbox[m].attempts
    PROVE  GivesUpOnlyWhenExhausted'
BY DEF GivesUpOnlyWhenExhausted

(* The rest of a row that an UPDATE leaves.                                *)
LEMMA UpdateOutboxRow ==
    ASSUME Shapes, NEW m \in Messages, NEW state, NEW attempts, NEW wait,
           UpdateOutbox(m, state, attempts, wait)
    PROVE  /\ \A n \in Messages : n # m => outbox'[n] = outbox[n]
           /\ outbox'[m] = IF outbox[m] = NoRow THEN NoRow
                           ELSE [state |-> state, attempts |-> attempts, wait |-> wait]
BY DEF UpdateOutbox, Shapes

LEMMA GivesUpSendWorker ==
    ASSUME Settled, NEW w \in Workers, SendWorkerStep(w)
    PROVE  GivesUpOnlyWhenExhausted'
<1> DEFINE here == worker[w]
           n == here.cur.msg
<1>0. /\ Shapes /\ Typed /\ OnePlace /\ Ledger /\ GivesUpOnlyWhenExhausted
      /\ NoRow.state = "none"
  BY ShapesTyped DEF Settled, Safe, NoRow
<1> USE DEF smtpVars
<1>1. \A m \in Messages : delivered'[m] = 0 => delivered[m] = 0
  <2>1. CASE Enqueue(w)
    BY <2>1 DEF Enqueue
  <2>2. CASE ~Enqueue(w)
    BY <1>0, <2>2, TableEffect, DeliveriesGrow
  <2>3. QED BY <2>1, <2>2
<1>2. ASSUME outbox' = outbox PROVE GivesUpOnlyWhenExhausted'
  BY <1>0, <1>1, <1>2, GivesUpStays
<1>3. ASSUME NEW m \in Messages,
             NEW state \in {"queued", "sending", "sent", "failed"},
             NEW attempts \in 0 .. MaxAttempts, NEW wait \in Int,
             UpdateOutbox(m, state, attempts, wait),
             \/ state # "failed" \/ "file" \in Faults \/ m \in NoRecipients
             \/ outbox[m] = NoRow \/ delivered[m] # 0 \/ attempts = MaxAttempts
      PROVE  GivesUpOnlyWhenExhausted'
  <2>1. /\ \A k \in Messages : k # m => outbox'[k] = outbox[k]
        /\ outbox'[m] = IF outbox[m] = NoRow THEN NoRow
                        ELSE [state |-> state, attempts |-> attempts, wait |-> wait]
    BY <1>0, <1>3, UpdateOutboxRow
  <2>2. QED BY <1>0, <1>1, <1>3, <2>1, GivesUpStays
<1>4. CASE \/ DrainSelect(w) \/ PassAborts(w) \/ FinishPass(w) \/ NextRetry(w) \/ TimerFires(w)
           \/ TransportAccepts(w) \/ TransportFails(w)
           \/ ReceiveDrain(w) \/ ReceiveSend(w) \/ ReceiveShutdown(w)
  BY <1>2, <1>4 DEF DrainSelect, PassAborts, FinishPass, NextRetry, TimerFires, TransportAccepts,
                    TransportFails, ReceiveDrain, ReceiveSend, ReceiveShutdown
(* What cannot be read was never recorded, or was delivered.               *)
<1>5. ASSUME NEW e \in here.batch, SubmitUnusable(w, e) PROVE GivesUpOnlyWhenExhausted'
  <2>1. /\ e.msg \in Messages /\ e.attempts \in 0 .. MaxAttempts
        /\ UpdateOutbox(e.msg, "failed", e.attempts, 0)
    BY <1>0, <1>5, EntryTyped DEF SubmitUnusable
  <2>2. ASSUME "file" \notin Faults, e.msg \notin NoRecipients, outbox[e.msg] # NoRow,
               delivered[e.msg] = 0
        PROVE  FALSE
    <3>1. e.msg \notin files
      BY <1>5, <2>2 DEF SubmitUnusable, Fault
    <3>2. e.msg \in recorded
      BY <1>0, <2>1, <2>2 DEF Ledger
    <3>3. e.msg \notin pruned
      BY <2>1, <2>2 DEF Settled, Owned
    <3>4. QED BY <2>2, <3>1, <3>2, <3>3 DEF Settled, Safe, KeptUntilDelivered
  <2>3. QED BY <1>3, <2>1, <2>2
<1>6. ASSUME NEW e \in here.batch, SubmitMark(w, e) PROVE GivesUpOnlyWhenExhausted'
  <2>1. /\ e.msg \in Messages /\ e.attempts \in 0 .. MaxAttempts
        /\ UpdateOutbox(e.msg, "sending", e.attempts, 0)
    BY <1>0, <1>6, EntryTyped DEF SubmitMark
  <2>2. QED BY <1>3, <2>1
<1>7. CASE RecordSent(w)
  <2>1. /\ n \in Messages /\ here.cur.attempts \in 0 .. MaxAttempts
        /\ UpdateOutbox(n, "sent", here.cur.attempts, 0)
    BY <1>0, <1>7, EntryTyped DEF RecordSent, BusyPcs
  <2>2. QED BY <1>3, <2>1
<1>8. CASE Reschedule(w)
  <2> DEFINE k == here.cur.attempts + 1
             delay == Less(Backoff(k), here.lag)
  <2>1. /\ n \in Messages /\ k \in 0 .. MaxAttempts
        /\ Exhausted(k) => k = MaxAttempts
    <3>1. /\ n \in Messages /\ here.cur.attempts \in 0 .. MaxAttempts
          /\ here.cur.attempts < MaxAttempts
      BY <1>0, <1>8, EntryTyped DEF Reschedule, BusyPcs
    <3>2. QED BY <3>1, Bounds DEF Exhausted
  <2>2. delay \in Int
    <3>1. here.lag \in 0 .. MaxBackoff
      BY <1>0, EntryTyped DEF WorkerStates
    <3>2. k \in Int
      BY <2>1, Bounds
    <3> HIDE DEF k, here
    <3>3. delay \in 0 .. MaxBackoff
      BY <3>1, <3>2, DelayTyped
    <3>4. QED BY <3>3, Bounds
  <2>3. \/ UpdateOutbox(n, "failed", k, 0) /\ k = MaxAttempts
        \/ UpdateOutbox(n, "queued", k, delay)
    BY <1>8, <2>1 DEF Reschedule
  <2> HIDE DEF n, k, delay
  <2>4. QED BY <1>3, <2>1, <2>2, <2>3
<1>9. CASE Enqueue(w)
  <2>1. PICK m \in Messages : EnqueueOutcome(m)
    BY <1>0, <1>9, EnqueueEffect
  <2>2. \A k \in Messages : outbox'[k] = outbox[k] \/ outbox'[k].state = "queued"
    BY <1>0, <2>1, NewRow DEF EnqueueOutcome, Shapes
  <2>3. QED BY <1>0, <1>1, <2>2, GivesUpStays
<1>10. QED BY <1>4, <1>5, <1>6, <1>7, <1>8, <1>9 DEF SendWorkerStep

LEMMA GivesUpOthers ==
    ASSUME Settled, HostStep \/ (\E w \in Workers : SaveStep(w)) \/ UNCHANGED vars
    PROVE  GivesUpOnlyWhenExhausted'
<1>0. Shapes /\ Typed /\ GivesUpOnlyWhenExhausted /\ NoRow.state = "none"
  BY ShapesTyped DEF Settled, Safe, NoRow
<1> USE DEF smtpVars, hostVars
<1>1. delivered' = delivered
  <2>1. CASE HostStep
    BY <2>1 DEF HostStep, Spawn, Send, Retire, RequestDrain, Prune, Tick, Crash
  <2>2. CASE \E w \in Workers : SaveStep(w)
    BY <2>2 DEF SaveStep, SaveSelect, ClearRow, ClearFile, SaveEnds, AccountWorkerEnds,
                SaveTaken, SaveRefused
  <2>3. QED BY <2>1, <2>2 DEF vars
<1>2. ASSUME \A m \in Messages :
                 \/ outbox'[m].state # "failed"
                 \/ /\ outbox'[m].state = outbox[m].state
                    /\ outbox'[m].attempts = outbox[m].attempts
      PROVE  GivesUpOnlyWhenExhausted'
  BY <1>0, <1>1, <1>2, GivesUpStays
<1>3. CASE Tick
  <2>1. ASSUME NEW m \in Messages
        PROVE  outbox'[m].state = outbox[m].state /\ outbox'[m].attempts = outbox[m].attempts
    <3>1. outbox[m] \in Rows /\ outbox'[m] = [outbox[m] EXCEPT !.wait = Less(@, 1)]
      BY <1>0, <1>3 DEF Tick, Shapes
    <3>2. QED BY <3>1 DEF Rows
  <2>2. QED BY <1>2, <2>1
<1>4. CASE Prune
  BY <1>0, <1>2, <1>4 DEF Prune
<1>5. CASE \/ \E w \in Workers : Spawn(w)
           \/ \E m \in Messages : Send(m)
           \/ Retire \/ RequestDrain \/ Crash \/ UNCHANGED vars
  BY <1>2, <1>5 DEF Spawn, Send, Retire, RequestDrain, Crash, vars
<1>6. ASSUME NEW w \in Workers, SaveStep(w) PROVE GivesUpOnlyWhenExhausted'
  <2>1. outbox' = outbox \/ outbox' = [outbox EXCEPT ![saver[w].cur] = NoRow]
    BY <1>6 DEF SaveStep, SaveSelect, ClearRow, ClearFile, SaveEnds, AccountWorkerEnds,
                SaveTaken, SaveRefused
  <2>2. \A m \in Messages : outbox'[m] = outbox[m] \/ outbox'[m] = NoRow
    BY <1>0, <2>1 DEF Shapes
  <2>3. QED BY <1>0, <1>2, <2>2
<1>7. QED BY <1>3, <1>4, <1>5, <1>6 DEF HostStep

LEMMA SettledInit == Init => Settled
<1> SUFFICES ASSUME Init PROVE Settled
  OBVIOUS
<1>1. Owned
  BY DEF Init, Owned
<1>2. GivesUpOnlyWhenExhausted
  BY DEF Init, GivesUpOnlyWhenExhausted, NoRow
<1>3. QED BY <1>1, <1>2, SafeInit DEF Settled

LEMMA SettledNext == Settled /\ [Next]_vars => Settled'
BY SafeNext, OwnedNext, NextCases, GivesUpSendWorker, GivesUpOthers DEF Settled

(* A message that the server could have taken is given up only after       *)
(* MAX_ATTEMPTS refusals, unless its file could not be read, whichever     *)
(* workers tried and whatever else failed (outbox.rs, reschedule).         *)
THEOREM GivenUpLast == Spec => []GivesUpOnlyWhenExhausted
<1>1. Settled => GivesUpOnlyWhenExhausted
  BY DEF Settled
<1>2. QED BY <1>1, SettledInit, SettledNext, PTL DEF Spec

-----------------------------------------------------------------------------
(* The copies in the Sent folder.                                          *)

LEMMA CopiesTyped == Typed => copies \in [Messages -> Nat] /\ recorded \subseteq Messages
BY DEF Typed, TypeOK

(* The account workers do nothing, and what the folder has gets neither a  *)
(* new row nor a new file.                                                 *)
LEMMA SingleStays ==
    ASSUME Typed, Single, saver' = saver, copies' = copies, recopy' = recopy,
           recorded \subseteq recorded',
           \A m \in Messages :
               copies[m] > 0 =>
                  /\ m \in files' => m \in files
                  /\ outbox'[m] # NoRow => outbox[m] # NoRow
    PROVE  Single'
<1>1. \A w \in Workers : EmptySaver(w)'
  BY DEF Single, EmptySaver
<1>2. \A m \in Messages : copies'[m] > 0 => m \in recorded'
  BY DEF Single
<1>3. ASSUME NEW m \in Messages \ recopy' PROVE Solo(m)'
  <2>1. Solo(m) /\ copies[m] \in Nat
    BY <1>3, CopiesTyped DEF Single
  <2>2. \A w \in Workers : Appending(w, m)' <=> Appending(w, m)
    BY DEF Appending
  <2>3. QED BY <2>1, <2>2 DEF Solo
<1>4. QED BY <1>1, <1>2, <1>3 DEF Single

LEMMA SingleSendWorker ==
    ASSUME Saved, NEW w \in Workers, SendWorkerStep(w)
    PROVE  Single'
<1>0. /\ Typed /\ OnePlace /\ Ledger /\ Single /\ Shapes
      /\ \A m \in Messages : copies[m] > 0 => m \in recorded
  BY ShapesTyped DEF Saved, Safe, Single
<1>1. copies' = copies /\ recopy' = recopy
  BY DEF SendWorkerStep, DrainSelect, PassAborts, FinishPass, SubmitUnusable, SubmitMark,
         TransportAccepts, TransportFails, RecordSent, Reschedule, NextRetry, TimerFires,
         ReceiveDrain, ReceiveSend, Enqueue, ReceiveShutdown, imapVars
<1>2. CASE Enqueue(w)
  <2>1. PICK m \in Messages :
           m \notin recorded /\ EnqueueOutcome(m) /\ saver' = saver
    BY <1>0, <1>2, EnqueueEffect
  <2>2. \A n \in Messages : n # m => outbox'[n] = outbox[n]
    BY <1>0, <2>1 DEF EnqueueOutcome, Shapes
  <2>3. recorded \subseteq recorded' /\ files' \subseteq files
    BY <2>1 DEF EnqueueOutcome
  <2>4. QED BY <1>0, <1>1, <2>1, <2>2, <2>3, SingleStays
<1>3. CASE ~Enqueue(w)
  <2>1. TableKept(w)
    BY <1>0, <1>3, TableEffect
  <2>2. QED BY <1>0, <1>1, <2>1, SingleStays DEF TableKept, logVars
<1>4. QED BY <1>2, <1>3

(* What a step of an account worker does to its own record, which no other *)
(* worker's shares.                                                        *)
LEMMA SingleSaver ==
    ASSUME Saved, NEW w \in Workers, SaveStep(w)
    PROVE  Single'
<1>0. /\ Typed /\ Ledger /\ Single /\ Shapes
      /\ copies \in [Messages -> Nat] /\ recorded' = recorded /\ EmptySaver(w)
      /\ saver[w] \in GoodSavers /\ saver[w].batch \subseteq Messages
  <2>1. recorded' = recorded
    BY DEF SaveStep, SaveSelect, ClearRow, ClearFile, SaveEnds, AccountWorkerEnds,
           SaveTaken, SaveRefused, logVars
  <2>2. Typed /\ Ledger /\ Single /\ Shapes /\ copies \in [Messages -> Nat]
    BY ShapesTyped, CopiesTyped DEF Saved, Safe
  <2>3. QED BY <2>1, <2>2 DEF Typed, Single, GoodSavers, SaverStates
<1> USE DEF logVars, smtpVars, imapVars
(* It is enough to look at what is not appended twice anyway.              *)
<1>1. ASSUME \A v \in Workers : v # w => saver'[v] = saver[v],
             EmptySaver(w)',
             \A m \in Messages : copies'[m] > 0 => copies[m] > 0 \/ m \in saver[w].batch,
             \A m \in Messages \ recopy' : m \notin recopy /\ Solo(m)'
      PROVE  Single'
  <2>1. \A v \in Workers : EmptySaver(v)'
    BY <1>0, <1>1 DEF Single, EmptySaver
  <2>2. \A m \in Messages : copies'[m] > 0 => m \in recorded'
    BY <1>0, <1>1 DEF Single, Ledger, Appending
  <2>3. QED BY <1>1, <2>1, <2>2 DEF Single
<1>2. CASE SaveSelect(w)
  <2>1. /\ saver[w].pc = "idle" /\ saver[w].batch = {} /\ saver[w].cur = None
        /\ saver' = [saver EXCEPT ![w].pc = "saving", ![w].batch = ToSave]
        /\ files' = files /\ outbox' = outbox /\ copies' = copies
        /\ recopy' = recopy \cup
              {m \in ToSave : \E v \in Workers \ {w} : Appending(v, m)}
    BY <1>0, <1>2 DEF SaveSelect, EmptySaver
  <2>2. saver'[w].pc = "saving" /\ saver'[w].batch = ToSave /\ saver'[w].cur = None
    BY <1>0, <2>1 DEF Shapes, SaverStates
  <2>3. \A v \in Workers : v # w => saver'[v] = saver[v]
    BY <1>0, <2>1 DEF Shapes
  <2>4. ASSUME NEW m \in Messages \ recopy' PROVE m \notin recopy /\ Solo(m)'
    <3>1. m \notin recopy /\ Solo(m) /\ copies[m] \in Nat
      BY <1>0, <2>1 DEF Single
    <3>2. m \in ToSave =>
             /\ \A v \in Workers \ {w} : ~Appending(v, m)
             /\ outbox[m] # NoRow
      BY <2>1 DEF ToSave, NoRow
    <3>3. m \in ToSave /\ m \in files => copies[m] = 0
      BY <2>1, <3>1, <3>2, Bounds DEF Solo, Appending
    <3>4. /\ Appending(w, m)' <=> m \in ToSave
          /\ \A v \in Workers \ {w} : Appending(v, m)' <=> Appending(v, m)
      BY <2>2, <2>3, Bounds DEF Appending
    <3>5. \A v, u \in Workers : Appending(v, m)' /\ Appending(u, m)' => v = u
      BY <3>1, <3>2, <3>4 DEF Solo
    <3>6. \A v \in Workers : saver[v].cur = m => saver'[v].cur = m
      BY <2>1, <2>2, <2>3 DEF Solo
    <3>7. \A v \in Workers : m \in saver'[v].batch =>
             saver'[v].cur # m /\ (m \in files' => copies'[m] = 0)
      <4>1. ASSUME NEW v \in Workers, v # w, m \in saver'[v].batch
            PROVE  saver'[v].cur # m /\ (m \in files' => copies'[m] = 0)
        BY <2>1, <2>3, <3>1, <4>1 DEF Solo
      <4>2. saver'[w].cur # m
        BY <2>2, Bounds
      <4>3. QED BY <2>1, <2>2, <3>3, <4>1, <4>2
    <3>8. QED BY <2>1, <3>1, <3>5, <3>6, <3>7 DEF Solo
  <2>5. QED BY <1>1, <2>1, <2>2, <2>3, <2>4 DEF EmptySaver
<1>3. ASSUME NEW m \in saver[w].batch, SaveTaken(w, m) PROVE Single'
  <2>1. /\ saver[w].pc = "saving" /\ saver[w].cur = None /\ m \in Messages
        /\ saver' = [saver EXCEPT ![w].pc = "clear", ![w].cur = m, ![w].batch = Served(@, m)]
        /\ files' = files /\ outbox' = outbox /\ recopy' = recopy
        /\ copies' = copies \/ (m \in files /\ copies' = [copies EXCEPT ![m] = @ + 1])
    BY <1>0, <1>3 DEF SaveTaken, EmptySaver
  <2>2. /\ saver'[w].pc = "clear" /\ saver'[w].cur = m
        /\ saver'[w].batch = saver[w].batch \ {m}
    BY <1>0, <2>1 DEF Shapes, SaverStates, Served
  <2>3. \A v \in Workers : v # w => saver'[v] = saver[v]
    BY <1>0, <2>1 DEF Shapes
  <2>4. /\ \A k \in Messages : k # m => copies'[k] = copies[k]
        /\ copies'[m] = copies[m] \/ (m \in files /\ copies'[m] = copies[m] + 1)
    BY <1>0, <2>1
  <2>5. ASSUME NEW k \in Messages \ recopy' PROVE k \notin recopy /\ Solo(k)'
    <3>1. k \notin recopy /\ Solo(k) /\ copies[k] \in Nat
      BY <1>0, <2>1 DEF Single
    <3>2. \A v \in Workers : Appending(v, k)' => Appending(v, k)
      BY <2>2, <2>3 DEF Appending
    <3>3. CASE k = m
      <4>1. Appending(w, k)
        BY <3>3 DEF Appending
      <4>2. \A v \in Workers \ {w} : k \notin saver'[v].batch
        BY <2>3, <3>1, <4>1 DEF Solo, Appending
      <4>3. k \in files => copies[k] = 0
        BY <3>1, <3>3 DEF Solo
      <4>4. copies'[k] <= 1
        BY <2>4, <3>1, <3>3, <4>3 DEF Solo
      <4>5. QED BY <2>1, <2>2, <3>1, <3>2, <3>3, <4>2, <4>4 DEF Solo
    <3>4. CASE k # m
      <4>1. /\ \A v \in Workers : saver[v].cur = k => saver'[v].cur = k
            /\ \A v \in Workers : k \in saver'[v].batch => saver'[v].cur # k /\ k \in saver[v].batch
        BY <2>1, <2>2, <2>3, <3>1, <3>4, Bounds DEF Solo
      <4>2. QED BY <2>1, <2>4, <3>1, <3>2, <3>4, <4>1 DEF Solo
    <3>5. QED BY <3>1, <3>3, <3>4
  <2>6. QED BY <1>0, <1>1, <2>1, <2>2, <2>3, <2>4, <2>5 DEF EmptySaver
<1>4. ASSUME NEW m \in saver[w].batch, SaveRefused(w, m) PROVE Single'
  <2>1. /\ saver[w].pc = "saving" /\ saver[w].cur = None /\ m \in Messages
        /\ saver' = [saver EXCEPT ![w].batch = Served(@, m)]
        /\ files' = files /\ outbox' = outbox
        /\ \/ copies' = copies /\ recopy' = recopy
           \/ copies' = [copies EXCEPT ![m] = @ + 1] /\ recopy' = recopy \cup {m}
    BY <1>0, <1>4 DEF SaveRefused, EmptySaver
  <2>2. /\ saver'[w].pc = "saving" /\ saver'[w].cur = None
        /\ saver'[w].batch \subseteq saver[w].batch
    BY <1>0, <2>1 DEF Shapes, SaverStates, Served
  <2>3. \A v \in Workers : v # w => saver'[v] = saver[v]
    BY <1>0, <2>1 DEF Shapes
  <2>4. \A k \in Messages : copies'[k] = copies[k] \/ (k = m /\ k \in recopy')
    BY <1>0, <2>1
  <2>5. ASSUME NEW k \in Messages \ recopy' PROVE k \notin recopy /\ Solo(k)'
    <3>1. k \notin recopy /\ Solo(k) /\ copies'[k] = copies[k]
      BY <1>0, <2>1, <2>4 DEF Single
    <3>2. \A v \in Workers :
             saver'[v].cur = saver[v].cur /\ saver'[v].batch \subseteq saver[v].batch
      BY <2>1, <2>2, <2>3
    <3>3. \A v \in Workers : Appending(v, k)' => Appending(v, k)
      BY <3>2 DEF Appending
    <3>4. QED BY <2>1, <3>1, <3>2, <3>3 DEF Solo
  <2>6. QED BY <1>0, <1>1, <2>1, <2>2, <2>3, <2>4, <2>5 DEF EmptySaver
<1>5. CASE ClearRow(w)
  <2>1. /\ saver[w].pc = "clear" /\ saver' = [saver EXCEPT ![w].pc = "unlink"]
        /\ files' = files /\ copies' = copies /\ recopy' = recopy
        /\ outbox' = outbox \/ outbox' = [outbox EXCEPT ![saver[w].cur] = NoRow]
    BY <1>5 DEF ClearRow
  <2>2. /\ saver'[w].pc = "unlink"
        /\ \A v \in Workers : saver'[v].cur = saver[v].cur /\ saver'[v].batch = saver[v].batch
        /\ \A v \in Workers : v # w => saver'[v] = saver[v]
    BY <1>0, <2>1 DEF Shapes, SaverStates
  <2>3. \A k \in Messages : outbox'[k] # NoRow => outbox[k] # NoRow
    BY <1>0, <2>1 DEF Shapes
  <2>4. ASSUME NEW k \in Messages \ recopy' PROVE k \notin recopy /\ Solo(k)'
    <3>1. k \notin recopy /\ Solo(k)
      BY <1>0, <2>1 DEF Single
    <3>2. \A v \in Workers : Appending(v, k)' <=> Appending(v, k)
      BY <2>2 DEF Appending
    <3>3. QED BY <2>1, <2>2, <2>3, <3>1, <3>2 DEF Solo
  <2>5. QED BY <1>1, <2>1, <2>2, <2>4 DEF EmptySaver
<1>6. CASE ClearFile(w)
  <2> DEFINE n == saver[w].cur
  <2>1. /\ saver[w].pc = "unlink" /\ n \in Messages
        /\ saver' = [saver EXCEPT ![w].pc = "saving", ![w].cur = None]
        /\ outbox' = outbox /\ copies' = copies
        /\ \/ files' = files \ {n} /\ recopy' = recopy
           \/ files' = files /\ recopy' = recopy \cup Uncleared(w)
    BY <1>0, <1>6 DEF ClearFile, GoodSavers
  <2>2. /\ saver'[w].pc = "saving" /\ saver'[w].cur = None
        /\ saver'[w].batch = saver[w].batch
        /\ \A v \in Workers : v # w => saver'[v] = saver[v]
    BY <1>0, <2>1 DEF Shapes, SaverStates
  <2>3. ASSUME NEW k \in Messages \ recopy' PROVE k \notin recopy /\ Solo(k)'
    <3>1. k \notin recopy /\ Solo(k)
      BY <1>0, <2>1 DEF Single
    <3>2. \A v \in Workers :
             /\ Appending(v, k)' => Appending(v, k)
             /\ k \in saver'[v].batch => k \in saver[v].batch /\ saver'[v].cur # k
      BY <2>2, <3>1, Bounds DEF Appending, Solo
    <3>3. k = n => k \notin files' \/ outbox'[k] = NoRow
      BY <2>1 DEF Uncleared
    <3>4. \A v \in Workers : k # n /\ saver[v].cur = k => saver'[v].cur = k
      BY <2>2
    <3>5. k \in files' => k \in files
      BY <2>1
    <3> HIDE DEF n
    <3>6. outbox'[k] # NoRow /\ k \in files' /\ copies'[k] > 0
             => \E v \in Workers : saver'[v].cur = k
      BY <2>1, <3>1, <3>3, <3>4, <3>5 DEF Solo
    <3>7. QED BY <2>1, <3>1, <3>2, <3>5, <3>6 DEF Solo
  <2>4. QED BY <1>1, <2>1, <2>2, <2>3 DEF EmptySaver
<1>7. CASE SaveEnds(w) \/ AccountWorkerEnds(w)
  <2>1. /\ saver[w].pc \in {"saving", "idle"} /\ saver[w].batch = {} /\ saver[w].cur = None
        /\ \E pc \in {"idle", "off"} : saver' = [saver EXCEPT ![w].pc = pc]
        /\ files' = files /\ outbox' = outbox /\ copies' = copies /\ recopy' = recopy
    BY <1>0, <1>7 DEF SaveEnds, AccountWorkerEnds, EmptySaver
  <2>2. /\ \A v \in Workers : saver'[v].cur = saver[v].cur /\ saver'[v].batch = saver[v].batch
        /\ \A v \in Workers : v # w => saver'[v] = saver[v]
    BY <1>0, <2>1 DEF Shapes, SaverStates
  <2>3. ASSUME NEW k \in Messages \ recopy' PROVE k \notin recopy /\ Solo(k)'
    <3>1. k \notin recopy /\ Solo(k)
      BY <1>0, <2>1 DEF Single
    <3>2. \A v \in Workers : Appending(v, k)' <=> Appending(v, k)
      BY <2>2 DEF Appending
    <3>3. QED BY <2>1, <2>2, <3>1, <3>2 DEF Solo
  <2>4. QED BY <1>1, <2>1, <2>2, <2>3 DEF EmptySaver
<1>8. QED BY <1>2, <1>3, <1>4, <1>5, <1>6, <1>7 DEF SaveStep

LEMMA SingleHost ==
    ASSUME Saved, HostStep \/ UNCHANGED vars
    PROVE  Single'
<1>0. Typed /\ Single /\ Shapes /\ copies \in [Messages -> Nat]
  BY ShapesTyped, CopiesTyped DEF Saved, Safe
<1> USE DEF hostVars, logVars, imapVars
<1>1. ASSUME saver' = saver, copies' = copies, recopy' = recopy, recorded' = recorded,
             files' = files,
             \A m \in Messages : outbox'[m] # NoRow => outbox[m] # NoRow
      PROVE  Single'
  BY <1>0, <1>1, SingleStays
<1>2. ASSUME NEW w \in Workers, Spawn(w) PROVE Single'
  <2>1. /\ saver[w].pc = "off" /\ saver' = [saver EXCEPT ![w].pc = "idle"]
        /\ files' = files /\ outbox' = outbox /\ copies' = copies /\ recopy' = recopy
        /\ recorded' = recorded
    BY <1>2 DEF Spawn
  <2>2. /\ saver'[w].pc = "idle"
        /\ \A v \in Workers :
              /\ saver'[v].cur = saver[v].cur /\ saver'[v].batch = saver[v].batch
              /\ v # w => saver'[v] = saver[v]
    BY <1>0, <2>1 DEF Shapes, SaverStates
  <2>3. \A v \in Workers : EmptySaver(v)'
    BY <1>0, <2>1, <2>2 DEF Single, EmptySaver
  <2>4. ASSUME NEW k \in Messages \ recopy' PROVE Solo(k)'
    <3>1. Solo(k)
      BY <1>0, <2>1, <2>4 DEF Single
    <3>2. \A v \in Workers : Appending(v, k)' <=> Appending(v, k)
      BY <2>2 DEF Appending
    <3>3. QED BY <2>1, <2>2, <3>1, <3>2 DEF Solo
  <2>5. QED BY <1>0, <2>1, <2>3, <2>4 DEF Single
<1>3. CASE Prune
  BY <1>1, <1>3 DEF Prune
<1>4. CASE Tick
  BY <1>0, <1>1, <1>4, TickRows DEF Tick
<1>5. CASE \/ \E m \in Messages : Send(m)
           \/ Retire \/ RequestDrain \/ UNCHANGED vars
  BY <1>1, <1>5 DEF Send, Retire, RequestDrain, vars
<1>6. CASE Crash
  <2>1. /\ \A v \in Workers :
              saver'[v].pc = "off" /\ saver'[v].batch = {} /\ saver'[v].cur = None
        /\ files' = files /\ outbox' = outbox /\ copies' = copies /\ recorded' = recorded
        /\ recopy' = recopy \cup UNION {Uncleared(v) : v \in Workers}
    BY <1>6 DEF Crash, SaverOff
  <2>2. ASSUME NEW k \in Messages \ recopy' PROVE Solo(k)'
    <3>1. Solo(k) /\ \A v \in Workers : k \notin Uncleared(v)
      BY <1>0, <2>1, <2>2 DEF Single
    <3>2. \A v \in Workers : saver[v].cur = k => outbox[k] = NoRow
      BY <1>0, <3>1, Bounds DEF Single, EmptySaver, Uncleared
    <3>3. QED BY <2>1, <3>1, <3>2, Bounds DEF Solo, Appending
  <2>3. QED BY <1>0, <2>1, <2>2 DEF Single, EmptySaver
<1>7. QED BY <1>2, <1>3, <1>4, <1>5, <1>6 DEF HostStep

LEMMA SavedInit == Init => Saved
<1> SUFFICES ASSUME Init PROVE Saved
  OBVIOUS
<1>1. Single
  BY Bounds DEF Init, Single, Solo, EmptySaver, Appending, SaverOff
<1>2. QED BY <1>1, SafeInit DEF Saved

LEMMA SavedNext == Saved /\ [Next]_vars => Saved'
BY SafeNext, NextCases, SingleSendWorker, SingleSaver, SingleHost DEF Saved

(* The Sent folder gets a second copy of a message only for a reason: the  *)
(* process died, or both clean-ups failed, after the append; its answer    *)
(* was lost; two workers had the entry in their snapshots (save.rs,        *)
(* save_sent).                                                             *)
THEOREM CopiesExplained == Spec => []CopiesHaveACause
<1>1. Saved => CopiesHaveACause
  BY CopiesTyped DEF Saved, Safe, Single, Solo, CopiesHaveACause
<1>2. QED BY <1>1, SavedInit, SavedNext, PTL DEF Spec

-----------------------------------------------------------------------------
(* Cleared.                                                                *)

(* The Sent folder has a copy of a message whose file is gone, of one      *)
(* whose row is gone while its account is not, and of one that is being    *)
(* cleared.                                                                *)
CopiedFirst ==
    /\ \A m \in recorded \ files : copies[m] > 0
    /\ ClearedOnlyOnceAccepted
    /\ \A w \in Workers : saver[w].pc \in {"clear", "unlink"} => copies[saver[w].cur] > 0

Clear == Safe /\ CopiedFirst

LEMMA CopiedStays ==
    ASSUME Safe, CopiedFirst, copies' \in [Messages -> Nat],
           \A m \in Messages : copies[m] <= copies'[m],
           recorded' = recorded, pruned \subseteq pruned',
           \A m \in recorded : m \in files => m \in files' \/ copies'[m] > 0,
           \A m \in recorded :
               m \in pruned' \/ outbox'[m] # NoRow \/ copies'[m] > 0 \/ outbox'[m] = outbox[m],
           \A w \in Workers :
               \/ saver'[w].pc \notin {"clear", "unlink"}
               \/ saver[w].pc \in {"clear", "unlink"} /\ saver'[w].cur = saver[w].cur
               \/ copies'[saver'[w].cur] > 0
    PROVE  CopiedFirst'
<1>1. copies \in [Messages -> Nat] /\ recorded \subseteq Messages
  BY CopiesTyped DEF Safe
<1>2. \A m \in Messages : copies[m] > 0 => copies'[m] > 0
  BY <1>1
<1>3. \A w \in Workers : saver[w].pc \in {"clear", "unlink"} => saver[w].cur \in Messages
  BY DEF Safe, Typed, GoodSavers
<1>4. \A m \in (recorded \ files)' : copies'[m] > 0
  BY <1>1, <1>2 DEF CopiedFirst
<1>5. ClearedOnlyOnceAccepted'
  BY <1>1, <1>2 DEF CopiedFirst, ClearedOnlyOnceAccepted
<1>6. \A w \in Workers : saver'[w].pc \in {"clear", "unlink"} => copies'[saver'[w].cur] > 0
  BY <1>2, <1>3 DEF CopiedFirst
<1>7. QED BY <1>4, <1>5, <1>6 DEF CopiedFirst

LEMMA CopiedSendWorker ==
    ASSUME Safe, CopiedFirst, NEW w \in Workers, SendWorkerStep(w)
    PROVE  CopiedFirst'
<1>0. /\ Typed /\ OnePlace /\ Ledger /\ Shapes
      /\ copies \in [Messages -> Nat] /\ recorded \subseteq Messages
  BY ShapesTyped, CopiesTyped DEF Safe
<1>1. copies' = copies
  BY DEF SendWorkerStep, DrainSelect, PassAborts, FinishPass, SubmitUnusable, SubmitMark,
         TransportAccepts, TransportFails, RecordSent, Reschedule, NextRetry, TimerFires,
         ReceiveDrain, ReceiveSend, Enqueue, ReceiveShutdown, imapVars
<1>2. \A m \in Messages : copies[m] <= copies'[m]
  BY <1>0, <1>1
<1>3. CASE Enqueue(w)
  <2>1. PICK m \in Messages :
           /\ m \in (handed \ recorded) \cap files /\ EnqueueOutcome(m)
           /\ saver' = saver /\ pruned' = pruned
    BY <1>0, <1>3, EnqueueEffect
  <2>2. CASE recorded' = recorded
    <3>1. outbox' = outbox /\ files' = files \ {m}
      BY <1>0, <2>1, <2>2 DEF EnqueueOutcome
    <3>2. QED BY <1>0, <1>1, <1>2, <2>1, <2>2, <3>1, CopiedStays
  <2>3. CASE recorded' # recorded
    <3>1. /\ files' = files /\ recorded' = recorded \cup {m}
          /\ outbox' = [outbox EXCEPT ![m] = [NoRow EXCEPT !.state = "queued"]]
      BY <2>1, <2>3 DEF EnqueueOutcome
    <3>2. outbox'[m] # NoRow /\ \A n \in Messages : n # m => outbox'[n] = outbox[n]
      BY <1>0, <3>1 DEF Shapes, NoRow
    <3>3. QED
      BY <1>0, <1>1, <2>1, <3>1, <3>2 DEF CopiedFirst, ClearedOnlyOnceAccepted
  <2>4. QED BY <2>2, <2>3
<1>4. CASE ~Enqueue(w)
  <2>1. TableKept(w)
    BY <1>0, <1>4, TableEffect
  <2>2. /\ files \subseteq files' /\ saver' = saver /\ recorded' = recorded /\ pruned' = pruned
        /\ \A m \in Messages : outbox'[m] = NoRow <=> outbox[m] = NoRow
    BY <2>1 DEF TableKept, logVars
  <2>3. QED BY <1>0, <1>1, <1>2, <2>2, CopiedStays
<1>5. QED BY <1>3, <1>4

LEMMA CopiedSaver ==
    ASSUME "file" \notin Faults, Safe, CopiedFirst, NEW w \in Workers, SaveStep(w)
    PROVE  CopiedFirst'
<1>0. /\ Typed /\ Ledger /\ Shapes /\ saver[w] \in GoodSavers
      /\ copies \in [Messages -> Nat] /\ recorded \subseteq Messages
      /\ saver[w].batch \subseteq Messages
  BY ShapesTyped, CopiesTyped DEF Safe, Typed, GoodSavers, SaverStates
<1> USE DEF logVars, smtpVars, imapVars
<1>1. recorded' = recorded /\ pruned' = pruned
  BY DEF SaveStep, SaveSelect, ClearRow, ClearFile, SaveEnds, AccountWorkerEnds,
         SaveTaken, SaveRefused
<1>2. \A m \in Messages : copies[m] <= copies[m] /\ copies[m] <= copies[m] + 1
  BY <1>0
<1>3. ~Fault("file")
  BY DEF Fault
<1>4. CASE SaveSelect(w) \/ SaveEnds(w) \/ AccountWorkerEnds(w)
  <2>1. UNCHANGED <<files, outbox, copies>>
    BY <1>4 DEF SaveSelect, SaveEnds, AccountWorkerEnds
  <2>2. \A v \in Workers : saver'[v] = saver[v] \/ saver'[v].pc \notin {"clear", "unlink"}
    BY <1>0, <1>4 DEF SaveSelect, SaveEnds, AccountWorkerEnds, Shapes, SaverStates
  <2>3. QED BY <1>0, <1>1, <1>2, <2>1, <2>2, CopiedStays
<1>5. CASE ClearRow(w)
  <2>1. /\ UNCHANGED <<files, copies>> /\ saver[w].pc = "clear" /\ saver[w].cur \in Messages
        /\ \A v \in Workers : saver'[v].cur = saver[v].cur /\ (v # w => saver'[v] = saver[v])
        /\ \A m \in Messages : m # saver[w].cur => outbox'[m] = outbox[m]
    BY <1>0, <1>5 DEF ClearRow, Shapes, SaverStates, GoodSavers
  <2>2. copies[saver[w].cur] > 0
    BY <2>1 DEF CopiedFirst
  <2>3. QED BY <1>0, <1>1, <1>2, <2>1, <2>2, CopiedStays
<1>6. CASE ClearFile(w)
  <2>1. /\ UNCHANGED <<outbox, copies>> /\ saver[w].pc = "unlink"
        /\ files' = files \ {saver[w].cur}
        /\ \A v \in Workers : saver'[v] = saver[v] \/ saver'[v].pc = "saving"
    BY <1>0, <1>3, <1>6 DEF ClearFile, Shapes, SaverStates
  <2>2. copies[saver[w].cur] > 0
    BY <2>1 DEF CopiedFirst
  <2>3. QED BY <1>0, <1>1, <1>2, <2>1, <2>2, CopiedStays
<1>7. ASSUME NEW m \in saver[w].batch, SaveTaken(w, m) PROVE CopiedFirst'
  <2>1. /\ UNCHANGED <<files, outbox>> /\ saver'[w].cur = m
        /\ \A v \in Workers : v # w => saver'[v] = saver[v]
    BY <1>0, <1>7 DEF SaveTaken, Shapes, SaverStates
  <2>2. \/ copies' = [copies EXCEPT ![m] = @ + 1]
        \/ copies' = copies /\ m \notin files
    BY <1>3, <1>7 DEF SaveTaken
  <2>3. m \in recorded
    BY <1>0, <1>7 DEF Ledger, Appending
  <2>4. /\ copies' \in [Messages -> Nat] /\ copies'[m] > 0
        /\ \A n \in Messages : copies[n] <= copies'[n]
    BY <1>0, <1>2, <2>2, <2>3 DEF CopiedFirst
  <2>5. QED BY <1>1, <2>1, <2>4, CopiedStays
<1>8. ASSUME NEW m \in saver[w].batch, SaveRefused(w, m) PROVE CopiedFirst'
  <2>1. /\ UNCHANGED <<files, outbox>>
        /\ \A v \in Workers : saver'[v].cur = saver[v].cur /\ saver'[v].pc = saver[v].pc
    BY <1>0, <1>8 DEF SaveRefused, Shapes, SaverStates
  <2>2. copies' = copies \/ copies' = [copies EXCEPT ![m] = @ + 1]
    BY <1>8 DEF SaveRefused
  <2>3. /\ copies' \in [Messages -> Nat]
        /\ \A n \in Messages : copies[n] <= copies'[n]
    BY <1>0, <1>2, <2>2
  <2>4. QED BY <1>1, <2>1, <2>3, CopiedStays
<1>9. QED BY <1>4, <1>5, <1>6, <1>7, <1>8 DEF SaveStep

LEMMA CopiedHost ==
    ASSUME Safe, CopiedFirst, HostStep \/ UNCHANGED vars
    PROVE  CopiedFirst'
<1>0. /\ Typed /\ Ledger /\ Shapes
      /\ copies \in [Messages -> Nat] /\ recorded \subseteq Messages
  BY ShapesTyped, CopiesTyped DEF Safe
<1> USE DEF hostVars, logVars, imapVars
<1>1. /\ UNCHANGED <<files, copies, recorded>> /\ pruned \subseteq pruned'
      /\ \A m \in Messages : copies[m] <= copies[m]
  <2>1. UNCHANGED <<files, copies, recorded>>
    <3>1. CASE \/ \E w \in Workers : Spawn(w)
               \/ \E m \in Messages : Send(m)
      BY <3>1 DEF Spawn, Send
    <3>2. CASE Retire \/ RequestDrain
      BY <3>2 DEF Retire, RequestDrain
    <3>3. CASE Prune \/ Tick \/ Crash
      BY <3>3 DEF Prune, Tick, Crash
    <3>4. CASE UNCHANGED vars
      BY <3>4 DEF vars
    <3>5. QED BY <3>1, <3>2, <3>3, <3>4 DEF HostStep
  <2>2. Prune => pruned \subseteq pruned'
    BY DEF Prune
  <2>3. pruned' = pruned \/ Prune
    BY DEF HostStep, Spawn, Send, Retire, RequestDrain, Tick, Crash, vars
  <2>4. pruned \subseteq pruned'
    BY <2>2, <2>3
  <2>5. \A m \in Messages : copies[m] <= copies[m]
    BY <1>0
  <2>6. QED BY <2>1, <2>4, <2>5
<1>2. \A m \in recorded : m \in pruned' \/ outbox'[m] # NoRow \/ outbox'[m] = outbox[m]
  <2>1. CASE Prune
    BY <1>0, <2>1 DEF Prune
  <2>2. CASE Tick
    BY <1>0, <2>2, TickRows
  <2>3. QED BY <2>1, <2>2 DEF HostStep, Spawn, Send, Retire, RequestDrain, Crash, vars
<1>3. \A v \in Workers : saver'[v] = saver[v] \/ saver'[v].pc \notin {"clear", "unlink"}
  <2>1. ASSUME NEW w \in Workers, Spawn(w)
        PROVE  \A v \in Workers : saver'[v] = saver[v] \/ saver'[v].pc \notin {"clear", "unlink"}
    BY <1>0, <2>1 DEF Spawn, Shapes, SaverStates
  <2>2. CASE Crash
    BY <2>2 DEF Crash, SaverOff
  <2>3. QED BY <2>1, <2>2 DEF HostStep, Send, Retire, RequestDrain, Prune, Tick, vars
<1>4. QED BY <1>0, <1>1, <1>2, <1>3, CopiedStays

(* save_sent clears an entry and its file only once a server has accepted  *)
(* the copy, also when two account workers clear the same entry, calls of  *)
(* the store fail, or the process dies between any two steps: while files  *)
(* can be read and removed (save.rs, save_sent).                           *)
THEOREM ClearedOnceAccepted ==
    ASSUME "file" \notin Faults PROVE Spec => []ClearedOnlyOnceAccepted
<1>1. Clear /\ [Next]_vars => Clear'
  <2>1. "file" \notin Faults
    OBVIOUS
  <2>2. QED
    BY <2>1, SafeNext, NextCases, CopiedSendWorker, CopiedSaver, CopiedHost DEF Clear
<1>2. Init => Clear
  <2>1. Init => CopiedFirst
    BY DEF Init, CopiedFirst, ClearedOnlyOnceAccepted, SaverOff
  <2>2. QED BY <2>1, SafeInit DEF Clear
<1>3. Clear => ClearedOnlyOnceAccepted
  BY DEF Clear, CopiedFirst
<1>4. QED BY <1>1, <1>2, <1>3, PTL DEF Spec
-----------------------------------------------------------------------------
(* Retried on time.                                                        *)

(* While no pair of workers is retired, one pair at most is at work, and   *)
(* its threads end with the process only.                                  *)
Sole ==
    /\ storeOpen
    /\ \A w \in Workers :
          /\ worker[w].pc # "off" \/ saver[w].pc # "off" => w = current
          /\ \A i \in DOMAIN inbox[w] : inbox[w][i].kind # "Shutdown"

(* What a pass that no command caused still has to submit is due.          *)
DueBatch ==
    \A w \in Workers : \A e \in worker[w].batch :
        worker[w].mode = "Due" => outbox[e.msg].wait = 0

(* A sleep, whether or not a command waits, ends in time for every         *)
(* pending message.                                                        *)
InTime(sleep, wait) == sleep # NoTimer /\ (sleep <= wait \/ sleep <= 1)
Covered ==
    \A w \in Workers, m \in Messages :
        worker[w].pc = "select" /\ IsPending(m)
            => InTime(worker[w].timer, outbox[m].wait)

Due == Careful /\ Sole /\ DueBatch
Punctual == Careful /\ Sole /\ Covered

-----------------------------------------------------------------------------
(* One pair of workers.                                                    *)

LEMMA SoleSendWorker ==
    ASSUME Careful, Sole, NEW w \in Workers, SendWorkerStep(w)
    PROVE  Sole' /\ worker[w].pc # "off" /\ w = current
<1>0. /\ Shapes /\ worker[w] \in WorkerStates
      /\ \A v \in Workers \ {w} : worker'[v] = worker[v]
  BY ShapesTyped, HandsEffect DEF Careful, Safe, HandsKept, Shapes
<1> USE DEF hostVars
<1>1. worker[w].pc # "off"
  <2>1. CASE \E e \in worker[w].batch : SubmitUnusable(w, e) \/ SubmitMark(w, e)
    BY <2>1 DEF SubmitUnusable, SubmitMark
  <2>2. CASE ~ \E e \in worker[w].batch : SubmitUnusable(w, e) \/ SubmitMark(w, e)
    BY <2>2 DEF SendWorkerStep, DrainSelect, PassAborts, FinishPass, TransportAccepts,
           TransportFails, RecordSent, Reschedule, NextRetry, TimerFires, ReceiveDrain,
           ReceiveSend, Enqueue, ReceiveShutdown, Receive
  <2>3. QED BY <2>1, <2>2
<1>2. w = current
  BY <1>1 DEF Sole
<1>3. CASE ReceiveShutdown(w)
  <2>1. /\ inbox[w] \in Seq(Commands) /\ inbox[w] # <<>>
        /\ Head(inbox[w]).kind = "Shutdown"
    BY <1>0, <1>3 DEF Shapes, ReceiveShutdown, Receive
  <2>2. 1 \in DOMAIN inbox[w] /\ Head(inbox[w]) = inbox[w][1]
    BY <2>1, HeadTailProperties, LenProperties
  <2>3. QED BY <2>1, <2>2 DEF Sole
<1>4. CASE ReceiveDrain(w) \/ ReceiveSend(w)
  <2>1. /\ inbox[w] # <<>> /\ inbox' = [inbox EXCEPT ![w] = Tail(@)]
        /\ saver' = saver /\ storeOpen' = storeOpen /\ current' = current
    BY <1>4 DEF ReceiveDrain, ReceiveSend, Receive
  <2>2. ASSUME NEW v \in Workers, NEW i \in DOMAIN inbox'[v]
        PROVE  inbox'[v][i].kind # "Shutdown"
    <3>1. PICK k \in DOMAIN inbox[v] : inbox'[v][i] = inbox[v][k]
      BY SMTT(30), <1>0, <2>1, TailShifts
    <3>2. QED BY <3>1 DEF Sole
  <2>3. QED BY <1>0, <1>1, <1>2, <2>1, <2>2 DEF Sole
<1>5. CASE ~(ReceiveDrain(w) \/ ReceiveSend(w) \/ ReceiveShutdown(w))
  <2>1. inbox' = inbox /\ saver' = saver /\ storeOpen' = storeOpen /\ current' = current
    <3>1. CASE \E e \in worker[w].batch : SubmitUnusable(w, e) \/ SubmitMark(w, e)
      BY <3>1 DEF SubmitUnusable, SubmitMark
    <3>2. CASE ~ \E e \in worker[w].batch : SubmitUnusable(w, e) \/ SubmitMark(w, e)
      BY <1>5, <3>2 DEF SendWorkerStep, DrainSelect, PassAborts, FinishPass, TransportAccepts,
             TransportFails, RecordSent, Reschedule, NextRetry, TimerFires, Enqueue
    <3>3. QED BY <3>1, <3>2
  <2>2. QED BY <1>0, <1>1, <1>2, <2>1 DEF Sole
<1>6. QED BY <1>1, <1>2, <1>3, <1>4, <1>5

LEMMA SoleOthers ==
    ASSUME Careful, Sole, "retire" \notin Faults,
           HostStep \/ (\E w \in Workers : SaveStep(w)) \/ UNCHANGED vars
    PROVE  Sole'
<1>0. Shapes
  BY ShapesTyped DEF Careful, Safe
<1> USE DEF hostVars
<1>1. ASSUME UNCHANGED <<storeOpen, inbox, current, worker, saver>>
      PROVE  Sole'
  BY <1>1 DEF Sole
<1>2. ASSUME NEW w \in Workers, Spawn(w) PROVE Sole'
  <2>1. \A v \in Workers : worker[v].pc = "off" /\ saver[v].pc = "off"
    BY <1>2, Bounds DEF Spawn, Sole
  <2>2. /\ current' = w /\ storeOpen' = storeOpen /\ inbox' = inbox
        /\ \A v \in Workers \ {w} : worker'[v] = worker[v] /\ saver'[v] = saver[v]
    BY <1>0, <1>2 DEF Spawn, Shapes
  <2>3. QED BY <2>1, <2>2 DEF Sole
<1>3. ASSUME NEW command \in Commands, command.kind # "Shutdown", Post(command),
             UNCHANGED <<storeOpen, current, worker, saver>>
      PROVE  Sole'
  <2>1. ASSUME NEW v \in Workers, NEW i \in DOMAIN inbox'[v]
        PROVE  inbox'[v][i].kind # "Shutdown"
    <3>1. CASE v # current
      <4>1. inbox'[v] = inbox[v]
        BY <1>0, <1>3, <3>1 DEF Post, Shapes
      <4>2. QED BY <2>1, <4>1 DEF Sole
    <3>2. CASE v = current
      <4>1. inbox[v] \in Seq(Commands) /\ inbox'[v] = Append(inbox[v], command)
        BY <1>0, <1>3, <3>2 DEF Post, Shapes
      <4>2. /\ Len(inbox'[v]) = Len(inbox[v]) + 1 /\ inbox'[v] \in Seq(Commands)
            /\ inbox'[v][Len(inbox[v]) + 1] = command
            /\ \A k \in 1 .. Len(inbox[v]) : inbox'[v][k] = inbox[v][k]
        BY <4>1, <1>3, AppendProperties
      <4>3. /\ i \in 1 .. Len(inbox'[v]) /\ Len(inbox[v]) \in Nat
            /\ DOMAIN inbox[v] = 1 .. Len(inbox[v])
        BY <2>1, <4>1, <4>2, LenProperties
      <4>4. i \in 1 .. Len(inbox[v]) \/ i = Len(inbox[v]) + 1
        BY <4>2, <4>3
      <4>5. QED BY <1>3, <4>2, <4>3, <4>4 DEF Sole
    <3>3. QED BY <3>1, <3>2
  <2>2. QED BY <1>3, <2>1 DEF Sole
<1>4. ASSUME NEW m \in Messages, Send(m) PROVE Sole'
  <2>1. [kind |-> "Send", raw |-> m] \in Commands
    BY DEF Commands
  <2>2. QED BY <1>3, <1>4, <2>1 DEF Send
<1>5. CASE RequestDrain
  <2>1. [kind |-> "Drain"] \in Commands
    BY DEF Commands
  <2>2. QED BY <1>3, <1>5, <2>1 DEF RequestDrain
<1>6. ~Retire
  BY DEF Retire, Fault
<1>7. CASE Tick
  <2>1. \A v \in Workers : worker'[v].pc = worker[v].pc
    BY <1>0, <1>7 DEF Tick, Shapes, WorkerStates
  <2>2. QED BY <1>7, <2>1 DEF Tick, Sole
<1>8. CASE Crash
  BY <1>8 DEF Crash, Sole, Off, SaverOff
<1>9. CASE Prune \/ UNCHANGED vars
  BY <1>1, <1>9 DEF Prune, vars
<1>10. ASSUME NEW w \in Workers, SaveStep(w) PROVE Sole'
  <2>1. /\ UNCHANGED <<storeOpen, inbox, current, worker>>
        /\ saver[w].pc # "off"
        /\ \A v \in Workers \ {w} : saver'[v] = saver[v]
    <3>1. ~AccountWorkerEnds(w)
      BY DEF AccountWorkerEnds, Sole
    <3>2. CASE SaveSelect(w) \/ ClearRow(w) \/ ClearFile(w) \/ SaveEnds(w)
      BY <1>0, <3>2 DEF SaveSelect, ClearRow, ClearFile, SaveEnds, Shapes
    <3>3. ASSUME NEW m \in saver[w].batch, SaveTaken(w, m) \/ SaveRefused(w, m)
          PROVE  /\ UNCHANGED <<storeOpen, inbox, current, worker>>
                 /\ saver[w].pc # "off"
                 /\ \A v \in Workers \ {w} : saver'[v] = saver[v]
      BY <1>0, <3>3 DEF SaveTaken, SaveRefused, Shapes
    <3>4. QED BY <1>10, <3>1, <3>2, <3>3 DEF SaveStep
  <2>2. QED BY <2>1 DEF Sole
<1>11. QED BY <1>2, <1>4, <1>5, <1>6, <1>7, <1>8, <1>9, <1>10 DEF HostStep

-----------------------------------------------------------------------------
(* A pass that no command caused submits what is due.                      *)

(* Without retired workers the others have empty hands.                    *)
LEMMA OthersIdle ==
    ASSUME Careful, Sole, NEW w \in Workers, w # current
    PROVE  worker[w].pc = "off" /\ saver[w].pc = "off" /\ worker[w].batch = {}
BY DEF Careful, Safe, Ledger, EmptyHands, Sole, InPass

(* A step of w that leaves the deadlines of what w still has to submit.    *)
LEMMA DueStays ==
    ASSUME Careful, Sole, DueBatch, NEW w \in Workers, SendWorkerStep(w),
           \A e \in worker'[w].batch : worker'[w].mode = "Due" => outbox'[e.msg].wait = 0
    PROVE  DueBatch'
<1>1. \A v \in Workers \ {w} : worker'[v] = worker[v] /\ worker[v].batch = {}
  BY HandsEffect, SoleSendWorker, OthersIdle DEF Careful, Safe, HandsKept
<1>2. QED BY <1>1 DEF DueBatch

LEMMA DueSendWorker ==
    ASSUME Careful, Sole, DueBatch, NEW w \in Workers, SendWorkerStep(w)
    PROVE  DueBatch'
<1> DEFINE here == worker[w]
<1>0. /\ Shapes /\ here \in WorkerStates /\ here.batch \subseteq Entries
      /\ EmptyHands(w) /\ SnapshotAt(w)
      /\ \A e \in here.batch : e.msg \in Messages
      /\ here.pc \in BusyPcs => here.cur.msg \in Messages
  BY ShapesTyped, EntryTyped DEF Careful, Safe, Ledger, Snapshot, SnapshotAt
<1>1. ASSUME worker'[w].batch = {} PROVE DueBatch'
  BY <1>1, DueStays
<1>2. \A e \in here.batch : here.mode = "Due" => outbox[e.msg].wait = 0
  BY DEF DueBatch
<1>3. CASE DrainSelect(w)
  <2>1. /\ worker'[w].mode = here.mode /\ outbox' = outbox
        /\ worker'[w].batch =
              {[msg |-> m, attempts |-> outbox[m].attempts] : m \in Selected(w)}
    BY <1>0, <1>3 DEF DrainSelect, Shapes, WorkerStates
  <2>2. \A m \in Selected(w) : here.mode = "Due" => outbox[m].wait = 0
    BY DEF Selected
  <2>3. QED BY <2>1, <2>2, DueStays
<1>4. CASE PassAborts(w) \/ FinishPass(w)
  BY <1>0, <1>1, <1>4 DEF PassAborts, FinishPass, EndPass, Shapes, Off
<1>5. ASSUME NEW e \in here.batch, NEW state \in {"sending", "failed"},
             UpdateOutbox(e.msg, state, e.attempts, 0),
             worker'[w].mode = here.mode, worker'[w].batch \subseteq here.batch
      PROVE  DueBatch'
  <2>1. \A m \in Messages : outbox'[m] = outbox[m] \/ outbox'[m].wait = 0
    <3>1. e.msg \in Messages
      BY <1>0
    <3>2. /\ \A n \in Messages : n # e.msg => outbox'[n] = outbox[n]
          /\ \/ outbox'[e.msg] = NoRow
             \/ outbox'[e.msg] = [state |-> state, attempts |-> e.attempts, wait |-> 0]
      BY <1>0, <1>5, <3>1, UpdateOutboxRow
    <3>3. QED BY <3>2 DEF NoRow
  <2>2. QED BY <1>0, <1>2, <1>5, <2>1, DueStays
<1>6. ASSUME NEW e \in here.batch, SubmitUnusable(w, e) PROVE DueBatch'
  <2>1. worker'[w].mode = here.mode /\ worker'[w].batch \subseteq here.batch
    BY <1>0, <1>6 DEF SubmitUnusable, Shapes, WorkerStates, Served
  <2>2. UpdateOutbox(e.msg, "failed", e.attempts, 0)
    BY <1>6 DEF SubmitUnusable
  <2>3. QED BY <1>5, <2>1, <2>2
<1>7. ASSUME NEW e \in here.batch, SubmitMark(w, e) PROVE DueBatch'
  <2>1. worker'[w].mode = here.mode /\ worker'[w].batch \subseteq here.batch
    BY <1>0, <1>7 DEF SubmitMark, Shapes, WorkerStates, Served
  <2>2. UpdateOutbox(e.msg, "sending", e.attempts, 0)
    BY <1>7 DEF SubmitMark
  <2>3. QED BY <1>5, <2>1, <2>2
<1>8. CASE TransportAccepts(w) \/ TransportFails(w)
  <2>1. /\ worker'[w].mode = here.mode /\ worker'[w].batch = here.batch /\ outbox' = outbox
    BY <1>0, <1>8 DEF TransportAccepts, TransportFails, Shapes, WorkerStates
  <2>2. QED BY <1>2, <2>1, DueStays
<1>9. CASE RecordSent(w) \/ Reschedule(w)
  <2>1. /\ worker'[w].mode = here.mode /\ worker'[w].batch = here.batch
        /\ here.pc \in {"accepted", "rejected"}
    BY <1>0, <1>9 DEF RecordSent, Reschedule, Shapes, WorkerStates
  <2>2. \A m \in Messages : m # here.cur.msg => outbox'[m] = outbox[m]
    <3>1. here.cur.msg \in Messages
      BY <1>0, <2>1 DEF BusyPcs
    <3>2. \E state, attempts, wait : UpdateOutbox(here.cur.msg, state, attempts, wait)
      BY <1>9 DEF RecordSent, Reschedule
    <3>3. QED BY <1>0, <3>1, <3>2, UpdateOutboxRow
  <2>3. \A e \in here.batch : e.msg # here.cur.msg
    BY <1>0, <2>1 DEF SnapshotAt, BusyPcs
  <2>4. QED BY <1>0, <1>2, <2>1, <2>2, <2>3, DueStays
<1>10. CASE NextRetry(w) \/ TimerFires(w) \/ Enqueue(w)
  <2>1. /\ worker'[w].batch = here.batch /\ here.pc \in {"timer", "select", "enqueue"}
    BY <1>0, <1>10 DEF NextRetry, TimerFires, Enqueue, Shapes, WorkerStates
  <2>2. QED BY <1>0, <1>1, <2>1 DEF EmptyHands, InPass
<1>11. CASE ReceiveDrain(w)
  BY <1>0, <1>1, <1>11 DEF ReceiveDrain, Shapes, Off
<1>14. CASE ReceiveShutdown(w)
  BY <1>0, <1>1, <1>14 DEF ReceiveShutdown, Shapes, Off
<1>12. CASE ReceiveSend(w)
  BY <1>0, <1>1, <1>12 DEF ReceiveSend, Shapes, Off
<1>13. QED BY <1>3, <1>4, <1>6, <1>7, <1>8, <1>9, <1>10, <1>11, <1>12, <1>14
           DEF SendWorkerStep

(* The rest of the system makes no row wait longer.                        *)
LEMMA WaitsShrink ==
    ASSUME Careful, HostStep \/ (\E w \in Workers : SaveStep(w)) \/ UNCHANGED vars
    PROVE  \A m \in Messages :
              \/ outbox'[m] = outbox[m]
              \/ outbox'[m] = NoRow
              \/ Tick /\ outbox'[m] = [outbox[m] EXCEPT !.wait = Less(@, 1)]
<1>0. Shapes
  BY ShapesTyped DEF Careful, Safe
<1>1. CASE HostStep \/ UNCHANGED vars
  BY <1>0, <1>1 DEF HostStep, Spawn, Send, Retire, RequestDrain, Prune, Tick, Crash, vars
<1>2. ASSUME NEW w \in Workers, SaveStep(w) PROVE \A m \in Messages :
              outbox'[m] = outbox[m] \/ outbox'[m] = NoRow
  <2>1. outbox' = outbox \/ outbox' = [outbox EXCEPT ![saver[w].cur] = NoRow]
    BY <1>2 DEF SaveStep, SaveSelect, ClearRow, ClearFile, SaveEnds, AccountWorkerEnds,
                SaveTaken, SaveRefused
  <2>2. QED BY <1>0, <2>1 DEF Shapes
<1>3. QED BY <1>1, <1>2

LEMMA DueOthers ==
    ASSUME Careful, Sole, DueBatch,
           HostStep \/ (\E w \in Workers : SaveStep(w)) \/ UNCHANGED vars
    PROVE  DueBatch'
<1>0. /\ Shapes
      /\ \A w \in Workers : \A e \in worker[w].batch : e.msg \in Messages
  BY ShapesTyped, EntryTyped DEF Careful, Safe
<1>1. \A m \in Messages : outbox[m].wait = 0 => outbox'[m].wait = 0
  <2>1. TAKE m \in Messages
  <2>2. outbox[m] \in Rows
    BY <1>0 DEF Shapes
  <2>3. HAVE outbox[m].wait = 0
  <2>4. [outbox[m] EXCEPT !.wait = Less(@, 1)].wait = 0
    BY <2>2, <2>3 DEF Rows, Less
  <2>5. \/ outbox'[m] = outbox[m]
        \/ outbox'[m] = NoRow
        \/ Tick /\ outbox'[m] = [outbox[m] EXCEPT !.wait = Less(@, 1)]
    BY WaitsShrink
  <2>6. NoRow.wait = 0
    BY DEF NoRow
  <2>7. QED BY <2>3, <2>4, <2>5, <2>6
<1>2. \A w \in Workers :
         \/ worker'[w].batch = {}
         \/ worker'[w].batch = worker[w].batch /\ worker'[w].mode = worker[w].mode
  <2>1. CASE \E w \in Workers : Spawn(w)
    BY <1>0, <2>1 DEF Spawn, Shapes, Off
  <2>2. CASE Tick
    BY <1>0, <2>2 DEF Tick, Shapes, WorkerStates
  <2>3. CASE Crash
    BY <2>3 DEF Crash, Off
  <2>4. CASE \E w \in Workers : SaveStep(w)
    BY ZenonT(40), <2>4 DEF SaveStep, SaveSelect, ClearRow, ClearFile, SaveEnds, AccountWorkerEnds,
                SaveTaken, SaveRefused
  <2>5. CASE Retire \/ RequestDrain \/ Prune \/ (\E m \in Messages : Send(m)) \/ UNCHANGED vars
    BY <2>5 DEF Retire, RequestDrain, Prune, Send, vars
  <2>6. QED BY <2>1, <2>2, <2>3, <2>4, <2>5 DEF HostStep
<1>3. QED BY <1>0, <1>1, <1>2 DEF DueBatch

(* A pass submits what it selected.                                        *)
LEMMA PassSubmits ==
    ASSUME Careful, NEW w \in Workers, [Next]_vars,
           worker[w].pc = "pass", worker'[w].pc = "sending"
    PROVE  worker'[w].cur \in worker[w].batch
<1>0. Shapes
  BY ShapesTyped DEF Careful, Safe
<1>1. CASE \E v \in Workers : SendWorkerStep(v)
  <2>1. PICK v \in Workers : SendWorkerStep(v)
    BY <1>1
  <2>2. v = w
    BY <2>1, HandsEffect DEF Careful, Safe, HandsKept
  <2>3. PICK e \in worker[w].batch : SubmitUnusable(w, e) \/ SubmitMark(w, e)
    BY <1>0, <2>1, <2>2 DEF SendWorkerStep, DrainSelect, PassAborts, FinishPass, TransportAccepts,
           TransportFails, RecordSent, Reschedule, NextRetry, TimerFires, ReceiveDrain,
           ReceiveSend, Enqueue, ReceiveShutdown, Receive, EndPass, Off, Shapes, WorkerStates
  <2>4. QED BY ZenonT(40), <1>0, <2>3 DEF SubmitUnusable, SubmitMark, Shapes, WorkerStates
<1>2. CASE \E v \in Workers : SaveStep(v)
  BY <1>2 DEF SaveStep, SaveSelect, ClearRow, ClearFile, SaveEnds, AccountWorkerEnds,
                SaveTaken, SaveRefused
<1>3. CASE HostStep \/ UNCHANGED vars
  <2>1. CASE \E v \in Workers : Spawn(v)
    BY <1>0, <2>1 DEF Spawn, Shapes, Off
  <2>2. CASE Tick
    BY <1>0, <2>2 DEF Tick, Shapes, WorkerStates
  <2>3. CASE Crash
    BY <2>3 DEF Crash, Off
  <2>4. CASE Retire \/ RequestDrain \/ Prune \/ (\E m \in Messages : Send(m)) \/ UNCHANGED vars
    BY <2>4 DEF Retire, RequestDrain, Prune, Send, vars
  <2>5. QED BY <1>3, <2>1, <2>2, <2>3, <2>4 DEF HostStep
<1>4. QED BY <1>1, <1>2, <1>3, NextCases

(* Until a command asks for it, a message that the server refused is not   *)
(* submitted again before its backoff has elapsed, although the pass read  *)
(* its clock and its rows before it started, the account worker clears     *)
(* rows meanwhile, and calls of the store fail: while no second worker     *)
(* reschedules what this one has in its snapshot (outbox.rs, drain).       *)
THEOREM NoEarlyRetry ==
    ASSUME "retire" \notin Faults PROVE Spec => BackoffRespected
<1>1. "retire" \notin Faults
  OBVIOUS
<1>2. Init => Due
  <2>1. Init => Sole /\ DueBatch
    BY DEF Init, Sole, DueBatch, Off, SaverOff
  <2>2. QED BY <2>1, CarefulInit DEF Due
<1>3. Due /\ [Next]_vars => Due'
  BY <1>1, CarefulNext, NextCases, SoleSendWorker, SoleOthers, DueSendWorker, DueOthers DEF Due
<1>4. Due /\ [Next]_vars =>
         [\A w \in Workers :
            worker[w].mode = "Due" /\ worker[w].pc = "pass" /\ worker'[w].pc = "sending"
              => outbox[worker'[w].cur.msg].wait = 0]_vars
  BY PassSubmits DEF Due, DueBatch
<1>5. QED BY <1>2, <1>3, <1>4, PTL DEF Spec, BackoffRespected

-----------------------------------------------------------------------------
(* next_retry sleeps until the earliest deadline.                          *)

LEMMA CoveredSendWorker ==
    ASSUME Careful, Sole, Covered, "store" \notin Faults,
           NEW w \in Workers, SendWorkerStep(w)
    PROVE  Covered'
<1> DEFINE here == worker[w]
<1>0. /\ Shapes /\ here \in WorkerStates
      /\ \A v \in Workers \ {w} : worker'[v] = worker[v] /\ worker[v].pc = "off"
  BY ShapesTyped, HandsEffect, SoleSendWorker, OthersIdle
     DEF Careful, Safe, HandsKept, Shapes
<1>1. ASSUME worker'[w].pc # "select" PROVE Covered'
  BY <1>0, <1>1 DEF Covered
<1>2. CASE NextRetry(w)
  <2>1. PICK sleep \in -1 .. MaxBackoff :
           /\ \/ /\ StoreWorks
                 /\ IF Deadlines = {}
                    THEN sleep = NoTimer
                    ELSE \E at \in Deadlines :
                           Earliest(at) /\ sleep = IF at > 1 THEN at ELSE 1
              \/ StoreFails /\ sleep = NoTimer
           /\ worker' = [worker EXCEPT ![w].pc = "select", ![w].timer = sleep]
    BY <1>2 DEF NextRetry
  <2>2. ~StoreFails
    BY DEF StoreFails, Fault, Sole
  <2>3. outbox' = outbox /\ worker'[w].timer = sleep
    BY <1>0, <1>2, <2>1 DEF NextRetry, Shapes, WorkerStates
  <2>4. ASSUME NEW m \in Messages, IsPending(m) PROVE InTime(sleep, outbox[m].wait)
    <3>1. outbox[m].wait \in Deadlines
      BY <2>4 DEF Deadlines
    <3>2. Deadlines \subseteq Nat
      BY <1>0 DEF Deadlines, Shapes, Rows
    <3>3. PICK at \in Deadlines :
             Earliest(at) /\ sleep = IF at > 1 THEN at ELSE 1
      BY <2>1, <2>2, <3>1
    <3>4. at <= outbox[m].wait
      BY <3>1, <3>3 DEF Earliest
    <3>5. at \in Nat /\ outbox[m].wait \in Nat
      BY <3>1, <3>2
    <3>6. QED BY <3>3, <3>4, <3>5 DEF InTime, NoTimer
  <2>5. QED BY <1>0, <2>3, <2>4 DEF Covered, IsPending
<1>3. CASE DrainSelect(w) \/ TransportAccepts(w) \/ TransportFails(w) \/ RecordSent(w)
           \/ Reschedule(w)
  BY <1>0, <1>1, <1>3 DEF DrainSelect, TransportAccepts, TransportFails, RecordSent,
        Reschedule, Shapes, WorkerStates
<1>4. ASSUME NEW e \in here.batch, SubmitUnusable(w, e) \/ SubmitMark(w, e) PROVE Covered'
  BY <1>0, <1>1, <1>4 DEF SubmitUnusable, SubmitMark, Shapes, WorkerStates
<1>5. CASE PassAborts(w) \/ FinishPass(w)
  BY <1>0, <1>1, <1>5 DEF PassAborts, FinishPass, EndPass, Shapes, Off
<1>10. CASE TimerFires(w) \/ Enqueue(w)
  BY <1>0, <1>1, <1>10 DEF TimerFires, Enqueue, Shapes, WorkerStates
<1>6. CASE ReceiveDrain(w)
  BY <1>0, <1>1, <1>6 DEF ReceiveDrain, Shapes, Off
<1>7. CASE ReceiveSend(w)
  BY <1>0, <1>1, <1>7 DEF ReceiveSend, Shapes, Off
<1>8. CASE ReceiveShutdown(w)
  BY <1>0, <1>1, <1>8 DEF ReceiveShutdown, Shapes, Off
<1>9. QED BY <1>2, <1>3, <1>4, <1>5, <1>6, <1>7, <1>8, <1>10 DEF SendWorkerStep

LEMMA CoveredOthers ==
    ASSUME Careful, Covered,
           HostStep \/ (\E w \in Workers : SaveStep(w)) \/ UNCHANGED vars
    PROVE  Covered'
<1>0. Shapes /\ ~("none" \in {"queued", "sending"})
  BY ShapesTyped DEF Careful, Safe
<1>1. CASE Tick
  <2>1. ASSUME NEW w \in Workers, NEW m \in Messages,
               worker'[w].pc = "select", outbox'[m].state \in {"queued", "sending"}
        PROVE  InTime(worker'[w].timer, outbox'[m].wait)
    <3> DEFINE timer == worker[w].timer
               wait == outbox[m].wait
    <3>1. /\ worker[w].pc = worker'[w].pc
          /\ worker'[w].timer = IF timer > 0 THEN timer - 1 ELSE timer
      BY <1>0, <1>1 DEF Tick, Shapes, WorkerStates
    <3>2. /\ outbox'[m].state = outbox[m].state /\ outbox'[m].wait = Less(wait, 1)
      BY <1>0, <1>1 DEF Tick, Shapes, Rows
    <3>3. InTime(timer, wait)
      BY <2>1, <3>1, <3>2 DEF Covered, IsPending
    <3>4. timer \in Int /\ wait \in Nat
      BY SMTT(30), <1>0, OutboxAssumption DEF Shapes, WorkerStates, Rows
    <3> HIDE DEF timer, wait
    <3>5. QED BY <3>1, <3>2, <3>3, <3>4 DEF InTime, NoTimer, Less
  <2>2. QED BY <2>1 DEF Covered, IsPending
<1>2. CASE ~Tick
  <2>1. \A m \in Messages : outbox'[m] = outbox[m] \/ outbox'[m].state = "none"
    <3>1. \A m \in Messages : outbox'[m] = outbox[m] \/ outbox'[m] = NoRow
      BY <1>2, WaitsShrink
    <3>2. NoRow.state = "none"
      BY DEF NoRow
    <3>3. QED BY <3>1, <3>2
  <2>2. \A w \in Workers : worker'[w] = worker[w] \/ worker'[w].pc # "select"
    <3>1. CASE \E w \in Workers : Spawn(w)
      BY <1>0, <3>1 DEF Spawn, Shapes, Off
    <3>2. CASE Crash
      BY <3>2 DEF Crash, Off
    <3>3. CASE \E w \in Workers : SaveStep(w)
      BY <3>3 DEF SaveStep, SaveSelect, ClearRow, ClearFile, SaveEnds, AccountWorkerEnds,
                  SaveTaken, SaveRefused
    <3>4. CASE Retire \/ RequestDrain \/ Prune \/ (\E m \in Messages : Send(m)) \/ UNCHANGED vars
      BY <3>4 DEF Retire, RequestDrain, Prune, Send, vars
    <3>5. QED BY <1>2, <3>1, <3>2, <3>3, <3>4 DEF HostStep
  <2>3. QED BY <2>1, <2>2 DEF Covered, IsPending
<1>3. QED BY <1>1, <1>2

(* The sleep of an idle send worker ends no later than the earliest        *)
(* deadline, or a second later, whatever happens while it sleeps: while    *)
(* the store answers next_retry, and no second worker reschedules what     *)
(* this one read (send_worker.rs, module comment).                         *)
THEOREM SleepEndsInTime ==
    ASSUME "retire" \notin Faults, "store" \notin Faults
    PROVE  Spec => []SleepCoversDeadline
<1>1. "retire" \notin Faults /\ "store" \notin Faults
  OBVIOUS
<1>2. Init => Punctual
  <2>1. Init => Sole /\ Covered
    BY DEF Init, Sole, Covered, Off, SaverOff
  <2>2. QED BY <2>1, CarefulInit DEF Punctual
<1>3. Punctual /\ [Next]_vars => Punctual'
  BY <1>1, CarefulNext, NextCases, SoleSendWorker, SoleOthers, CoveredSendWorker, CoveredOthers
     DEF Punctual
<1>4. Punctual => SleepCoversDeadline
  BY DEF Punctual, Covered, InTime, SleepCoversDeadline
<1>5. QED BY <1>2, <1>3, <1>4, PTL DEF Spec

=============================================================================
