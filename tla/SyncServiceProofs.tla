-------------------------- MODULE SyncServiceProofs --------------------------
(***************************************************************************)
(* What holds of SyncService for every finite set of accounts, however     *)
(* they change, and for any number of passes and commands.                 *)
(***************************************************************************)
EXTENDS SyncService, FiniteSetTheorems, TLAPS

-----------------------------------------------------------------------------
(* The inductive invariant.                                                *)

(* The types without the bounds on the report, which follow from the       *)
(* count of the accounts that are in.                                      *)
Typed ==
    /\ discovery \in {"starting", "watching", "failed"}
    /\ workers \in [Accounts -> Nat]
    /\ threads \in Seq(Threads)
    /\ tracker \in [pending : SUBSET Accounts, synced : Nat, failed : Nat]
    /\ changes \in Nat /\ passes \in Nat /\ requests \in Nat
    /\ pass \in Passes

(* The worker of an account is a thread that was spawned for it.           *)
Owned ==
    \A a \in Accounts : workers[a] # 0 =>
        workers[a] \in Numbers /\ threads[workers[a]].account = a

Inv == Typed /\ Owned /\ ReportedOnce /\ OneWorkerPerAccount

LEMMA OrderBijective ==
    ASSUME NEW new \in SUBSET Accounts
    PROVE  /\ Cardinality(new) \in Nat
           /\ Order(new) \in [1 .. Cardinality(new) -> new]
           /\ \A a \in new : \E i \in 1 .. Cardinality(new) : Order(new)[i] = a
           /\ \A i, j \in 1 .. Cardinality(new) : Order(new)[i] = Order(new)[j] => i = j
<1> DEFINE n == Cardinality(new)
           P(s) == \A a \in new : \E i \in DOMAIN s : s[i] = a
<1>1. IsFiniteSet(new) /\ n \in Nat /\ ExistsBijection(1 .. n, new)
  BY SyncServiceAssumption, FS_Subset, FS_CardinalityType
<1>2. \E s \in [1 .. n -> new] : P(s)
  <2>1. PICK s : s \in Bijection(1 .. n, new)
    BY <1>1 DEF ExistsBijection
  <2>2. s \in [1 .. n -> new] /\ DOMAIN s = 1 .. n
    BY <2>1 DEF Bijection, Surjection
  <2>3. \A a \in new : \E i \in 1 .. n : s[i] = a
    BY <2>1 DEF Bijection, Surjection
  <2>4. QED BY <2>2, <2>3
<1>3. Order(new) \in [1 .. n -> new] /\ P(Order(new))
  BY <1>2 DEF Order
<1>4. Order(new) \in Surjection(1 .. n, new)
  BY <1>3 DEF Surjection
<1>5. IsFiniteSet(1 .. n) /\ Cardinality(1 .. n) = n
  BY <1>1, FS_Interval
<1>6. Order(new) \in Injection(1 .. n, new)
  BY <1>4, <1>5, FS_SurjSameCardinalityImpliesInj
<1>7. \A i, j \in 1 .. n : Order(new)[i] = Order(new)[j] => i = j
  BY <1>3, <1>6 DEF Injection, IsInjective
<1>8. \A a \in new : \E i \in 1 .. n : Order(new)[i] = a
  BY <1>4 DEF Surjection
<1>9. QED BY <1>1, <1>3, <1>7, <1>8

LEMMA ReportBounded ==
    ASSUME Typed, ReportedOnce
    PROVE  tracker.synced \in 0 .. Cardinality(Accounts) /\ tracker.failed \in 0 .. Cardinality(Accounts)
<1> DEFINE D == pass.accounts \ tracker.pending
<1>1. D \in SUBSET Accounts
  BY DEF Typed, Passes
<1>2. Cardinality(D) \in Nat /\ Cardinality(Accounts) \in Nat
      /\ Cardinality(D) <= Cardinality(Accounts)
  BY <1>1, SyncServiceAssumption, FS_Subset, FS_CardinalityType
<1>3. tracker.synced \in Nat /\ tracker.failed \in Nat
      /\ tracker.synced + tracker.failed = Cardinality(D)
  BY DEF Typed, ReportedOnce
<1> HIDE DEF D
<1>4. QED BY <1>2, <1>3

LEMMA InvInit == Init => Inv
<1> SUFFICES ASSUME Init PROVE Inv
  OBVIOUS
<1>1. Typed
  BY DEF Init, Typed, Passes
<1>2. Owned /\ OneWorkerPerAccount
  BY DEF Init, Owned, OneWorkerPerAccount, Numbers
<1>3. ReportedOnce
  BY FS_EmptySet DEF Init, ReportedOnce, Busy
<1>4. QED BY <1>1, <1>2, <1>3 DEF Inv

-----------------------------------------------------------------------------
(* Commands to the threads.                                                *)

LEMMA ThreadTyped ==
    ASSUME Typed, NEW t \in Numbers
    PROVE  /\ threads[t] \in Threads /\ threads[t].account \in Accounts
           /\ threads[t].commands \in Seq(Commands) /\ threads[t].events \in Seq(Events)
           /\ threads[t].running \in BOOLEAN
<1>1. threads[t] \in Threads
  BY DEF Typed, Numbers
<1>2. QED BY <1>1 DEF Threads

LEMMA Told ==
    ASSUME NEW cs \in Seq(Commands), NEW command \in Commands
    PROVE  LET Has(q) == "Shutdown" \in {q[i] : i \in DOMAIN q}
           IN  /\ Has(Append(cs, command)) <=> Has(cs) \/ command = "Shutdown"
               /\ cs # <<>> /\ Head(cs) # "Shutdown" => (Has(Tail(cs)) <=> Has(cs))
<1> DEFINE r == Append(cs, command)
           u == Tail(cs)
<1>1. /\ DOMAIN r = DOMAIN cs \cup {Len(cs) + 1} /\ r[Len(cs) + 1] = command
      /\ \A i \in DOMAIN cs : r[i] = cs[i]
  OBVIOUS
<1>2. ASSUME cs # <<>>
      PROVE  /\ \A i \in DOMAIN u : i + 1 \in DOMAIN cs /\ u[i] = cs[i + 1]
             /\ \A i \in DOMAIN cs \ {1} : i - 1 \in DOMAIN u /\ u[i - 1] = cs[i]
             /\ Head(cs) = cs[1]
  BY <1>2
<1> HIDE DEF r, u
<1>3. "Shutdown" \in {r[i] : i \in DOMAIN r}
        <=> "Shutdown" \in {cs[i] : i \in DOMAIN cs} \/ command = "Shutdown"
  BY <1>1
<1>4. ASSUME cs # <<>>, Head(cs) # "Shutdown"
      PROVE  "Shutdown" \in {u[i] : i \in DOMAIN u} <=> "Shutdown" \in {cs[i] : i \in DOMAIN cs}
  BY <1>2, <1>4
<1>5. QED BY <1>3, <1>4 DEF r, u

LEMMA Sent ==
    ASSUME Typed, NEW numbers, NEW command \in Commands
    PROVE  LET ts == Send(threads, numbers, command)
           IN  /\ ts \in Seq(Threads) /\ Len(ts) = Len(threads) /\ DOMAIN ts = Numbers
               /\ \A t \in Numbers :
                     /\ ts[t].account = threads[t].account /\ ts[t].running = threads[t].running
                     /\ "Shutdown" \in {ts[t].commands[i] : i \in DOMAIN ts[t].commands}
                           <=> \/ ToldToEnd(t)
                               \/ command = "Shutdown" /\ t \in numbers /\ threads[t].running
<1> DEFINE ts == Send(threads, numbers, command)
<1>1. /\ ts = [t \in Numbers |-> IF t \in numbers /\ threads[t].running
                                 THEN [threads[t] EXCEPT !.commands = Append(@, command)]
                                 ELSE threads[t]]
      /\ Numbers = 1 .. Len(threads) /\ Len(threads) \in Nat
  BY DEF Send, Numbers, Typed
<1> HIDE DEF ts
<1>2. ASSUME NEW t \in Numbers
      PROVE  /\ ts[t] \in Threads
             /\ ts[t].account = threads[t].account /\ ts[t].running = threads[t].running
             /\ ts[t].commands = IF t \in numbers /\ threads[t].running
                                 THEN Append(threads[t].commands, command)
                                 ELSE threads[t].commands
  <2>1. threads[t] \in Threads /\ threads[t].commands \in Seq(Commands)
    BY ThreadTyped
  <2>2. Append(threads[t].commands, command) \in Seq(Commands)
    BY <2>1
  <2>3. QED BY <1>1, <2>1, <2>2 DEF Threads
<1>3. ts \in Seq(Threads) /\ Len(ts) = Len(threads) /\ DOMAIN ts = Numbers
  <2>1. ts \in [1 .. Len(threads) -> Threads]
    <3>1. \A t \in 1 .. Len(threads) : ts[t] \in Threads
      BY <1>1, <1>2
    <3>2. QED BY <1>1, <3>1
  <2>2. \A f, k : k \in Nat /\ f \in [1 .. k -> Threads]
            => f \in Seq(Threads) /\ Len(f) = k /\ DOMAIN f = 1 .. k
    OBVIOUS
  <2>3. QED BY <1>1, <2>1, <2>2
<1>4. ASSUME NEW t \in Numbers
      PROVE  "Shutdown" \in {ts[t].commands[i] : i \in DOMAIN ts[t].commands}
               <=> ToldToEnd(t) \/ (command = "Shutdown" /\ t \in numbers /\ threads[t].running)
  <2>1. threads[t].commands \in Seq(Commands)
    BY ThreadTyped
  <2>2. CASE t \in numbers /\ threads[t].running
    <3>1. ts[t].commands = Append(threads[t].commands, command)
      BY <1>2, <2>2
    <3>2. "Shutdown" \in {ts[t].commands[i] : i \in DOMAIN ts[t].commands}
             <=> \/ "Shutdown" \in {threads[t].commands[i] : i \in DOMAIN threads[t].commands}
                 \/ command = "Shutdown"
      <4>1. PICK cs \in Seq(Commands) : cs = threads[t].commands
        BY <2>1
      <4>2. "Shutdown" \in {Append(cs, command)[i] : i \in DOMAIN Append(cs, command)}
               <=> \/ "Shutdown" \in {cs[i] : i \in DOMAIN cs}
                   \/ command = "Shutdown"
        BY Told
      <4>3. QED BY <3>1, <4>1, <4>2
    <3>3. QED BY <2>2, <3>2 DEF ToldToEnd
  <2>3. CASE ~(t \in numbers /\ threads[t].running)
    BY <1>2, <2>3 DEF ToldToEnd
  <2>4. QED BY <2>2, <2>3
<1>5. QED BY <1>2, <1>3, <1>4 DEF ts

-----------------------------------------------------------------------------
(* Every step keeps the invariant.                                         *)

(* Two lists one after the other.                                          *)
LEMMA Joined ==
    ASSUME NEW T, NEW r \in Seq(T), NEW s \in Seq(T)
    PROVE  /\ r \o s \in Seq(T) /\ Len(r \o s) = Len(r) + Len(s)
           /\ \A i \in 1 .. Len(r) : (r \o s)[i] = r[i]
           /\ \A i \in 1 .. Len(s) : (r \o s)[Len(r) + i] = s[i]
           /\ \A i \in 1 .. Len(r \o s) :
                 i \in 1 .. Len(r) \/ \E k \in 1 .. Len(s) : i = Len(r) + k
<1>1. Len(r) \in Nat /\ Len(s) \in Nat /\ Len(r \o s) = Len(r) + Len(s)
  OBVIOUS
<1>2. \A i \in 1 .. Len(r) + Len(s) : i \in 1 .. Len(r) \/ i - Len(r) \in 1 .. Len(s)
  BY <1>1
<1>3. \A i \in 1 .. Len(r) + Len(s) : i = Len(r) + (i - Len(r))
  BY <1>1
<1>4. QED BY <1>1, <1>2, <1>3

LEMMA InvReconcile ==
    ASSUME Inv, NEW found \in Lists, Reconcile(found)
    PROVE  Inv'
<1> DEFINE new == {a \in found : workers[a] = 0}
           gone == {a \in Accounts \ found : workers[a] # 0}
           order == Order(new)
           n == Cardinality(new)
           R == Retired(threads, gone)
           S == [i \in DOMAIN order |-> Spawned(order[i])]
           pos(a) == CHOOSE i \in DOMAIN order : order[i] = a
<1>i. Typed /\ Owned /\ ReportedOnce /\ OneWorkerPerAccount
  BY DEF Inv
<1>w. workers \in [Accounts -> Nat] /\ threads \in Seq(Threads) /\ Len(threads) \in Nat
      /\ Numbers = 1 .. Len(threads)
  BY <1>i DEF Typed, Numbers
<1>n. new \in SUBSET Accounts /\ found \subseteq Accounts
  BY SyncServiceAssumption
<1>o. /\ n \in Nat /\ order \in [1 .. n -> new] /\ DOMAIN order = 1 .. n
      /\ \A a \in new : \E i \in 1 .. n : order[i] = a
      /\ \A i, j \in 1 .. n : order[i] = order[j] => i = j
  BY <1>n, OrderBijective
<1>p. \A a \in new : pos(a) \in 1 .. n /\ order[pos(a)] = a
  BY <1>o
<1>q. \A i \in 1 .. n : order[i] \in new /\ pos(order[i]) = i
  BY <1>o, <1>p
<1>s. threads' = R \o S
  BY DEF Reconcile
<1>v. \A a \in Accounts : workers'[a] = IF a \in gone THEN 0
                                        ELSE IF a \notin new THEN workers[a]
                                        ELSE Len(threads) + pos(a)
  BY DEF Reconcile
<1>f. workers' = [a \in Accounts |-> workers'[a]]
  BY DEF Reconcile
<1>u. /\ UNCHANGED <<tracker, passes, requests, pass>>
      /\ discovery' = "watching" /\ changes' \in {changes, changes + 1}
  BY DEF Reconcile
<1>1. /\ R \in Seq(Threads) /\ Len(R) = Len(threads) /\ DOMAIN R = Numbers
      /\ \A t \in Numbers :
            /\ R[t].account = threads[t].account /\ R[t].running = threads[t].running
            /\ "Shutdown" \in {R[t].commands[i] : i \in DOMAIN R[t].commands}
                 <=> ToldToEnd(t) \/ ((\E a \in gone : workers[a] = t) /\ threads[t].running)
  <2>1. "Shutdown" \in Commands
    BY DEF Commands
  <2> DEFINE told == {workers[a] : a \in gone}
  <2>2. R = Send(threads, told, "Shutdown")
    BY DEF Retired
  <2>3. \A t : t \in told <=> \E a \in gone : workers[a] = t
    OBVIOUS
  <2> HIDE DEF R, gone, told
  <2>4. /\ R \in Seq(Threads) /\ Len(R) = Len(threads) /\ DOMAIN R = Numbers
        /\ \A t \in Numbers :
              /\ R[t].account = threads[t].account /\ R[t].running = threads[t].running
              /\ "Shutdown" \in {R[t].commands[i] : i \in DOMAIN R[t].commands}
                   <=> ToldToEnd(t) \/ (t \in told /\ threads[t].running)
    BY <1>i, <2>1, <2>2, Sent
  <2>5. QED BY <2>3, <2>4
<1>2. /\ S \in Seq(Threads) /\ Len(S) = n
      /\ \A i \in 1 .. n : S[i] = Spawned(order[i])
  <2>1. \A a \in Accounts : Spawned(a) \in Threads
    BY DEF Spawned, Threads, Commands, Events
  <2>2. \A i \in 1 .. n : order[i] \in Accounts
    BY <1>n, <1>q
  <2>3. S = [i \in 1 .. n |-> Spawned(order[i])] /\ \A i \in 1 .. n : Spawned(order[i]) \in Threads
    BY <1>o, <2>1, <2>2
  <2> HIDE DEF S, order, n
  <2>4. QED BY <1>o, <2>3
<1> HIDE DEF R, S, order, n, pos
<1>3. /\ threads' \in Seq(Threads) /\ Len(threads') = Len(threads) + n
      /\ Numbers' = 1 .. Len(threads) + n
      /\ \A t \in Numbers : threads'[t] = R[t]
      /\ \A i \in 1 .. n : threads'[Len(threads) + i] = Spawned(order[i])
      /\ \A t \in Numbers' : t \in Numbers \/ \E i \in 1 .. n : t = Len(threads) + i
  <2>1. Numbers' = DOMAIN threads'
    BY DEF Numbers
  <2>2. /\ threads' \in Seq(Threads) /\ Len(threads') = Len(R) + Len(S)
        /\ \A i \in 1 .. Len(R) : threads'[i] = R[i]
        /\ \A i \in 1 .. Len(S) : threads'[Len(R) + i] = S[i]
        /\ \A i \in 1 .. Len(threads') : i \in 1 .. Len(R) \/ \E k \in 1 .. Len(S) : i = Len(R) + k
    <3>1. R \in Seq(Threads) /\ S \in Seq(Threads)
      BY <1>1, <1>2
    <3> DEFINE q == R \o S
    <3>2. /\ q \in Seq(Threads) /\ Len(q) = Len(R) + Len(S)
          /\ \A i \in 1 .. Len(R) : q[i] = R[i]
          /\ \A i \in 1 .. Len(S) : q[Len(R) + i] = S[i]
          /\ \A i \in 1 .. Len(q) :
                i \in 1 .. Len(R) \/ \E k \in 1 .. Len(S) : i = Len(R) + k
      BY <3>1, Joined, ZenonT(40)
    <3>3. threads' = q
      BY <1>s
    <3> HIDE DEF q
    <3>4. QED BY <3>2, <3>3
  <2>3. Len(R) = Len(threads) /\ Len(S) = n
    BY <1>1, <1>2
  <2>4. Numbers' = 1 .. Len(threads')
    BY <2>1, <2>2
  <2>5. \A i \in 1 .. n : threads'[Len(threads) + i] = Spawned(order[i])
    BY <1>2, <2>2, <2>3
  <2>6. threads' \in Seq(Threads) /\ Len(threads') = Len(threads) + n
    BY <2>2, <2>3
  <2>7. \A t \in Numbers : threads'[t] = R[t]
    BY <1>w, <2>2, <2>3
  <2>8. \A t \in Numbers' : t \in Numbers \/ \E i \in 1 .. n : t = Len(threads) + i
    BY <1>w, <2>2, <2>3, <2>4
  <2>9. QED BY <2>4, <2>5, <2>6, <2>7, <2>8
<1>4. Typed'
  <2>1. \A a \in Accounts : workers'[a] \in Nat
    BY <1>v, <1>p, <1>o, <1>w
  <2>2. workers' \in [Accounts -> Nat]
    BY <1>f, <2>1
  <2>3. changes' \in Nat
    BY <1>i, <1>u DEF Typed
  <2>4. QED BY <1>i, <1>u, <1>3, <2>2, <2>3 DEF Typed
<1>5. Owned'
  <2> SUFFICES ASSUME NEW a \in Accounts, workers'[a] # 0
               PROVE  workers'[a] \in Numbers' /\ threads'[workers'[a]].account = a
    BY DEF Owned
  <2>1. CASE a \in new
    <3>1. a \notin gone /\ workers'[a] = Len(threads) + pos(a) /\ pos(a) \in 1 .. n
          /\ order[pos(a)] = a
      BY <1>v, <1>p, <2>1
    <3>2. threads'[workers'[a]] = Spawned(a)
      BY <1>3, <3>1
    <3>3. QED BY <1>3, <1>o, <1>w, <3>1, <3>2 DEF Spawned
  <2>2. CASE a \notin new
    <3>1. workers'[a] = workers[a] /\ workers[a] # 0
      BY <1>v, <2>2
    <3>2. workers[a] \in Numbers /\ threads[workers[a]].account = a
      BY <1>i, <3>1 DEF Owned
    <3>3. QED BY <1>1, <1>3, <1>o, <1>w, <3>1, <3>2
  <2>3. QED BY <2>1, <2>2
<1>6. OneWorkerPerAccount'
  <2>h. \A t : t \in InService' <=> t # 0 /\ \E a \in Accounts : workers'[a] = t
    BY DEF InService
  <2>g. \A t : t \in InService <=> t # 0 /\ \E a \in Accounts : workers[a] = t
    BY DEF InService
  <2>1. ASSUME NEW t \in Numbers
        PROVE  IF t \in InService'
               THEN threads'[t].running /\ ~ToldToEnd(t)' /\ workers'[threads'[t].account] = t
               ELSE threads'[t].running => ToldToEnd(t)'
    <3>1. /\ threads'[t] = R[t] /\ R[t].account = threads[t].account
          /\ R[t].running = threads[t].running /\ t # 0
      BY <1>1, <1>3, <1>w
    <3>2. ToldToEnd(t)' <=> ToldToEnd(t) \/ ((\E a \in gone : workers[a] = t) /\ threads[t].running)
      BY <1>1, <3>1 DEF ToldToEnd
    <3>3. ASSUME NEW a \in Accounts, workers'[a] = t
          PROVE  a \notin gone /\ workers[a] = t
      BY <1>v, <1>p, <1>o, <1>w, <3>1, <3>3
    <3>4. \A a \in Accounts : workers[a] = t => threads[t].account = a
      BY <1>i, <3>1 DEF Owned
    <3>5. CASE t \in InService'
      <4>1. PICK a \in Accounts : workers'[a] = t
        BY <2>h, <3>5
      <4>2. a \notin gone /\ workers[a] = t /\ threads[t].account = a /\ t \in InService
        BY <2>g, <3>1, <3>3, <3>4, <4>1
      <4>3. ~ToldToEnd(t) /\ threads[t].running
        BY <1>i, <4>2 DEF OneWorkerPerAccount
      <4>4. ~ \E b \in gone : workers[b] = t
        BY <3>4, <4>2
      <4>5. QED BY <3>1, <3>2, <3>5, <4>1, <4>2, <4>3, <4>4
    <3>6. CASE t \notin InService'
      <4>1. CASE \E a \in Accounts : workers[a] = t
        <5>1. PICK a \in Accounts : workers[a] = t
          BY <4>1
        <5>2. a \in gone
          BY <1>v, <2>h, <3>1, <3>6, <5>1
        <5>3. QED BY <3>1, <3>2, <3>6, <5>1, <5>2
      <4>2. CASE ~ \E a \in Accounts : workers[a] = t
        <5>1. threads[t].running => ToldToEnd(t)
          BY <1>i, <2>g, <4>2 DEF OneWorkerPerAccount
        <5>2. QED BY <3>1, <3>2, <3>6, <5>1
      <4>3. QED BY <4>1, <4>2
    <3>7. QED BY <3>5, <3>6
  <2>2. ASSUME NEW i \in 1 .. n, NEW t, t = Len(threads) + i
        PROVE  /\ t \in InService' /\ threads'[t].running /\ ~ToldToEnd(t)'
               /\ workers'[threads'[t].account] = t
    <3>1. threads'[t] = Spawned(order[i]) /\ order[i] \in new /\ order[i] \in Accounts
          /\ order[i] \notin gone /\ pos(order[i]) = i /\ t # 0
      BY <1>3, <1>q, <1>n, <1>o, <1>w, <2>2
    <3>2. workers'[order[i]] = t
      BY <1>v, <2>2, <3>1
    <3>3. ~ToldToEnd(t)'
      <4>1. threads'[t].commands = <<"Sync">>
        BY <3>1 DEF Spawned
      <4>2. {<<"Sync">>[k] : k \in DOMAIN <<"Sync">>} = {"Sync"}
        OBVIOUS
      <4>3. QED BY <3>1, <4>1, <4>2 DEF ToldToEnd
    <3>4. QED BY <2>h, <3>1, <3>2, <3>3 DEF Spawned
  <2>3. ASSUME NEW t \in Numbers'
        PROVE  IF t \in InService'
               THEN threads'[t].running /\ ~ToldToEnd(t)' /\ workers'[threads'[t].account] = t
               ELSE threads'[t].running => ToldToEnd(t)'
    BY <1>3, <2>1, <2>2
  <2>4. QED BY <2>3 DEF OneWorkerPerAccount
<1>7. ReportedOnce'
  BY <1>i, <1>u DEF ReportedOnce, Busy
<1>8. QED BY <1>4, <1>5, <1>6, <1>7 DEF Inv

(* The threads that a command was sent to are the same threads.            *)
LEMMA InvSend ==
    ASSUME Inv, NEW numbers, NEW command \in {"Sync", "Other"},
           threads' = Send(threads, numbers, command), workers' = workers
    PROVE  Owned' /\ OneWorkerPerAccount' /\ threads' \in Seq(Threads)
<1>1. /\ threads' \in Seq(Threads) /\ Len(threads') = Len(threads) /\ DOMAIN threads' = Numbers
      /\ \A t \in Numbers :
            /\ threads'[t].account = threads[t].account /\ threads'[t].running = threads[t].running
            /\ "Shutdown" \in {threads'[t].commands[i] : i \in DOMAIN threads'[t].commands}
                 <=> ToldToEnd(t)
  <2>1. command \in Commands /\ command # "Shutdown" /\ Typed
    BY DEF Commands, Inv
  <2>2. QED BY <2>1, Sent
<1>2. Numbers' = Numbers /\ InService' = InService
  BY <1>1 DEF Numbers, InService
<1>3. \A t \in Numbers : ToldToEnd(t)' <=> ToldToEnd(t)
  BY <1>1 DEF ToldToEnd
<1>4. Owned'
  BY <1>1, <1>2 DEF Inv, Owned
<1>5. OneWorkerPerAccount'
  BY <1>1, <1>2, <1>3 DEF Inv, OneWorkerPerAccount
<1>6. QED BY <1>1, <1>4, <1>5

(* The user starts a pass, or asks for something else.                     *)
LEMMA InvUser ==
    ASSUME Inv, SendReceive \/ (\E a \in Accounts : Ask(a))
    PROVE  Inv'
<1>1. PICK numbers, command : /\ command \in {"Sync", "Other"}
                              /\ threads' = Send(threads, numbers, command)
  BY DEF SendReceive, Ask
<1>2. workers' = workers /\ discovery' = discovery /\ changes' = changes
  BY DEF SendReceive, Ask
<1>3. Owned' /\ OneWorkerPerAccount' /\ threads' \in Seq(Threads)
  BY <1>1, <1>2, InvSend
<1>4. CASE SendReceive
  <2> DEFINE accounts == {a \in Accounts : workers[a] # 0}
  <2>1. /\ tracker' = [pending |-> accounts, synced |-> 0, failed |-> 0]
        /\ pass' = [accounts |-> accounts,
                    started |-> IF accounts = {} THEN pass.started ELSE pass.started + 1,
                    reported |-> pass.reported]
        /\ ~Busy /\ passes' = passes + 1 /\ requests' = requests
    BY <1>4 DEF SendReceive
  <2>2. pass.started \in Nat /\ pass.reported \in Nat /\ passes \in Nat /\ Typed
        /\ pass.started = pass.reported
    BY <2>1 DEF Inv, Typed, Passes, ReportedOnce
  <2>3. Typed'
    BY <1>2, <1>3, <2>1, <2>2 DEF Typed, Passes
  <2>4. Cardinality(pass'.accounts \ tracker'.pending) = 0
    <3>1. pass'.accounts \ tracker'.pending = {}
      BY <2>1
    <3>2. QED BY <3>1, FS_EmptySet
  <2>5. ReportedOnce'
    BY <2>1, <2>2, <2>4 DEF ReportedOnce, Busy
  <2>6. QED BY <1>3, <2>3, <2>5 DEF Inv
<1>5. CASE \E a \in Accounts : Ask(a)
  <2>1. UNCHANGED <<tracker, passes, pass>> /\ requests' = requests + 1
    BY <1>5 DEF Ask
  <2>2. Typed' /\ ReportedOnce'
    BY <1>2, <1>3, <2>1 DEF Inv, Typed, ReportedOnce, Busy
  <2>3. QED BY <1>3, <2>2 DEF Inv
<1>6. QED BY <1>4, <1>5

(* An account of the pass is in, or an event does not matter to it.        *)
LEMMA FinishKeeps ==
    ASSUME Inv, NEW a \in Accounts, NEW failed \in BOOLEAN, FinishSync(a, failed)
    PROVE  /\ tracker' \in [pending : SUBSET Accounts, synced : Nat, failed : Nat]
           /\ pass' \in Passes /\ ReportedOnce'
<1>t. /\ tracker \in [pending : SUBSET Accounts, synced : Nat, failed : Nat]
      /\ pass \in Passes /\ pass.accounts \subseteq Accounts
      /\ pass.started \in Nat /\ pass.reported \in Nat
      /\ tracker.pending \subseteq Accounts /\ tracker.synced \in Nat /\ tracker.failed \in Nat
      /\ ReportedOnce
  BY DEF Inv, Typed, Passes
<1>1. CASE a \notin tracker.pending
  <2>1. tracker' = tracker /\ pass' = pass
    BY <1>1 DEF FinishSync, Completed
  <2>2. QED BY <1>t, <2>1 DEF ReportedOnce, Busy
<1>2. CASE a \in tracker.pending
  <2> DEFINE D == pass.accounts \ tracker.pending
  <2>1. /\ tracker' = [pending |-> tracker.pending \ {a},
                       synced |-> IF failed THEN tracker.synced ELSE tracker.synced + 1,
                       failed |-> IF failed THEN tracker.failed + 1 ELSE tracker.failed]
        /\ pass' = [accounts |-> pass.accounts, started |-> pass.started,
                    reported |-> IF tracker.pending \ {a} = {} THEN pass.reported + 1
                                 ELSE pass.reported]
    <3>1. tracker' = [Counted(failed) EXCEPT !.pending = @ \ {a}]
      BY <1>2 DEF FinishSync, Completed
    <3>2. tracker' = [pending |-> tracker.pending \ {a},
                      synced |-> IF failed THEN tracker.synced ELSE tracker.synced + 1,
                      failed |-> IF failed THEN tracker.failed + 1 ELSE tracker.failed]
      BY <1>t, <3>1 DEF Counted
    <3>3. pass' = IF tracker'.pending = {} THEN [pass EXCEPT !.reported = @ + 1] ELSE pass
      BY <1>2 DEF FinishSync
    <3>4. QED BY <1>t, <3>2, <3>3 DEF Passes
  <2>2. a \in pass.accounts /\ a \notin D
        /\ pass.accounts \ (tracker.pending \ {a}) = D \cup {a}
    BY <1>t, <1>2 DEF ReportedOnce
  <2>3. Cardinality(pass.accounts \ (tracker.pending \ {a})) = Cardinality(D) + 1
        /\ Cardinality(D) \in Nat
    <3>1. IsFiniteSet(D)
      BY <1>t, SyncServiceAssumption, FS_Subset
    <3> HIDE DEF D
    <3>2. QED BY <2>2, <3>1, FS_AddElement, FS_CardinalityType
  <2>4. tracker'.synced + tracker'.failed = tracker.synced + tracker.failed + 1
    BY <1>t, <2>1
  <2>5. tracker.synced + tracker.failed = Cardinality(D) /\ pass.started = pass.reported + 1
        /\ tracker.pending \subseteq pass.accounts
    BY <1>t, <1>2 DEF ReportedOnce, Busy
  <2>6. pass'.started = pass'.reported + (IF Busy' THEN 1 ELSE 0)
    BY <1>t, <2>1, <2>5 DEF Busy
  <2>7. ReportedOnce'
    BY <2>1, <2>3, <2>4, <2>5, <2>6 DEF ReportedOnce
  <2>8. QED BY <1>t, <2>1, <2>7 DEF Passes
<1>3. QED BY <1>1, <1>2

(* A thread handles a command or ends, the service handles an event.       *)
LEMMA InvThread ==
    ASSUME Inv, NEW t \in Numbers, Handle(t) \/ End(t) \/ HandleEvent(t)
    PROVE  Inv'
<1>t. /\ threads[t] \in Threads /\ threads[t].account \in Accounts
      /\ threads[t].commands \in Seq(Commands) /\ threads[t].events \in Seq(Events)
      /\ threads[t].running \in BOOLEAN /\ threads \in Seq(Threads)
  BY ThreadTyped DEF Inv, Typed
<1>u. UNCHANGED <<discovery, workers, changes, passes, requests>>
  BY DEF Handle, End, HandleEvent
<1>1. PICK new \in Threads :
          /\ threads' = [threads EXCEPT ![t] = new]
          /\ new.account = threads[t].account
          /\ \/ /\ new.running = threads[t].running
                /\ "Shutdown" \in {new.commands[i] : i \in DOMAIN new.commands} <=> ToldToEnd(t)
             \/ ~new.running /\ ToldToEnd(t)
  <2>1. CASE Handle(t)
    <3> DEFINE command == Head(threads[t].commands)
    <3>1. PICK events \in Outcomes(command) :
              threads' = [threads EXCEPT ![t].commands = Tail(@), ![t].events = @ \o events]
      BY <2>1 DEF Handle
    <3>2. threads[t].commands # <<>> /\ command # "Shutdown" /\ command \in {"Sync", "Other"}
      BY <1>t, <2>1 DEF Handle, Commands
    <3>3. events \in Seq(Events)
      <4>1. /\ <<>> \in Seq(Events) /\ <<"AccountSynced">> \in Seq(Events)
            /\ <<"Failed">> \in Seq(Events) /\ <<"Failed", "Failed">> \in Seq(Events)
            /\ <<"Failed", "AccountSynced">> \in Seq(Events)
        BY DEF Events
      <4>2. events \in {<<>>, <<"AccountSynced">>, <<"Failed">>, <<"Failed", "AccountSynced">>,
                       <<"Failed", "Failed">>}
        <5> HIDE DEF command
        <5>1. CASE command = "Sync"
          BY <5>1, <3>1 DEF Outcomes
        <5>2. CASE command = "Other"
          BY <5>2, <3>1 DEF Outcomes
        <5>3. QED BY <3>2, <5>1, <5>2
      <4>3. QED BY <4>1, <4>2, Zenon
    <3> DEFINE new == [threads[t] EXCEPT !.commands = Tail(@), !.events = @ \o events]
    <3>4. threads' = [threads EXCEPT ![t] = new]
      BY <3>1
    <3>5. new \in Threads /\ new.account = threads[t].account
          /\ new.running = threads[t].running /\ new.commands = Tail(threads[t].commands)
      <4>1. Tail(threads[t].commands) \in Seq(Commands) /\ threads[t].events \o events \in Seq(Events)
        BY <1>t, <3>2, <3>3
      <4>2. QED BY <1>t, <4>1 DEF Threads
    <3> HIDE DEF new
    <3>6. "Shutdown" \in {new.commands[i] : i \in DOMAIN new.commands} <=> ToldToEnd(t)
      <4>1. "Shutdown" \in Commands
        BY DEF Commands
      <4>2. QED BY <1>t, <3>2, <3>5, <4>1, Told DEF ToldToEnd
    <3>7. QED BY <3>4, <3>5, <3>6
  <2>2. CASE End(t)
    <3> DEFINE new == [threads[t] EXCEPT !.running = FALSE, !.commands = <<>>]
    <3>1. threads' = [threads EXCEPT ![t] = new]
      BY <2>2 DEF End
    <3>2. new \in Threads /\ new.account = threads[t].account /\ ~new.running
      <4>1. <<>> \in Seq(Commands)
        OBVIOUS
      <4>2. QED BY <1>t, <4>1 DEF Threads
    <3>3. ToldToEnd(t)
      <4>1. threads[t].commands # <<>> /\ Head(threads[t].commands) = "Shutdown"
        BY <2>2 DEF End
      <4>2. 1 \in DOMAIN threads[t].commands /\ threads[t].commands[1] = "Shutdown"
        BY <1>t, <4>1
      <4>3. QED BY <4>2 DEF ToldToEnd
    <3> HIDE DEF new
    <3>4. QED BY <3>1, <3>2, <3>3
  <2>3. CASE HandleEvent(t)
    <3> DEFINE new == [threads[t] EXCEPT !.events = Tail(@)]
    <3>1. threads' = [threads EXCEPT ![t] = new] /\ threads[t].events # <<>>
      BY <2>3 DEF HandleEvent
    <3>2. Tail(threads[t].events) \in Seq(Events)
      BY <1>t, <3>1
    <3>3. new \in Threads /\ new.account = threads[t].account
          /\ new.running = threads[t].running /\ new.commands = threads[t].commands
      BY <1>t, <3>2 DEF Threads
    <3> HIDE DEF new
    <3>4. QED BY <3>1, <3>3 DEF ToldToEnd
  <2>4. QED BY <2>1, <2>2, <2>3
<1>2. threads' \in Seq(Threads) /\ Len(threads') = Len(threads) /\ Numbers' = Numbers
      /\ threads'[t] = new /\ \A u \in Numbers \ {t} : threads'[u] = threads[u]
  BY <1>t, <1>1 DEF Numbers
<1>3. InService' = InService
  BY <1>u DEF InService
<1>4. Owned'
  BY <1>u, <1>1, <1>2 DEF Inv, Owned
<1>5. OneWorkerPerAccount'
  <2>1. \A u \in Numbers \ {t} : ToldToEnd(u)' <=> ToldToEnd(u)
    BY <1>2 DEF ToldToEnd
  <2>2. \/ new.running = threads[t].running /\ (ToldToEnd(t)' <=> ToldToEnd(t))
        \/ ~new.running /\ ToldToEnd(t)
    BY <1>1, <1>2 DEF ToldToEnd
  <2>3. \A u \in Numbers : threads'[u].account = threads[u].account
    BY <1>1, <1>2
  <2>4. QED BY <1>u, <1>2, <1>3, <2>1, <2>2, <2>3 DEF Inv, OneWorkerPerAccount
<1>6. CASE Handle(t) \/ End(t)
  <2>1. UNCHANGED <<tracker, pass>>
    BY <1>6 DEF Handle, End
  <2>2. Typed' /\ ReportedOnce'
    BY <1>u, <1>2, <2>1 DEF Inv, Typed, ReportedOnce, Busy
  <2>3. QED BY <1>4, <1>5, <2>2 DEF Inv
<1>7. CASE HandleEvent(t)
  <2> DEFINE a == threads[t].account
  <2>1. PICK failed \in BOOLEAN : FinishSync(a, failed)
    BY <1>7 DEF HandleEvent
  <2>2. QED BY <1>t, <1>u, <1>2, <1>4, <1>5, <2>1, FinishKeeps DEF Inv, Typed
<1>8. QED BY <1>6, <1>7

LEMMA InvNext == Inv /\ [Next]_vars => Inv'
<1> SUFFICES ASSUME Inv, [Next]_vars PROVE Inv'
  OBVIOUS
<1>1. CASE UNCHANGED vars
  BY <1>1 DEF vars, Inv, Typed, Owned, ReportedOnce, Busy, OneWorkerPerAccount, ToldToEnd,
              Numbers, InService
<1>2. CASE DiscoverFails
  <2>1. Typed' /\ Owned' /\ ReportedOnce'
    BY <1>2 DEF DiscoverFails, Inv, Typed, Owned, ReportedOnce, Busy, Numbers
  <2>2. OneWorkerPerAccount'
    BY <1>2 DEF DiscoverFails, Inv, OneWorkerPerAccount, ToldToEnd, Numbers, InService
  <2>3. QED BY <2>1, <2>2 DEF Inv
<1>3. QED BY <1>1, <1>2, InvReconcile, InvUser, InvThread DEF Next

(* Every variable keeps its type, and a report never counts more accounts  *)
(* than there are.                                                         *)
THEOREM ServiceTypeCorrect == Spec => []TypeOK
<1>1. Inv => TypeOK
  <2> SUFFICES ASSUME Inv PROVE TypeOK
    OBVIOUS
  <2>1. workers \in [Accounts -> 0 .. Len(threads)]
    <3>1. \A a \in Accounts : workers[a] \in 0 .. Len(threads)
      BY DEF Inv, Typed, Owned, Numbers
    <3>2. QED BY <3>1 DEF Inv, Typed
  <2>2. /\ tracker.synced \in 0 .. Cardinality(Accounts)
        /\ tracker.failed \in 0 .. Cardinality(Accounts)
    BY ReportBounded DEF Inv
  <2>3. tracker \in [pending : SUBSET Accounts, synced : 0 .. Cardinality(Accounts),
                     failed : 0 .. Cardinality(Accounts)]
    BY <2>2 DEF Inv, Typed
  <2>4. QED BY <2>1, <2>3 DEF Inv, Typed, TypeOK
<1>2. QED BY <1>1, InvInit, InvNext, PTL DEF Spec

(* Every Send/Receive pass is reported once and counts each of its         *)
(* accounts once, however the accounts change meanwhile.                   *)
THEOREM PassesReportedOnce == Spec => []ReportedOnce
<1>1. Inv => ReportedOnce
  BY DEF Inv
<1>2. QED BY <1>1, InvInit, InvNext, PTL DEF Spec

(* No account has two workers that go on working.                          *)
THEOREM WorkersMatchAccounts == Spec => []OneWorkerPerAccount
<1>1. Inv => OneWorkerPerAccount
  BY DEF Inv
<1>2. QED BY <1>1, InvInit, InvNext, PTL DEF Spec
=============================================================================
