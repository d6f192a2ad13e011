----------------------------- MODULE StoreThread -----------------------------
(***************************************************************************)
(* The thread that owns the database (mail-core/src/store/worker.rs): the  *)
(* handles that post commands to it through a bounded channel, the loop    *)
(* that executes one command at a time and answers through a channel made  *)
(* for the call, and its end, which any handle that is dropped asks for.   *)
(*                                                                         *)
(* What the commands do to the tables is in Outbox, FolderSync and         *)
(* MessageStore; here a command is the call that made it.  tokio's channel *)
(* gives a free slot to the sender that waits longest, which puts its      *)
(* command there when it next runs: two of them may do so in either order. *)
(* Dropping a handle never waits for a slot.                               *)
(***************************************************************************)
EXTENDS Integers, Sequences, FiniteSets

CONSTANTS
    Handles,    \* the clones of Store that may exist
    Callers,    \* the tasks that call the store, each through one handle
    Capacity,   \* of the channel (64 in the code)
    MaxCalls,   \* how often each task calls (bounds the state space)
    Shutdown, None

ASSUME StoreThreadAssumption ==
    /\ Capacity \in Nat \ {0} /\ MaxCalls \in Nat
    /\ Shutdown \notin Callers /\ None \notin Callers /\ None \notin Handles
    /\ Callers \cap {"opening", "idle", "ended", "failed"} = {}

VARIABLES
    handles,    \* the handles that are alive
    using,      \* the handle that a task is calling through
    call,       \* what each task's call is at
    queue,      \* the commands in the channel
    blocked,    \* the tasks that wait for a slot, the longest first
    granted,    \* the tasks that have been given one
    thread,     \* "opening", "idle", "ended", "failed" to open, or the task it serves
    made,       \* how often each task has called
    executed,   \* history: how often the present call was executed
    early       \* history: the calls queued when a handle was first dropped

vars == <<handles, using, call, queue, blocked, granted, thread, made, executed, early>>

(* A command carries the channel that its caller waits on.                 *)
Commands == Callers \cup {Shutdown}

Elements(s) == {s[i] : i \in DOMAIN s}
Busy == {c \in Callers : call[c] \in {"sending", "waiting"}}
Serving == thread \in Callers
Gone == thread \in {"ended", "failed"}
Dropped == handles # Handles

FreeSlots == Capacity - Len(queue)
Free == Capacity - Len(queue) - Cardinality(granted)
Room == ~Gone /\ blocked = <<>> /\ Free > 0

(***************************************************************************)
(* A call: send the command, then wait for the answer                      *)
(***************************************************************************)
Made(c, h, to) ==
    /\ c \notin Busy /\ h \in handles
    /\ made[c] < MaxCalls /\ made' = [made EXCEPT ![c] = @ + 1]
    /\ call' = [call EXCEPT ![c] = to]
    /\ using' = [using EXCEPT ![c] = h]
    /\ executed' = [executed EXCEPT ![c] = 0]
    /\ early' = early \ {c}
    /\ UNCHANGED <<handles, thread>>

CallQueued(c, h) ==
    /\ Made(c, h, "waiting")
    /\ Room
    /\ queue' = Append(queue, c)
    /\ UNCHANGED <<blocked, granted>>

CallBlocks(c, h) ==
    /\ Made(c, h, "sending")
    /\ ~Gone /\ ~Room
    /\ blocked' = Append(blocked, c)
    /\ UNCHANGED <<queue, granted>>

CallRefused(c, h) ==
    /\ Made(c, h, "closed")
    /\ Gone
    /\ UNCHANGED <<queue, blocked, granted>>

(* A task that was given a slot runs again; nobody reads the channel when  *)
(* the thread has ended.                                                   *)
Push(c) ==
    /\ c \in granted
    /\ granted' = granted \ {c}
    /\ IF Gone
       THEN /\ call' = [call EXCEPT ![c] = "closed"]
            /\ UNCHANGED queue
       ELSE /\ call' = [call EXCEPT ![c] = "waiting"]
            /\ queue' = Append(queue, c)
    /\ UNCHANGED <<handles, using, blocked, thread, made, executed, early>>

(* The future of a call is dropped before it is over - its window closes,  *)
(* its runtime ends: the slot goes to the next, a command that is in the   *)
(* channel stays there.                                                    *)
SlotPassedOn(g) ==
    IF blocked = <<>>
    THEN granted' = g /\ UNCHANGED blocked
    ELSE granted' = g \cup {Head(blocked)} /\ blocked' = Tail(blocked)

Left(s, c) ==
    LET Before(i) == \A j \in 1 .. i : s[j] # c
    IN  [i \in 1 .. Len(s) - 1 |-> IF Before(i) THEN s[i] ELSE s[i + 1]]

Abandon(c) ==
    /\ c \in Busy
    /\ call' = [call EXCEPT ![c] = "abandoned"]
    /\ made' = [made EXCEPT ![c] = MaxCalls]
    /\ CASE c \in granted -> SlotPassedOn(granted \ {c})
         [] c \in Elements(blocked) -> blocked' = Left(blocked, c) /\ UNCHANGED granted
         [] OTHER -> UNCHANGED <<blocked, granted>>
    /\ UNCHANGED <<handles, using, queue, thread, executed, early>>

(***************************************************************************)
(* Handles                                                                 *)
(***************************************************************************)
(* Store::drop: Shutdown goes into the channel if there is room at once.   *)
(* A call borrows its handle.                                              *)
PostedFirst(q) == IF Room THEN <<Shutdown>> \o q ELSE q
Posted(q) == IF Room THEN Append(q, Shutdown) ELSE q

Drop(h) ==
    /\ h \in handles /\ \A c \in Busy : using[c] # h
    /\ handles' = handles \ {h}
    /\ queue' = Posted(queue)
    /\ early' = IF Dropped THEN early
                ELSE (Elements(queue) \cup {thread}) \cap Callers
    /\ UNCHANGED <<using, call, blocked, granted, thread, made, executed>>

(***************************************************************************)
(* The thread                                                              *)
(***************************************************************************)
(* Those whose commands are dropped with the channel, or find it closed.   *)
UnansweredQueued == Elements(queue) \cap Callers
Unanswered == (Elements(queue) \cup Elements(blocked)) \cap Callers

End(how) ==
    /\ thread' = how
    /\ call' = [c \in Callers |-> IF c \in Unanswered /\ c \in Busy THEN "closed" ELSE call[c]]
    /\ queue' = <<>> /\ blocked' = <<>>
    /\ UNCHANGED <<handles, using, granted, made, executed, early>>

Open ==
    /\ thread = "opening"
    /\ \/ /\ thread' = "idle"
          /\ UNCHANGED <<handles, using, call, queue, blocked, granted, made, executed, early>>
       \/ End("failed")

(* The next command leaves the channel, and its slot goes to who waits.    *)
Receive ==
    /\ thread = "idle" /\ queue # <<>> /\ Head(queue) # Shutdown
    /\ thread' = Head(queue)
    /\ queue' = Tail(queue)
    /\ SlotPassedOn(granted)
    /\ UNCHANGED <<handles, using, call, made, executed, early>>

(* The statements are executed, then the answer is given.                  *)
Execute ==
    /\ Serving /\ executed[thread] = 0
    /\ executed' = [executed EXCEPT ![thread] = @ + 1]
    /\ UNCHANGED <<handles, using, call, queue, blocked, granted, thread, made, early>>

ReplyAtOnce == Serving
Reply == Serving /\ executed[thread] > 0

Answer ==
    /\ Reply
    /\ call' = [call EXCEPT ![thread] = IF @ = "waiting" THEN "answered" ELSE @]
    /\ thread' = "idle"
    /\ UNCHANGED <<handles, using, queue, blocked, granted, made, executed, early>>

(* Shutdown, or a channel that is empty and has no sender left.            *)
OnlyShutdown == queue # <<>> /\ Head(queue) = Shutdown
Over ==
    \/ queue # <<>> /\ Head(queue) = Shutdown
    \/ queue = <<>> /\ handles = {}

Leave == thread = "idle" /\ Over /\ End("ended")

Init ==
    /\ handles = Handles /\ using = [c \in Callers |-> None]
    /\ call = [c \in Callers |-> "none"]
    /\ queue = <<>> /\ blocked = <<>> /\ granted = {} /\ thread = "opening"
    /\ made = [c \in Callers |-> 0] /\ executed = [c \in Callers |-> 0] /\ early = {}

Task(c) == \E h \in Handles : CallQueued(c, h) \/ CallBlocks(c, h) \/ CallRefused(c, h)
Thread == Open \/ Receive \/ Execute \/ Answer \/ Leave

Next == Thread \/ (\E c \in Callers : Task(c) \/ Push(c) \/ Abandon(c)) \/ (\E h \in Handles : Drop(h))

Spec == Init /\ [][Next]_vars

(* The thread runs, and so does a task that was given a slot.              *)
FairSpec == Spec /\ WF_vars(Thread) /\ \A c \in Callers : WF_vars(Push(c))

(***************************************************************************)
(* Properties                                                              *)
(***************************************************************************)
(* Every variable has its type; the channel never holds, and never         *)
(* promises, more than it has room for (Store::open: mpsc::channel).       *)
TypeOK ==
    /\ handles \subseteq Handles /\ using \in [Callers -> Handles \cup {None}]
    /\ call \in [Callers -> {"none", "sending", "waiting", "answered", "closed", "abandoned"}]
    /\ queue \in Seq(Commands) /\ blocked \in Seq(Callers)
    /\ granted \subseteq Callers
    /\ thread \in Callers \cup {"opening", "idle", "ended", "failed"}
    /\ made \in [Callers -> Nat] /\ executed \in [Callers -> Nat] /\ early \subseteq Callers
    /\ Len(queue) + Cardinality(granted) <= Capacity

(* A caller can trust what it is told: a call that was answered has been   *)
(* executed once; one that failed with Closed was not executed, nor will   *)
(* be (it may be made again elsewhere without doing its work twice), for   *)
(* nothing of it is left on the way (the methods of Store).                *)
OutcomeIsTrue ==
    \A c \in Callers :
        /\ call[c] = "answered" => executed[c] = 1
        /\ call[c] = "closed" => executed[c] = 0
        /\ call[c] \in {"answered", "closed"} =>
               c \notin Elements(queue) \cup Elements(blocked) \cup granted \cup {thread}

(* A handle that goes does not take down what was queued before: such a    *)
(* call is still executed and answered, unless the database never opened   *)
(* (Store::drop; worker).                                                  *)
QueuedBeforeADropIsDone ==
    \A c \in early : call[c] = "closed" => thread = "failed"

(* Nobody waits for ever: each call is answered or fails with Closed, also *)
(* when the channel is full or the thread gone; and when the last handle   *)
(* has gone the thread ends, even if its Shutdown found no room.           *)
NothingHangs ==
    /\ \A c \in Callers : c \in Busy ~> c \notin Busy
    /\ handles = {} ~> Gone
=============================================================================
