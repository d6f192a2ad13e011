---------------------------- MODULE MailPromise ----------------------------
(***************************************************************************)
(* What the outbox promises to somebody who writes mail (the module        *)
(* comment of mail-core/src/outbox.rs): a message is kept - on disk and in *)
(* the store - before the transport sees it, and is kept until the server  *)
(* has accepted it.  How often the server accepts it is not promised.      *)
(***************************************************************************)
EXTENDS Naturals

CONSTANT Messages

VARIABLES
    kept,       \* the messages on disk and in the store
    seen,       \* the messages that have ever been kept
    accepted,   \* how often the server accepted each message
    open        \* the account still exists

promiseVars == <<kept, seen, accepted, open>>

PromiseInit ==
    /\ kept = {} /\ seen = {} /\ open = TRUE
    /\ accepted = [m \in Messages |-> 0]

(* A message is taken into the outbox.                                     *)
Keep(m) ==
    /\ open /\ m \notin seen
    /\ kept' = kept \cup {m} /\ seen' = seen \cup {m}
    /\ UNCHANGED <<accepted, open>>

(* The transport gets only what has been kept.                             *)
Deliver(m) ==
    /\ m \in seen
    /\ accepted' = [accepted EXCEPT ![m] = @ + 1]
    /\ UNCHANGED <<kept, seen, open>>

(* Only an accepted message is let go ...                                  *)
Release(m) ==
    /\ m \in kept /\ accepted[m] > 0
    /\ kept' = kept \ {m}
    /\ UNCHANGED <<seen, accepted, open>>

(* ... or all of them are, with the account.                               *)
CloseAccount ==
    /\ open /\ open' = FALSE
    /\ kept' = {}
    /\ UNCHANGED <<seen, accepted>>

PromiseNext ==
    \/ \E m \in Messages : Keep(m) \/ Deliver(m) \/ Release(m)
    \/ CloseAccount

PromiseSpec == PromiseInit /\ [][PromiseNext]_promiseVars
=============================================================================
