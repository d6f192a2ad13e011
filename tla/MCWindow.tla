------------------------------ MODULE MCWindow ------------------------------
(* Reading and writing for TLC: the two share the window's message loop    *)
(* but no state, so each is checked by itself, in a scene of its own.      *)
EXTENDS Window

OwnerOf == [f \in {1, 2, 3} |-> IF f = 1 THEN "work" ELSE "home"]
TheKeys == {<<1, 1>>, <<2, 1>>, <<2, 2>>}
TheThreads == {{<<2, 1>>, <<2, 2>>}}
New == {<<2, 2>>}

VARIABLE scene     \* "reading" or "writing"

writingVars == <<composer, pendingDraft, draftQ, resolving, jobs, drafts, nextUid, outbox,
                 started, clicks, reports, callFaults, saved, muddled>>

(* A folder is open and all is settled.                                    *)
Opened ==
    /\ mail = [k \in Keys \ Deliverable |-> [unread |-> FALSE, flagged |-> FALSE, full |-> TRUE]]
    /\ window = [folder |-> 1, anchor |-> [key |-> <<1, 1>>, flagged |-> FALSE], folders |-> {1},
                 menu |-> {}, reload |-> {}, scheduled |-> FALSE]
    /\ list = [folder |-> 1, uid |-> 1, wanted |-> None, seq |-> 1, state |-> "Ready",
               rows |-> RowsOf(1), row |-> 1]
    /\ conv = [selection |-> <<1, 1>>, state |-> "Ready",
               cards |-> [k \in {<<1, 1>>} |-> [unread |-> FALSE, body |-> "ready"]]]
    /\ winQ = <<>> /\ listQ = <<>> /\ convQ = <<>> /\ tasks = <<>> /\ request = None
    /\ steps = 0 /\ overtaken = FALSE

Init ==
    /\ Writing!DraftsInit
    /\ scene \in {"reading", "writing"}
    /\ \/ ReaderInit
       \/ scene = "reading" /\ Opened
Next ==
    /\ UNCHANGED scene
    /\ \/ scene = "reading" /\ ReaderNext /\ UNCHANGED writingVars
       \/ scene = "writing" /\ Writing!DraftsNext /\ UNCHANGED readerVars
Spec == Init /\ [][Next]_<<readerVars, writingVars, scene>>
=============================================================================
