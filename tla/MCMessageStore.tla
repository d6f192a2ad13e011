--------------------------- MODULE MCMessageStore ---------------------------
(* Instances of MessageStore for TLC.                                      *)
EXTENDS MessageStore, TLC

CONSTANTS inbox, work, alice, bob, m1, m2, m3

Header(mid, ancestors, subject) == [mid |-> mid, ancestors |-> ancestors, subject |-> subject]

(* A reply, and a message that shares its subject but names a parent that  *)
(* nobody has; a chain of replies under other subjects.                    *)
Conversation ==
    m1 :> Header(m1, {}, m1) @@ m2 :> Header(m2, {m1}, m2) @@ m3 :> Header(m3, {None}, m2)
Chain ==
    m1 :> Header(m1, {}, Absent) @@ m2 :> Header(m2, {m1, m3}, m2) @@ m3 :> Header(m3, {m1}, m1)

(* One account, or one for each mailbox.                                   *)
OneOwner == inbox :> alice @@ work :> alice
TwoOwners == inbox :> alice @@ work :> bob
SomeWorlds == {[headers |-> Conversation, owner |-> OneOwner, found |-> <<inbox, work>>],
               [headers |-> Chain, owner |-> TwoOwners, found |-> <<work, inbox>>]}
=============================================================================
