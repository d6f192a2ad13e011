------------------------------ MODULE Threading ------------------------------
(***************************************************************************)
(* How messages are joined into conversations (mail-core/src/threading.rs) *)
(* and the definition it is checked against.                               *)
(*                                                                         *)
(* Abstractions.  A message is a record of its row id, its account, its    *)
(* Message-ID, the set of its ancestors (References and In-Reply-To) and   *)
(* its normalized subject.  The union-find forest is the partition of the  *)
(* row ids that it stands for.                                             *)
(***************************************************************************)
EXTENDS Integers, FiniteSets, FiniteSetsExt

CONSTANT Absent    \* no Message-ID; a subject that normalizes to nothing

(* by_message_id: the messages that an ancestor's id leads to.             *)
Holders(msgs, mid) == {m \in msgs : mid # Absent /\ m.mid = mid}

(* Forest::union merges the blocks of two rows.                            *)
Joined(forest, link) ==
    LET touched == {block \in forest : link \cap block # {}}
    IN  (forest \ touched) \cup {UNION touched}
JoinedAll(forest, links) == FoldSet(LAMBDA link, f : Joined(f, link), forest, links)

(* A message is linked when one of its ancestors is stored.                *)
Linked(msgs, m) == \E a \in m.ancestors : Holders(msgs, a) # {}

SameId(msgs) ==
    {{p[1].id, p[2].id} : p \in {q \in msgs \X msgs : q[2] \in Holders(msgs, q[1].mid)}}
Replies(msgs) ==
    {{p[1].id, p[2].id} : p \in {q \in msgs \X msgs :
        \E a \in q[1].ancestors : q[2] \in Holders(msgs, a)}}
(* The fallback: a message that nothing links goes with all of its subject *)
(* in its account.                                                         *)
SubjectPeers(msgs) ==
    {{p[1].id, p[2].id} : p \in {q \in msgs \X msgs :
        /\ ~Linked(msgs, q[1])
        /\ q[1].subject # Absent
        /\ q[1].subject = q[2].subject /\ q[1].account = q[2].account}}

Forest(msgs) ==
    JoinedAll(JoinedAll(JoinedAll({{m.id} : m \in msgs}, SameId(msgs)),
                        Replies(msgs)),
              SubjectPeers(msgs))

(* A conversation is named after the earliest row without a parent, or     *)
(* its earliest row when all have one.                                     *)
RootOf(msgs, block) ==
    LET parentless == {m.id : m \in {n \in msgs : n.id \in block /\ ~Linked(msgs, n)}}
    IN  IF parentless # {} THEN Min(parentless) ELSE Min(block)

ThreadRoots(msgs) ==
    LET forest == Forest(msgs)
    IN  [i \in {m.id : m \in msgs} |->
            RootOf(msgs, CHOOSE block \in forest : i \in block)]

(***************************************************************************)
(* What a conversation is, said without the algorithm: two messages are    *)
(* related by an id, a reply, or - where nothing else leads from one of    *)
(* them - a subject, and belong together when no set of messages that      *)
(* holds with each message all its relatives separates them.               *)
(***************************************************************************)
Related(msgs, m, n) ==
    \/ m.mid # Absent /\ (m.mid = n.mid \/ m.mid \in n.ancestors)
    \/ /\ m.subject # Absent /\ m.subject = n.subject /\ m.account = n.account
       /\ \A o \in msgs : o.mid \notin m.ancestors
Closed(msgs) ==
    {S \in SUBSET msgs :
        \A m \in S, n \in msgs \ S : ~Related(msgs, m, n) /\ ~Related(msgs, n, m)}
=============================================================================
