---------------------------- MODULE WindowProofs ----------------------------
(***************************************************************************)
(* What holds of reading (Reader) and of writing mail (Drafts), which      *)
(* share the window's loop but no state, for any folders, messages and     *)
(* drafts, and any number of steps of the user, of synchronisation and of  *)
(* failing calls.                                                          *)
(***************************************************************************)
EXTENDS Window, FiniteSetTheorems, FunctionTheorems, TLAPS

-----------------------------------------------------------------------------
(* Queues: what is in them, and what stands behind the place i.            *)
Elements(q) == {q[i] : i \in 1 .. Len(q)}
Queue(q) == q \in Seq(Elements(q))
After(q, i) == {q[j] : j \in i + 1 .. Len(q)}

LEMMA QueueOf ==
    ASSUME NEW S, NEW q \in Seq(S)
    PROVE  Queue(q)
<1>1. \A i \in 1 .. Len(q) : q[i] \in Elements(q)
  BY DEF Elements
<1>2. QED BY <1>1 DEF Queue

LEMMA QueueIs ==
    ASSUME NEW q, Queue(q)
    PROVE  /\ Len(q) \in Nat /\ After(q, 0) = Elements(q) /\ After(q, Len(q)) = {}
           /\ q = <<>> => Elements(q) = {}
           /\ q # <<>> => Len(q) > 0 /\ Head(q) = q[1] /\ Head(q) \in Elements(q)
           /\ \A i \in 0 .. Len(q) : After(q, i) \subseteq Elements(q)
           /\ \A i \in 1 .. Len(q) : q[i] \in Elements(q)
<1>1. q \in Seq(Elements(q)) /\ Len(q) \in Nat
  BY DEF Queue
<1>2. After(q, 0) = Elements(q) /\ After(q, Len(q)) = {}
  BY <1>1 DEF After, Elements
<1>3. q = <<>> => Elements(q) = {}
  BY <1>1 DEF Elements
<1>4. q # <<>> => Len(q) > 0 /\ Head(q) = q[1]
  BY <1>1
<1>5. /\ \A i \in 0 .. Len(q) : After(q, i) \subseteq Elements(q)
      /\ \A i \in 1 .. Len(q) : q[i] \in Elements(q)
  BY <1>1 DEF After, Elements
<1>6. QED BY <1>1, <1>2, <1>3, <1>4, <1>5

(* What is put behind a queue, and what is left of one.                    *)
LEMMA Joined ==
    ASSUME NEW q, NEW r, Queue(q), Queue(r)
    PROVE  /\ Queue(q \o r) /\ Len(q \o r) = Len(q) + Len(r)
           /\ Elements(q \o r) = Elements(q) \cup Elements(r)
           /\ \A i \in 1 .. Len(q) : (q \o r)[i] = q[i]
           /\ \A i \in 0 .. Len(q) : After(q \o r, i) = After(q, i) \cup Elements(r)
           /\ \A i \in 1 .. Len(q \o r) : i > Len(q) => (q \o r)[i] = r[i - Len(q)]
           /\ \A i \in 0 .. Len(q \o r) :
                  i >= Len(q) => After(q \o r, i) = After(r, i - Len(q))
<1> DEFINE S == Elements(q) \cup Elements(r)
<1>1. q \in Seq(S) /\ r \in Seq(S) /\ Len(q) \in Nat /\ Len(r) \in Nat
  BY DEF Queue
<1>2. /\ q \o r \in Seq(S) /\ Len(q \o r) = Len(q) + Len(r)
      /\ \A i \in 1 .. Len(q) : (q \o r)[i] = q[i]
      /\ \A i \in 1 .. Len(q \o r) : i > Len(q) => (q \o r)[i] = r[i - Len(q)]
  BY <1>1
<1>3. Queue(q \o r)
  BY <1>2, QueueOf
<1>4. \A i \in 1 .. Len(r) : Len(q) + i \in 1 .. Len(q \o r) /\ (q \o r)[Len(q) + i] = r[i]
  BY <1>1, <1>2
<1>5. Elements(q \o r) = Elements(q) \cup Elements(r)
  <2>1. ASSUME NEW i \in 1 .. Len(q \o r) PROVE (q \o r)[i] \in Elements(q) \cup Elements(r)
    <3>1. CASE i <= Len(q)
      BY <1>1, <1>2, <3>1 DEF Elements
    <3>2. CASE i > Len(q)
      <4>1. i - Len(q) \in 1 .. Len(r)
        BY <1>1, <1>2, <3>2
      <4>2. QED BY <1>2, <3>2, <4>1 DEF Elements
    <3>3. QED BY <1>1, <3>1, <3>2
  <2>2. ASSUME NEW i \in 1 .. Len(q) PROVE q[i] \in Elements(q \o r)
    <3>1. i \in 1 .. Len(q \o r)
      BY <1>1, <1>2
    <3>2. QED BY <1>2, <3>1 DEF Elements
  <2>3. ASSUME NEW i \in 1 .. Len(r) PROVE r[i] \in Elements(q \o r)
    BY <1>4 DEF Elements
  <2>4. QED BY <2>1, <2>2, <2>3 DEF Elements
<1>6. ASSUME NEW i \in 0 .. Len(q) PROVE After(q \o r, i) = After(q, i) \cup Elements(r)
  <2>1. ASSUME NEW j \in i + 1 .. Len(q \o r) PROVE (q \o r)[j] \in After(q, i) \cup Elements(r)
    <3>1. CASE j <= Len(q)
      BY <1>1, <1>2, <3>1 DEF After
    <3>2. CASE j > Len(q)
      <4>1. j - Len(q) \in 1 .. Len(r)
        BY <1>1, <1>2, <3>2
      <4>2. j \in 1 .. Len(q \o r)
        BY <1>1, <1>2, <3>2
      <4>3. QED BY <1>2, <3>2, <4>1, <4>2 DEF Elements
    <3>3. QED BY <1>1, <3>1, <3>2
  <2>2. ASSUME NEW j \in i + 1 .. Len(q) PROVE q[j] \in After(q \o r, i)
    <3>1. j \in i + 1 .. Len(q \o r) /\ j \in 1 .. Len(q)
      BY <1>1, <1>2
    <3>2. QED BY <1>2, <3>1 DEF After
  <2>3. ASSUME NEW j \in 1 .. Len(r) PROVE r[j] \in After(q \o r, i)
    <3>1. Len(q) + j \in i + 1 .. Len(q \o r)
      BY <1>1, <1>2
    <3>2. QED BY <1>4, <3>1 DEF After
  <2>4. QED BY <2>1, <2>2, <2>3 DEF After, Elements
<1>7. ASSUME NEW i \in 0 .. Len(q \o r), i >= Len(q)
      PROVE  After(q \o r, i) = After(r, i - Len(q))
  <2>1. ASSUME NEW j \in i + 1 .. Len(q \o r) PROVE (q \o r)[j] \in After(r, i - Len(q))
    <3>1. /\ j - Len(q) \in (i - Len(q)) + 1 .. Len(r)
          /\ j \in 1 .. Len(q \o r) /\ j > Len(q)
      BY <1>1, <1>2, <1>7
    <3>2. QED BY <1>2, <3>1 DEF After
  <2>2. ASSUME NEW j \in (i - Len(q)) + 1 .. Len(r) PROVE r[j] \in After(q \o r, i)
    <3>1. Len(q) + j \in i + 1 .. Len(q \o r) /\ j \in 1 .. Len(r)
      BY <1>1, <1>2, <1>7
    <3>2. QED BY <1>4, <3>1 DEF After
  <2>3. QED BY <2>1, <2>2 DEF After
<1>8. QED BY <1>2, <1>3, <1>5, <1>6, <1>7

LEMMA Associates ==
    ASSUME NEW q, NEW r, NEW t, Queue(q), Queue(r), Queue(t)
    PROVE  (q \o r) \o t = q \o (r \o t)
<1>1. \A A, B : \A x \in Seq(A) : A \subseteq B => x \in Seq(B)
  OBVIOUS
<1> DEFINE S == Elements(q) \cup Elements(r) \cup Elements(t)
<1>2. Elements(q) \subseteq S /\ Elements(r) \subseteq S /\ Elements(t) \subseteq S
  OBVIOUS
<1> HIDE DEF S
<1>3. q \in Seq(S) /\ r \in Seq(S) /\ t \in Seq(S)
  BY <1>1, <1>2 DEF Queue
<1>4. QED BY <1>3

LEMMA Alone ==
    ASSUME NEW e
    PROVE  /\ Queue(<<e>>) /\ Len(<<e>>) = 1 /\ <<e>>[1] = e
           /\ Elements(<<e>>) = {e} /\ After(<<e>>, 0) = {e} /\ After(<<e>>, 1) = {}
<1>1. <<e>> \in Seq({e}) /\ Len(<<e>>) = 1 /\ <<e>>[1] = e
  OBVIOUS
<1>2. Queue(<<e>>)
  BY <1>1, QueueOf
<1>3. Elements(<<e>>) = {e}
  BY <1>1 DEF Elements
<1>4. After(<<e>>, 0) = {e} /\ After(<<e>>, 1) = {}
  BY <1>1, <1>2, <1>3, QueueIs
<1>5. QED BY <1>1, <1>2, <1>3, <1>4

LEMMA NothingQueued == Queue(<<>>) /\ Len(<<>>) = 0 /\ Elements(<<>>) = {} /\ After(<<>>, 0) = {}
<1>1. <<>> \in Seq({}) /\ Len(<<>>) = 0
  OBVIOUS
<1>2. Queue(<<>>)
  BY <1>1, QueueOf
<1>3. QED BY <1>1, <1>2, QueueIs

LEMMA Posted ==
    ASSUME NEW q, NEW e, Queue(q)
    PROVE  Append(q, e) = q \o <<e>>
<1>1. q \in Seq(Elements(q) \cup {e})
  BY DEF Queue
<1>2. QED BY <1>1

LEMMA Handled ==
    ASSUME NEW q, Queue(q), q # <<>>
    PROVE  /\ Queue(Tail(q)) /\ Len(Tail(q)) = Len(q) - 1 /\ Len(q) \in Nat \ {0}
           /\ Elements(q) = {Head(q)} \cup Elements(Tail(q))
           /\ Head(q) = q[1] /\ After(q, 1) = Elements(Tail(q))
           /\ \A i \in 1 .. Len(Tail(q)) : Tail(q)[i] = q[i + 1]
           /\ \A i \in 0 .. Len(Tail(q)) : After(Tail(q), i) = After(q, i + 1)
<1>1. q \in Seq(Elements(q)) /\ Len(q) \in Nat \ {0}
  BY DEF Queue
<1>2. /\ Tail(q) \in Seq(Elements(q)) /\ Len(Tail(q)) = Len(q) - 1 /\ Head(q) = q[1]
      /\ \A i \in 1 .. Len(Tail(q)) : Tail(q)[i] = q[i + 1]
  BY <1>1
<1>3. Queue(Tail(q))
  BY <1>2, QueueOf
<1>4. ASSUME NEW i \in 0 .. Len(Tail(q)) PROVE After(Tail(q), i) = After(q, i + 1)
  <2>1. ASSUME NEW j \in i + 1 .. Len(Tail(q)) PROVE Tail(q)[j] \in After(q, i + 1)
    <3>1. j + 1 \in (i + 1) + 1 .. Len(q) /\ j \in 1 .. Len(Tail(q))
      BY <1>1, <1>2
    <3>2. QED BY <1>2, <3>1 DEF After
  <2>2. ASSUME NEW j \in (i + 1) + 1 .. Len(q) PROVE q[j] \in After(Tail(q), i)
    <3>1. j - 1 \in i + 1 .. Len(Tail(q)) /\ j - 1 \in 1 .. Len(Tail(q)) /\ (j - 1) + 1 = j
      BY <1>1, <1>2
    <3>2. QED BY <1>2, <3>1 DEF After
  <2>3. QED BY <2>1, <2>2 DEF After
<1>5. After(q, 1) = Elements(Tail(q))
  <2>1. After(Tail(q), 0) = After(q, 0 + 1) /\ After(Tail(q), 0) = Elements(Tail(q))
    BY <1>1, <1>2, <1>3, <1>4, QueueIs
  <2>2. QED BY <2>1
<1>6. Elements(q) = {Head(q)} \cup Elements(Tail(q))
  <2>1. Elements(q) = {q[1]} \cup After(q, 1)
    BY <1>1 DEF Elements, After
  <2>2. QED BY <1>2, <1>5, <2>1
<1>7. QED BY <1>1, <1>2, <1>3, <1>4, <1>5, <1>6

-----------------------------------------------------------------------------
(* Types.                                                                  *)

Anchors == [key : Keys, flagged : BOOLEAN]

(* What a conversation's task has read of the thread of k.                 *)
ReadOf(k, result) ==
    result # None =>
        /\ result.anchor \in Anchors /\ result.anchor.key = k
        /\ DOMAIN result.cards \subseteq Keys
        /\ \A x \in DOMAIN result.cards :
               result.cards[x] = [unread |-> result.cards[x].unread, body |-> result.cards[x].body]

WinPost(e) == e.do = "Anchor" => e.on \in Anchors \cup {None}
ListPost(e, n) == e.do = "Loaded" => e.on.load.seq \in Nat /\ e.on.load.seq <= n
ConvPost(e) == e.do = "Loaded" => ReadOf(e.on.key, e.on.result)
WinTyped(q) == Queue(q) /\ \A e \in Elements(q) : WinPost(e)
ListTyped(q, n) == Queue(q) /\ \A e \in Elements(q) : ListPost(e, n)
ConvTyped(q) == Queue(q) /\ \A e \in Elements(q) : ConvPost(e)

TaskTyped(t, n) ==
    /\ t = [do |-> t.do, on |-> t.on, got |-> t.got]
    /\ t.do = "flags" => t.on.field \in {"unread", "flagged"} /\ t.on.to \in BOOLEAN
    /\ t.do = "rows" => t.on.seq \in Nat /\ t.on.seq <= n
    /\ t.do = "thread" /\ t.got # None => ReadOf(t.on, t.got.result)

MailTyped == mail \in [DOMAIN mail -> Message] /\ DOMAIN mail \subseteq Keys
WindowTyped ==
    /\ window = [folder |-> window.folder, anchor |-> window.anchor, folders |-> window.folders,
                 menu |-> window.menu, reload |-> window.reload, scheduled |-> window.scheduled]
    /\ window.anchor \in Anchors \cup {None}
ListShape ==
    /\ list = [folder |-> list.folder, uid |-> list.uid, wanted |-> list.wanted, seq |-> list.seq,
               state |-> list.state, rows |-> list.rows, row |-> list.row]
    /\ list.seq \in Nat
ConvTypedState ==
    /\ conv = [selection |-> conv.selection, state |-> conv.state, cards |-> conv.cards]
    /\ conv.cards = [x \in DOMAIN conv.cards |-> [unread |-> conv.cards[x].unread,
                                                 body |-> conv.cards[x].body]]

Typed ==
    /\ MailTyped /\ WindowTyped /\ ListShape /\ ConvTypedState
    /\ WinTyped(winQ) /\ ListTyped(listQ, list.seq) /\ ConvTyped(convQ)
    /\ \A t \in DOMAIN tasks : TaskTyped(t, list.seq)

LEMMA WinSends ==
    ASSUME NEW q, WinTyped(q), NEW e, WinPost(e)
    PROVE  WinTyped(Append(q, e))
<1>1. Queue(q) /\ Queue(<<e>>) /\ Elements(<<e>>) = {e} /\ Append(q, e) = q \o <<e>>
  BY Alone, Posted DEF WinTyped
<1>2. Queue(Append(q, e)) /\ Elements(Append(q, e)) = Elements(q) \cup {e}
  BY <1>1, Joined
<1>3. QED BY <1>2 DEF WinTyped

LEMMA WinTakes ==
    ASSUME NEW q, WinTyped(q), q # <<>>
    PROVE  WinTyped(Tail(q)) /\ Head(q) \in Elements(q) /\ WinPost(Head(q))
BY Handled DEF WinTyped

LEMMA WinJoins ==
    ASSUME NEW q, WinTyped(q), NEW r, WinTyped(r)
    PROVE  WinTyped(q \o r)
BY Joined DEF WinTyped

LEMMA ListSends ==
    ASSUME NEW n \in Nat, NEW q, ListTyped(q, n), NEW e, ListPost(e, n)
    PROVE  ListTyped(Append(q, e), n)
<1>1. Queue(q) /\ Queue(<<e>>) /\ Elements(<<e>>) = {e} /\ Append(q, e) = q \o <<e>>
  BY Alone, Posted DEF ListTyped
<1>2. Queue(Append(q, e)) /\ Elements(Append(q, e)) = Elements(q) \cup {e}
  BY <1>1, Joined
<1>3. QED BY <1>2 DEF ListTyped

LEMMA ListTakes ==
    ASSUME NEW n \in Nat, NEW q, ListTyped(q, n), q # <<>>
    PROVE  ListTyped(Tail(q), n) /\ Head(q) \in Elements(q) /\ ListPost(Head(q), n)
BY Handled DEF ListTyped

LEMMA ListJoins ==
    ASSUME NEW n \in Nat, NEW q, ListTyped(q, n), NEW r, ListTyped(r, n)
    PROVE  ListTyped(q \o r, n)
BY Joined DEF ListTyped

LEMMA ConvSends ==
    ASSUME NEW q, ConvTyped(q), NEW e, ConvPost(e)
    PROVE  ConvTyped(Append(q, e))
<1>1. Queue(q) /\ Queue(<<e>>) /\ Elements(<<e>>) = {e} /\ Append(q, e) = q \o <<e>>
  BY Alone, Posted DEF ConvTyped
<1>2. Queue(Append(q, e)) /\ Elements(Append(q, e)) = Elements(q) \cup {e}
  BY <1>1, Joined
<1>3. QED BY <1>2 DEF ConvTyped

LEMMA ConvTakes ==
    ASSUME NEW q, ConvTyped(q), q # <<>>
    PROVE  ConvTyped(Tail(q)) /\ Head(q) \in Elements(q) /\ ConvPost(Head(q))
BY Handled DEF ConvTyped

LEMMA ConvJoins ==
    ASSUME NEW q, ConvTyped(q), NEW r, ConvTyped(r)
    PROVE  ConvTyped(q \o r)
BY Joined DEF ConvTyped

LEMMA PostIs ==
    ASSUME NEW do, NEW on
    PROVE  Post(do, on).do = do /\ Post(do, on).on = on
BY DEF Post

(* The bag of tasks.                                                       *)
LEMMA Bags ==
    ASSUME NEW bag, NEW t
    PROVE  /\ DOMAIN Plus(bag, t) = DOMAIN bag \cup {t}
           /\ DOMAIN Minus(bag, t) \subseteq DOMAIN bag
           /\ DOMAIN bag \subseteq DOMAIN Minus(bag, t) \cup {t}
BY DEF Plus, Minus

LEMMA TaskIs ==
    ASSUME NEW do, NEW on
    PROVE  /\ Task(do, on).do = do /\ Task(do, on).on = on /\ Task(do, on).got = None
           /\ Task(do, on) = [do |-> do, on |-> on, got |-> None]
BY DEF Task

LEMMA ReaderTypedInit == ReaderInit => Typed
<1> SUFFICES ASSUME ReaderInit PROVE Typed
  OBVIOUS
<1>1. MailTyped
  BY ReaderAssumption DEF ReaderInit, MailTyped, Message
<1>2. WindowTyped /\ ListShape
  BY DEF ReaderInit, WindowTyped, ListShape
<1>3. ConvTypedState
  <2>1. conv = [selection |-> None, state |-> "Idle", cards |-> <<>>]
    BY DEF ReaderInit, NoConversation
  <2>2. DOMAIN conv.cards = {} /\ conv.cards = <<>>
    BY <2>1
  <2>3. <<>> = [x \in {} |-> [unread |-> conv.cards[x].unread, body |-> conv.cards[x].body]]
    OBVIOUS
  <2>4. QED BY <2>1, <2>2, <2>3 DEF ConvTypedState
<1>4. WinTyped(winQ) /\ ListTyped(listQ, list.seq) /\ ConvTyped(convQ)
  BY NothingQueued DEF ReaderInit, WinTyped, ListTyped, ConvTyped
<1>5. DOMAIN tasks = {}
  BY DEF ReaderInit
<1>6. QED BY <1>1, <1>2, <1>3, <1>4, <1>5 DEF Typed

LEMMA Spawned ==
    ASSUME NEW n, \A t \in DOMAIN tasks : TaskTyped(t, n), NEW do, NEW on, Spawn(do, on),
           do = "flags" => on.field \in {"unread", "flagged"} /\ on.to \in BOOLEAN,
           do = "rows" => on.seq \in Nat /\ on.seq <= n
    PROVE  \A t \in DOMAIN tasks' : TaskTyped(t, n)
<1>1. DOMAIN tasks' = DOMAIN tasks \cup {Task(do, on)}
  BY Bags DEF Spawn
<1>2. TaskTyped(Task(do, on), n)
  BY TaskIs DEF TaskTyped
<1>3. QED BY <1>1, <1>2

LEMMA TypedWindow == Typed /\ WindowNext => Typed'
<1> SUFFICES ASSUME Typed, WindowNext PROVE Typed'
  OBVIOUS
<1> USE PostIs
<1>1. /\ MailTyped /\ WindowTyped /\ ListShape /\ ConvTypedState
      /\ WinTyped(winQ) /\ ListTyped(listQ, list.seq) /\ ConvTyped(convQ)
      /\ \A t \in DOMAIN tasks : TaskTyped(t, list.seq)
  BY DEF Typed
<1>2. list.seq \in Nat
  BY <1>1 DEF ListShape
<1>3. winQ # <<>> => WinTyped(Tail(winQ)) /\ WinPost(Head(winQ))
  BY <1>1, WinTakes
<1>4. \A e : e.do # "Loaded" => ConvTyped(Append(convQ, e)) /\ ListTyped(Append(listQ, e), list.seq)
  BY <1>1, <1>2, ConvSends, ListSends DEF ConvPost, ListPost
<1>5. ASSUME UNCHANGED <<mail, list, conv>>, WindowTyped', winQ # <<>>, winQ' = Tail(winQ),
             ListTyped(listQ', list.seq), ConvTyped(convQ'),
             \A t \in DOMAIN tasks' : TaskTyped(t, list.seq)
      PROVE  Typed'
  BY <1>1, <1>3, <1>5 DEF Typed, MailTyped, ListShape, ConvTypedState
<1>6. UNCHANGED window => WindowTyped'
  BY <1>1 DEF WindowTyped
<1>7. CASE FolderSelected
  <2>1. WindowTyped'
    BY <1>1, <1>7 DEF FolderSelected, WindowTyped
  <2>2. QED BY <1>1, <1>4, <1>5, <1>7, <2>1 DEF FolderSelected, Turn, ListLoad
<1>8. CASE MessageSelected
  BY <1>1, <1>4, <1>5, <1>6, <1>8 DEF MessageSelected, Turn, Unqueued
<1>9. CASE OpenMessage
  <2>1. WindowTyped'
    BY <1>1, <1>9 DEF OpenMessage, WindowTyped
  <2>2. ListTyped(listQ', list.seq)
    <3>1. PICK f, u : listQ' = listQ \o <<Post("Load", f), Post("Select", u)>>
      BY <1>9 DEF OpenMessage, ListLoad
    <3>2. <<Post("Load", f), Post("Select", u)>> = <<Post("Load", f)>> \o <<Post("Select", u)>>
      OBVIOUS
    <3>3. ListTyped(<<Post("Load", f)>>, list.seq) /\ ListTyped(<<Post("Select", u)>>, list.seq)
      BY Alone DEF ListTyped, ListPost
    <3>4. QED BY <1>1, <1>2, <3>1, <3>2, <3>3, ListJoins
  <2>3. QED BY <1>1, <1>5, <1>9, <2>1, <2>2 DEF OpenMessage, Turn
<1>10. CASE FetchBody
  <2>1. \A t \in DOMAIN tasks' : TaskTyped(t, list.seq)
    BY <1>1, <1>10, Spawned DEF FetchBody
  <2>2. QED BY <1>1, <1>5, <1>6, <1>10, <2>1 DEF FetchBody, Turn, Unqueued
<1>11. CASE BodyFetched
  BY <1>1, <1>4, <1>5, <1>6, <1>11 DEF BodyFetched, Turn, Unqueued
<1>12. CASE QueueFolderReload
  <2>1. WindowTyped'
    BY <1>1, <1>12 DEF QueueFolderReload, WindowTyped
  <2>2. \A t \in DOMAIN tasks' : TaskTyped(t, list.seq)
    BY <1>1, <1>12, Spawned DEF QueueFolderReload
  <2>3. QED BY <1>1, <1>5, <1>12, <2>1, <2>2 DEF QueueFolderReload, Turn
<1>13. CASE FlushReloads
  <2>1. WindowTyped'
    BY <1>1, <1>13 DEF FlushReloads, WindowTyped
  <2>2. ListTyped(listQ', list.seq)
    BY <1>1, <1>4, <1>13 DEF FlushReloads, ListLoad
  <2>3. QED BY <1>1, <1>5, <1>13, <2>1, <2>2 DEF FlushReloads, Turn
<1>14. CASE AnchorChanged
  <2>1. Head(winQ).on \in Anchors \cup {None}
    BY <1>3, <1>14 DEF AnchorChanged, Turn, WinPost
  <2>2. WindowTyped'
    BY <1>1, <1>14, <2>1 DEF AnchorChanged, WindowTyped
  <2>3. \A t \in DOMAIN tasks' : TaskTyped(t, list.seq)
    BY <1>1, <1>14, Spawned DEF AnchorChanged
  <2>4. QED BY <1>1, <1>5, <1>14, <2>2, <2>3 DEF AnchorChanged, Turn
<1>15. CASE FoldersLoaded
  <2>1. WindowTyped'
    BY <1>1, <1>15 DEF FoldersLoaded, WindowTyped
  <2>2. QED BY <1>1, <1>5, <1>15, <2>1 DEF FoldersLoaded, Turn
<1>16. CASE Viewed
  <2>1. \A t \in DOMAIN tasks' : TaskTyped(t, list.seq)
    BY <1>1, <1>16, Spawned DEF Viewed, ApplyFlagChange
  <2>2. QED BY <1>1, <1>5, <1>6, <1>16, <2>1 DEF Viewed, Turn
<1>17. CASE ToggleFlagged
  <2>1. window.anchor \in Anchors
    BY <1>1, <1>17 DEF WindowTyped, ToggleFlagged
  <2>2. [window.anchor EXCEPT !.flagged = ~window.anchor.flagged] \in Anchors
    BY <2>1 DEF Anchors
  <2>3. window' = [window EXCEPT !.anchor = [window.anchor EXCEPT !.flagged = ~window.anchor.flagged]]
    BY <1>17 DEF ToggleFlagged
  <2>4. WindowTyped'
    BY <1>1, <2>2, <2>3 DEF WindowTyped
  <2>5. \A t \in DOMAIN tasks' : TaskTyped(t, list.seq)
    BY <1>1, <1>17, Spawned DEF ToggleFlagged, ApplyFlagChange
  <2>6. QED BY <1>1, <1>5, <1>17, <2>4, <2>5 DEF ToggleFlagged, Turn
<1>18. ASSUME NEW do, NEW by, NEW target, Discard(do, by, target), winQ # <<>> PROVE Typed'
  <2>1. WindowTyped'
    BY <1>1, <1>18 DEF Discard, WindowTyped
  <2>2. \A t \in DOMAIN tasks' : TaskTyped(t, list.seq)
    BY <1>1, <1>18, Spawned DEF Discard
  <2>3. QED BY <1>1, <1>4, <1>5, <1>18, <2>1, <2>2 DEF Discard
<1>19. CASE MoveMessage
  BY <1>18, <1>19 DEF MoveMessage, Turn
<1>20. CASE DeleteMessage
  BY <1>18, <1>20 DEF DeleteMessage, Turn
<1>21. CASE NothingShown
  BY <1>1, <1>5, <1>6, <1>21 DEF NothingShown, Unqueued
<1>22. QED
  BY <1>7, <1>8, <1>9, <1>10, <1>11, <1>12, <1>13, <1>14, <1>15, <1>16, <1>17, <1>19, <1>20,
     <1>21 DEF WindowNext

LEMMA TypedList == Typed /\ ListNext => Typed'
<1> SUFFICES ASSUME Typed, ListNext PROVE Typed'
  OBVIOUS
<1> USE PostIs
<1>1. /\ MailTyped /\ WindowTyped /\ ListShape /\ ConvTypedState
      /\ WinTyped(winQ) /\ ListTyped(listQ, list.seq) /\ ConvTyped(convQ)
      /\ \A t \in DOMAIN tasks : TaskTyped(t, list.seq)
  BY DEF Typed
<1>2. list.seq \in Nat
  BY <1>1 DEF ListShape
<1>3. listQ # <<>> => ListTyped(Tail(listQ), list.seq) /\ ListPost(Head(listQ), list.seq)
  BY <1>1, <1>2, ListTakes
<1>4. ASSUME UNCHANGED <<mail, window, conv>>, ListShape', list'.seq = list.seq,
             WinTyped(winQ'), ListTyped(listQ', list.seq), UNCHANGED <<convQ, tasks>>
      PROVE  Typed'
  BY <1>1, <1>4 DEF Typed, MailTyped, WindowTyped, ConvTypedState
<1>5. CASE ListLoads
  <2>1. PICK f, u, w, st, rs, r :
            list' = [folder |-> f, uid |-> u, wanted |-> w, seq |-> list.seq + 1, state |-> st,
                     rows |-> rs, row |-> r]
    <3>1. list' = [[list EXCEPT !.uid = None, !.rows = <<>>, !.row = None, !.state = "Loading"]
                      EXCEPT !.folder = Head(listQ).on, !.seq = @ + 1]
          \/ list' = [[list EXCEPT !.state = "Loading"]
                      EXCEPT !.folder = Head(listQ).on, !.seq = @ + 1]
          \/ list' = [list EXCEPT !.folder = Head(listQ).on, !.seq = @ + 1]
      BY <1>5 DEF ListLoads, Cleared
    <3>2. QED BY <1>1, <3>1 DEF ListShape
  <2>2. ListShape' /\ list'.seq = list.seq + 1
    BY <1>1, <2>1 DEF ListShape
  <2>3. \A t \in DOMAIN tasks : TaskTyped(t, list'.seq)
    BY <1>1, <1>2, <2>2 DEF TaskTyped
  <2>4. \A t \in DOMAIN tasks' : TaskTyped(t, list'.seq)
    <3>1. PICK g : Spawn("rows", [folder |-> g, seq |-> list.seq + 1])
      BY <1>5 DEF ListLoads
    <3>2. QED BY <1>2, <2>2, <2>3, <3>1, Spawned
  <2>5. ListTyped(listQ', list'.seq)
    BY <1>2, <1>3, <1>5, <2>2 DEF ListLoads, Turn, ListTyped, ListPost
  <2>6. QED BY <1>1, <1>5, <2>2, <2>4, <2>5
            DEF ListLoads, Typed, MailTyped, WindowTyped, ConvTypedState
<1>6. ListTyped(<<>>, list.seq) /\ ListTyped(<<Post("SelectionChanged", None)>>, list.seq)
  BY Alone, NothingQueued DEF ListTyped, ListPost
<1>7. \A l, u : ListTyped(Signalled(l, u), list.seq)
  BY <1>6 DEF Signalled
<1>8. ASSUME NEW l, NEW signals, ListTyped(signals, list.seq), AfterLoaded(l, signals), listQ # <<>>,
             l = [list EXCEPT !.uid = l.uid, !.rows = l.rows, !.row = l.row, !.state = l.state]
      PROVE  ListShape' /\ list'.seq = list.seq /\ ListTyped(listQ', list.seq)
  <2>1. list' = [list EXCEPT !.uid = list'.uid, !.rows = list'.rows, !.row = list'.row,
                             !.state = list'.state, !.wanted = list'.wanted]
    BY <1>1, <1>8 DEF AfterLoaded, SelectRow, ListShape
  <2>2. PICK reemit, more : /\ listQ' = Tail(listQ) \o signals \o reemit \o more
                            /\ ListTyped(reemit, list.seq) /\ ListTyped(more, list.seq)
    BY <1>6, <1>7, <1>8 DEF AfterLoaded
  <2>3. ListTyped(listQ', list.seq)
    <3>1. ListTyped(Tail(listQ) \o signals, list.seq)
      BY <1>2, <1>3, <1>8, ListJoins
    <3>2. ListTyped(Tail(listQ) \o signals \o reemit, list.seq)
      BY <1>2, <2>2, <3>1, ListJoins
    <3>3. QED BY <1>2, <2>2, <3>2, ListJoins
  <2>4. ListShape' /\ list'.seq = list.seq
    BY <1>1, <2>1 DEF ListShape
  <2>5. QED BY <2>3, <2>4
<1>9. CASE ListLoaded
  <2>1. ListShape' /\ list'.seq = list.seq /\ ListTyped(listQ', list.seq)
    <3>1. listQ # <<>>
      BY <1>9 DEF ListLoaded, Turn
    <3>2. CASE listQ' = Tail(listQ) /\ UNCHANGED list
      BY <1>1, <1>3, <3>1, <3>2 DEF ListShape
    <3>3. ASSUME NEW state, AfterLoaded(Cleared(list, state), <<>>)
          PROVE  ListShape' /\ list'.seq = list.seq /\ ListTyped(listQ', list.seq)
      <4>1. Cleared(list, state) = [list EXCEPT !.uid = Cleared(list, state).uid,
                !.rows = Cleared(list, state).rows, !.row = Cleared(list, state).row,
                !.state = Cleared(list, state).state]
        BY <1>1 DEF Cleared, ListShape
      <4>2. QED BY <1>6, <1>8, <3>1, <3>3, <4>1
    <3>4. ASSUME NEW rows, NEW row, NEW signals, ListTyped(signals, list.seq),
                 AfterLoaded(Restored([list EXCEPT !.rows = rows, !.row = row, !.state = "Ready"]),
                             signals)
          PROVE  ListShape' /\ list'.seq = list.seq /\ ListTyped(listQ', list.seq)
      <4> DEFINE l == Restored([list EXCEPT !.rows = rows, !.row = row, !.state = "Ready"])
      <4>1. l = [list EXCEPT !.uid = l.uid, !.rows = l.rows, !.row = l.row, !.state = l.state]
        <5>1. PICK r0 : r0 = [list EXCEPT !.rows = rows, !.row = row, !.state = "Ready"]
          OBVIOUS
        <5>2. r0 = [folder |-> list.folder, uid |-> list.uid, wanted |-> list.wanted,
                    seq |-> list.seq, state |-> "Ready", rows |-> rows, row |-> row]
          BY <1>1, <5>1 DEF ListShape
        <5>3. \/ Restored(r0) = r0
              \/ Restored(r0) = [r0 EXCEPT !.row = r0.uid]
              \/ Restored(r0) = [r0 EXCEPT !.uid = None]
          BY DEF Restored, SelectRow
        <5>4. l = Restored(r0)
          BY <5>1
        <5> HIDE DEF l
        <5>5. PICK v, r : l = [folder |-> list.folder, uid |-> v, wanted |-> list.wanted,
                               seq |-> list.seq, state |-> "Ready", rows |-> rows, row |-> r]
          BY <5>2, <5>3, <5>4
        <5>6. l.uid = v /\ l.rows = rows /\ l.row = r /\ l.state = "Ready"
          BY <5>5
        <5>7. PICK f, u, w, n, st, rs, r1 :
                  list = [folder |-> f, uid |-> u, wanted |-> w, seq |-> n, state |-> st,
                          rows |-> rs, row |-> r1]
          BY <1>1 DEF ListShape
        <5>8. PICK new : new = [list EXCEPT !.uid = v, !.rows = rows, !.row = r, !.state = "Ready"]
          OBVIOUS
        <5>9. new = [folder |-> f, uid |-> v, wanted |-> w, seq |-> n, state |-> "Ready",
                     rows |-> rows, row |-> r]
          BY <5>7, <5>8
        <5>10. f = list.folder /\ w = list.wanted /\ n = list.seq
          BY <5>7
        <5>11. new = l
          BY <5>5, <5>9, <5>10
        <5>12. QED BY <5>6, <5>8, <5>11
      <4>2. QED BY <1>8, <3>1, <3>4, <4>1
    <3>5. QED BY <1>6, <1>7, <1>9, <3>2, <3>3, <3>4 DEF ListLoaded
  <2>2. QED BY <1>1, <1>4, <1>9, <2>1 DEF ListLoaded
<1>10. CASE ListSelects
  <2>1. ListTyped(listQ', list.seq)
    <3>1. ListTyped(Tail(listQ), list.seq)
      BY <1>3, <1>10 DEF ListSelects, Turn
    <3>2. \A u : ListTyped(Tail(listQ) \o Signalled(list, u), list.seq)
      BY <1>2, <1>7, <3>1, ListJoins
    <3>3. QED BY <1>10, <3>1, <3>2 DEF ListSelects
  <2>2. list' = [list EXCEPT !.uid = None, !.row = list'.row, !.wanted = list'.wanted]
    BY <1>1, <1>10 DEF ListSelects, SelectRow, ListShape
  <2>3. ListShape' /\ list'.seq = list.seq
    BY <1>1, <2>2 DEF ListShape
  <2>4. QED BY <1>1, <1>4, <1>10, <2>1, <2>3 DEF ListSelects
<1>11. CASE ListRetries
  <2>1. ListTyped(<<ListLoad(list.folder)>>, list.seq)
    BY Alone DEF ListTyped, ListPost, ListLoad
  <2>2. ListTyped(listQ', list.seq)
    BY <1>2, <1>3, <1>6, <1>11, <2>1, ListJoins DEF ListRetries, Turn
  <2>3. QED BY <1>1, <1>4, <1>11, <2>2 DEF ListRetries, Unqueued, ListShape
<1>12. CASE SelectionChanged
  <2>1. ListShape' /\ list'.seq = list.seq
    BY <1>1, <1>12 DEF SelectionChanged, ListShape
  <2>2. WinTyped(winQ')
    <3>1. \A on : WinTyped(Append(winQ, Post("MessageSelected", on)))
      BY <1>1, WinSends DEF WinPost
    <3>2. QED BY <1>1, <1>12, <3>1 DEF SelectionChanged
  <2>3. QED BY <1>1, <1>3, <1>4, <1>12, <2>1, <2>2 DEF SelectionChanged, Turn
<1>13. QED
  BY <1>5, <1>9, <1>10, <1>11, <1>12 DEF ListNext

(* What ConversationLoaded tells the window of a conversation that is      *)
(* shown: its anchor, and what no anchor follows.                          *)
Asked == Head(convQ).on.key
Read == Head(convQ).on.result
LEMMA Shows ==
    ASSUME Typed, ConversationLoaded, conv.selection = Asked, Read # None
    PROVE  /\ conv' = [conv EXCEPT !.state = "Ready",
                           !.cards = [x \in DOMAIN Read.cards |->
                                          [Read.cards[x] EXCEPT !.unread = FALSE]]]
           /\ Read.anchor \in Anchors /\ Read.anchor.key = Asked
           /\ \A x \in DOMAIN Read.cards :
                  Read.cards[x] = [unread |-> Read.cards[x].unread, body |-> Read.cards[x].body]
           /\ \E r : /\ winQ' = winQ \o <<Post("Anchor", Read.anchor)>> \o r
                     /\ WinTyped(r) /\ \A e \in Elements(r) : e.do \in {"Viewed", "FetchBody"}
                     /\ \A x \in DOMAIN Read.cards :
                            Read.cards[x].body = "pending" => Post("FetchBody", x) \in Elements(r)
<1> DEFINE unread == {x \in DOMAIN Read.cards : Read.cards[x].unread}
           pending == {x \in DOMAIN Read.cards : Read.cards[x].body = "pending"}
           seen == IF unread = {} THEN <<>>
                   ELSE <<Post("Viewed", [folder |-> Asked[1], uids |-> {Uid(x) : x \in unread}])>>
<1>1. ConvTyped(convQ) /\ convQ # <<>> /\ Head(convQ).do = "Loaded"
  BY DEF Typed, ConversationLoaded, Turn
<1>2. ReadOf(Asked, Read)
  BY <1>1, ConvTakes DEF ConvPost, Asked, Read
<1>3. /\ Read.anchor \in Anchors /\ Read.anchor.key = Asked /\ DOMAIN Read.cards \subseteq Keys
      /\ \A x \in DOMAIN Read.cards :
             Read.cards[x] = [unread |-> Read.cards[x].unread, body |-> Read.cards[x].body]
  BY <1>2 DEF ReadOf
<1>4. conv' = [conv EXCEPT !.state = "Ready",
                  !.cards = [x \in DOMAIN Read.cards |->
                                 [Read.cards[x] EXCEPT !.unread = FALSE]]]
  BY DEF ConversationLoaded, Asked, Read
<1>5. PICK order \in Bijection(1 .. Cardinality(pending), pending) :
          winQ' = winQ \o <<Post("Anchor", Read.anchor)>> \o seen
                       \o [i \in DOMAIN order |-> Post("FetchBody", order[i])]
  BY DEF ConversationLoaded, Asked, Read
<1> DEFINE fetches == [i \in DOMAIN order |-> Post("FetchBody", order[i])]
<1> HIDE DEF unread, pending, seen
<1>6. Cardinality(pending) \in Nat
  <2>1. IsFiniteSet(pending)
    BY <1>3, ReaderAssumption, FS_Subset DEF pending
  <2>2. QED BY <2>1, FS_CardinalityType
<1>7. /\ DOMAIN order = 1 .. Cardinality(pending)
      /\ \A x \in pending : \E i \in DOMAIN order : order[i] = x
  BY DEF Bijection, Injection, Surjection
<1>8. fetches \in Seq({Post("FetchBody", x) : x \in {order[i] : i \in DOMAIN order}})
      /\ Len(fetches) = Cardinality(pending)
  BY <1>6, <1>7
<1>9. Queue(fetches) /\ Elements(fetches) = {fetches[i] : i \in DOMAIN order}
  BY <1>7, <1>8, QueueOf DEF Elements
<1>10. Queue(seen) /\ \A e \in Elements(seen) : e.do = "Viewed"
  BY NothingQueued, Alone, PostIs DEF seen
<1>11. \A e \in Elements(fetches) : e.do = "FetchBody"
  BY <1>9, PostIs
<1> DEFINE r == seen \o fetches
<1>12. Queue(r) /\ Elements(r) = Elements(seen) \cup Elements(fetches)
  BY <1>9, <1>10, Joined
<1>13. winQ' = winQ \o <<Post("Anchor", Read.anchor)>> \o r
  <2>1. Queue(winQ) /\ Queue(<<Post("Anchor", Read.anchor)>>)
    BY Alone DEF Typed, WinTyped
  <2>2. QED BY SMTT(30), <1>5, <1>9, <1>10, <2>1, Associates, Joined
<1>14. WinTyped(r) /\ \A e \in Elements(r) : e.do \in {"Viewed", "FetchBody"}
  BY <1>10, <1>11, <1>12 DEF WinTyped, WinPost
<1>15. ASSUME NEW x \in DOMAIN Read.cards, Read.cards[x].body = "pending"
       PROVE  Post("FetchBody", x) \in Elements(r)
  <2>1. x \in pending
    BY <1>15 DEF pending
  <2>2. QED BY <1>7, <1>9, <1>12, <2>1
<1>16. QED BY <1>3, <1>4, <1>13, <1>14, <1>15

LEMMA TypedConversation == Typed /\ ConversationNext => Typed'
<1> SUFFICES ASSUME Typed, ConversationNext PROVE Typed'
  OBVIOUS
<1> USE PostIs
<1>1. /\ MailTyped /\ WindowTyped /\ ListShape /\ ConvTypedState
      /\ WinTyped(winQ) /\ ListTyped(listQ, list.seq) /\ ConvTyped(convQ)
      /\ \A t \in DOMAIN tasks : TaskTyped(t, list.seq)
  BY DEF Typed
<1>2. convQ # <<>> => ConvTyped(Tail(convQ)) /\ ConvPost(Head(convQ))
  BY <1>1, ConvTakes
<1>3. WinTyped(Append(winQ, Post("Anchor", None)))
  BY <1>1, WinSends DEF WinPost
<1>4. ASSUME UNCHANGED <<mail, window, list, listQ>>, ConvTypedState', WinTyped(winQ'),
             ConvTyped(convQ'), \A t \in DOMAIN tasks' : TaskTyped(t, list.seq)
      PROVE  Typed'
  BY <1>1, <1>4 DEF Typed, MailTyped, WindowTyped, ListShape
<1>5. ASSUME NEW selection, NEW state, conv' = [selection |-> selection, state |-> state, cards |-> <<>>]
      PROVE  ConvTypedState'
  <2>1. \A f : <<>> = [x \in {} |-> f[x]] /\ DOMAIN <<>> = {}
    OBVIOUS
  <2>2. DOMAIN conv'.cards = {} /\ conv'.cards = <<>>
    BY <1>5, <2>1
  <2>3. <<>> = [x \in {} |-> [unread |-> conv'.cards[x].unread, body |-> conv'.cards[x].body]]
    BY <2>1
  <2>4. QED BY <1>5, <2>2, <2>3 DEF ConvTypedState
<1>6. CASE ConversationLoads
  <2>1. \A t \in DOMAIN tasks' : TaskTyped(t, list.seq)
    BY <1>1, <1>6, Spawned DEF ConversationLoads
  <2>2. QED BY <1>2, <1>3, <1>4, <1>5, <1>6, <2>1 DEF ConversationLoads, Turn
<1>7. CASE ConversationLoaded
  <2>1. ConvTypedState' /\ WinTyped(winQ')
    <3>1. CASE conv.selection # Asked
      <4>1. UNCHANGED <<conv, winQ>>
        BY <1>7, <3>1 DEF ConversationLoaded, Asked
      <4>2. QED BY <1>1, <4>1 DEF ConvTypedState
    <3>2. CASE conv.selection = Asked /\ Read = None
      <4>1. winQ' = Append(winQ, Post("Anchor", None))
            /\ conv' = [conv EXCEPT !.state = "Error", !.cards = <<>>]
        BY <1>7, <3>2 DEF ConversationLoaded, Asked, Read
      <4>2. conv' = [selection |-> conv.selection, state |-> "Error", cards |-> <<>>]
        BY <1>1, <4>1 DEF ConvTypedState
      <4>3. QED BY <1>3, <1>5, <4>1, <4>2
    <3>3. CASE conv.selection = Asked /\ Read # None
      <4>1. /\ conv' = [conv EXCEPT !.state = "Ready",
                           !.cards = [x \in DOMAIN Read.cards |->
                                          [Read.cards[x] EXCEPT !.unread = FALSE]]]
            /\ Read.anchor \in Anchors
            /\ \A x \in DOMAIN Read.cards :
                  Read.cards[x] = [unread |-> Read.cards[x].unread, body |-> Read.cards[x].body]
        BY <1>7, <3>3, Shows
      <4>2. PICK r : winQ' = winQ \o <<Post("Anchor", Read.anchor)>> \o r /\ WinTyped(r)
        BY <1>7, <3>3, Shows
      <4>3. WinTyped(<<Post("Anchor", Read.anchor)>>)
        BY <4>1, Alone DEF WinTyped, WinPost
      <4>4. WinTyped(winQ')
        BY <1>1, <4>2, <4>3, WinJoins
      <4>5. conv' = [selection |-> conv.selection, state |-> "Ready",
                     cards |-> [x \in DOMAIN Read.cards |->
                                    [unread |-> FALSE, body |-> Read.cards[x].body]]]
        <5>1. \A x \in DOMAIN Read.cards :
                  [Read.cards[x] EXCEPT !.unread = FALSE] =
                      [unread |-> FALSE, body |-> Read.cards[x].body]
          <6> TAKE x \in DOMAIN Read.cards
          <6>1. \E u, b : Read.cards[x] = [unread |-> u, body |-> b]
            BY <4>1
          <6>2. PICK u, b : Read.cards[x] = [unread |-> u, body |-> b]
            BY <6>1
          <6>3. PICK card : card = [[unread |-> u, body |-> b] EXCEPT !.unread = FALSE]
            OBVIOUS
          <6>4. card = [unread |-> FALSE, body |-> b]
            BY <6>3
          <6>5. Read.cards[x].body = b
            BY <6>2
          <6>6. [Read.cards[x] EXCEPT !.unread = FALSE] = card
            BY <6>2, <6>3, Zenon
          <6>7. QED BY <6>4, <6>5, <6>6, Zenon
        <5>2. [x \in DOMAIN Read.cards |-> [Read.cards[x] EXCEPT !.unread = FALSE]] =
              [x \in DOMAIN Read.cards |-> [unread |-> FALSE, body |-> Read.cards[x].body]]
          BY <5>1
        <5>3. QED BY <1>1, <4>1, <5>2 DEF ConvTypedState
      <4>6. ConvTypedState'
        BY <4>5 DEF ConvTypedState
      <4>7. QED BY <4>4, <4>6
    <3>4. QED BY <3>1, <3>2, <3>3
  <2>2. QED BY <1>1, <1>2, <1>4, <1>7, <2>1 DEF ConversationLoaded, Turn
<1>8. UNCHANGED conv => ConvTypedState'
  BY <1>1 DEF ConvTypedState
<1>9. CASE CardBodyFetched
  <2>1. \A t \in DOMAIN tasks' : TaskTyped(t, list.seq)
    BY <1>1, <1>9, Spawned DEF CardBodyFetched
  <2>2. QED BY <1>1, <1>2, <1>4, <1>8, <1>9, <2>1 DEF CardBodyFetched, Turn, Unqueued
<1>10. CASE CardBodyLoaded
  <2>1. ConvTypedState'
    <3>1. CASE UNCHANGED conv
      BY <1>8, <3>1
    <3>2. ASSUME NEW k \in DOMAIN conv.cards, NEW body,
                 conv' = [conv EXCEPT !.cards =
                              [conv.cards EXCEPT ![k] = [conv.cards[k] EXCEPT !.body = body]]]
          PROVE  ConvTypedState'
      <4>1. conv' = [selection |-> conv.selection, state |-> conv.state,
                     cards |-> [conv.cards EXCEPT ![k] = [conv.cards[k] EXCEPT !.body = body]]]
        BY <1>1, <3>2 DEF ConvTypedState
      <4>6. conv.cards = [x \in DOMAIN conv.cards |-> [unread |-> conv.cards[x].unread,
                                                       body |-> conv.cards[x].body]]
        BY <1>1 DEF ConvTypedState
      <4>7. [conv.cards[k] EXCEPT !.body = body] = [unread |-> conv.cards[k].unread, body |-> body]
        BY <4>6
      <4>2. conv'.cards = [x \in DOMAIN conv.cards |->
                              IF x = k THEN [unread |-> conv.cards[x].unread, body |-> body]
                              ELSE [unread |-> conv.cards[x].unread, body |-> conv.cards[x].body]]
        BY <4>1, <4>6, <4>7
      <4>3. DOMAIN conv'.cards = DOMAIN conv.cards
        BY <4>2
      <4>4. conv'.cards = [x \in DOMAIN conv'.cards |-> [unread |-> conv'.cards[x].unread,
                                                         body |-> conv'.cards[x].body]]
        BY <4>2, <4>3
      <4>5. QED BY <4>1, <4>4 DEF ConvTypedState
    <3>3. QED BY <1>10, <3>1, <3>2 DEF CardBodyLoaded
  <2>2. QED BY <1>1, <1>2, <1>4, <1>10, <2>1 DEF CardBodyLoaded, Turn
<1>11. CASE ConversationClears
  BY <1>1, <1>2, <1>3, <1>4, <1>5, <1>11 DEF ConversationClears, NoConversation, Turn
<1>12. CASE ConversationRetries
  <2>1. ConvTyped(<<Post("Load", conv.selection)>>) /\ ConvTyped(<<>>)
    BY Alone, NothingQueued DEF ConvTyped, ConvPost
  <2>2. ConvTyped(convQ')
    BY <1>2, <1>12, <2>1, ConvJoins DEF ConversationRetries, Turn
  <2>3. QED BY <1>1, <1>4, <1>8, <1>12, <2>2 DEF ConversationRetries, Unqueued
<1>13. QED
  BY <1>6, <1>7, <1>9, <1>10, <1>11, <1>12 DEF ConversationNext

LEMMA KeptTasks ==
    ASSUME NEW n, \A t \in DOMAIN tasks : TaskTyped(t, n), NEW t, tasks' = Minus(tasks, t)
    PROVE  \A u \in DOMAIN tasks' : TaskTyped(u, n)
BY Bags

LEMMA TypedTasks == Typed /\ TaskNext => Typed'
<1> SUFFICES ASSUME Typed, NEW t \in DOMAIN tasks,
                    Reads(t) \/ Writes(t) \/ FetchFails(t) \/ Reports(t)
             PROVE  Typed'
  BY DEF TaskNext
<1> USE PostIs
<1>1. /\ MailTyped /\ WindowTyped /\ ListShape /\ ConvTypedState
      /\ WinTyped(winQ) /\ ListTyped(listQ, list.seq) /\ ConvTyped(convQ)
      /\ \A u \in DOMAIN tasks : TaskTyped(u, list.seq)
  BY DEF Typed
<1>2. list.seq \in Nat
  BY <1>1 DEF ListShape
<1>3. TaskTyped(t, list.seq)
  BY <1>1
<1>4. ASSUME UNCHANGED Beside, MailTyped', WinTyped(winQ'), ListTyped(listQ', list.seq),
             ConvTyped(convQ'), \A u \in DOMAIN tasks' : TaskTyped(u, list.seq)
      PROVE  Typed'
  BY <1>1, <1>4 DEF Typed, Beside, WindowTyped, ListShape, ConvTypedState
<1>5. UNCHANGED mail => MailTyped'
  BY <1>1 DEF MailTyped
<1>6. CASE Reads(t)
  <2>1. ASSUME NEW result, Gets(t, result), t.do \in {"rows", "thread"},
               t.do = "thread" => ReadOf(t.on, result)
        PROVE  \A u \in DOMAIN tasks' : TaskTyped(u, list.seq)
    <3> DEFINE v == [t EXCEPT !.got = [result |-> result]]
    <3>1. v.do = t.do /\ v.on = t.on /\ v.got = [result |-> result]
          /\ v = [do |-> v.do, on |-> v.on, got |-> v.got]
      BY <1>3 DEF TaskTyped
    <3>2. v.got.result = result
      BY <3>1
    <3>3. TaskTyped(v, list.seq)
      BY <1>3, <2>1, <3>1, <3>2 DEF TaskTyped
    <3>4. tasks' = Plus(Minus(tasks, t), v)
      BY <2>1 DEF Gets
    <3> HIDE DEF v
    <3>6. DOMAIN tasks' = DOMAIN Minus(tasks, t) \cup {v}
      BY <3>4, Bags
    <3>7. DOMAIN Minus(tasks, t) \subseteq DOMAIN tasks
      BY Bags
    <3>5. QED BY <1>1, <3>3, <3>6, <3>7
  <2>2. t.do = "thread" => ReadOf(t.on, Conversation(t.on))
    <3>1. SUFFICES ASSUME t.on \in DOMAIN mail PROVE ReadOf(t.on, Conversation(t.on))
      BY DEF ReadOf, Conversation
    <3>2. Conversation(t.on) = [cards |-> [x \in ThreadOf(t.on) |-> Card(x)],
                                anchor |-> [key |-> t.on, flagged |-> mail[t.on].flagged]]
      BY <3>1 DEF Conversation
    <3>3. mail[t.on].flagged \in BOOLEAN /\ t.on \in Keys /\ ThreadOf(t.on) \subseteq Keys
      BY <1>1, <3>1 DEF MailTyped, Message, ThreadOf
    <3>4. QED BY <3>2, <3>3 DEF ReadOf, Anchors, Card
  <2>3. ReadOf(t.on, None)
    BY DEF ReadOf
  <2>4. \A u \in DOMAIN tasks' : TaskTyped(u, list.seq)
    BY <1>6, <2>1, <2>2, <2>3 DEF Reads
  <2>5. QED BY <1>1, <1>4, <1>5, <1>6, <2>4 DEF Reads
<1>7. tasks' = Minus(tasks, t) => \A u \in DOMAIN tasks' : TaskTyped(u, list.seq)
  BY <1>1, KeptTasks
<1>8. \A do, on : do # "Anchor" => WinTyped(Append(winQ, Post(do, on)))
  BY <1>1, WinSends DEF WinPost
<1>9. CASE Writes(t)
  <2>1. MailTyped'
    <3>1. CASE t.do = "flags" /\ mail' = FlagsWritten(t.on)
      <4>1. t.on.field \in {"unread", "flagged"} /\ t.on.to \in BOOLEAN
        BY <1>3, <3>1 DEF TaskTyped
      <4>2. \A k \in DOMAIN mail : mail[k] \in Message
                                  /\ [mail[k] EXCEPT ![t.on.field] = t.on.to] \in Message
        BY <1>1, <4>1 DEF MailTyped, Message
      <4>3. DOMAIN mail' = DOMAIN mail /\ \A k \in DOMAIN mail : mail'[k] \in Message
        BY <3>1, <4>2 DEF FlagsWritten
      <4>4. mail' = [k \in DOMAIN mail' |-> mail'[k]]
        BY <3>1 DEF FlagsWritten
      <4>5. QED BY <1>1, <4>3, <4>4 DEF MailTyped
    <3>2. CASE mail' = Restrict(mail, DOMAIN mail \ {t.on})
      BY <1>1, <3>2 DEF MailTyped, Restrict
    <3>3. CASE t.on \in DOMAIN mail /\ mail' = [mail EXCEPT ![t.on].full = TRUE]
      <4>1. mail[t.on] \in Message
        BY <1>1, <3>3 DEF MailTyped
      <4>2. mail' = [mail EXCEPT ![t.on] = [mail[t.on] EXCEPT !.full = TRUE]]
        BY <3>3
      <4>3. [mail[t.on] EXCEPT !.full = TRUE] \in Message
        BY <4>1 DEF Message
      <4>4. QED BY <1>1, <4>2, <4>3 DEF MailTyped
    <3>4. QED BY <1>5, <1>9, <3>1, <3>2, <3>3 DEF Writes, NoFault, Fault
  <2>2. WinTyped(winQ') /\ UNCHANGED <<listQ, convQ>>
    <3>1. \E do, on : do # "Anchor" /\ ToWindow(do, on)
      BY <1>9 DEF Writes
    <3>2. QED BY <1>8, <3>1 DEF ToWindow
  <2>3. QED BY <1>1, <1>4, <1>7, <1>9, <2>1, <2>2 DEF Writes
<1>10. CASE FetchFails(t)
  BY <1>1, <1>4, <1>5, <1>7, <1>10 DEF FetchFails
<1>11. CASE Reports(t)
  <2>1. WinTyped(winQ') /\ ListTyped(listQ', list.seq) /\ ConvTyped(convQ')
    <3>1. CASE Has(t, "rows") /\ ToList("Loaded", [load |-> t.on, result |-> t.got.result])
      <4>1. ListPost(Post("Loaded", [load |-> t.on, result |-> t.got.result]), list.seq)
        BY <1>3, <3>1 DEF Has, TaskTyped, ListPost
      <4>2. QED BY <1>1, <1>2, <3>1, <4>1, ListSends DEF ToList
    <3>2. CASE Has(t, "thread")
               /\ ToConversation("Loaded", [key |-> t.on, result |-> t.got.result])
      <4>1. ConvPost(Post("Loaded", [key |-> t.on, result |-> t.got.result]))
        BY <1>3, <3>2 DEF Has, TaskTyped, ConvPost
      <4>2. QED BY <1>1, <3>2, <4>1, ConvSends DEF ToConversation
    <3>3. CASE ToConversation("BodyLoaded", [key |-> t.on, result |-> Status(t.on)])
      <4>1. ConvPost(Post("BodyLoaded", [key |-> t.on, result |-> Status(t.on)]))
        BY DEF ConvPost
      <4>2. QED BY <1>1, <3>3, <4>1, ConvSends DEF ToConversation
    <3>4. ASSUME NEW do, NEW on, do # "Anchor", ToWindow(do, on)
          PROVE  WinTyped(winQ') /\ ListTyped(listQ', list.seq) /\ ConvTyped(convQ')
      BY <1>1, <1>8, <3>4 DEF ToWindow
    <3>5. QED BY <1>11, <3>1, <3>2, <3>3, <3>4 DEF Reports
  <2>2. QED BY <1>4, <1>5, <1>7, <1>11, <2>1 DEF Reports
<1>12. QED BY <1>6, <1>9, <1>10, <1>11

LEMMA TypedOutside == Typed /\ (SyncNext \/ UserNext) => Typed'
<1> SUFFICES ASSUME Typed, SyncNext \/ UserNext PROVE Typed'
  OBVIOUS
<1> USE PostIs
<1>1. /\ MailTyped /\ WindowTyped /\ ListShape /\ ConvTypedState
      /\ WinTyped(winQ) /\ ListTyped(listQ, list.seq) /\ ConvTyped(convQ)
      /\ \A u \in DOMAIN tasks : TaskTyped(u, list.seq)
  BY DEF Typed
<1>2. list.seq \in Nat
  BY <1>1 DEF ListShape
<1>3. ASSUME UNCHANGED <<window, conv, tasks>>, MailTyped', ListShape', list'.seq = list.seq,
             WinTyped(winQ'), ListTyped(listQ', list.seq), ConvTyped(convQ')
      PROVE  Typed'
  BY <1>1, <1>3 DEF Typed, WindowTyped, ConvTypedState
<1>4. \A do, on : do # "Anchor" => WinTyped(Append(winQ, Post(do, on)))
  BY <1>1, WinSends DEF WinPost
<1>5. (UNCHANGED mail => MailTyped') /\ (UNCHANGED list => ListShape')
  BY <1>1 DEF MailTyped, ListShape
<1>6. ASSUME NEW k \in Deliverable, Arrives(k) \/ Vanishes(k) \/ FlagsChange(k) PROVE Typed'
  <2>1. MailTyped'
    <3>1. k \in Keys
      BY ReaderAssumption
    <3>2. CASE Arrives(k)
      <4>1. [unread |-> TRUE, flagged |-> FALSE, full |-> FALSE] \in Message
        BY DEF Message
      <4>2. QED BY <1>1, <3>1, <3>2, <4>1 DEF Arrives, MailTyped
    <3>3. CASE Vanishes(k)
      BY <1>1, <3>3 DEF Vanishes, MailTyped, Restrict
    <3>4. CASE FlagsChange(k)
      <4>1. mail[k] \in Message /\ k \in DOMAIN mail
        BY <1>1, <3>4 DEF FlagsChange, MailTyped
      <4>2. mail' = [mail EXCEPT ![k] = [mail[k] EXCEPT !.unread = ~mail[k].unread]]
        BY <3>4 DEF FlagsChange
      <4>3. [mail[k] EXCEPT !.unread = ~mail[k].unread] \in Message
        BY <4>1 DEF Message
      <4>4. QED BY <1>1, <4>1, <4>2, <4>3 DEF MailTyped
    <3>5. QED BY <1>6, <3>2, <3>3, <3>4
  <2>2. PICK f : Synced(f)
    BY <1>6 DEF Arrives, Vanishes, FlagsChange
  <2>3. QED BY <1>1, <1>3, <1>4, <1>5, <2>1, <2>2 DEF Synced, ToWindow, Unqueued
<1>7. ASSUME NEW do, NEW on, do # "Anchor", Tells(do, on) PROVE Typed'
  BY <1>1, <1>3, <1>4, <1>5, <1>7 DEF Tells, Untouched
<1>8. ASSUME NEW u, ChooseRow(u) PROVE Typed'
  <2>1. ListShape' /\ list'.seq = list.seq
    BY <1>1, <1>8 DEF ChooseRow, SelectRow, ListShape
  <2>2. ListTyped(listQ', list.seq)
    BY <1>1, <1>2, <1>8, ListSends DEF ChooseRow, ListPost
  <2>3. QED BY <1>1, <1>3, <1>5, <1>8, <2>1, <2>2 DEF ChooseRow, Untouched
<1>9. CASE Retry
  <2>1. ListTyped(Append(listQ, Post("Retry", None)), list.seq)
    BY <1>1, <1>2, ListSends DEF ListPost
  <2>2. ConvTyped(Append(convQ, Post("Retry", None)))
    BY <1>1, ConvSends DEF ConvPost
  <2>3. QED BY <1>1, <1>3, <1>5, <1>9, <2>1, <2>2 DEF Retry, Untouched
<1>10. QED
  BY <1>6, <1>7, <1>8, <1>9
     DEF SyncNext, UserNext, ChooseFolder, PressMove, ChooseHit, ClickNotification, Press

LEMMA ReaderTypedNext == Typed /\ [ReaderNext]_readerVars => Typed'
<1>1. Typed /\ UNCHANGED readerVars => Typed'
  BY DEF readerVars, Typed, MailTyped, WindowTyped, ListShape, ConvTypedState
<1>2. QED
  BY <1>1, TypedWindow, TypedList, TypedConversation, TypedTasks, TypedOutside DEF ReaderNext

LEMMA ReaderTyped == ReaderSpec => []Typed
BY ReaderTypedInit, ReaderTypedNext, PTL DEF ReaderSpec

-----------------------------------------------------------------------------
(* The window has the folders of the account of its anchor, or none, so    *)
(* that the Trash it finds among them is of that account.                  *)
FoldersOfAnchor ==
    window.anchor # None => window.folders \subseteq FoldersOf(Account(window.anchor))
TrashInv == FoldersOfAnchor /\ TrashOfItsAccount

LEMMA AnchorHasAccount == \A a \in Anchors : a # None => Account(a) = AccountOf[a.key[1]] /\ Account(a) # None
<1> TAKE a \in Anchors
<1>1. a.key \in Keys /\ a.key[1] \in Folders
  BY ReaderAssumption DEF Anchors
<1>2. QED BY <1>1, ReaderAssumption DEF Account

LEMMA TrashNext == Typed /\ TrashInv /\ [ReaderNext]_readerVars => TrashInv'
<1> SUFFICES ASSUME Typed, TrashInv, [ReaderNext]_readerVars PROVE TrashInv'
  OBVIOUS
<1>1. WindowTyped /\ WinTyped(winQ)
  BY DEF Typed
<1>2. winQ # <<>> => WinPost(Head(winQ))
  BY <1>1, WinTakes
<1>3. CASE UNCHANGED <<window, request>>
  BY <1>3 DEF TrashInv, FoldersOfAnchor, TrashOfItsAccount
<1>4. ASSUME window'.anchor = window.anchor, window'.folders = window.folders, UNCHANGED request
      PROVE  TrashInv'
  BY <1>4 DEF TrashInv, FoldersOfAnchor, TrashOfItsAccount
<1>5. CASE FolderSelected \/ OpenMessage \/ QueueFolderReload \/ FlushReloads
  <2>1. window'.anchor = window.anchor /\ window'.folders = window.folders
    BY <1>1, <1>5
       DEF FolderSelected, OpenMessage, QueueFolderReload, FlushReloads, WindowTyped
  <2>2. UNCHANGED request
    BY <1>5 DEF FolderSelected, OpenMessage, QueueFolderReload, FlushReloads
  <2>3. QED BY <1>4, <2>1, <2>2
<1>6. CASE AnchorChanged
  <2> DEFINE anchor == Head(winQ).on
  <2>1. anchor \in Anchors \cup {None} /\ UNCHANGED request
    BY <1>2, <1>6 DEF AnchorChanged, Turn, WinPost
  <2>2. CASE Account(anchor) # Account(window.anchor)
    <3>1. window'.folders = {}
      BY <1>1, <1>6, <2>2 DEF AnchorChanged, WindowTyped
    <3>2. QED BY <2>1, <3>1 DEF TrashInv, FoldersOfAnchor, TrashOfItsAccount
  <2>3. CASE Account(anchor) = Account(window.anchor)
    <3>1. window'.folders = window.folders /\ window'.anchor = anchor
      BY <1>1, <1>6, <2>3 DEF AnchorChanged, WindowTyped
    <3>2. anchor # None => window.anchor # None
      BY <2>1, <2>3, AnchorHasAccount DEF Account
    <3>3. FoldersOfAnchor'
      BY <2>3, <3>1, <3>2 DEF TrashInv, FoldersOfAnchor, FoldersOf, Account
    <3>4. QED BY <2>1, <3>3 DEF TrashInv, TrashOfItsAccount
  <2>4. QED BY <2>2, <2>3
<1>7. CASE FoldersLoaded
  <2>1. UNCHANGED request
    BY <1>7 DEF FoldersLoaded
  <2>2. CASE OfAnchor(Head(winQ).on)
    <3>1. window'.anchor = window.anchor
          /\ window'.folders = FoldersOf(Account(window.anchor))
      BY <1>1, <1>7, <2>2 DEF FoldersLoaded, OfAnchor, WindowTyped
    <3>2. FoldersOfAnchor'
      BY <3>1 DEF FoldersOfAnchor, FoldersOf, Account
    <3>3. QED BY <2>1, <3>2 DEF TrashInv, TrashOfItsAccount
  <2>3. QED BY <1>3, <1>7, <2>1, <2>2 DEF FoldersLoaded
<1>8. CASE Viewed
  BY <1>8, PostIs DEF Viewed, ApplyFlagChange, TrashInv, FoldersOfAnchor, TrashOfItsAccount
<1>9. CASE ToggleFlagged
  <2>1. window.anchor \in Anchors /\ window.anchor # None
    BY <1>1, <1>9 DEF WindowTyped, ToggleFlagged
  <2>2. window' = [window EXCEPT !.anchor = [window.anchor EXCEPT !.flagged = ~window.anchor.flagged]]
    BY <1>9 DEF ToggleFlagged
  <2>3. window'.folders = window.folders /\ window'.anchor.key = window.anchor.key
    BY <1>1, <2>1, <2>2 DEF WindowTyped, Anchors
  <2>4. window'.folders \subseteq FoldersOf(AccountOf[window'.anchor.key[1]])
    BY <2>1, <2>3, AnchorHasAccount DEF TrashInv, FoldersOfAnchor
  <2>5. FoldersOfAnchor'
    BY <2>4 DEF FoldersOfAnchor, FoldersOf, Account
  <2>6. request'.do = "SetFlags"
    BY <1>9 DEF ToggleFlagged, ApplyFlagChange
  <2>7. QED BY <2>5, <2>6 DEF TrashInv, TrashOfItsAccount
<1>10. ASSUME NEW do, NEW by, NEW target, Discard(do, by, target),
              by = "delete" /\ do = "Move" => AccountOf[window.anchor.key[1]] = AccountOf[target]
       PROVE  TrashInv'
  <2>1. window'.anchor = None
    BY <1>1, <1>10 DEF Discard, WindowTyped
  <2>2. request' = [do |-> do, by |-> by, from |-> window.anchor.key[1], to |-> target]
    BY <1>10 DEF Discard
  <2>3. TrashOfItsAccount'
    BY <1>10, <2>2 DEF TrashOfItsAccount
  <2>4. QED BY <2>1, <2>3 DEF TrashInv, FoldersOfAnchor
<1>11. CASE MoveMessage
  BY <1>10, <1>11 DEF MoveMessage
<1>12. CASE DeleteMessage
  <2>1. window.anchor \in Anchors /\ window.anchor # None
    BY <1>1, <1>12 DEF WindowTyped, DeleteMessage
  <2>2. \A t \in window.folders : AccountOf[window.anchor.key[1]] = AccountOf[t]
    BY <2>1, AnchorHasAccount DEF TrashInv, FoldersOfAnchor, FoldersOf
  <2>3. QED BY <1>10, <1>12, <2>2 DEF DeleteMessage
<1>13. CASE MessageSelected \/ FetchBody \/ BodyFetched \/ NothingShown
  BY <1>3, <1>13 DEF MessageSelected, FetchBody, BodyFetched, NothingShown, Unqueued
<1>14. CASE ListNext \/ ConversationNext
  BY <1>3, <1>14
     DEF ListNext, ListLoads, ListLoaded, ListSelects, ListRetries, SelectionChanged,
         ConversationNext, ConversationLoads, ConversationLoaded, CardBodyFetched, CardBodyLoaded,
         ConversationClears, ConversationRetries, Unqueued
<1>15. CASE TaskNext
  BY <1>3, <1>15 DEF TaskNext, Reads, Writes, FetchFails, Reports, Beside
<1>16. CASE SyncNext \/ UserNext
  BY <1>3, <1>16
     DEF SyncNext, Arrives, Vanishes, FlagsChange, Synced, Unqueued, UserNext, ChooseFolder,
         PressMove, ChooseRow, ChooseHit, ClickNotification, Press, Retry, Tells, Untouched
<1>17. CASE UNCHANGED readerVars
  BY <1>3, <1>17 DEF readerVars
<1>18. QED
  BY <1>5, <1>6, <1>7, <1>8, <1>9, <1>11, <1>12, <1>13, <1>14, <1>15, <1>16, <1>17
     DEF ReaderNext, WindowNext

(* Deleting moves a message to the Trash of its own account, however fast  *)
(* the user goes from an account to another (WindowMsg::FoldersLoaded,     *)
(* WindowMsg::DeleteMessage).                                              *)
THEOREM TrashIsOfItsAccount == ReaderSpec => []TrashOfItsAccount
<1>1. ReaderInit => TrashInv
  BY DEF ReaderInit, TrashInv, FoldersOfAnchor, TrashOfItsAccount
<1>2. TrashInv => TrashOfItsAccount
  BY DEF TrashInv
<1>3. QED BY <1>1, <1>2, TrashNext, ReaderTyped, PTL DEF ReaderSpec

-----------------------------------------------------------------------------
(* Finally says where the last of the messages do of a queue leads, and    *)
(* where things stand (now) when it holds none.                            *)
Silent(q, i, do) == \A e \in After(q, i) : e.do # do
Finally(q, do, now, good) ==
    /\ Silent(q, 0, do) => now \in good
    /\ \A i \in 1 .. Len(q) : q[i].do = do /\ Silent(q, i, do) => q[i].on \in good

LEMMA FinallyTakes ==
    ASSUME NEW q, Queue(q), q # <<>>, NEW do, NEW now, NEW good, Finally(q, do, now, good)
    PROVE  /\ Head(q).do = do => Finally(Tail(q), do, Head(q).on, good)
           /\ Head(q).do # do => Finally(Tail(q), do, now, good)
<1>1. /\ Len(q) \in Nat \ {0} /\ Len(Tail(q)) = Len(q) - 1 /\ Head(q) = q[1]
      /\ Elements(q) = {Head(q)} \cup Elements(Tail(q)) /\ After(q, 1) = Elements(Tail(q))
      /\ \A i \in 1 .. Len(Tail(q)) : Tail(q)[i] = q[i + 1]
      /\ \A i \in 0 .. Len(Tail(q)) : After(Tail(q), i) = After(q, i + 1)
  BY Handled
<1>2. After(Tail(q), 0) = Elements(Tail(q)) /\ After(q, 0) = Elements(q)
  BY Handled, QueueIs
<1>3. ASSUME NEW i \in 1 .. Len(Tail(q)), Tail(q)[i].do = do, Silent(Tail(q), i, do)
      PROVE  Tail(q)[i].on \in good
  <2>1. /\ i + 1 \in 1 .. Len(q) /\ i \in 0 .. Len(Tail(q)) /\ Tail(q)[i] = q[i + 1]
        /\ After(Tail(q), i) = After(q, i + 1)
    BY <1>1
  <2>2. q[i + 1].do = do /\ Silent(q, i + 1, do)
    BY <1>3, <2>1 DEF Silent
  <2>3. q[i + 1].on \in good
    BY <2>1, <2>2 DEF Finally
  <2>4. QED BY <2>1, <2>3
<1>4. ASSUME Head(q).do = do, Silent(Tail(q), 0, do) PROVE Head(q).on \in good
  <2>1. Silent(q, 1, do)
    BY <1>1, <1>2, <1>4 DEF Silent
  <2>2. 1 \in 1 .. Len(q) /\ q[1].do = do
    BY <1>1, <1>4
  <2>3. QED BY <1>1, <2>1, <2>2 DEF Finally
<1>5. ASSUME Head(q).do # do, Silent(Tail(q), 0, do) PROVE now \in good
  <2>1. Silent(q, 0, do)
    BY <1>1, <1>2, <1>5 DEF Silent
  <2>2. QED BY <2>1 DEF Finally
<1>6. QED BY <1>3, <1>4, <1>5 DEF Finally

LEMMA FinallyKeeps ==
    ASSUME NEW q, Queue(q), NEW r, Queue(r), NEW do, \A e \in Elements(r) : e.do # do,
           NEW now, NEW good, Finally(q, do, now, good)
    PROVE  Finally(q \o r, do, now, good)
<1>1. /\ Len(q) \in Nat /\ Len(r) \in Nat /\ Len(q \o r) = Len(q) + Len(r)
      /\ \A i \in 1 .. Len(q) : (q \o r)[i] = q[i]
      /\ \A i \in 0 .. Len(q) : After(q \o r, i) = After(q, i) \cup Elements(r)
      /\ \A i \in 1 .. Len(q \o r) : i > Len(q) => (q \o r)[i] = r[i - Len(q)]
      /\ \A i \in 1 .. Len(r) : r[i] \in Elements(r)
  BY Joined, QueueIs
<1>2. ASSUME Silent(q \o r, 0, do) PROVE now \in good
  <2>1. Silent(q, 0, do)
    BY <1>1, <1>2 DEF Silent
  <2>2. QED BY <2>1 DEF Finally
<1>3. ASSUME NEW i \in 1 .. Len(q \o r), (q \o r)[i].do = do, Silent(q \o r, i, do)
      PROVE  (q \o r)[i].on \in good
  <2>1. i <= Len(q)
    <3>1. SUFFICES ASSUME i > Len(q) PROVE FALSE
      BY <1>1
    <3>2. i - Len(q) \in 1 .. Len(r)
      BY <1>1, <3>1
    <3>3. QED BY <1>1, <1>3, <3>1, <3>2
  <2>2. i \in 1 .. Len(q) /\ i \in 0 .. Len(q)
    BY <1>1, <2>1
  <2>3. q[i].do = do /\ Silent(q, i, do)
    BY <1>1, <1>3, <2>2 DEF Silent
  <2>4. QED BY <1>1, <2>2, <2>3 DEF Finally
<1>4. QED BY <1>2, <1>3 DEF Finally

LEMMA FinallyTurns ==
    ASSUME NEW q, Queue(q), NEW r, Queue(r), NEW do, \E e \in Elements(r) : e.do = do,
           NEW now, NEW then, NEW good, Finally(r, do, then, good)
    PROVE  Finally(q \o r, do, now, good)
<1>1. /\ Len(q) \in Nat /\ Len(r) \in Nat /\ Len(q \o r) = Len(q) + Len(r)
      /\ \A i \in 0 .. Len(q) : After(q \o r, i) = After(q, i) \cup Elements(r)
      /\ \A i \in 1 .. Len(q \o r) : i > Len(q) => (q \o r)[i] = r[i - Len(q)]
      /\ \A i \in 0 .. Len(q \o r) : i >= Len(q) => After(q \o r, i) = After(r, i - Len(q))
  BY Joined, QueueIs
<1>2. \A i \in 0 .. Len(q) : ~Silent(q \o r, i, do)
  BY <1>1 DEF Silent
<1>3. ASSUME NEW i \in 1 .. Len(q \o r), (q \o r)[i].do = do, Silent(q \o r, i, do)
      PROVE  (q \o r)[i].on \in good
  <2>1. i > Len(q)
    BY <1>1, <1>2, <1>3
  <2>2. /\ i - Len(q) \in 1 .. Len(r) /\ (q \o r)[i] = r[i - Len(q)]
        /\ After(q \o r, i) = After(r, i - Len(q))
    BY <1>1, <2>1
  <2>3. r[i - Len(q)].do = do /\ Silent(r, i - Len(q), do)
    BY <1>3, <2>2 DEF Silent
  <2>4. QED BY <2>2, <2>3 DEF Finally
<1>4. QED BY <1>1, <1>2, <1>3 DEF Finally

LEMMA FinallyLast ==
    ASSUME NEW e, NEW good, e.on \in good, NEW now
    PROVE  Finally(<<e>>, e.do, now, good)
<1>1. After(<<e>>, 0) = {e} /\ Len(<<e>>) = 1 /\ <<e>>[1] = e
  BY Alone
<1>2. QED BY <1>1 DEF Finally, Silent

(* One message more at the end of a queue.                                 *)
LEMMA FinallyMoves ==
    ASSUME NEW q, Queue(q), NEW e, NEW now, NEW good, e.on \in good
    PROVE  Finally(Append(q, e), e.do, now, good)
<1>1. Queue(<<e>>) /\ Elements(<<e>>) = {e} /\ Append(q, e) = q \o <<e>>
  BY Alone, Posted
<1>2. QED BY <1>1, FinallyLast, FinallyTurns

LEMMA FinallySends ==
    ASSUME NEW q, Queue(q), NEW e, NEW do, NEW now, NEW good,
           \/ e.do = do /\ e.on \in good
           \/ e.do # do /\ Finally(q, do, now, good)
    PROVE  Finally(Append(q, e), do, now, good)
<1>1. Queue(<<e>>) /\ Elements(<<e>>) = {e} /\ Append(q, e) = q \o <<e>>
  BY Alone, Posted
<1>2. CASE e.do = do /\ e.on \in good
  BY <1>2, FinallyMoves
<1>3. CASE e.do # do /\ Finally(q, do, now, good)
  BY <1>1, <1>3, FinallyKeeps
<1>4. QED BY <1>2, <1>3

-----------------------------------------------------------------------------
(* The list follows the folder selected.                                   *)

(* The list's folder is the one selected, once the loads that wait are     *)
(* done.                                                                   *)
FolderFollows == ~overtaken => Finally(listQ, "Load", list.folder, {window.folder})

LEMMA FolderFollowsWindow == Typed /\ FolderFollows /\ WindowNext => FolderFollows'
<1> SUFFICES ASSUME Typed, FolderFollows, WindowNext PROVE FolderFollows'
  OBVIOUS
<1> USE PostIs
<1>1. WindowTyped /\ Queue(listQ)
  BY DEF Typed, ListTyped
<1>2. ASSUME UNCHANGED <<list, overtaken>>, window'.folder = window.folder,
             \/ UNCHANGED listQ
             \/ \E e : listQ' = Append(listQ, e) /\ (e.do = "Load" => e.on = window.folder)
      PROVE  FolderFollows'
  <2>1. SUFFICES ASSUME ~overtaken PROVE Finally(listQ', "Load", list.folder, {window.folder})
    BY <1>2 DEF FolderFollows
  <2>2. Finally(listQ, "Load", list.folder, {window.folder})
    BY <2>1 DEF FolderFollows
  <2>3. CASE UNCHANGED listQ
    BY <2>2, <2>3
  <2>4. ASSUME NEW e, listQ' = Append(listQ, e), e.do = "Load" => e.on = window.folder
        PROVE  Finally(listQ', "Load", list.folder, {window.folder})
    BY <1>1, <2>2, <2>4, FinallySends
  <2>5. QED BY <1>2, <2>3, <2>4
<1>3. CASE FolderSelected
  <2>1. /\ window'.folder = Head(winQ).on /\ UNCHANGED list
        /\ listQ' = Append(listQ, Post("Load", Head(winQ).on))
    BY <1>1, <1>3 DEF FolderSelected, ListLoad, WindowTyped
  <2>2. PICK e, good : e = Post("Load", Head(winQ).on) /\ good = {window'.folder}
    OBVIOUS
  <2>4. e.do = "Load" /\ e.on \in good /\ listQ' = Append(listQ, e)
    BY <2>1, <2>2
  <2>7. Queue(listQ)
    BY <1>1
  <2>9. e.do = "Load" /\ e.on \in good
    BY <2>4
  <2>8. Finally(Append(listQ, e), "Load", list.folder, good)
    BY <2>7, <2>9, FinallyMoves
  <2>6. Finally(listQ', "Load", list.folder, good)
    BY <2>4, <2>8
  <2>5. Finally(listQ', "Load", list.folder, {window'.folder})
    BY <2>2, <2>6
  <2>3. QED BY <2>1, <2>5 DEF FolderFollows
<1>4. CASE OpenMessage
  <2>1. PICK f, u : /\ window'.folder = f /\ UNCHANGED list
                    /\ listQ' = listQ \o <<Post("Load", f), Post("Select", u)>>
    BY <1>1, <1>4 DEF OpenMessage, ListLoad, WindowTyped
  <2>2. /\ Queue(<<Post("Load", f)>>) /\ Queue(<<Post("Select", u)>>)
        /\ Elements(<<Post("Load", f)>>) = {Post("Load", f)}
        /\ Elements(<<Post("Select", u)>>) = {Post("Select", u)}
    BY Alone
  <2>3. <<Post("Load", f), Post("Select", u)>> = <<Post("Load", f)>> \o <<Post("Select", u)>>
    OBVIOUS
  <2>4. listQ' = (listQ \o <<Post("Load", f)>>) \o <<Post("Select", u)>>
    BY <1>1, <2>1, <2>2, <2>3, Associates
  <2>5. Finally(<<Post("Load", f)>>, "Load", list.folder, {f})
    BY FinallyLast
  <2>6. Finally(listQ \o <<Post("Load", f)>>, "Load", list.folder, {f})
    BY <1>1, <2>2, <2>5, FinallyTurns
  <2>7. Queue(listQ \o <<Post("Load", f)>>)
    BY <1>1, <2>2, Joined
  <2>8. Finally(listQ', "Load", list.folder, {f})
    BY <2>2, <2>4, <2>6, <2>7, FinallyKeeps
  <2>9. QED BY <2>1, <2>8 DEF FolderFollows
<1>5. CASE FlushReloads
  <2>1. window'.folder = window.folder
    BY <1>1, <1>5 DEF FlushReloads, WindowTyped
  <2>2. \/ UNCHANGED listQ
        \/ listQ' = Append(listQ, Post("Load", window.folder))
    BY <1>5 DEF FlushReloads, ListLoad
  <2>3. QED BY <1>2, <1>5, <2>1, <2>2 DEF FlushReloads
<1>6. ASSUME UNCHANGED <<listQ, list, overtaken>>, window'.folder = window.folder
      PROVE  FolderFollows'
  BY <1>2, <1>6
<1>7. CASE QueueFolderReload \/ AnchorChanged \/ FoldersLoaded
  <2>1. window'.folder = window.folder
    BY <1>1, <1>7 DEF QueueFolderReload, AnchorChanged, FoldersLoaded, WindowTyped
  <2>2. QED BY <1>6, <1>7, <2>1 DEF QueueFolderReload, AnchorChanged, FoldersLoaded
<1>8. CASE ToggleFlagged
  <2>1. window' = [window EXCEPT !.anchor = [window.anchor EXCEPT !.flagged = ~window.anchor.flagged]]
    BY <1>8 DEF ToggleFlagged
  <2>2. window'.folder = window.folder
    BY <1>1, <2>1 DEF WindowTyped
  <2>3. QED BY <1>6, <1>8, <2>2 DEF ToggleFlagged
<1>9. ASSUME NEW do, NEW by, NEW target, Discard(do, by, target) PROVE FolderFollows'
  <2>1. window'.folder = window.folder
    BY <1>1, <1>9 DEF Discard, WindowTyped
  <2>2. QED BY <1>6, <1>9, <2>1 DEF Discard
<1>10. CASE MoveMessage \/ DeleteMessage
  BY <1>9, <1>10 DEF MoveMessage, DeleteMessage
<1>11. CASE MessageSelected \/ FetchBody \/ BodyFetched \/ Viewed \/ NothingShown
  BY <1>6, <1>11 DEF MessageSelected, FetchBody, BodyFetched, Viewed, NothingShown, Unqueued
<1>12. QED
  BY <1>3, <1>4, <1>5, <1>7, <1>8, <1>10, <1>11 DEF WindowNext

(* What a handler of the list leaves of its folder, and what it posts.     *)
LEMMA ListMessages ==
    ASSUME Typed, ListLoaded \/ ListSelects \/ SelectionChanged
    PROVE  /\ listQ # <<>> /\ list'.folder = list.folder /\ list'.seq = list.seq
           /\ Head(listQ).do \in {"Loaded", "Select", "SelectionChanged"}
           /\ \E r : /\ listQ' = Tail(listQ) \o r /\ Queue(r)
                     /\ \A e \in Elements(r) : e.do = "SelectionChanged"
<1>1. ListShape /\ ListTyped(listQ, list.seq)
  BY DEF Typed
<1>2. listQ # <<>> /\ Head(listQ).do \in {"Loaded", "Select", "SelectionChanged"}
  BY DEF ListLoaded, ListSelects, SelectionChanged, Turn
<1>3. Queue(Tail(listQ)) /\ Tail(listQ) \o <<>> = Tail(listQ)
  <2>1. Queue(Tail(listQ))
    BY <1>1, <1>2, Handled DEF ListTyped
  <2>2. QED BY <2>1 DEF Queue
<1> DEFINE Signals(r) == Queue(r) /\ \A e \in Elements(r) : e.do = "SelectionChanged"
           Result == /\ list'.folder = list.folder /\ list'.seq = list.seq
                     /\ \E r : listQ' = Tail(listQ) \o r /\ Signals(r)
<1>4. Signals(<<>>) /\ Signals(<<Post("SelectionChanged", None)>>)
  BY Alone, NothingQueued, PostIs
<1>5. \A l, u : Signals(Signalled(l, u))
  BY <1>4 DEF Signalled
<1>6. \A r, s : Signals(r) /\ Signals(s) => Signals(r \o s)
  BY Joined
<1> HIDE DEF Signals
<1>7. ASSUME NEW l, NEW signals, Signals(signals), AfterLoaded(l, signals),
             l = [list EXCEPT !.uid = l.uid, !.rows = l.rows, !.row = l.row, !.state = l.state]
      PROVE  Result
  <2>1. list' = [list EXCEPT !.uid = list'.uid, !.rows = list'.rows, !.row = list'.row,
                             !.state = list'.state, !.wanted = list'.wanted]
    BY <1>1, <1>7 DEF AfterLoaded, SelectRow, ListShape
  <2>2. PICK reemit, more : /\ listQ' = Tail(listQ) \o signals \o reemit \o more
                            /\ Signals(reemit) /\ Signals(more)
    BY <1>4, <1>5, <1>7 DEF AfterLoaded
  <2>3. Queue(signals) /\ Queue(reemit) /\ Queue(more)
    BY <1>7, <2>2 DEF Signals
  <2>9. PICK rest : rest = Tail(listQ)
    OBVIOUS
  <2>10. Queue(rest)
    BY <1>3, <2>9
  <2>4. rest \o signals \o reemit = rest \o (signals \o reemit)
    BY <2>3, <2>10, Associates
  <2>5. PICK both : both = signals \o reemit /\ Queue(both) /\ Signals(both)
    BY <1>6, <1>7, <2>2, <2>3, Joined
  <2>13. Queue(both) /\ Queue(more)
    BY <2>3, <2>5
  <2>12. (rest \o both) \o more = rest \o (both \o more)
    BY <2>10, <2>13, Associates
  <2>11. Signals(both \o more)
    BY <1>6, <2>2, <2>5
  <2>6. listQ' = Tail(listQ) \o (both \o more)
    BY <2>2, <2>4, <2>5, <2>9, <2>12
  <2>7. list'.folder = list.folder /\ list'.seq = list.seq
    BY <1>1, <2>1 DEF ListShape
  <2>8. QED BY <2>6, <2>7, <2>11
<1>8. CASE ListLoaded
  <2>1. ASSUME listQ' = Tail(listQ), UNCHANGED list PROVE Result
    BY <1>3, <1>4, <2>1
  <2>2. ASSUME NEW state, AfterLoaded(Cleared(list, state), <<>>) PROVE Result
    <3>1. Cleared(list, state) = [list EXCEPT !.uid = Cleared(list, state).uid,
              !.rows = Cleared(list, state).rows, !.row = Cleared(list, state).row,
              !.state = Cleared(list, state).state]
      BY <1>1 DEF Cleared, ListShape
    <3>2. QED BY <1>4, <1>7, <2>2, <3>1
  <2>3. ASSUME NEW rows, NEW row, NEW signals, Signals(signals),
               AfterLoaded(Restored([list EXCEPT !.rows = rows, !.row = row, !.state = "Ready"]),
                           signals)
        PROVE  Result
    <3> DEFINE l == Restored([list EXCEPT !.rows = rows, !.row = row, !.state = "Ready"])
    <3>1. l = [list EXCEPT !.uid = l.uid, !.rows = l.rows, !.row = l.row, !.state = l.state]
      BY <1>1 DEF Restored, SelectRow, ListShape
    <3>2. QED BY <1>7, <2>3, <3>1
  <2> HIDE DEF Result
  <2>4. \/ listQ' = Tail(listQ) /\ UNCHANGED list
        \/ \E state : AfterLoaded(Cleared(list, state), <<>>)
        \/ \E rows, row, l, u :
               \/ AfterLoaded(Restored([list EXCEPT !.rows = rows, !.row = row, !.state = "Ready"]),
                              Signalled(l, u))
               \/ AfterLoaded(Restored([list EXCEPT !.rows = rows, !.row = row, !.state = "Ready"]),
                              <<>>)
    BY <1>8 DEF ListLoaded
  <2>5. Result
    BY <1>4, <1>5, <2>1, <2>2, <2>3, <2>4
  <2>6. QED BY <1>2, <2>5 DEF Signals, Result
<1>9. CASE ListSelects
  <2>1. list' = [list EXCEPT !.uid = None, !.row = list'.row, !.wanted = list'.wanted]
    BY <1>1, <1>9 DEF ListSelects, SelectRow, ListShape
  <2>2. list'.folder = list.folder /\ list'.seq = list.seq
    BY <1>1, <2>1 DEF ListShape
  <2>3. \E r : listQ' = Tail(listQ) \o r /\ Signals(r)
    BY <1>3, <1>4, <1>5, <1>9 DEF ListSelects
  <2>4. QED BY <1>2, <2>2, <2>3 DEF Signals
<1>10. CASE SelectionChanged
  <2>1. list'.folder = list.folder /\ list'.seq = list.seq
    BY <1>1, <1>10 DEF SelectionChanged, ListShape
  <2>2. \E r : listQ' = Tail(listQ) \o r /\ Signals(r)
    BY <1>3, <1>4, <1>10 DEF SelectionChanged
  <2>3. QED BY <1>2, <2>1, <2>2 DEF Signals
<1>11. QED BY <1>8, <1>9, <1>10

LEMMA FolderFollowsNext ==
    Typed /\ FolderFollows /\ [ReaderNext]_readerVars => FolderFollows'
<1> SUFFICES ASSUME Typed, FolderFollows, [ReaderNext]_readerVars PROVE FolderFollows'
  OBVIOUS
<1> USE PostIs
<1>1. ListShape /\ Queue(listQ)
  BY DEF Typed, ListTyped
<1>2. listQ # <<>> => Queue(Tail(listQ))
  BY <1>1, Handled
<1>3. ASSUME UNCHANGED <<window, overtaken>>, list'.folder = list.folder,
             \/ UNCHANGED listQ
             \/ \E e : listQ' = Append(listQ, e) /\ e.do # "Load"
      PROVE  FolderFollows'
  <2>1. SUFFICES ASSUME ~overtaken PROVE Finally(listQ', "Load", list.folder, {window.folder})
    BY <1>3 DEF FolderFollows
  <2>2. Finally(listQ, "Load", list.folder, {window.folder})
    BY <2>1 DEF FolderFollows
  <2>3. CASE UNCHANGED listQ
    BY <2>2, <2>3
  <2>4. ASSUME NEW e, listQ' = Append(listQ, e), e.do # "Load"
        PROVE  Finally(listQ', "Load", list.folder, {window.folder})
    BY <1>1, <2>2, <2>4, FinallySends
  <2>5. QED BY <1>3, <2>3, <2>4
<1>4. CASE ListLoads
  <2>1. /\ listQ # <<>> /\ Head(listQ).do = "Load" /\ listQ' = Tail(listQ)
        /\ UNCHANGED <<window, overtaken>>
    BY <1>4 DEF ListLoads, Turn
  <2>2. list'.folder = Head(listQ).on
    BY <1>1, <1>4 DEF ListLoads, Cleared, ListShape
  <2>3. SUFFICES ASSUME ~overtaken PROVE Finally(listQ', "Load", Head(listQ).on, {window.folder})
    BY <2>1, <2>2 DEF FolderFollows
  <2>4. Finally(listQ, "Load", list.folder, {window.folder})
    BY <2>3 DEF FolderFollows
  <2>5. QED BY <1>1, <2>1, <2>4, FinallyTakes
<1>5. CASE ListLoaded \/ ListSelects \/ SelectionChanged
  <2>1. UNCHANGED <<window, overtaken>>
    BY <1>5 DEF ListLoaded, ListSelects, SelectionChanged
  <2>2. listQ # <<>> /\ list'.folder = list.folder /\ Head(listQ).do # "Load"
    BY <1>5, ListMessages
  <2>3. PICK r : /\ listQ' = Tail(listQ) \o r /\ Queue(r)
                 /\ \A e \in Elements(r) : e.do = "SelectionChanged"
    BY <1>5, ListMessages
  <2>4. SUFFICES ASSUME ~overtaken PROVE Finally(listQ', "Load", list.folder, {window.folder})
    BY <2>1, <2>2 DEF FolderFollows
  <2>5. Finally(listQ, "Load", list.folder, {window.folder})
    BY <2>4 DEF FolderFollows
  <2>6. Finally(Tail(listQ), "Load", list.folder, {window.folder})
    BY <1>1, <2>2, <2>5, FinallyTakes
  <2>7. \A e \in Elements(r) : e.do # "Load"
    BY <2>3
  <2>8. QED BY <1>2, <2>2, <2>3, <2>6, <2>7, FinallyKeeps
<1>6. CASE ListRetries
  <2>1. /\ listQ # <<>> /\ Head(listQ).do # "Load" /\ UNCHANGED <<window, list>>
        /\ overtaken' = (overtaken \/ \E i \in 2..Len(listQ) : listQ[i].do = "Load")
        /\ listQ' = Tail(listQ) \o (IF list.folder = None THEN <<>>
                                    ELSE <<Post("Load", list.folder)>>)
    BY <1>6 DEF ListRetries, Turn, Unqueued, ListLoad
  <2>2. SUFFICES ASSUME ~overtaken'
                 PROVE  Finally(listQ', "Load", list.folder, {window.folder})
    BY <2>1 DEF FolderFollows
  <2>3. ~overtaken /\ \A i \in 2..Len(listQ) : listQ[i].do # "Load"
    BY <2>1, <2>2
  <2>4. Finally(listQ, "Load", list.folder, {window.folder})
    BY <2>3 DEF FolderFollows
  <2>5. Finally(Tail(listQ), "Load", list.folder, {window.folder})
    BY <1>1, <2>1, <2>4, FinallyTakes
  <2>6. CASE list.folder = None
    <3>1. listQ' = Tail(listQ) \o <<>>
      BY <2>1, <2>6
    <3>2. \A e \in Elements(<<>>) : e.do # "Load"
      BY NothingQueued
    <3>3. QED BY <1>2, <2>1, <2>5, <3>1, <3>2, NothingQueued, FinallyKeeps
  <2>7. CASE list.folder # None
    <3>1. listQ' = Tail(listQ) \o <<Post("Load", list.folder)>>
      BY <2>1, <2>7
    <3>2. Silent(listQ, 0, "Load")
      <4>1. After(listQ, 0) = Elements(listQ) /\ Head(listQ) = listQ[1]
        BY <1>1, <2>1, QueueIs
      <4>2. \A i \in 1 .. Len(listQ) : listQ[i].do # "Load"
        BY <1>1, <2>1, <2>3, <4>1, QueueIs
      <4>3. QED BY <4>1, <4>2 DEF Silent, Elements
    <3>3. list.folder = window.folder
      BY <2>4, <3>2 DEF Finally
    <3>4. PICK e, good : e = Post("Load", list.folder) /\ good = {window.folder}
      OBVIOUS
    <3>5. e.do = "Load" /\ e.on \in good /\ Queue(Tail(listQ))
      BY <1>2, <2>1, <3>3, <3>4
    <3>6. Append(Tail(listQ), e) = Tail(listQ) \o <<e>>
      BY <3>5, Posted
    <3>7. Finally(Append(Tail(listQ), e), "Load", list.folder, good)
      BY <3>5, FinallyMoves
    <3>8. QED BY <3>1, <3>4, <3>6, <3>7
  <2>8. QED BY <2>6, <2>7
<1>7. CASE ConversationNext
  <2>1. UNCHANGED <<window, list, listQ>>
    BY <1>7
       DEF ConversationNext, ConversationLoads, ConversationLoaded, CardBodyFetched,
           CardBodyLoaded, ConversationClears, ConversationRetries, Unqueued
  <2>2. CASE ConversationRetries
    <3>1. ~overtaken' => ~overtaken
      BY <2>2 DEF ConversationRetries
    <3>2. QED BY <2>1, <3>1 DEF FolderFollows
  <2>3. UNCHANGED overtaken \/ ConversationRetries
    BY <1>7
       DEF ConversationNext, ConversationLoads, ConversationLoaded, CardBodyFetched,
           CardBodyLoaded, ConversationClears
  <2>4. QED BY <2>1, <2>2, <2>3 DEF FolderFollows
<1>8. CASE TaskNext
  <2>1. UNCHANGED <<window, list, overtaken>>
    BY <1>8 DEF TaskNext, Reads, Writes, FetchFails, Reports, Beside
  <2>2. \/ UNCHANGED listQ
        \/ \E e : listQ' = Append(listQ, e) /\ e.do # "Load"
    BY <1>8 DEF TaskNext, Reads, Writes, FetchFails, Reports, ToWindow, ToList, ToConversation
  <2>3. QED BY <1>3, <2>1, <2>2
<1>9. CASE SyncNext
  BY <1>3, <1>9 DEF SyncNext, Arrives, Vanishes, FlagsChange, Synced, ToWindow, Unqueued
<1>10. CASE UserNext
  <2>1. UNCHANGED <<window, overtaken>>
    BY <1>10
       DEF UserNext, ChooseFolder, PressMove, ChooseRow, ChooseHit, ClickNotification, Press,
           Retry, Tells, Untouched
  <2>2. list'.folder = list.folder
    BY <1>1, <1>10
       DEF UserNext, ChooseFolder, PressMove, ChooseRow, ChooseHit, ClickNotification, Press,
           Retry, Tells, SelectRow, ListShape
  <2>3. \/ UNCHANGED listQ
        \/ \E e : listQ' = Append(listQ, e) /\ e.do # "Load"
    <3>1. Post("SelectionChanged", None).do # "Load" /\ Post("Retry", None).do # "Load"
      OBVIOUS
    <3>2. QED
      BY <1>10, <3>1
         DEF UserNext, ChooseFolder, PressMove, ChooseRow, ChooseHit, ClickNotification, Press,
             Retry, Tells
  <2>4. QED BY <1>3, <2>1, <2>2, <2>3
<1>11. CASE UNCHANGED readerVars
  BY <1>3, <1>11 DEF readerVars
<1>12. QED
  BY <1>4, <1>5, <1>6, <1>7, <1>8, <1>9, <1>10, <1>11, FolderFollowsWindow
     DEF ReaderNext, ListNext

-----------------------------------------------------------------------------
(* What every step leaves of the window's messages and of the tasks.       *)
LEMMA Sent ==
    ASSUME NEW q, Queue(q), NEW e
    PROVE  /\ Queue(Append(q, e)) /\ Len(Append(q, e)) = Len(q) + 1 /\ Len(q) \in Nat
           /\ Elements(Append(q, e)) = Elements(q) \cup {e}
           /\ \A i \in 1 .. Len(q) : Append(q, e)[i] = q[i]
           /\ \A i \in 0 .. Len(q) : After(Append(q, e), i) = After(q, i) \cup {e}
           /\ Append(q, e)[Len(q) + 1] = e
<1>1. /\ Queue(<<e>>) /\ Len(<<e>>) = 1 /\ Elements(<<e>>) = {e} /\ <<e>>[1] = e
      /\ Append(q, e) = q \o <<e>> /\ Len(q) \in Nat
  BY Alone, Posted, QueueIs
<1>2. /\ Queue(q \o <<e>>) /\ Len(q \o <<e>>) = Len(q) + 1
      /\ Elements(q \o <<e>>) = Elements(q) \cup {e}
      /\ \A i \in 1 .. Len(q) : (q \o <<e>>)[i] = q[i]
      /\ \A i \in 0 .. Len(q) : After(q \o <<e>>, i) = After(q, i) \cup {e}
  BY <1>1, Joined
<1>3. (q \o <<e>>)[Len(q) + 1] = e
  <2>1. q \in Seq(Elements(q) \cup {e})
    BY DEF Queue
  <2>2. QED BY <1>1, <2>1
<1>4. QED BY <1>1, <1>2, <1>3

LEMMA SpawnAdds ==
    ASSUME NEW do, NEW on, Spawn(do, on)
    PROVE  /\ DOMAIN tasks' = DOMAIN tasks \cup {Task(do, on)}
           /\ DOMAIN tasks \subseteq DOMAIN tasks' /\ Task(do, on) \in DOMAIN tasks'
<1>1. PICK t : t = Task(do, on) /\ tasks' = Plus(tasks, t)
  BY DEF Spawn
<1>2. DOMAIN tasks' = DOMAIN tasks \cup {t}
  BY <1>1, Bags
<1>3. QED BY <1>1, <1>2

LEMMA OthersRun ==
    ASSUME NEW t, Reads(t) \/ Writes(t) \/ FetchFails(t) \/ Reports(t)
    PROVE  DOMAIN tasks \subseteq DOMAIN tasks' \cup {t}
<1>1. PICK rest : rest = Minus(tasks, t)
  OBVIOUS
<1>2. DOMAIN tasks \subseteq DOMAIN rest \cup {t}
  BY <1>1, Bags
<1>3. tasks' = rest \/ \E v : tasks' = Plus(rest, v)
  BY <1>1 DEF Reads, Writes, FetchFails, Reports, Gets
<1>4. CASE tasks' = rest
  BY <1>2, <1>4
<1>5. ASSUME NEW v, tasks' = Plus(rest, v) PROVE DOMAIN rest \subseteq DOMAIN tasks'
  <2>1. DOMAIN Plus(rest, v) = DOMAIN rest \cup {v}
    BY Bags
  <2>2. QED BY <1>5, <2>1
<1>6. QED BY <1>2, <1>3, <1>4, <1>5

LEMMA WindowHandles ==
    ASSUME Typed, WindowNext
    PROVE  /\ winQ # <<>> /\ winQ' = Tail(winQ) /\ UNCHANGED <<mail, list, conv, overtaken>>
           /\ DOMAIN tasks \subseteq DOMAIN tasks'
<1>1. winQ # <<>> /\ winQ' = Tail(winQ) /\ UNCHANGED <<mail, list, conv, overtaken>>
  BY DEF WindowNext, FolderSelected, MessageSelected, OpenMessage, FetchBody, BodyFetched,
         QueueFolderReload, FlushReloads, AnchorChanged, FoldersLoaded, Viewed, ToggleFlagged,
         MoveMessage, DeleteMessage, NothingShown, Discard, Turn, Unqueued
<1>2. UNCHANGED tasks \/ \E do, on : Spawn(do, on)
  BY DEF WindowNext, FolderSelected, MessageSelected, OpenMessage, FetchBody, BodyFetched,
         QueueFolderReload, FlushReloads, AnchorChanged, FoldersLoaded, Viewed, ToggleFlagged,
         MoveMessage, DeleteMessage, NothingShown, Discard, ApplyFlagChange
<1>3. \A do, on : Spawn(do, on) => DOMAIN tasks \subseteq DOMAIN tasks'
  BY SpawnAdds
<1>4. QED BY <1>1, <1>2, <1>3

LEMMA WindowHears ==
    ASSUME Typed, ListNext \/ ConversationNext \/ TaskNext \/ SyncNext \/ UserNext
    PROVE  UNCHANGED window /\ Queue(winQ) /\ Elements(winQ) \subseteq Elements(winQ')
<1>1. Queue(winQ)
  BY DEF Typed, WinTyped
<1>2. \A e : Elements(winQ) \subseteq Elements(Append(winQ, e))
  BY <1>1, Sent
<1>3. CASE ListNext
  BY <1>1, <1>2, <1>3
     DEF ListNext, ListLoads, ListLoaded, ListSelects, ListRetries, SelectionChanged, Unqueued
<1>4. CASE ConversationNext
  <2>1. CASE ConversationLoaded
    <3>1. CASE conv.selection = Asked /\ Read # None
      <4>1. PICK r : winQ' = winQ \o <<Post("Anchor", Read.anchor)>> \o r /\ WinTyped(r)
        BY <2>1, <3>1, Shows
      <4>2. Queue(<<Post("Anchor", Read.anchor)>>) /\ Queue(r)
        BY <4>1, Alone DEF WinTyped
      <4>3. Elements(winQ) \subseteq Elements(winQ \o <<Post("Anchor", Read.anchor)>>)
            /\ Queue(winQ \o <<Post("Anchor", Read.anchor)>>)
        BY <1>1, <4>2, Joined
      <4>4. Elements(winQ \o <<Post("Anchor", Read.anchor)>>) \subseteq Elements(winQ')
        BY <4>1, <4>2, <4>3, Joined
      <4>5. UNCHANGED window
        BY <2>1 DEF ConversationLoaded
      <4>6. QED BY <1>1, <4>3, <4>4, <4>5
    <3>2. CASE ~(conv.selection = Asked /\ Read # None)
      BY <1>1, <1>2, <2>1, <3>2 DEF ConversationLoaded, Asked, Read
    <3>3. QED BY <3>1, <3>2
  <2>2. CASE ~ConversationLoaded
    BY <1>1, <1>2, <1>4, <2>2
       DEF ConversationNext, ConversationLoads, CardBodyFetched, CardBodyLoaded,
           ConversationClears, ConversationRetries, Unqueued
  <2>3. QED BY <2>1, <2>2
<1>5. CASE TaskNext
  BY <1>1, <1>2, <1>5
     DEF TaskNext, Reads, Writes, FetchFails, Reports, ToWindow, ToList, ToConversation, Beside
<1>6. CASE SyncNext
  BY <1>1, <1>2, <1>6 DEF SyncNext, Arrives, Vanishes, FlagsChange, Synced, ToWindow, Unqueued
<1>7. CASE UserNext
  BY <1>1, <1>2, <1>7
     DEF UserNext, ChooseFolder, PressMove, ChooseRow, ChooseHit, ClickNotification, Press,
         Retry, Tells, Untouched
<1>8. QED BY <1>3, <1>4, <1>5, <1>6, <1>7

LEMMA TasksStay ==
    ASSUME ListNext \/ ConversationNext \/ SyncNext \/ UserNext
    PROVE  DOMAIN tasks \subseteq DOMAIN tasks'
<1>1. \A do, on : Spawn(do, on) => DOMAIN tasks \subseteq DOMAIN tasks'
  BY SpawnAdds
<1>2. CASE ListNext
  BY <1>1, <1>2
     DEF ListNext, ListLoads, ListLoaded, ListSelects, ListRetries, SelectionChanged
<1>3. CASE ConversationNext
  BY <1>1, <1>3
     DEF ConversationNext, ConversationLoads, ConversationLoaded, CardBodyFetched,
         CardBodyLoaded, ConversationClears, ConversationRetries
<1>4. CASE SyncNext \/ UserNext
  BY <1>4
     DEF SyncNext, Arrives, Vanishes, FlagsChange, Synced, UserNext, ChooseFolder, PressMove,
         ChooseRow, ChooseHit, ClickNotification, Press, Retry, Tells, Untouched
<1>5. QED BY <1>2, <1>3, <1>4

LEMMA WindowKeepsReloads ==
    ASSUME Typed, WindowNext, ~(FlushReloads \/ QueueFolderReload)
    PROVE  window'.reload = window.reload /\ window'.scheduled = window.scheduled
<1>1. WindowTyped
  BY DEF Typed
<1>2. CASE ToggleFlagged
  <2>1. window' = [window EXCEPT !.anchor =
                       [window.anchor EXCEPT !.flagged = ~window.anchor.flagged]]
    BY <1>2 DEF ToggleFlagged
  <2>2. QED BY <1>1, <2>1 DEF WindowTyped
<1>3. CASE AnchorChanged \/ FoldersLoaded
  BY <1>1, <1>3 DEF AnchorChanged, FoldersLoaded, WindowTyped
<1>4. CASE MoveMessage \/ DeleteMessage
  <2>1. window' = [window EXCEPT !.anchor = None]
    BY <1>4 DEF MoveMessage, DeleteMessage, Discard
  <2>2. QED BY <1>1, <2>1 DEF WindowTyped
<1>5. CASE FolderSelected \/ OpenMessage
  BY <1>1, <1>5 DEF FolderSelected, OpenMessage, WindowTyped
<1>6. CASE MessageSelected \/ FetchBody \/ BodyFetched \/ Viewed \/ NothingShown
  BY <1>6 DEF MessageSelected, FetchBody, BodyFetched, Viewed, NothingShown, Unqueued
<1>7. QED BY <1>2, <1>3, <1>4, <1>5, <1>6 DEF WindowNext

(* A reload that was asked for will be flushed: the timer runs, or has     *)
(* told the window so.                                                     *)
Scheduled ==
    /\ window.reload # {} => window.scheduled
    /\ window.scheduled => \/ \E t \in DOMAIN tasks : t.do = "timer"
                           \/ \E e \in Elements(winQ) : e.do = "Flush"

LEMMA ScheduledNext == Typed /\ Scheduled /\ [ReaderNext]_readerVars => Scheduled'
<1> SUFFICES ASSUME Typed, Scheduled, [ReaderNext]_readerVars PROVE Scheduled'
  OBVIOUS
<1> USE PostIs
<1>1. WindowTyped /\ Queue(winQ)
  BY DEF Typed, WinTyped
<1>2. ASSUME window'.reload = window.reload, window'.scheduled = window.scheduled,
             \A t \in DOMAIN tasks : t.do = "timer" => t \in DOMAIN tasks',
             \A e \in Elements(winQ) : e.do = "Flush" => e \in Elements(winQ')
      PROVE  Scheduled'
  BY <1>2 DEF Scheduled
<1>3. CASE WindowNext
  <2>1. winQ # <<>> /\ winQ' = Tail(winQ) /\ DOMAIN tasks \subseteq DOMAIN tasks'
    BY <1>3, WindowHandles
  <2>2. Elements(winQ) = {Head(winQ)} \cup Elements(winQ')
    BY <1>1, <2>1, Handled
  <2>3. CASE QueueFolderReload
    <3>1. Head(winQ).do = "Changed" /\ window'.scheduled = TRUE
      BY <1>1, <2>3 DEF QueueFolderReload, Turn, WindowTyped
    <3>2. \/ \E t \in DOMAIN tasks' : t.do = "timer"
          \/ \E e \in Elements(winQ') : e.do = "Flush"
      <4>1. CASE window.scheduled
        BY <2>1, <2>2, <3>1, <4>1 DEF Scheduled
      <4>2. CASE ~window.scheduled
        <5>1. Spawn("timer", None)
          BY <2>3, <4>2 DEF QueueFolderReload
        <5>2. Task("timer", None) \in DOMAIN tasks'
          BY <5>1, SpawnAdds
        <5>3. QED BY <5>2, TaskIs
      <4>3. QED BY <4>1, <4>2
    <3>3. QED BY <3>1, <3>2 DEF Scheduled
  <2>4. CASE FlushReloads
    <3>1. window'.scheduled = FALSE /\ window'.reload = {}
      BY <1>1, <2>4 DEF FlushReloads, WindowTyped
    <3>2. QED BY <3>1 DEF Scheduled
  <2>5. CASE ~(QueueFolderReload \/ FlushReloads)
    <3>1. Head(winQ).do # "Flush"
      BY <1>3, <2>5
         DEF WindowNext, FolderSelected, MessageSelected, OpenMessage, FetchBody, BodyFetched,
             AnchorChanged, FoldersLoaded, Viewed, ToggleFlagged, MoveMessage, DeleteMessage,
             NothingShown, Turn
    <3>2. window'.reload = window.reload /\ window'.scheduled = window.scheduled
      BY <1>3, <2>5, WindowKeepsReloads
    <3>3. QED BY <1>2, <2>1, <2>2, <3>1, <3>2
  <2>6. QED BY <2>3, <2>4, <2>5
<1>4. CASE TaskNext
  <2>1. UNCHANGED window /\ Elements(winQ) \subseteq Elements(winQ')
    BY <1>4, WindowHears
  <2>2. PICK t \in DOMAIN tasks : Reads(t) \/ Writes(t) \/ FetchFails(t) \/ Reports(t)
    BY <1>4 DEF TaskNext
  <2>3. DOMAIN tasks \subseteq DOMAIN tasks' \cup {t}
    BY <2>2, OthersRun
  <2>6. CASE t.do # "timer"
    BY <1>2, <2>1, <2>3, <2>6
  <2>7. CASE t.do = "timer"
    <3>1. ToWindow("Flush", None)
      BY <2>2, <2>7 DEF Reads, Writes, FetchFails, Reports, Has
    <3>2. Post("Flush", None) \in Elements(winQ')
      BY <1>1, <3>1, Sent DEF ToWindow
    <3>3. QED BY <2>1, <3>2 DEF Scheduled
  <2>8. QED BY <2>6, <2>7
<1>5. CASE ListNext \/ ConversationNext \/ SyncNext \/ UserNext
  BY <1>2, <1>5, WindowHears, TasksStay
<1>6. CASE UNCHANGED readerVars
  BY <1>2, <1>6 DEF readerVars
<1>7. QED BY <1>3, <1>4, <1>5, <1>6 DEF ReaderNext

-----------------------------------------------------------------------------
(* The rows follow the store.                                              *)

(* RowsOf, of any table.                                                   *)
RowsIn(table, f) ==
    [u \in {Uid(k) : k \in {k \in DOMAIN table : k[1] = f}} |->
        [unread |-> table[<<f, u>>].unread, flagged |-> table[<<f, u>>].flagged]]

LEMMA RowsAre == \A f : RowsOf(f) = RowsIn(mail, f)
BY DEF RowsOf, RowsIn, InFolder, Row

(* What a folder shows stays the same while its own messages do.           *)
LEMMA SameRows ==
    ASSUME NEW m, NEW n, DOMAIN m \subseteq Keys, DOMAIN n \subseteq Keys, NEW f,
           \A k \in Keys : k[1] = f =>
               /\ k \in DOMAIN m <=> k \in DOMAIN n
               /\ k \in DOMAIN m => m[k].unread = n[k].unread /\ m[k].flagged = n[k].flagged
    PROVE  RowsIn(m, f) = RowsIn(n, f)
<1> DEFINE M == {k \in DOMAIN m : k[1] = f}
           N == {k \in DOMAIN n : k[1] = f}
<1>1. M = N
  OBVIOUS
<1>2. ASSUME NEW u \in {Uid(k) : k \in M}
      PROVE  m[<<f, u>>].unread = n[<<f, u>>].unread /\ m[<<f, u>>].flagged = n[<<f, u>>].flagged
  <2>1. PICK k \in M : u = k[2]
    BY DEF Uid
  <2>2. k = <<f, u>> /\ k \in Keys /\ k \in DOMAIN m /\ k[1] = f
    BY <2>1, ReaderAssumption
  <2>3. m[k].unread = n[k].unread /\ m[k].flagged = n[k].flagged
    BY <2>2
  <2>4. QED BY <2>2, <2>3
<1>3. QED BY <1>1, <1>2 DEF RowsIn

(* Rows that look the same stay and the others are put in anew: in the end *)
(* the rows are those that were read.                                      *)
LEMMA Updated ==
    ASSUME NEW rows, NEW f, NEW table, NEW next, next = RowsIn(table, f)
    PROVE  ApplyUpdate(rows, next) = next
<1>1. next = [u \in DOMAIN next |-> next[u]]
  BY DEF RowsIn
<1>2. Same(rows, next) \cup (DOMAIN next \ Same(rows, next)) = DOMAIN next
  BY DEF Same
<1>3. \A u \in Same(rows, next) : rows[u] = next[u]
  BY DEF Same
<1>4. ApplyUpdate(rows, next) =
          [u \in DOMAIN next |-> IF u \in Same(rows, next) THEN rows[u] ELSE next[u]]
  BY <1>2 DEF ApplyUpdate
<1>5. [u \in DOMAIN next |-> IF u \in Same(rows, next) THEN rows[u] ELSE next[u]] =
      [u \in DOMAIN next |-> next[u]]
  BY <1>3
<1>6. QED BY <1>1, <1>4, <1>5

(* Whoever changes what a folder shows reports the folder.                 *)
LEMMA ChangesAreTold ==
    ASSUME Typed, [ReaderNext]_readerVars, NEW f
    PROVE  \/ RowsIn(mail', f) = RowsIn(mail, f)
           \/ \E e \in Elements(winQ') : e.do = "Changed" /\ e.on = f
<1>1. MailTyped /\ MailTyped' /\ Queue(winQ)
  BY ReaderTypedNext DEF Typed, WinTyped
<1>2. DOMAIN mail \subseteq Keys /\ DOMAIN mail' \subseteq Keys
  BY <1>1 DEF MailTyped
<1>3. \A do, on : ToWindow(do, on) => Post(do, on) \in Elements(winQ')
  BY <1>1, Sent DEF ToWindow
<1>4. CASE UNCHANGED mail
  BY <1>4
<1>5. ASSUME NEW t, Writes(t)
      PROVE  \/ RowsIn(mail', f) = RowsIn(mail, f)
             \/ \E e \in Elements(winQ') : e.do = "Changed" /\ e.on = f
  <2>1. CASE t.do = "flags" /\ ToWindow("Changed", t.on.folder) /\ mail' = FlagsWritten(t.on)
    <3>1. CASE t.on.folder = f
      BY <1>3, <2>1, <3>1, PostIs
    <3>2. CASE t.on.folder # f
      <4>1. DOMAIN mail' = DOMAIN mail
            /\ \A k \in DOMAIN mail : k[1] = f => mail'[k] = mail[k]
        BY <2>1, <3>2 DEF FlagsWritten
      <4>2. QED BY <1>2, <4>1, SameRows
    <3>3. QED BY <3>1, <3>2
  <2>2. CASE t.do = "remove" /\ ToWindow("Changed", t.on[1])
             /\ mail' = Restrict(mail, DOMAIN mail \ {t.on})
    <3>1. CASE t.on[1] = f
      BY <1>3, <2>2, <3>1, PostIs
    <3>2. CASE t.on[1] # f
      <4>1. /\ DOMAIN mail' = DOMAIN mail \ {t.on}
            /\ \A k \in DOMAIN mail' : mail'[k] = mail[k]
        BY <2>2 DEF Restrict
      <4>2. QED BY <1>2, <3>2, <4>1, SameRows
    <3>3. QED BY <3>1, <3>2
  <2>3. CASE t.on \in DOMAIN mail /\ mail' = [mail EXCEPT ![t.on].full = TRUE]
    <3>1. mail' = [mail EXCEPT ![t.on] = [mail[t.on] EXCEPT !.full = TRUE]]
      BY <2>3
    <3>2. mail[t.on] \in Message
      BY <1>1, <2>3 DEF MailTyped
    <3>3. /\ [mail[t.on] EXCEPT !.full = TRUE].unread = mail[t.on].unread
          /\ [mail[t.on] EXCEPT !.full = TRUE].flagged = mail[t.on].flagged
      BY <3>2 DEF Message
    <3>4. DOMAIN mail' = DOMAIN mail
          /\ \A k \in DOMAIN mail : /\ mail'[k].unread = mail[k].unread
                                    /\ mail'[k].flagged = mail[k].flagged
      BY <1>1, <3>1, <3>3 DEF MailTyped
    <3>5. QED BY <1>2, <3>4, SameRows
  <2>4. QED BY <1>4, <1>5, <2>1, <2>2, <2>3 DEF Writes
<1>6. ASSUME NEW k \in Deliverable, Arrives(k) \/ Vanishes(k) \/ FlagsChange(k)
      PROVE  \/ RowsIn(mail', f) = RowsIn(mail, f)
             \/ \E e \in Elements(winQ') : e.do = "Changed" /\ e.on = f
  <2>1. CASE k[1] = f
    <3>1. ToWindow("Changed", f)
      BY <1>6, <2>1 DEF Arrives, Vanishes, FlagsChange, Synced
    <3>2. QED BY <1>3, <3>1, PostIs
  <2>2. CASE k[1] # f
    <3>1. \A x \in Keys : x[1] = f =>
              (x \in DOMAIN mail <=> x \in DOMAIN mail')
              /\ (x \in DOMAIN mail => mail'[x] = mail[x])
      <4>1. CASE Arrives(k)
        BY <2>2, <4>1 DEF Arrives
      <4>2. CASE Vanishes(k)
        BY <2>2, <4>2 DEF Vanishes, Restrict
      <4>3. CASE FlagsChange(k)
        <5>1. PICK new : mail' = [mail EXCEPT ![k] = new]
          BY <4>3 DEF FlagsChange
        <5>2. QED BY <1>1, <2>2, <5>1 DEF MailTyped
      <4>4. QED BY <1>6, <4>1, <4>2, <4>3
    <3>2. QED BY <1>2, <3>1, SameRows
  <2>3. QED BY <2>1, <2>2
<1>7. CASE WindowNext
  BY <1>4, <1>7, WindowHandles
<1>8. CASE ListNext \/ ConversationNext
  BY <1>4, <1>8
     DEF ListNext, ListLoads, ListLoaded, ListSelects, ListRetries, SelectionChanged,
         ConversationNext, ConversationLoads, ConversationLoaded, CardBodyFetched,
         CardBodyLoaded, ConversationClears, ConversationRetries
<1>9. CASE TaskNext
  BY <1>4, <1>5, <1>9 DEF TaskNext, Reads, FetchFails, Reports
<1>10. CASE UserNext
  BY <1>4, <1>10
     DEF UserNext, ChooseFolder, PressMove, ChooseRow, ChooseHit, ClickNotification, Press,
         Retry, Tells, Untouched
<1>11. QED
  BY <1>4, <1>6, <1>7, <1>8, <1>9, <1>10 DEF ReaderNext, SyncNext, readerVars

(* The rows are those of the folder, or its load is under way and will say *)
(* what they are; or a change is still to be told to the list.             *)
ReloadComes ==
    \/ \E e \in Elements(listQ) : e.do = "Load"
    \/ \E e \in Elements(winQ) : e.do = "Changed" /\ e.on = list.folder
    \/ list.folder \in window.reload
Loading == {t \in DOMAIN tasks : t.do = "rows" /\ Current(t.on)}
Answers == {e \in Elements(listQ) : e.do = "Loaded" /\ Current(e.on.load)}
UpToDate ==
    /\ \A t \in Loading : t.got # None => t.got.result \in {None, RowsIn(mail, list.folder)}
    /\ \A e \in Answers : e.on.result \in {None, RowsIn(mail, list.folder)}
    /\ list.state # "Error" =>
           list.rows = RowsIn(mail, list.folder) \/ Loading # {} \/ Answers # {}
RowsFollow == ~overtaken /\ list.folder # None => ReloadComes \/ UpToDate

(* What a handler of the list shows afterwards.                            *)
LEMMA ListShows ==
    ASSUME Typed, UpToDate, ListLoaded
    PROVE  list'.state # "Error" =>
               \/ Current(Head(listQ).on.load) /\ list'.rows = RowsIn(mail, list.folder)
               \/ ~Current(Head(listQ).on.load) /\ UNCHANGED list
<1> DEFINE next == Head(listQ).on.result
           R == RowsIn(mail, list.folder)
<1>1. ListShape /\ Queue(listQ) /\ listQ # <<>> /\ Head(listQ).do = "Loaded"
  BY DEF Typed, ListTyped, ListLoaded, Turn
<1>2. CASE ~Current(Head(listQ).on.load)
  BY <1>2 DEF ListLoaded
<1>3. CASE Current(Head(listQ).on.load)
  <2>1. Head(listQ) \in Answers
    BY <1>1, <1>3, Handled DEF Answers
  <2>2. next \in {None, R}
    BY <2>1 DEF UpToDate
  <2>3. ASSUME NEW l, NEW signals, AfterLoaded(l, signals),
               l = [list EXCEPT !.uid = l.uid, !.rows = l.rows, !.row = l.row, !.state = l.state]
        PROVE  list'.rows = l.rows /\ list'.state = l.state
    <3>1. list' = [l EXCEPT !.wanted = None]
          \/ list' = [[[l EXCEPT !.wanted = None] EXCEPT !.row = l.wanted] EXCEPT !.uid = None]
      BY <2>3 DEF AfterLoaded, SelectRow
    <3>2. l = [folder |-> list.folder, uid |-> l.uid, wanted |-> list.wanted, seq |-> list.seq,
               state |-> l.state, rows |-> l.rows, row |-> l.row]
      BY <1>1, <2>3 DEF ListShape
    <3>3. QED BY <3>1, <3>2
  <2>4. ASSUME NEW state, AfterLoaded(Cleared(list, state), <<>>)
        PROVE  list'.rows = <<>> /\ list'.state = state
    <3>1. PICK l : l = Cleared(list, state)
      OBVIOUS
    <3>2. /\ l = [list EXCEPT !.uid = l.uid, !.rows = l.rows, !.row = l.row, !.state = l.state]
          /\ l.rows = <<>> /\ l.state = state
      BY <1>1, <3>1 DEF Cleared, ListShape
    <3>3. QED BY <2>3, <2>4, <3>1, <3>2
  <2>5. ASSUME NEW rows, NEW row, NEW signals,
               AfterLoaded(Restored([list EXCEPT !.rows = rows, !.row = row, !.state = "Ready"]),
                           signals)
        PROVE  list'.rows = rows
    <3>1. PICK l : l = Restored([list EXCEPT !.rows = rows, !.row = row, !.state = "Ready"])
      OBVIOUS
    <3>2. /\ l = [list EXCEPT !.uid = l.uid, !.rows = l.rows, !.row = l.row, !.state = l.state]
          /\ l.rows = rows
      BY <1>1, <3>1 DEF Restored, SelectRow, ListShape
    <3>3. QED BY <2>3, <2>5, <3>1, <3>2
  <2>6. CASE next = None
    BY <1>3, <2>4, <2>6 DEF ListLoaded
  <2>7. CASE next # None /\ next = <<>>
    BY <1>3, <2>2, <2>4, <2>7 DEF ListLoaded
  <2>8. CASE next # None /\ next # <<>>
    <3>1. PICK rows, row, signals :
              /\ rows = IF list.state = "Ready" THEN ApplyUpdate(list.rows, next) ELSE next
              /\ AfterLoaded(Restored([list EXCEPT !.rows = rows, !.row = row,
                                                   !.state = "Ready"]), signals)
      BY <1>3, <2>8 DEF ListLoaded
    <3>2. rows = R
      BY <2>2, <2>8, <3>1, Updated
    <3>3. QED BY <1>3, <2>5, <3>1, <3>2
  <2>9. QED BY <2>6, <2>7, <2>8
<1>4. QED BY <1>2, <1>3

(* A new load is current at once, and what came before is not.             *)
LEMMA RowsFollowLoads == Typed /\ ListLoads => UpToDate'
<1> SUFFICES ASSUME Typed, ListLoads PROVE UpToDate'
  OBVIOUS
<1>1. ListShape /\ list.seq \in Nat /\ ListTyped(listQ, list.seq) /\ listQ # <<>>
  BY DEF Typed, ListShape, ListLoads, Turn
<1>2. PICK f : /\ list'.folder = f /\ list'.seq = list.seq + 1
               /\ Spawn("rows", [folder |-> f, seq |-> list.seq + 1])
  <2>1. /\ list'.folder = Head(listQ).on /\ list'.seq = list.seq + 1
    BY <1>1 DEF ListLoads, Cleared, ListShape
  <2>2. Spawn("rows", [folder |-> Head(listQ).on, seq |-> list.seq + 1])
    BY DEF ListLoads
  <2>3. QED BY <2>1, <2>2
<1>3. PICK load, t : load = [folder |-> f, seq |-> list.seq + 1] /\ t = Task("rows", load)
  OBVIOUS
<1>10. load.folder = f /\ load.seq = list.seq + 1 /\ Spawn("rows", load)
  BY <1>2, <1>3
<1>11. t.do = "rows" /\ t.on = load /\ t.got = None
  BY <1>3, TaskIs
<1>12. DOMAIN tasks' = DOMAIN tasks \cup {t}
  BY <1>3, <1>10, SpawnAdds
<1>4. /\ t.do = "rows" /\ t.on.folder = f /\ t.on.seq = list.seq + 1 /\ t.got = None
      /\ DOMAIN tasks' = DOMAIN tasks \cup {t}
  BY <1>10, <1>11, <1>12
<1>5. ASSUME NEW u \in DOMAIN tasks, u.do = "rows" PROVE u.on.seq # list'.seq
  <2>1. u.on.seq \in Nat /\ u.on.seq <= list.seq
    BY <1>5 DEF Typed, TaskTyped
  <2>2. QED BY <1>1, <1>2, <2>1
<1>6. Loading' = {t}
  BY <1>2, <1>4, <1>5 DEF Loading, Current
<1>7. ASSUME NEW e \in Elements(listQ'), e.do = "Loaded" PROVE e.on.load.seq # list'.seq
  <2>1. ListTyped(listQ', list.seq)
    BY <1>1, ListTakes DEF ListLoads
  <2>2. e.on.load.seq \in Nat /\ e.on.load.seq <= list.seq
    BY <1>7, <2>1 DEF ListTyped, ListPost
  <2>3. QED BY <1>1, <1>2, <2>2
<1>8. Answers' = {}
  BY <1>7 DEF Answers, Current
<1>9. QED BY <1>4, <1>6, <1>8 DEF UpToDate

(* What the list still has to do stays, but for the message it handles.    *)
LEMMA ListHears ==
    ASSUME Typed, WindowNext \/ ConversationNext \/ TaskNext \/ SyncNext \/ UserNext
    PROVE  Queue(listQ) /\ Elements(listQ) \subseteq Elements(listQ')
<1>1. Queue(listQ)
  BY DEF Typed, ListTyped
<1>2. \A e : Elements(listQ) \subseteq Elements(Append(listQ, e))
  BY <1>1, Sent
<1>3. CASE WindowNext
  <2>1. CASE OpenMessage
    <3>1. PICK f, u : listQ' = listQ \o <<Post("Load", f), Post("Select", u)>>
      BY <2>1 DEF OpenMessage, ListLoad
    <3>2. <<Post("Load", f), Post("Select", u)>> \in Seq({Post("Load", f), Post("Select", u)})
      OBVIOUS
    <3>3. Queue(<<Post("Load", f), Post("Select", u)>>)
      BY <3>2, QueueOf
    <3>4. PICK r : r = <<Post("Load", f), Post("Select", u)>>
      OBVIOUS
    <3>5. Queue(r) /\ listQ' = listQ \o r
      BY <3>1, <3>3, <3>4
    <3>6. QED BY <1>1, <3>5, Joined
  <2>2. CASE ~OpenMessage
    BY <1>1, <1>2, <1>3, <2>2
       DEF WindowNext, FolderSelected, MessageSelected, FetchBody, BodyFetched,
           QueueFolderReload, FlushReloads, AnchorChanged, FoldersLoaded, Viewed, ToggleFlagged,
           MoveMessage, DeleteMessage, NothingShown, Discard
  <2>3. QED BY <1>1, <2>1, <2>2
<1>4. CASE ConversationNext
  BY <1>1, <1>4
     DEF ConversationNext, ConversationLoads, ConversationLoaded, CardBodyFetched,
         CardBodyLoaded, ConversationClears, ConversationRetries, Unqueued
<1>5. CASE TaskNext
  BY <1>1, <1>2, <1>5
     DEF TaskNext, Reads, Writes, FetchFails, Reports, ToWindow, ToList, ToConversation
<1>6. CASE SyncNext \/ UserNext
  BY <1>1, <1>2, <1>6
     DEF SyncNext, Arrives, Vanishes, FlagsChange, Synced, ToWindow, UserNext, ChooseFolder,
         PressMove, ChooseRow, ChooseHit, ClickNotification, Press, Retry, Tells
<1>7. QED BY <1>1, <1>3, <1>4, <1>5, <1>6

(* Rows that are up to date stay so, or a reload is asked for.             *)
LEMMA UpToDateNext ==
    ASSUME Typed, UpToDate, [ReaderNext]_readerVars, ~ListLoads,
           list'.folder = list.folder, list'.seq = list.seq, list.folder # None
    PROVE  ReloadComes' \/ UpToDate'
<1> USE PostIs
<1>1. /\ ListShape /\ Queue(listQ)
      /\ \A t \in DOMAIN tasks : TaskTyped(t, list.seq)
  BY DEF Typed, ListTyped
<1>2. SUFFICES ASSUME RowsIn(mail', list.folder) = RowsIn(mail, list.folder) PROVE ReloadComes' \/ UpToDate'
  <2>1. PICK f : f = list.folder
    OBVIOUS
  <2>2. \/ RowsIn(mail', f) = RowsIn(mail, f)
        \/ \E e \in Elements(winQ') : e.do = "Changed" /\ e.on = f
    BY ChangesAreTold
  <2>3. QED BY <2>1, <2>2 DEF ReloadComes
<1>3. \A load : Current(load)' = Current(load)
  BY DEF Current
<1>4. ASSUME list'.rows = list.rows, list'.state = list.state,
             \A t : t.do = "rows" => (t \in DOMAIN tasks' <=> t \in DOMAIN tasks),
             \A e : e.do = "Loaded" => (e \in Elements(listQ') <=> e \in Elements(listQ))
      PROVE  UpToDate'
  <2>1. Loading' = Loading /\ Answers' = Answers
    BY <1>4 DEF Loading, Answers, Current
  <2>2. QED BY <1>2, <1>4, <2>1 DEF UpToDate
<1>5. \A e : e.do # "Loaded" =>
          \A x : x.do = "Loaded" => (x \in Elements(Append(listQ, e)) <=> x \in Elements(listQ))
  BY <1>1, Sent
<1>6. ASSUME NEW do, NEW on, Spawn(do, on), do # "rows"
      PROVE  \A t : t.do = "rows" => (t \in DOMAIN tasks' <=> t \in DOMAIN tasks)
  <2>1. PICK u : u = Task(do, on) /\ u.do = do
    BY TaskIs
  <2>2. DOMAIN tasks' = DOMAIN tasks \cup {u}
    BY <1>6, <2>1, SpawnAdds
  <2>3. QED BY <1>6, <2>1, <2>2
<1>7. CASE WindowNext
  <2>1. UNCHANGED list
    BY <1>7, WindowHandles
  <2>2. UNCHANGED tasks \/ \E do, on : Spawn(do, on) /\ do # "rows"
    BY <1>7
       DEF WindowNext, FolderSelected, MessageSelected, OpenMessage, FetchBody, BodyFetched,
           QueueFolderReload, FlushReloads, AnchorChanged, FoldersLoaded, Viewed, ToggleFlagged,
           MoveMessage, DeleteMessage, NothingShown, Discard, ApplyFlagChange
  <2>3. \A e : e.do = "Loaded" => (e \in Elements(listQ') <=> e \in Elements(listQ))
    <3>1. CASE OpenMessage
      <4>1. PICK f, u : listQ' = listQ \o <<Post("Load", f), Post("Select", u)>>
        BY <3>1 DEF OpenMessage, ListLoad
      <4>2. PICK r : r = <<Post("Load", f), Post("Select", u)>>
        OBVIOUS
      <4>3. r \in Seq({Post("Load", f), Post("Select", u)}) /\ Len(r) = 2
            /\ r[1] = Post("Load", f) /\ r[2] = Post("Select", u)
        BY <4>2
      <4>4. Queue(r) /\ \A e \in Elements(r) : e.do # "Loaded"
        <5>1. Queue(r)
          BY <4>3, QueueOf
        <5>2. \A i \in 1 .. 2 : r[i].do # "Loaded"
          BY <4>3
        <5>3. QED BY <4>3, <5>1, <5>2 DEF Elements
      <4>5. listQ' = listQ \o r
        BY <4>1, <4>2
      <4>6. Elements(listQ') = Elements(listQ) \cup Elements(r)
        BY <1>1, <4>4, <4>5, Joined
      <4>7. QED BY <4>4, <4>6
    <3>2. CASE ~OpenMessage
      <4>1. UNCHANGED listQ \/ \E f : listQ' = Append(listQ, Post("Load", f))
        <5>1. CASE FolderSelected \/ FlushReloads
          BY <5>1 DEF FolderSelected, FlushReloads, ListLoad
        <5>2. CASE ~(FolderSelected \/ FlushReloads)
          BY <1>7, <3>2, <5>2
             DEF WindowNext, MessageSelected, FetchBody, BodyFetched, QueueFolderReload,
                 AnchorChanged, FoldersLoaded, Viewed, ToggleFlagged, MoveMessage,
                 DeleteMessage, NothingShown, Discard
        <5>3. QED BY <5>1, <5>2
      <4>2. \A f : Post("Load", f).do # "Loaded"
        OBVIOUS
      <4>3. QED BY <1>5, <4>1, <4>2
    <3>3. QED BY <3>1, <3>2
  <2>4. QED BY <1>4, <1>6, <2>1, <2>2, <2>3
<1>8. CASE ListLoaded
  <2>1. UNCHANGED tasks
    BY <1>8 DEF ListLoaded
  <2>2. PICK r : /\ listQ # <<>> /\ listQ' = Tail(listQ) \o r /\ Queue(r)
                 /\ \A e \in Elements(r) : e.do = "SelectionChanged"
    BY <1>8, ListMessages
  <2>3. Queue(Tail(listQ)) /\ Elements(listQ) = {Head(listQ)} \cup Elements(Tail(listQ))
    BY <1>1, <2>2, Handled
  <2>4. Elements(listQ') = Elements(Tail(listQ)) \cup Elements(r)
    BY <2>2, <2>3, Joined
  <2>5. Loading' = Loading /\ Answers' \subseteq Answers
    BY <2>1, <2>2, <2>3, <2>4 DEF Loading, Answers, Current
  <2>6. list'.state # "Error" =>
            list'.rows = RowsIn(mail, list.folder) \/ Loading' # {} \/ Answers' # {}
    <3>1. CASE Current(Head(listQ).on.load)
      BY <1>8, <3>1, ListShows
    <3>2. CASE ~Current(Head(listQ).on.load)
      <4>1. UNCHANGED list
        BY <1>8, <3>2 DEF ListLoaded
      <4>2. Answers \subseteq Answers'
        BY <2>3, <2>4, <3>2 DEF Answers, Current
      <4>3. QED BY <2>5, <4>1, <4>2 DEF UpToDate
    <3>3. QED BY <3>1, <3>2
  <2>7. QED BY <1>2, <2>5, <2>6 DEF UpToDate, Loading
<1>9. CASE ListSelects \/ SelectionChanged
  <2>1. list'.rows = list.rows /\ list'.state = list.state
    BY <1>1, <1>9 DEF ListSelects, SelectionChanged, SelectRow, ListShape
  <2>2. PICK r : /\ listQ # <<>> /\ listQ' = Tail(listQ) \o r /\ Queue(r)
                 /\ \A e \in Elements(r) : e.do = "SelectionChanged"
    BY <1>9, ListMessages
  <2>3. Queue(Tail(listQ)) /\ Elements(listQ) = {Head(listQ)} \cup Elements(Tail(listQ))
    BY <1>1, <2>2, Handled
  <2>4. Elements(listQ') = Elements(Tail(listQ)) \cup Elements(r)
    BY <2>2, <2>3, Joined
  <2>5. Head(listQ).do # "Loaded"
    BY <1>9 DEF ListSelects, SelectionChanged, Turn
  <2>6. QED BY <1>4, <1>9, <2>1, <2>2, <2>3, <2>4, <2>5 DEF ListSelects, SelectionChanged
<1>10. CASE ListRetries
  <2>1. listQ # <<>> /\ listQ' = Tail(listQ) \o <<Post("Load", list.folder)>>
    BY <1>10 DEF ListRetries, Turn, ListLoad
  <2>2. /\ Queue(Tail(listQ)) /\ Queue(<<Post("Load", list.folder)>>)
        /\ Elements(<<Post("Load", list.folder)>>) = {Post("Load", list.folder)}
    BY <1>1, <2>1, Handled, Alone
  <2>3. Post("Load", list.folder) \in Elements(listQ')
    BY <2>1, <2>2, Joined
  <2>4. QED BY <2>3 DEF ReloadComes
<1>11. CASE ConversationNext
  <2>1. UNCHANGED <<list, listQ>>
    BY <1>11
       DEF ConversationNext, ConversationLoads, ConversationLoaded, CardBodyFetched,
           CardBodyLoaded, ConversationClears, ConversationRetries, Unqueued
  <2>2. UNCHANGED tasks \/ \E do, on : Spawn(do, on) /\ do # "rows"
    <3>1. CASE ConversationLoads
      BY <3>1 DEF ConversationLoads
    <3>2. CASE CardBodyFetched
      BY <3>2 DEF CardBodyFetched
    <3>3. CASE ConversationLoaded \/ CardBodyLoaded \/ ConversationClears \/ ConversationRetries
      BY <3>3 DEF ConversationLoaded, CardBodyLoaded, ConversationClears, ConversationRetries
    <3>4. QED BY <1>11, <3>1, <3>2, <3>3 DEF ConversationNext
  <2>3. QED BY <1>4, <1>6, <2>1, <2>2
<1>12. CASE TaskNext
  <2>1. PICK t \in DOMAIN tasks : Reads(t) \/ Writes(t) \/ FetchFails(t) \/ Reports(t)
    BY <1>12 DEF TaskNext
  <2>2. UNCHANGED list
    BY <2>1 DEF Reads, Writes, FetchFails, Reports, Beside
  <2>3. TaskTyped(t, list.seq)
    BY <1>1
  <2>4. DOMAIN tasks \subseteq DOMAIN tasks' \cup {t}
    BY <2>1, OthersRun
  <2>5. DOMAIN Minus(tasks, t) \subseteq DOMAIN tasks
    BY Bags
  <2>6. CASE Reads(t)
    <3>1. PICK result : /\ Gets(t, result)
                        /\ t.do = "rows" => result \in {None, RowsIn(mail, t.on.folder)}
      BY <2>6, RowsAre DEF Reads
    <3>2. PICK v : v = [t EXCEPT !.got = [result |-> result]]
      OBVIOUS
    <3>3. v.do = t.do /\ v.on = t.on /\ v.got.result = result
      <4>1. v = [do |-> t.do, on |-> t.on, got |-> [result |-> result]]
        BY <2>3, <3>2 DEF TaskTyped
      <4>2. QED BY <4>1
    <3>4. PICK rest : rest = Minus(tasks, t)
      OBVIOUS
    <3>5. DOMAIN tasks' = DOMAIN rest \cup {v}
      <4>1. tasks' = Plus(rest, v)
        BY <3>1, <3>2, <3>4 DEF Gets
      <4>2. QED BY <4>1, Bags
    <3>6. UNCHANGED listQ
      BY <2>6 DEF Reads
    <3>7. Answers' = Answers
      BY <2>2, <3>6 DEF Answers, Current
    <3>8. \A u \in Loading' : u \in Loading \/ u = v
      BY <2>2, <2>5, <3>4, <3>5 DEF Loading, Current
    <3>9. v \in Loading' => result \in {None, RowsIn(mail, list.folder)}
      BY <2>2, <3>1, <3>3 DEF Loading, Current
    <3>10. Loading # {} => Loading' # {}
      <4>1. ASSUME NEW u \in Loading PROVE Loading' # {}
        <5>1. CASE u = t
          <6>1. v \in Loading'
            BY <2>2, <3>3, <3>5, <4>1, <5>1 DEF Loading, Current
          <6>2. QED BY <6>1
        <5>2. CASE u # t
          <6>1. u \in Loading'
            BY <2>2, <2>4, <4>1, <5>2 DEF Loading, Current
          <6>2. QED BY <6>1
        <5>3. QED BY <5>1, <5>2
      <4>2. QED BY <4>1
    <3>11. \A u \in Loading' : u.got # None => u.got.result \in {None, RowsIn(mail, list.folder)}
      BY <3>3, <3>8, <3>9 DEF UpToDate
    <3>12. QED BY <1>2, <2>2, <3>7, <3>10, <3>11 DEF UpToDate
  <2>7. CASE Writes(t) \/ FetchFails(t)
    <3>1. t.do # "rows" /\ UNCHANGED listQ
      BY <2>7 DEF Writes, FetchFails, ToWindow
    <3>2. DOMAIN tasks' \subseteq DOMAIN tasks
      BY <2>5, <2>7 DEF Writes, FetchFails
    <3>3. QED BY <1>4, <2>2, <2>4, <3>1, <3>2
  <2>8. CASE Reports(t)
    <3>1. DOMAIN tasks' \subseteq DOMAIN tasks
      BY <2>5, <2>8 DEF Reports
    <3>2. CASE t.do # "rows"
      <4>1. UNCHANGED listQ
        BY <2>8, <3>2 DEF Reports, Has, ToWindow, ToConversation
      <4>2. QED BY <1>4, <2>2, <2>4, <3>1, <3>2, <4>1
    <3>3. CASE t.do = "rows"
      <4>1. t.got # None /\ ToList("Loaded", [load |-> t.on, result |-> t.got.result])
        BY <2>8, <3>3 DEF Reports, Has
      <4>2. PICK e : /\ e.do = "Loaded" /\ e.on.load = t.on /\ e.on.result = t.got.result
                     /\ listQ' = Append(listQ, e)
        BY <4>1 DEF ToList
      <4>3. Elements(listQ') = Elements(listQ) \cup {e}
        BY <1>1, <4>2, Sent
      <4>4. Answers \subseteq Answers' /\ Answers' \subseteq Answers \cup {e}
        BY <2>2, <4>3 DEF Answers, Current
      <4>5. t \in Loading => e \in Answers'
        BY <2>2, <4>2, <4>3 DEF Loading, Answers, Current
      <4>6. e \in Answers' => e.on.result \in {None, RowsIn(mail, list.folder)}
        <5>1. SUFFICES ASSUME e \in Answers' PROVE t \in Loading
          BY <4>1, <4>2 DEF UpToDate
        <5>2. QED BY <2>2, <3>3, <4>2, <5>1 DEF Loading, Answers, Current
      <4>7. Loading' \subseteq Loading /\ Loading \subseteq Loading' \cup {t}
        BY <2>2, <2>4, <3>1 DEF Loading, Current
      <4>8. Loading # {} \/ Answers # {} => Loading' # {} \/ Answers' # {}
        BY <4>4, <4>5, <4>7
      <4>9. QED BY <1>2, <2>2, <4>4, <4>6, <4>7, <4>8 DEF UpToDate
    <3>4. QED BY <3>2, <3>3
  <2>9. QED BY <2>1, <2>6, <2>7, <2>8
<1>13. CASE SyncNext \/ UserNext
  <2>1. UNCHANGED tasks
    BY <1>13
       DEF SyncNext, Arrives, Vanishes, FlagsChange, Synced, UserNext, ChooseFolder, PressMove,
           ChooseRow, ChooseHit, ClickNotification, Press, Retry, Tells, Untouched
  <2>2. list'.rows = list.rows /\ list'.state = list.state
    BY <1>1, <1>13
       DEF SyncNext, Arrives, Vanishes, FlagsChange, Synced, Unqueued, UserNext, ChooseFolder,
           PressMove, ChooseRow, ChooseHit, ClickNotification, Press, Retry, Tells, SelectRow,
           ListShape
  <2>3. UNCHANGED listQ \/ \E e : listQ' = Append(listQ, e) /\ e.do # "Loaded"
    <3>1. Post("SelectionChanged", None).do # "Loaded" /\ Post("Retry", None).do # "Loaded"
      OBVIOUS
    <3>2. QED
      BY <1>13, <3>1
         DEF SyncNext, Arrives, Vanishes, FlagsChange, Synced, ToWindow, UserNext, ChooseFolder,
             PressMove, ChooseRow, ChooseHit, ClickNotification, Press, Retry, Tells
  <2>4. QED BY <1>4, <1>5, <2>1, <2>2, <2>3
<1>14. CASE UNCHANGED readerVars
  BY <1>4, <1>14 DEF readerVars
<1>15. QED
  BY <1>7, <1>8, <1>9, <1>10, <1>11, <1>12, <1>13, <1>14 DEF ReaderNext, ListNext

LEMMA RowsFollowNext ==
    Typed /\ FolderFollows /\ RowsFollow /\ [ReaderNext]_readerVars => RowsFollow'
<1> SUFFICES ASSUME Typed, FolderFollows, RowsFollow, [ReaderNext]_readerVars,
                    ~overtaken', list'.folder # None
             PROVE  ReloadComes' \/ UpToDate'
  BY DEF RowsFollow
<1> USE PostIs
<1>1. /\ ListShape /\ WindowTyped /\ Queue(listQ) /\ Queue(winQ) /\ ListTyped(listQ, list.seq)
      /\ \A t \in DOMAIN tasks : TaskTyped(t, list.seq)
  BY DEF Typed, ListTyped, WinTyped
<1>2. CASE ListLoads
  BY <1>2, RowsFollowLoads
<1>3. ASSUME ~ListLoads PROVE list'.folder = list.folder /\ list'.seq = list.seq /\ ~overtaken
  <2>1. CASE ListLoaded \/ ListSelects \/ SelectionChanged
    <3>1. UNCHANGED overtaken
      BY <2>1 DEF ListLoaded, ListSelects, SelectionChanged
    <3>2. QED BY <2>1, <3>1, ListMessages
  <2>2. CASE ListRetries
    <3>1. UNCHANGED list /\ (~overtaken' => ~overtaken)
      BY <2>2 DEF ListRetries, Unqueued
    <3>2. QED BY <3>1
  <2>3. CASE ConversationNext
    <3>1. UNCHANGED list
      BY <2>3
         DEF ConversationNext, ConversationLoads, ConversationLoaded, CardBodyFetched,
             CardBodyLoaded, ConversationClears, ConversationRetries, Unqueued
    <3>2. CASE ConversationRetries
      <4>1. ~overtaken' => ~overtaken
        BY <3>2 DEF ConversationRetries
      <4>2. QED BY <3>1, <4>1
    <3>3. CASE ~ConversationRetries
      <4>1. UNCHANGED overtaken
        BY <2>3, <3>3
           DEF ConversationNext, ConversationLoads, ConversationLoaded, CardBodyFetched,
               CardBodyLoaded, ConversationClears
      <4>2. QED BY <3>1, <4>1
    <3>4. QED BY <3>2, <3>3
  <2>4. CASE WindowNext
    BY <2>4, WindowHandles
  <2>5. CASE TaskNext \/ SyncNext
    <3>1. UNCHANGED <<list, overtaken>>
      BY <2>5 DEF TaskNext, Reads, Writes, FetchFails, Reports, Beside, SyncNext, Arrives,
                  Vanishes, FlagsChange, Synced, Unqueued
    <3>2. QED BY <3>1
  <2>6. CASE UserNext
    <3>1. UNCHANGED overtaken
      BY <2>6
         DEF UserNext, ChooseFolder, PressMove, ChooseRow, ChooseHit, ClickNotification, Press,
             Retry, Tells, Untouched
    <3>2. list'.folder = list.folder /\ list'.seq = list.seq
      BY <1>1, <2>6
         DEF UserNext, ChooseFolder, PressMove, ChooseRow, ChooseHit, ClickNotification, Press,
             Retry, Tells, SelectRow, ListShape
    <3>3. QED BY <3>1, <3>2
  <2>7. CASE UNCHANGED readerVars
    BY <2>7 DEF readerVars
  <2>8. QED BY <1>3, <2>1, <2>2, <2>3, <2>4, <2>5, <2>6, <2>7 DEF ReaderNext, ListNext
<1>4. ASSUME ~ListLoads, ReloadComes PROVE ReloadComes'
  <2>1. list'.folder = list.folder /\ ~overtaken
    BY <1>3, <1>4
  <2>2. ASSUME UNCHANGED window, Elements(winQ) \subseteq Elements(winQ'),
               \A e \in Elements(listQ) : e.do = "Load" => e \in Elements(listQ')
        PROVE  ReloadComes'
    BY <1>4, <2>1, <2>2 DEF ReloadComes
  <2>3. CASE WindowNext
    <3>1. /\ winQ # <<>> /\ winQ' = Tail(winQ)
          /\ Elements(winQ) = {Head(winQ)} \cup Elements(winQ')
      BY <1>1, <2>3, WindowHandles, Handled
    <3>2. Elements(listQ) \subseteq Elements(listQ')
      BY <2>3, ListHears
    <3>3. CASE FlushReloads
      <4>1. Head(winQ).do = "Flush"
        BY <3>3 DEF FlushReloads, Turn
      <4>2. CASE \E e \in Elements(listQ) : e.do = "Load"
        BY <3>2, <4>2 DEF ReloadComes
      <4>3. CASE \E e \in Elements(winQ) : e.do = "Changed" /\ e.on = list.folder
        BY <2>1, <3>1, <4>1, <4>3 DEF ReloadComes
      <4>4. CASE list.folder \in window.reload /\ ~\E e \in Elements(listQ) : e.do = "Load"
        <5>1. Finally(listQ, "Load", list.folder, {window.folder})
          BY <2>1 DEF FolderFollows
        <5>2. Silent(listQ, 0, "Load")
          BY <1>1, <4>4, QueueIs DEF Silent
        <5>3. list.folder = window.folder
          BY <5>1, <5>2 DEF Finally
        <5>4. listQ' = Append(listQ, Post("Load", window.folder))
          BY <3>3, <4>4, <5>3 DEF FlushReloads, ListLoad
        <5>5. Post("Load", window.folder) \in Elements(listQ')
          BY <1>1, <5>4, Sent
        <5>6. QED BY <5>5 DEF ReloadComes
      <4>5. QED BY <1>4, <4>2, <4>3, <4>4 DEF ReloadComes
    <3>4. CASE QueueFolderReload
      <4>1. window'.reload = window.reload \cup {Head(winQ).on}
        BY <1>1, <3>4 DEF QueueFolderReload, WindowTyped
      <4>2. QED BY <1>4, <2>1, <3>1, <3>2, <4>1 DEF ReloadComes
    <3>5. CASE ~(FlushReloads \/ QueueFolderReload)
      <4>1. Head(winQ).do # "Changed"
        BY <2>3, <3>5
           DEF WindowNext, FolderSelected, MessageSelected, OpenMessage, FetchBody, BodyFetched,
               AnchorChanged, FoldersLoaded, Viewed, ToggleFlagged, MoveMessage, DeleteMessage,
               NothingShown, Turn
      <4>2. window'.reload = window.reload
        BY <2>3, <3>5, WindowKeepsReloads
      <4>3. QED BY <1>4, <2>1, <3>1, <3>2, <4>1, <4>2 DEF ReloadComes
    <3>6. QED BY <3>3, <3>4, <3>5
  <2>4. CASE ListLoaded \/ ListSelects \/ SelectionChanged \/ ListRetries
    <3>1. UNCHANGED window /\ Elements(winQ) \subseteq Elements(winQ')
      BY <2>4, WindowHears DEF ListNext
    <3>2. listQ # <<>> /\ Head(listQ).do # "Load" /\ \E r : listQ' = Tail(listQ) \o r /\ Queue(r)
      <4>1. CASE ListRetries
        <5>1. Queue(<<>>) /\ Queue(<<ListLoad(list.folder)>>)
          BY NothingQueued, Alone
        <5>2. QED BY <4>1, <5>1 DEF ListRetries, Turn
      <4>2. CASE ~ListRetries
        BY <2>4, <4>2, ListMessages
      <4>3. QED BY <4>1, <4>2
    <3>3. PICK r : listQ' = Tail(listQ) \o r /\ Queue(r)
      BY <3>2
    <3>4. Queue(Tail(listQ)) /\ Elements(listQ) = {Head(listQ)} \cup Elements(Tail(listQ))
      BY <1>1, <3>2, Handled
    <3>5. Elements(Tail(listQ)) \subseteq Elements(listQ')
      BY <3>3, <3>4, Joined
    <3>6. QED BY <2>2, <3>1, <3>2, <3>4, <3>5
  <2>5. CASE ConversationNext \/ TaskNext \/ SyncNext \/ UserNext
    BY <2>2, <2>5, WindowHears, ListHears
  <2>6. CASE UNCHANGED readerVars
    BY <2>2, <2>6 DEF readerVars
  <2>7. QED BY <1>4, <2>3, <2>4, <2>5, <2>6 DEF ReaderNext, ListNext
<1>5. ASSUME ~ListLoads, UpToDate PROVE ReloadComes' \/ UpToDate'
  BY <1>3, <1>5, UpToDateNext
<1>6. QED
  <2>1. CASE ~ListLoads
    <3>1. list.folder # None /\ ~overtaken
      BY <1>3, <2>1
    <3>2. QED BY <1>4, <1>5, <2>1, <3>1 DEF RowsFollow
  <2>2. QED BY <1>2, <2>1

(* Once nothing is under way, the list is that of the folder selected and  *)
(* shows what the store has of it, whatever was selected or synchronised   *)
(* while it loaded (MessageList::update, queue_folder_reload).             *)
THEOREM ListShowsStore == ReaderSpec => []ListConverges
<1> DEFINE Inv == FolderFollows /\ Scheduled /\ RowsFollow
<1>1. ReaderInit => Inv
  <2> SUFFICES ASSUME ReaderInit PROVE Inv
    OBVIOUS
  <2>1. Finally(listQ, "Load", list.folder, {window.folder})
    BY NothingQueued DEF ReaderInit, Finally
  <2>2. QED BY <2>1 DEF ReaderInit, FolderFollows, Scheduled, RowsFollow
<1>2. Typed /\ Inv /\ [ReaderNext]_readerVars => Inv'
  BY FolderFollowsNext, ScheduledNext, RowsFollowNext
<1>3. Typed /\ Inv => ListConverges
  <2> SUFFICES ASSUME Inv, Quiet, ~overtaken
               PROVE  /\ list.folder = window.folder
                      /\ list.folder # None /\ list.state # "Error" =>
                             list.rows = RowsOf(list.folder)
    BY DEF ListConverges
  <2>1. /\ Elements(winQ) = {} /\ Elements(listQ) = {} /\ DOMAIN tasks = {}
        /\ Silent(listQ, 0, "Load")
    BY NothingQueued DEF Quiet, Silent
  <2>2. list.folder = window.folder
    BY <2>1 DEF FolderFollows, Finally
  <2>3. ~ReloadComes
    BY <2>1 DEF Scheduled, ReloadComes
  <2>4. Loading = {} /\ Answers = {}
    BY <2>1 DEF Loading, Answers
  <2>5. QED BY <2>2, <2>3, <2>4, RowsAre DEF RowsFollow, UpToDate
<1>4. QED BY <1>1, <1>2, <1>3, ReaderTyped, PTL DEF ReaderSpec

-----------------------------------------------------------------------------
(* The window's anchor follows the conversation.                           *)

(* The anchors of what a conversation shows.                               *)
ShownBy(c) == {None} \cup {a \in Anchors : c.state = "Ready" /\ a.key = c.selection}

(* Once the messages that tell it are handled, the anchor is that of the   *)
(* conversation shown, or none.                                            *)
AnchorFollows == Finally(winQ, "Anchor", window.anchor, ShownBy(conv))

(* All but the conversation tell the window nothing of anchors.            *)
LEMMA AnchorsUntold ==
    ASSUME Typed, ListNext \/ TaskNext \/ SyncNext \/ UserNext
    PROVE  UNCHANGED conv /\ (UNCHANGED winQ \/ \E e : winQ' = Append(winQ, e) /\ e.do # "Anchor")
<1> USE PostIs
<1>1. CASE ListNext
  <2>1. CASE SelectionChanged
    <3>1. UNCHANGED winQ \/ \E on : winQ' = Append(winQ, Post("MessageSelected", on))
      BY <2>1 DEF SelectionChanged
    <3>2. UNCHANGED conv /\ \A on : Post("MessageSelected", on).do # "Anchor"
      BY <2>1 DEF SelectionChanged
    <3>3. QED BY <3>1, <3>2
  <2>2. CASE ~SelectionChanged
    BY <1>1, <2>2 DEF ListNext, ListLoads, ListLoaded, ListSelects, ListRetries, Unqueued
  <2>3. QED BY <2>1, <2>2
<1>2. CASE TaskNext
  <2>1. PICK t \in DOMAIN tasks : Reads(t) \/ Writes(t) \/ FetchFails(t) \/ Reports(t)
    BY <1>2 DEF TaskNext
  <2>2. UNCHANGED conv
    BY <2>1 DEF Reads, Writes, FetchFails, Reports, Beside
  <2>3. CASE Reads(t) \/ FetchFails(t)
    BY <2>2, <2>3 DEF Reads, FetchFails
  <2>4. CASE Writes(t)
    <3>1. \E do, on : do # "Anchor" /\ ToWindow(do, on)
      BY <2>4 DEF Writes
    <3>2. QED BY <2>2, <3>1 DEF ToWindow
  <2>5. CASE Reports(t)
    <3>1. \/ \E do, on : do # "Anchor" /\ ToWindow(do, on)
          \/ \E do, on : ToList(do, on) \/ ToConversation(do, on)
      BY <2>5 DEF Reports
    <3>2. QED BY <2>2, <3>1 DEF ToWindow, ToList, ToConversation
  <2>6. QED BY <2>1, <2>3, <2>4, <2>5
<1>3. CASE SyncNext
  BY <1>3 DEF SyncNext, Arrives, Vanishes, FlagsChange, Synced, ToWindow, Unqueued
<1>4. CASE UserNext
  <2>1. UNCHANGED conv
    BY <1>4
       DEF UserNext, ChooseFolder, PressMove, ChooseRow, ChooseHit, ClickNotification, Press,
           Retry, Tells, Untouched
  <2>2. ASSUME NEW do, NEW on, Tells(do, on), do # "Anchor"
        PROVE  \E e : winQ' = Append(winQ, e) /\ e.do # "Anchor"
    BY <2>2 DEF Tells
  <2>3. CASE \E u : ChooseRow(u)
    BY <2>1, <2>3 DEF ChooseRow
  <2>4. CASE Retry
    BY <2>1, <2>4 DEF Retry
  <2>5. QED
    BY <1>4, <2>1, <2>2, <2>3, <2>4
       DEF UserNext, ChooseFolder, PressMove, ChooseHit, ClickNotification, Press
<1>5. QED BY <1>1, <1>2, <1>3, <1>4

LEMMA AnchorFollowsNext == Typed /\ AnchorFollows /\ [ReaderNext]_readerVars => AnchorFollows'
<1> SUFFICES ASSUME Typed, AnchorFollows, [ReaderNext]_readerVars PROVE AnchorFollows'
  OBVIOUS
<1> USE PostIs
<1>1. /\ WindowTyped /\ ConvTypedState /\ Queue(winQ) /\ WinTyped(winQ)
      /\ Finally(winQ, "Anchor", window.anchor, ShownBy(conv))
  BY DEF Typed, WinTyped, AnchorFollows
<1>2. ASSUME UNCHANGED <<window, winQ>>, conv'.state = conv.state, conv'.selection = conv.selection
      PROVE  AnchorFollows'
  BY <1>1, <1>2 DEF AnchorFollows, ShownBy
<1>3. CASE WindowNext
  <2>1. winQ # <<>> /\ winQ' = Tail(winQ) /\ UNCHANGED conv
    BY <1>3, WindowHandles
  <2>2. CASE AnchorChanged
    <3>1. Head(winQ).do = "Anchor" /\ window'.anchor = Head(winQ).on
      BY <1>1, <2>2 DEF AnchorChanged, Turn, WindowTyped
    <3>2. Finally(Tail(winQ), "Anchor", Head(winQ).on, ShownBy(conv))
      BY <1>1, <2>1, <3>1, FinallyTakes
    <3>3. QED BY <2>1, <3>1, <3>2 DEF AnchorFollows
  <2>3. CASE ~AnchorChanged
    <3>1. Head(winQ).do # "Anchor"
      BY <1>3, <2>3
         DEF WindowNext, FolderSelected, MessageSelected, OpenMessage, FetchBody, BodyFetched,
             QueueFolderReload, FlushReloads, FoldersLoaded, Viewed, ToggleFlagged, MoveMessage,
             DeleteMessage, NothingShown, Turn
    <3>2. Finally(Tail(winQ), "Anchor", window.anchor, ShownBy(conv))
      BY <1>1, <2>1, <3>1, FinallyTakes
    <3>3. window.anchor \in ShownBy(conv) => window'.anchor \in ShownBy(conv)
      <4>1. CASE ToggleFlagged
        <5>1. window.anchor \in Anchors
          BY <1>1, <4>1 DEF WindowTyped, ToggleFlagged
        <5>2. window' = [window EXCEPT !.anchor =
                             [window.anchor EXCEPT !.flagged = ~window.anchor.flagged]]
          BY <4>1 DEF ToggleFlagged
        <5>3. window'.anchor \in Anchors /\ window'.anchor.key = window.anchor.key
          BY <1>1, <5>1, <5>2 DEF WindowTyped, Anchors
        <5>4. window.anchor # None
          BY <4>1 DEF ToggleFlagged
        <5>5. QED BY <5>3, <5>4 DEF ShownBy
      <4>2. CASE MoveMessage \/ DeleteMessage
        <5>1. window' = [window EXCEPT !.anchor = None]
          BY <4>2 DEF MoveMessage, DeleteMessage, Discard
        <5>2. QED BY <1>1, <5>1 DEF WindowTyped, ShownBy
      <4>3. CASE ~(ToggleFlagged \/ MoveMessage \/ DeleteMessage)
        <5>1. window'.anchor = window.anchor
          BY <1>1, <1>3, <2>3, <4>3
             DEF WindowNext, FolderSelected, MessageSelected, OpenMessage, FetchBody, BodyFetched,
                 QueueFolderReload, FlushReloads, FoldersLoaded, Viewed, NothingShown,
                 Unqueued, WindowTyped
        <5>2. QED BY <5>1
      <4>4. QED BY <4>1, <4>2, <4>3
    <3>4. Finally(Tail(winQ), "Anchor", window'.anchor, ShownBy(conv))
      BY <3>2, <3>3 DEF Finally
    <3>5. QED BY <2>1, <3>4 DEF AnchorFollows
  <2>4. QED BY <2>2, <2>3
<1>4. CASE ListNext \/ TaskNext \/ SyncNext \/ UserNext
  <2>1. UNCHANGED <<window, conv>>
    BY <1>4, WindowHears, AnchorsUntold
  <2>2. CASE UNCHANGED winQ
    BY <1>2, <2>1, <2>2
  <2>3. ASSUME NEW e, winQ' = Append(winQ, e), e.do # "Anchor" PROVE AnchorFollows'
    <3>1. Finally(Append(winQ, e), "Anchor", window.anchor, ShownBy(conv))
      BY <1>1, <2>3, FinallySends
    <3>2. QED BY <2>1, <2>3, <3>1 DEF AnchorFollows
  <2>4. QED BY <1>4, <2>2, <2>3, AnchorsUntold
<1>5. ASSUME winQ' = Append(winQ, Post("Anchor", None)) PROVE AnchorFollows'
  <2>1. PICK e, good : e = Post("Anchor", None) /\ good = ShownBy(conv')
    OBVIOUS
  <2>2. e.do = "Anchor" /\ e.on \in good
    BY <2>1 DEF ShownBy
  <2>3. PICK now : now = window'.anchor
    OBVIOUS
  <2>4. Finally(Append(winQ, e), "Anchor", now, good)
    BY <1>1, <2>2, FinallyMoves
  <2>5. QED BY <1>5, <2>1, <2>3, <2>4 DEF AnchorFollows
<1>6. CASE ConversationNext
  <2>1. UNCHANGED window
    BY <1>6, WindowHears
  <2>2. CASE ConversationLoads \/ ConversationClears
    BY <1>5, <2>2 DEF ConversationLoads, ConversationClears
  <2>3. CASE CardBodyFetched \/ ConversationRetries
    BY <1>2, <2>1, <2>3 DEF CardBodyFetched, ConversationRetries, Unqueued
  <2>4. CASE CardBodyLoaded
    <3>1. UNCHANGED winQ /\ (UNCHANGED conv \/ \E cards : conv' = [conv EXCEPT !.cards = cards])
      BY <2>4 DEF CardBodyLoaded
    <3>2. conv'.state = conv.state /\ conv'.selection = conv.selection
      BY <1>1, <3>1 DEF ConvTypedState
    <3>3. QED BY <1>2, <2>1, <3>1, <3>2
  <2>5. CASE ConversationLoaded
    <3>1. CASE conv.selection # Asked
      BY <1>2, <2>1, <2>5, <3>1 DEF ConversationLoaded, Asked
    <3>2. CASE conv.selection = Asked /\ Read = None
      BY <1>5, <2>5, <3>2 DEF ConversationLoaded, Asked, Read
    <3>3. CASE conv.selection = Asked /\ Read # None
      <4>1. PICK r : /\ winQ' = winQ \o <<Post("Anchor", Read.anchor)>> \o r
                     /\ WinTyped(r) /\ \A e \in Elements(r) : e.do \in {"Viewed", "FetchBody"}
        BY <2>5, <3>3, Shows
      <4>2. /\ conv' = [conv EXCEPT !.state = "Ready",
                           !.cards = [x \in DOMAIN Read.cards |->
                                          [Read.cards[x] EXCEPT !.unread = FALSE]]]
            /\ Read.anchor \in Anchors /\ Read.anchor.key = Asked
        BY <2>5, <3>3, Shows
      <4>3. conv'.state = "Ready" /\ conv'.selection = conv.selection
        BY <1>1, <4>2 DEF ConvTypedState
      <4>4. PICK e, good, now : /\ e = Post("Anchor", Read.anchor) /\ good = ShownBy(conv')
                                /\ now = window'.anchor
        OBVIOUS
      <4>5. e.do = "Anchor" /\ e.on \in good
        BY <3>3, <4>2, <4>3, <4>4 DEF ShownBy
      <4>6. /\ Queue(winQ) /\ Queue(r) /\ Queue(<<e>>) /\ Queue(winQ \o <<e>>)
            /\ Append(winQ, e) = winQ \o <<e>>
        BY <1>1, <4>1, Alone, Posted, Joined DEF WinTyped
      <4>7. Finally(Append(winQ, e), "Anchor", now, good)
        <5>1. Finally(Append(winQ, e), e.do, now, good)
          BY <4>5, <4>6, FinallyMoves
        <5>2. QED BY <4>5, <5>1
      <4>8. \A x \in Elements(r) : x.do # "Anchor"
        BY <4>1
      <4>9. Finally((winQ \o <<e>>) \o r, "Anchor", now, good)
        BY <4>6, <4>7, <4>8, FinallyKeeps
      <4>10. winQ' = (winQ \o <<e>>) \o r
        BY <4>1, <4>4
      <4>11. QED BY <4>4, <4>9, <4>10 DEF AnchorFollows
    <3>4. QED BY <3>1, <3>2, <3>3
  <2>6. QED BY <1>6, <2>2, <2>3, <2>4, <2>5 DEF ConversationNext
<1>7. CASE UNCHANGED readerVars
  BY <1>2, <1>7 DEF readerVars
<1>8. QED BY <1>3, <1>4, <1>6, <1>7 DEF ReaderNext

-----------------------------------------------------------------------------
(* Bodies that cards wait for.                                             *)

Cached(m, k) == k \in DOMAIN m /\ m[k].full
Answer(e, k) ==
    \/ e.do = "BodyFetched" /\ e.on = k
    \/ e.do = "BodyLoaded" /\ e.on.key = k

(* The body of k is not in the table, or it is asked for (by a message to  *)
(* the window or a task), or one of the messages S will show it.           *)
Coming(m, told, running, S, k) ==
    \/ ~Cached(m, k)
    \/ \E e \in told : e.do \in {"FetchBody", "BodyFetched"} /\ e.on = k
    \/ \E t \in running : t.do \in {"fetch", "body"} /\ t.on = k
    \/ \E e \in S : Answer(e, k)

BodiesFollow ==
    /\ \A k \in DOMAIN conv.cards : conv.cards[k].body = "pending" =>
           Coming(mail, Elements(winQ), DOMAIN tasks, Elements(convQ), k)
    /\ \A i \in 1 .. Len(convQ) : convQ[i].do = "BodyLoaded" /\ convQ[i].on.result = "pending" =>
           Coming(mail, Elements(winQ), DOMAIN tasks, After(convQ, i), convQ[i].on.key)

LEMMA ComingGrows ==
    ASSUME NEW m, NEW told, NEW running, NEW S, NEW k, Coming(m, told, running, S, k),
           NEW n, NEW told2, NEW running2, NEW T, Cached(n, k) => Cached(m, k),
           \A e \in told : e.do \in {"FetchBody", "BodyFetched"} /\ e.on = k => e \in told2,
           \A t \in running : t.do \in {"fetch", "body"} /\ t.on = k => t \in running2,
           S \subseteq T
    PROVE  Coming(n, told2, running2, T, k)
BY DEF Coming

LEMMA ComingStays ==
    ASSUME Typed, WindowNext \/ ListNext \/ TaskNext \/ SyncNext \/ UserNext,
           NEW k, NEW S, Coming(mail, Elements(winQ), DOMAIN tasks, S, k),
           NEW T, S \subseteq T, \A e : convQ' = Append(convQ, e) => e \in T
    PROVE  Coming(mail', Elements(winQ'), DOMAIN tasks', T, k)
<1> USE PostIs
<1>1. Queue(winQ) /\ Queue(convQ) /\ MailTyped
  BY DEF Typed, WinTyped, ConvTyped
<1>2. CASE WindowNext
  <2>1. /\ winQ # <<>> /\ winQ' = Tail(winQ) /\ UNCHANGED mail /\ DOMAIN tasks \subseteq DOMAIN tasks'
    BY <1>2, WindowHandles
  <2>2. Elements(winQ) = {Head(winQ)} \cup Elements(winQ')
    BY <1>1, <2>1, Handled
  <2>3. CASE Head(winQ).do = "FetchBody" /\ Head(winQ).on = k
    <3>1. FetchBody
      BY <1>2, <2>3
         DEF WindowNext, FolderSelected, MessageSelected, OpenMessage, BodyFetched,
             QueueFolderReload, FlushReloads, AnchorChanged, FoldersLoaded, Viewed,
             ToggleFlagged, MoveMessage, DeleteMessage, NothingShown, Turn
    <3>2. Spawn("fetch", k)
      BY <2>3, <3>1 DEF FetchBody
    <3>3. Task("fetch", k) \in DOMAIN tasks'
      BY <3>2, SpawnAdds
    <3>4. QED BY <3>3, TaskIs DEF Coming
  <2>4. CASE Head(winQ).do = "BodyFetched" /\ Head(winQ).on = k
    <3>1. BodyFetched
      BY <1>2, <2>4
         DEF WindowNext, FolderSelected, MessageSelected, OpenMessage, FetchBody,
             QueueFolderReload, FlushReloads, AnchorChanged, FoldersLoaded, Viewed,
             ToggleFlagged, MoveMessage, DeleteMessage, NothingShown, Turn
    <3>2. PICK e : e = Post("BodyFetched", k)
      OBVIOUS
    <3>3. convQ' = Append(convQ, e)
      BY <2>4, <3>1, <3>2 DEF BodyFetched, ToConversation
    <3>4. e \in T
      BY <3>3
    <3>5. e.do = "BodyFetched" /\ e.on = k
      BY <3>2
    <3>6. Answer(e, k)
      BY <3>5 DEF Answer
    <3>7. QED BY <3>4, <3>6 DEF Coming
  <2>5. CASE ~(Head(winQ).do \in {"FetchBody", "BodyFetched"} /\ Head(winQ).on = k)
    BY <2>1, <2>2, <2>5, ComingGrows
  <2>6. QED BY <2>3, <2>4, <2>5
<1>3. CASE ListNext \/ UserNext
  <2>1. UNCHANGED mail
    BY <1>3
       DEF ListNext, ListLoads, ListLoaded, ListSelects, ListRetries, SelectionChanged, UserNext,
           ChooseFolder, PressMove, ChooseRow, ChooseHit, ClickNotification, Press, Retry, Tells,
           Untouched
  <2>2. Elements(winQ) \subseteq Elements(winQ') /\ DOMAIN tasks \subseteq DOMAIN tasks'
    BY <1>3, WindowHears, TasksStay
  <2>3. QED BY <2>1, <2>2, ComingGrows
<1>4. CASE SyncNext
  <2>1. Elements(winQ) \subseteq Elements(winQ') /\ DOMAIN tasks \subseteq DOMAIN tasks'
    BY <1>4, WindowHears, TasksStay
  <2>2. PICK x \in Deliverable : Arrives(x) \/ Vanishes(x) \/ FlagsChange(x)
    BY <1>4 DEF SyncNext
  <2>3. Cached(mail', k) => Cached(mail, k)
    <3>1. CASE Arrives(x)
      BY <3>1 DEF Arrives, Cached
    <3>2. CASE Vanishes(x)
      BY <3>2 DEF Vanishes, Cached, Restrict
    <3>3. CASE FlagsChange(x)
      <4>1. x \in DOMAIN mail /\ mail[x] \in Message
        BY <1>1, <3>3 DEF FlagsChange, MailTyped
      <4>2. PICK new : mail' = [mail EXCEPT ![x] = new] /\ new.full = mail[x].full
        <5>1. mail' = [mail EXCEPT ![x] = [mail[x] EXCEPT !.unread = ~mail[x].unread]]
          BY <3>3 DEF FlagsChange
        <5>2. [mail[x] EXCEPT !.unread = ~mail[x].unread].full = mail[x].full
          BY <4>1 DEF Message
        <5>3. QED BY <5>1, <5>2
      <4>3. QED BY <1>1, <4>1, <4>2 DEF Cached, MailTyped
    <3>4. QED BY <2>2, <3>1, <3>2, <3>3
  <2>4. QED BY <2>1, <2>3, ComingGrows
<1>5. CASE TaskNext
  <2>1. PICK t \in DOMAIN tasks : Reads(t) \/ Writes(t) \/ FetchFails(t) \/ Reports(t)
    BY <1>5 DEF TaskNext
  <2>2. DOMAIN tasks \subseteq DOMAIN tasks' \cup {t}
    BY <2>1, OthersRun
  <2>3. Elements(winQ) \subseteq Elements(winQ')
    BY <1>5, WindowHears
  <2>4. ASSUME Cached(mail', k) => Cached(mail, k), ~(t.do \in {"fetch", "body"} /\ t.on = k)
        PROVE  Coming(mail', Elements(winQ'), DOMAIN tasks', T, k)
    BY <2>2, <2>3, <2>4, ComingGrows
  <2>5. CASE Reads(t)
    BY <2>4, <2>5 DEF Reads
  <2>6. CASE Writes(t)
    <3>1. CASE t.do = "flags" /\ mail' = FlagsWritten(t.on)
      <4>1. TaskTyped(t, list.seq)
        BY DEF Typed
      <4>2. t.on.field \in {"unread", "flagged"}
        BY <3>1, <4>1 DEF TaskTyped
      <4>3. \A x \in DOMAIN mail : [mail[x] EXCEPT ![t.on.field] = t.on.to].full = mail[x].full
        BY <1>1, <4>2 DEF MailTyped, Message
      <4>4. DOMAIN mail' = DOMAIN mail /\ \A x \in DOMAIN mail : mail'[x].full = mail[x].full
        BY <3>1, <4>3 DEF FlagsWritten
      <4>5. QED BY <2>4, <3>1, <4>4 DEF Cached
    <3>2. CASE t.do = "remove" /\ mail' = Restrict(mail, DOMAIN mail \ {t.on})
      BY <2>4, <3>2 DEF Cached, Restrict
    <3>3. CASE t.do = "fetch" /\ t.on \in DOMAIN mail /\ ToWindow("BodyFetched", t.on)
               /\ mail' = [mail EXCEPT ![t.on].full = TRUE]
      <4>1. CASE t.on = k
        <5>1. Post("BodyFetched", k) \in Elements(winQ')
          BY <1>1, <3>3, <4>1, Sent DEF ToWindow
        <5>2. QED BY <5>1 DEF Coming
      <4>2. CASE t.on # k
        <5>1. PICK new : mail' = [mail EXCEPT ![t.on] = new]
          BY <3>3
        <5>2. QED BY <1>1, <2>4, <4>2, <5>1 DEF Cached, MailTyped
      <4>3. QED BY <4>1, <4>2
    <3>4. CASE t.do \in {"flags", "remove"} /\ UNCHANGED mail
      BY <2>4, <3>4
    <3>5. QED BY <2>6, <3>1, <3>2, <3>3, <3>4 DEF Writes
  <2>7. CASE FetchFails(t)
    <3>1. t.on \notin DOMAIN mail /\ UNCHANGED mail
      BY <2>7 DEF FetchFails
    <3>2. CASE t.on = k
      BY <3>1, <3>2 DEF Coming, Cached
    <3>3. CASE t.on # k
      BY <2>4, <3>1, <3>3
    <3>4. QED BY <3>2, <3>3
  <2>8. CASE Reports(t)
    <3>1. UNCHANGED mail
      BY <2>8 DEF Reports
    <3>2. CASE t.do = "body" /\ t.on = k
      <4>1. ToConversation("BodyLoaded", [key |-> k, result |-> Status(k)])
        BY <2>8, <3>2 DEF Reports, Has
      <4>2. PICK e : e.do = "BodyLoaded" /\ e.on.key = k /\ convQ' = Append(convQ, e)
        BY <4>1 DEF ToConversation
      <4>3. e \in T
        BY <4>2
      <4>4. QED BY <4>2, <4>3 DEF Coming, Answer
    <3>3. CASE ~(t.do = "body" /\ t.on = k)
      <4>1. t.do # "fetch"
        BY <2>8 DEF Reports, Has
      <4>2. QED BY <2>4, <3>1, <3>3, <4>1
    <3>4. QED BY <3>2, <3>3
  <2>9. QED BY <2>1, <2>5, <2>6, <2>7, <2>8
<1>6. QED BY <1>2, <1>3, <1>4, <1>5

LEMMA StatusIs == \A k : Status(k) = "pending" => ~Cached(mail, k)
BY DEF Status, Cached

(* A handler of the conversation takes its message.                        *)
LEMMA ConversationHandles ==
    ASSUME Typed, ConversationNext
    PROVE  /\ convQ # <<>> /\ UNCHANGED mail /\ Elements(winQ) \subseteq Elements(winQ')
           /\ DOMAIN tasks \subseteq DOMAIN tasks'
           /\ \/ convQ' = Tail(convQ)
              \/ \E e : convQ' = Append(Tail(convQ), e) /\ e.do = "Load"
<1>1. convQ # <<>> /\ UNCHANGED mail
  BY DEF ConversationNext, ConversationLoads, ConversationLoaded, CardBodyFetched,
         CardBodyLoaded, ConversationClears, ConversationRetries, Turn
<1>2. Elements(winQ) \subseteq Elements(winQ') /\ DOMAIN tasks \subseteq DOMAIN tasks'
  BY WindowHears, TasksStay
<1>3. PICK rest : rest = Tail(convQ)
  OBVIOUS
<1>4. Queue(rest)
  BY <1>1, <1>3, Handled DEF Typed, ConvTyped
<1>5. rest \o <<>> = rest
  BY <1>4 DEF Queue
<1>6. CASE ConversationRetries
  <2>1. PICK e : e = Post("Load", conv.selection)
    OBVIOUS
  <2>2. convQ' = rest \o <<>> \/ convQ' = rest \o <<e>>
    BY <1>3, <1>6, <2>1 DEF ConversationRetries
  <2>3. Append(rest, e) = rest \o <<e>> /\ e.do = "Load"
    BY <1>4, <2>1, Posted, PostIs
  <2>4. QED BY <1>1, <1>2, <1>3, <1>5, <2>2, <2>3
<1>7. CASE ~ConversationRetries
  <2>1. convQ' = Tail(convQ)
    BY <1>7
       DEF ConversationNext, ConversationLoads, ConversationLoaded, CardBodyFetched,
           CardBodyLoaded, ConversationClears
  <2>2. QED BY <1>1, <1>2, <2>1
<1>8. QED BY <1>6, <1>7

(* A conversation that is shown asks for the bodies it has not.            *)
LEMMA ShowsAsks ==
    ASSUME Typed, ConversationLoaded, conv.selection = Asked, Read # None,
           NEW k \in DOMAIN Read.cards, Read.cards[k].body = "pending"
    PROVE  Post("FetchBody", k) \in Elements(winQ')
<1>1. PICK r : /\ winQ' = winQ \o <<Post("Anchor", Read.anchor)>> \o r
               /\ WinTyped(r) /\ \A e \in Elements(r) : e.do \in {"Viewed", "FetchBody"}
               /\ \A x \in DOMAIN Read.cards :
                      Read.cards[x].body = "pending" => Post("FetchBody", x) \in Elements(r)
  BY Shows
<1>2. Queue(winQ) /\ Queue(r)
  BY <1>1 DEF Typed, WinTyped
<1>3. Queue(winQ \o <<Post("Anchor", Read.anchor)>>)
  BY <1>2, Alone, Joined
<1>4. Elements(r) \subseteq Elements(winQ')
  BY <1>1, <1>2, <1>3, Joined
<1>5. QED BY <1>1, <1>4

LEMMA BodiesFollowConversation == Typed /\ BodiesFollow /\ ConversationNext => BodiesFollow'
<1> SUFFICES ASSUME Typed, BodiesFollow, ConversationNext PROVE BodiesFollow'
  OBVIOUS
<1> USE PostIs
<1>1. Queue(convQ) /\ Queue(winQ) /\ ConvTypedState
  BY DEF Typed, ConvTyped, WinTyped
<1>2. /\ convQ # <<>> /\ UNCHANGED mail /\ Elements(winQ) \subseteq Elements(winQ')
      /\ DOMAIN tasks \subseteq DOMAIN tasks'
      /\ \/ convQ' = Tail(convQ)
         \/ \E e : convQ' = Append(Tail(convQ), e) /\ e.do = "Load"
  BY ConversationHandles
<1>3. PICK rest : rest = Tail(convQ)
  OBVIOUS
<1>4. /\ Queue(rest) /\ Len(rest) = Len(convQ) - 1 /\ Len(convQ) \in Nat \ {0}
      /\ Elements(convQ) = {Head(convQ)} \cup Elements(rest)
      /\ Head(convQ) = convQ[1] /\ After(convQ, 1) = Elements(rest)
      /\ \A i \in 1 .. Len(rest) : rest[i] = convQ[i + 1]
      /\ \A i \in 0 .. Len(rest) : After(rest, i) = After(convQ, i + 1)
  BY <1>1, <1>2, <1>3, Handled
<1>5. /\ Elements(rest) \subseteq Elements(convQ')
      /\ \A i \in 1 .. Len(convQ') : convQ'[i].do = "BodyLoaded" =>
             i \in 1 .. Len(rest) /\ convQ'[i] = rest[i] /\ After(rest, i) \subseteq After(convQ', i)
  <2>1. CASE convQ' = rest
    BY <2>1
  <2>2. ASSUME NEW e, convQ' = Append(rest, e), e.do = "Load" PROVE <1>5!1 /\ <1>5!2
    <3>1. /\ Len(Append(rest, e)) = Len(rest) + 1 /\ Len(rest) \in Nat
          /\ Elements(Append(rest, e)) = Elements(rest) \cup {e}
          /\ \A i \in 1 .. Len(rest) : Append(rest, e)[i] = rest[i]
          /\ \A i \in 0 .. Len(rest) : After(Append(rest, e), i) = After(rest, i) \cup {e}
          /\ Append(rest, e)[Len(rest) + 1] = e
      BY <1>4, Sent
    <3>2. ASSUME NEW i \in 1 .. Len(rest) + 1, Append(rest, e)[i].do = "BodyLoaded"
          PROVE  i \in 1 .. Len(rest)
      BY <2>2, <3>1, <3>2
    <3>3. QED BY <2>2, <3>1, <3>2
  <2>3. QED BY <1>2, <1>3, <2>1, <2>2
<1>6. \A i \in 1 .. Len(convQ') :
          convQ'[i].do = "BodyLoaded" /\ convQ'[i].on.result = "pending" =>
              Coming(mail', Elements(winQ'), DOMAIN tasks', After(convQ', i), convQ'[i].on.key)
  <2>1. SUFFICES ASSUME NEW i \in 1 .. Len(convQ'), convQ'[i].do = "BodyLoaded",
                        convQ'[i].on.result = "pending"
                 PROVE  Coming(mail', Elements(winQ'), DOMAIN tasks', After(convQ', i),
                               convQ'[i].on.key)
    OBVIOUS
  <2>2. i \in 1 .. Len(rest) /\ convQ'[i] = rest[i] /\ After(rest, i) \subseteq After(convQ', i)
    BY <1>5, <2>1
  <2>3. /\ i + 1 \in 1 .. Len(convQ) /\ convQ'[i] = convQ[i + 1]
        /\ After(convQ, i + 1) \subseteq After(convQ', i)
    BY <1>4, <2>2
  <2>4. PICK k : k = convQ[i + 1].on.key
    OBVIOUS
  <2>5. Coming(mail, Elements(winQ), DOMAIN tasks, After(convQ, i + 1), k)
    BY <2>1, <2>3, <2>4 DEF BodiesFollow
  <2>6. Coming(mail', Elements(winQ'), DOMAIN tasks', After(convQ', i), k)
    BY <1>2, <2>3, <2>5, ComingGrows
  <2>7. QED BY <2>3, <2>4, <2>6
<1>7. ASSUME NEW k, Coming(mail, Elements(winQ), DOMAIN tasks, Elements(convQ), k),
             ~Answer(Head(convQ), k)
      PROVE  Coming(mail', Elements(winQ'), DOMAIN tasks', Elements(convQ'), k)
  <2>1. Coming(mail, Elements(winQ), DOMAIN tasks, Elements(rest), k)
    BY <1>4, <1>7 DEF Coming
  <2>2. QED BY <1>2, <1>5, <2>1, ComingGrows
<1>8. \A k \in DOMAIN conv'.cards : conv'.cards[k].body = "pending" =>
          Coming(mail', Elements(winQ'), DOMAIN tasks', Elements(convQ'), k)
  <2>1. SUFFICES ASSUME NEW k \in DOMAIN conv'.cards, conv'.cards[k].body = "pending"
                 PROVE  Coming(mail', Elements(winQ'), DOMAIN tasks', Elements(convQ'), k)
    OBVIOUS
  <2>2. CASE ConversationLoads \/ ConversationClears
    <3>1. DOMAIN conv'.cards = {}
      BY <2>2 DEF ConversationLoads, ConversationClears, NoConversation
    <3>2. QED BY <2>1, <3>1
  <2>3. k \in DOMAIN conv.cards /\ conv.cards[k].body = "pending" =>
            Coming(mail, Elements(winQ), DOMAIN tasks, Elements(convQ), k)
    BY DEF BodiesFollow
  <2>4. CASE ConversationRetries
    <3>1. UNCHANGED conv /\ Head(convQ).do = "Retry"
      BY <2>4 DEF ConversationRetries, Turn, Unqueued
    <3>2. ~Answer(Head(convQ), k)
      BY <3>1 DEF Answer
    <3>3. QED BY <1>7, <2>1, <2>3, <3>1, <3>2
  <2>5. CASE CardBodyFetched
    <3>1. UNCHANGED conv /\ Head(convQ).do = "BodyFetched"
      BY <2>5 DEF CardBodyFetched, Turn, Unqueued
    <3>2. CASE Head(convQ).on = k
      <4>1. Spawn("body", k)
        BY <2>1, <2>5, <3>1, <3>2 DEF CardBodyFetched
      <4>2. Task("body", k) \in DOMAIN tasks'
        BY <4>1, SpawnAdds
      <4>3. QED BY <4>2, TaskIs DEF Coming
    <3>3. CASE Head(convQ).on # k
      <4>1. ~Answer(Head(convQ), k)
        BY <3>1, <3>3 DEF Answer
      <4>2. QED BY <1>7, <2>1, <2>3, <3>1, <4>1
    <3>4. QED BY <3>2, <3>3
  <2>6. CASE CardBodyLoaded
    <3>1. Head(convQ).do = "BodyLoaded"
      BY <2>6 DEF CardBodyLoaded, Turn
    <3>2. CASE Head(convQ).on.key = k
      <4>1. PICK x, result : x = k /\ result = Head(convQ).on.result
        OBVIOUS
      <4>2. CASE x \notin DOMAIN conv.cards
        <5>1. UNCHANGED conv
          BY <2>6, <3>2, <4>1, <4>2 DEF CardBodyLoaded
        <5>2. QED BY <2>1, <4>1, <4>2, <5>1
      <4>3. CASE x \in DOMAIN conv.cards
        <5>1. conv' = [conv EXCEPT !.cards =
                           [conv.cards EXCEPT ![x] = [conv.cards[x] EXCEPT !.body = result]]]
          BY <2>6, <3>2, <4>1, <4>3 DEF CardBodyLoaded
        <5>2. conv.cards[x] = [unread |-> conv.cards[x].unread, body |-> conv.cards[x].body]
          BY <1>1, <4>3 DEF ConvTypedState
        <5>3. [conv.cards[x] EXCEPT !.body = result].body = result
          BY <5>2
        <5>4. conv'.cards[x] = [conv.cards[x] EXCEPT !.body = result]
          BY <1>1, <4>3, <5>1 DEF ConvTypedState
        <5>5. result = "pending"
          BY <2>1, <4>1, <5>3, <5>4
        <5>6. 1 \in 1 .. Len(convQ) /\ convQ[1].do = "BodyLoaded"
              /\ convQ[1].on.result = "pending" /\ convQ[1].on.key = k
          BY <1>4, <3>1, <3>2, <4>1, <5>5
        <5>7. Coming(mail, Elements(winQ), DOMAIN tasks, After(convQ, 1), k)
          BY <5>6 DEF BodiesFollow
        <5>8. After(convQ, 1) \subseteq Elements(convQ')
          BY <1>4, <1>5
        <5>9. QED BY <1>2, <5>7, <5>8, ComingGrows
      <4>4. QED BY <4>2, <4>3
    <3>3. CASE Head(convQ).on.key # k
      <4>1. ~Answer(Head(convQ), k)
        BY <3>1, <3>3 DEF Answer
      <4>2. k \in DOMAIN conv.cards /\ conv.cards[k].body = "pending"
        <5>1. CASE UNCHANGED conv
          BY <2>1, <5>1
        <5>2. ASSUME NEW x, x # k, NEW card, conv' = [conv EXCEPT !.cards = [conv.cards EXCEPT ![x] = card]]
              PROVE  k \in DOMAIN conv.cards /\ conv.cards[k].body = "pending"
          <6>1. conv'.cards = [conv.cards EXCEPT ![x] = card]
            BY <1>1, <5>2 DEF ConvTypedState
          <6>2. DOMAIN conv'.cards = DOMAIN conv.cards
            BY <6>1
          <6>3. k \in DOMAIN conv.cards /\ conv'.cards[k] = conv.cards[k]
            BY <1>1, <2>1, <5>2, <6>1, <6>2 DEF ConvTypedState
          <6>4. QED BY <2>1, <6>3
        <5>3. PICK x : x = Head(convQ).on.key /\ x # k
          BY <3>3
        <5>4. \/ UNCHANGED conv
              \/ conv' = [conv EXCEPT !.cards = [conv.cards EXCEPT ![x] =
                              [conv.cards[x] EXCEPT !.body = Head(convQ).on.result]]]
          BY <2>6, <5>3 DEF CardBodyLoaded
        <5>5. QED BY <5>1, <5>2, <5>3, <5>4
      <4>3. QED BY <1>7, <2>3, <4>1, <4>2
    <3>4. QED BY <3>2, <3>3
  <2>7. CASE ConversationLoaded
    <3>1. Head(convQ).do = "Loaded"
      BY <2>7 DEF ConversationLoaded, Turn
    <3>2. ~Answer(Head(convQ), k)
      BY <3>1 DEF Answer
    <3>3. CASE conv.selection # Asked
      <4>1. UNCHANGED conv
        BY <2>7, <3>3 DEF ConversationLoaded, Asked
      <4>2. QED BY <1>7, <2>1, <2>3, <3>2, <4>1
    <3>4. CASE conv.selection = Asked /\ Read = None
      <4>1. conv' = [conv EXCEPT !.state = "Error", !.cards = <<>>]
        BY <2>7, <3>4 DEF ConversationLoaded, Asked, Read
      <4>2. conv'.cards = <<>>
        BY <1>1, <4>1 DEF ConvTypedState
      <4>3. QED BY <2>1, <4>2
    <3>5. CASE conv.selection = Asked /\ Read # None
      <4>2. /\ conv' = [conv EXCEPT !.state = "Ready",
                           !.cards = [x \in DOMAIN Read.cards |->
                                          [Read.cards[x] EXCEPT !.unread = FALSE]]]
            /\ \A x \in DOMAIN Read.cards :
                   Read.cards[x] = [unread |-> Read.cards[x].unread, body |-> Read.cards[x].body]
        BY <2>7, <3>5, Shows
      <4>3. conv'.cards = [x \in DOMAIN Read.cards |-> [Read.cards[x] EXCEPT !.unread = FALSE]]
        BY <1>1, <4>2 DEF ConvTypedState
      <4>4. k \in DOMAIN Read.cards /\ conv'.cards[k] = [Read.cards[k] EXCEPT !.unread = FALSE]
        BY <2>1, <4>3
      <4>5. Read.cards[k].body = "pending"
        <5>1. PICK u, b : Read.cards[k] = [unread |-> u, body |-> b]
          BY <4>2, <4>4
        <5>2. [[unread |-> u, body |-> b] EXCEPT !.unread = FALSE].body = b
          OBVIOUS
        <5>3. conv'.cards[k].body = b
          BY <4>4, <5>1, <5>2, Zenon
        <5>4. QED BY <2>1, <5>1, <5>3
      <4>6. Post("FetchBody", k) \in Elements(winQ')
        BY <2>7, <3>5, <4>4, <4>5, ShowsAsks
      <4>7. PICK e : e = Post("FetchBody", k)
        OBVIOUS
      <4>8. e \in Elements(winQ') /\ e.do = "FetchBody" /\ e.on = k
        BY <4>6, <4>7
      <4>9. QED BY <4>8 DEF Coming
    <3>6. QED BY <3>3, <3>4, <3>5
  <2>8. QED BY <2>2, <2>4, <2>5, <2>6, <2>7 DEF ConversationNext
<1>9. QED BY <1>6, <1>8 DEF BodiesFollow

(* What a step of the others gives to the conversation.                    *)
LEMMA ConversationTold ==
    ASSUME Typed, WindowNext \/ ListNext \/ TaskNext \/ SyncNext \/ UserNext
    PROVE  \/ UNCHANGED convQ
           \/ \E e : /\ convQ' = Append(convQ, e)
                     /\ e.do = "BodyLoaded" /\ e.on.result = "pending" => ~Cached(mail', e.on.key)
<1>1. ASSUME NEW do, NEW on, convQ' = Append(convQ, Post(do, on)), do # "BodyLoaded"
      PROVE  \E e : /\ convQ' = Append(convQ, e)
                    /\ e.do = "BodyLoaded" /\ e.on.result = "pending" => ~Cached(mail', e.on.key)
  <2>1. PICK e : e = Post(do, on)
    OBVIOUS
  <2>2. e.do # "BodyLoaded"
    BY <1>1, <2>1, PostIs
  <2>3. QED BY <1>1, <2>1, <2>2
<1>2. CASE WindowNext
  <2>1. \/ UNCHANGED convQ
        \/ \E on : convQ' = Append(convQ, Post("Load", on))
        \/ \E on : convQ' = Append(convQ, Post("BodyFetched", on))
        \/ \E on : convQ' = Append(convQ, Post("Clear", on))
    BY <1>2
       DEF WindowNext, FolderSelected, MessageSelected, OpenMessage, FetchBody, BodyFetched,
           QueueFolderReload, FlushReloads, AnchorChanged, FoldersLoaded, Viewed, ToggleFlagged,
           MoveMessage, DeleteMessage, NothingShown, Discard
  <2>2. QED BY <1>1, <2>1
<1>3. CASE ListNext
  BY <1>3 DEF ListNext, ListLoads, ListLoaded, ListSelects, ListRetries, SelectionChanged
<1>4. CASE SyncNext
  BY <1>4 DEF SyncNext, Arrives, Vanishes, FlagsChange, Synced, ToWindow
<1>5. CASE UserNext
  <2>1. UNCHANGED convQ \/ \E on : convQ' = Append(convQ, Post("Retry", on))
    BY <1>5
       DEF UserNext, ChooseFolder, PressMove, ChooseRow, ChooseHit, ClickNotification, Press,
           Retry, Tells, Untouched
  <2>2. QED BY <1>1, <2>1
<1>6. CASE TaskNext
  <2>1. PICK t \in DOMAIN tasks : Reads(t) \/ Writes(t) \/ FetchFails(t) \/ Reports(t)
    BY <1>6 DEF TaskNext
  <2>2. CASE Reads(t) \/ Writes(t) \/ FetchFails(t)
    BY <2>2 DEF Reads, Writes, FetchFails, ToWindow, Tells
  <2>3. CASE Reports(t)
    <3>1. UNCHANGED mail
      BY <2>3 DEF Reports
    <3>2. \/ UNCHANGED convQ
          \/ \E on : convQ' = Append(convQ, Post("Loaded", on))
          \/ \E k : convQ' = Append(convQ, Post("BodyLoaded", [key |-> k, result |-> Status(k)]))
      BY <2>3 DEF Reports, ToWindow, ToList, ToConversation
    <3>3. ASSUME NEW k, convQ' = Append(convQ, Post("BodyLoaded", [key |-> k, result |-> Status(k)]))
          PROVE  \E e : /\ convQ' = Append(convQ, e)
                        /\ e.do = "BodyLoaded" /\ e.on.result = "pending" => ~Cached(mail', e.on.key)
      <4>1. PICK on : on = [key |-> k, result |-> Status(k)]
        OBVIOUS
      <4>2. PICK e : e = Post("BodyLoaded", on) /\ e.on = on
        BY PostIs
      <4>3. e.on.result = "pending" => ~Cached(mail', e.on.key)
        <5>1. on.key = k /\ on.result = Status(k)
          BY <4>1
        <5>2. QED BY <3>1, <4>2, <5>1, StatusIs
      <4>4. QED BY <3>3, <4>1, <4>2, <4>3
    <3>4. QED BY <1>1, <3>2, <3>3
  <2>4. QED BY <2>1, <2>2, <2>3
<1>7. QED BY <1>2, <1>3, <1>4, <1>5, <1>6

(* The conversation is left alone, and no body comes to be lost.           *)
LEMMA BodiesFollowNext == Typed /\ BodiesFollow /\ [ReaderNext]_readerVars => BodiesFollow'
<1> SUFFICES ASSUME Typed, BodiesFollow, [ReaderNext]_readerVars PROVE BodiesFollow'
  OBVIOUS
<1>1. CASE ConversationNext
  BY <1>1, BodiesFollowConversation
<1>2. CASE UNCHANGED readerVars
  BY <1>2 DEF readerVars, BodiesFollow
<1>3. CASE WindowNext \/ ListNext \/ TaskNext \/ SyncNext \/ UserNext
  <2>1. UNCHANGED conv
    BY <1>3, WindowHandles, AnchorsUntold
  <2>2. Queue(convQ)
    BY DEF Typed, ConvTyped
  <2>3. \/ UNCHANGED convQ
        \/ \E e : /\ convQ' = Append(convQ, e)
                  /\ e.do = "BodyLoaded" /\ e.on.result = "pending" => ~Cached(mail', e.on.key)
    BY <1>3, ConversationTold
  <2>4. ASSUME NEW e, convQ' = Append(convQ, e)
        PROVE  /\ Len(convQ') = Len(convQ) + 1 /\ convQ'[Len(convQ')] = e
               /\ Elements(convQ) \subseteq Elements(convQ') /\ e \in Elements(convQ')
               /\ \A i \in 1 .. Len(convQ) : convQ'[i] = convQ[i]
               /\ \A i \in 1 .. Len(convQ) : After(convQ, i) \subseteq After(convQ', i)
               /\ \A i \in 1 .. Len(convQ) : e \in After(convQ', i)
    <3>1. PICK q : q = Append(convQ, e)
      OBVIOUS
    <3>2. /\ Len(q) = Len(convQ) + 1 /\ q[Len(q)] = e
          /\ Elements(convQ) \subseteq Elements(q) /\ e \in Elements(q)
          /\ \A i \in 1 .. Len(convQ) : q[i] = convQ[i]
          /\ \A i \in 1 .. Len(convQ) : After(convQ, i) \subseteq After(q, i)
          /\ \A i \in 1 .. Len(convQ) : e \in After(q, i)
      BY <2>2, <3>1, Sent
    <3>3. q = convQ'
      BY <2>4, <3>1
    <3>4. QED BY <3>2, <3>3
  <2>5. Len(convQ) \in Nat
    BY <2>2, QueueIs
  <2>6. \A e : convQ' = Append(convQ, e) =>
            e \in Elements(convQ') /\ \A i \in 1 .. Len(convQ) : e \in After(convQ', i)
    BY <2>4
  <2>7. /\ Elements(convQ) \subseteq Elements(convQ')
        /\ \A i \in 1 .. Len(convQ) : convQ'[i] = convQ[i]
        /\ \A i \in 1 .. Len(convQ) : After(convQ, i) \subseteq After(convQ', i)
    <3>1. CASE UNCHANGED convQ
      BY <3>1
    <3>2. QED BY <2>3, <2>4, <3>1
  <2>8. ASSUME NEW k \in DOMAIN conv'.cards, conv'.cards[k].body = "pending"
        PROVE  Coming(mail', Elements(winQ'), DOMAIN tasks', Elements(convQ'), k)
    <3>1. Coming(mail, Elements(winQ), DOMAIN tasks, Elements(convQ), k)
      BY <2>1, <2>8 DEF BodiesFollow
    <3>2. QED BY <1>3, <2>6, <2>7, <3>1, ComingStays
  <2>9. ASSUME NEW i \in 1 .. Len(convQ'), convQ'[i].do = "BodyLoaded",
               convQ'[i].on.result = "pending"
        PROVE  Coming(mail', Elements(winQ'), DOMAIN tasks', After(convQ', i), convQ'[i].on.key)
    <3>1. CASE i \in 1 .. Len(convQ)
      <4>1. PICK k : k = convQ[i].on.key
        OBVIOUS
      <4>2. Coming(mail, Elements(winQ), DOMAIN tasks, After(convQ, i), k)
        BY <2>7, <2>9, <3>1, <4>1 DEF BodiesFollow
      <4>3. After(convQ, i) \subseteq After(convQ', i)
            /\ \A e : convQ' = Append(convQ, e) => e \in After(convQ', i)
        BY <2>6, <2>7, <3>1
      <4>4. Coming(mail', Elements(winQ'), DOMAIN tasks', After(convQ', i), k)
        BY <1>3, <4>2, <4>3, ComingStays
      <4>5. QED BY <2>7, <3>1, <4>1, <4>4
    <3>2. CASE i \notin 1 .. Len(convQ)
      <4>1. PICK e : /\ convQ' = Append(convQ, e)
                     /\ e.do = "BodyLoaded" /\ e.on.result = "pending" => ~Cached(mail', e.on.key)
        <5>1. convQ' # convQ
          BY <2>9, <3>2
        <5>2. QED BY <2>3, <5>1
      <4>2. Len(convQ') = Len(convQ) + 1 /\ convQ'[Len(convQ')] = e
        BY <2>4, <4>1
      <4>3. i = Len(convQ') /\ convQ'[i] = e
        BY <2>5, <2>9, <3>2, <4>2
      <4>4. ~Cached(mail', convQ'[i].on.key)
        BY <2>9, <4>1, <4>3
      <4>5. QED BY <4>4 DEF Coming
    <3>3. QED BY <3>1, <3>2
  <2>10. QED BY <2>8, <2>9 DEF BodiesFollow
<1>4. QED BY <1>1, <1>2, <1>3 DEF ReaderNext

-----------------------------------------------------------------------------
(* Once nothing is under way, the anchor is that of the conversation       *)
(* shown, and no card waits for a body that the store has: the body of     *)
(* each was asked for, and the answer was taken (ConversationMsg::Loaded,  *)
(* BodyFetched and BodyLoaded).                                            *)
THEOREM ConversationShown == ReaderSpec => []ConversationSettles
<1> DEFINE Inv == AnchorFollows /\ BodiesFollow
<1>1. ReaderInit => Inv
  <2> SUFFICES ASSUME ReaderInit PROVE Inv
    OBVIOUS
  <2>1. winQ = <<>> /\ convQ = <<>> /\ window.anchor = None /\ DOMAIN conv.cards = {}
    BY DEF ReaderInit, NoConversation
  <2>2. None \in ShownBy(conv) /\ Len(<<>>) = 0
    BY DEF ShownBy
  <2>3. AnchorFollows
    BY <2>1, <2>2 DEF AnchorFollows, Finally
  <2>4. BodiesFollow
    BY <2>1, <2>2 DEF BodiesFollow
  <2>5. QED BY <2>3, <2>4
<1>2. Typed /\ Inv /\ [ReaderNext]_readerVars => Inv'
  BY AnchorFollowsNext, BodiesFollowNext
<1>3. Typed /\ Inv => ConversationSettles
  <2> SUFFICES ASSUME Inv, Quiet PROVE AnchorIsShown /\ NoBodyAwaited
    BY DEF ConversationSettles
  <2>1. /\ Elements(winQ) = {} /\ Elements(convQ) = {} /\ DOMAIN tasks = {}
        /\ Silent(winQ, 0, "Anchor")
    BY NothingQueued DEF Quiet, Silent
  <2>2. AnchorIsShown
    <3>1. window.anchor \in ShownBy(conv)
      BY <2>1 DEF AnchorFollows, Finally
    <3>2. QED BY <3>1 DEF ShownBy, AnchorIsShown
  <2>3. ASSUME NEW k \in DOMAIN conv.cards, conv.cards[k].body = "pending"
        PROVE  Status(k) # "ready"
    <3>1. Coming(mail, Elements(winQ), DOMAIN tasks, Elements(convQ), k)
      BY <2>3 DEF BodiesFollow
    <3>2. ~Cached(mail, k)
      BY <2>1, <3>1 DEF Coming
    <3>3. QED BY <3>2 DEF Cached, Status
  <2>4. QED BY <2>2, <2>3 DEF NoBodyAwaited
<1>4. QED BY <1>1, <1>2, <1>3, ReaderTyped, PTL DEF ReaderSpec

-----------------------------------------------------------------------------
(* Writing mail.                                                           *)
ComposerShape ==
    /\ composer = [msg |-> composer.msg, ver |-> composer.ver, account |-> composer.account,
                   ref |-> composer.ref, initial |-> composer.initial,
                   shown |-> composer.shown, ready |-> composer.ready]
    /\ composer.account \in Accounts
FoldersTyped ==
    /\ nextUid \in [Accounts -> Nat] /\ drafts = [a \in Accounts |-> drafts[a]]
    /\ \A a \in Accounts : \A u \in DOMAIN drafts[a] : u \in Nat /\ u < nextUid[a]
JobsTyped == jobs = [a \in Accounts |-> jobs[a]] /\ \A a \in Accounts : Queue(jobs[a])
AskTyped(e) == e.do \in {"SaveDraft", "DraftReady"} => e.on.account \in Accounts
AsksTyped ==
    /\ Queue(draftQ) /\ \A e \in Elements(draftQ) : AskTyped(e)
    /\ \A d \in resolving : d.account \in Accounts
WritingTyped ==
    /\ composer # None => ComposerShape
    /\ FoldersTyped /\ JobsTyped /\ AsksTyped /\ muddled \in BOOLEAN

(* A reference u into a's Drafts folder is to a draft of m, or to one that *)
(* is gone; or to one whose message the outbox has.                        *)
OfMessage(folders, next, a, u, m) ==
    /\ a \in Accounts /\ u \in Nat /\ u < next[a]
    /\ u \in DOMAIN folders[a] => folders[a][u].msg = m
HandedOver(folders, next, box, a, u) ==
    /\ a \in Accounts /\ u \in Nat /\ u < next[a]
    /\ u \in DOMAIN folders[a] => folders[a][u].msg \in DOMAIN box
RefOwn(folders, next, ref, m) == ref # None => OfMessage(folders, next, ref.account, ref.uid, m)
AtHome(draft) == draft.ref # None => draft.ref.account = draft.account

AskOwn(folders, next, e) ==
    /\ e.do \in {"SaveDraft", "DraftReady"} => RefOwn(folders, next, e.on.ref, e.on.msg)
    /\ e.do = "SaveDraft" => AtHome(e.on)
    /\ e.do = "DraftSaved" => OfMessage(folders, next, e.on.account, e.on.uid, e.on.msg)
JobOwn(folders, next, box, a, j) ==
    /\ j.do = "AppendDraft" /\ j.replace # None => OfMessage(folders, next, a, j.replace, j.msg)
    /\ j.do = "DeleteDraft" => HandedOver(folders, next, box, a, j.uid)

ComposerOwn ==
    composer # None => /\ RefOwn(drafts, nextUid, composer.ref, composer.msg)
                       /\ RefOwn(drafts, nextUid, composer.initial, composer.msg)
QueueOwn == \A e \in Elements(draftQ) : AskOwn(drafts, nextUid, e)
ResolvingOwn == \A d \in resolving : RefOwn(drafts, nextUid, d.ref, d.msg) /\ AtHome(d)
JobsOwn ==
    \A a \in Accounts : \A j \in Elements(jobs[a]) : JobOwn(drafts, nextUid, outbox, a, j)
PendingOwn ==
    pendingDraft # None =>
        HandedOver(drafts, nextUid, outbox, pendingDraft.account, pendingDraft.uid)
HasVersion(folders, m) == \E a \in Accounts : \E u \in DOMAIN folders[a] : folders[a][u].msg = m
SavedKept == \A m \in saved : HasVersion(drafts, m) \/ m \in DOMAIN outbox
Own == ComposerOwn /\ QueueOwn /\ ResolvingOwn /\ JobsOwn /\ PendingOwn /\ SavedKept
DraftInv == WritingTyped /\ (muddled \/ Own)

(* A draft never comes back, nor changes its message; a message handed     *)
(* over stays: so what a reference is to lasts.                            *)
Grows(folders, next, box, new, after, more) ==
    /\ \A a \in Accounts : next[a] <= after[a]
    /\ \A a \in Accounts : \A u \in DOMAIN new[a] :
           u < next[a] => u \in DOMAIN folders[a] /\ new[a][u].msg = folders[a][u].msg
    /\ DOMAIN box \subseteq DOMAIN more

LEMMA Lasts ==
    ASSUME NEW folders, NEW next \in [Accounts -> Nat], NEW box, NEW new,
           NEW after \in [Accounts -> Nat], NEW more, Grows(folders, next, box, new, after, more)
    PROVE  /\ \A a, u, m : OfMessage(folders, next, a, u, m) => OfMessage(new, after, a, u, m)
           /\ \A a, u : HandedOver(folders, next, box, a, u) => HandedOver(new, after, more, a, u)
           /\ \A r, m : RefOwn(folders, next, r, m) => RefOwn(new, after, r, m)
           /\ \A e : AskOwn(folders, next, e) => AskOwn(new, after, e)
           /\ \A a, j : JobOwn(folders, next, box, a, j) => JobOwn(new, after, more, a, j)
<1>1. ASSUME NEW a, NEW u, NEW m, OfMessage(folders, next, a, u, m)
      PROVE  OfMessage(new, after, a, u, m)
  <2>1. a \in Accounts /\ u \in Nat /\ u < next[a] /\ next[a] <= after[a]
    BY <1>1 DEF OfMessage, Grows
  <2>2. next[a] \in Nat /\ after[a] \in Nat
    BY <2>1
  <2>3. u < after[a]
    BY <2>1, <2>2
  <2>4. QED BY <1>1, <2>1, <2>3 DEF OfMessage, Grows
<1>2. ASSUME NEW a, NEW u, HandedOver(folders, next, box, a, u)
      PROVE  HandedOver(new, after, more, a, u)
  <2>1. a \in Accounts /\ u \in Nat /\ u < next[a] /\ next[a] <= after[a]
    BY <1>2 DEF HandedOver, Grows
  <2>2. next[a] \in Nat /\ after[a] \in Nat
    BY <2>1
  <2>3. u < after[a]
    BY <2>1, <2>2
  <2>4. QED BY <1>2, <2>1, <2>3 DEF HandedOver, Grows
<1>3. \A r, m : RefOwn(folders, next, r, m) => RefOwn(new, after, r, m)
  BY <1>1 DEF RefOwn
<1>4. \A e : AskOwn(folders, next, e) => AskOwn(new, after, e)
  BY <1>1, <1>3 DEF AskOwn
<1>5. \A a, j : JobOwn(folders, next, box, a, j) => JobOwn(new, after, more, a, j)
  BY <1>1, <1>2 DEF JobOwn
<1>6. QED BY <1>1, <1>2, <1>3, <1>4, <1>5

(* What a step of a worker makes of a folder: a version of m at u.         *)
Gains(folder, new, u, m) ==
    /\ DOMAIN new \subseteq DOMAIN folder \cup {u}
    /\ \A x \in DOMAIN new : new[x].msg = IF x = u THEN m ELSE folder[x].msg

LEMMA Appending ==
    ASSUME NEW a, NEW job, NEW uids, NEW new,
           \/ new = Writing!Appended(a, job)
           \/ new = Writing!Without(Writing!Appended(a, job), uids)
    PROVE  /\ Gains(drafts[a], new, nextUid[a], job.msg)
           /\ (DOMAIN drafts[a] \cup {nextUid[a]}) \ uids \subseteq DOMAIN new
<1>1. PICK all : all = Writing!Appended(a, job)
  OBVIOUS
<1>2. /\ DOMAIN all = DOMAIN drafts[a] \cup {nextUid[a]}
      /\ \A x \in DOMAIN all : all[x].msg = IF x = nextUid[a] THEN job.msg ELSE drafts[a][x].msg
  BY <1>1 DEF Writing!Appended, Writing!Put
<1>3. CASE new = all
  BY <1>2, <1>3 DEF Gains
<1>4. CASE new = Writing!Without(all, uids)
  <2>1. DOMAIN new = DOMAIN all \ uids /\ \A x \in DOMAIN new : new[x] = all[x]
    BY <1>4 DEF Writing!Without, Writing!Restrict
  <2>2. QED BY <1>2, <2>1 DEF Gains
<1>5. QED BY <1>1, <1>3, <1>4

(* The composer and the user: only the composer changes.                   *)
LEMMA ComposerChanges ==
    ASSUME DraftInv, NEW c,
           c.account \in Accounts,
           c = [msg |-> c.msg, ver |-> c.ver, account |-> c.account, ref |-> c.ref,
                initial |-> c.initial, shown |-> c.shown, ready |-> c.ready],
           composer' = c,
           ~muddled => /\ RefOwn(drafts, nextUid, c.ref, c.msg)
                       /\ RefOwn(drafts, nextUid, c.initial, c.msg),
           UNCHANGED <<pendingDraft, draftQ, resolving, jobs, drafts, nextUid, outbox, saved,
                       muddled>>
    PROVE  DraftInv'
<1>1. WritingTyped'
  <2>1. ComposerShape'
    BY DEF ComposerShape
  <2>2. FoldersTyped' /\ JobsTyped' /\ AsksTyped' /\ muddled' \in BOOLEAN
    BY DEF DraftInv, WritingTyped, FoldersTyped, JobsTyped, AsksTyped, AskTyped
  <2>3. QED BY <2>1, <2>2 DEF WritingTyped
<1>2. CASE muddled
  BY <1>1, <1>2 DEF DraftInv
<1>3. CASE ~muddled
  <2>1. ComposerOwn'
    BY <1>3 DEF ComposerOwn
  <2>2. Own
    BY <1>3 DEF DraftInv
  <2>3. QueueOwn' /\ ResolvingOwn' /\ JobsOwn' /\ PendingOwn' /\ SavedKept'
    BY <2>2 DEF Own, QueueOwn, ResolvingOwn, JobsOwn, PendingOwn, SavedKept
  <2>4. QED BY <1>1, <2>1, <2>3 DEF DraftInv, Own
<1>4. QED BY <1>2, <1>3

LEMMA ComposerIs ==
    ASSUME DraftInv, composer # None
    PROVE  /\ ComposerShape
           /\ ~muddled => /\ RefOwn(drafts, nextUid, composer.ref, composer.msg)
                          /\ RefOwn(drafts, nextUid, composer.initial, composer.msg)
BY DEF DraftInv, WritingTyped, Own, ComposerOwn

LEMMA NoRef == \A folders, next, m : RefOwn(folders, next, None, m)
BY DEF RefOwn

LEMMA OpensStep ==
    ASSUME DraftInv, NEW a \in Accounts,
           Writing!Compose(a) \/ Writing!StartReply(a)
           \/ \E u \in DOMAIN drafts[a] : Writing!StartEditDraft(a, u)
    PROVE  DraftInv'
<1>1. ASSUME NEW msg, NEW ver, NEW ref, Writing!Opens(msg, ver, a, ref),
             RefOwn(drafts, nextUid, ref, msg)
      PROVE  DraftInv'
  <2>1. PICK c : c = Writing!Opened(msg, ver, a, ref)
    OBVIOUS
  <2>2. /\ composer' = c
        /\ UNCHANGED <<pendingDraft, draftQ, resolving, jobs, drafts, nextUid, outbox, saved,
                       muddled>>
    BY <1>1, <2>1 DEF Writing!Opens, Writing!Folder, Writing!History
  <2>3. /\ c = [msg |-> c.msg, ver |-> c.ver, account |-> c.account, ref |-> c.ref,
                initial |-> c.initial, shown |-> c.shown, ready |-> c.ready]
        /\ c.account = a /\ c.msg = msg /\ c.ref = None /\ c.initial = ref
    BY <2>1 DEF Writing!Opened
  <2>4. RefOwn(drafts, nextUid, c.ref, c.msg) /\ RefOwn(drafts, nextUid, c.initial, c.msg)
    BY <1>1, <2>3, NoRef
  <2>5. c.account \in Accounts
    BY <2>3
  <2>6. QED BY <2>2, <2>3, <2>4, <2>5, ComposerChanges
<1>2. CASE Writing!Compose(a) \/ Writing!StartReply(a)
  <2>1. Writing!Opens(started + 1, 1, a, None)
    BY <1>2 DEF Writing!Compose, Writing!StartReply, Writing!Starts
  <2>2. QED BY <1>1, <2>1, NoRef
<1>3. CASE \E u \in DOMAIN drafts[a] : Writing!StartEditDraft(a, u)
  <2>1. PICK u \in DOMAIN drafts[a] : Writing!StartEditDraft(a, u)
    BY <1>3
  <2>2. PICK msg, ver, ref : /\ Writing!Opens(msg, ver, a, ref) /\ msg = drafts[a][u].msg
                             /\ ref = [account |-> a, uid |-> u]
    BY <2>1 DEF Writing!StartEditDraft, Writing!Ref
  <2>3. u \in Nat /\ u < nextUid[a]
    BY DEF DraftInv, WritingTyped, FoldersTyped
  <2>4. ref.account = a /\ ref.uid = u
    BY <2>2
  <2>5. RefOwn(drafts, nextUid, ref, msg)
    BY <2>2, <2>3, <2>4 DEF RefOwn, OfMessage
  <2>6. QED BY <1>1, <2>2, <2>5
<1>4. QED BY <1>2, <1>3

LEMMA ComposingStep ==
    ASSUME DraftInv,
           Writing!IdentitiesLoaded \/ Writing!Types \/ Writing!Closes
           \/ \E a \in Accounts : Writing!IdentitySelected(a)
    PROVE  DraftInv'
<1>1. /\ composer # None
      /\ UNCHANGED <<pendingDraft, draftQ, resolving, jobs, drafts, nextUid, outbox, saved,
                     muddled>>
  BY DEF Writing!IdentitiesLoaded, Writing!Types, Writing!Closes, Writing!IdentitySelected,
         Writing!Composer, Writing!Shown, Writing!Folder, Writing!History
<1>2. PICK c, a, ref, ver, shown, ready :
          /\ composer' = c
          /\ c = [msg |-> composer.msg, ver |-> ver, account |-> a, ref |-> ref,
                  initial |-> composer.initial, shown |-> shown, ready |-> ready]
          /\ ref \in {composer.ref, composer.initial} /\ a \in Accounts
  <2>1. ComposerShape
    BY <1>1, ComposerIs
  <2>2. PICK m, v, b, r, i, s, y :
            /\ composer = [msg |-> m, ver |-> v, account |-> b, ref |-> r, initial |-> i,
                           shown |-> s, ready |-> y]
            /\ b \in Accounts
    BY <2>1 DEF ComposerShape
  <2>3. CASE Writing!IdentitiesLoaded
    <3>1. PICK ref : /\ composer' = [composer EXCEPT !.ready = TRUE, !.ref = ref]
                     /\ ref \in {r, i}
      BY <2>2, <2>3 DEF Writing!IdentitiesLoaded
    <3>2. composer' = [msg |-> m, ver |-> v, account |-> b, ref |-> ref, initial |-> i,
                       shown |-> s, ready |-> TRUE]
      BY <2>2, <3>1
    <3>3. QED BY <2>2, <3>1, <3>2
  <2>4. CASE Writing!Types
    <3>1. composer' = [msg |-> m, ver |-> v + 1, account |-> b, ref |-> r, initial |-> i,
                       shown |-> s, ready |-> y]
      BY <2>2, <2>4 DEF Writing!Types, Writing!Composer
    <3>2. QED BY <2>2, <3>1
  <2>5. CASE Writing!Closes
    <3>1. composer' = [msg |-> m, ver |-> v, account |-> b, ref |-> r, initial |-> i,
                       shown |-> FALSE, ready |-> y]
      BY <2>2, <2>5 DEF Writing!Closes, Writing!Composer
    <3>2. QED BY <2>2, <3>1
  <2>6. ASSUME NEW a \in Accounts, Writing!IdentitySelected(a)
        PROVE  \E c, x, ref, ver, shown, ready :
                   /\ composer' = c
                   /\ c = [msg |-> composer.msg, ver |-> ver, account |-> x, ref |-> ref,
                           initial |-> composer.initial, shown |-> shown, ready |-> ready]
                   /\ ref \in {composer.ref, composer.initial} /\ x \in Accounts
    <3>1. composer' = [msg |-> m, ver |-> v, account |-> a, ref |-> r, initial |-> i,
                       shown |-> s, ready |-> y]
      BY <2>2, <2>6 DEF Writing!IdentitySelected, Writing!Composer
    <3>2. QED BY <2>2, <3>1
  <2>7. QED BY <2>3, <2>4, <2>5, <2>6
<1>3. /\ c = [msg |-> c.msg, ver |-> c.ver, account |-> c.account, ref |-> c.ref,
              initial |-> c.initial, shown |-> c.shown, ready |-> c.ready]
      /\ c.account \in Accounts /\ c.msg = composer.msg /\ c.initial = composer.initial
      /\ c.ref \in {composer.ref, composer.initial}
  BY <1>2
<1>4. ~muddled => /\ RefOwn(drafts, nextUid, c.ref, c.msg)
                  /\ RefOwn(drafts, nextUid, c.initial, c.msg)
  BY <1>1, <1>3, ComposerIs
<1>5. composer' = c
  BY <1>2
<1>6. QED BY <1>1, <1>3, <1>4, <1>5, ComposerChanges

(* The queue and the jobs, when one is taken and one is put behind.        *)
LEMMA QueueGrows ==
    ASSUME DraftInv, NEW e, draftQ' = Append(draftQ, e), AskTyped(e)
    PROVE  /\ Queue(draftQ') /\ \A x \in Elements(draftQ') : AskTyped(x)
           /\ Elements(draftQ') = Elements(draftQ) \cup {e}
<1>1. Queue(draftQ) /\ \A x \in Elements(draftQ) : AskTyped(x)
  BY DEF DraftInv, WritingTyped, AsksTyped
<1>2. PICK q : q = Append(draftQ, e)
  OBVIOUS
<1>3. Queue(q) /\ Elements(q) = Elements(draftQ) \cup {e}
  BY <1>1, <1>2, Sent
<1>4. QED BY <1>1, <1>2, <1>3

LEMMA QueueShrinks ==
    ASSUME DraftInv, draftQ # <<>>, draftQ' = Tail(draftQ)
    PROVE  /\ Queue(draftQ') /\ \A x \in Elements(draftQ') : AskTyped(x)
           /\ Elements(draftQ') \subseteq Elements(draftQ)
           /\ Head(draftQ) \in Elements(draftQ) /\ AskTyped(Head(draftQ))
           /\ ~muddled => AskOwn(drafts, nextUid, Head(draftQ))
<1>1. /\ Queue(draftQ) /\ \A x \in Elements(draftQ) : AskTyped(x)
      /\ ~muddled => \A x \in Elements(draftQ) : AskOwn(drafts, nextUid, x)
  BY DEF DraftInv, WritingTyped, AsksTyped, Own, QueueOwn
<1>2. PICK q : q = Tail(draftQ)
  OBVIOUS
<1>3. /\ Queue(q) /\ Elements(q) \subseteq Elements(draftQ)
      /\ Head(draftQ) \in Elements(draftQ)
  BY <1>1, <1>2, Handled
<1>4. QED BY <1>1, <1>2, <1>3

LEMMA JobGrows ==
    ASSUME DraftInv, NEW a, NEW j, jobs' = [jobs EXCEPT ![a] = Append(@, j)]
    PROVE  /\ JobsTyped'
           /\ \A b \in Accounts : Elements(jobs'[b]) \subseteq Elements(jobs[b]) \cup
                                      (IF b = a THEN {j} ELSE {})
<1>1. jobs = [b \in Accounts |-> jobs[b]] /\ \A b \in Accounts : Queue(jobs[b])
  BY DEF DraftInv, WritingTyped, JobsTyped
<1>2. jobs' = [b \in Accounts |-> IF b = a THEN Append(jobs[b], j) ELSE jobs[b]]
  BY <1>1
<1>3. ASSUME NEW b \in Accounts
      PROVE  /\ Queue(jobs'[b])
             /\ Elements(jobs'[b]) \subseteq Elements(jobs[b]) \cup (IF b = a THEN {j} ELSE {})
  <2>1. PICK old : old = jobs[b]
    OBVIOUS
  <2>2. Queue(old)
    BY <1>1, <2>1
  <2>3. CASE b = a
    <3>1. PICK new : new = Append(old, j)
      OBVIOUS
    <3>2. Queue(new) /\ Elements(new) = Elements(old) \cup {j}
      BY <2>2, <3>1, Sent
    <3>3. jobs'[b] = new
      BY <1>2, <2>1, <2>3, <3>1
    <3>4. QED BY <2>1, <2>3, <3>2, <3>3
  <2>4. CASE b # a
    BY <1>2, <2>1, <2>2, <2>4
  <2>5. QED BY <2>3, <2>4
<1>4. JobsTyped'
  BY <1>2, <1>3 DEF JobsTyped
<1>5. QED BY <1>3, <1>4

LEMMA JobDone ==
    ASSUME DraftInv, NEW a \in Accounts, jobs[a] # <<>>, jobs' = [jobs EXCEPT ![a] = Tail(@)]
    PROVE  /\ JobsTyped'
           /\ \A b \in Accounts : Elements(jobs'[b]) \subseteq Elements(jobs[b])
           /\ ~muddled => JobOwn(drafts, nextUid, outbox, a, Head(jobs[a]))
<1>1. jobs = [b \in Accounts |-> jobs[b]] /\ \A b \in Accounts : Queue(jobs[b])
  BY DEF DraftInv, WritingTyped, JobsTyped
<1>2. jobs' = [b \in Accounts |-> IF b = a THEN Tail(jobs[b]) ELSE jobs[b]]
  BY <1>1
<1>3. PICK old : old = jobs[a]
  OBVIOUS
<1>4. Queue(old) /\ old # <<>>
  BY <1>1, <1>3
<1>5. PICK new : new = Tail(old)
  OBVIOUS
<1>6. Queue(new) /\ Elements(new) \subseteq Elements(old) /\ Head(old) \in Elements(old)
  BY <1>4, <1>5, Handled
<1>7. ASSUME NEW b \in Accounts
      PROVE  Queue(jobs'[b]) /\ Elements(jobs'[b]) \subseteq Elements(jobs[b])
  <2>1. CASE b = a
    <3>1. jobs'[b] = new
      BY <1>2, <1>3, <1>5, <2>1
    <3>2. QED BY <1>3, <1>6, <2>1, <3>1
  <2>2. CASE b # a
    BY <1>1, <1>2, <2>2
  <2>3. QED BY <2>1, <2>2
<1>8. JobsTyped'
  BY <1>2, <1>7 DEF JobsTyped
<1>9. ~muddled => JobOwn(drafts, nextUid, outbox, a, Head(jobs[a]))
  <2>1. Head(jobs[a]) \in Elements(jobs[a])
    BY <1>3, <1>6
  <2>2. QED BY <2>1 DEF DraftInv, Own, JobsOwn
<1>10. QED BY <1>7, <1>8, <1>9

LEMMA Parts ==
    ASSUME DraftInv
    PROVE  /\ FoldersTyped /\ JobsTyped /\ AsksTyped /\ muddled \in BOOLEAN
           /\ composer # None => ComposerShape
           /\ ~muddled => /\ ComposerOwn /\ QueueOwn /\ ResolvingOwn /\ JobsOwn /\ PendingOwn
                          /\ SavedKept
BY DEF DraftInv, WritingTyped, Own

LEMMA ClicksStep ==
    ASSUME DraftInv, NEW do \in {"SaveDraft", "DraftReady"}, Writing!Clicks(do)
    PROVE  DraftInv'
<1>1. /\ composer # None
      /\ draftQ' = Append(draftQ, [do |-> do, on |-> Writing!Draft])
      /\ muddled' = (muddled \/ (/\ do = "SaveDraft" /\ composer.ref # None
                                 /\ composer.ref.account # composer.account))
      /\ UNCHANGED <<composer, pendingDraft, resolving, jobs, drafts, nextUid, outbox, saved>>
  BY DEF Writing!Clicks, Writing!Shown, Writing!Tells, Writing!Folder
<1>2. PICK on, e : on = Writing!Draft /\ e = [do |-> do, on |-> on]
  OBVIOUS
<1>3. /\ e.do = do /\ e.on = on /\ on.msg = composer.msg /\ on.account = composer.account
      /\ on.ref = composer.ref
  BY <1>2 DEF Writing!Draft
<1>4. composer.account \in Accounts
  BY <1>1, Parts DEF ComposerShape
<1>5. AskTyped(e) /\ draftQ' = Append(draftQ, e)
  BY <1>1, <1>2, <1>3, <1>4 DEF AskTyped
<1>6. /\ Queue(draftQ') /\ \A x \in Elements(draftQ') : AskTyped(x)
      /\ Elements(draftQ') = Elements(draftQ) \cup {e}
  BY <1>5, QueueGrows
<1>7. WritingTyped'
  <2>1. composer' # None => ComposerShape'
    BY <1>1, Parts DEF ComposerShape
  <2>2. FoldersTyped' /\ JobsTyped' /\ muddled' \in BOOLEAN
    BY <1>1, Parts DEF FoldersTyped, JobsTyped
  <2>3. AsksTyped'
    BY <1>1, <1>6, Parts DEF AsksTyped
  <2>4. QED BY <2>1, <2>2, <2>3 DEF WritingTyped
<1>8. ASSUME ~muddled' PROVE Own'
  <2>1. ~muddled /\ (do = "SaveDraft" => (composer.ref # None => composer.ref.account = composer.account))
    BY <1>1, <1>8
  <2>2. ComposerOwn' /\ ResolvingOwn' /\ JobsOwn' /\ PendingOwn' /\ SavedKept'
    BY <1>1, <2>1, Parts DEF ComposerOwn, ResolvingOwn, JobsOwn, PendingOwn, SavedKept
  <2>3. AskOwn(drafts, nextUid, e)
    BY <1>1, <1>3, <2>1, ComposerIs DEF AskOwn, AtHome
  <2>4. QueueOwn'
    BY <1>1, <1>6, <2>1, <2>3, Parts DEF QueueOwn
  <2>5. QED BY <2>2, <2>4 DEF Own
<1>9. QED BY <1>7, <1>8 DEF DraftInv

LEMMA SavesStep ==
    ASSUME DraftInv, Writing!SaveDraft
    PROVE  DraftInv'
<1>1. /\ draftQ # <<>> /\ Head(draftQ).do = "SaveDraft" /\ draftQ' = Tail(draftQ)
      /\ resolving' = resolving \cup {Head(draftQ).on}
      /\ UNCHANGED <<composer, pendingDraft, jobs, drafts, nextUid, outbox, saved, muddled>>
  BY DEF Writing!SaveDraft, Writing!Turn, Writing!Taken, Writing!Folder, Writing!History
<1>2. /\ Queue(draftQ') /\ \A x \in Elements(draftQ') : AskTyped(x)
      /\ Elements(draftQ') \subseteq Elements(draftQ)
      /\ Head(draftQ) \in Elements(draftQ) /\ AskTyped(Head(draftQ))
      /\ ~muddled => AskOwn(drafts, nextUid, Head(draftQ))
  BY <1>1, QueueShrinks
<1>3. WritingTyped'
  <2>1. composer' # None => ComposerShape'
    BY <1>1, Parts DEF ComposerShape
  <2>2. FoldersTyped' /\ JobsTyped' /\ muddled' \in BOOLEAN
    BY <1>1, Parts DEF FoldersTyped, JobsTyped
  <2>3. Head(draftQ).on.account \in Accounts
    BY <1>1, <1>2 DEF AskTyped
  <2>4. AsksTyped'
    BY <1>1, <1>2, <2>3, Parts DEF AsksTyped
  <2>5. QED BY <2>1, <2>2, <2>4 DEF WritingTyped
<1>4. ASSUME ~muddled' PROVE Own'
  <2>1. ~muddled
    BY <1>1, <1>4
  <2>2. ComposerOwn' /\ JobsOwn' /\ PendingOwn' /\ SavedKept'
    BY <1>1, <2>1, Parts DEF ComposerOwn, JobsOwn, PendingOwn, SavedKept
  <2>3. PICK on : on = Head(draftQ).on
    OBVIOUS
  <2>4. RefOwn(drafts, nextUid, on.ref, on.msg) /\ AtHome(on)
    BY <1>1, <1>2, <2>1, <2>3 DEF AskOwn
  <2>5. ResolvingOwn'
    BY <1>1, <2>1, <2>3, <2>4, Parts DEF ResolvingOwn
  <2>6. QueueOwn'
    BY <1>1, <1>2, <2>1, Parts DEF QueueOwn
  <2>7. QED BY <2>2, <2>5, <2>6 DEF Own
<1>5. QED BY <1>3, <1>4 DEF DraftInv

LEMMA ResolvedStep ==
    ASSUME DraftInv, NEW draft \in resolving, Writing!SaveDraftResolved(draft)
    PROVE  DraftInv'
<1>1. PICK j : j = Writing!Save(draft)
  OBVIOUS
<1>2. /\ resolving' = resolving \ {draft}
      /\ jobs' = [jobs EXCEPT ![draft.account] = Append(@, j)]
      /\ UNCHANGED <<composer, pendingDraft, draftQ, drafts, nextUid, outbox, saved, muddled>>
  BY <1>1 DEF Writing!SaveDraftResolved, Writing!Folder, Writing!History
<1>3. /\ JobsTyped'
      /\ \A b \in Accounts : Elements(jobs'[b]) \subseteq Elements(jobs[b]) \cup
                                 (IF b = draft.account THEN {j} ELSE {})
  <2>1. PICK a : a = draft.account
    OBVIOUS
  <2>2. jobs' = [jobs EXCEPT ![a] = Append(@, j)]
    BY <1>2, <2>1
  <2>3. /\ JobsTyped'
        /\ \A b \in Accounts : Elements(jobs'[b]) \subseteq Elements(jobs[b]) \cup
                                   (IF b = a THEN {j} ELSE {})
    BY <2>2, JobGrows
  <2>4. QED BY <2>1, <2>3
<1>4. WritingTyped'
  <2>1. composer' # None => ComposerShape'
    BY <1>2, Parts DEF ComposerShape
  <2>2. FoldersTyped' /\ muddled' \in BOOLEAN
    BY <1>2, Parts DEF FoldersTyped
  <2>3. AsksTyped'
    BY <1>2, Parts DEF AsksTyped
  <2>4. QED BY <1>3, <2>1, <2>2, <2>3 DEF WritingTyped
<1>5. ASSUME ~muddled' PROVE Own'
  <2>1. ~muddled
    BY <1>2, <1>5
  <2>2. ComposerOwn' /\ QueueOwn' /\ ResolvingOwn' /\ PendingOwn' /\ SavedKept'
    BY <1>2, <2>1, Parts DEF ComposerOwn, QueueOwn, ResolvingOwn, PendingOwn, SavedKept
  <2>3. RefOwn(drafts, nextUid, draft.ref, draft.msg) /\ AtHome(draft)
    BY <2>1, Parts DEF ResolvingOwn
  <2>4. /\ j.do = "AppendDraft" /\ j.msg = draft.msg
        /\ j.replace = IF draft.ref = None THEN None ELSE draft.ref.uid
    BY <1>1 DEF Writing!Save
  <2>5. JobOwn(drafts, nextUid, outbox, draft.account, j)
    BY <2>3, <2>4 DEF JobOwn, RefOwn, AtHome
  <2>6. JobsOwn'
    BY <1>2, <1>3, <2>1, <2>5, Parts DEF JobsOwn
  <2>7. QED BY <2>2, <2>6 DEF Own
<1>6. QED BY <1>4, <1>5 DEF DraftInv

LEMMA SavedStep ==
    ASSUME DraftInv, Writing!DraftSaved
    PROVE  DraftInv'
<1>1. /\ draftQ # <<>> /\ Head(draftQ).do = "DraftSaved" /\ draftQ' = Tail(draftQ)
      /\ UNCHANGED <<pendingDraft, resolving, jobs, drafts, nextUid, outbox, saved>>
  BY DEF Writing!DraftSaved, Writing!Turn, Writing!Taken, Writing!Folder
<1>2. /\ Queue(draftQ') /\ \A x \in Elements(draftQ') : AskTyped(x)
      /\ Elements(draftQ') \subseteq Elements(draftQ)
      /\ ~muddled => AskOwn(drafts, nextUid, Head(draftQ))
  BY <1>1, QueueShrinks
<1>3. PICK on : on = Head(draftQ).on
  OBVIOUS
<1>4. ~muddled => OfMessage(drafts, nextUid, on.account, on.uid, on.msg)
  BY <1>1, <1>2, <1>3 DEF AskOwn
<1>5. /\ FoldersTyped' /\ JobsTyped' /\ AsksTyped'
      /\ ~muddled => QueueOwn' /\ ResolvingOwn' /\ JobsOwn' /\ PendingOwn' /\ SavedKept'
  <2>1. FoldersTyped' /\ JobsTyped'
    BY <1>1, Parts DEF FoldersTyped, JobsTyped
  <2>2. AsksTyped'
    BY <1>1, <1>2, Parts DEF AsksTyped
  <2>3. ~muddled => ResolvingOwn' /\ JobsOwn' /\ PendingOwn' /\ SavedKept'
    BY <1>1, Parts DEF ResolvingOwn, JobsOwn, PendingOwn, SavedKept
  <2>4. ~muddled => QueueOwn'
    BY <1>1, <1>2, Parts DEF QueueOwn
  <2>5. QED BY <2>1, <2>2, <2>3, <2>4
<1>6. CASE composer # None /\ composer.ready
  <2>1. /\ composer' = [composer EXCEPT !.ref = Writing!Ref(composer.account, on.uid)]
        /\ muddled' = (muddled \/ on.msg # composer.msg \/ on.account # composer.account)
    BY <1>3, <1>6 DEF Writing!DraftSaved
  <2>2. PICK m, v, b, i, s, y :
            /\ composer = [msg |-> m, ver |-> v, account |-> b, ref |-> composer.ref,
                           initial |-> i, shown |-> s, ready |-> y]
            /\ b \in Accounts
    BY <1>6, Parts DEF ComposerShape
  <2>3. PICK ref : ref = [account |-> b, uid |-> on.uid]
    OBVIOUS
  <2>4. composer' = [msg |-> m, ver |-> v, account |-> b, ref |-> ref, initial |-> i,
                     shown |-> s, ready |-> y]
    BY <2>1, <2>2, <2>3 DEF Writing!Ref
  <2>5. composer' # None => ComposerShape'
    BY <2>2, <2>4 DEF ComposerShape
  <2>6. WritingTyped'
    BY <1>5, <2>1, <2>5, Parts DEF WritingTyped
  <2>7. ASSUME ~muddled' PROVE Own'
    <3>1. ~muddled /\ on.msg = m /\ on.account = b
      <4>1. ~muddled /\ on.msg = composer.msg /\ on.account = composer.account
        BY <2>1, <2>7
      <4>2. composer.msg = m /\ composer.account = b
        BY <2>2
      <4>3. QED BY <4>1, <4>2
    <3>2. OfMessage(drafts, nextUid, b, on.uid, m)
      BY <1>4, <3>1
    <3>3. RefOwn(drafts, nextUid, ref, m)
      BY <2>3, <3>2 DEF RefOwn
    <3>4. RefOwn(drafts, nextUid, i, m)
      BY <1>6, <2>2, <3>1, ComposerIs
    <3>5. composer'.ref = ref /\ composer'.initial = i /\ composer'.msg = m
      BY <2>4
    <3>6. ComposerOwn'
      BY <1>1, <3>3, <3>4, <3>5 DEF ComposerOwn
    <3>7. QED BY <1>5, <3>1, <3>6 DEF Own
  <2>8. QED BY <2>6, <2>7 DEF DraftInv
<1>7. CASE ~(composer # None /\ composer.ready)
  <2>1. UNCHANGED <<composer, muddled>>
    BY <1>7 DEF Writing!DraftSaved
  <2>2. WritingTyped'
    BY <1>5, <2>1, Parts DEF WritingTyped, ComposerShape
  <2>3. ~muddled => ComposerOwn'
    BY <1>1, <2>1, Parts DEF ComposerOwn
  <2>4. QED BY <1>5, <2>1, <2>2, <2>3 DEF DraftInv, Own
<1>8. QED BY <1>6, <1>7

LEMMA ReadyStep ==
    ASSUME DraftInv, Writing!DraftReady
    PROVE  DraftInv'
<1>1. PICK on : on = Head(draftQ).on
  OBVIOUS
<1>2. /\ draftQ # <<>> /\ Head(draftQ).do = "DraftReady" /\ draftQ' = Tail(draftQ)
      /\ pendingDraft' = on.ref
      /\ outbox' = Writing!Put(outbox, on.msg, [account |-> on.account, delivered |-> FALSE])
      /\ UNCHANGED <<composer, resolving, jobs, drafts, nextUid, saved, muddled>>
  BY <1>1 DEF Writing!DraftReady, Writing!Turn, Writing!Taken, Writing!Folder, Writing!History
<1>3. DOMAIN outbox' = DOMAIN outbox \cup {on.msg}
  BY <1>2 DEF Writing!Put
<1>4. /\ Queue(draftQ') /\ \A x \in Elements(draftQ') : AskTyped(x)
      /\ Elements(draftQ') \subseteq Elements(draftQ)
      /\ ~muddled => AskOwn(drafts, nextUid, Head(draftQ))
  BY <1>2, QueueShrinks
<1>5. WritingTyped'
  <2>1. composer' # None => ComposerShape'
    BY <1>2, Parts DEF ComposerShape
  <2>2. FoldersTyped' /\ JobsTyped' /\ muddled' \in BOOLEAN
    BY <1>2, Parts DEF FoldersTyped, JobsTyped
  <2>3. AsksTyped'
    BY <1>2, <1>4, Parts DEF AsksTyped
  <2>4. QED BY <2>1, <2>2, <2>3 DEF WritingTyped
<1>6. ASSUME ~muddled' PROVE Own'
  <2>1. ~muddled
    BY <1>2, <1>6
  <2>2. RefOwn(drafts, nextUid, on.ref, on.msg)
    BY <1>1, <1>2, <1>4, <2>1 DEF AskOwn
  <2>3. nextUid \in [Accounts -> Nat]
    BY Parts DEF FoldersTyped
  <2>4. \A a \in Accounts : nextUid[a] <= nextUid[a]
    BY <2>3
  <2>5. Grows(drafts, nextUid, outbox, drafts, nextUid, outbox')
    BY <1>3, <2>4 DEF Grows
  <2>6. \A a, j : JobOwn(drafts, nextUid, outbox, a, j) => JobOwn(drafts, nextUid, outbox', a, j)
    BY <2>3, <2>5, Lasts
  <2>7. ComposerOwn' /\ ResolvingOwn'
    BY <1>2, <2>1, Parts DEF ComposerOwn, ResolvingOwn
  <2>8. JobsOwn'
    BY <1>2, <2>1, <2>6, Parts DEF JobsOwn
  <2>9. PendingOwn'
    BY <1>2, <1>3, <2>2 DEF PendingOwn, RefOwn, OfMessage, HandedOver
  <2>10. SavedKept'
    BY <1>2, <1>3, <2>1, Parts DEF SavedKept
  <2>11. QueueOwn'
    BY <1>2, <1>4, <2>1, Parts DEF QueueOwn
  <2>12. QED BY <2>7, <2>8, <2>9, <2>10, <2>11 DEF Own
<1>7. QED BY <1>5, <1>6 DEF DraftInv

LEMMA ReportStep ==
    ASSUME DraftInv, Writing!SendResult
    PROVE  DraftInv'
<1>1. /\ draftQ # <<>> /\ draftQ' = Tail(draftQ)
      /\ composer' = IF composer = None THEN None ELSE [composer EXCEPT !.shown = FALSE]
      /\ UNCHANGED <<resolving, drafts, nextUid, outbox, saved, muddled>>
  BY DEF Writing!SendResult, Writing!Turn, Writing!Taken, Writing!Folder, Writing!History
<1>2. \/ UNCHANGED <<jobs, pendingDraft>>
      \/ /\ pendingDraft # None /\ pendingDraft' = None
         /\ jobs' = [jobs EXCEPT ![pendingDraft.account] =
                         Append(@, Writing!Delete(pendingDraft.uid))]
  BY DEF Writing!SendResult
<1>3. /\ Queue(draftQ') /\ \A x \in Elements(draftQ') : AskTyped(x)
      /\ Elements(draftQ') \subseteq Elements(draftQ)
  BY <1>1, QueueShrinks
<1>4. /\ composer' # None => ComposerShape'
      /\ ~muddled => ComposerOwn'
  <2>1. CASE composer = None
    BY <1>1, <2>1 DEF ComposerOwn
  <2>2. CASE composer # None
    <3>1. PICK m, v, b, r, i, s, y :
              /\ composer = [msg |-> m, ver |-> v, account |-> b, ref |-> r, initial |-> i,
                             shown |-> s, ready |-> y]
              /\ b \in Accounts
      BY <2>2, Parts DEF ComposerShape
    <3>2. composer' = [msg |-> m, ver |-> v, account |-> b, ref |-> r, initial |-> i,
                       shown |-> FALSE, ready |-> y]
      BY <1>1, <2>2, <3>1
    <3>3. ComposerShape'
      BY <3>1, <3>2 DEF ComposerShape
    <3>4. ~muddled => RefOwn(drafts, nextUid, r, m) /\ RefOwn(drafts, nextUid, i, m)
      BY <2>2, <3>1, ComposerIs
    <3>5. composer'.ref = r /\ composer'.initial = i /\ composer'.msg = m
      BY <3>2
    <3>6. ~muddled => ComposerOwn'
      BY <1>1, <3>4, <3>5 DEF ComposerOwn
    <3>7. QED BY <3>3, <3>6
  <2>3. QED BY <2>1, <2>2
<1>5. JobsTyped' /\ (~muddled => JobsOwn' /\ PendingOwn')
  <2>1. CASE UNCHANGED <<jobs, pendingDraft>>
    BY <1>1, <2>1, Parts DEF JobsTyped, JobsOwn, PendingOwn
  <2>2. ASSUME pendingDraft # None, pendingDraft' = None,
               jobs' = [jobs EXCEPT ![pendingDraft.account] =
                            Append(@, Writing!Delete(pendingDraft.uid))]
        PROVE  JobsTyped' /\ (~muddled => JobsOwn' /\ PendingOwn')
    <3>1. PICK j, a : j = Writing!Delete(pendingDraft.uid) /\ a = pendingDraft.account
      OBVIOUS
    <3>2. jobs' = [jobs EXCEPT ![a] = Append(@, j)]
      BY <2>2, <3>1
    <3>3. /\ JobsTyped'
          /\ \A b \in Accounts : Elements(jobs'[b]) \subseteq Elements(jobs[b]) \cup
                                     (IF b = a THEN {j} ELSE {})
      BY <3>2, JobGrows
    <3>4. j.do = "DeleteDraft" /\ j.uid = pendingDraft.uid
      BY <3>1 DEF Writing!Delete
    <3>5. ~muddled => JobOwn(drafts, nextUid, outbox, a, j)
      BY <2>2, <3>1, <3>4, Parts DEF JobOwn, PendingOwn
    <3>6. ~muddled => JobsOwn'
      BY <1>1, <3>3, <3>5, Parts DEF JobsOwn
    <3>7. PendingOwn'
      BY <2>2 DEF PendingOwn
    <3>8. QED BY <3>3, <3>6, <3>7
  <2>3. QED BY <1>2, <2>1, <2>2
<1>6. WritingTyped'
  <2>1. FoldersTyped' /\ muddled' \in BOOLEAN
    BY <1>1, Parts DEF FoldersTyped
  <2>2. AsksTyped'
    BY <1>1, <1>3, Parts DEF AsksTyped
  <2>3. QED BY <1>4, <1>5, <2>1, <2>2 DEF WritingTyped
<1>7. ~muddled => QueueOwn' /\ ResolvingOwn' /\ SavedKept'
  <2>1. ~muddled => ResolvingOwn' /\ SavedKept'
    BY <1>1, Parts DEF ResolvingOwn, SavedKept
  <2>2. ~muddled => QueueOwn'
    BY <1>1, <1>3, Parts DEF QueueOwn
  <2>3. QED BY <2>1, <2>2
<1>8. QED BY <1>1, <1>4, <1>5, <1>6, <1>7 DEF DraftInv, Own

(* A step of a worker: what the references are to lasts.                   *)
LEMMA WorkerStep ==
    ASSUME DraftInv, FoldersTyped', JobsTyped', AsksTyped',
           Grows(drafts, nextUid, outbox, drafts', nextUid', outbox'),
           UNCHANGED <<composer, pendingDraft, resolving, muddled>>,
           \A b \in Accounts : Elements(jobs'[b]) \subseteq Elements(jobs[b]),
           ~muddled => \A e \in Elements(draftQ') :
                           e \in Elements(draftQ) \/ AskOwn(drafts', nextUid', e),
           ~muddled => SavedKept'
    PROVE  DraftInv'
<1>1. WritingTyped'
  BY Parts DEF WritingTyped, ComposerShape
<1>2. ASSUME ~muddled' PROVE Own'
  <2>1. ~muddled
    BY <1>2
  <2>2. PICK new, after, more : new = drafts' /\ after = nextUid' /\ more = outbox'
    OBVIOUS
  <2>3. nextUid \in [Accounts -> Nat] /\ after \in [Accounts -> Nat]
    BY <2>2, Parts DEF FoldersTyped
  <2>4. /\ \A a, u : HandedOver(drafts, nextUid, outbox, a, u) => HandedOver(new, after, more, a, u)
        /\ \A r, m : RefOwn(drafts, nextUid, r, m) => RefOwn(new, after, r, m)
        /\ \A e : AskOwn(drafts, nextUid, e) => AskOwn(new, after, e)
        /\ \A a, j : JobOwn(drafts, nextUid, outbox, a, j) => JobOwn(new, after, more, a, j)
    BY <2>2, <2>3, Lasts
  <2>5. ComposerOwn' /\ ResolvingOwn'
    BY <2>1, <2>2, <2>4, Parts DEF ComposerOwn, ResolvingOwn
  <2>6. PendingOwn'
    BY <2>1, <2>2, <2>4, Parts DEF PendingOwn
  <2>7. JobsOwn'
    BY <2>1, <2>2, <2>4, Parts DEF JobsOwn
  <2>8. QueueOwn'
    BY <2>1, <2>2, <2>4, Parts DEF QueueOwn
  <2>9. QED BY <2>1, <2>5, <2>6, <2>7, <2>8 DEF Own
<1>3. QED BY <1>1, <1>2 DEF DraftInv

LEMMA SameFolders ==
    ASSUME DraftInv, NEW more, DOMAIN outbox \subseteq DOMAIN more
    PROVE  Grows(drafts, nextUid, outbox, drafts, nextUid, more)
<1>1. nextUid \in [Accounts -> Nat]
  BY Parts DEF FoldersTyped
<1>2. \A a \in Accounts : nextUid[a] <= nextUid[a]
  BY <1>1
<1>3. QED BY <1>2 DEF Grows

LEMMA DrainedStep ==
    ASSUME DraftInv, NEW a \in Accounts, NEW some, Writing!Drained(a, some)
    PROVE  DraftInv'
<1>1. PICK e : e = [do |-> "SendResult", on |-> some # {}]
  OBVIOUS
<1>2. /\ draftQ' = Append(draftQ, e) /\ DOMAIN outbox' = DOMAIN outbox
      /\ UNCHANGED <<composer, pendingDraft, resolving, jobs, drafts, nextUid, saved, muddled>>
  BY <1>1 DEF Writing!Drained, Writing!Tells, Writing!Folder, Writing!History
<1>3. e.do = "SendResult"
  BY <1>1
<1>4. AskTyped(e) /\ \A folders, next : AskOwn(folders, next, e)
  BY <1>3 DEF AskTyped, AskOwn
<1>5. /\ Queue(draftQ') /\ \A x \in Elements(draftQ') : AskTyped(x)
      /\ Elements(draftQ') = Elements(draftQ) \cup {e}
  BY <1>2, <1>4, QueueGrows
<1>6. FoldersTyped' /\ JobsTyped'
  BY <1>2, Parts DEF FoldersTyped, JobsTyped
<1>7. AsksTyped'
  BY <1>2, <1>5, Parts DEF AsksTyped
<1>8. Grows(drafts, nextUid, outbox, drafts', nextUid', outbox')
  <2>1. PICK more : more = outbox'
    OBVIOUS
  <2>2. Grows(drafts, nextUid, outbox, drafts, nextUid, more)
    BY <1>2, <2>1, SameFolders
  <2>3. QED BY <1>2, <2>1, <2>2
<1>9. ~muddled => SavedKept'
  BY <1>2, Parts DEF SavedKept
<1>10. /\ \A b \in Accounts : Elements(jobs'[b]) \subseteq Elements(jobs[b])
       /\ \A x \in Elements(draftQ') : x \in Elements(draftQ) \/ AskOwn(drafts', nextUid', x)
  BY <1>2, <1>4, <1>5
<1>11. QED BY <1>2, <1>6, <1>7, <1>8, <1>9, <1>10, WorkerStep

LEMMA NothingDone ==
    ASSUME DraftInv, NEW a \in Accounts, jobs[a] # <<>>, jobs' = [jobs EXCEPT ![a] = Tail(@)],
           UNCHANGED <<composer, pendingDraft, draftQ, resolving, drafts, nextUid, outbox, saved,
                       muddled>>
    PROVE  DraftInv'
<1>1. /\ JobsTyped'
      /\ \A b \in Accounts : Elements(jobs'[b]) \subseteq Elements(jobs[b])
  BY JobDone
<1>2. FoldersTyped' /\ AsksTyped'
  BY Parts DEF FoldersTyped, AsksTyped
<1>3. Grows(drafts, nextUid, outbox, drafts', nextUid', outbox')
  <2>1. Grows(drafts, nextUid, outbox, drafts, nextUid, outbox)
    BY SameFolders
  <2>2. QED BY <2>1
<1>4. ~muddled => SavedKept'
  BY Parts DEF SavedKept
<1>5. \A x \in Elements(draftQ') : x \in Elements(draftQ) \/ AskOwn(drafts', nextUid', x)
  OBVIOUS
<1>6. QED BY <1>1, <1>2, <1>3, <1>4, <1>5, WorkerStep

LEMMA DeleteStep ==
    ASSUME DraftInv, NEW a \in Accounts, Writing!DeleteDraft(a)
    PROVE  DraftInv'
<1>1. PICK uid, folder : uid = Head(jobs[a]).uid /\ folder = Writing!Without(drafts[a], {uid})
  OBVIOUS
<1>2. /\ jobs[a] # <<>> /\ Head(jobs[a]).do = "DeleteDraft"
      /\ jobs' = [jobs EXCEPT ![a] = Tail(@)]
      /\ UNCHANGED <<composer, pendingDraft, resolving, outbox, muddled, draftQ, saved, nextUid>>
      /\ drafts' = [drafts EXCEPT ![a] = folder] \/ UNCHANGED drafts
  BY <1>1 DEF Writing!DeleteDraft, Writing!Job, Writing!Done, Writing!Beside
<1>3. CASE UNCHANGED drafts
  BY <1>2, <1>3, NothingDone
<1>4. CASE drafts' = [drafts EXCEPT ![a] = folder]
  <2>1. /\ JobsTyped'
        /\ \A b \in Accounts : Elements(jobs'[b]) \subseteq Elements(jobs[b])
        /\ ~muddled => JobOwn(drafts, nextUid, outbox, a, Head(jobs[a]))
    BY <1>2, JobDone
  <2>2. DOMAIN folder = DOMAIN drafts[a] \ {uid} /\ \A u \in DOMAIN folder : folder[u] = drafts[a][u]
    BY <1>1 DEF Writing!Without, Writing!Restrict
  <2>3. /\ nextUid \in [Accounts -> Nat] /\ drafts = [b \in Accounts |-> drafts[b]]
        /\ \A b \in Accounts : \A u \in DOMAIN drafts[b] : u \in Nat /\ u < nextUid[b]
    BY Parts DEF FoldersTyped
  <2>4. PICK new : /\ drafts' = new /\ new = [b \in Accounts |-> new[b]] /\ new[a] = folder
                   /\ \A b \in Accounts : b # a => new[b] = drafts[b]
    BY <1>4, <2>3
  <2>5. \A b \in Accounts : \A u \in DOMAIN new[b] : u \in DOMAIN drafts[b] /\ new[b][u] = drafts[b][u]
    BY <2>2, <2>4
  <2>6. FoldersTyped'
    BY <1>2, <2>3, <2>4, <2>5 DEF FoldersTyped
  <2>7. AsksTyped'
    BY <1>2, Parts DEF AsksTyped
  <2>8. Grows(drafts, nextUid, outbox, drafts', nextUid', outbox')
    <3>1. \A b \in Accounts : nextUid[b] <= nextUid[b]
      BY <2>3
    <3>2. Grows(drafts, nextUid, outbox, new, nextUid, outbox)
      BY <2>5, <3>1 DEF Grows
    <3>3. QED BY <1>2, <2>4, <3>2
  <2>9. ASSUME ~muddled PROVE SavedKept'
    <3>1. HandedOver(drafts, nextUid, outbox, a, uid)
      BY <1>1, <1>2, <2>1, <2>9 DEF JobOwn
    <3>2. ASSUME NEW m \in saved, m \notin DOMAIN outbox PROVE HasVersion(new, m)
      <4>1. PICK b \in Accounts : \E u \in DOMAIN drafts[b] : drafts[b][u].msg = m
        BY <2>9, <3>2, Parts DEF SavedKept, HasVersion
      <4>2. PICK u \in DOMAIN drafts[b] : drafts[b][u].msg = m
        BY <4>1
      <4>3. CASE b = a
        <5>1. u # uid
          BY <3>1, <3>2, <4>2, <4>3 DEF HandedOver
        <5>2. u \in DOMAIN new[a] /\ new[a][u] = drafts[a][u]
          BY <2>2, <2>4, <4>2, <4>3, <5>1
        <5>3. QED BY <4>2, <4>3, <5>2 DEF HasVersion
      <4>4. CASE b # a
        BY <2>4, <4>2, <4>4 DEF HasVersion
      <4>5. QED BY <4>3, <4>4
    <3>3. QED BY <1>2, <2>4, <3>2 DEF SavedKept
  <2>10. \A x \in Elements(draftQ') : x \in Elements(draftQ) \/ AskOwn(drafts', nextUid', x)
    BY <1>2
  <2>11. QED BY <1>2, <2>1, <2>6, <2>7, <2>8, <2>9, <2>10, WorkerStep
<1>5. QED BY <1>2, <1>3, <1>4

(* What an append makes of its folder, done in full or not answered.       *)
LEMMA AppendIs ==
    ASSUME DraftInv, NEW a \in Accounts, Writing!AppendDraft(a)
    PROVE  /\ jobs[a] # <<>> /\ Head(jobs[a]).do = "AppendDraft"
           /\ jobs' = [jobs EXCEPT ![a] = Tail(@)]
           /\ UNCHANGED <<composer, pendingDraft, resolving, outbox, muddled>>
           /\ \/ UNCHANGED <<drafts, nextUid, draftQ, saved>>
              \/ \E folder, uids :
                     /\ drafts' = [drafts EXCEPT ![a] = folder]
                     /\ nextUid' = [nextUid EXCEPT ![a] = @ + 1]
                     /\ Gains(drafts[a], folder, nextUid[a], Head(jobs[a]).msg)
                     /\ (DOMAIN drafts[a] \cup {nextUid[a]}) \ uids \subseteq DOMAIN folder
                     /\ uids \subseteq {Head(jobs[a]).replace} /\ None \notin uids
                     /\ \/ UNCHANGED <<draftQ, saved>>
                        \/ /\ saved' = saved \cup {Head(jobs[a]).msg}
                           /\ draftQ' = Append(draftQ,
                                  [do |-> "DraftSaved",
                                   on |-> [account |-> a, uid |-> nextUid[a],
                                           msg |-> Head(jobs[a]).msg]])
<1>1. PICK job : job = Head(jobs[a])
  OBVIOUS
<1>2. /\ jobs[a] # <<>> /\ job.do = "AppendDraft"
      /\ jobs' = [jobs EXCEPT ![a] = Tail(@)]
      /\ UNCHANGED <<composer, pendingDraft, resolving, outbox, muddled>>
  BY <1>1 DEF Writing!AppendDraft, Writing!Job, Writing!Done, Writing!Beside
<1>3. \/ UNCHANGED <<drafts, nextUid, draftQ, saved>>
      \/ /\ drafts' = [drafts EXCEPT ![a] = Writing!Appended(a, job)]
         /\ nextUid' = [nextUid EXCEPT ![a] = @ + 1] /\ UNCHANGED <<draftQ, saved>>
      \/ Writing!Confirms(a, job)
  BY <1>1 DEF Writing!AppendDraft, Writing!Folder
<1>4. CASE UNCHANGED <<drafts, nextUid, draftQ, saved>>
  BY <1>1, <1>2, <1>4
<1>5. CASE /\ drafts' = [drafts EXCEPT ![a] = Writing!Appended(a, job)]
           /\ nextUid' = [nextUid EXCEPT ![a] = @ + 1] /\ UNCHANGED <<draftQ, saved>>
  <2>1. PICK folder, uids : folder = Writing!Appended(a, job) /\ uids = {}
    OBVIOUS
  <2>2. /\ Gains(drafts[a], folder, nextUid[a], job.msg)
        /\ (DOMAIN drafts[a] \cup {nextUid[a]}) \ uids \subseteq DOMAIN folder
    BY <2>1, Appending
  <2>3. /\ drafts' = [drafts EXCEPT ![a] = folder]
        /\ uids \subseteq {job.replace} /\ None \notin uids
    BY <1>5, <2>1
  <2>4. QED BY <1>1, <1>2, <1>5, <2>2, <2>3
<1>6. CASE Writing!Confirms(a, job)
  <2>1. PICK folder, uids : /\ folder = Writing!Without(Writing!Appended(a, job), uids)
                            /\ uids = Writing!Replaced(job)
    OBVIOUS
  <2>2. /\ Gains(drafts[a], folder, nextUid[a], job.msg)
        /\ (DOMAIN drafts[a] \cup {nextUid[a]}) \ uids \subseteq DOMAIN folder
    BY <2>1, Appending
  <2>3. uids \subseteq {job.replace} /\ None \notin uids
    BY <2>1 DEF Writing!Replaced
  <2>4. /\ drafts' = [drafts EXCEPT ![a] = folder]
        /\ nextUid' = [nextUid EXCEPT ![a] = @ + 1]
        /\ saved' = saved \cup {job.msg}
        /\ draftQ' = Append(draftQ, [do |-> "DraftSaved",
                                     on |-> [account |-> a, uid |-> nextUid[a], msg |-> job.msg]])
    BY <1>6, <2>1 DEF Writing!Confirms, Writing!Tells
  <2>5. QED BY <1>1, <1>2, <2>2, <2>3, <2>4
<1>7. QED BY <1>3, <1>4, <1>5, <1>6

LEMMA AppendStep ==
    ASSUME DraftInv, NEW a \in Accounts, Writing!AppendDraft(a)
    PROVE  DraftInv'
<1>1. PICK job, next : job = Head(jobs[a]) /\ next = nextUid[a]
  OBVIOUS
<1>2. /\ jobs[a] # <<>> /\ job.do = "AppendDraft" /\ jobs' = [jobs EXCEPT ![a] = Tail(@)]
      /\ UNCHANGED <<composer, pendingDraft, resolving, outbox, muddled>>
  BY <1>1, AppendIs
<1>3. CASE UNCHANGED <<drafts, nextUid, draftQ, saved>>
  BY <1>2, <1>3, NothingDone
<1>4. ASSUME NEW folder, NEW uids,
             drafts' = [drafts EXCEPT ![a] = folder], nextUid' = [nextUid EXCEPT ![a] = @ + 1],
             Gains(drafts[a], folder, next, job.msg),
             (DOMAIN drafts[a] \cup {next}) \ uids \subseteq DOMAIN folder,
             uids \subseteq {job.replace}, None \notin uids,
             \/ UNCHANGED <<draftQ, saved>>
             \/ /\ saved' = saved \cup {job.msg}
                /\ draftQ' = Append(draftQ, [do |-> "DraftSaved",
                                             on |-> [account |-> a, uid |-> next,
                                                     msg |-> job.msg]])
      PROVE  DraftInv'
  <2>1. /\ JobsTyped'
        /\ \A b \in Accounts : Elements(jobs'[b]) \subseteq Elements(jobs[b])
        /\ ~muddled => JobOwn(drafts, nextUid, outbox, a, job)
    BY <1>1, <1>2, JobDone
  <2>2. /\ nextUid \in [Accounts -> Nat] /\ drafts = [b \in Accounts |-> drafts[b]]
        /\ \A b \in Accounts : \A u \in DOMAIN drafts[b] : u \in Nat /\ u < nextUid[b]
    BY Parts DEF FoldersTyped
  <2>3. PICK new : /\ drafts' = new /\ new = [b \in Accounts |-> new[b]] /\ new[a] = folder
                   /\ \A b \in Accounts : b # a => new[b] = drafts[b]
    BY <1>4, <2>2
  <2>4. PICK after : /\ nextUid' = after /\ after \in [Accounts -> Nat] /\ after[a] = next + 1
                     /\ \A b \in Accounts : nextUid[b] <= after[b]
                     /\ \A b \in Accounts : b # a => after[b] = nextUid[b]
    <3>1. next \in Nat /\ next + 1 \in Nat /\ next <= next + 1
      BY <1>1, <2>2
    <3>2. /\ nextUid' \in [Accounts -> Nat] /\ nextUid'[a] = next + 1
          /\ \A b \in Accounts : b # a => nextUid'[b] = nextUid[b]
      BY <1>1, <1>4, <2>2, <3>1
    <3>3. \A b \in Accounts : nextUid[b] <= nextUid'[b]
      BY <1>1, <2>2, <3>1, <3>2
    <3>4. QED BY <3>2, <3>3
  <2>5. next \in Nat /\ \A u \in DOMAIN drafts[a] : u \in Nat /\ u < next
    BY <1>1, <2>2
  <2>6. /\ DOMAIN folder \subseteq DOMAIN drafts[a] \cup {next}
        /\ \A u \in DOMAIN folder : folder[u].msg = IF u = next THEN job.msg ELSE drafts[a][u].msg
    BY <1>4 DEF Gains
  <2>7. FoldersTyped'
    <3>1. \A u \in DOMAIN folder : u \in Nat /\ u < next + 1
      BY <2>5, <2>6
    <3>2. \A b \in Accounts : \A u \in DOMAIN new[b] : u \in Nat /\ u < after[b]
      BY <2>2, <2>3, <2>4, <3>1
    <3>3. QED BY <2>3, <2>4, <3>2 DEF FoldersTyped
  <2>8. Grows(drafts, nextUid, outbox, drafts', nextUid', outbox')
    <3>1. \A u \in DOMAIN folder :
              u < next => u \in DOMAIN drafts[a] /\ folder[u].msg = drafts[a][u].msg
      BY <2>5, <2>6
    <3>2. Grows(drafts, nextUid, outbox, new, after, outbox)
      BY <1>1, <2>3, <2>4, <3>1 DEF Grows
    <3>3. QED BY <1>2, <2>3, <2>4, <3>2
  <2>9. PICK e, on : /\ e = [do |-> "DraftSaved", on |-> on]
                     /\ on = [account |-> a, uid |-> next, msg |-> job.msg]
    OBVIOUS
  <2>10. AskTyped(e) /\ AskOwn(new, after, e)
    <3>1. e.do = "DraftSaved" /\ e.on = on /\ on.account = a /\ on.uid = next /\ on.msg = job.msg
      BY <2>9
    <3>2. next < after[a]
      BY <2>4, <2>5
    <3>3. OfMessage(new, after, a, next, job.msg)
      BY <2>3, <2>5, <2>6, <3>2 DEF OfMessage
    <3>4. QED BY <3>1, <3>3 DEF AskTyped, AskOwn
  <2>11. AsksTyped' /\ \A x \in Elements(draftQ') : x \in Elements(draftQ) \/ x = e
    <3>1. CASE UNCHANGED draftQ
      BY <1>2, <3>1, Parts DEF AsksTyped
    <3>2. CASE draftQ' = Append(draftQ, e)
      <4>1. /\ Queue(draftQ') /\ \A x \in Elements(draftQ') : AskTyped(x)
            /\ Elements(draftQ') = Elements(draftQ) \cup {e}
        BY <2>10, <3>2, QueueGrows
      <4>2. QED BY <1>2, <4>1, Parts DEF AsksTyped
    <3>3. QED BY <1>4, <2>9, <3>1, <3>2
  <2>12. ASSUME ~muddled PROVE SavedKept'
    <3>1. next \notin uids
      <4>1. ASSUME next \in uids PROVE FALSE
        <5>1. job.replace = next /\ next # None
          BY <1>4, <4>1
        <5>2. OfMessage(drafts, nextUid, a, next, job.msg)
          BY <1>2, <2>1, <2>12, <5>1 DEF JobOwn
        <5>3. QED BY <1>1, <2>5, <5>2 DEF OfMessage
      <4>2. QED BY <4>1
    <3>2. HasVersion(new, job.msg)
      BY <1>4, <2>3, <2>6, <3>1 DEF HasVersion
    <3>3. ASSUME NEW m, HasVersion(drafts, m) PROVE HasVersion(new, m)
      <4>1. PICK b \in Accounts : \E u \in DOMAIN drafts[b] : drafts[b][u].msg = m
        BY <3>3 DEF HasVersion
      <4>2. PICK u \in DOMAIN drafts[b] : drafts[b][u].msg = m
        BY <4>1
      <4>3. CASE b = a
        <5>1. CASE u \in uids
          <6>1. job.replace = u /\ u # None
            BY <1>4, <5>1
          <6>2. OfMessage(drafts, nextUid, a, u, job.msg)
            BY <1>2, <2>1, <2>12, <6>1 DEF JobOwn
          <6>3. m = job.msg
            BY <4>2, <4>3, <6>2 DEF OfMessage
          <6>4. QED BY <3>2, <6>3
        <5>2. CASE u \notin uids
          <6>1. u \in DOMAIN folder /\ u # next
            BY <1>4, <2>5, <4>2, <4>3, <5>2
          <6>2. folder[u].msg = m
            BY <2>6, <4>2, <4>3, <6>1
          <6>3. QED BY <2>3, <4>3, <6>1, <6>2 DEF HasVersion
        <5>3. QED BY <5>1, <5>2
      <4>4. CASE b # a
        BY <2>3, <4>2, <4>4 DEF HasVersion
      <4>5. QED BY <4>3, <4>4
    <3>4. \A m \in saved' : m \in saved \/ m = job.msg
      BY <1>4
    <3>5. QED BY <1>2, <2>3, <2>12, <3>2, <3>3, <3>4, Parts DEF SavedKept
  <2>13. \A x \in Elements(draftQ') : x \in Elements(draftQ) \/ AskOwn(drafts', nextUid', x)
    BY <2>3, <2>4, <2>10, <2>11
  <2>14. QED BY <1>2, <2>1, <2>7, <2>8, <2>11, <2>12, <2>13, WorkerStep
<1>5. QED BY <1>1, <1>3, <1>4, AppendIs

LEMMA DraftInvInit == Writing!DraftsInit => DraftInv
<1> SUFFICES ASSUME Writing!DraftsInit PROVE DraftInv
  OBVIOUS
<1>1. /\ composer = None /\ pendingDraft = None /\ draftQ = <<>> /\ resolving = {}
      /\ jobs = [a \in Accounts |-> <<>>] /\ drafts = [a \in Accounts |-> <<>>]
      /\ nextUid = [a \in Accounts |-> 1] /\ saved = {} /\ muddled = FALSE
  BY DEF Writing!DraftsInit
<1>2. Queue(<<>>) /\ Elements(<<>>) = {}
  BY NothingQueued
<1>3. FoldersTyped
  <2>1. DOMAIN <<>> = {}
    OBVIOUS
  <2>2. QED BY <1>1, <2>1 DEF FoldersTyped
<1>4. WritingTyped
  BY <1>1, <1>2, <1>3 DEF WritingTyped, JobsTyped, AsksTyped
<1>5. Own
  BY <1>1, <1>2 DEF Own, ComposerOwn, QueueOwn, ResolvingOwn, JobsOwn, PendingOwn, SavedKept
<1>6. QED BY <1>4, <1>5 DEF DraftInv

LEMMA DraftInvNext == DraftInv /\ [Writing!DraftsNext]_(Writing!draftVars) => DraftInv'
<1> SUFFICES ASSUME DraftInv, [Writing!DraftsNext]_(Writing!draftVars) PROVE DraftInv'
  OBVIOUS
<1>1. ASSUME NEW a \in Accounts, Writing!Compose(a) \/ Writing!StartReply(a) PROVE DraftInv'
  BY <1>1, OpensStep
<1>2. ASSUME NEW a \in Accounts, NEW u \in DOMAIN drafts[a], Writing!StartEditDraft(a, u)
      PROVE  DraftInv'
  BY <1>2, OpensStep
<1>3. ASSUME NEW a \in Accounts, Writing!IdentitySelected(a) PROVE DraftInv'
  BY <1>3, ComposingStep
<1>4. ASSUME NEW a \in Accounts, Writing!AppendDraft(a) PROVE DraftInv'
  BY <1>4, AppendStep
<1>5. ASSUME NEW a \in Accounts, Writing!DeleteDraft(a) PROVE DraftInv'
  BY <1>5, DeleteStep
<1>6. ASSUME NEW a \in Accounts, NEW some, Writing!Drained(a, some) PROVE DraftInv'
  BY <1>6, DrainedStep
<1>7. CASE Writing!IdentitiesLoaded \/ Writing!Types \/ Writing!Closes
  BY <1>7, ComposingStep
<1>8. CASE Writing!Clicks("SaveDraft") \/ Writing!Clicks("DraftReady")
  BY <1>8, ClicksStep
<1>9. CASE Writing!SaveDraft
  BY <1>9, SavesStep
<1>10. CASE Writing!DraftSaved
  BY <1>10, SavedStep
<1>11. CASE Writing!DraftReady
  BY <1>11, ReadyStep
<1>12. CASE Writing!SendResult
  BY <1>12, ReportStep
<1>13. ASSUME NEW draft \in resolving, Writing!SaveDraftResolved(draft) PROVE DraftInv'
  BY <1>13, ResolvedStep
<1>14. CASE UNCHANGED Writing!draftVars
  BY <1>14 DEF Writing!draftVars, DraftInv, WritingTyped, ComposerShape, FoldersTyped,
         JobsTyped, AsksTyped, Own, ComposerOwn, QueueOwn, ResolvingOwn, JobsOwn, PendingOwn,
         SavedKept
<1>15. QED
  BY <1>1, <1>2, <1>3, <1>4, <1>5, <1>6, <1>7, <1>8, <1>9, <1>10, <1>11, <1>12, <1>13, <1>14
  DEF Writing!DraftsNext

(* composer.rs, window.rs, worker.rs and save_draft together: a message    *)
(* whose saving was confirmed has a version in a Drafts folder until the   *)
(* outbox has it, whatever call fails, as long as no reference went to     *)
(* another message or another account.                                     *)
THEOREM SavedDraftsKept == Writing!DraftsSpec => []DraftsAreKept
<1>1. DraftInv => DraftsAreKept
  <2> SUFFICES ASSUME DraftInv, ~muddled, NEW m \in saved, m \notin DOMAIN outbox
               PROVE  Writing!Versions(m) # {}
    BY DEF DraftsAreKept, Writing!DraftsAreKept
  <2>1. PICK a \in Accounts : \E u \in DOMAIN drafts[a] : drafts[a][u].msg = m
    BY Parts DEF SavedKept, HasVersion
  <2>2. QED BY <2>1 DEF Writing!Versions
<1>2. QED BY <1>1, DraftInvInit, DraftInvNext, PTL DEF Writing!DraftsSpec

(* composer.rs DraftRef: saving a draft removes nothing but earlier        *)
(* versions of that message, as long as no reference went to another       *)
(* message or another account.                                             *)
THEOREM SavingReplacesItsOwn ==
    Writing!DraftsSpec =>
        [][\A a \in Accounts : \A u \in DOMAIN drafts[a] \ DOMAIN drafts'[a] :
               Head(jobs[a]).do = "AppendDraft" =>
                   muddled \/ drafts[a][u].msg = Head(jobs[a]).msg]_(Writing!draftVars)
<1> DEFINE Keeps == \A a \in Accounts : \A u \in DOMAIN drafts[a] \ DOMAIN drafts'[a] :
                        Head(jobs[a]).do = "AppendDraft" =>
                            muddled \/ drafts[a][u].msg = Head(jobs[a]).msg
<1>1. ASSUME DraftInv, [Writing!DraftsNext]_(Writing!draftVars)
      PROVE  [Keeps]_(Writing!draftVars)
  <2> SUFFICES ASSUME NEW a \in Accounts, NEW u \in DOMAIN drafts[a], u \notin DOMAIN drafts'[a],
                      Head(jobs[a]).do = "AppendDraft", ~muddled
               PROVE  drafts[a][u].msg = Head(jobs[a]).msg
    OBVIOUS
  <2>1. drafts = [b \in Accounts |-> drafts[b]] /\ drafts # drafts'
    BY <1>1, Parts DEF FoldersTyped
  <2>2. PICK b \in Accounts : Writing!AppendDraft(b) \/ Writing!DeleteDraft(b)
    BY <1>1, <2>1 DEF Writing!DraftsNext, Writing!Compose, Writing!StartReply, Writing!Starts,
           Writing!Opens, Writing!StartEditDraft, Writing!IdentitySelected, Writing!Composer,
           Writing!IdentitiesLoaded, Writing!Types, Writing!Closes, Writing!Clicks,
           Writing!SaveDraft, Writing!DraftSaved, Writing!DraftReady, Writing!SendResult,
           Writing!SaveDraftResolved, Writing!Drained, Writing!Folder, Writing!draftVars
  <2>3. CASE Writing!DeleteDraft(b)
    <3>1. b = a
      BY <2>1, <2>3 DEF Writing!DeleteDraft
    <3>2. QED BY <2>3, <3>1 DEF Writing!DeleteDraft, Writing!Job
  <2>4. CASE Writing!AppendDraft(b)
    <3>1. PICK folder, uids :
              /\ drafts' = [drafts EXCEPT ![b] = folder]
              /\ (DOMAIN drafts[b] \cup {nextUid[b]}) \ uids \subseteq DOMAIN folder
              /\ uids \subseteq {Head(jobs[b]).replace} /\ None \notin uids
      BY <1>1, <2>1, <2>4, AppendIs
    <3>2. b = a /\ drafts'[a] = folder
      BY <2>1, <3>1
    <3>3. u = Head(jobs[a]).replace /\ u # None
      BY <3>1, <3>2
    <3>4. jobs[a] # <<>>
      BY <1>1, <2>4, <3>2, AppendIs
    <3>5. Head(jobs[a]) \in Elements(jobs[a])
      <4>1. Queue(jobs[a])
        BY <1>1, Parts DEF JobsTyped
      <4>2. QED BY <3>4, <4>1, QueueIs
    <3>6. JobOwn(drafts, nextUid, outbox, a, Head(jobs[a]))
      BY <1>1, <3>5, Parts DEF JobsOwn
    <3>7. QED BY <3>3, <3>6 DEF JobOwn, OfMessage
  <2>5. QED BY <2>2, <2>3, <2>4
<1>2. QED BY <1>1, DraftInvInit, DraftInvNext, PTL DEF Writing!DraftsSpec
=============================================================================
