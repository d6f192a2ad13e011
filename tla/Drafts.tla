------------------------------- MODULE Drafts -------------------------------
(***************************************************************************)
(* Writing mail: the composer (app/src/composer.rs), the window that opens *)
(* it and passes on what it asks for (window.rs), the service that finds   *)
(* the Drafts folder (sync.rs), and the account workers that keep versions *)
(* of the message there (worker.rs append_draft and delete_draft,          *)
(* sync/save.rs save_draft).                                               *)
(*                                                                         *)
(* A message is a number and its text a version.  The window holds one     *)
(* composer: opening another drops the one before, whose answers then come *)
(* to the new one.  The outbox is Outbox's: here a message is handed to it *)
(* and passes over it are reported.                                        *)
(***************************************************************************)
EXTENDS Integers, Sequences, Functions

CONSTANTS
    Accounts, None,
    MaxMessages,    \* messages started (bounds the state space)
    MaxVersions,    \* versions of the text of each (bounds it)
    MaxClicks,      \* saves and sends asked for (bounds it)
    MaxReports,     \* passes over the outbox reported (bounds it)
    MaxFaults       \* calls to the server that fail (bounds it)

VARIABLES
    composer,   \* the composer the window holds
    pendingDraft,   \* Window: the draft of the message handed over last
    winQ,       \* what the window has still to handle
    resolving,  \* saves whose Drafts folder is being looked up
    jobs,       \* account -> the commands its worker has still to do
    drafts,     \* account -> the Drafts folder on the server: UID -> message and version
    nextUid,    \* account -> the UID the server gives next
    outbox,     \* the messages handed over -> account, and whether delivered
    started, clicks, reports, faults,
    saved,      \* history: the messages whose saving was confirmed
    muddled     \* history: a reference to a draft went to another message or account

draftVars == <<composer, pendingDraft, winQ, resolving, jobs, drafts, nextUid, outbox, started,
               clicks, reports, faults, saved, muddled>>

Folder == <<drafts, nextUid>>
Bounds == <<started, clicks, reports, faults>>
History == <<saved, muddled>>

Ref(a, u) == [account |-> a, uid |-> u]
Put(f, x, y) == [z \in DOMAIN f \cup {x} |-> IF z = x THEN y ELSE f[z]]
Turn(do) == winQ # <<>> /\ Head(winQ).do = do
Taken == winQ' = Tail(winQ)
Tells(do, on) == winQ' = Append(winQ, [do |-> do, on |-> on])

(***************************************************************************)
(* Opening a composer.  It is not ready before it knows the identities;    *)
(* only then does it take the message it was opened with.                  *)
(***************************************************************************)
Opened(msg, ver, a, ref) ==
    [msg |-> msg, ver |-> ver, account |-> a, ref |-> None, initial |-> ref,
     shown |-> TRUE, ready |-> FALSE]

Opens(msg, ver, a, ref) ==
    /\ composer' = Opened(msg, ver, a, ref)
    /\ UNCHANGED <<pendingDraft, winQ, resolving, jobs, Folder, outbox, clicks, reports, faults,
                   History>>

Starts(a) == started < MaxMessages /\ started' = started + 1 /\ Opens(started + 1, 1, a, None)

Shown == composer # None /\ composer.shown

(* Compose presents the composer there is; a reply always opens its own.   *)
Compose(a) == ~Shown /\ Starts(a)
StartReply(a) == Shown /\ Starts(a)

StartEditDraft(a, u) ==
    /\ u \in DOMAIN drafts[a] /\ UNCHANGED started
    /\ Opens(drafts[a][u].msg, drafts[a][u].ver, a, Ref(a, u))

IdentitiesLoaded ==
    /\ Shown /\ ~composer.ready
    /\ composer' = [composer EXCEPT !.ready = TRUE,
                        !.ref = IF composer.initial = None THEN @ ELSE composer.initial]
    /\ UNCHANGED <<pendingDraft, winQ, resolving, jobs, Folder, outbox, Bounds, History>>

(***************************************************************************)
(* The user, in the composer                                               *)
(***************************************************************************)
Composer(c) ==
    /\ Shown /\ composer.ready /\ composer' = c
    /\ UNCHANGED <<pendingDraft, winQ, resolving, jobs, Folder, outbox, Bounds, History>>

Types == Shown /\ composer.ver < MaxVersions /\ Composer([composer EXCEPT !.ver = @ + 1])
IdentitySelected(a) == Shown /\ a # composer.account /\ Composer([composer EXCEPT !.account = a])
Closes == Shown /\ Composer([composer EXCEPT !.shown = FALSE])

(* What Send and SaveDraft output: the message with the composer's         *)
(* reference, whose account may not be the identity's.                     *)
Draft == [msg |-> composer.msg, ver |-> composer.ver, account |-> composer.account,
          ref |-> composer.ref]

Clicks(do) ==
    /\ Shown /\ composer.ready /\ clicks < MaxClicks /\ clicks' = clicks + 1
    /\ Tells(do, Draft)
    /\ muddled' = (muddled \/ (/\ do = "SaveDraft" /\ composer.ref # None
                               /\ composer.ref.account # composer.account))
    /\ UNCHANGED <<composer, pendingDraft, resolving, jobs, Folder, outbox, started, reports,
                   faults, saved>>

(***************************************************************************)
(* The window and the service                                              *)
(***************************************************************************)
Save(draft) == [do |-> "AppendDraft", msg |-> draft.msg, ver |-> draft.ver,
                replace |-> IF draft.ref = None THEN None ELSE draft.ref.uid]
Delete(uid) == [do |-> "DeleteDraft", uid |-> uid]

SaveDraft ==
    /\ Turn("SaveDraft") /\ Taken
    /\ resolving' = resolving \cup {Head(winQ).on}
    /\ UNCHANGED <<composer, pendingDraft, jobs, Folder, outbox, Bounds, History>>

SaveDraftResolved(draft) ==
    /\ resolving' = resolving \ {draft}
    /\ jobs' = [jobs EXCEPT ![draft.account] = Append(@, Save(draft))]
    /\ UNCHANGED <<composer, pendingDraft, winQ, Folder, outbox, Bounds, History>>

(* The answer names a folder and a UID, and no message.                    *)
DraftSaved ==
    /\ Turn("DraftSaved") /\ Taken
    /\ IF composer # None /\ composer.ready
       THEN /\ composer' = [composer EXCEPT !.ref = Ref(composer.account, Head(winQ).on.uid)]
            /\ muddled' = (muddled \/ Head(winQ).on.msg # composer.msg
                                   \/ Head(winQ).on.account # composer.account)
       ELSE UNCHANGED <<composer, muddled>>
    /\ UNCHANGED <<pendingDraft, resolving, jobs, Folder, outbox, Bounds, saved>>

DraftReady ==
    /\ Turn("DraftReady") /\ Taken
    /\ LET draft == Head(winQ).on IN
       /\ pendingDraft' = draft.ref
       /\ outbox' = Put(outbox, draft.msg, [account |-> draft.account, delivered |-> FALSE])
    /\ UNCHANGED <<composer, resolving, jobs, Folder, Bounds, History>>

(* A pass over the outbox of any account, one that sent nothing too,       *)
(* closes the composer; one that sent something drops the pending draft.   *)
SendResult ==
    /\ Turn("SendResult") /\ Taken
    /\ composer' = IF composer = None THEN None ELSE [composer EXCEPT !.shown = FALSE]
    /\ IF Head(winQ).on /\ pendingDraft # None
       THEN /\ jobs' = [jobs EXCEPT ![pendingDraft.account] = Append(@, Delete(pendingDraft.uid))]
            /\ pendingDraft' = None
       ELSE UNCHANGED <<jobs, pendingDraft>>
    /\ UNCHANGED <<resolving, Folder, outbox, Bounds, History>>

(***************************************************************************)
(* The account worker.  A call that fails may have been done or not.       *)
(***************************************************************************)
Fault == faults < MaxFaults /\ faults' = faults + 1
NoFault == UNCHANGED faults
Job(a, do) == jobs[a] # <<>> /\ Head(jobs[a]).do = do
Done(a) == jobs' = [jobs EXCEPT ![a] = Tail(@)]
Beside == <<composer, pendingDraft, resolving, outbox, started, clicks, reports, muddled>>

Without(folder, uids) == Restrict(folder, DOMAIN folder \ uids)
Appended(a, job) == Put(drafts[a], nextUid[a], [msg |-> job.msg, ver |-> job.ver])
Replaced(job) == IF job.replace = None THEN {} ELSE {job.replace}

Confirms(a, job) ==
    /\ drafts' = [drafts EXCEPT ![a] = Without(Appended(a, job), Replaced(job))]
    /\ nextUid' = [nextUid EXCEPT ![a] = @ + 1]
    /\ Tells("DraftSaved", [account |-> a, uid |-> nextUid[a], msg |-> job.msg])
    /\ saved' = saved \cup {job.msg}
    /\ NoFault

(* As if the version before went first.                                    *)
AppendDraftLast(a) ==
    /\ Job(a, "AppendDraft") /\ Done(a)
    /\ LET job == Head(jobs[a]) IN
       \/ Confirms(a, job)
       \/ Fault /\ UNCHANGED <<Folder, winQ, saved>>
       \/ /\ Fault /\ UNCHANGED <<winQ, saved, nextUid>>
          /\ drafts' = [drafts EXCEPT ![a] = Without(@, Replaced(job))]
    /\ UNCHANGED Beside

(* save_draft: the new version, and then the one before.                   *)
AppendDraft(a) ==
    /\ Job(a, "AppendDraft") /\ Done(a)
    /\ LET job == Head(jobs[a]) IN
       \/ Confirms(a, job)
       \/ Fault /\ UNCHANGED <<Folder, winQ, saved>>
       \/ /\ Fault /\ UNCHANGED <<winQ, saved>>
          /\ drafts' = [drafts EXCEPT ![a] = Appended(a, job)]
          /\ nextUid' = [nextUid EXCEPT ![a] = @ + 1]
    /\ UNCHANGED Beside

DeleteDraft(a) ==
    /\ Job(a, "DeleteDraft") /\ Done(a)
    /\ \/ /\ NoFault
          /\ drafts' = [drafts EXCEPT ![a] = Without(@, {Head(jobs[a]).uid})]
       \/ Fault /\ UNCHANGED drafts
    /\ UNCHANGED <<Beside, winQ, saved, nextUid>>

(* A pass of an account's send worker, also after a mere reconnection.     *)
Drained(a, some) ==
    /\ some \subseteq {m \in DOMAIN outbox : outbox[m].account = a /\ ~outbox[m].delivered}
    /\ reports < MaxReports /\ reports' = reports + 1
    /\ outbox' = [m \in DOMAIN outbox |->
                      IF m \in some THEN [outbox[m] EXCEPT !.delivered = TRUE] ELSE outbox[m]]
    /\ Tells("SendResult", some # {})
    /\ UNCHANGED <<composer, pendingDraft, resolving, jobs, Folder, started, clicks, faults,
                   History>>

DraftsInit ==
    /\ composer = None /\ pendingDraft = None /\ winQ = <<>> /\ resolving = {}
    /\ jobs = [a \in Accounts |-> <<>>] /\ drafts = [a \in Accounts |-> <<>>]
    /\ nextUid = [a \in Accounts |-> 1] /\ outbox = <<>>
    /\ started = 0 /\ clicks = 0 /\ reports = 0 /\ faults = 0 /\ saved = {} /\ muddled = FALSE

DraftsNext ==
    \/ \E a \in Accounts :
          \/ Compose(a) \/ StartReply(a) \/ IdentitySelected(a)
          \/ \E u \in DOMAIN drafts[a] : StartEditDraft(a, u)
          \/ AppendDraft(a) \/ DeleteDraft(a)
          \/ \E some \in SUBSET DOMAIN outbox : Drained(a, some)
    \/ IdentitiesLoaded \/ Types \/ Closes \/ Clicks("SaveDraft") \/ Clicks("DraftReady")
    \/ SaveDraft \/ DraftSaved \/ DraftReady \/ SendResult
    \/ \E draft \in resolving : SaveDraftResolved(draft)

DraftsSpec == DraftsInit /\ [][DraftsNext]_draftVars

(***************************************************************************)
(* What must hold                                                          *)
(***************************************************************************)
Versions(m) == UNION {{u \in DOMAIN drafts[a] : drafts[a][u].msg = m} : a \in Accounts}

(* A message whose saving was confirmed has a version on the server until  *)
(* it is handed to the outbox, whatever call fails (save_draft), unless    *)
(* the composer's reference was to another draft.                          *)
DraftsAreKept == \A m \in saved : Versions(m) # {} \/ m \in DOMAIN outbox \/ muddled

(* Saving a draft removes nothing but earlier versions of that message     *)
(* ("so saving it again can replace the previous version",                 *)
(* composer.rs DraftRef).                                                  *)
ReplacesItsOwn ==
    [][\A a \in Accounts : \A u \in DOMAIN drafts[a] \ DOMAIN drafts'[a] :
           Head(jobs[a]).do = "AppendDraft" => drafts[a][u].msg = Head(jobs[a]).msg]_draftVars
=============================================================================
