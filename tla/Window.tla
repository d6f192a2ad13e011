------------------------------- MODULE Window -------------------------------
(***************************************************************************)
(* Reading and writing mail in one window.  Reader and Drafts share the    *)
(* window's message loop but no state, so the messages that the two leave  *)
(* in its queue are kept apart, and so are their failing calls.            *)
(***************************************************************************)
EXTENDS Reader

CONSTANTS Accounts, MaxMessages, MaxVersions, MaxClicks, MaxReports, MaxFaults

VARIABLES composer, pendingDraft, draftQ, resolving, jobs, drafts, nextUid, outbox, started,
          clicks, reports, callFaults, saved, muddled

Writing == INSTANCE Drafts WITH winQ <- draftQ, faults <- callFaults

(* A message whose saving was confirmed has a version on the server until  *)
(* it is handed to the outbox (save_draft): see Drafts.                    *)
DraftsAreKept == Writing!DraftsAreKept
=============================================================================
