------------------------------ MODULE Requests ------------------------------
(***************************************************************************)
(* What the daemon is asked for, one request after another: the lines of   *)
(* an agent through the bridge and the calls of the terminal client        *)
(* (Bridge, Tools, Calls), attachments previewed, exported and forwarded   *)
(* (Attachments), letters answered and threaded (Correspondence), lists,   *)
(* searches and SQL (Queries), and the approvals the terminal client shows *)
(* (ApprovalView).  They share no state in the daemon beyond the rows each *)
(* of them models, so a behaviour follows one of them.                     *)
(***************************************************************************)
EXTENDS Bridge, Attachments, Correspondence, Queries, ApprovalView

VARIABLE subject   \* which of them this behaviour is about

requestVars == <<subject, bridgeVars, attachmentVars, letterVars, queryVars, viewVars>>

RequestInit ==
    /\ subject \in {"calls", "files", "letters", "queries", "approvals"}
    /\ IF subject = "calls" THEN BridgeInit ELSE BridgeStart({<<>>}, "ended")
    /\ IF subject = "files" THEN AttachmentInit ELSE AttachmentStart({<<>>})
    /\ IF subject = "letters" THEN LetterInit ELSE LetterStart({<<>>}, {TRUE})
    /\ IF subject = "queries" THEN QueryInit ELSE QueryStart({{}})
    /\ ViewStart

RequestNext ==
    \/ /\ subject = "calls" /\ BridgeNext
       /\ UNCHANGED <<subject, attachmentVars, letterVars, queryVars, viewVars>>
    \/ /\ subject = "files" /\ AttachmentNext
       /\ UNCHANGED <<subject, bridgeVars, letterVars, queryVars, viewVars>>
    \/ /\ subject = "letters" /\ LetterNext
       /\ UNCHANGED <<subject, bridgeVars, attachmentVars, queryVars, viewVars>>
    \/ /\ subject = "queries" /\ QueryNext
       /\ UNCHANGED <<subject, bridgeVars, attachmentVars, letterVars, viewVars>>
    \/ /\ subject = "approvals" /\ ViewNext
       /\ UNCHANGED <<subject, bridgeVars, attachmentVars, letterVars, queryVars>>

RequestSpec == RequestInit /\ [][RequestNext]_requestVars /\ BridgeFairness

=============================================================================
