--------------------------- MODULE CommentsHistory ---------------------------
(***************************************************************************)
(* Comments with history variables that guard no step: which rows two      *)
(* requests have held a copy of at the same time, which approvals were     *)
(* acknowledged, and which a version can have come by.                     *)
(***************************************************************************)
EXTENDS Comments

VARIABLES
    raced,   \* comments and versions of which two requests held copies at once
    granted, \* <<version, element>> of every approval written
    asked    \* <<version, element>> asked for by a request that found that version
             \* the latest, or taken over when it was added

historyVars == <<vars, raced, granted, asked>>

HoldsComment(r, c) == request[r].step = "save" /\ request[r].comment = c
HoldsVersion(r, i) == request[r].step = "write" /\ request[r].version = i

Shared ==
    {c \in CommentIds :
        \E q, r \in Requests : q # r /\ HoldsComment(q, c) /\ HoldsComment(r, c)}
    \union
    {i \in DOMAIN versions :
        \E q, r \in Requests : q # r /\ HoldsVersion(q, i) /\ HoldsVersion(r, i)}

\* The approvals of the copy a request is going to write.
Pairs(r) == {request[r].version} \X request[r].next.approved

Writes(r) == request[r].step = "write" /\ request'[r] = Auditing
Reads(r) == request[r] = Idle /\ request'[r].step = "write"

HistoryInit == Init /\ raced = {} /\ granted = {} /\ asked = {}

HistoryNext ==
    /\ Next
    /\ raced' = raced \union Shared'
    /\ granted' = granted \union (UNION {Pairs(r) : r \in {q \in Requests : Writes(q)}})
    /\ asked' = asked
          \union (UNION {Pairs(r)' : r \in {q \in Requests : Reads(q)}})
          \union (IF Len(versions') > Len(versions)
                  THEN {Len(versions')} \X versions'[Len(versions')].approved ELSE {})

HistorySpec == HistoryInit /\ [][HistoryNext]_historyVars

-----------------------------------------------------------------------------
(* Properties                                                              *)

\* While no two requests hold a copy of the same comment, each save is the one
\* edit it stands for, made to the row as it is: a comment that is resolved or
\* deleted stays so, and nothing is taken back.  Overlapping requests lose
\* edits, because save writes back every column of the copy.
SerialEditsAreAtomic ==
    [][\A c \in CommentIds \ raced :
          comments[c] # None /\ comments'[c] # comments[c] =>
             \E r \in Requests, op \in RowEdits, user, assignee \in Users :
                comments'[c] = Edited(comments[c], r, op, user, assignee)]_vars

\* An approval that was acknowledged is in the version it was made on, unless
\* two approvals of that version overlapped.
AcknowledgedApprovalsKept ==
    \A p \in granted : p[1] \in raced \/ p[2] \in versions[p[1]].approved

\* An element is approved in a version only when a request found this very
\* version the latest and asked for it, or the version was added with it: a
\* version added between the query and the UPDATE of a request gets no approval
\* of it, and nothing else puts approvals into a version.  It says nothing of
\* the page the reviewer had open: the request names no version, so what was
\* added before it arrived is approved whether the reviewer has seen it or not.
ApprovalsOnVersionRead ==
    \A i \in DOMAIN versions : {i} \X versions[i].approved \subseteq asked

-----------------------------------------------------------------------------
(* What makes them inductive                                               *)

\* A copy of a comment no other request holds is the row with one edit ...
CommentCopyIsFresh(r) ==
    request[r].step = "save" =>
        LET c == request[r].comment IN
        /\ c \in Existing
        /\ c \in raced \/ \E op \in RowEdits, user, assignee \in Users :
                              request[r].next = Edited(comments[c], r, op, user, assignee)

\* ... and a copy of a version has at least the approvals of the row.
VersionCopyIsFresh(r) ==
    request[r].step = "write" =>
        LET i == request[r].version IN
        i \in raced \/ versions[i].approved \subseteq request[r].next.approved

CopiesAreFresh == \A r \in Requests : CommentCopyIsFresh(r) /\ VersionCopyIsFresh(r)

\* What a request is going to approve was asked for on the version it read.
WritesWereAsked ==
    \A r \in Requests : request[r].step = "write" => Pairs(r) \subseteq asked

IInv ==
    /\ TypeOK
    /\ Shared \subseteq raced
    /\ granted \subseteq (DOMAIN versions) \X Elements
    /\ CopiesAreFresh
    /\ WritesWereAsked
    /\ AcknowledgedApprovalsKept
    /\ ApprovalsOnVersionRead
=============================================================================
