------------------------- MODULE OrganizationsHistory ------------------------
(***************************************************************************)
(* Organizations with history: whether two changes were ever on their way  *)
(* together, which users are concerned, and whose request failed.  The     *)
(* history guards no step; the properties say what holds as long as        *)
(* requests do not cross.                                                  *)
(***************************************************************************)
EXTENDS Organizations

VARIABLES
    overlapped, \* two changes of users were on their way together
    raced,      \* users of which two requests held a copy together
    cut         \* users of which a request failed on its way

historyVars == <<vars, overlapped, raced, cut>>

Changing(r) == request[r].step \in {"count", "recheck", "save"}
Telling(r) == request[r].step \in {"tokens", "audit"}
Holds(r, u) == (Changing(r) \/ Telling(r)) /\ request[r].user = u

HistoryInit == Init /\ overlapped = FALSE /\ raced = {} /\ cut = {}

HistoryNext ==
    /\ Next
    /\ overlapped' = (overlapped \/ \E r, s \in Requests : r # s /\ Changing(r)' /\ Changing(s)')
    /\ raced' = raced \union
          {u \in Users : \E r, s \in Requests : r # s /\ Holds(r, u)' /\ Holds(s, u)'}
    /\ cut' = cut \union {request[r].user : r \in
                 {q \in Requests : faults' > faults /\ request'[q] # request[q]}}

HistorySpec == HistoryInit /\ [][HistoryNext]_historyVars

-----------------------------------------------------------------------------
(* Properties                                                              *)

\* Whatever is invited, promoted, demoted and revoked, whichever requests fail
\* and whatever the administrators do to each other and to themselves, an
\* active administrator remains unless two changes overlapped: the count and
\* the save are two calls.
SerialLastAdminKept == overlapped \/ LastAdminKept

\* A user that is not active holds no refresh token, but for the time between
\* the two writes of its revocation, or when that revocation failed between
\* them, or when another request brought an old copy of the row back.
SerialRevokedHoldNoTokens ==
    \A u \in Members \ (raced \union cut) :
        users[u].active \/ u \notin refresh
        \/ \E r \in Requests : request[r].step = "tokens" /\ request[r].user = u

\* audit_log tells the role and state of every user between requests, unless
\* copies of its row overlapped or an audit row was lost.
SerialTrailMatches ==
    \A u \in Users \ (raced \union cut) :
        trail[u] = users[u]
        \/ \E r \in Requests : Telling(r) /\ request[r].user = u

-----------------------------------------------------------------------------
(* What makes them inductive                                               *)

\* What the history says: changes did not meet, and a copy has no rival.
HistoryTells ==
    /\ ~overlapped => \A r, s \in Requests : Changing(r) /\ Changing(s) => r = s
    /\ \A u \in Users \ raced : \A r, s \in Requests : Holds(r, u) /\ Holds(s, u) => r = s

\* The operation a step belongs to, and that it works on a user's row.
StepOfOp(r) ==
    /\ request[r].step = "insert" => request[r].op = "invite" /\ request[r].next.active
    /\ Changing(r) => request[r].op \in {"update", "revoke"}
    /\ request[r].step = "tokens" => request[r].op = "revoke"
    /\ Changing(r) \/ Telling(r) => request[r].user \in Members

\* The row r will save is a given row, edited.
Edits(r, row) ==
    \/ request[r].op = "update" /\ request[r].next = [row EXCEPT !.admin = ~row.admin]
    \/ request[r].op = "revoke" /\ request[r].next = [row EXCEPT !.active = FALSE]

\* Nothing has happened to a row since its only holder loaded it.
CopyIsFresh(r) ==
    Changing(r) /\ (~overlapped \/ request[r].user \notin raced) =>
        Edits(r, users[request[r].user])

\* An administrator about to be demoted or revoked has been counted, and is not
\* the only active one.
CountStands(r) ==
    ~overlapped =>
        /\ request[r].step \in {"count", "recheck"} => users[request[r].user].admin
        /\ request[r].step = "save" /\ users[request[r].user].admin =>
              \E v \in ActiveAdmins : v # request[r].user

\* What the audit row of r will add to the trail is what r has saved.
Tells(r, before, after) ==
    \/ request[r].op = "invite" /\ after = request[r].next
    \/ /\ request[r].op = "update" /\ before # None
       /\ after = [before EXCEPT !.admin = request[r].next.admin]
    \/ /\ request[r].op = "revoke" /\ before # None
       /\ after = [before EXCEPT !.active = FALSE]

TrailWillMatch(r) ==
    Telling(r) /\ request[r].user \notin raced \union cut =>
        Tells(r, trail[request[r].user], users[request[r].user])

RequestConsistent(r) == StepOfOp(r) /\ CopyIsFresh(r) /\ CountStands(r) /\ TrailWillMatch(r)

IInv ==
    /\ TypeOK /\ HistoryTells
    /\ \A r \in Requests : RequestConsistent(r)
    /\ SerialLastAdminKept /\ SerialRevokedHoldNoTokens /\ SerialTrailMatches
=============================================================================
