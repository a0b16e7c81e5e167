---------------------------- MODULE Organizations ----------------------------
(***************************************************************************)
(* The users of one organization and OrganizationsService: invitation,     *)
(* change of role, revocation.  The role that a caller must have comes     *)
(* from its token, so any request may be sent at any time; what counts is  *)
(* what the awaited calls of two requests do to each other.                *)
(*                                                                         *)
(* A user row is reduced to whether the role is admin and to is_active,    *)
(* the refresh tokens of a user to whether one is live, and audit_log to   *)
(* what its last rows say of a user.  save writes back the entity loaded   *)
(* before.  Logging in is not part of this repository.                     *)
(***************************************************************************)
EXTENDS Naturals, FiniteSets

CONSTANTS
    Users,      \* the e-mail addresses of the organization
    Founders,   \* the administrators it starts with
    Requests,   \* requests to OrganizationsService, each served once
    None,       \* no row
    MaxFaults   \* bound on failures of a call

ASSUME OrganizationsAssumption ==
    /\ Founders \subseteq Users /\ Founders # {}
    /\ None \notin [admin : BOOLEAN, active : BOOLEAN]
    /\ MaxFaults \in Nat

VARIABLES
    users,    \* the user rows
    refresh,  \* users with a refresh token that is not revoked
    trail,    \* the row of each user as audit_log tells it
    request,  \* per request: step and locals
    faults    \* failures so far

vars == <<users, refresh, trail, request, faults>>

Row == [admin : BOOLEAN, active : BOOLEAN]

Idle == [step |-> "idle"]
Ended == [step |-> "ended"]
Serving == [step : {"insert", "count", "recheck", "save", "tokens", "audit"},
            op : {"invite", "update", "revoke"}, user : Users, next : Row]

Members == {u \in Users : users[u] # None}
ActiveAdmins == {u \in Members : users[u].admin /\ users[u].active}

TypeOK ==
    /\ users \in [Users -> Row \union {None}]
    /\ refresh \subseteq Members
    /\ trail \in [Users -> Row \union {None}]
    /\ request \in [Requests -> {Idle, Ended} \union Serving]
    /\ faults \in 0..MaxFaults

Init ==
    /\ users = [u \in Users |-> IF u \in Founders THEN [admin |-> TRUE, active |-> TRUE]
                                ELSE None]
    /\ refresh = {}
    /\ trail = users
    /\ request = [r \in Requests |-> Idle]
    /\ faults = 0

Goto(r, next) == request' = [request EXCEPT ![r] = next]
GotoStep(r, step) == request' = [request EXCEPT ![r].step = step]

-----------------------------------------------------------------------------
(* Invitation                                                              *)

\* inviteUser up to the insert: the address must be unknown.
InviteUser(r, u, admin) ==
    /\ request[r] = Idle
    /\ Goto(r, IF u \in Members THEN Ended
               ELSE [step |-> "insert", op |-> "invite", user |-> u,
                     next |-> [admin |-> admin, active |-> TRUE]])
    /\ UNCHANGED <<users, refresh, trail, faults>>

\* The column e-mail is unique.  The mailer only logs.
InsertUser(r) ==
    /\ request[r].step = "insert"
    /\ IF request[r].user \in Members
       THEN Goto(r, Ended) /\ UNCHANGED users
       ELSE /\ users' = [users EXCEPT ![request[r].user] = request[r].next]
            /\ GotoStep(r, "audit")
    /\ UNCHANGED <<refresh, trail, faults>>

-----------------------------------------------------------------------------
(* Role and revocation                                                     *)

\* Both look at the last administrator when the row loaded is one of them,
\* active or not.
Change(r, u, op, next, guarded) ==
    /\ request[r] = Idle
    /\ u \in Members
    /\ Goto(r, [step |-> IF guarded THEN "count" ELSE "save",
                op |-> op, user |-> u, next |-> next])
    /\ UNCHANGED <<users, refresh, trail, faults>>

UpdateUserRole(r, u, admin) ==
    /\ u \in Members
    /\ users[u].admin # admin
    /\ Change(r, u, "update", [users[u] EXCEPT !.admin = admin], users[u].admin)

\* Mutant: only a change of role is checked.
RevokeUserUnguarded(r, u) ==
    /\ u \in Members
    /\ Change(r, u, "revoke", [users[u] EXCEPT !.active = FALSE], FALSE)

RevokeUser(r, u) ==
    /\ u \in Members
    /\ Change(r, u, "revoke", [users[u] EXCEPT !.active = FALSE], users[u].admin)

\* assertNotLastActiveAdmin counts first and looks at the user again after that.
CountAdmins(r) ==
    /\ request[r].step = "count"
    /\ GotoStep(r, IF Cardinality(ActiveAdmins) <= 1 THEN "recheck" ELSE "save")
    /\ UNCHANGED <<users, refresh, trail, faults>>

Recheck(r) ==
    /\ request[r].step = "recheck"
    /\ IF users[request[r].user].admin THEN Goto(r, Ended) ELSE GotoStep(r, "save")
    /\ UNCHANGED <<users, refresh, trail, faults>>

\* Mutant: a revocation ends its tokens only when it finds the user active.
SaveUserKeepTokens(r) ==
    /\ request[r].step = "save"
    /\ users' = [users EXCEPT ![request[r].user] = request[r].next]
    /\ GotoStep(r, IF request[r].op = "revoke" /\ ~users[request[r].user].active
                   THEN "tokens" ELSE "audit")
    /\ UNCHANGED <<refresh, trail, faults>>

SaveUser(r) ==
    /\ request[r].step = "save"
    /\ users' = [users EXCEPT ![request[r].user] = request[r].next]
    /\ GotoStep(r, IF request[r].op = "revoke" THEN "tokens" ELSE "audit")
    /\ UNCHANGED <<refresh, trail, faults>>

RevokeTokens(r) ==
    /\ request[r].step = "tokens"
    /\ refresh' = refresh \ {request[r].user}
    /\ GotoStep(r, "audit")
    /\ UNCHANGED <<users, trail, faults>>

\* Mutant: the audit row of a change of role tells the state before it.
AuditBefore(r) ==
    LET q == request[r] IN
    /\ q.step = "audit"
    /\ trail' = [trail EXCEPT ![q.user] =
                    CASE q.op = "invite" -> q.next
                      [] q.op = "update" /\ @ # None -> [@ EXCEPT !.admin = ~q.next.admin]
                      [] q.op = "revoke" /\ @ # None -> [@ EXCEPT !.active = FALSE]
                      [] OTHER -> @]
    /\ Goto(r, Ended)
    /\ UNCHANGED <<users, refresh, faults>>

\* An audit row tells the role, or that the user is not active.
Audit(r) ==
    LET q == request[r] IN
    /\ q.step = "audit"
    /\ trail' = [trail EXCEPT ![q.user] =
                    CASE q.op = "invite" -> q.next
                      [] q.op = "update" /\ @ # None -> [@ EXCEPT !.admin = q.next.admin]
                      [] q.op = "revoke" /\ @ # None -> [@ EXCEPT !.active = FALSE]
                      [] OTHER -> @]
    /\ Goto(r, Ended)
    /\ UNCHANGED <<users, refresh, faults>>

\* A call of the database fails: the request answers 500, what it wrote stays.
Fail(r) ==
    /\ request[r] \notin {Idle, Ended}
    /\ faults < MaxFaults
    /\ faults' = faults + 1
    /\ Goto(r, Ended)
    /\ UNCHANGED <<users, refresh, trail>>

\* The login service gives a refresh token to an active user.
LogIn(u) ==
    /\ u \in Members
    /\ users[u].active
    /\ refresh' = refresh \union {u}
    /\ UNCHANGED <<users, trail, request, faults>>

-----------------------------------------------------------------------------
Serve(r) ==
    \/ \E u \in Users, admin \in BOOLEAN : InviteUser(r, u, admin)
    \/ InsertUser(r)
    \/ \E u \in Users, admin \in BOOLEAN : UpdateUserRole(r, u, admin)
    \/ \E u \in Users : RevokeUser(r, u)
    \/ CountAdmins(r)
    \/ Recheck(r)
    \/ SaveUser(r)
    \/ RevokeTokens(r)
    \/ Audit(r)
    \/ Fail(r)

Next ==
    \/ \E r \in Requests : Serve(r)
    \/ \E u \in Users : LogIn(u)

Spec == Init /\ [][Next]_vars

-----------------------------------------------------------------------------
(* Properties                                                              *)

\* The organization has an active administrator.
LastAdminKept == ActiveAdmins # {}
=============================================================================
