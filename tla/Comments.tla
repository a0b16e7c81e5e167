------------------------------- MODULE Comments -----------------------------
(***************************************************************************)
(* The review of one workflow through CommentsService: the rows of table   *)
(* comment (create, reply, update, soft delete, resolve, assign, injection *)
(* into the AI pipeline) and the approval of elements, which rewrites      *)
(* elements_json of a workflow_version row in place while WorkflowsService *)
(* and the AI handlers add versions.                                       *)
(*                                                                         *)
(* Each awaited call is a step.  save(comment) and UPDATE workflow_version *)
(* write back the whole row or document loaded before, with one change.    *)
(* A text is the request that wrote it.  elements_json is reduced to the   *)
(* ids of its elements with their archived and approved flags, and to      *)
(* whether it is an array at all: the review code needs an array, but the  *)
(* first version and the results of the AI are objects.                    *)
(***************************************************************************)
EXTENDS Integers, Sequences, FiniteSets

CONSTANTS
    CommentIds,  \* identifiers of comments
    Requests,    \* requests to CommentsService, each served once
    Users,       \* the users of the organization
    Elements,    \* ids of workflow elements
    None,        \* null, and no row
    MaxVersions, \* bound on the versions of the workflow
    MaxFaults    \* bound on failures of a call

VARIABLES
    comments, \* the comment rows of the workflow
    versions, \* the workflow_version rows, by version_number
    request,  \* per request: step and locals
    audited,  \* the requests whose audit_log row is written
    faults    \* failures so far

vars == <<comments, versions, request, audited, faults>>

UserRole == {"admin", "process_owner", "business_analyst", "reviewer", "viewer"}
Note == {"deleted", "given"}

Row == [author : Users, content : Requests, resolvedBy : Users \union {None},
        note : Note \union {None}, assigned : Users \union {None},
        parent : CommentIds \union {None}]

ASSUME CommentsAssumption ==
    /\ None \notin Users \union Row
    /\ MaxVersions \in Nat \ {0} /\ MaxFaults \in Nat

Document == {v \in [array : BOOLEAN, elements : SUBSET Elements,
                    archived : SUBSET Elements, approved : SUBSET Elements] :
               /\ v.archived \subseteq v.elements /\ v.approved \subseteq v.elements
               /\ ~v.array => v.elements = {}
               /\ IsFiniteSet(v.elements)}

Existing == {c \in CommentIds : comments[c] # None}
RowEdits == {"update", "delete", "resolve", "assign"}
Idle == [step |-> "idle"]
Ended == [step |-> "ended"]
Auditing == [step |-> "audit"]

RequestRecord ==
    {Idle, Auditing, Ended}
        \union [step : {"insert"}, row : Row]
        \union [step : {"save"}, comment : CommentIds, next : Row]
        \union [step : {"write"}, version : DOMAIN versions, next : Document]

TypeOK ==
    /\ comments \in [CommentIds -> Row \union {None}]
    /\ versions \in Seq(Document) /\ Len(versions) \in 1..MaxVersions
    /\ request \in [Requests -> RequestRecord]
    /\ audited \subseteq Requests
    /\ faults \in 0..MaxFaults

\* POST /workflows stores {} as the first version.
Init ==
    /\ comments = [c \in CommentIds |-> None]
    /\ versions = <<[array |-> FALSE, elements |-> {}, archived |-> {}, approved |-> {}]>>
    /\ request = [r \in Requests |-> Idle]
    /\ audited = {}
    /\ faults = 0

Goto(r, next) == request' = [request EXCEPT ![r] = next]

-----------------------------------------------------------------------------
(* Rights                                                                  *)

CanUserCreateComment(role) ==
    role \in {"reviewer", "business_analyst", "process_owner", "admin"}

Mine(row, user, role) == row.author = user \/ role = "admin"

-----------------------------------------------------------------------------
(* Comments                                                                *)

NewRow(r, user, parent) ==
    [author |-> user, content |-> r, resolvedBy |-> None, note |-> None,
     assigned |-> None, parent |-> parent]

\* createComment up to its save: the workflow belongs to the organization.
CreateComment(r, user, role) ==
    /\ request[r] = Idle
    /\ Goto(r, IF CanUserCreateComment(role)
               THEN [step |-> "insert", row |-> NewRow(r, user, None)]
               ELSE Ended)
    /\ UNCHANGED <<comments, versions, audited, faults>>

\* createReply up to its save.
CreateReply(r, c, user, role) ==
    /\ request[r] = Idle
    /\ c \in Existing
    /\ Goto(r, IF CanUserCreateComment(role)
               THEN [step |-> "insert", row |-> NewRow(r, user, c)]
               ELSE Ended)
    /\ UNCHANGED <<comments, versions, audited, faults>>

InsertComment(r, c) ==
    /\ request[r].step = "insert"
    /\ c \in CommentIds \ Existing
    /\ comments' = [comments EXCEPT ![c] = request[r].row]
    /\ Goto(r, Auditing)
    /\ UNCHANGED <<versions, audited, faults>>

\* The row an edit saves, made from the row it loaded.
Edited(row, r, op, user, assignee) ==
    CASE op = "update" -> [row EXCEPT !.content = r]
      [] op = "delete" -> [row EXCEPT !.resolvedBy = user, !.note = "deleted"]
      [] op = "resolve" -> [row EXCEPT !.resolvedBy = user, !.note = "given"]
      [] op = "assign" -> [row EXCEPT !.assigned = assignee]

\* findCommentWithWorkflow, the check of the caller, and the change to the copy
\* loaded, up to the save.
LoadComment(r, op, c, user, assignee, permitted) ==
    /\ request[r] = Idle
    /\ c \in Existing
    /\ Goto(r, IF permitted
               THEN [step |-> "save", comment |-> c,
                     next |-> Edited(comments[c], r, op, user, assignee)]
               ELSE Ended)
    /\ UNCHANGED <<comments, versions, audited, faults>>

UpdateComment(r, c, user, role) ==
    LoadComment(r, "update", c, user, None, Mine(comments[c], user, role))

DeleteComment(r, c, user, role) ==
    LoadComment(r, "delete", c, user, None, Mine(comments[c], user, role))

\* Whoever sends a note that is not blank.
ResolveComment(r, c, user) ==
    LoadComment(r, "resolve", c, user, None, TRUE)

AssignComment(r, c, user, role, assignee) ==
    LoadComment(r, "assign", c, user, assignee,
                Mine(comments[c], user, role) \/ role = "process_owner")

\* Mutant: every edit stores the text of its request, not updates only.
SaveCommentWithText(r) ==
    /\ request[r].step = "save"
    /\ comments' = [comments EXCEPT ![request[r].comment] =
                      [request[r].next EXCEPT !.content = r]]
    /\ Goto(r, Auditing)
    /\ UNCHANGED <<versions, audited, faults>>

SaveComment(r) ==
    /\ request[r].step = "save"
    /\ comments' = [comments EXCEPT ![request[r].comment] = request[r].next]
    /\ Goto(r, Auditing)
    /\ UNCHANGED <<versions, audited, faults>>

\* injectToAi changes nothing: a caller without the right is refused, and any
\* other ends at the lookup of the session, which asks for the relation userId
\* that Session declares as a plain column.
InjectToAi(r, c) ==
    /\ request[r] = Idle
    /\ c \in Existing
    /\ Goto(r, Ended)
    /\ UNCHANGED <<comments, versions, audited, faults>>

-----------------------------------------------------------------------------
(* Approval of elements                                                    *)

Latest == Len(versions)

\* targetIds of a bulk approval without element_ids.
Unapproved(v) == v.elements \ v.approved

\* Mutant: an approval replaces the earlier ones.
ApprovedOnly(v, targets) == [v EXCEPT !.approved = targets \intersect v.elements]

Approved(v, targets) == [v EXCEPT !.approved = @ \union (targets \intersect v.elements)]

\* The latest version is read and its document changed; map() exists on arrays
\* only.
ReadLatest(r, targets) ==
    /\ request[r] = Idle
    /\ Goto(r, IF versions[Latest].array
               THEN [step |-> "write", version |-> Latest,
                     next |-> Approved(versions[Latest], targets)]
               ELSE Ended)
    /\ UNCHANGED <<comments, versions, audited, faults>>

\* An id the version does not have is ignored, and still acknowledged.
ApproveElement(r, e) == ReadLatest(r, {e})

BulkApproveElements(r, role, targets) ==
    /\ role \in {"admin", "process_owner"}
    /\ ReadLatest(r, targets)

\* Mutant: the document is written to the version that is the latest by now.
WriteApprovalsToLatest(r) ==
    /\ request[r].step = "write"
    /\ versions' = [versions EXCEPT ![Latest] = request[r].next]
    /\ Goto(r, Auditing)
    /\ UNCHANGED <<comments, audited, faults>>

\* UPDATE workflow_version SET elements_json = <the changed copy> WHERE id.
WriteApprovals(r) ==
    /\ request[r].step = "write"
    /\ versions' = [versions EXCEPT ![request[r].version] = request[r].next]
    /\ Goto(r, Auditing)
    /\ UNCHANGED <<comments, audited, faults>>

\* A PATCH or a result of the AI adds a version: with the approvals of the
\* document it was made from, or with none.
AddVersion(v) ==
    /\ Len(versions) < MaxVersions
    /\ v.approved \in {{}, versions[Latest].approved \intersect v.elements}
    /\ versions' = Append(versions, v)
    /\ UNCHANGED <<comments, request, audited, faults>>

\* getReviewProgress: Math.round of a percentage over the elements that are
\* not archived.
Percentage(approved, total) ==
    IF total > 0 THEN (200 * approved + total) \div (2 * total) ELSE 0

Reviewable(v) == v.elements \ v.archived

\* Mutant: approved elements count although archived.
CompletionPctOfAll(v) ==
    Percentage(Cardinality(v.elements \intersect v.approved), Cardinality(Reviewable(v)))

CompletionPct(v) ==
    Percentage(Cardinality(Reviewable(v) \intersect v.approved), Cardinality(Reviewable(v)))

-----------------------------------------------------------------------------
WriteAudit(r) ==
    /\ request[r] = Auditing
    /\ audited' = audited \union {r}
    /\ Goto(r, Ended)
    /\ UNCHANGED <<comments, versions, faults>>

\* A call of the database fails: the request ends, what it wrote stays.
Fail(r) ==
    /\ request[r] \notin {Idle, Ended}
    /\ faults < MaxFaults
    /\ faults' = faults + 1
    /\ Goto(r, Ended)
    /\ UNCHANGED <<comments, versions, audited>>

\* The routes under /workflows/:id/comments and /comments.
CommentRoutes(r) ==
    \E user \in Users, role \in UserRole :
        \/ CreateComment(r, user, role)
        \/ \E c \in Existing :
              \/ CreateReply(r, c, user, role)
              \/ UpdateComment(r, c, user, role)
              \/ DeleteComment(r, c, user, role)
              \/ ResolveComment(r, c, user)
              \/ InjectToAi(r, c)
              \/ \E assignee \in Users : AssignComment(r, c, user, role, assignee)

\* The routes that approve elements.
ReviewRoutes(r) ==
    \/ \E e \in Elements : ApproveElement(r, e)
    \/ \E role \in UserRole, targets \in (SUBSET Elements) \union {Unapproved(versions[Latest])} :
          BulkApproveElements(r, role, targets)

Serve(r) ==
    \/ CommentRoutes(r)
    \/ ReviewRoutes(r)
    \/ \E c \in CommentIds : InsertComment(r, c)
    \/ SaveComment(r)
    \/ WriteApprovals(r)
    \/ WriteAudit(r)
    \/ Fail(r)

Next ==
    \/ \E r \in Requests : Serve(r)
    \/ \E v \in Document : AddVersion(v)

Spec == Init /\ [][Next]_vars

-----------------------------------------------------------------------------
(* Properties                                                              *)

\* Review progress is a percentage, and it reaches 100 exactly when what is
\* left to approve, of the elements that are not archived, is at most one in
\* two hundred of them: with fewer than 200 elements, when nothing is left.
ProgressIsHonest ==
    \A i \in DOMAIN versions :
        LET v == versions[i]
            left == Reviewable(v) \ v.approved
        IN Reviewable(v) # {} =>
              /\ CompletionPct(v) \in 0..100
              /\ CompletionPct(v) = 100 <=> 200 * Cardinality(left) <= Cardinality(Reviewable(v))

\* The rows are well formed and tell the truth about the state of the review.
ReviewConsistent == TypeOK /\ ProgressIsHonest
=============================================================================
