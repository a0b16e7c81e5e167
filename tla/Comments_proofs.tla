--------------------------- MODULE Comments_proofs ---------------------------
(***************************************************************************)
(* Proofs about Comments, for any sets of comments, requests, users and    *)
(* elements and any number of versions and failures: the percentage of the *)
(* review, the edits of comments and the approvals of elements.            *)
(***************************************************************************)
EXTENDS CommentsHistory, FiniteSetTheorems, TLAPS

-----------------------------------------------------------------------------
(* The percentage                                                          *)

\* Math.round(approved / total * 100) is the integer nearest to the percentage.
LEMMA RoundedPercentage ==
  ASSUME NEW approved \in Nat, NEW total \in Nat \ {0}
  PROVE  /\ Percentage(approved, total) \in Int
         /\ 2 * total * Percentage(approved, total) <= 200 * approved + total
         /\ 200 * approved + total < 2 * total * Percentage(approved, total) + 2 * total
<1> DEFINE num == 200 * approved + total
           den == 2 * total
<1>1. num \in Nat /\ den \in Nat /\ den > 0
  OBVIOUS
<1> HIDE DEF num, den
<1>2. /\ num \div den \in Int
      /\ den * (num \div den) <= num
      /\ num < den * (num \div den) + den
  BY <1>1
<1>3. Percentage(approved, total) = num \div den
  BY DEF Percentage, num, den
<1>4. QED BY <1>2, <1>3 DEF num, den

\* Of a part and a whole it is between 0 and 100, and 100 exactly when at most
\* one in two hundred is missing.
LEMMA PercentageOfPart ==
  ASSUME NEW approved \in Nat, NEW total \in Nat \ {0}, approved <= total
  PROVE  /\ Percentage(approved, total) \in 0..100
         /\ Percentage(approved, total) = 100 <=> 200 * (total - approved) <= total
<1> DEFINE pct == Percentage(approved, total)
<1>1. /\ pct \in Int
      /\ 2 * total * pct <= 200 * approved + total
      /\ 200 * approved + total < 2 * total * pct + 2 * total
  BY RoundedPercentage
<1> HIDE DEF pct
<1>2. pct >= 0
  <2>1. ASSUME pct <= -1 PROVE total * pct <= total * (-1)
    BY <1>1, <2>1
  <2>2. QED BY <1>1, <2>1
<1>3. pct <= 100
  <2>1. ASSUME pct >= 101 PROVE total * pct >= total * 101
    BY <1>1, <2>1
  <2>2. QED BY <1>1, <2>1
<1>4. ASSUME pct <= 99 PROVE total * pct <= total * 99
  BY <1>1, <1>4
<1>5. pct = 100 <=> 200 * (total - approved) <= total
  BY <1>1, <1>3, <1>4
<1>6. QED BY <1>1, <1>2, <1>3, <1>5 DEF pct

\* The elements that count are finitely many, and split into those approved
\* and those left.
LEMMA ReviewableSplits ==
  ASSUME NEW v \in Document, Reviewable(v) # {}
  PROVE  LET total == Cardinality(Reviewable(v))
             approved == Cardinality(Reviewable(v) \intersect v.approved)
         IN /\ total \in Nat \ {0} /\ approved \in Nat /\ approved <= total
            /\ Cardinality(Reviewable(v) \ v.approved) = total - approved
<1>1. IsFiniteSet(v.elements) /\ Reviewable(v) \subseteq v.elements
  BY DEF Document, Reviewable
<1>2. IsFiniteSet(Reviewable(v))
  BY <1>1, FS_Subset
<1>3. Cardinality(Reviewable(v)) \in Nat
  BY <1>2, FS_CardinalityType
<1>4. Cardinality(Reviewable(v)) # 0
  BY <1>2, FS_EmptySet
<1>5. /\ Cardinality(Reviewable(v) \intersect v.approved) \in Nat
      /\ Cardinality(Reviewable(v) \intersect v.approved) <= Cardinality(Reviewable(v))
  BY <1>2, FS_Subset, FS_CardinalityType
<1>6. Cardinality(Reviewable(v) \ v.approved)
        = Cardinality(Reviewable(v)) - Cardinality(Reviewable(v) \intersect v.approved)
  BY <1>2, FS_Difference
<1>7. QED BY <1>3, <1>4, <1>5, <1>6

\* What getReviewProgress answers for any document.
LEMMA HonestProgress == TypeOK => ProgressIsHonest
<1> SUFFICES ASSUME TypeOK, NEW i \in DOMAIN versions, Reviewable(versions[i]) # {}
             PROVE  /\ CompletionPct(versions[i]) \in 0..100
                    /\ CompletionPct(versions[i]) = 100 <=>
                          200 * Cardinality(Reviewable(versions[i]) \ versions[i].approved)
                              <= Cardinality(Reviewable(versions[i]))
  BY DEF ProgressIsHonest
<1>1. versions[i] \in Document
  BY DEF TypeOK
<1> DEFINE total == Cardinality(Reviewable(versions[i]))
           approved == Cardinality(Reviewable(versions[i]) \intersect versions[i].approved)
<1>2. CompletionPct(versions[i]) = Percentage(approved, total)
  BY DEF CompletionPct
<1>3. /\ total \in Nat \ {0} /\ approved \in Nat /\ approved <= total
      /\ Cardinality(Reviewable(versions[i]) \ versions[i].approved) = total - approved
  BY <1>1, ReviewableSplits
<1> HIDE DEF total, approved
<1>4. /\ Percentage(approved, total) \in 0..100
      /\ Percentage(approved, total) = 100 <=> 200 * (total - approved) <= total
  BY <1>3, PercentageOfPart
<1>5. QED BY <1>2, <1>3, <1>4 DEF total

-----------------------------------------------------------------------------
(* Types                                                                   *)

LEMMA InitType == Init => TypeOK
<1> SUFFICES ASSUME Init PROVE TypeOK
  OBVIOUS
<1>1. [array |-> FALSE, elements |-> {}, archived |-> {}, approved |-> {}] \in Document
  BY FS_EmptySet DEF Document
<1>2. versions \in Seq(Document) /\ Len(versions) = 1
  BY <1>1 DEF Init
<1>3. QED BY <1>2, CommentsAssumption DEF Init, TypeOK, RequestRecord

\* An edit of a row is a row.
LEMMA EditedIsRow ==
  ASSUME NEW row \in Row, NEW r \in Requests, NEW op \in RowEdits, NEW user \in Users,
         NEW assignee \in Users \union {None}
  PROVE  Edited(row, r, op, user, assignee) \in Row
<1>1. CASE op = "update"
  BY <1>1 DEF Edited, Row
<1>2. CASE op = "delete"
  BY <1>2 DEF Edited, Row, Note
<1>3. CASE op = "resolve"
  BY <1>3 DEF Edited, Row, Note
<1>4. CASE op = "assign"
  BY <1>4 DEF Edited, Row
<1>5. QED BY <1>1, <1>2, <1>3, <1>4 DEF RowEdits

\* Approving keeps a document one: only elements it has are approved.
LEMMA ApprovedIsDocument ==
  ASSUME NEW v \in Document, NEW targets
  PROVE  /\ Approved(v, targets) \in Document
         /\ v.approved \subseteq Approved(v, targets).approved
<1>1. /\ v \in [array : BOOLEAN, elements : SUBSET Elements,
                 archived : SUBSET Elements, approved : SUBSET Elements]
      /\ v.archived \subseteq v.elements /\ v.approved \subseteq v.elements
      /\ ~v.array => v.elements = {}
      /\ IsFiniteSet(v.elements)
  BY DEF Document
<1>2. Approved(v, targets) = [array |-> v.array, elements |-> v.elements,
          archived |-> v.archived,
          approved |-> v.approved \union (targets \intersect v.elements)]
  BY <1>1 DEF Approved
<1>3. v.approved \union (targets \intersect v.elements) \in SUBSET Elements
  BY <1>1
<1>4. QED BY <1>1, <1>2, <1>3 DEF Document

\* Every step of a request goes to a next value of the request: it is enough
\* to look at that value and at the tables.
LEMMA GotoType ==
  ASSUME TypeOK, NEW r \in Requests, NEW next, Goto(r, next), next \in RequestRecord',
         DOMAIN versions' = DOMAIN versions
  PROVE  request' \in [Requests -> RequestRecord']
<1>1. RequestRecord' = RequestRecord
  BY DEF RequestRecord
<1>2. QED BY <1>1 DEF TypeOK, Goto

\* A load of a comment or a version, and the refusal of a caller.
LEMMA LoadType ==
  ASSUME TypeOK, NEW r \in Requests, NEW next \in RequestRecord, Goto(r, next),
         UNCHANGED <<comments, versions, audited, faults>>
  PROVE  TypeOK'
<1>1. RequestRecord' = RequestRecord
  BY DEF RequestRecord
<1>2. request' \in [Requests -> RequestRecord']
  BY <1>1, GotoType
<1>3. QED BY <1>2 DEF TypeOK

LEMMA CommentRoutesType ==
  ASSUME TypeOK, NEW r \in Requests, CommentRoutes(r)
  PROVE  TypeOK'
<1>1. Ended \in RequestRecord
  BY DEF RequestRecord
<1>2. PICK user \in Users, role \in UserRole :
        \/ CreateComment(r, user, role)
        \/ \E c \in Existing :
              \/ CreateReply(r, c, user, role)
              \/ UpdateComment(r, c, user, role)
              \/ DeleteComment(r, c, user, role)
              \/ ResolveComment(r, c, user)
              \/ InjectToAi(r, c)
              \/ \E assignee \in Users : AssignComment(r, c, user, role, assignee)
  BY DEF CommentRoutes
<1>3. ASSUME NEW parent \in CommentIds \union {None}
      PROVE  [step |-> "insert", row |-> NewRow(r, user, parent)] \in RequestRecord
  <2>1. NewRow(r, user, parent) \in Row
    BY DEF NewRow, Row
  <2>2. QED BY <2>1 DEF RequestRecord
<1>4. CASE CreateComment(r, user, role)
  <2>1. PICK next \in RequestRecord : Goto(r, next)
    BY <1>1, <1>3, <1>4 DEF CreateComment
  <2>2. QED BY <1>4, <2>1, LoadType DEF CreateComment
<1>5. ASSUME NEW c \in Existing, CreateReply(r, c, user, role)
      PROVE  TypeOK'
  <2>1. PICK next \in RequestRecord : Goto(r, next)
    BY <1>1, <1>3, <1>5 DEF CreateReply, Existing
  <2>2. QED BY <1>5, <2>1, LoadType DEF CreateReply
<1>6. ASSUME NEW c \in Existing, NEW op \in RowEdits, NEW assignee \in Users \union {None},
             NEW permitted, LoadComment(r, op, c, user, assignee, permitted)
      PROVE  TypeOK'
  <2>1. c \in CommentIds /\ comments[c] \in Row
    BY DEF TypeOK, Existing
  <2>2. [step |-> "save", comment |-> c, next |-> Edited(comments[c], r, op, user, assignee)]
          \in RequestRecord
    BY <2>1, EditedIsRow DEF RequestRecord
  <2>3. PICK next \in RequestRecord : Goto(r, next)
    BY <1>1, <1>6, <2>2 DEF LoadComment
  <2>4. QED BY <1>6, <2>3, LoadType DEF LoadComment
<1>7. ASSUME NEW c \in Existing, InjectToAi(r, c)
      PROVE  TypeOK'
  BY <1>1, <1>7, LoadType DEF InjectToAi
<1>8. QED
  BY <1>2, <1>4, <1>5, <1>6, <1>7 DEF UpdateComment, DeleteComment, ResolveComment, AssignComment,
     RowEdits

LEMMA ReviewRoutesType ==
  ASSUME TypeOK, NEW r \in Requests, ReviewRoutes(r)
  PROVE  TypeOK'
<1>1. PICK targets : ReadLatest(r, targets)
  BY DEF ReviewRoutes, ApproveElement, BulkApproveElements
<1>2. Latest \in DOMAIN versions /\ versions[Latest] \in Document
  BY DEF TypeOK, Latest
<1>3. Approved(versions[Latest], targets) \in Document
  BY <1>2, ApprovedIsDocument
<1>4. PICK next \in RequestRecord : Goto(r, next)
  BY <1>1, <1>2, <1>3 DEF ReadLatest, RequestRecord
<1>5. QED BY <1>1, <1>4, LoadType DEF ReadLatest

LEMMA NextType == TypeOK /\ [Next]_vars => TypeOK'
<1> SUFFICES ASSUME TypeOK, [Next]_vars PROVE TypeOK'
  OBVIOUS
<1>1. Auditing \in RequestRecord' /\ Ended \in RequestRecord'
  BY DEF RequestRecord
<1>2. ASSUME NEW r \in Requests, Serve(r) PROVE TypeOK'
  <2>1. request[r] \in RequestRecord
    BY DEF TypeOK
  <2>2. ASSUME NEW c \in CommentIds, InsertComment(r, c) PROVE TypeOK'
    <3>1. request[r].row \in Row
      BY <2>1, <2>2 DEF InsertComment, RequestRecord, Idle, Auditing, Ended
    <3>2. request' \in [Requests -> RequestRecord']
      BY <1>1, <2>2, GotoType DEF InsertComment
    <3>3. QED BY <2>2, <3>1, <3>2 DEF InsertComment, TypeOK
  <2>3. CASE SaveComment(r)
    <3>1. request[r].next \in Row /\ request[r].comment \in CommentIds
      BY <2>1, <2>3 DEF SaveComment, RequestRecord, Idle, Auditing, Ended
    <3>2. request' \in [Requests -> RequestRecord']
      BY <1>1, <2>3, GotoType DEF SaveComment
    <3>3. QED BY <2>3, <3>1, <3>2 DEF SaveComment, TypeOK
  <2>4. CASE WriteApprovals(r)
    <3>1. request[r].next \in Document /\ request[r].version \in DOMAIN versions
      BY <2>1, <2>4 DEF WriteApprovals, RequestRecord, Idle, Auditing, Ended
    <3>2. /\ versions' \in Seq(Document) /\ DOMAIN versions' = DOMAIN versions
          /\ Len(versions') = Len(versions)
      BY <2>4, <3>1 DEF WriteApprovals, TypeOK
    <3>3. request' \in [Requests -> RequestRecord']
      BY <1>1, <2>4, <3>2, GotoType DEF WriteApprovals
    <3>4. QED BY <2>4, <3>2, <3>3 DEF WriteApprovals, TypeOK
  <2>5. CASE WriteAudit(r)
    <3>1. request' \in [Requests -> RequestRecord']
      BY <1>1, <2>5, GotoType DEF WriteAudit
    <3>2. QED BY <2>5, <3>1 DEF WriteAudit, TypeOK
  <2>6. CASE Fail(r)
    <3>1. request' \in [Requests -> RequestRecord']
      BY <1>1, <2>6, GotoType DEF Fail
    <3>2. faults' \in 0..MaxFaults
      BY <2>6, CommentsAssumption DEF Fail, TypeOK
    <3>3. QED BY <2>6, <3>1, <3>2 DEF Fail, TypeOK
  <2>7. QED
    BY <1>2, <2>2, <2>3, <2>4, <2>5, <2>6, CommentRoutesType, ReviewRoutesType DEF Serve
<1>3. ASSUME NEW v \in Document, AddVersion(v) PROVE TypeOK'
  <2>1. /\ versions' \in Seq(Document) /\ Len(versions') = Len(versions) + 1
        /\ DOMAIN versions \subseteq DOMAIN versions'
    BY <1>3 DEF AddVersion, TypeOK
  <2>2. Len(versions') \in 1..MaxVersions
    BY <1>3, <2>1, CommentsAssumption DEF AddVersion, TypeOK
  <2>3. RequestRecord \subseteq RequestRecord'
    BY <2>1 DEF RequestRecord
  <2>4. QED BY <1>3, <2>1, <2>2, <2>3 DEF AddVersion, TypeOK
<1>4. CASE UNCHANGED vars
  BY <1>4 DEF vars, TypeOK, RequestRecord
<1>5. QED BY <1>2, <1>3, <1>4 DEF Next

\* The rows and the copies keep their types, and getReviewProgress answers a
\* percentage that is 100 only when at most one reviewable element in two
\* hundred is not approved.
THEOREM ReviewIsConsistent == Spec => []ReviewConsistent
<1>1. Spec => []TypeOK
  BY InitType, NextType, PTL DEF Spec
<1>2. TypeOK => ReviewConsistent
  BY HonestProgress DEF ReviewConsistent
<1>3. QED BY <1>1, <1>2, PTL

-----------------------------------------------------------------------------
(* What a step may change                                                  *)

\* A request of /comments goes on with a row to insert, with an edited copy of
\* a comment, or not at all.
LEMMA CommentRoutesGoto ==
  ASSUME NEW r \in Requests, CommentRoutes(r)
  PROVE  /\ request[r] = Idle
         /\ UNCHANGED <<comments, versions>>
         /\ \/ Goto(r, Ended)
            \/ \E row : Goto(r, [step |-> "insert", row |-> row])
            \/ \E c \in Existing, op \in RowEdits, user, assignee \in Users :
                  Goto(r, [step |-> "save", comment |-> c,
                           next |-> Edited(comments[c], r, op, user, assignee)])
<1>1. ASSUME NEW c \in Existing, NEW op \in RowEdits, NEW user \in Users, NEW assignee,
             op # "assign" \/ assignee \in Users
      PROVE  \E other \in Users :
                Edited(comments[c], r, op, user, assignee) = Edited(comments[c], r, op, user, other)
  BY <1>1 DEF Edited, RowEdits
<1>2. ASSUME NEW c \in Existing, NEW op \in RowEdits, NEW user \in Users, NEW assignee,
             op # "assign" \/ assignee \in Users,
             NEW permitted, LoadComment(r, op, c, user, assignee, permitted)
      PROVE  \/ Goto(r, Ended)
             \/ \E d \in Existing, o \in RowEdits, u, a \in Users :
                   Goto(r, [step |-> "save", comment |-> d,
                            next |-> Edited(comments[d], r, o, u, a)])
  <2>1. PICK other \in Users :
           Edited(comments[c], r, op, user, assignee) = Edited(comments[c], r, op, user, other)
    BY <1>1, <1>2
  <2>2. CASE permitted
    <3>1. Goto(r, [step |-> "save", comment |-> c,
                   next |-> Edited(comments[c], r, op, user, other)])
      BY <1>2, <2>1, <2>2 DEF LoadComment
    <3>2. QED BY <3>1
  <2>3. CASE ~permitted
    BY <1>2, <2>3 DEF LoadComment
  <2>4. QED BY <2>2, <2>3
<1>3. PICK user \in Users, role \in UserRole :
        \/ CreateComment(r, user, role)
        \/ \E c \in Existing :
              \/ CreateReply(r, c, user, role)
              \/ UpdateComment(r, c, user, role)
              \/ DeleteComment(r, c, user, role)
              \/ ResolveComment(r, c, user)
              \/ InjectToAi(r, c)
              \/ \E assignee \in Users : AssignComment(r, c, user, role, assignee)
  BY DEF CommentRoutes
<1>4. request[r] = Idle /\ UNCHANGED <<comments, versions>>
  BY <1>3 DEF CreateComment, CreateReply, UpdateComment, DeleteComment, ResolveComment, InjectToAi,
     AssignComment, LoadComment
<1>5. CASE CreateComment(r, user, role)
  BY <1>4, <1>5 DEF CreateComment
<1>6. CASE \E c \in Existing : CreateReply(r, c, user, role) \/ InjectToAi(r, c)
  BY <1>4, <1>6 DEF CreateReply, InjectToAi
<1>7. CASE \E c \in Existing : \/ UpdateComment(r, c, user, role)
                               \/ DeleteComment(r, c, user, role)
                               \/ ResolveComment(r, c, user)
  BY <1>2, <1>4, <1>7 DEF UpdateComment, DeleteComment, ResolveComment, RowEdits
<1>8. CASE \E c \in Existing, assignee \in Users : AssignComment(r, c, user, role, assignee)
  BY <1>2, <1>4, <1>8 DEF AssignComment, RowEdits
<1>9. QED BY <1>3, <1>5, <1>6, <1>7, <1>8

\* An approval goes on with the latest version and more approvals on it, or
\* not at all.
LEMMA ReviewRoutesGoto ==
  ASSUME NEW r \in Requests, ReviewRoutes(r)
  PROVE  /\ request[r] = Idle
         /\ UNCHANGED <<comments, versions>>
         /\ \/ Goto(r, Ended)
            \/ \E targets : Goto(r, [step |-> "write", version |-> Latest,
                                      next |-> Approved(versions[Latest], targets)])
<1>1. PICK targets : ReadLatest(r, targets)
  BY DEF ReviewRoutes, ApproveElement, BulkApproveElements
<1>2. QED BY <1>1 DEF ReadLatest

LEMMA ServeGoto ==
  ASSUME NEW r \in Requests, Serve(r)
  PROVE  \E next : Goto(r, next)
<1>1. CASE CommentRoutes(r)
  BY <1>1, CommentRoutesGoto
<1>2. CASE ReviewRoutes(r)
  BY <1>2, ReviewRoutesGoto
<1>3. QED
  BY <1>1, <1>2 DEF Serve, InsertComment, SaveComment, WriteApprovals, WriteAudit, Fail

\* A step moves at most one request, and by one of its own actions.
LEMMA OnlyOwnSteps ==
  ASSUME TypeOK, Next, NEW q \in Requests, request'[q] # request[q]
  PROVE  Serve(q)
<1>1. ASSUME NEW r \in Requests, Serve(r), r # q PROVE FALSE
  <2>1. PICK next : Goto(r, next)
    BY <1>1, ServeGoto
  <2>2. QED BY <1>1, <2>1 DEF Goto, TypeOK
<1>2. ASSUME NEW v \in Document, AddVersion(v) PROVE FALSE
  BY <1>2 DEF AddVersion
<1>3. QED BY <1>1, <1>2 DEF Next

\* A request that comes to hold a comment has loaded it and changed the copy.
LEMMA LoadedComment ==
  ASSUME TypeOK, NEW q \in Requests, Serve(q), request'[q] # request[q],
         request'[q].step = "save"
  PROVE  /\ UNCHANGED <<comments, versions>>
         /\ \E c \in Existing, op \in RowEdits, user, assignee \in Users :
               request'[q] = [step |-> "save", comment |-> c,
                              next |-> Edited(comments[c], q, op, user, assignee)]
<1>1. ASSUME NEW next, Goto(q, next) PROVE request'[q] = next
  BY <1>1 DEF Goto, TypeOK
<1>2. CASE CommentRoutes(q)
  <2>1. ~Goto(q, Ended) /\ \A row : ~Goto(q, [step |-> "insert", row |-> row])
    BY <1>1 DEF Ended
  <2>2. PICK c \in Existing, op \in RowEdits, user \in Users, assignee \in Users :
          Goto(q, [step |-> "save", comment |-> c,
                   next |-> Edited(comments[c], q, op, user, assignee)])
    BY <1>2, <2>1, CommentRoutesGoto
  <2>3. request'[q] = [step |-> "save", comment |-> c,
                       next |-> Edited(comments[c], q, op, user, assignee)]
    BY <1>1, <2>2
  <2>4. QED BY <1>2, <2>3, CommentRoutesGoto
<1>3. CASE ReviewRoutes(q)
  <2>1. ~Goto(q, Ended)
    BY <1>1 DEF Ended
  <2>2. \A targets : ~Goto(q, [step |-> "write", version |-> Latest,
                              next |-> Approved(versions[Latest], targets)])
    BY <1>1
  <2>3. QED BY <1>3, <2>1, <2>2, ReviewRoutesGoto
<1>4. CASE (\E c \in CommentIds : InsertComment(q, c)) \/ SaveComment(q)
             \/ WriteApprovals(q) \/ WriteAudit(q) \/ Fail(q)
  BY <1>1, <1>4 DEF InsertComment, SaveComment, WriteApprovals, WriteAudit, Fail, Auditing, Ended
<1>5. QED BY <1>2, <1>3, <1>4 DEF Serve

\* A request that comes to hold a version has read the latest one.
LEMMA LoadedVersion ==
  ASSUME TypeOK, NEW q \in Requests, Serve(q), request'[q] # request[q],
         request'[q].step = "write"
  PROVE  /\ UNCHANGED <<comments, versions>>
         /\ request[q] = Idle
         /\ \E targets : request'[q] = [step |-> "write", version |-> Latest,
                                         next |-> Approved(versions[Latest], targets)]
<1>1. ASSUME NEW next, Goto(q, next) PROVE request'[q] = next
  BY <1>1 DEF Goto, TypeOK
<1>2. CASE CommentRoutes(q)
  <2>1. ~Goto(q, Ended) /\ \A row : ~Goto(q, [step |-> "insert", row |-> row])
    BY <1>1 DEF Ended
  <2>2. \A c, next : ~Goto(q, [step |-> "save", comment |-> c, next |-> next])
    BY <1>1
  <2>3. QED BY <1>2, <2>1, <2>2, CommentRoutesGoto
<1>3. CASE ReviewRoutes(q)
  <2>1. ~Goto(q, Ended)
    BY <1>1 DEF Ended
  <2>2. QED BY <1>1, <1>3, <2>1, ReviewRoutesGoto
<1>4. CASE (\E c \in CommentIds : InsertComment(q, c)) \/ SaveComment(q)
             \/ WriteApprovals(q) \/ WriteAudit(q) \/ Fail(q)
  BY <1>1, <1>4 DEF InsertComment, SaveComment, WriteApprovals, WriteAudit, Fail, Auditing, Ended
<1>5. QED BY <1>2, <1>3, <1>4 DEF Serve

\* A row changes when it is inserted or when the request that holds it saves.
LEMMA ChangedComment ==
  ASSUME TypeOK, Next, NEW c \in CommentIds, comments'[c] # comments[c]
  PROVE  /\ comments'[c] # None
         /\ c \in Existing =>
              \E r \in Requests : /\ HoldsComment(r, c) /\ comments'[c] = request[r].next
                                  /\ request'[r] = Auditing
<1>1. PICK r \in Requests : Serve(r)
  <2>1. ASSUME NEW v \in Document, AddVersion(v) PROVE FALSE
    BY <2>1 DEF AddVersion
  <2>2. QED BY <2>1 DEF Next
<1>2. ~CommentRoutes(r) /\ ~ReviewRoutes(r)
  BY CommentRoutesGoto, ReviewRoutesGoto
<1>3. request[r] \in RequestRecord
  BY DEF TypeOK
<1>4. ASSUME NEW d \in CommentIds, InsertComment(r, d)
      PROVE  comments'[c] # None /\ c \notin Existing
  <2>1. request[r].row \in Row
    BY <1>3, <1>4 DEF InsertComment, RequestRecord, Idle, Auditing, Ended
  <2>2. QED BY <1>4, <2>1, CommentsAssumption DEF InsertComment, TypeOK, Existing
<1>5. CASE SaveComment(r)
  <2>1. request[r].next \in Row
    BY <1>3, <1>5 DEF SaveComment, RequestRecord, Idle, Auditing, Ended
  <2>2. request[r].comment = c /\ comments'[c] = request[r].next
    BY <1>5 DEF SaveComment, TypeOK
  <2>3. request'[r] = Auditing
    BY <1>5 DEF SaveComment, Goto, TypeOK
  <2>4. QED BY <1>5, <2>1, <2>2, <2>3, CommentsAssumption DEF SaveComment, HoldsComment
<1>6. CASE WriteApprovals(r) \/ WriteAudit(r) \/ Fail(r)
  BY <1>6 DEF WriteApprovals, WriteAudit, Fail
<1>7. QED BY <1>1, <1>2, <1>4, <1>5, <1>6 DEF Serve

\* A version row changes when the request that holds it writes it.
LEMMA ChangedVersion ==
  ASSUME TypeOK, Next, NEW i \in DOMAIN versions, versions'[i] # versions[i]
  PROVE  \E r \in Requests : /\ HoldsVersion(r, i) /\ versions'[i] = request[r].next
                             /\ request'[r] = Auditing
<1>1. ASSUME NEW v \in Document, AddVersion(v) PROVE FALSE
  BY <1>1 DEF AddVersion, TypeOK
<1>2. PICK r \in Requests : Serve(r)
  BY <1>1 DEF Next
<1>3. ~CommentRoutes(r) /\ ~ReviewRoutes(r)
  BY CommentRoutesGoto, ReviewRoutesGoto
<1>4. WriteApprovals(r)
  BY <1>2, <1>3 DEF Serve, InsertComment, SaveComment, WriteAudit, Fail
<1>5. request'[r] = Auditing
  BY <1>4 DEF WriteApprovals, Goto, TypeOK
<1>6. QED BY <1>4, <1>5 DEF WriteApprovals, HoldsVersion, TypeOK

\* No version row is removed, and only AddVersion appends one.
LEMMA ServeAddsNoVersion ==
  ASSUME TypeOK, NEW r \in Requests, Serve(r)
  PROVE  DOMAIN versions' = DOMAIN versions /\ Len(versions') = Len(versions)
<1>1. CASE CommentRoutes(r) \/ ReviewRoutes(r)
  BY <1>1, CommentRoutesGoto, ReviewRoutesGoto
<1>2. CASE WriteApprovals(r)
  <2>1. request[r].next \in Document /\ request[r].version \in DOMAIN versions
    BY <1>2 DEF WriteApprovals, TypeOK, RequestRecord, Idle, Auditing, Ended
  <2>2. QED BY <1>2, <2>1 DEF WriteApprovals, TypeOK
<1>3. QED
  BY <1>1, <1>2 DEF Serve, InsertComment, SaveComment, WriteAudit, Fail

LEMMA VersionsStay ==
  ASSUME TypeOK, Next
  PROVE  DOMAIN versions \subseteq DOMAIN versions'
<1>1. ASSUME NEW v \in Document, AddVersion(v) PROVE DOMAIN versions \subseteq DOMAIN versions'
  BY <1>1 DEF AddVersion, TypeOK
<1>2. QED BY <1>1, ServeAddsNoVersion DEF Next

-----------------------------------------------------------------------------
(* Copies and approvals: the inductive invariant of CommentsHistory        *)

LEMMA InitInv == HistoryInit => IInv
<1> SUFFICES ASSUME HistoryInit PROVE IInv
  OBVIOUS
<1>1. TypeOK
  BY InitType DEF HistoryInit
<1>2. \A r \in Requests : request[r] = Idle
  BY DEF HistoryInit, Init
<1>3. Shared = {}
  BY <1>2 DEF Shared, HoldsComment, HoldsVersion, Idle
<1>4. CopiesAreFresh /\ WritesWereAsked
  BY <1>2 DEF CopiesAreFresh, CommentCopyIsFresh, VersionCopyIsFresh, WritesWereAsked, Idle
<1>5. AcknowledgedApprovalsKept /\ ApprovalsOnVersionRead
  BY DEF HistoryInit, Init, AcknowledgedApprovalsKept, ApprovalsOnVersionRead
<1>6. QED BY <1>1, <1>3, <1>4, <1>5 DEF HistoryInit, IInv

\* Two holders of a row are told by raced.
LEMMA HoldersAreTold ==
  ASSUME IInv, NEW q \in Requests, NEW r \in Requests, q # r
  PROVE  /\ \A c \in CommentIds : HoldsComment(q, c) /\ HoldsComment(r, c) => c \in raced
         /\ \A i \in DOMAIN versions : HoldsVersion(q, i) /\ HoldsVersion(r, i) => i \in raced
BY DEF IInv, Shared

\* What a request holds is a row that exists.
LEMMA HeldRows ==
  ASSUME TypeOK, NEW r \in Requests
  PROVE  /\ request[r].step = "save" => request[r].comment \in CommentIds
         /\ request[r].step = "write" => request[r].version \in DOMAIN versions
BY DEF TypeOK, RequestRecord, Idle, Auditing, Ended

LEMMA CommentCopiesStayFresh ==
  ASSUME IInv, HistoryNext, NEW q \in Requests
  PROVE  CommentCopyIsFresh(q)'
<1>1. TypeOK /\ Next /\ raced \subseteq raced'
  BY DEF IInv, HistoryNext
<1>2. SUFFICES ASSUME request'[q].step = "save"
               PROVE  LET c == request'[q].comment IN
                      /\ c \in Existing'
                      /\ c \in raced' \/ \E op \in RowEdits, user, assignee \in Users :
                           request'[q].next = Edited(comments'[c], q, op, user, assignee)
  BY DEF CommentCopyIsFresh
<1>3. CASE request'[q] = request[q]
  <2> DEFINE c == request[q].comment
  <2>1. c \in CommentIds /\ HoldsComment(q, c)
    BY <1>1, <1>2, <1>3, HeldRows DEF HoldsComment
  <2>2. /\ c \in Existing
        /\ c \in raced \/ \E op \in RowEdits, user, assignee \in Users :
                              request[q].next = Edited(comments[c], q, op, user, assignee)
    BY <1>2, <1>3 DEF IInv, CopiesAreFresh, CommentCopyIsFresh
  <2> HIDE DEF c
  <2>3. CASE comments'[c] = comments[c]
    BY <1>1, <1>3, <2>2, <2>3 DEF Existing, c
  <2>4. CASE comments'[c] # comments[c]
    <3>1. PICK r \in Requests : HoldsComment(r, c) /\ request'[r] = Auditing
      BY <1>1, <2>1, <2>2, <2>4, ChangedComment
    <3>2. r # q
      BY <1>2, <3>1 DEF Auditing
    <3>3. c \in raced
      BY <2>1, <3>1, <3>2, HoldersAreTold
    <3>4. c \in Existing'
      BY <1>1, <2>1, <2>4, ChangedComment DEF Existing
    <3>5. QED BY <1>1, <1>3, <3>3, <3>4 DEF c
  <2>5. QED BY <2>3, <2>4
<1>4. CASE request'[q] # request[q]
  <2>1. Serve(q)
    BY <1>1, <1>4, OnlyOwnSteps
  <2>2. UNCHANGED comments
    BY <1>1, <1>2, <1>4, <2>1, LoadedComment
  <2>3. PICK c \in Existing, op \in RowEdits, user \in Users, assignee \in Users :
          request'[q] = [step |-> "save", comment |-> c,
                         next |-> Edited(comments[c], q, op, user, assignee)]
    BY <1>1, <1>2, <1>4, <2>1, LoadedComment
  <2>4. request'[q].comment = c /\ request'[q].next = Edited(comments'[c], q, op, user, assignee)
    BY <2>2, <2>3
  <2>5. c \in Existing'
    BY <2>2 DEF Existing
  <2>6. QED BY <2>4, <2>5
<1>5. QED BY <1>3, <1>4

LEMMA VersionCopiesStayFresh ==
  ASSUME IInv, HistoryNext, NEW q \in Requests
  PROVE  VersionCopyIsFresh(q)'
<1>1. TypeOK /\ Next /\ raced \subseteq raced'
  BY DEF IInv, HistoryNext
<1>2. SUFFICES ASSUME request'[q].step = "write"
               PROVE  LET i == request'[q].version IN
                      i \in raced' \/ versions'[i].approved \subseteq request'[q].next.approved
  BY DEF VersionCopyIsFresh
<1>3. CASE request'[q] = request[q]
  <2> DEFINE i == request[q].version
  <2>1. i \in DOMAIN versions /\ HoldsVersion(q, i)
    BY <1>1, <1>2, <1>3, HeldRows DEF HoldsVersion
  <2>2. i \in raced \/ versions[i].approved \subseteq request[q].next.approved
    BY <1>2, <1>3 DEF IInv, CopiesAreFresh, VersionCopyIsFresh
  <2> HIDE DEF i
  <2>3. CASE versions'[i] = versions[i]
    BY <1>1, <1>3, <2>2, <2>3 DEF i
  <2>4. CASE versions'[i] # versions[i]
    <3>1. PICK r \in Requests : HoldsVersion(r, i) /\ request'[r] = Auditing
      BY <1>1, <2>1, <2>4, ChangedVersion
    <3>2. r # q
      BY <1>2, <3>1 DEF Auditing
    <3>3. QED BY <1>1, <1>3, <2>1, <3>1, <3>2, HoldersAreTold DEF i
  <2>5. QED BY <2>3, <2>4
<1>4. CASE request'[q] # request[q]
  <2>1. Serve(q)
    BY <1>1, <1>4, OnlyOwnSteps
  <2>2. PICK targets : request'[q] = [step |-> "write", version |-> Latest,
                                      next |-> Approved(versions[Latest], targets)]
    BY <1>1, <1>2, <1>4, <2>1, LoadedVersion
  <2>3. UNCHANGED versions
    BY <1>1, <1>2, <1>4, <2>1, LoadedVersion
  <2>4. Latest \in DOMAIN versions /\ versions[Latest] \in Document
    BY <1>1 DEF TypeOK, Latest
  <2>5. versions[Latest].approved \subseteq Approved(versions[Latest], targets).approved
    BY <2>4, ApprovedIsDocument
  <2>6. QED BY <2>2, <2>3, <2>5
<1>5. QED BY <1>3, <1>4

\* The approvals a request writes were asked for when it read the version.
LEMMA WritesStayAsked ==
  ASSUME IInv, HistoryNext
  PROVE  WritesWereAsked'
<1>1. TypeOK /\ Next
  BY DEF IInv, HistoryNext
<1>2. SUFFICES ASSUME NEW q \in Requests, request'[q].step = "write"
               PROVE  Pairs(q)' \subseteq asked'
  BY DEF WritesWereAsked
<1>3. CASE request'[q] = request[q]
  BY <1>2, <1>3 DEF IInv, WritesWereAsked, Pairs, HistoryNext
<1>4. CASE request'[q] # request[q]
  <2>1. request[q] = Idle
    BY <1>1, <1>2, <1>4, OnlyOwnSteps, LoadedVersion
  <2>2. Reads(q)
    BY <1>2, <2>1 DEF Reads
  <2>3. QED BY <2>2 DEF HistoryNext
<1>5. QED BY <1>3, <1>4

\* A version comes with approvals that count as asked for, and gets others
\* only from the request that wrote it.
LEMMA ApprovalsStayOnVersionRead ==
  ASSUME IInv, HistoryNext
  PROVE  ApprovalsOnVersionRead'
<1>1. TypeOK /\ Next /\ asked \subseteq asked'
  BY DEF IInv, HistoryNext
<1>2. SUFFICES ASSUME NEW i \in DOMAIN versions'
               PROVE  {i} \X versions'[i].approved \subseteq asked'
  BY DEF ApprovalsOnVersionRead
<1>3. CASE i \in DOMAIN versions /\ versions'[i] = versions[i]
  BY <1>1, <1>3 DEF IInv, ApprovalsOnVersionRead
<1>4. CASE i \in DOMAIN versions /\ versions'[i] # versions[i]
  <2>1. PICK r \in Requests : HoldsVersion(r, i) /\ versions'[i] = request[r].next
    BY <1>1, <1>4, ChangedVersion
  <2>2. Pairs(r) \subseteq asked
    BY <2>1 DEF HoldsVersion, IInv, WritesWereAsked
  <2>3. QED BY <1>1, <2>1, <2>2 DEF HoldsVersion, Pairs
<1>5. CASE i \notin DOMAIN versions
  <2>1. Len(versions') > Len(versions) /\ i = Len(versions')
    <3>1. ASSUME NEW r \in Requests, Serve(r) PROVE FALSE
      BY <1>1, <1>2, <1>5, <3>1, ServeAddsNoVersion
    <3>2. PICK v \in Document : AddVersion(v)
      BY <1>1, <3>1 DEF Next
    <3>3. QED BY <1>1, <1>2, <1>5, <3>2 DEF AddVersion, TypeOK
  <2>2. {Len(versions')} \X versions'[Len(versions')].approved \subseteq asked'
    <3> DEFINE read == UNION {Pairs(r)' : r \in {q \in Requests : Reads(q)}}
               new == {Len(versions')} \X versions'[Len(versions')].approved
    <3>1. asked' = asked \union read \union (IF Len(versions') > Len(versions) THEN new ELSE {})
      BY DEF HistoryNext
    <3> HIDE DEF read, new
    <3>2. new \subseteq asked'
      BY <2>1, <3>1
    <3>3. QED BY <3>2 DEF new
  <2>3. QED BY <2>1, <2>2
<1>6. QED BY <1>3, <1>4, <1>5

\* An approval is acknowledged by the step that writes the copy.
LEMMA WritesWrite ==
  ASSUME TypeOK, Next, NEW r \in Requests, Writes(r)
  PROVE  /\ request[r].version \in DOMAIN versions
         /\ request[r].next \in Document
         /\ versions'[request[r].version] = request[r].next
<1>1. request[r].next \in Document /\ request[r].version \in DOMAIN versions
  BY DEF Writes, TypeOK, RequestRecord, Idle, Auditing, Ended
<1>2. Serve(r)
  BY OnlyOwnSteps DEF Writes, Auditing
<1>3. request[r] # Idle
  BY DEF Writes, Idle
<1>4. ~CommentRoutes(r) /\ ~ReviewRoutes(r)
  BY <1>3, CommentRoutesGoto, ReviewRoutesGoto
<1>5. ~Fail(r)
  BY DEF Writes, Fail, Goto, TypeOK, Ended, Auditing
<1>6. WriteApprovals(r)
  BY <1>2, <1>4, <1>5 DEF Serve, InsertComment, SaveComment, WriteAudit, Writes, Auditing
<1>7. QED BY <1>1, <1>6 DEF WriteApprovals, TypeOK

\* What is acknowledged in a step is written by it, and what was acknowledged
\* before is in the copy that a later write of the same version carries.
LEMMA AcknowledgedStay ==
  ASSUME IInv, HistoryNext
  PROVE  /\ granted' \subseteq (DOMAIN versions') \X Elements
         /\ AcknowledgedApprovalsKept'
<1>1. TypeOK /\ Next /\ raced \subseteq raced'
  BY DEF IInv, HistoryNext
<1>2. DOMAIN versions \subseteq DOMAIN versions'
  BY <1>1, VersionsStay
<1>3. ASSUME NEW p \in granted
      PROVE  /\ p \in (DOMAIN versions') \X Elements
             /\ p[1] \in raced' \/ p[2] \in versions'[p[1]].approved
  <2>1. p \in (DOMAIN versions) \X Elements
    BY DEF IInv
  <2>2. p[1] \in raced \/ p[2] \in versions[p[1]].approved
    BY DEF IInv, AcknowledgedApprovalsKept
  <2>3. CASE versions'[p[1]] = versions[p[1]]
    BY <1>1, <1>2, <2>1, <2>2, <2>3
  <2>4. CASE versions'[p[1]] # versions[p[1]]
    <3>1. p[1] \in DOMAIN versions
      BY <2>1
    <3>2. PICK r \in Requests : HoldsVersion(r, p[1]) /\ versions'[p[1]] = request[r].next
      BY <1>1, <2>4, <3>1, ChangedVersion
    <3>3. p[1] \in raced \/ versions[p[1]].approved \subseteq request[r].next.approved
      BY <3>2 DEF HoldsVersion, IInv, CopiesAreFresh, VersionCopyIsFresh
    <3>4. QED BY <1>1, <1>2, <2>1, <2>2, <3>2, <3>3
  <2>5. QED BY <2>3, <2>4
<1>4. ASSUME NEW r \in Requests, Writes(r), NEW p \in Pairs(r)
      PROVE  /\ p \in (DOMAIN versions') \X Elements
             /\ p[2] \in versions'[p[1]].approved
  <2>1. /\ request[r].version \in DOMAIN versions
        /\ request[r].next \in Document
        /\ versions'[request[r].version] = request[r].next
    BY <1>1, <1>4, WritesWrite
  <2>2. request[r].next.approved \subseteq Elements
    BY <2>1 DEF Document
  <2>3. p[1] = request[r].version /\ p[2] \in request[r].next.approved
        /\ p = <<p[1], p[2]>>
    BY <1>4 DEF Pairs
  <2>4. QED BY <1>2, <2>1, <2>2, <2>3
<1>5. \A p \in granted' : p \in granted \/ \E r \in Requests : Writes(r) /\ p \in Pairs(r)
  BY DEF HistoryNext
<1>6. QED BY <1>3, <1>4, <1>5 DEF AcknowledgedApprovalsKept

LEMMA NextInv == IInv /\ [HistoryNext]_historyVars => IInv'
<1>1. ASSUME IInv, HistoryNext PROVE IInv'
  <2>1. TypeOK'
    BY <1>1, NextType DEF IInv, HistoryNext
  <2>2. (Shared \subseteq raced)'
    BY <1>1 DEF HistoryNext
  <2>3. CopiesAreFresh'
    BY <1>1, CommentCopiesStayFresh, VersionCopiesStayFresh DEF CopiesAreFresh
  <2>4. QED
    BY <1>1, <2>1, <2>2, <2>3, WritesStayAsked, ApprovalsStayOnVersionRead, AcknowledgedStay DEF IInv
<1>2. ASSUME IInv, UNCHANGED historyVars PROVE IInv'
  BY <1>2 DEF historyVars, vars, IInv, TypeOK, RequestRecord, Shared, HoldsComment, HoldsVersion,
     CopiesAreFresh, CommentCopyIsFresh, VersionCopyIsFresh, Existing, WritesWereAsked, Pairs,
     AcknowledgedApprovalsKept, ApprovalsOnVersionRead
<1>3. QED BY <1>1, <1>2

\* The invariant that ties every copy a request holds to the row it came from.
THEOREM Invariance == HistorySpec => []IInv
<1>1. QED BY InitInv, NextInv, PTL DEF HistorySpec

\* An acknowledged approval is lost only when two approvals of its version
\* overlapped: no edit of a comment, new version or failing call takes it back.
THEOREM ApprovalsAreKept == HistorySpec => []AcknowledgedApprovalsKept
<1>1. IInv => AcknowledgedApprovalsKept
  BY DEF IInv
<1>2. QED BY <1>1, Invariance, PTL

\* No element is approved in a version other than the one that was the latest
\* when the request that asked for it arrived, or that was added with it
\* (CommentsService.approveElement, bulkApproveElements).
THEOREM ApprovalsOfVersionRead == HistorySpec => []ApprovalsOnVersionRead
<1>1. IInv => ApprovalsOnVersionRead
  BY DEF IInv
<1>2. QED BY <1>1, Invariance, PTL

\* Every change of a comment that only one request holds is one edit of the
\* row as it is.
THEOREM EditsAreAtomic == HistorySpec => SerialEditsAreAtomic
<1> DEFINE Atomic ==
      \A c \in CommentIds \ raced :
          comments[c] # None /\ comments'[c] # comments[c] =>
             \E r \in Requests, op \in RowEdits, user, assignee \in Users :
                comments'[c] = Edited(comments[c], r, op, user, assignee)
<1>1. ASSUME IInv, Next PROVE Atomic
  <2>1. SUFFICES ASSUME NEW c \in CommentIds, c \notin raced, comments[c] # None,
                        comments'[c] # comments[c]
                 PROVE  \E r \in Requests, op \in RowEdits, user, assignee \in Users :
                           comments'[c] = Edited(comments[c], r, op, user, assignee)
    OBVIOUS
  <2>2. PICK r \in Requests : HoldsComment(r, c) /\ comments'[c] = request[r].next
    BY <1>1, <2>1, ChangedComment DEF IInv, Existing
  <2>3. \E op \in RowEdits, user, assignee \in Users :
           request[r].next = Edited(comments[c], r, op, user, assignee)
    BY <1>1, <2>1, <2>2 DEF HoldsComment, IInv, CopiesAreFresh, CommentCopyIsFresh
  <2>4. QED BY <2>2, <2>3
<1>2. IInv /\ [HistoryNext]_historyVars => [Atomic]_vars
  BY <1>1 DEF HistoryNext, historyVars
<1>3. QED BY <1>2, Invariance, PTL DEF HistorySpec, SerialEditsAreAtomic
=============================================================================
