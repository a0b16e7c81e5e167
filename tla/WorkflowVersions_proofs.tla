----------------------- MODULE WorkflowVersions_proofs ----------------------
(***************************************************************************)
(* Proofs about WorkflowVersions, for any sets of requests and results and *)
(* any number of deliveries: the numbering of versions and the trigger,    *)
(* the version of each acknowledged request, and what a workflow that one  *)
(* writer at a time touches is guaranteed.                                 *)
(***************************************************************************)
EXTENDS WorkflowVersionsHistory, FiniteSetTheorems, TLAPS

\* MAX(version_number) of rows numbered 1..k is k.
LEMMA LatestOfInterval ==
  ASSUME NEW rows, NEW k \in Nat, DOMAIN rows = 1..k
  PROVE  LatestOf(rows) = k
<1>1. CASE k = 0
  BY <1>1 DEF LatestOf
<1>2. CASE k # 0
  <2>1. k \in DOMAIN rows /\ \A m \in DOMAIN rows : m <= k
    BY <1>2
  <2>2. \A n \in DOMAIN rows : (\A m \in DOMAIN rows : m <= n) => n = k
    BY <2>1
  <2>3. LatestOf(rows) = CHOOSE n \in DOMAIN rows : \A m \in DOMAIN rows : m <= n
    BY <2>1 DEF LatestOf
  <2>4. QED BY <2>1, <2>2, <2>3
<1>3. QED BY <1>1, <1>2

\* An INSERT that the UNIQUE constraint accepts, of a number at most one above
\* the greatest, extends the numbering by exactly one.
LEMMA InsertExtends ==
  ASSUME IInv, NEW n \in 1..(Latest + 1), NEW writer \in Writers,
         CanInsert(n), Insert(n, writer)
  PROVE  /\ Latest \in Nat
         /\ n = Latest + 1
         /\ Latest' = Latest + 1
         /\ NumberedWithoutGaps'
         /\ DOMAIN versions' \subseteq Nat \ {0}
         /\ versions' \in [DOMAIN versions' -> Writers]
<1>1. Latest \in Nat /\ DOMAIN versions = 1..Latest
  BY DEF IInv, NumberedWithoutGaps
<1>2. n = Latest + 1
  BY <1>1 DEF CanInsert
<1>3. DOMAIN versions' = 1..(Latest + 1)
  BY <1>1, <1>2 DEF Insert
<1>4. Latest' = Latest + 1
  BY <1>1, <1>3, LatestOfInterval DEF Latest
<1>5. versions' \in [DOMAIN versions' -> Writers]
  BY DEF Insert, IInv, TypeOK
<1>6. QED BY <1>1, <1>2, <1>3, <1>4, <1>5 DEF NumberedWithoutGaps

\* Initially there is no row, no version and nothing in flight.
LEMMA InitInv == Init => IInv
<1> SUFFICES ASSUME Init PROVE IInv
  OBVIOUS
<1>1. DOMAIN versions = {} /\ Latest = 0
  BY DEF Init, Latest, LatestOf
<1>2. TypeOK
  BY <1>1, WVAssumption DEF Init, TypeOK, Row, NoRow, IdleRequest, RequestRecord, RequestSteps,
       IdleAi, AiRecord
<1>3. NumberedWithoutGaps
  BY <1>1 DEF NumberedWithoutGaps
<1>4. PendingWritesBounded
  BY <1>1 DEF Init, PendingWritesBounded, NoRow, IdleRequest, IdleAi
<1>5. QED BY <1>2, <1>3, <1>4 DEF IInv

\* Every number a request or the handler holds is a natural number.
LEMMA HeldNumbers ==
  IInv => /\ \A r \in Requests :
               request[r].version \in Nat /\ request[r].entity.currentVersion \in Nat
          /\ ai.version \in Nat /\ ai.entity.currentVersion \in Nat
          /\ ai.step # "idle" => ai \in HandlingRecord
BY DEF IInv, TypeOK, RequestRecord, AiRecord, HandlingRecord, IdleAi, NoRow, Row

\* A step that adds no version keeps the numbering.
LEMMA SameVersions ==
  ASSUME IInv, UNCHANGED versions
  PROVE  /\ Latest \in Nat
         /\ Latest' = Latest
         /\ NumberedWithoutGaps'
BY DEF IInv, NumberedWithoutGaps, Latest

\* A save writes a row; one whose number the trigger checks stays at or below
\* the greatest version number.
LEMMA SaveBounded ==
  ASSUME IInv, UNCHANGED versions, NEW entity \in Row, Save(entity)
  PROVE  workflow' \in Row /\ workflow'.currentVersion <= Latest'
<1>1. Latest' = Latest
  BY SameVersions
<1>2. workflow \in Row /\ workflow.currentVersion <= Latest
  BY DEF IInv, TypeOK, PendingWritesBounded
<1>3. CASE TriggerAccepts(entity)
  BY <1>1, <1>2, <1>3 DEF Save, TriggerAccepts, Row
<1>4. CASE ~TriggerAccepts(entity)
  BY <1>1, <1>2, <1>4 DEF Save
<1>5. QED BY <1>3, <1>4

LEMMA CreateStep == IInv /\ Create => IInv'
<1> SUFFICES ASSUME IInv, Create PROVE IInv'
  OBVIOUS
<1> USE DEF IInv
<1>1. CASE CreateRow
  <2>1. TypeOK'
    BY <1>1, WVAssumption DEF TypeOK, CreateRow, Row, WorkflowStatus
  <2>2. PendingWritesBounded'
    BY <1>1, SameVersions DEF CreateRow, PendingWritesBounded
  <2>3. QED BY <1>1, <2>1, <2>2, SameVersions DEF CreateRow
<1>2. CASE CreateFirstVersion
  <2>1. 1 \in 1..(Latest + 1) /\ Creator \in Writers /\ CanInsert(1) /\ Insert(1, Creator)
    BY <1>2 DEF CreateFirstVersion, Writers, NumberedWithoutGaps
  <2>2. Latest \in Nat /\ Latest' = Latest + 1 /\ NumberedWithoutGaps'
    BY <2>1, InsertExtends
  <2>3. TypeOK'
    BY <1>2, <2>1, InsertExtends DEF TypeOK, CreateFirstVersion
  <2>4. PendingWritesBounded'
    BY <1>2, <2>2, HeldNumbers, WVAssumption DEF TypeOK, CreateFirstVersion, PendingWritesBounded, Row
  <2>5. QED BY <2>2, <2>3, <2>4
<1>3. CASE CreateFirstVersionConflict
  <2>1. TypeOK'
    BY <1>3 DEF TypeOK, CreateFirstVersionConflict
  <2>2. PendingWritesBounded'
    BY <1>3, SameVersions DEF CreateFirstVersionConflict, PendingWritesBounded
  <2>3. QED BY <1>3, <2>1, <2>2, SameVersions DEF CreateFirstVersionConflict
<1>4. CASE CreateSave
  <2>1. [status |-> "DRAFT", currentVersion |-> 1] \in Row
    BY DEF Row, WorkflowStatus
  <2>2. workflow' \in Row /\ workflow'.currentVersion <= Latest'
    BY <1>4, <2>1, SaveBounded DEF CreateSave
  <2>3. TypeOK'
    BY <1>4, <2>2 DEF TypeOK, CreateSave
  <2>4. PendingWritesBounded'
    BY <1>4, <2>2, SameVersions DEF CreateSave, PendingWritesBounded
  <2>5. QED BY <1>4, <2>3, <2>4, SameVersions DEF CreateSave
<1>5. CASE CreateFails
  <2>1. TypeOK'
    BY <1>5 DEF TypeOK, CreateFails
  <2>2. PendingWritesBounded'
    BY <1>5, SameVersions DEF CreateFails, PendingWritesBounded
  <2>3. QED BY <1>5, <2>1, <2>2, SameVersions DEF CreateFails
<1>6. QED BY <1>1, <1>2, <1>3, <1>4, <1>5 DEF Create

\* What a request may hold, given the rows.
RequestBounded(rec) ==
  /\ rec \in RequestRecord
  /\ rec.step \in {"txRead", "txWrite", "save"} => rec.entity.currentVersion <= Latest
  /\ rec.step = "txWrite" => rec.version \in 1..(Latest + 1)

\* A step of one request that adds no version preserves the invariant when
\* what the request then holds, and the row, are bounded by the rows.
LEMMA RequestUpdate ==
  ASSUME IInv, NEW r \in Requests, NEW rec, RequestBounded(rec),
         request' = [request EXCEPT ![r] = rec],
         workflow' \in Row, workflow'.currentVersion <= Latest,
         UNCHANGED <<versions, creation, ai, delivered, settled>>
  PROVE  IInv'
<1> USE DEF IInv
<1>1. TypeOK'
  BY DEF TypeOK, RequestBounded
<1>2. \A q \in Requests : request'[q] = IF q = r THEN rec ELSE request[q]
  BY DEF TypeOK
<1>3. PendingWritesBounded'
  BY <1>2, SameVersions DEF PendingWritesBounded, RequestBounded
<1>4. QED BY <1>1, <1>3, SameVersions

\* An answered request holds nothing.
LEMMA AnsweredBounded ==
  ASSUME IInv, NEW r \in Requests,
         NEW step \in {"done", "rejected", "failed", "crashed"}
  PROVE  RequestBounded(Answered(r, step))
BY DEF IInv, TypeOK, RequestBounded, Answered, IdleRequest, RequestRecord, RequestSteps, NoRow, Row

LEMMA BeginStep ==
  ASSUME IInv, NEW r \in Requests, NEW step \in {"save", "txRead", "exportRead"},
         NEW status \in WorkflowStatus \cup {NoStatus}, NEW withVersion \in BOOLEAN,
         Begin(r, step, status, withVersion)
  PROVE  IInv'
<1> DEFINE entity == [workflow EXCEPT !.status = IF status = NoStatus THEN @ ELSE status]
           rec == [step |-> step, entity |-> entity, withVersion |-> withVersion, version |-> 0]
<1>1. workflow \in Row /\ workflow.currentVersion <= Latest
  BY DEF IInv, TypeOK, PendingWritesBounded
<1>2. entity \in Row /\ entity.currentVersion = workflow.currentVersion
  BY <1>1 DEF Row
<1>3. RequestBounded(rec)
  BY <1>1, <1>2 DEF RequestBounded, RequestRecord, RequestSteps
<1>4. request' = [request EXCEPT ![r] = rec]
  BY DEF Begin
<1>5. workflow' = workflow /\ UNCHANGED <<versions, creation, ai, delivered, settled>>
  BY DEF Begin
<1> HIDE DEF rec
<1>6. QED BY <1>1, <1>3, <1>4, <1>5, RequestUpdate

\* A request that commits its version: the number is new, so the stale entity
\* plus one is still at most the greatest number.
LEMMA TxWriteStep ==
  ASSUME IInv, NEW r \in Requests, TxWrite(r)
  PROVE  IInv'
<1> USE DEF IInv
<1>1. /\ request[r] \in RequestRecord
      /\ request[r].version \in 1..(Latest + 1)
      /\ request[r].entity.currentVersion <= Latest
  BY DEF TxWrite, TypeOK, PendingWritesBounded
<1>2. /\ Latest \in Nat /\ request[r].version = Latest + 1 /\ Latest' = Latest + 1
      /\ NumberedWithoutGaps'
      /\ DOMAIN versions' \subseteq Nat \ {0}
      /\ versions' \in [DOMAIN versions' -> Writers]
  <2>1. CanInsert(request[r].version) /\ Insert(request[r].version, r) /\ r \in Writers
    BY DEF TxWrite, Writers
  <2>2. QED BY <1>1, <2>1, InsertExtends
<1> DEFINE rec == [step |-> "save",
                   entity |-> [request[r].entity EXCEPT !.currentVersion = @ + 1],
                   withVersion |-> request[r].withVersion,
                   version |-> request[r].version]
<1>3. request' = [request EXCEPT ![r] = rec]
  BY DEF TxWrite, Continue
<1>4. rec \in RequestRecord /\ rec.step = "save" /\ rec.entity.currentVersion <= Latest'
  BY <1>1, <1>2 DEF RequestRecord, RequestSteps, Row
<1>5. workflow' \in Row /\ workflow'.currentVersion = Latest'
  BY <1>1, <1>2 DEF TxWrite, TypeOK, Row
<1> HIDE DEF rec
<1>6. TypeOK'
  <2>1. request' \in [Requests -> RequestRecord]
    BY <1>3, <1>4 DEF TypeOK
  <2>2. /\ creation' \in {"none", "row", "version", "done", "failed"}
        /\ ai' \in AiRecord
        /\ delivered' \in [Results -> 0..MaxDeliver]
        /\ settled' \subseteq Results
    BY DEF TxWrite, TypeOK
  <2>3. QED BY <1>2, <1>5, <2>1, <2>2 DEF TypeOK
<1>7. \A q \in Requests : request'[q] = IF q = r THEN rec ELSE request[q]
  BY <1>3 DEF TypeOK
<1>8. \A q \in Requests : request[q].version \in Nat /\ request[q].entity.currentVersion \in Nat
  BY HeldNumbers
<1>9. ai.version \in Nat /\ ai.entity.currentVersion \in Nat
  BY HeldNumbers
<1>10. PendingWritesBounded'
  <2>1. workflow'.currentVersion <= Latest'
    BY <1>2, <1>5
  <2>2. creation' = "version" => 1 <= Latest'
    BY <1>2 DEF PendingWritesBounded, TxWrite
  <2>3. ASSUME NEW q \in Requests
        PROVE  /\ request'[q].step \in {"txRead", "txWrite", "save"} =>
                      request'[q].entity.currentVersion <= Latest'
               /\ request'[q].step = "txWrite" => request'[q].version \in 1..(Latest' + 1)
    BY <1>2, <1>4, <1>7, <1>8 DEF PendingWritesBounded
  <2>4. /\ ai'.step = "insert" => ai'.version \in 1..(Latest' + 1)
        /\ ai'.step = "save" => ai'.entity.currentVersion <= Latest'
    BY <1>2, <1>9 DEF PendingWritesBounded, TxWrite
  <2>5. QED BY <2>1, <2>2, <2>3, <2>4 DEF PendingWritesBounded
<1>11. QED BY <1>2, <1>6, <1>10

\* Every step of a request.
LEMMA ServeStep ==
  ASSUME IInv, NEW r \in Requests, Serve(r)
  PROVE  IInv'
<1>1. /\ workflow \in Row /\ workflow.currentVersion <= Latest
      /\ request[r] \in RequestRecord /\ request[r].entity \in Row
      /\ Latest \in Nat
  BY DEF IInv, TypeOK, PendingWritesBounded, RequestRecord, NumberedWithoutGaps
<1>2. CASE LoadForUpdate(r)
  <2>1. PICK status \in DtoStatus \cup {NoStatus} : Begin(r, "save", status, FALSE)
    BY <1>2 DEF LoadForUpdate
  <2>2. QED BY <2>1, BeginStep, WVAssumption
<1>3. CASE LoadForNewVersion(r)
  <2>1. PICK status \in DtoStatus \cup {NoStatus} : Begin(r, "txRead", status, TRUE)
    BY <1>3 DEF LoadForNewVersion
  <2>2. QED BY <2>1, BeginStep, WVAssumption
<1>4. CASE LoadForArchive(r)
  BY <1>4, BeginStep DEF LoadForArchive, WorkflowStatus
<1>5. CASE CheckExport(r)
  BY <1>5, BeginStep DEF CheckExport
<1>6. CASE TxRead(r)
  <2> DEFINE rec == [step |-> "txWrite", entity |-> request[r].entity,
                     withVersion |-> request[r].withVersion,
                     version |-> workflow.currentVersion + 1]
  <2>1. RequestBounded(rec)
    BY <1>1, <1>6 DEF TxRead, RequestBounded, RequestRecord, RequestSteps, Row, IInv,
       PendingWritesBounded
  <2>2. request' = [request EXCEPT ![r] = rec]
    BY <1>6 DEF TxRead, Continue
  <2> HIDE DEF rec
  <2>3. QED BY <1>1, <1>6, <2>1, <2>2, RequestUpdate DEF TxRead
<1>7. CASE TxWrite(r)
  BY <1>7, TxWriteStep
<1>8. CASE TxConflict(r)
  BY <1>1, <1>8, AnsweredBounded, RequestUpdate DEF TxConflict, Answer
<1>9. CASE SaveRequest(r)
  <2> DEFINE step == IF TriggerAccepts(request[r].entity) THEN "done" ELSE "failed"
  <2>1. step \in {"done", "rejected", "failed", "crashed"}
    OBVIOUS
  <2>2. request' = [request EXCEPT ![r] = Answered(r, step)]
    BY <1>9 DEF SaveRequest, Answer
  <2> HIDE DEF step
  <2>3. workflow' \in Row /\ workflow'.currentVersion <= Latest
    BY <1>1, <1>9, SaveBounded, SameVersions DEF SaveRequest
  <2>4. QED BY <1>9, <2>1, <2>2, <2>3, AnsweredBounded, RequestUpdate DEF SaveRequest
<1>10. CASE ExportRead(r)
  <2>1. CASE workflow.currentVersion \in DOMAIN versions
    <3> DEFINE rec == [step |-> "exportWrite", entity |-> request[r].entity,
                       withVersion |-> request[r].withVersion,
                       version |-> workflow.currentVersion]
    <3>1. RequestBounded(rec)
      BY <1>1 DEF RequestBounded, RequestRecord, RequestSteps, Row
    <3>2. request' = [request EXCEPT ![r] = rec]
      BY <1>10, <2>1 DEF ExportRead, Continue
    <3> HIDE DEF rec
    <3>3. QED BY <1>1, <1>10, <3>1, <3>2, RequestUpdate DEF ExportRead
  <2>2. CASE workflow.currentVersion \notin DOMAIN versions
    BY <1>1, <1>10, <2>2, AnsweredBounded, RequestUpdate DEF ExportRead, Answer
  <2>3. QED BY <2>1, <2>2
<1>11. CASE ExportWrite(r)
  <2>1. workflow' \in Row /\ workflow'.currentVersion <= Latest
    BY <1>1, <1>11 DEF ExportWrite, Row, WorkflowStatus
  <2>2. QED BY <1>11, <2>1, AnsweredBounded, RequestUpdate DEF ExportWrite, Answer
<1>12. CASE ExportAsync(r)
  BY <1>1, <1>12, AnsweredBounded, RequestUpdate DEF ExportAsync, InsertExportPipeline, Answer
<1>13. CASE RequestFails(r)
  <2>1. workflow' \in Row /\ workflow'.currentVersion <= Latest
    BY <1>1, <1>13, SaveBounded, SameVersions DEF RequestFails
  <2>2. QED BY <1>13, <2>1, AnsweredBounded, RequestUpdate DEF RequestFails, Answer
<1>14. QED
  BY <1>2, <1>3, <1>4, <1>5, <1>6, <1>7, <1>8, <1>9, <1>10, <1>11, <1>12, <1>13 DEF Serve

\* The AI handler: a result reserves a number read from MAX(), inserts it and
\* saves the entity it loaded before with that number.
LEMMA HandleResultStep == IInv /\ HandleResult => IInv'
<1> SUFFICES ASSUME IInv, HandleResult PROVE IInv'
  OBVIOUS
<1> USE DEF IInv
<1>1. /\ workflow \in Row /\ workflow.currentVersion <= Latest
      /\ ai \in AiRecord
      /\ Latest \in Nat
  BY DEF TypeOK, PendingWritesBounded, NumberedWithoutGaps
<1>2. IdleAi \in AiRecord /\ IdleAi.step = "idle"
  BY DEF IdleAi, AiRecord
<1>3. ASSUME NEW res \in Results, AiLoad(res)
      PROVE  IInv'
  <2>1. delivered' \in [Results -> 0..MaxDeliver]
    BY <1>3, WVAssumption DEF AiLoad, TypeOK
  <2>2. ai' \in AiRecord
    BY <1>1, <1>3 DEF AiLoad, AiRecord, HandlingRecord
  <2>3. TypeOK'
    BY <1>3, <2>1, <2>2 DEF AiLoad, TypeOK
  <2>4. PendingWritesBounded'
    BY <1>3, SameVersions DEF AiLoad, PendingWritesBounded
  <2>5. QED BY <1>3, <2>3, <2>4, SameVersions DEF AiLoad
<1>4. CASE AiReadMax
  <2>1. TypeOK'
    <3>1. ai \in HandlingRecord /\ Latest + 1 \in Nat
      BY <1>1, <1>4, HeldNumbers DEF AiReadMax
    <3>2. ai' = [ai EXCEPT !.step = "insert", !.version = Latest + 1]
      BY <1>4 DEF AiReadMax
    <3>3. ai' \in HandlingRecord
      BY <3>1, <3>2 DEF HandlingRecord
    <3>4. QED BY <1>4, <3>3 DEF AiReadMax, TypeOK, AiRecord
  <2>2. PendingWritesBounded'
    BY <1>1, <1>4, SameVersions DEF AiReadMax, PendingWritesBounded
  <2>3. QED BY <1>4, <2>1, <2>2, SameVersions DEF AiReadMax
<1>5. CASE AiInsert
  <2>1. ai.version \in 1..(Latest + 1)
    BY <1>5 DEF AiInsert, PendingWritesBounded
  <2>2. ai.result \in Results
    BY <1>5, HeldNumbers DEF AiInsert, HandlingRecord
  <2>3. /\ ai.version = Latest + 1 /\ Latest' = Latest + 1 /\ NumberedWithoutGaps'
        /\ DOMAIN versions' \subseteq Nat \ {0}
        /\ versions' \in [DOMAIN versions' -> Writers]
    BY <1>5, <2>1, <2>2, InsertExtends DEF AiInsert, Writers
  <2>4. /\ ai' \in AiRecord
        /\ ai'.step = "save" /\ ai'.entity.currentVersion = ai.version
    <3>1. ai' \in HandlingRecord /\ ai'.step = "save" /\ ai'.entity.currentVersion = ai.version
      BY <1>5, HeldNumbers DEF AiInsert, HandlingRecord, Row, WorkflowStatus
    <3>2. QED BY <3>1 DEF AiRecord
  <2>5. TypeOK'
    BY <1>5, <2>3, <2>4 DEF AiInsert, TypeOK
  <2>7. PendingWritesBounded'
    BY <1>1, <1>5, <2>3, <2>4, HeldNumbers DEF AiInsert, PendingWritesBounded, Row
  <2>8. QED BY <2>3, <2>5, <2>7
<1>6. CASE AiSave
  <2>1. workflow' \in Row /\ workflow'.currentVersion <= Latest'
    <3>1. ai.entity \in Row
      BY <1>6, HeldNumbers DEF AiSave, HandlingRecord
    <3>2. QED BY <1>6, <3>1, SaveBounded DEF AiSave
  <2>2. /\ ai' \in AiRecord
        /\ ai'.step \in {"rest", "idle"}
    BY <1>2, <1>6, HeldNumbers DEF AiSave, AiRecord, HandlingRecord
  <2>3. TypeOK'
    BY <1>6, <2>1, <2>2 DEF AiSave, TypeOK
  <2>4. PendingWritesBounded'
    BY <1>6, <2>1, <2>2, SameVersions DEF AiSave, PendingWritesBounded
  <2>5. QED BY <1>6, <2>3, <2>4, SameVersions DEF AiSave
<1>7. CASE AiInsertConflict \/ AiSettle \/ AiFail
  <2>1. /\ ai' = IdleAi /\ settled' \subseteq Results
        /\ UNCHANGED <<workflow, versions, creation, request, delivered>>
    BY <1>7, HeldNumbers DEF AiInsertConflict, AiSettle, AiFail, TypeOK, HandlingRecord
  <2>2. TypeOK'
    BY <1>2, <2>1 DEF TypeOK
  <2>3. PendingWritesBounded'
    BY <1>2, <2>1, SameVersions DEF PendingWritesBounded
  <2>4. QED BY <2>1, <2>2, <2>3, SameVersions
<1>8. QED BY <1>3, <1>4, <1>5, <1>6, <1>7 DEF HandleResult

LEMMA CrashStep == IInv /\ Crash => IInv'
<1> SUFFICES ASSUME IInv, Crash PROVE IInv'
  OBVIOUS
<1> USE DEF IInv
<1>1. ASSUME NEW r \in Requests
      PROVE  /\ request'[r] \in RequestRecord
             /\ request'[r] = request[r] \/ request'[r].step = "crashed"
  BY AnsweredBounded DEF Crash, TypeOK, Answered, RequestBounded, IdleRequest
<1>2. ai' = IdleAi /\ IdleAi \in AiRecord /\ IdleAi.step = "idle"
  BY DEF Crash, AiRecord, IdleAi
<1>3. TypeOK'
  <2>1. request' \in [Requests -> RequestRecord]
    BY <1>1 DEF Crash
  <2>2. QED BY <1>2, <2>1 DEF Crash, TypeOK
<1>4. PendingWritesBounded'
  BY <1>1, <1>2, SameVersions DEF Crash, PendingWritesBounded
<1>5. QED BY <1>3, <1>4, SameVersions DEF Crash

LEMMA NextInv == IInv /\ [Next]_vars => IInv'
<1> SUFFICES ASSUME IInv, [Next]_vars PROVE IInv'
  OBVIOUS
<1>1. CASE Next
  BY <1>1, CreateStep, ServeStep, HandleResultStep, CrashStep DEF Next
<1>2. CASE UNCHANGED vars
  BY <1>2 DEF vars, IInv, TypeOK, NumberedWithoutGaps, PendingWritesBounded, Latest
<1>3. QED BY <1>1, <1>2

\* WorkflowsService and GenerationCompleteHandler keep the invariant in every
\* interleaving, with crashes and redeliveries.
THEOREM Invariance == Spec => []IInv
<1>1. Init => IInv
  BY InitInv
<1>2. IInv /\ [Next]_vars => IInv'
  BY NextInv
<1>3. QED BY <1>1, <1>2, PTL DEF Spec

\* The rows keep their types.
THEOREM TypeCorrect == Spec => []TypeOK
<1>1. IInv => TypeOK
  BY DEF IInv
<1>2. QED BY <1>1, Invariance, PTL

\* update() numbers from current_version, the AI handler from MAX(): whatever
\* they interleave, the rows are numbered 1, 2, ..., MAX(version_number).
THEOREM NumberingHasNoGaps == Spec => []NumberedWithoutGaps
<1>1. IInv => NumberedWithoutGaps
  BY DEF IInv
<1>2. QED BY <1>1, Invariance, PTL

\* enforce_workflow_current_version never refuses a save of this code.
THEOREM TriggerIsNeverReached == Spec => []TriggerNeverRejects
<1>1. IInv => TriggerNeverRejects
  BY DEF IInv, PendingWritesBounded, TriggerNeverRejects, TriggerAccepts
<1>2. QED BY <1>1, Invariance, PTL

\* No step of any writer replaces or removes a version row.
THEOREM VersionRowsAreImmutable == Spec => VersionsImmutable
<1> DEFINE Keeps == \A n \in DOMAIN versions : n \in DOMAIN versions' /\ versions'[n] = versions[n]
<1>1. ASSUME NEW n, NEW writer, CanInsert(n), Insert(n, writer)
      PROVE  Keeps
  BY <1>1 DEF CanInsert, Insert
<1>2. Next => Keeps
  <2> SUFFICES ASSUME Next PROVE Keeps
    OBVIOUS
  <2>1. CASE Create
    BY <1>1, <2>1 DEF Create, CreateRow, CreateFirstVersion, CreateFirstVersionConflict, CreateSave, CreateFails
  <2>2. ASSUME NEW r \in Requests, Serve(r)
        PROVE  Keeps
    BY <1>1, <2>2 DEF Serve, LoadForUpdate, LoadForNewVersion, LoadForArchive, CheckExport, Begin,
       TxRead, TxWrite, TxConflict, SaveRequest, RequestFails, ExportRead, ExportWrite, ExportAsync, InsertExportPipeline
  <2>3. CASE HandleResult
    BY <1>1, <2>3 DEF HandleResult, AiLoad, AiReadMax, AiInsert, AiInsertConflict, AiSave,
       AiSettle, AiFail
  <2>4. CASE Crash
    BY <2>4 DEF Crash
  <2>5. QED BY <2>1, <2>2, <2>3, <2>4 DEF Next
<1>3. [Next]_vars => [Keeps]_versions
  BY <1>2 DEF vars
<1>4. QED BY <1>3, PTL DEF Spec, VersionsImmutable
-----------------------------------------------------------------------------
(* The version of each acknowledged request.                               *)

\* A step that writes no version leaves every writer its versions.
LEMMA VersionsKept ==
  ASSUME UNCHANGED versions, NEW writer
  PROVE  Versions(writer)' = Versions(writer)
BY DEF Versions

\* An INSERT adds one number to its writer's versions and to nobody else's.
LEMMA VersionsAfterInsert ==
  ASSUME NEW n, NEW writer, CanInsert(n), Insert(n, writer)
  PROVE  /\ Versions(writer)' = Versions(writer) \cup {n}
         /\ \A other : other # writer => Versions(other)' = Versions(other)
BY DEF Versions, CanInsert, Insert

\* A step that touches neither the requests nor their versions.
LEMMA RequestsKept ==
  ASSUME VersionsByRequest, UNCHANGED request,
         \A r \in Requests : Versions(r)' = Versions(r)
  PROVE  VersionsByRequest'
BY DEF VersionsByRequest, VersionFollowsStep

\* A step of request r: the others keep their versions and their steps.
LEMMA OneRequest ==
  ASSUME IInv, VersionsByRequest, NEW r \in Requests, NEW rec,
         request' = [request EXCEPT ![r] = rec],
         \A q \in Requests : q # r => Versions(q)' = Versions(q),
         request'[r] = rec => VersionFollowsStep(r)'
  PROVE  VersionsByRequest'
<1>1. \A q \in Requests : request'[q] = IF q = r THEN rec ELSE request[q]
  BY DEF IInv, TypeOK
<1>2. ASSUME NEW q \in Requests PROVE VersionFollowsStep(q)'
  <2>1. CASE q = r
    BY <1>1, <2>1
  <2>2. CASE q # r
    BY <1>1, <2>2 DEF VersionsByRequest, VersionFollowsStep
  <2>3. QED BY <2>1, <2>2
<1>3. QED BY <1>2 DEF VersionsByRequest

LEMMA InitVersionsByRequest == Init => VersionsByRequest
BY DEF Init, VersionsByRequest, VersionFollowsStep, Versions, IdleRequest

LEMMA CreateKeepsVersions == IInv /\ VersionsByRequest /\ Create => VersionsByRequest'
<1> SUFFICES ASSUME IInv, VersionsByRequest, Create PROVE VersionsByRequest'
  OBVIOUS
<1>1. CASE CreateFirstVersion
  <2>1. \A r \in Requests : Versions(r)' = Versions(r)
    BY <1>1, VersionsAfterInsert, WVAssumption DEF CreateFirstVersion
  <2>2. QED BY <1>1, <2>1, RequestsKept DEF CreateFirstVersion
<1>2. CASE CreateRow \/ CreateFirstVersionConflict \/ CreateSave \/ CreateFails
  <2>1. UNCHANGED <<versions, request>>
    BY <1>2 DEF CreateRow, CreateFirstVersionConflict, CreateSave, CreateFails
  <2>2. QED BY <2>1, VersionsKept, RequestsKept
<1>3. QED BY <1>1, <1>2 DEF Create

LEMMA HandleResultKeepsVersions ==
  IInv /\ VersionsByRequest /\ HandleResult => VersionsByRequest'
<1> SUFFICES ASSUME IInv, VersionsByRequest, HandleResult PROVE VersionsByRequest'
  OBVIOUS
<1>1. CASE AiInsert
  <2>1. ai.result \in Results
    BY <1>1, HeldNumbers DEF AiInsert, HandlingRecord
  <2>2. \A r \in Requests : Versions(r)' = Versions(r)
    BY <1>1, <2>1, VersionsAfterInsert, WVAssumption DEF AiInsert
  <2>3. QED BY <1>1, <2>2, RequestsKept DEF AiInsert
<1>2. CASE ~AiInsert
  <2>1. UNCHANGED <<versions, request>>
    BY <1>2 DEF HandleResult, AiLoad, AiReadMax, AiInsertConflict, AiSave, AiSettle, AiFail
  <2>2. QED BY <2>1, VersionsKept, RequestsKept
<1>3. QED BY <1>1, <1>2

LEMMA CrashKeepsVersions == IInv /\ VersionsByRequest /\ Crash => VersionsByRequest'
<1> SUFFICES ASSUME IInv, VersionsByRequest, Crash PROVE VersionsByRequest'
  OBVIOUS
<1>1. ASSUME NEW r \in Requests PROVE VersionFollowsStep(r)'
  <2>1. Versions(r)' = Versions(r)
    BY VersionsKept DEF Crash
  <2>2. request'[r] = request[r] \/ request'[r] = Answered(r, "crashed")
    BY DEF Crash
  <2>3. Answered(r, "crashed").step = "crashed"
        /\ Answered(r, "crashed").withVersion = request[r].withVersion
    BY DEF Answered, IdleRequest
  <2>4. QED BY <2>1, <2>2, <2>3 DEF VersionsByRequest, VersionFollowsStep
<1>2. QED BY <1>1 DEF VersionsByRequest

\* A request that is refused or fails keeps the versions it has: none, if its
\* number was taken.
LEMMA ServeKeepsVersions ==
  ASSUME IInv, VersionsByRequest, NEW r \in Requests, Serve(r)
  PROVE  VersionsByRequest'
<1>1. VersionFollowsStep(r)
  BY DEF VersionsByRequest
<1>2. CASE TxWrite(r)
  <2>1. \A q \in Requests : q # r => Versions(q)' = Versions(q)
    BY <1>2, VersionsAfterInsert DEF TxWrite
  <2>2. Versions(r) = {} /\ Versions(r)' = {request[r].version} /\ request[r].withVersion
    <3>1. Versions(r) = {}
      BY <1>1, <1>2 DEF TxWrite, VersionFollowsStep
    <3>2. Versions(r)' = Versions(r) \cup {request[r].version}
      BY <1>2, VersionsAfterInsert DEF TxWrite
    <3>3. request[r].withVersion
      BY <1>1, <1>2 DEF TxWrite, VersionFollowsStep
    <3>4. QED BY <3>1, <3>2, <3>3
  <2> DEFINE rec == [step |-> "save",
                     entity |-> [request[r].entity EXCEPT !.currentVersion = @ + 1],
                     withVersion |-> request[r].withVersion,
                     version |-> request[r].version]
  <2>3. request' = [request EXCEPT ![r] = rec]
    BY <1>2 DEF TxWrite, Continue
  <2>4. request'[r] = rec => VersionFollowsStep(r)'
    BY <2>2 DEF VersionFollowsStep
  <2> HIDE DEF rec
  <2>5. QED BY <2>1, <2>3, <2>4, OneRequest
<1>3. CASE ~TxWrite(r)
  <2>1. UNCHANGED versions
    BY <1>3 DEF Serve, LoadForUpdate, LoadForNewVersion, LoadForArchive, CheckExport, Begin,
       TxRead, TxConflict, SaveRequest, RequestFails, ExportRead, ExportWrite, ExportAsync, InsertExportPipeline
  <2>2. \A q \in Requests : Versions(q)' = Versions(q)
    BY <2>1, VersionsKept
  <2>3. ASSUME NEW rec, request' = [request EXCEPT ![r] = rec],
               request'[r] = rec => VersionFollowsStep(r)'
        PROVE  VersionsByRequest'
    BY <2>2, <2>3, OneRequest
  <2>4. ASSUME NEW step, NEW status, NEW withVersion, Begin(r, step, status, withVersion),
               \/ step \in {"save", "exportRead"} /\ withVersion = FALSE
               \/ step = "txRead" /\ withVersion = TRUE
        PROVE  VersionsByRequest'
    <3> DEFINE rec == [step |-> step,
              entity |-> [workflow EXCEPT !.status = IF status = NoStatus THEN @ ELSE status],
              withVersion |-> withVersion, version |-> 0]
    <3>1. request' = [request EXCEPT ![r] = rec]
      BY <2>4 DEF Begin
    <3>2. Versions(r)' = {}
      BY <1>1, <2>2, <2>4 DEF Begin, VersionFollowsStep
    <3>3. rec.step = step /\ rec.withVersion = withVersion
      OBVIOUS
    <3> HIDE DEF rec
    <3>4. request'[r] = rec => VersionFollowsStep(r)'
      BY <2>4, <3>2, <3>3 DEF VersionFollowsStep
    <3>5. QED BY <2>3, <3>1, <3>4
  <2>5. CASE LoadForUpdate(r) \/ LoadForNewVersion(r) \/ LoadForArchive(r) \/ CheckExport(r)
    BY <2>4, <2>5 DEF LoadForUpdate, LoadForNewVersion, LoadForArchive, CheckExport
  <2>6. ASSUME NEW step, NEW entity, NEW version, Continue(r, step, entity, version),
               \/ request[r].step = "txRead" /\ step = "txWrite"
               \/ request[r].step = "exportRead" /\ step = "exportWrite"
        PROVE  VersionsByRequest'
    <3> DEFINE rec == [step |-> step, entity |-> entity,
                       withVersion |-> request[r].withVersion, version |-> version]
    <3>1. request' = [request EXCEPT ![r] = rec]
      BY <2>6 DEF Continue
    <3>2. rec.step = step /\ rec.withVersion = request[r].withVersion
      OBVIOUS
    <3> HIDE DEF rec
    <3>3. request'[r] = rec => VersionFollowsStep(r)'
      BY <1>1, <2>2, <2>6, <3>2 DEF VersionFollowsStep
    <3>4. QED BY <2>3, <3>1, <3>3
  <2>7. ASSUME NEW step, Answer(r, step),
               \/ step = "done" /\ request[r].step \in {"save", "exportWrite"}
               \/ step = "rejected" /\ request[r].step \in {"idle", "txWrite", "exportRead"}
               \/ step = "failed"
        PROVE  VersionsByRequest'
    <3>1. request' = [request EXCEPT ![r] = Answered(r, step)]
      BY <2>7 DEF Answer
    <3>2. Answered(r, step).step = step /\ Answered(r, step).withVersion = request[r].withVersion
      BY DEF Answered, IdleRequest
    <3>3. request'[r] = Answered(r, step) => VersionFollowsStep(r)'
      BY <1>1, <2>2, <2>7, <3>2 DEF VersionFollowsStep
    <3>4. QED BY <2>3, <3>1, <3>3
  <2>8. CASE TxRead(r)
    BY <2>6, <2>8 DEF TxRead
  <2>9. CASE SaveRequest(r)
    <3>1. TriggerAccepts(request[r].entity)
      BY <2>9 DEF IInv, PendingWritesBounded, TriggerAccepts, SaveRequest
    <3>2. QED BY <2>7, <2>9, <3>1 DEF SaveRequest
  <2>10. CASE ExportRead(r)
    BY <2>6, <2>7, <2>10 DEF ExportRead
  <2>11. CASE TxConflict(r) \/ ExportWrite(r) \/ ExportAsync(r)
    BY <2>7, <2>11 DEF TxConflict, ExportWrite, ExportAsync, InsertExportPipeline
  <2>12. CASE RequestFails(r)
    BY <2>7, <2>12 DEF RequestFails
  <2>13. QED BY <1>3, <2>5, <2>8, <2>9, <2>10, <2>11, <2>12 DEF Serve
<1>4. QED BY <1>2, <1>3

LEMMA NextKeepsVersions == IInv /\ VersionsByRequest /\ [Next]_vars => VersionsByRequest'
<1> SUFFICES ASSUME IInv, VersionsByRequest, [Next]_vars PROVE VersionsByRequest'
  OBVIOUS
<1>1. CASE Next
  BY <1>1, CreateKeepsVersions, ServeKeepsVersions, HandleResultKeepsVersions,
     CrashKeepsVersions DEF Next
<1>2. CASE UNCHANGED vars
  BY <1>2, VersionsKept, RequestsKept DEF vars
<1>3. QED BY <1>1, <1>2

\* A set whose elements are all equal has at most one.
LEMMA AtMostOne ==
  ASSUME NEW S, \A m, n \in S : m = n
  PROVE  Cardinality(S) <= 1
<1>1. CASE S = {}
  BY <1>1, FS_EmptySet
<1>2. CASE S # {}
  <2>1. PICK n \in S : TRUE
    BY <1>2
  <2>2. S = {n}
    BY <2>1
  <2>3. Cardinality({n}) = 1
    BY FS_Singleton
  <2>4. QED BY <2>2, <2>3
<1>3. QED BY <1>1, <1>2

\* Every request that asked for a version and was answered has exactly one;
\* one that was refused has none, and no request ever has two.
THEOREM OneVersionPerAcknowledgement == Spec => []VersionPerAcknowledgement
<1>1. VersionsByRequest => VersionPerAcknowledgement
  BY AtMostOne DEF VersionsByRequest, VersionFollowsStep, VersionPerAcknowledgement
<1>2. QED
  BY <1>1, InitVersionsByRequest, NextKeepsVersions, Invariance, PTL DEF Spec
-----------------------------------------------------------------------------
(* One writer at a time: what WorkflowVersionsHistory tells.               *)

\* The two writers in flight of a request, of the handler and of create()
\* differ, so with one at a time the others are at rest: before a step ...
LEMMA AloneBefore ==
  ASSUME IInv, OneAtATime
  PROVE  /\ \A r \in Requests : request[r].step \notin Ended =>
               /\ ai.step = "idle"
               /\ creation \notin {"row", "version"}
               /\ \A q \in Requests : q # r => request[q].step \in Ended
         /\ ai.step # "idle" \/ creation \in {"row", "version"} =>
               \A r \in Requests : request[r].step \in Ended
         /\ ai.step # "idle" => creation \notin {"row", "version"}
<1>1. ai.step # "idle" => ai.result \in Results
  BY HeldNumbers DEF HandlingRecord
<1>2. QED BY <1>1, WVAssumption DEF OneAtATime, InFlight

\* ... and after it.
LEMMA AloneAfter ==
  ASSUME IInv', OneAtATime'
  PROVE  /\ \A r \in Requests : request'[r].step \notin Ended =>
               /\ ai'.step = "idle"
               /\ creation' \notin {"row", "version"}
               /\ \A q \in Requests : q # r => request'[q].step \in Ended
         /\ ai'.step # "idle" \/ creation' \in {"row", "version"} =>
               \A r \in Requests : request'[r].step \in Ended
         /\ ai'.step # "idle" => creation' \notin {"row", "version"}
<1>1. ai'.step # "idle" => ai'.result \in Results
  BY DEF IInv, TypeOK, AiRecord, HandlingRecord, IdleAi
<1>2. QED BY <1>1, WVAssumption DEF OneAtATime, InFlight

LEMMA InitSerial == HistoryInit => SerialInv
<1> SUFFICES ASSUME HistoryInit PROVE SerialInv
  OBVIOUS
<1>1. InFlight = {} /\ Latest = 0
  BY DEF HistoryInit, Init, InFlight, IdleRequest, IdleAi, Ended, Latest, LatestOf
<1>2. QED
  BY <1>1 DEF HistoryInit, Init, SerialInv, CreatedFirst, HandlingTells, OneAtATime, ReadsStand,
     RowIsCurrent, IdleRequest, IdleAi, NoRow

\* No writer loses a version in a step.
LEMMA VersionsGrow ==
  ASSUME IInv, [Next]_vars, NEW writer
  PROVE  Versions(writer) \subseteq Versions(writer)'
<1>1. ASSUME NEW n, NEW other, CanInsert(n), Insert(n, other)
      PROVE  Versions(writer) \subseteq Versions(writer)'
  BY <1>1, VersionsAfterInsert
<1>2. CASE UNCHANGED versions
  BY <1>2, VersionsKept
<1>3. CASE Create
  BY <1>1, <1>2, <1>3 DEF Create, CreateRow, CreateFirstVersion, CreateFirstVersionConflict, CreateSave, CreateFails
<1>4. ASSUME NEW r \in Requests, Serve(r)
      PROVE  Versions(writer) \subseteq Versions(writer)'
  BY <1>1, <1>2, <1>4 DEF Serve, LoadForUpdate, LoadForNewVersion, LoadForArchive, CheckExport,
     Begin, TxRead, TxWrite, TxConflict, SaveRequest, RequestFails, ExportRead, ExportWrite, ExportAsync,
     InsertExportPipeline
<1>5. CASE HandleResult
  BY <1>1, <1>2, <1>5 DEF HandleResult, AiLoad, AiReadMax, AiInsert, AiInsertConflict, AiSave,
     AiSettle, AiFail
<1>6. QED BY <1>2, <1>3, <1>4, <1>5 DEF Next, Crash, vars

\* With no row, create() is the only writer that can move.
LEMMA NextCreatedFirst ==
  ASSUME IInv, CreatedFirst, Next
  PROVE  CreatedFirst'
<1> SUFFICES ASSUME creation' = "none" PROVE InFlight' = {}
  BY DEF CreatedFirst
<1>1. /\ creation = "none"
      /\ \A r \in Requests : request[r].step \in Ended
      /\ ai.step = "idle"
  BY DEF CreatedFirst, InFlight, Next, Create, CreateRow, CreateFirstVersion,
     CreateFirstVersionConflict, CreateSave, CreateFails, Serve, LoadForUpdate, LoadForNewVersion,
     LoadForArchive, CheckExport, Begin, TxRead, TxWrite, TxConflict, SaveRequest, RequestFails, ExportRead,
     ExportWrite, ExportAsync, InsertExportPipeline, HandleResult, AiLoad, AiReadMax, AiInsert,
     AiInsertConflict, AiSave, AiSettle, AiFail, Crash
<1>2. FALSE
  BY <1>1 DEF Ended, RowExists, Busy, Next, Create, CreateRow, CreateFirstVersion,
     CreateFirstVersionConflict, CreateSave, CreateFails, Serve, LoadForUpdate, LoadForNewVersion,
     LoadForArchive, CheckExport, Begin, TxRead, TxWrite, TxConflict, SaveRequest, RequestFails, ExportRead,
     ExportWrite, ExportAsync, InsertExportPipeline, HandleResult, AiLoad, AiReadMax, AiInsert,
     AiInsertConflict, AiSave, AiSettle, AiFail, Crash
<1>3. QED BY <1>2

\* A delivery counts the result as interrupted until the handler's end.
LEMMA NextHandlingTells ==
  ASSUME IInv, HandlingTells, Next
  PROVE  HandlingTells'
<1>1. CASE UNCHANGED <<ai, delivered, settled>>
  BY <1>1, VersionsGrow DEF HandlingTells, Interrupted
<1>2. CASE ai' = IdleAi
  BY <1>2 DEF HandlingTells, IdleAi
<1>3. ASSUME NEW res \in Results, AiLoad(res)
      PROVE  HandlingTells'
  BY <1>3 DEF AiLoad, HandlingTells, Interrupted, IInv, TypeOK
<1>4. CASE AiReadMax
  <2>1. ai'.step = "insert" /\ ai'.result = ai.result
    BY <1>4, HeldNumbers DEF AiReadMax, HandlingRecord
  <2>2. QED BY <1>4, <2>1 DEF AiReadMax, HandlingTells, Interrupted
<1>5. CASE AiInsert
  <2>1. PICK res \in Results : res = ai.result
    BY <1>5, HeldNumbers DEF AiInsert, HandlingRecord
  <2>2. ai'.result = res /\ Interrupted(res)
    BY <1>5, <2>1, HeldNumbers DEF AiInsert, HandlingRecord, HandlingTells
  <2>3. Versions(res)' = Versions(res) \cup {ai.version}
    BY <1>5, <2>1, VersionsAfterInsert DEF AiInsert
  <2>4. Interrupted(ai.result)' /\ Versions(ai.result)' # {}
    BY <1>5, <2>2, <2>3 DEF AiInsert, Interrupted, Versions
  <2>5. QED BY <2>4 DEF HandlingTells
<1>6. CASE AiSave
  <2>1. ai' = IdleAi \/ (ai'.step = "rest" /\ ai'.result = ai.result)
    BY <1>6, HeldNumbers DEF AiSave, HandlingRecord
  <2>2. QED BY <1>2, <1>6, <2>1 DEF AiSave, HandlingTells, Interrupted
<1>7. CASE HandleResult
  BY <1>2, <1>3, <1>4, <1>5, <1>6, <1>7 DEF HandleResult, AiInsertConflict, AiSettle, AiFail
<1>8. CASE Create \/ \E r \in Requests : Serve(r)
  BY <1>1, <1>8 DEF Create, CreateRow, CreateFirstVersion, CreateFirstVersionConflict, CreateSave, CreateFails,
     Serve, LoadForUpdate, LoadForNewVersion, LoadForArchive, CheckExport, Begin, TxRead, TxWrite,
     TxConflict, SaveRequest, RequestFails, ExportRead, ExportWrite, ExportAsync, InsertExportPipeline
<1>9. CASE Crash
  BY <1>2, <1>9 DEF Crash
<1>10. QED BY <1>7, <1>8, <1>9 DEF Next

\* A result cut short stays so until its handler runs to the end.
LEMMA CutShortStays ==
  ASSUME IInv, CutShort, Next, settled' = settled,
         creation \in {"version", "failed"} => creation' \in {"version", "failed"}
  PROVE  CutShort'
<1>1. ASSUME NEW res \in Results, Interrupted(res)
      PROVE  Interrupted(res)'
  <2>1. CASE UNCHANGED delivered
    BY <1>1, <2>1 DEF Interrupted
  <2>2. ASSUME NEW other \in Results, AiLoad(other)
        PROVE  Interrupted(res)'
    BY <1>1, <2>2 DEF Interrupted, AiLoad, IInv, TypeOK
  <2>3. QED
    BY <2>1, <2>2 DEF Next, Create, CreateRow, CreateFirstVersion, CreateFirstVersionConflict,
       CreateSave, CreateFails, Serve, LoadForUpdate, LoadForNewVersion, LoadForArchive, CheckExport, Begin,
       TxRead, TxWrite, TxConflict, SaveRequest, RequestFails, ExportRead, ExportWrite, ExportAsync,
       InsertExportPipeline, HandleResult, AiReadMax, AiInsert, AiInsertConflict, AiSave,
       AiSettle, AiFail, Crash
<1>2. QED BY <1>1, VersionsGrow DEF CutShort

\* The hypotheses of the steps below: one writer at a time, before and after.
Serial == /\ IInv /\ IInv' /\ OneAtATime /\ OneAtATime'
          /\ CreatedFirst /\ CreatedFirst' /\ HandlingTells /\ ReadsStand /\ RowIsCurrent
Stands == ReadsStand' /\ RowIsCurrent'

LEMMA CreateStands ==
  ASSUME Serial, Create
  PROVE  Stands
<1> USE DEF Serial
<1>1. Create => Next
  BY DEF Next
<1>2. CASE CreateRow
  <2>1. ReadsStand'
    BY <1>2, AloneAfter, SameVersions DEF CreateRow, ReadsStand, Ended
  <2>2. RowIsCurrent'
    BY <1>2, SameVersions DEF CreateRow, ReadsStand, RowIsCurrent
  <2>3. QED BY <2>1, <2>2 DEF Stands
<1>3. CASE CreateFirstVersion
  <2>1. 1 \in 1..(Latest + 1) /\ Creator \in Writers /\ CanInsert(1) /\ Insert(1, Creator)
    BY <1>3 DEF CreateFirstVersion, Writers, IInv, NumberedWithoutGaps
  <2>2. Latest' = 1
    BY <1>3, <2>1, InsertExtends DEF CreateFirstVersion, ReadsStand
  <2>3. ReadsStand'
    BY <1>3, <2>2, AloneAfter DEF CreateFirstVersion, ReadsStand, Ended
  <2>4. QED BY <1>3, <2>3 DEF CreateFirstVersion, RowIsCurrent, CutShort, Stands
<1>4. CASE CreateFirstVersionConflict
  <2>1. ReadsStand'
    BY <1>4, AloneBefore, SameVersions DEF CreateFirstVersionConflict, ReadsStand, Ended
  <2>2. QED BY <1>4, <2>1 DEF CreateFirstVersionConflict, RowIsCurrent, CutShort, Stands
<1>5. CASE CreateSave
  <2>1. Latest = 1 /\ Latest' = 1
    BY <1>5, SameVersions DEF CreateSave, ReadsStand
  <2>2. workflow'.currentVersion = 1
    BY <1>5, <2>1 DEF CreateSave, Save, TriggerAccepts
  <2>3. ReadsStand'
    BY <1>5, <2>1, AloneBefore DEF CreateSave, ReadsStand, Ended
  <2>4. QED BY <2>1, <2>2, <2>3 DEF RowIsCurrent, Stands
<1>6. CASE CreateFails
  <2>1. ReadsStand'
    BY <1>6, AloneBefore, SameVersions DEF CreateFails, ReadsStand, Ended
  <2>2. QED BY <1>6, <2>1 DEF CreateFails, RowIsCurrent, CutShort, Stands
<1>7. QED BY <1>2, <1>3, <1>4, <1>5, <1>6 DEF Create

\* A step of the only request in flight: it is enough to look at the request.
LEMMA RequestStands ==
  ASSUME Serial, NEW r \in Requests, NEW rec,
         request' = [request EXCEPT ![r] = rec], UNCHANGED <<creation, ai>>,
         request[r].step \notin Ended \/ rec.step \notin Ended,
         rec.step \in {"txRead", "txWrite", "save"} =>
             rec.entity.currentVersion = workflow'.currentVersion,
         rec.step = "txWrite" => rec.version = workflow'.currentVersion + 1
  PROVE  ReadsStand'
<1> USE DEF Serial
<1>1. \A q \in Requests : request'[q] = IF q = r THEN rec ELSE request[q]
  BY DEF IInv, TypeOK
<1>2. /\ ai.step = "idle" /\ creation \notin {"row", "version"}
      /\ \A q \in Requests : q # r => request[q].step \in Ended
  <2>1. CASE request[r].step \notin Ended
    BY <2>1, AloneBefore
  <2>2. CASE rec.step \notin Ended
    <3>1. request'[r].step \notin Ended
      BY <1>1, <2>2
    <3>2. QED BY <1>1, <3>1, AloneAfter
  <2>3. QED BY <2>1, <2>2
<1>3. creation # "none"
  <2>1. r \in InFlight \/ r \in InFlight'
    BY <1>1 DEF InFlight
  <2>2. QED BY <2>1 DEF CreatedFirst
<1>4. QED BY <1>1, <1>2, <1>3 DEF ReadsStand, Ended

LEMMA ServeStands ==
  ASSUME Serial, NEW r \in Requests, Serve(r)
  PROVE  Stands
<1> USE DEF Serial
<1>1. Next /\ settled' = settled /\ creation' = creation /\ ai' = ai
  BY DEF Next, Serve, LoadForUpdate, LoadForNewVersion, LoadForArchive, CheckExport, Begin,
     TxRead, TxWrite, TxConflict, SaveRequest, RequestFails, ExportRead, ExportWrite, ExportAsync,
     InsertExportPipeline
<1>2. ASSUME UNCHANGED versions, workflow'.currentVersion = workflow.currentVersion
      PROVE  RowIsCurrent'
  BY <1>1, <1>2, CutShortStays, SameVersions DEF RowIsCurrent
<1>3. /\ workflow \in Row /\ request[r] \in RequestRecord /\ Latest \in Nat
  BY DEF IInv, TypeOK, NumberedWithoutGaps
<1>4. ASSUME NEW step, NEW status, NEW withVersion,
             Begin(r, step, status, withVersion), step \in {"save", "txRead", "exportRead"}
      PROVE  Stands
  <2> DEFINE rec == [step |-> step,
            entity |-> [workflow EXCEPT !.status = IF status = NoStatus THEN @ ELSE status],
            withVersion |-> withVersion, version |-> 0]
  <2>1. request' = [request EXCEPT ![r] = rec] /\ UNCHANGED <<workflow, versions>>
    BY <1>4 DEF Begin
  <2>2. rec.step = step /\ rec.entity.currentVersion = workflow.currentVersion
    BY <1>3 DEF Row
  <2> HIDE DEF rec
  <2>3. ReadsStand'
    BY <1>1, <1>4, <2>1, <2>2, RequestStands DEF Ended
  <2>4. QED BY <1>2, <2>1, <2>3 DEF Stands
<1>5. CASE LoadForUpdate(r) \/ LoadForNewVersion(r) \/ LoadForArchive(r) \/ CheckExport(r)
  BY <1>4, <1>5 DEF LoadForUpdate, LoadForNewVersion, LoadForArchive, CheckExport
<1>6. ASSUME NEW step, Answer(r, step), step \in Ended, request[r].step \notin Ended
      PROVE  ReadsStand'
  <2>1. Answered(r, step).step = step
    BY DEF Answered, IdleRequest
  <2>2. request' = [request EXCEPT ![r] = Answered(r, step)]
    BY <1>6 DEF Answer
  <2>3. QED BY <1>1, <1>6, <2>1, <2>2, RequestStands DEF Ended
<1>7. CASE TxRead(r)
  <2> DEFINE rec == [step |-> "txWrite", entity |-> request[r].entity,
                     withVersion |-> request[r].withVersion,
                     version |-> workflow.currentVersion + 1]
  <2>1. request' = [request EXCEPT ![r] = rec] /\ UNCHANGED <<workflow, versions>>
    BY <1>7 DEF TxRead, Continue
  <2>2. /\ rec.step = "txWrite" /\ rec.version = workflow.currentVersion + 1
        /\ rec.entity.currentVersion = workflow.currentVersion
    BY <1>7 DEF TxRead, ReadsStand
  <2> HIDE DEF rec
  <2>3. ReadsStand'
    BY <1>1, <2>1, <2>2, RequestStands DEF Ended
  <2>4. QED BY <1>2, <2>1, <2>3 DEF Stands
<1>8. CASE TxWrite(r)
  <2>1. request[r].version \in 1..(Latest + 1)
    BY <1>8 DEF TxWrite, IInv, PendingWritesBounded
  <2>2. CanInsert(request[r].version) /\ Insert(request[r].version, r) /\ r \in Writers
    BY <1>8 DEF TxWrite, Writers
  <2>3. request[r].version = Latest + 1 /\ Latest' = Latest + 1
    BY <2>1, <2>2, InsertExtends
  <2>4. /\ request[r].version = workflow.currentVersion + 1
        /\ request[r].entity.currentVersion = workflow.currentVersion
    BY <1>8 DEF TxWrite, ReadsStand
  <2>5. workflow'.currentVersion = request[r].version
    BY <1>3, <1>8 DEF TxWrite, Row
  <2> DEFINE rec == [step |-> "save",
                     entity |-> [request[r].entity EXCEPT !.currentVersion = @ + 1],
                     withVersion |-> request[r].withVersion,
                     version |-> request[r].version]
  <2>6. request' = [request EXCEPT ![r] = rec]
    BY <1>8 DEF TxWrite, Continue
  <2>7. rec.step = "save" /\ rec.entity.currentVersion = workflow'.currentVersion
    BY <1>3, <2>4, <2>5 DEF RequestRecord, Row
  <2> HIDE DEF rec
  <2>8. ReadsStand'
    BY <1>1, <2>6, <2>7, RequestStands DEF Ended
  <2>9. QED BY <2>3, <2>5, <2>8 DEF RowIsCurrent, Stands
<1>9. CASE SaveRequest(r)
  <2>1. workflow'.currentVersion = workflow.currentVersion
    BY <1>9 DEF SaveRequest, Save, ReadsStand
  <2>2. ReadsStand'
    BY <1>6, <1>9 DEF SaveRequest, Ended
  <2>3. QED BY <1>2, <1>9, <2>1, <2>2 DEF SaveRequest, Stands
<1>10. CASE ExportRead(r)
  <2>1. CASE workflow.currentVersion \in DOMAIN versions
    <3> DEFINE rec == [step |-> "exportWrite", entity |-> request[r].entity,
                       withVersion |-> request[r].withVersion,
                       version |-> workflow.currentVersion]
    <3>1. request' = [request EXCEPT ![r] = rec] /\ UNCHANGED <<workflow, versions>>
      BY <1>10, <2>1 DEF ExportRead, Continue
    <3>2. rec.step = "exportWrite"
      OBVIOUS
    <3> HIDE DEF rec
    <3>3. ReadsStand'
      BY <1>1, <3>1, <3>2, RequestStands DEF Ended
    <3>4. QED BY <1>2, <3>1, <3>3 DEF Stands
  <2>2. CASE workflow.currentVersion \notin DOMAIN versions
    BY <1>2, <1>6, <1>10, <2>2 DEF ExportRead, Ended, Stands
  <2>3. QED BY <2>1, <2>2
<1>11. CASE ExportWrite(r)
  <2>1. workflow'.currentVersion = workflow.currentVersion
    BY <1>3, <1>11 DEF ExportWrite, Row
  <2>2. QED BY <1>2, <1>6, <1>11, <2>1 DEF ExportWrite, Ended, Stands
<1>12. CASE TxConflict(r)
  BY <1>2, <1>6, <1>12 DEF TxConflict, Ended, Stands
<1>13. CASE ExportAsync(r)
  <2>1. /\ request' = [request EXCEPT ![r] = Answered(r, "rejected")]
        /\ UNCHANGED <<workflow, versions, creation, ai>>
    BY <1>13 DEF ExportAsync, InsertExportPipeline, Answer
  <2>2. \A q \in Requests : request'[q] = request[q] \/ request'[q].step = "rejected"
    BY <2>1 DEF IInv, TypeOK, Answered, IdleRequest
  <2>3. ReadsStand'
    BY <2>1, <2>2, SameVersions DEF ReadsStand
  <2>4. QED BY <1>2, <2>1, <2>3 DEF Stands
<1>14. CASE RequestFails(r)
  <2>1. workflow'.currentVersion = workflow.currentVersion
    BY <1>14 DEF RequestFails, Save, ReadsStand
  <2>2. ReadsStand'
    BY <1>6, <1>14 DEF RequestFails, Ended
  <2>3. QED BY <1>2, <1>14, <2>1, <2>2 DEF RequestFails, Stands
<1>15. QED
  BY <1>5, <1>7, <1>8, <1>9, <1>10, <1>11, <1>12, <1>13, <1>14 DEF Serve

\* A step of the handler: it alone is in flight, so only what it has read is
\* to be looked at (step <1>5).
LEMMA HandleResultStands ==
  ASSUME Serial, HandleResult
  PROVE  Stands
<1> USE DEF Serial
<1>1. Next
  BY DEF Next
<1>2. /\ workflow \in Row /\ Latest \in Nat
      /\ ai.step # "idle" => ai \in HandlingRecord
  BY HeldNumbers DEF IInv, TypeOK, NumberedWithoutGaps
<1>3. UNCHANGED <<creation, request>>
  BY DEF HandleResult, AiLoad, AiReadMax, AiInsert, AiInsertConflict, AiSave, AiSettle, AiFail
<1>4. ASSUME UNCHANGED <<workflow, versions, settled>>
      PROVE  RowIsCurrent'
  BY <1>1, <1>3, <1>4, CutShortStays, SameVersions DEF RowIsCurrent
<1>5. ASSUME ai.step # "idle" \/ ai'.step # "idle",
             ai'.step = "insert" => ai'.version = Latest' + 1,
             ai'.step = "save" => ai'.entity.currentVersion = Latest',
             ai'.step = "rest" => workflow'.currentVersion = Latest'
      PROVE  ReadsStand'
  <2>1. /\ creation \notin {"row", "version"}
        /\ \A r \in Requests : request[r].step \in Ended
    BY <1>3, <1>5, AloneBefore, AloneAfter
  <2>2. creation # "none"
    BY <1>3, <1>5 DEF CreatedFirst, InFlight
  <2>3. QED BY <1>3, <1>5, <2>1, <2>2 DEF ReadsStand, Ended
<1>6. ASSUME NEW res \in Results, AiLoad(res)
      PROVE  Stands
  <2>1. ai'.step = "readMax" /\ UNCHANGED <<workflow, versions, settled>>
    BY <1>6 DEF AiLoad
  <2>2. QED BY <1>4, <1>5, <2>1 DEF Stands
<1>7. CASE AiReadMax
  <2>1. ai'.step = "insert" /\ ai'.version = Latest + 1 /\ ai.step # "idle"
    BY <1>2, <1>7 DEF AiReadMax, HandlingRecord
  <2>2. UNCHANGED <<workflow, versions, settled>>
    BY <1>7 DEF AiReadMax
  <2>3. QED BY <1>4, <1>5, <2>1, <2>2, SameVersions DEF Stands
<1>8. CASE AiInsert
  <2>1. ai.result \in Results /\ ai.version = Latest + 1
    BY <1>2, <1>8 DEF AiInsert, HandlingRecord, ReadsStand
  <2>2. Latest' = Latest + 1
    BY <1>2, <1>8, <2>1, InsertExtends DEF AiInsert, Writers
  <2>3. ai'.step = "save" /\ ai'.entity.currentVersion = ai.version /\ ai'.result = ai.result
    BY <1>2, <1>8 DEF AiInsert, HandlingRecord
  <2>4. ReadsStand'
    BY <1>5, <1>8, <2>1, <2>2, <2>3 DEF AiInsert
  <2>5. CutShort'
    BY <1>1, <1>2, <2>1, <2>3, NextHandlingTells DEF HandlingTells, CutShort
  <2>6. QED BY <2>4, <2>5 DEF RowIsCurrent, Stands
<1>9. CASE AiSave
  <2>1. ai.entity.currentVersion = Latest /\ Latest' = Latest
    BY <1>9, SameVersions DEF AiSave, ReadsStand
  <2>2. TriggerAccepts(ai.entity)
    BY <1>2, <2>1 DEF TriggerAccepts
  <2>3. workflow'.currentVersion = Latest' /\ ai' = [ai EXCEPT !.step = "rest"]
    BY <1>9, <2>1, <2>2 DEF AiSave, Save
  <2>4. ai'.step = "rest" /\ ai.step # "idle"
    BY <1>2, <1>9, <2>3 DEF AiSave, HandlingRecord
  <2>5. QED BY <1>5, <2>3, <2>4 DEF RowIsCurrent, Stands
<1>10. CASE AiSettle
  <2>1. workflow'.currentVersion = Latest' /\ ai.step # "idle" /\ ai'.step = "idle"
    BY <1>10, SameVersions DEF AiSettle, ReadsStand, IdleAi
  <2>2. QED BY <1>5, <2>1 DEF RowIsCurrent, Stands
<1>11. CASE AiInsertConflict \/ AiFail
  <2>1. ai.step # "idle" /\ ai'.step = "idle" /\ UNCHANGED <<workflow, versions, settled>>
    BY <1>11 DEF AiInsertConflict, AiFail, IdleAi
  <2>2. QED BY <1>4, <1>5, <2>1 DEF Stands
<1>12. QED
  BY <1>6, <1>7, <1>8, <1>9, <1>10, <1>11 DEF HandleResult

LEMMA CrashStands ==
  ASSUME Serial, Crash
  PROVE  Stands
<1> USE DEF Serial
<1>1. Next
  BY DEF Next
<1>2. /\ \A r \in Requests : request'[r].step \in Ended
      /\ ai'.step = "idle"
      /\ UNCHANGED <<workflow, versions, settled>>
  BY DEF Crash, Answered, IdleRequest, Ended, IdleAi
<1>3. /\ creation' \notin {"row", "version"}
      /\ creation' = "none" => creation = "none"
  BY DEF Crash
<1>4. ReadsStand'
  BY <1>2, <1>3, SameVersions DEF ReadsStand, Ended
<1>5. RowIsCurrent'
  BY <1>1, <1>2, CutShortStays, SameVersions DEF Crash, RowIsCurrent
<1>6. QED BY <1>4, <1>5 DEF Stands

LEMMA NextSerial ==
  ASSUME IInv, IInv', SerialInv, [HistoryNext]_historyVars
  PROVE  SerialInv'
<1>1. CASE HistoryNext
  <2>1. Next /\ CreatedFirst' /\ HandlingTells'
    BY <1>1, NextCreatedFirst, NextHandlingTells DEF HistoryNext, SerialInv
  <2>2. ASSUME ~overlapped' PROVE Serial
    BY <1>1, <2>1, <2>2 DEF HistoryNext, SerialInv, Serial, OneAtATime
  <2>3. ASSUME ~overlapped' PROVE Stands
    BY <2>1, <2>2, <2>3, CreateStands, ServeStands, HandleResultStands, CrashStands DEF Next
  <2>4. QED BY <2>1, <2>2, <2>3 DEF SerialInv, Serial, Stands
<1>2. CASE UNCHANGED historyVars
  BY <1>2 DEF historyVars, vars, SerialInv, CreatedFirst, HandlingTells, OneAtATime, ReadsStand,
     RowIsCurrent, CutShort, InFlight, Interrupted, Versions, Latest
<1>3. QED BY <1>1, <1>2

\* The history variable guards nothing: HistorySpec keeps what Spec keeps.
LEMMA HistoryInvariance == HistorySpec => [](IInv /\ SerialInv)
<1>1. HistoryInit => IInv /\ SerialInv
  BY InitInv, InitSerial DEF HistoryInit
<1>2. IInv /\ [HistoryNext]_historyVars => IInv'
  <2>1. [HistoryNext]_historyVars => [Next]_vars
    BY DEF HistoryNext, historyVars
  <2>2. QED BY <2>1, NextInv
<1>3. IInv /\ SerialInv /\ [HistoryNext]_historyVars => (IInv /\ SerialInv)'
  BY <1>2, NextSerial
<1>4. QED BY <1>1, <1>3, PTL DEF HistorySpec

\* Without overlap, failed creation or result cut short, current_version is
\* MAX(version_number) whenever nothing is in flight: the two ways the code
\* numbers versions agree.
THEOREM CurrentVersionIsLatest == HistorySpec => []CurrentIsLatestAtRest
<1>1. SerialInv => CurrentIsLatestAtRest
  BY DEF SerialInv, CurrentIsLatestAtRest, RowIsCurrent, CutShort
<1>2. QED BY <1>1, HistoryInvariance, PTL

\* The only step that refuses a version is the transaction's UNIQUE conflict.
LEMMA RefusedByConflict ==
  ASSUME IInv, Next, NEW r \in Requests, Refuses(r)
  PROVE  TxConflict(r)
<1>1. request'[r] # request[r]
  BY DEF Refuses
<1>2. CASE Crash
  BY <1>2 DEF Crash, Refuses, Answered, Ended, IdleRequest
<1>3. ASSUME NEW q \in Requests, Serve(q), q # r
      PROVE  FALSE
  <2>1. ASSUME NEW rec, request' = [request EXCEPT ![q] = rec]
        PROVE  request'[r] = request[r]
    BY <1>3, <2>1 DEF IInv, TypeOK
  <2>2. request'[r] = request[r]
    BY <1>3, <2>1 DEF Serve, LoadForUpdate, LoadForNewVersion, LoadForArchive, CheckExport, Begin,
       TxRead, TxWrite, TxConflict, SaveRequest, RequestFails, ExportRead, ExportWrite, ExportAsync,
       InsertExportPipeline, Answer, Continue
  <2>3. QED BY <1>1, <2>2
<1>4. CASE Serve(r)
  <2>1. request[r].step = "txWrite"
    BY DEF Refuses
  <2>2. TxWrite(r) \/ TxConflict(r) \/ RequestFails(r)
    BY <1>4, <2>1 DEF Serve, LoadForUpdate, LoadForNewVersion, LoadForArchive, CheckExport, Begin,
       TxRead, SaveRequest, RequestFails, ExportRead, ExportWrite, ExportAsync
  <2>3. ~TxWrite(r)
    BY DEF TxWrite, Continue, Refuses, IInv, TypeOK
  <2>4. ~RequestFails(r)
    BY DEF RequestFails, Answer, Answered, IdleRequest, Refuses, IInv, TypeOK
  <2>5. QED BY <2>2, <2>3, <2>4
<1>5. CASE Create \/ HandleResult
  BY <1>1, <1>5 DEF Create, CreateRow, CreateFirstVersion, CreateFirstVersionConflict, CreateSave, CreateFails,
     HandleResult, AiLoad, AiReadMax, AiInsert, AiInsertConflict, AiSave, AiSettle, AiFail
<1>6. QED BY <1>2, <1>3, <1>4, <1>5 DEF Next

\* One writer at a time: update() is refused a version number only after a
\* creation failed or a result was cut short behind its version.
THEOREM SerialVersionsAreAccepted == HistorySpec => SerialRequestsSucceed
<1> DEFINE Explained ==
      \A r \in Requests : ~overlapped /\ Refuses(r) =>
          \/ creation = "failed"
          \/ \E res \in Results : Interrupted(res) /\ Versions(res) # {}
<1>1. ASSUME IInv, SerialInv, Next PROVE Explained
  <2> SUFFICES ASSUME NEW r \in Requests, ~overlapped, Refuses(r)
               PROVE  \/ creation = "failed"
                      \/ \E res \in Results : Interrupted(res) /\ Versions(res) # {}
    OBVIOUS
  <2>1. TxConflict(r)
    BY <1>1, RefusedByConflict
  <2>2. /\ request[r].step = "txWrite"
        /\ request[r].version = workflow.currentVersion + 1
        /\ request[r].version \in DOMAIN versions
    BY <1>1, <2>1 DEF TxConflict, CanInsert, SerialInv, ReadsStand
  <2>3. workflow.currentVersion # Latest
    <3>1. request[r].version \in 1..Latest /\ Latest \in Nat
      BY <1>1, <2>2 DEF IInv, NumberedWithoutGaps
    <3>2. request[r].version <= Latest
      BY <3>1
    <3>3. workflow.currentVersion \in Nat
      BY <1>1 DEF IInv, TypeOK, Row
    <3>4. QED BY <2>2, <3>1, <3>2, <3>3
  <2>4. creation # "version"
    BY <1>1, <2>2, AloneBefore DEF SerialInv, Ended
  <2>5. QED BY <1>1, <2>3, <2>4 DEF SerialInv, RowIsCurrent, CutShort
<1>2. IInv /\ SerialInv /\ [HistoryNext]_historyVars => [Explained]_vars
  BY <1>1 DEF HistoryNext, historyVars
<1>3. QED BY <1>2, HistoryInvariance, PTL DEF HistorySpec, SerialRequestsSucceed
=============================================================================
