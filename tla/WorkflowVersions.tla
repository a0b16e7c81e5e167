-------------------------- MODULE WorkflowVersions --------------------------
(***************************************************************************)
(* One workflow row and its workflow_version rows, with everything that    *)
(* inserts a version or writes status and current_version: creation and    *)
(* duplication, the PATCH / new-version / archive requests of              *)
(* WorkflowsService, the exports, and the ai.tasks.result handler.         *)
(* A version row is its number and its writer; the approvals that          *)
(* CommentsService keeps inside elements_json are in module Comments.      *)
(*                                                                         *)
(* Each awaited database call is one step, so that requests and the AI     *)
(* handler interleave between a read and the write that depends on it.  A  *)
(* TypeORM save(entity) reloads the row and writes every column whose      *)
(* value in the entity differs: after it, the row equals the entity the    *)
(* request loaded earlier, whatever was written to the row in between.     *)
(*                                                                         *)
(* Of the row only the columns that writers share are kept: status and     *)
(* current_version.  The other columns (title, tags, ...) follow status.   *)
(***************************************************************************)
EXTENDS Naturals, FiniteSets

CONSTANTS
    Requests,     \* HTTP requests on the workflow, each served once
    Results,      \* ai.tasks.result messages for the workflow's session
    MaxDeliver,   \* deliveries the durable consumer makes (max_deliver)
    DtoStatus,    \* the values of dto.status the requests carry
    NoStatus      \* dto.status absent; also the status of a missing row

WorkflowStatus ==
    {"DRAFT", "IN_ELICITATION", "PENDING_REVIEW", "VALIDATED", "EXPORTED", "ARCHIVED"}

Creator == "creator"   \* the writer of the version WorkflowsService.create inserts
Nobody == "nobody"     \* the handler has no result in hand

ASSUME WVAssumption ==
    /\ MaxDeliver \in Nat
    /\ DtoStatus \subseteq WorkflowStatus
    /\ NoStatus \notin WorkflowStatus
    /\ Requests \cap Results = {}
    /\ {Creator, Nobody} \cap (Requests \cup Results) = {}

VARIABLES
    workflow,   \* the row: status and currentVersion
    versions,   \* workflow_version rows: version number -> the writer of it
    creation,   \* where WorkflowsService.create is
    request,    \* per request: step, loaded entity, reserved number
    ai,         \* the result handler: step, loaded entity, reserved number
    delivered,  \* per result: deliveries made so far
    settled     \* results whose handler ran to its end (acknowledged)

vars == <<workflow, versions, creation, request, ai, delivered, settled>>

Row == [status : WorkflowStatus \cup {NoStatus}, currentVersion : Nat]

Writers == {Creator} \cup Requests \cup Results

RequestSteps ==
    {"idle", "txRead", "txWrite", "save", "exportRead", "exportWrite",
     "done", "rejected", "failed", "crashed"}

\* The entity a request or the handler holds between its load and its save.
\* version: the number it has read and will insert.
RequestRecord ==
    [step : RequestSteps, entity : Row, withVersion : BOOLEAN, version : Nat]

NoRow == [status |-> NoStatus, currentVersion |-> 0]

Ended == {"idle", "done", "rejected", "failed", "crashed"}

IdleRequest ==
    [step |-> "idle", entity |-> NoRow, withVersion |-> FALSE, version |-> 0]

IdleAi == [step |-> "idle", result |-> Nobody, entity |-> NoRow, version |-> 0]

HandlingRecord ==
    [step : {"readMax", "insert", "save", "rest"}, result : Results, entity : Row, version : Nat]

AiRecord == HandlingRecord \cup {IdleAi}

TypeOK ==
    /\ workflow \in Row
    /\ DOMAIN versions \subseteq Nat \ {0}
    /\ versions \in [DOMAIN versions -> Writers]
    /\ creation \in {"none", "row", "version", "done", "failed"}
    /\ request \in [Requests -> RequestRecord]
    /\ ai \in AiRecord
    /\ delivered \in [Results -> 0..MaxDeliver]
    /\ settled \subseteq Results

\* MAX(version_number) over the workflow's versions, 0 when there is none.
LatestOf(rows) ==
    IF DOMAIN rows = {} THEN 0
    ELSE CHOOSE n \in DOMAIN rows : \A m \in DOMAIN rows : m <= n

Latest == LatestOf(versions)

\* Mutant: the UNIQUE constraint is missing.
CanInsertAnything(n) == TRUE

\* INSERT INTO workflow_version under UNIQUE (workflow_id, version_number).
CanInsert(n) == n \notin DOMAIN versions
Insert(n, writer) ==
    versions' = [m \in DOMAIN versions \cup {n} |->
                    IF m = n THEN writer ELSE versions[m]]

\* enforce_workflow_current_version: runs when current_version is written,
\* and rejects a value above the greatest version number.
TriggerAccepts(row) ==
    row.currentVersion # workflow.currentVersion => row.currentVersion <= Latest

RowExists == creation # "none"

Init ==
    /\ workflow = NoRow
    /\ versions = [n \in {} |-> Creator]
    /\ creation = "none"
    /\ request = [r \in Requests |-> IdleRequest]
    /\ ai = IdleAi
    /\ delivered = [res \in Results |-> 0]
    /\ settled = {}

\* The request goes on to its next call.
Continue(r, step, entity, version) ==
    request' = [request EXCEPT ![r] =
        [step |-> step, entity |-> entity,
         withVersion |-> request[r].withVersion, version |-> version]]

\* The request is answered; its entity is garbage.
Answered(r, step) == [IdleRequest EXCEPT !.step = step, !.withVersion = request[r].withVersion]
Answer(r, step) == request' = [request EXCEPT ![r] = Answered(r, step)]

\* repository.save(entity): the row becomes the entity unless the trigger
\* rejects it.
Save(entity) ==
    workflow' = IF TriggerAccepts(entity) THEN entity ELSE workflow
-----------------------------------------------------------------------------
(* WorkflowsService.create: three calls outside any transaction.  The row   *)
(* is visible to GET /workflows, hence to every other writer, from the      *)
(* first call on.                                                           *)

CreateRow ==
    /\ creation = "none"
    /\ workflow' = [status |-> "DRAFT", currentVersion |-> 0]
    /\ creation' = "row"
    /\ UNCHANGED <<versions, request, ai, delivered, settled>>

CreateFirstVersion ==
    /\ creation = "row"
    /\ CanInsert(1)
    /\ Insert(1, Creator)
    /\ creation' = "version"
    /\ UNCHANGED <<workflow, request, ai, delivered, settled>>

CreateFirstVersionConflict ==
    /\ creation = "row"
    /\ ~CanInsert(1)
    /\ creation' = "failed"
    /\ UNCHANGED <<workflow, versions, request, ai, delivered, settled>>

\* Mutant: create() does not store the number of the first version.
CreateSaveForgets ==
    /\ creation = "version"
    /\ creation' = "done"
    /\ UNCHANGED <<workflow, versions, request, ai, delivered, settled>>

CreateSave ==
    /\ creation = "version"
    /\ Save([status |-> "DRAFT", currentVersion |-> 1])
    /\ creation' = "done"
    /\ UNCHANGED <<versions, request, ai, delivered, settled>>

\* The insert or the second save throws; the first save is not undone.
CreateFails ==
    /\ creation \in {"row", "version"}
    /\ creation' = "failed"
    /\ UNCHANGED <<workflow, versions, request, ai, delivered, settled>>
-----------------------------------------------------------------------------
(* WorkflowsService.update and .archive.  The caller passed the owner/admin *)
(* check; a refused caller changes nothing.                                 *)

Begin(r, step, status, withVersion) ==
    /\ RowExists
    /\ request[r].step = "idle"
    /\ request' = [request EXCEPT ![r] =
           [step |-> step,
            entity |-> [workflow EXCEPT !.status = IF status = NoStatus THEN @ ELSE status],
            withVersion |-> withVersion,
            version |-> 0]]
    /\ UNCHANGED <<workflow, versions, creation, ai, delivered, settled>>

LoadForUpdate(r) ==
    \E status \in DtoStatus \cup {NoStatus} : Begin(r, "save", status, FALSE)

LoadForNewVersion(r) ==
    \E status \in DtoStatus \cup {NoStatus} : Begin(r, "txRead", status, TRUE)

LoadForArchive(r) == Begin(r, "save", "ARCHIVED", FALSE)

\* Mutant: the number is read but not incremented.
TxReadWithoutIncrement(r) ==
    /\ request[r].step = "txRead"
    /\ Continue(r, "txWrite", request[r].entity, workflow.currentVersion)
    /\ UNCHANGED <<workflow, versions, creation, ai, delivered, settled>>

\* Inside the transaction: SELECT current_version, without a lock.
TxRead(r) ==
    /\ request[r].step = "txRead"
    /\ Continue(r, "txWrite", request[r].entity, workflow.currentVersion + 1)
    /\ UNCHANGED <<workflow, versions, creation, ai, delivered, settled>>

\* Mutant: the entity keeps the number it was loaded with.
TxWriteStaleEntity(r) ==
    /\ request[r].step = "txWrite"
    /\ CanInsert(request[r].version)
    /\ Insert(request[r].version, r)
    /\ workflow' = [workflow EXCEPT !.currentVersion = request[r].version]
    /\ Continue(r, "save", request[r].entity, request[r].version)
    /\ UNCHANGED <<creation, ai, delivered, settled>>

\* INSERT the version, UPDATE current_version, COMMIT; then the entity loaded
\* before the transaction gets currentVersion += 1.
TxWrite(r) ==
    /\ request[r].step = "txWrite"
    /\ CanInsert(request[r].version)
    /\ Insert(request[r].version, r)
    /\ workflow' = [workflow EXCEPT !.currentVersion = request[r].version]
    /\ Continue(r, "save", [request[r].entity EXCEPT !.currentVersion = @ + 1], request[r].version)
    /\ UNCHANGED <<creation, ai, delivered, settled>>

\* Mutant: the error of the transaction is swallowed.
TxConflictSwallowed(r) ==
    /\ request[r].step = "txWrite"
    /\ ~CanInsert(request[r].version)
    /\ Answer(r, "done")
    /\ UNCHANGED <<workflow, versions, creation, ai, delivered, settled>>

\* UNIQUE (workflow_id, version_number) fails: rollback, the request answers 500.
TxConflict(r) ==
    /\ request[r].step = "txWrite"
    /\ ~CanInsert(request[r].version)
    /\ Answer(r, "rejected")
    /\ UNCHANGED <<workflow, versions, creation, ai, delivered, settled>>

\* The final save of the entity loaded at the start.
SaveRequest(r) ==
    /\ request[r].step = "save"
    /\ Save(request[r].entity)
    /\ Answer(r, IF TriggerAccepts(request[r].entity) THEN "done" ELSE "failed")
    /\ UNCHANGED <<versions, creation, ai, delivered, settled>>

\* Some call of the request throws and it answers 500: the transaction is
\* rolled back, but once it has committed the version stays, with the save of
\* the row or, when the audit row or the publish fails, after it.
RequestFails(r) ==
    /\ request[r].step \notin Ended
    /\ \/ UNCHANGED workflow
       \/ request[r].step = "save" /\ Save(request[r].entity)
    /\ Answer(r, "failed")
    /\ UNCHANGED <<versions, creation, ai, delivered, settled>>
-----------------------------------------------------------------------------
(* POST /workflows/:id/export/elsa: validateExportability, then a second    *)
(* read for the version, then an unconditional UPDATE of the status.        *)

CheckExport(r) ==
    /\ workflow.status = "VALIDATED"
    /\ Begin(r, "exportRead", NoStatus, FALSE)

ExportRead(r) ==
    /\ request[r].step = "exportRead"
    /\ IF workflow.currentVersion \in DOMAIN versions
       THEN Continue(r, "exportWrite", request[r].entity, workflow.currentVersion)
       ELSE Answer(r, "rejected")
    /\ UNCHANGED <<workflow, versions, creation, ai, delivered, settled>>

ExportWrite(r) ==
    /\ request[r].step = "exportWrite"
    /\ workflow' = [workflow EXCEPT !.status = "EXPORTED"]
    /\ Answer(r, "done")
    /\ UNCHANGED <<versions, creation, ai, delivered, settled>>

\* exportToBpmnAsync and exportToPdfAsync insert a pipeline_execution row with
\* the workflow's id for session_id.  The column references session, so the
\* row is refused and the request answers 500.
InsertExportPipeline(r) == Answer(r, "rejected")

\* POST /workflows/:id/export/bpmn and /pdf: the same checks as for Elsa.
ExportAsync(r) ==
    /\ RowExists
    /\ workflow.status = "VALIDATED"
    /\ request[r].step = "idle"
    /\ InsertExportPipeline(r)
    /\ UNCHANGED <<workflow, versions, creation, ai, delivered, settled>>
-----------------------------------------------------------------------------
(* GenerationCompleteHandler.handle, up to the save of the workflow.  The   *)
(* subscription runs one handler at a time.                                 *)

AiLoad(res) ==
    /\ RowExists
    /\ ai.step = "idle"
    /\ res \notin settled
    /\ delivered[res] < MaxDeliver
    /\ delivered' = [delivered EXCEPT ![res] = @ + 1]
    /\ ai' = [step |-> "readMax", result |-> res, entity |-> workflow, version |-> 0]
    /\ UNCHANGED <<workflow, versions, creation, request, settled>>

\* Mutant: the number counts the deliveries of the result.
AiReadMaxCountsRetries ==
    /\ ai.step = "readMax"
    /\ ai' = [ai EXCEPT !.step = "insert", !.version = Latest + delivered[ai.result]]
    /\ UNCHANGED <<workflow, versions, creation, request, delivered, settled>>

\* Mutant: the workflow is saved before its version is inserted.
AiReadMaxThenSave ==
    /\ ai.step = "readMax"
    /\ ai' = [ai EXCEPT !.step = "save",
                        !.entity = [status |-> "PENDING_REVIEW", currentVersion |-> Latest + 1]]
    /\ UNCHANGED <<workflow, versions, creation, request, delivered, settled>>

AiReadMax ==
    /\ ai.step = "readMax"
    /\ ai' = [ai EXCEPT !.step = "insert", !.version = Latest + 1]
    /\ UNCHANGED <<workflow, versions, creation, request, delivered, settled>>

AiInsert ==
    /\ ai.step = "insert"
    /\ CanInsert(ai.version)
    /\ Insert(ai.version, ai.result)
    /\ ai' = [ai EXCEPT !.step = "save",
                        !.entity = [status |-> "PENDING_REVIEW", currentVersion |-> ai.version]]
    /\ UNCHANGED <<workflow, creation, request, delivered, settled>>

AiInsertConflict ==
    /\ ai.step = "insert"
    /\ ~CanInsert(ai.version)
    /\ ai' = IdleAi
    /\ UNCHANGED <<workflow, versions, creation, request, delivered, settled>>

AiSave ==
    /\ ai.step = "save"
    /\ Save(ai.entity)
    /\ ai' = IF TriggerAccepts(ai.entity) THEN [ai EXCEPT !.step = "rest"] ELSE IdleAi
    /\ UNCHANGED <<versions, creation, request, delivered, settled>>

\* The rest of the handler (session, pipeline, message, snapshots, report)
\* succeeds and the message is acknowledged ...
AiSettle ==
    /\ ai.step = "rest"
    /\ ai' = IdleAi
    /\ settled' = settled \cup {ai.result}
    /\ UNCHANGED <<workflow, versions, creation, request, delivered>>

\* ... or some call of the handler throws and the message is redelivered.
AiFail ==
    /\ ai.step # "idle"
    /\ ai' = IdleAi
    /\ UNCHANGED <<workflow, versions, creation, request, delivered, settled>>
-----------------------------------------------------------------------------
Busy ==
    \/ creation \in {"row", "version"}
    \/ \E r \in Requests : request[r].step \notin Ended
    \/ ai.step # "idle"

\* The process dies: what is committed stays, everything in flight is lost.
Crash ==
    /\ Busy
    /\ creation' = IF creation \in {"row", "version"} THEN "failed" ELSE creation
    /\ request' = [r \in Requests |->
           IF request[r].step \in Ended THEN request[r]
           ELSE Answered(r, "crashed")]
    /\ ai' = IdleAi
    /\ UNCHANGED <<workflow, versions, delivered, settled>>

\* duplicate() makes its copy with the same three calls, and only the elements
\* of the first version differ.
Create == CreateRow \/ CreateFirstVersion \/ CreateFirstVersionConflict \/ CreateSave \/ CreateFails

Serve(r) ==
    \/ LoadForUpdate(r) \/ LoadForNewVersion(r) \/ LoadForArchive(r)
    \/ TxRead(r) \/ TxWrite(r) \/ TxConflict(r) \/ SaveRequest(r)
    \/ RequestFails(r)
    \/ CheckExport(r) \/ ExportRead(r) \/ ExportWrite(r) \/ ExportAsync(r)

HandleResult ==
    \/ \E res \in Results : AiLoad(res)
    \/ AiReadMax \/ AiInsert \/ AiInsertConflict \/ AiSave \/ AiSettle \/ AiFail

Next ==
    \/ Create
    \/ \E r \in Requests : Serve(r)
    \/ HandleResult
    \/ Crash

Spec == Init /\ [][Next]_vars
-----------------------------------------------------------------------------
(* Properties *)

Versions(writer) == {n \in DOMAIN versions : versions[n] = writer}

AtRest == ~Busy

\* A result whose handler stopped before its end and was not redelivered since.
Interrupted(res) == delivered[res] > 0 /\ res \notin settled

\* Version numbers never skip and never collide: the rows of a workflow are
\* numbered 1, 2, ..., MAX(version_number), although update() computes the
\* next number from current_version and the AI handler from MAX().
NumberedWithoutGaps == Latest \in Nat /\ DOMAIN versions = 1..Latest

\* Whatever interleaving produced the stale entity, no save is ever refused
\* by enforce_workflow_current_version: a pending save holds a number that
\* exists, so an acknowledged version is never followed by a failing request.
TriggerNeverRejects ==
    /\ creation = "version" => 1 <= Latest
    /\ \A r \in Requests : request[r].step = "save" => TriggerAccepts(request[r].entity)
    /\ ai.step = "save" => TriggerAccepts(ai.entity)

\* What every in-flight writer carries between its reads and its writes: an
\* entity no newer than the rows, and a reserved number at most one above them.
PendingWritesBounded ==
    /\ workflow.currentVersion <= Latest
    /\ creation = "version" => 1 <= Latest
    /\ \A r \in Requests :
        /\ request[r].step \in {"txRead", "txWrite", "save"} =>
               request[r].entity.currentVersion <= Latest
        /\ request[r].step = "txWrite" => request[r].version \in 1..(Latest + 1)
    /\ ai.step = "insert" => ai.version \in 1..(Latest + 1)
    /\ ai.step = "save" => ai.entity.currentVersion <= Latest

\* The inductive invariant.
IInv == TypeOK /\ NumberedWithoutGaps /\ PendingWritesBounded

\* The number of a version is never taken over by a later writer, nor is a row
\* renumbered or removed.
VersionsImmutable ==
    [][\A n \in DOMAIN versions : n \in DOMAIN versions' /\ versions'[n] = versions[n]]_versions

\* A PATCH that asked for a version and was answered has exactly one, one that
\* was refused for its number left none behind, and none ever has two: a 500
\* after the commit is the only answer that leaves it open.
VersionPerAcknowledgement ==
    \A r \in Requests :
        /\ Cardinality(Versions(r)) <= 1
        /\ request[r].step = "done" /\ request[r].withVersion => Versions(r) # {}
        /\ request[r].step = "rejected" => Versions(r) = {}

\* What makes it inductive: whether a request has its version, by its step.
VersionFollowsStep(r) ==
    /\ \A m, n \in Versions(r) : m = n
    /\ ~request[r].withVersion => Versions(r) = {}
    /\ request[r].step \in {"idle", "exportRead", "exportWrite"} => ~request[r].withVersion
    /\ request[r].step \in {"txRead", "txWrite"} => request[r].withVersion
    /\ request[r].step \in {"txRead", "txWrite", "rejected"} => Versions(r) = {}
    /\ request[r].step \in {"save", "done"} /\ request[r].withVersion => Versions(r) # {}

VersionsByRequest == \A r \in Requests : VersionFollowsStep(r)

\* A step that refuses a version request.
Refuses(r) == request[r].step = "txWrite" /\ request'[r].step = "rejected"
=============================================================================
