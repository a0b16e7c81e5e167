------------------------------ MODULE Documents -----------------------------
(***************************************************************************)
(* The documents of one session: DocumentsService (upload, reprocess, soft *)
(* delete, correction of the extracted text), the MinIO bucket behind      *)
(* DocumentStorageService, the session's archive(), and the consumer of    *)
(* document.preprocess.result.                                             *)
(*                                                                         *)
(* Each awaited call is a step; save writes back the row loaded before.    *)
(* Documents are numbered in the order of their rows.  The delivery of     *)
(* results is what NatsDelivery does to a subscription without             *)
(* onExhausted: one at a time, again after a failure or a late or lost     *)
(* acknowledgement, at most MaxDeliver times.                              *)
(***************************************************************************)
EXTENDS Naturals, Sequences, FiniteSets, FiniteSetsExt

CONSTANTS
    Requests,   \* requests to DocumentsService, each served once
    Filenames,  \* names of files, all of an allowed type
    Sizes,      \* sizes of files
    MaxFile,    \* MAX_DOCUMENT_FILE_SIZE_BYTES
    MaxSession, \* MAX_SESSION_DOCUMENT_TOTAL_SIZE_BYTES
    MaxDocs,    \* bound on the rows
    MaxDeliver, \* max_deliver of the consumer
    MaxFaults   \* bound on failures of a call

ASSUME DocumentsAssumption ==
    /\ Sizes \subseteq Nat
    /\ MaxFile \in Nat /\ MaxSession \in Nat /\ MaxDocs \in Nat
    /\ MaxDeliver \in Nat \ {0} /\ MaxFaults \in Nat

VARIABLES
    docs,    \* the document rows of the session
    objects, \* keys of the objects in the bucket: the uploads that stored one
    bucket,  \* bucketReadyPromise
    request, \* per request: step and locals
    answer,  \* per document: its preprocess task and result
    handler, \* the copy handlePreprocessResult holds, per document of one delivery
    faults   \* failures so far

vars == <<docs, objects, bucket, request, answer, handler, faults>>

Texts == {"none", "extracted", "corrected"}
Row == [filename : Filenames, size : Sizes, object : Requests, version : Nat \ {0},
        text : Texts, deleted : BOOLEAN, archived : BOOLEAN]

\* undefined; createBucketIfNeeded under way; fulfilled; rejected.
Promises == {"unset", "pending", "ready", "rejected"}

\* Not published; with the preprocessing service; answered and to be delivered
\* for the n-th time; and then acknowledged, or dropped after the last delivery.
Answer == [state : {"unsent", "sent", "due", "acked", "dropped"}, count : 0..MaxDeliver]

Ids == 1..Len(docs)
Idle == [step |-> "idle"]
Ended == [step |-> "ended"]
NoDelivery == [doc |-> 0]

File == [filename : Filenames, size : Sizes]

\* A request is between the calls of uploadDocument, or holds the copy or the
\* row it is going to store.
Uploading == [step : {"sum", "number"}, file : File, version : {0}]
             \union [step : {"setup", "put"}, file : File, version : Nat \ {0}]
Storing == [step : {"renumber"}, of : Row] \union [step : {"insert"}, row : Row]
Saving == [step : {"publish"}, doc : Ids] \union [step : {"save"}, doc : Ids, next : Row]

TypeOK ==
    /\ docs \in Seq(Row) /\ Len(docs) <= MaxDocs
    /\ objects \subseteq Requests
    /\ bucket \in Promises
    /\ request \in [Requests -> {Idle, Ended} \union Uploading \union Storing \union Saving]
    /\ answer \in [1..MaxDocs -> Answer]
    /\ handler = NoDelivery \/ handler \in [doc : Ids, next : Row]
    /\ faults \in 0..MaxFaults

Init ==
    /\ docs = <<>>
    /\ objects = {}
    /\ bucket = "unset"
    /\ request = [r \in Requests |-> Idle]
    /\ answer = [d \in 1..MaxDocs |-> [state |-> "unsent", count |-> 0]]
    /\ handler = NoDelivery
    /\ faults = 0

Goto(r, next) == request' = [request EXCEPT ![r] = next]

-----------------------------------------------------------------------------
(* Upload                                                                  *)

\* The size and type checks and findOwnedSession.
Upload(r, file) ==
    /\ request[r] = Idle
    /\ Goto(r, IF file.size <= MaxFile
               THEN [step |-> "sum", file |-> file, version |-> 0] ELSE Ended)
    /\ UNCHANGED <<docs, objects, bucket, answer, handler, faults>>

\* Deleted documents count, and a reprocessed one counts again.
GetSessionDocumentBytes ==
    LET sum[n \in 0..Len(docs)] == IF n = 0 THEN 0 ELSE sum[n - 1] + docs[n].size
    IN  sum[Len(docs)]

CheckSessionBytes(r) ==
    LET file == request[r].file IN
    /\ request[r].step = "sum"
    /\ Goto(r, IF GetSessionDocumentBytes + file.size <= MaxSession
               THEN [request[r] EXCEPT !.step = "number"] ELSE Ended)
    /\ UNCHANGED <<docs, objects, bucket, answer, handler, faults>>

\* Mutant: deleted documents give their number back.
GetNextActiveVersion(filename) ==
    Cardinality({i \in Ids : docs[i].filename = filename /\ ~docs[i].deleted}) + 1

GetNextDocumentVersion(filename) ==
    Max({docs[d].version : d \in {i \in Ids : docs[i].filename = filename}} \union {0}) + 1

NumberUpload(r) ==
    /\ request[r].step = "number"
    /\ Goto(r, [request[r] EXCEPT !.step = "setup",
                                  !.version = GetNextDocumentVersion(request[r].file.filename)])
    /\ UNCHANGED <<docs, objects, bucket, answer, handler, faults>>

\* ensureBucketReady: the first caller starts createBucketIfNeeded, every other
\* one waits for the same promise.
EnsureBucketReady(r) ==
    /\ request[r].step = "setup"
    /\ \/ bucket = "unset" /\ bucket' = "pending" /\ UNCHANGED request
       \/ bucket = "ready" /\ Goto(r, [request[r] EXCEPT !.step = "put"]) /\ UNCHANGED bucket
       \/ bucket = "rejected" /\ Goto(r, Ended) /\ UNCHANGED bucket
    /\ UNCHANGED <<docs, objects, answer, handler, faults>>

BucketCreated ==
    /\ bucket = "pending"
    /\ bucket' = "ready"
    /\ UNCHANGED <<docs, objects, request, answer, handler, faults>>

\* MinIO is unavailable: the promise is kept, rejected as it is.
BucketFails ==
    /\ bucket = "pending"
    /\ faults < MaxFaults
    /\ faults' = faults + 1
    /\ bucket' = "rejected"
    /\ UNCHANGED <<docs, objects, request, answer, handler>>

\* Mutant: the row does not wait for the object.
StoreDocumentLater(r) ==
    LET q == request[r] IN
    /\ q.step = "put"
    /\ Goto(r, [step |-> "insert",
                row |-> [filename |-> q.file.filename, size |-> q.file.size, object |-> r,
                         version |-> q.version, text |-> "none",
                         deleted |-> FALSE, archived |-> FALSE]])
    /\ UNCHANGED <<docs, objects, bucket, answer, handler, faults>>

StoreDocument(r) ==
    LET q == request[r] IN
    /\ q.step = "put"
    /\ objects' = objects \union {r}
    /\ Goto(r, [step |-> "insert",
                row |-> [filename |-> q.file.filename, size |-> q.file.size, object |-> r,
                         version |-> q.version, text |-> "none",
                         deleted |-> FALSE, archived |-> FALSE]])
    /\ UNCHANGED <<docs, bucket, answer, handler, faults>>

InsertDocument(r) ==
    /\ request[r].step = "insert"
    /\ Len(docs) < MaxDocs
    /\ docs' = Append(docs, request[r].row)
    /\ Goto(r, [step |-> "publish", doc |-> Len(docs) + 1])
    /\ UNCHANGED <<objects, bucket, answer, handler, faults>>

PublishDocumentPreprocess(r) ==
    /\ request[r].step = "publish"
    /\ answer' = [answer EXCEPT ![request[r].doc].state = "sent"]
    /\ Goto(r, Ended)
    /\ UNCHANGED <<docs, objects, bucket, handler, faults>>

-----------------------------------------------------------------------------
(* The other requests: findActiveOwnedDocument, then a save or an insert    *)

Active(d) == ~docs[d].deleted

ReprocessDocument(r, d) ==
    /\ request[r] = Idle
    /\ Active(d)
    /\ Goto(r, [step |-> "renumber", of |-> docs[d]])
    /\ UNCHANGED <<docs, objects, bucket, answer, handler, faults>>

NumberReprocess(r) ==
    LET of == request[r].of IN
    /\ request[r].step = "renumber"
    /\ Goto(r, [step |-> "insert",
                row |-> [of EXCEPT !.version = GetNextDocumentVersion(of.filename),
                                   !.text = "none", !.archived = FALSE]])
    /\ UNCHANGED <<docs, objects, bucket, answer, handler, faults>>

SoftDeleteDocument(r, d) ==
    /\ request[r] = Idle
    /\ Active(d)
    /\ Goto(r, [step |-> "save", doc |-> d, next |-> [docs[d] EXCEPT !.deleted = TRUE]])
    /\ UNCHANGED <<docs, objects, bucket, answer, handler, faults>>

UpdateExtractedText(r, d) ==
    /\ request[r] = Idle
    /\ Active(d)
    /\ Goto(r, [step |-> "save", doc |-> d, next |-> [docs[d] EXCEPT !.text = "corrected"]])
    /\ UNCHANGED <<docs, objects, bucket, answer, handler, faults>>

SaveDocument(r) ==
    /\ request[r].step = "save"
    /\ docs' = [docs EXCEPT ![request[r].doc] = request[r].next]
    /\ Goto(r, Ended)
    /\ UNCHANGED <<objects, bucket, answer, handler, faults>>

\* A call of the request fails; what it has written stays.
Fail(r) ==
    /\ request[r] \notin {Idle, Ended}
    /\ faults < MaxFaults
    /\ faults' = faults + 1
    /\ Goto(r, Ended)
    /\ UNCHANGED <<docs, objects, bucket, answer, handler>>

\* DELETE /sessions/:id: one UPDATE over the rows of the session.
ArchiveSession ==
    /\ \E d \in Ids : ~docs[d].archived
    /\ docs' = [d \in Ids |-> [docs[d] EXCEPT !.archived = TRUE]]
    /\ UNCHANGED <<objects, bucket, request, answer, handler, faults>>

-----------------------------------------------------------------------------
(* Preprocessing and its results                                           *)

\* The FastAPI service publishes the text it extracted.
Preprocess(d) ==
    /\ answer[d].state = "sent"
    /\ answer' = [answer EXCEPT ![d].state = "due"]
    /\ UNCHANGED <<docs, objects, bucket, request, handler, faults>>

\* Mutant: an acknowledged result is delivered again.
LoadForResultAgain(d) ==
    /\ answer[d].state \in {"due", "acked"} /\ answer[d].count < MaxDeliver
    /\ handler = NoDelivery
    /\ ~docs[d].deleted /\ ~docs[d].archived
    /\ answer' = [answer EXCEPT ![d].count = @ + 1]
    /\ handler' = [doc |-> d, next |-> [docs[d] EXCEPT !.text = "extracted"]]
    /\ UNCHANGED <<docs, objects, bucket, request, faults>>

\* handlePreprocessResult up to the save.  A result for an inactive document is
\* dropped, and acknowledged.
LoadForResult(d) ==
    /\ answer[d].state = "due"
    /\ handler = NoDelivery
    /\ IF docs[d].deleted \/ docs[d].archived
       THEN /\ answer' = [answer EXCEPT ![d].state = "acked"]
            /\ UNCHANGED handler
       ELSE /\ answer' = [answer EXCEPT ![d].count = @ + 1]
            /\ handler' = [doc |-> d, next |-> [docs[d] EXCEPT !.text = "extracted"]]
    /\ UNCHANGED <<docs, objects, bucket, request, faults>>

SaveResult ==
    /\ handler # NoDelivery
    /\ docs' = [docs EXCEPT ![handler.doc] = handler.next]
    /\ answer' = [answer EXCEPT ![handler.doc].state = "acked"]
    /\ handler' = NoDelivery
    /\ UNCHANGED <<objects, bucket, request, faults>>

\* nak, or term on the last delivery.
ResultFails ==
    /\ handler # NoDelivery
    /\ faults < MaxFaults
    /\ faults' = faults + 1
    /\ answer' = [answer EXCEPT ![handler.doc].state =
                    IF answer[handler.doc].count < MaxDeliver THEN "due" ELSE "dropped"]
    /\ handler' = NoDelivery
    /\ UNCHANGED <<docs, objects, bucket, request>>

\* The result is saved, but ack_wait has expired: it will be delivered again.
SaveResultLate ==
    /\ handler # NoDelivery
    /\ faults < MaxFaults
    /\ answer[handler.doc].count < MaxDeliver
    /\ faults' = faults + 1
    /\ docs' = [docs EXCEPT ![handler.doc] = handler.next]
    /\ handler' = NoDelivery
    /\ UNCHANGED <<objects, bucket, request, answer>>

-----------------------------------------------------------------------------
Advance(r) ==
    \/ CheckSessionBytes(r)
    \/ NumberUpload(r)
    \/ EnsureBucketReady(r)
    \/ StoreDocument(r)
    \/ InsertDocument(r)
    \/ PublishDocumentPreprocess(r)
    \/ NumberReprocess(r)
    \/ SaveDocument(r)

Begin(r) ==
    \/ \E file \in File : Upload(r, file)
    \/ \E d \in Ids :
          \/ ReprocessDocument(r, d)
          \/ SoftDeleteDocument(r, d)
          \/ UpdateExtractedText(r, d)

Results ==
    \/ \E d \in Ids : Preprocess(d) \/ LoadForResult(d)
    \/ SaveResult
    \/ ResultFails
    \/ SaveResultLate

Next ==
    \/ \E r \in Requests : Begin(r) \/ Advance(r) \/ Fail(r)
    \/ BucketCreated
    \/ BucketFails
    \/ ArchiveSession
    \/ Results

Spec == Init /\ [][Next]_vars

-----------------------------------------------------------------------------
(* Properties                                                              *)

\* A document row never names an object that is not in the bucket, whatever
\* fails and whichever requests share the object.
RowsHaveObjects == \A d \in Ids : docs[d].object \in objects

\* An upload leaves an object without a row only while it is under way or after
\* a failure: nothing else in the code removes an orphan, or makes one.
OrphansNeedFaults ==
    Cardinality({r \in objects : request[r] = Ended /\ \A d \in Ids : docs[d].object # r})
        <= faults

\* No object is stored before the bucket exists with its encryption set, also
\* when several first uploads wait for it together.
StoredEncrypted == objects # {} => bucket = "ready"

\* The rows are well formed and agree with what is in the bucket.
StorageConsistent == TypeOK /\ RowsHaveObjects /\ OrphansNeedFaults /\ StoredEncrypted

\* A request has stored its object when it comes to its row, and copies of a
\* row name the object of that row.
CopiesNameObjects ==
    /\ \A r \in Requests :
          LET q == request[r] IN
          /\ q.step \in {"idle", "sum", "number", "setup", "put", "renumber", "save"} =>
                r \notin objects
          /\ q.step = "put" => bucket = "ready"
          /\ q.step = "renumber" => q.of.object \in objects
          /\ q.step = "insert" => q.row.object \in objects /\ (r \in objects => q.row.object = r)
          /\ q.step = "publish" /\ r \in objects => \E d \in Ids : docs[d].object = r
          /\ q.step = "save" => q.next.object = docs[q.doc].object
    /\ handler # NoDelivery => handler.next.object = docs[handler.doc].object

\* A task is published once, and its result is not delivered too often.
DeliveriesBounded ==
    /\ \A d \in 1..MaxDocs :
          /\ answer[d].state \in {"unsent", "sent"} => answer[d].count = 0
          /\ answer[d].state = "due" /\ handler.doc # d => answer[d].count < MaxDeliver
          /\ handler.doc = d => answer[d].state = "due"
          /\ d \notin Ids => answer[d].state = "unsent"
    /\ \A r \in Requests : request[r].step = "publish" =>
          /\ answer[request[r].doc].state = "unsent"
          /\ \A p \in Requests :
                request[p].step = "publish" /\ request[p].doc = request[r].doc => p = r

IInv == StorageConsistent /\ CopiesNameObjects /\ DeliveriesBounded

\* What the check of the limit is for.
WithinLimit == GetSessionDocumentBytes <= MaxSession

\* What the numbering is for: rows of the same name, deleted or not, have
\* different doc_version numbers.
VersionsDistinct ==
    \A d, e \in Ids :
        d # e /\ docs[d].filename = docs[e].filename => docs[d].version # docs[e].version

\* A deleted document stays as it was when deleted, text included.
DeletionStands(d) ==
    docs[d].deleted => docs'[d] = [docs[d] EXCEPT !.archived = docs'[d].archived]

\* The extracted text replaces a correction by the user only in the save of a
\* result that is not acknowledged yet.
CorrectionStands(d) ==
    docs[d].text = "corrected" /\ docs'[d].text = "extracted" =>
        handler.doc = d /\ answer[d].state = "due"
=============================================================================
