--------------------------- MODULE Documents_proofs --------------------------
(***************************************************************************)
(* Proofs about Documents and its history, for any requests, files,        *)
(* limits, redeliveries and failures: rows and their objects, the sizes    *)
(* and numbers of a session's documents, deletions and corrections.        *)
(***************************************************************************)
EXTENDS DocumentsHistory, FiniteSetTheorems, WellFoundedInduction, SequenceTheorems, TLAPS

\* The least element of a set of natural numbers.
LEMMA Least == ASSUME NEW T, T \subseteq Nat, T # {} PROVE \E m \in T : \A n \in T : m <= n
<1>1. PICK m \in T : \A n \in T : ~ (<<n, m>> \in OpToRel(<, Nat))
  BY NatLessThanWellFounded, WFMin, Zenon
<1>2. \A n \in T : ~(n < m)
  <2>1. ASSUME NEW n \in T, n < m PROVE FALSE
    <3>1. <<n, m>> \in Nat \X Nat /\ <<n, m>>[1] = n /\ <<n, m>>[2] = m
      OBVIOUS
    <3>2. <<n, m>>[1] < <<n, m>>[2]
      BY <2>1, <3>1
    <3>3. <<n, m>> \in OpToRel(<, Nat)
      BY <3>1, <3>2, Zenon DEF OpToRel
    <3> QED BY <1>1, <3>3, Zenon
  <2> QED BY <2>1
<1>3. m \in Nat /\ \A n \in T : n \in Nat
  OBVIOUS
<1> QED BY <1>2, <1>3

LEMMA MaxIsNatural ==
    ASSUME NEW S, S \subseteq Nat, S # {}, NEW b \in Nat, \A x \in S : x <= b
    PROVE  Max(S) \in Nat /\ \A x \in S : x <= Max(S)
<1> DEFINE U == {n \in Nat : \A x \in S : x <= n}
<1>1. U \subseteq Nat /\ b \in U
  OBVIOUS
<1>2. PICK m \in U : \A n \in U : m <= n
  BY <1>1, Least
<1>3. m \in S
  <2>1. SUFFICES ASSUME m \notin S PROVE FALSE
    OBVIOUS
  <2>2. \A x \in S : x < m
    BY <1>2, <2>1
  <2>3. PICK x \in S : TRUE
    OBVIOUS
  <2>4. m - 1 \in Nat /\ \A y \in S : y <= m - 1
    BY <1>2, <2>2, <2>3
  <2>5. m - 1 \in U
    BY <2>4
  <2> QED BY <1>2, <2>5
<1>4. \E x \in S : \A y \in S : x >= y
  BY <1>2, <1>3
<1>5. Max(S) \in S /\ \A y \in S : Max(S) >= y
  BY <1>4 DEF Max
<1>6. \A x \in S : x \in Nat
  OBVIOUS
<1> QED BY <1>5, <1>6

LEMMA FiniteListIsBounded ==
    ASSUME NEW f, NEW len \in Nat, \A i \in 1..len : f[i] \in Nat
    PROVE  \E b \in Nat : \A i \in 1..len : f[i] <= b
<1> DEFINE Upto(n) == \E b \in Nat : \A i \in 1..n : f[i] <= b
           T == {n \in 0..len : ~Upto(n)}
<1>1. SUFFICES ASSUME T # {} PROVE FALSE
  <2>1. len \in 0..len
    OBVIOUS
  <2> QED BY <2>1
<1>2. PICK n \in T : \A k \in T : n <= k
  <2>1. T \subseteq 0..len
    OBVIOUS
  <2> HIDE DEF T
  <2>2. T \subseteq Nat
    BY <2>1
  <2> QED BY <1>1, <2>2, Least
<1>3. n \in 0..len /\ ~Upto(n)
  OBVIOUS
<1>4. n # 0
  <2>1. \A i \in 1..0 : f[i] <= 0
    OBVIOUS
  <2> QED BY <1>3, <2>1
<1>5. n - 1 \in 0..len /\ ~(n <= n - 1)
  BY <1>3, <1>4
<1>6. n - 1 \notin T
  BY <1>2, <1>5
<1>7. Upto(n - 1)
  BY <1>5, <1>6
<1>8. PICK b \in Nat : \A i \in 1..(n - 1) : f[i] <= b
  BY <1>7
<1> DEFINE c == IF f[n] <= b THEN b ELSE f[n]
<1>9. f[n] \in Nat
  BY <1>3, <1>4
<1>10. c \in Nat /\ b <= c /\ f[n] <= c
  BY <1>9
<1> HIDE DEF c
<1>11. ASSUME NEW i \in 1..n PROVE f[i] <= c
  <2>1. f[i] \in Nat
    BY <1>3
  <2>2. CASE i = n
    BY <1>10, <2>2
  <2>3. CASE i # n
    <3>1. i \in 1..(n - 1)
      BY <1>3, <2>3
    <3>2. f[i] <= b
      BY <1>8, <3>1
    <3> QED BY <1>10, <2>1, <3>2
  <2> QED BY <2>2, <2>3
<1> QED BY <1>3, <1>10, <1>11

LEMMA RowsAreRows ==
    ASSUME docs \in Seq(Row)
    PROVE  /\ Len(docs) \in Nat /\ Ids = 1..Len(docs)
           /\ \A d \in Ids : docs[d] \in Row /\ docs[d].version \in Nat
<1>1. Len(docs) \in Nat
  OBVIOUS
<1>2. \A d \in 1..Len(docs) : docs[d] \in Row
  OBVIOUS
<1>3. \A row \in Row : row.version \in Nat
  BY DEF Row
<1> QED BY <1>1, <1>2, <1>3 DEF Ids

\* The numbers a name has are bounded, so that Max says which is greatest.
LEMMA NumbersAreBounded ==
    ASSUME docs \in Seq(Row), NEW filename,
           NEW V, V = {docs[d].version : d \in {i \in Ids : docs[i].filename = filename}} \union {0}
    PROVE  V \subseteq Nat /\ V # {} /\ \E b \in Nat : \A x \in V : x <= b
<1> DEFINE f == [d \in Ids |-> docs[d].version]
<1>1. Len(docs) \in Nat /\ \A d \in 1..Len(docs) : f[d] \in Nat
  BY RowsAreRows
<1> HIDE DEF f
<1>2. PICK b \in Nat : \A d \in 1..Len(docs) : f[d] <= b
  BY <1>1, FiniteListIsBounded
<1>3. \A d \in Ids : docs[d].version \in Nat /\ docs[d].version <= b
  BY <1>2, RowsAreRows DEF f
<1> QED BY <1>3

\* The next number of a name is a number.
LEMMA NextVersionType ==
    ASSUME docs \in Seq(Row), NEW filename PROVE GetNextDocumentVersion(filename) \in Nat \ {0}
<1> DEFINE V == {docs[d].version : d \in {i \in Ids : docs[i].filename = filename}} \union {0}
<1>1. V \subseteq Nat /\ V # {} /\ \E b \in Nat : \A x \in V : x <= b
  BY NumbersAreBounded
<1>2. GetNextDocumentVersion(filename) = Max(V) + 1
  BY DEF GetNextDocumentVersion
<1> HIDE DEF V
<1>3. Max(V) \in Nat
  BY <1>1, MaxIsNatural
<1> QED BY <1>2, <1>3

-----------------------------------------------------------------------------
(* The invariant in the parts its proof handles one by one                 *)

Orphans == {r \in objects : request[r] = Ended /\ \A d \in Ids : docs[d].object # r}

\* Orphans are counted, so that they are finitely many is part of the induction.
FInv == IInv /\ IsFiniteSet(Orphans)

RequestRecord == {Idle, Ended} \union Uploading \union Storing \union Saving

\* A request r whose record is q.
Fits(r, q) ==
    /\ q.step \in {"idle", "sum", "number", "setup", "put", "renumber", "save"} => r \notin objects
    /\ q.step = "put" => bucket = "ready"
    /\ q.step = "renumber" => q.of.object \in objects
    /\ q.step = "insert" => q.row.object \in objects /\ (r \in objects => q.row.object = r)
    /\ q.step = "publish" /\ r \in objects => \E d \in Ids : docs[d].object = r
    /\ q.step = "save" => q.next.object = docs[q.doc].object

HandlerFits == handler # NoDelivery => handler.next.object = docs[handler.doc].object

Counted == IsFiniteSet(Orphans) /\ Cardinality(Orphans) <= faults

AnswersBounded ==
    \A d \in 1..MaxDocs :
        /\ answer[d].state \in {"unsent", "sent"} => answer[d].count = 0
        /\ answer[d].state = "due" /\ handler.doc # d => answer[d].count < MaxDeliver
        /\ handler.doc = d => answer[d].state = "due"
        /\ d \notin Ids => answer[d].state = "unsent"

PublishedOnce ==
    \A r \in Requests : request[r].step = "publish" =>
        /\ answer[request[r].doc].state = "unsent"
        /\ \A p \in Requests :
              request[p].step = "publish" /\ request[p].doc = request[r].doc => p = r

Typed ==
    /\ docs \in Seq(Row) /\ Len(docs) <= MaxDocs
    /\ objects \subseteq Requests
    /\ bucket \in Promises
    /\ request \in [Requests -> RequestRecord]
    /\ answer \in [1..MaxDocs -> Answer]
    /\ handler = NoDelivery \/ handler \in [doc : Ids, next : Row]
    /\ faults \in 0..MaxFaults

Parts ==
    /\ Typed
    /\ RowsHaveObjects /\ StoredEncrypted /\ Counted
    /\ \A r \in Requests : Fits(r, request[r])
    /\ HandlerFits
    /\ AnswersBounded /\ PublishedOnce

LEMMA TypedIsTypeOK == TypeOK <=> Typed
BY DEF TypeOK, Typed, RequestRecord

LEMMA CopiesInParts == CopiesNameObjects <=> (\A r \in Requests : Fits(r, request[r])) /\ HandlerFits
BY DEF CopiesNameObjects, Fits, HandlerFits

LEMMA DeliveriesInParts == DeliveriesBounded <=> AnswersBounded /\ PublishedOnce
BY DEF DeliveriesBounded, AnswersBounded, PublishedOnce

LEMMA OrphansAreCounted ==
    Counted <=> OrphansNeedFaults /\ IsFiniteSet(Orphans)
BY DEF Counted, OrphansNeedFaults, Orphans

LEMMA InParts == FInv <=> Parts
BY TypedIsTypeOK, CopiesInParts, DeliveriesInParts, OrphansAreCounted
   DEF FInv, IInv, StorageConsistent, Parts

LEMMA PartsAfter == ASSUME Parts' PROVE FInv'
BY DEF Parts, FInv, IInv, StorageConsistent, TypeOK, Typed, RequestRecord, CopiesNameObjects, Fits,
       HandlerFits, DeliveriesBounded, AnswersBounded, PublishedOnce, Counted, OrphansNeedFaults, Orphans

\* The type of a record outlives rows that are added.
LEMMA RecordsKept ==
    ASSUME Typed, docs' \in Seq(Row), Len(docs) <= Len(docs')
    PROVE  /\ Ids \subseteq Ids' /\ RequestRecord \subseteq RequestRecord'
           /\ [doc : Ids, next : Row] \subseteq [doc : Ids', next : Row]
<1>1. Len(docs) \in Nat /\ Len(docs') \in Nat
  BY DEF Typed
<1>2. Ids \subseteq Ids'
  BY <1>1 DEF Ids
<1>3. Saving \subseteq Saving'
  BY <1>2 DEF Saving
<1> QED BY <1>2, <1>3 DEF RequestRecord, Uploading, Storing

LEMMA CountedStays ==
    ASSUME Counted, Orphans' \subseteq Orphans, faults \in Nat, faults' \in Nat, faults <= faults'
    PROVE  Counted'
<1>1. /\ IsFiniteSet(Orphans') /\ Cardinality(Orphans') <= Cardinality(Orphans)
      /\ Cardinality(Orphans) \in Nat /\ Cardinality(Orphans') \in Nat
  BY FS_Subset, FS_CardinalityType DEF Counted
<1>2. Cardinality(Orphans) <= faults
  BY DEF Counted
<1>3. Cardinality(Orphans') <= faults'
  BY <1>1, <1>2
<1> QED BY <1>1, <1>3 DEF Counted

LEMMA CountedGrows ==
    ASSUME Counted, NEW r, Orphans' \subseteq Orphans \union {r}, faults \in Nat, faults' = faults + 1
    PROVE  Counted'
<1>1. /\ IsFiniteSet(Orphans \union {r}) /\ Cardinality(Orphans) \in Nat
      /\ Cardinality(Orphans \union {r}) \in {Cardinality(Orphans), Cardinality(Orphans) + 1}
  BY FS_AddElement, FS_CardinalityType DEF Counted
<1>2. /\ IsFiniteSet(Orphans') /\ Cardinality(Orphans') \in Nat
      /\ Cardinality(Orphans') <= Cardinality(Orphans \union {r})
  BY <1>1, FS_Subset, FS_CardinalityType
<1>3. Cardinality(Orphans) <= faults
  BY DEF Counted
<1>4. Cardinality(Orphans') <= faults'
  BY <1>1, <1>2, <1>3
<1> QED BY <1>2, <1>4 DEF Counted

-----------------------------------------------------------------------------
(* Steps of requests                                                       *)

LEMMA InitParts == ASSUME Init PROVE Parts
<1>1. Typed
  BY DocumentsAssumption DEF Init, Typed, RequestRecord, Promises, Answer, NoDelivery
<1>2. Ids = {} /\ Orphans = {}
  BY DEF Init, Ids, Orphans
<1>3. IsFiniteSet(Orphans) /\ Cardinality(Orphans) = 0
  BY <1>2, FS_EmptySet
<1>4. Counted /\ StoredEncrypted /\ RowsHaveObjects
  BY <1>2, <1>3 DEF Init, Counted, StoredEncrypted, RowsHaveObjects
<1>5. \A r \in Requests : request[r].step = "idle"
  BY DEF Init, Idle
<1>6. (\A r \in Requests : Fits(r, request[r])) /\ HandlerFits /\ PublishedOnce
  BY <1>5 DEF Init, Fits, HandlerFits, PublishedOnce
<1>7. AnswersBounded
  <2>1. \A d \in 1..MaxDocs : handler.doc # d
    BY DocumentsAssumption DEF Init, NoDelivery
  <2> QED BY <2>1 DEF Init, AnswersBounded
<1> QED BY <1>1, <1>4, <1>6, <1>7 DEF Parts

\* A request that goes on or ends without an object; the bucket may get ready.
LEMMA MovesOn ==
    ASSUME Parts, NEW r \in Requests, NEW next \in RequestRecord, Goto(r, next),
           UNCHANGED <<docs, objects, answer, handler, faults>>,
           bucket' \in Promises, bucket = "ready" => bucket' = "ready",
           next.step # "publish", Fits(r, next), next = Ended => r \notin objects
    PROVE  Parts'
<1>0. /\ docs' = docs /\ objects' = objects /\ answer' = answer
      /\ handler' = handler /\ faults' = faults
  OBVIOUS
<1>1. Typed /\ Ids' = Ids /\ RequestRecord' = RequestRecord
  BY <1>0 DEF Parts, Ids, RequestRecord, Uploading, Storing, Saving
<1>2. request' \in [Requests -> RequestRecord]
  BY <1>1 DEF Typed, Goto
<1>3. \A p \in Requests : request'[p] = IF p = r THEN next ELSE request[p]
  BY <1>1 DEF Typed, Goto
<1>4. Typed'
  BY <1>0, <1>1, <1>2 DEF Typed
<1>5. \A p \in Requests : Fits(p, request'[p])
  BY <1>3 DEF Parts
<1>6. \A p \in Requests : Fits(p, request[p])'
  BY <1>0, <1>1, <1>5 DEF Fits
<1>7. Orphans' \subseteq Orphans
  BY <1>0, <1>1, <1>3 DEF Orphans, Typed
<1>8. Counted'
  BY <1>0, <1>1, <1>7, CountedStays, DocumentsAssumption DEF Parts, Typed
<1>9. RowsHaveObjects' /\ StoredEncrypted' /\ HandlerFits' /\ AnswersBounded'
  BY <1>0, <1>1 DEF Parts, RowsHaveObjects, StoredEncrypted, HandlerFits, AnswersBounded
<1>10. PublishedOnce'
  BY <1>0, <1>3 DEF Parts, PublishedOnce
<1> QED BY <1>4, <1>6, <1>8, <1>9, <1>10 DEF Parts

LEMMA BeginParts == ASSUME Parts, NEW r \in Requests, Begin(r) PROVE Parts'
<1> USE DEF Idle, Ended
<1>0. Typed /\ Ended \in RequestRecord
  BY DEF Parts, RequestRecord
<1>1. ASSUME request[r] = Idle PROVE r \notin objects
  BY <1>1 DEF Parts, Fits
<1>2. ASSUME NEW file \in File, Upload(r, file) PROVE Parts'
  <2>1. r \notin objects /\ UNCHANGED <<docs, objects, bucket, answer, handler, faults>>
    BY <1>1, <1>2 DEF Upload
  <2>2. [step |-> "sum", file |-> file, version |-> 0] \in RequestRecord
    BY DEF RequestRecord, Uploading
  <2>3. CASE Goto(r, Ended)
    BY <1>0, <2>1, <2>3, MovesOn DEF Fits, Typed
  <2>4. CASE Goto(r, [step |-> "sum", file |-> file, version |-> 0])
    BY <1>0, <2>1, <2>2, <2>4, MovesOn DEF Fits, Typed
  <2> QED BY <1>2, <2>3, <2>4 DEF Upload
<1>3. ASSUME NEW d \in Ids, ReprocessDocument(r, d) PROVE Parts'
  <2>1. r \notin objects /\ UNCHANGED <<docs, objects, bucket, answer, handler, faults>>
        /\ Goto(r, [step |-> "renumber", of |-> docs[d]])
    BY <1>1, <1>3 DEF ReprocessDocument
  <2>2. docs[d] \in Row /\ docs[d].object \in objects
    BY <1>0, RowsAreRows DEF Parts, Typed, RowsHaveObjects
  <2>3. [step |-> "renumber", of |-> docs[d]] \in RequestRecord
    BY <2>2 DEF RequestRecord, Storing
  <2> QED BY <1>0, <2>1, <2>2, <2>3, MovesOn DEF Fits, Typed
<1>4. ASSUME NEW d \in Ids, NEW next \in Row, next.object = docs[d].object, request[r] = Idle,
             Goto(r, [step |-> "save", doc |-> d, next |-> next]),
             UNCHANGED <<docs, objects, bucket, answer, handler, faults>>
      PROVE  Parts'
  <2>1. [step |-> "save", doc |-> d, next |-> next] \in RequestRecord
    BY DEF RequestRecord, Saving
  <2> QED BY <1>0, <1>1, <1>4, <2>1, MovesOn DEF Fits, Typed
<1>5. \A row \in Row :
          /\ [row EXCEPT !.deleted = TRUE] \in Row /\ [row EXCEPT !.text = "corrected"] \in Row
          /\ [row EXCEPT !.deleted = TRUE].object = row.object
          /\ [row EXCEPT !.text = "corrected"].object = row.object
  BY DEF Row, Texts
<1>6. ASSUME NEW d \in Ids, SoftDeleteDocument(r, d) PROVE Parts'
  <2> DEFINE next == [docs[d] EXCEPT !.deleted = TRUE]
  <2>1. next \in Row /\ next.object = docs[d].object
    BY <1>0, <1>5, RowsAreRows DEF Typed
  <2>2. /\ request[r] = Idle /\ Goto(r, [step |-> "save", doc |-> d, next |-> next])
        /\ UNCHANGED <<docs, objects, bucket, answer, handler, faults>>
    BY <1>6 DEF SoftDeleteDocument
  <2> HIDE DEF next
  <2> QED BY <1>4, <2>1, <2>2
<1>7. ASSUME NEW d \in Ids, UpdateExtractedText(r, d) PROVE Parts'
  <2> DEFINE next == [docs[d] EXCEPT !.text = "corrected"]
  <2>1. next \in Row /\ next.object = docs[d].object
    BY <1>0, <1>5, RowsAreRows DEF Typed
  <2>2. /\ request[r] = Idle /\ Goto(r, [step |-> "save", doc |-> d, next |-> next])
        /\ UNCHANGED <<docs, objects, bucket, answer, handler, faults>>
    BY <1>7 DEF UpdateExtractedText
  <2> HIDE DEF next
  <2> QED BY <1>4, <2>1, <2>2
<1> QED BY <1>2, <1>3, <1>6, <1>7 DEF Begin

\* A request that fails or ends after its last call.
LEMMA FailParts == ASSUME Parts, NEW r \in Requests, Fail(r) PROVE Parts'
<1>0. /\ docs' = docs /\ objects' = objects /\ bucket' = bucket /\ answer' = answer
      /\ handler' = handler /\ faults < MaxFaults /\ faults' = faults + 1 /\ Goto(r, Ended)
  BY DEF Fail
<1>1. Typed /\ Ids' = Ids /\ RequestRecord' = RequestRecord
  BY <1>0 DEF Parts, Ids, RequestRecord, Uploading, Storing, Saving
<1>2. request' \in [Requests -> RequestRecord]
  BY <1>0, <1>1 DEF Typed, Goto, RequestRecord
<1>3. \A p \in Requests : request'[p] = IF p = r THEN Ended ELSE request[p]
  BY <1>0, <1>1 DEF Typed, Goto
<1>4. faults \in Nat /\ faults' \in 0..MaxFaults
  BY <1>0, <1>1, DocumentsAssumption DEF Typed
<1>5. Typed'
  BY <1>0, <1>1, <1>2, <1>4 DEF Typed
<1>6. \A p \in Requests : Fits(p, request'[p])
  BY <1>3 DEF Parts, Fits, Ended
<1>7. \A p \in Requests : Fits(p, request[p])'
  BY <1>0, <1>1, <1>6 DEF Fits
<1>8. Orphans' \subseteq Orphans \union {r}
  BY <1>0, <1>1, <1>3 DEF Orphans, Typed
<1>9. Counted'
  BY <1>0, <1>4, <1>8, CountedGrows DEF Parts
<1>10. RowsHaveObjects' /\ StoredEncrypted' /\ HandlerFits' /\ AnswersBounded'
  BY <1>0, <1>1 DEF Parts, RowsHaveObjects, StoredEncrypted, HandlerFits, AnswersBounded
<1>11. PublishedOnce'
  BY <1>0, <1>3 DEF Parts, PublishedOnce, Ended
<1> QED BY <1>5, <1>7, <1>9, <1>10, <1>11 DEF Parts

LEMMA StoreParts == ASSUME Parts, NEW r \in Requests, StoreDocument(r) PROVE Parts'
<1> DEFINE q == request[r]
           row == [filename |-> q.file.filename, size |-> q.file.size, object |-> r,
                   version |-> q.version, text |-> "none", deleted |-> FALSE, archived |-> FALSE]
           next == [step |-> "insert", row |-> row]
<1>0. /\ docs' = docs /\ bucket' = bucket /\ answer' = answer /\ handler' = handler
      /\ faults' = faults /\ objects' = objects \union {r} /\ q.step = "put" /\ Goto(r, next)
  BY DEF StoreDocument
<1>1. Typed /\ Ids' = Ids /\ RequestRecord' = RequestRecord
  BY <1>0 DEF Parts, Ids, RequestRecord, Uploading, Storing, Saving
<1>2. row \in Row /\ row.object = r
  <2>1. q \in Uploading
    BY <1>0, <1>1 DEF Typed, RequestRecord, Storing, Saving, Idle, Ended
  <2>2. q.file \in File /\ q.version \in Nat \ {0}
    BY <1>0, <2>1 DEF Uploading
  <2> QED BY <2>2 DEF File, Row, Texts
<1> HIDE DEF row
<1>3. next \in RequestRecord /\ next.step = "insert" /\ next.row = row
  BY <1>2 DEF RequestRecord, Storing
<1> HIDE DEF next
<1>4. request' \in [Requests -> RequestRecord]
  BY <1>0, <1>1, <1>3 DEF Typed, Goto
<1>5. \A p \in Requests : request'[p] = IF p = r THEN next ELSE request[p]
  BY <1>0, <1>1 DEF Typed, Goto
<1>6. Typed'
  BY <1>0, <1>1, <1>4 DEF Typed
<1>7. bucket = "ready"
  BY <1>0 DEF Parts, Fits
<1>8. ASSUME NEW p \in Requests PROVE Fits(p, request[p])'
  <2>1. CASE p = r
    BY <1>0, <1>2, <1>3, <1>5, <2>1 DEF Fits
  <2>2. CASE p # r
    BY <1>0, <1>1, <1>5, <2>2 DEF Parts, Fits
  <2> QED BY <2>1, <2>2
<1>9. Orphans' \subseteq Orphans
  <2>1. next # Ended
    BY <1>3 DEF Ended
  <2> QED BY <1>0, <1>1, <1>5, <2>1 DEF Orphans, Typed
<1>10. Counted'
  BY <1>0, <1>1, <1>9, CountedStays, DocumentsAssumption DEF Parts, Typed
<1>11. RowsHaveObjects' /\ StoredEncrypted' /\ HandlerFits' /\ AnswersBounded'
  BY <1>0, <1>1, <1>7 DEF Parts, RowsHaveObjects, StoredEncrypted, HandlerFits, AnswersBounded
<1>12. PublishedOnce'
  BY <1>0, <1>3, <1>5 DEF Parts, PublishedOnce
<1> QED BY <1>6, <1>8, <1>10, <1>11, <1>12 DEF Parts

LEMMA InsertParts == ASSUME Parts, NEW r \in Requests, InsertDocument(r) PROVE Parts'
<1> DEFINE row == request[r].row
           n == Len(docs) + 1
           next == [step |-> "publish", doc |-> n]
<1>0. /\ request[r].step = "insert" /\ Len(docs) < MaxDocs
      /\ docs' = Append(docs, row) /\ Goto(r, next) /\ objects' = objects /\ bucket' = bucket
      /\ answer' = answer /\ handler' = handler /\ faults' = faults
  BY DEF InsertDocument
<1>1. Typed /\ Len(docs) \in Nat /\ docs \in Seq(Row)
  BY RowsAreRows DEF Parts, Typed
<1>2. row \in Row /\ row.object \in objects /\ (r \in objects => row.object = r)
  <2>1. request[r] \in Storing
    BY <1>0, <1>1 DEF Typed, RequestRecord, Uploading, Saving, Idle, Ended
  <2>2. row \in Row
    BY <1>0, <2>1 DEF Storing
  <2> QED BY <1>0, <2>2 DEF Parts, Fits
<1> HIDE DEF row
<1>3. /\ docs' \in Seq(Row) /\ Len(docs') = n
      /\ \A d \in 1..n : docs'[d] = IF d = n THEN row ELSE docs[d]
  <2>1. docs' \in Seq(Row) /\ Len(docs') = n
    BY <1>0, <1>1, <1>2
  <2>2. \A d \in 1..Len(docs) : docs'[d] = docs[d]
    BY <1>0, <1>1, <1>2
  <2>3. docs'[n] = row
    BY <1>0, <1>1, <1>2
  <2> QED BY <1>1, <2>1, <2>2, <2>3
<1>4. /\ Ids = 1..Len(docs) /\ Ids' = 1..n /\ n \in Ids' /\ n \in 1..MaxDocs /\ n \notin Ids
      /\ Ids \subseteq Ids' /\ \A d \in Ids : d # n
  BY <1>0, <1>1, <1>3, DocumentsAssumption DEF Ids
<1>5. /\ RequestRecord \subseteq RequestRecord'
      /\ [doc : Ids, next : Row] \subseteq [doc : Ids', next : Row]
  BY <1>1, <1>3, RecordsKept
<1>6. \A d \in Ids : docs'[d] = docs[d]
  BY <1>3, <1>4
<1>7. docs'[n] = row
  BY <1>3, <1>4
<1>8. n \in Nat /\ n <= MaxDocs
  BY <1>0, <1>1, DocumentsAssumption
<1> HIDE DEF n
<1>9. next \in RequestRecord' /\ next.step = "publish" /\ next.doc = n
  BY <1>4 DEF RequestRecord, Saving
<1> HIDE DEF next
<1>10. request' \in [Requests -> RequestRecord']
  BY <1>0, <1>1, <1>5, <1>9 DEF Typed, Goto
<1>11. \A p \in Requests : request'[p] = IF p = r THEN next ELSE request[p]
  BY <1>0, <1>1 DEF Typed, Goto
<1>12. Typed'
  BY <1>0, <1>1, <1>3, <1>5, <1>8, <1>10 DEF Typed
<1>13. \A p \in Requests : request[p].step = "publish" => request[p].doc \in Ids
  BY <1>1 DEF Typed, RequestRecord, Uploading, Storing, Saving, Idle, Ended
<1>14. \A p \in Requests : request[p].step = "save" => request[p].doc \in Ids
  BY <1>1 DEF Typed, RequestRecord, Uploading, Storing, Saving, Idle, Ended
<1>15. ASSUME NEW p \in Requests PROVE Fits(p, request[p])'
  <2>1. CASE p = r
    BY <1>0, <1>2, <1>4, <1>7, <1>9, <1>11, <2>1 DEF Fits
  <2>2. CASE p # r
    BY <1>0, <1>4, <1>6, <1>11, <1>14, <2>2 DEF Parts, Fits
  <2> QED BY <2>1, <2>2
<1>16. Orphans' \subseteq Orphans
  <2>1. next # Ended
    BY <1>9 DEF Ended
  <2> QED BY <1>0, <1>1, <1>4, <1>6, <1>11, <2>1 DEF Orphans, Typed
<1>17. Counted'
  BY <1>0, <1>1, <1>16, CountedStays, DocumentsAssumption DEF Parts, Typed
<1>18. RowsHaveObjects'
  <2>1. \A d \in Ids' : d \in Ids \/ d = n
    BY <1>1, <1>3, <1>4 DEF n
  <2> QED BY <1>0, <1>2, <1>6, <1>7, <2>1 DEF Parts, RowsHaveObjects
<1>19. StoredEncrypted' /\ AnswersBounded'
  BY <1>0, <1>4 DEF Parts, StoredEncrypted, AnswersBounded
<1>20. HandlerFits'
  BY <1>0, <1>1, <1>6 DEF Parts, HandlerFits, Typed
<1>21. PublishedOnce'
  <2>1. answer[n].state = "unsent"
    BY <1>4 DEF Parts, AnswersBounded
  <2>2. \A p \in Requests : request[p].step = "publish" => request[p].doc # n
    BY <1>4, <1>13
  <2> QED BY <1>0, <1>9, <1>11, <2>1, <2>2 DEF Parts, PublishedOnce
<1> QED BY <1>12, <1>15, <1>17, <1>18, <1>19, <1>20, <1>21 DEF Parts

LEMMA PublishParts == ASSUME Parts, NEW r \in Requests, PublishDocumentPreprocess(r) PROVE Parts'
<1> DEFINE n == request[r].doc
<1>0. /\ request[r].step = "publish" /\ docs' = docs /\ objects' = objects /\ bucket' = bucket
      /\ handler' = handler /\ faults' = faults /\ Goto(r, Ended)
      /\ answer' = [answer EXCEPT ![n].state = "sent"]
  BY DEF PublishDocumentPreprocess
<1>1. Typed /\ Ids' = Ids /\ RequestRecord' = RequestRecord
  BY <1>0 DEF Parts, Ids, RequestRecord, Uploading, Storing, Saving
<1>2. n \in Ids /\ Ids \subseteq 1..MaxDocs
  <2>1. n \in Ids
    BY <1>0, <1>1 DEF Typed, RequestRecord, Uploading, Storing, Saving, Idle, Ended
  <2>2. Len(docs) \in Nat /\ Len(docs) <= MaxDocs
    BY <1>1, RowsAreRows DEF Typed
  <2> QED BY <2>1, <2>2, DocumentsAssumption DEF Ids
<1>3. answer[n].state = "unsent" /\ \A p \in Requests :
          request[p].step = "publish" /\ request[p].doc = n => p = r
  BY <1>0 DEF Parts, PublishedOnce
<1> HIDE DEF n
<1>4. answer[n] \in Answer /\ answer[n].count = 0
  BY <1>1, <1>2, <1>3 DEF Parts, Typed, AnswersBounded
<1>5. [answer[n] EXCEPT !.state = "sent"] \in Answer /\ [answer[n] EXCEPT !.state = "sent"].count = 0
  BY <1>4 DEF Answer
<1>6. /\ answer' \in [1..MaxDocs -> Answer]
      /\ \A d \in 1..MaxDocs : answer'[d] = IF d = n THEN [answer[n] EXCEPT !.state = "sent"]
                                                  ELSE answer[d]
  BY <1>0, <1>1, <1>2, <1>5 DEF Typed
<1>7. request' \in [Requests -> RequestRecord] /\ Ended \in RequestRecord
      /\ \A p \in Requests : request'[p] = IF p = r THEN Ended ELSE request[p]
  BY <1>0, <1>1 DEF Typed, Goto, RequestRecord
<1>8. Typed'
  BY <1>0, <1>1, <1>6, <1>7 DEF Typed
<1>9. \A p \in Requests : Fits(p, request[p])'
  BY <1>0, <1>1, <1>7 DEF Parts, Fits, Ended
<1>10. r \in objects => \E d \in Ids : docs[d].object = r
  BY <1>0 DEF Parts, Fits
<1>11. Orphans' \subseteq Orphans
  BY <1>0, <1>1, <1>7, <1>10 DEF Orphans, Typed
<1>12. Counted'
  BY <1>0, <1>1, <1>11, CountedStays, DocumentsAssumption DEF Parts, Typed
<1>13. RowsHaveObjects' /\ StoredEncrypted' /\ HandlerFits'
  BY <1>0, <1>1 DEF Parts, RowsHaveObjects, StoredEncrypted, HandlerFits
<1>14. AnswersBounded'
  <2>1. answer'[n].state = "sent" /\ answer'[n].count = 0
    BY <1>2, <1>4, <1>5, <1>6 DEF Answer
  <2>2. handler.doc # n
    BY <1>2, <1>3 DEF Parts, AnswersBounded
  <2> QED BY <1>0, <1>1, <1>2, <1>6, <2>1, <2>2 DEF Parts, AnswersBounded
<1>15. PublishedOnce'
  <2>1. \A p \in Requests : request[p].step = "publish" => request[p].doc \in Ids
    BY <1>1 DEF Typed, RequestRecord, Uploading, Storing, Saving, Idle, Ended
  <2>2. \A p \in Requests : request[p].step = "publish" => request[p].doc \in 1..MaxDocs
    BY <1>2, <2>1
  <2> QED BY <1>0, <1>3, <1>6, <1>7, <2>2 DEF Parts, PublishedOnce, Ended
<1> QED BY <1>8, <1>9, <1>12, <1>13, <1>14, <1>15 DEF Parts

\* Steps that replace rows by rows with the same object, or touch the bucket,
\* the delivery of a result or the counter of failures.
LEMMA RowsKeepObjects ==
    ASSUME Parts, docs' \in Seq(Row), Len(docs') = Len(docs),
           \A d \in Ids : docs'[d].object = docs[d].object,
           UNCHANGED objects, bucket' \in Promises, bucket = "ready" => bucket' = "ready",
           request' \in [Requests -> RequestRecord],
           \A p \in Requests : request'[p] = request[p] \/ (request'[p] = Ended /\ p \notin objects),
           handler' = NoDelivery \/ handler' \in [doc : Ids, next : Row], HandlerFits',
           answer' \in [1..MaxDocs -> Answer], AnswersBounded',
           \A d \in 1..MaxDocs : answer[d].state = "unsent" => answer'[d].state = "unsent",
           faults' \in 0..MaxFaults, faults <= faults'
    PROVE  Parts'
<1>1. Ids' = Ids /\ RequestRecord' = RequestRecord /\ Typed
  BY DEF Parts, Ids, RequestRecord, Uploading, Storing, Saving
<1>2. Typed'
  BY <1>1 DEF Typed
<1>3. /\ \A p \in Requests : request[p].step \in {"publish", "save"} => request[p].doc \in Ids
      /\ \A p \in Requests : request[p].step = "publish" => request[p].doc \in 1..MaxDocs
  <2>1. \A p \in Requests : request[p].step \in {"publish", "save"} => request[p].doc \in Ids
    BY <1>1 DEF Typed, RequestRecord, Uploading, Storing, Saving, Idle, Ended
  <2>2. Len(docs) \in Nat /\ Len(docs) <= MaxDocs
    BY <1>1, RowsAreRows DEF Typed
  <2>3. Ids \subseteq 1..MaxDocs
    BY <2>2, DocumentsAssumption DEF Ids
  <2> QED BY <2>1, <2>3
<1>4. ASSUME NEW p \in Requests PROVE Fits(p, request[p])'
  <2>1. CASE request'[p] = request[p]
    BY <1>1, <1>3, <2>1 DEF Parts, Fits
  <2>2. CASE request'[p] = Ended
    BY <2>2 DEF Fits, Ended
  <2> QED BY <2>1, <2>2
<1>5. Orphans' \subseteq Orphans
  BY <1>1 DEF Orphans, Typed
<1>6. Counted'
  BY <1>1, <1>5, CountedStays, DocumentsAssumption DEF Parts, Typed
<1>7. RowsHaveObjects' /\ StoredEncrypted'
  BY <1>1 DEF Parts, RowsHaveObjects, StoredEncrypted
<1>8. PublishedOnce'
  BY <1>3 DEF Parts, PublishedOnce, Ended
<1> QED BY <1>2, <1>4, <1>6, <1>7, <1>8 DEF Parts

LEMMA ReplaceRow ==
    ASSUME docs \in Seq(Row), NEW d \in Ids, NEW row \in Row, row.object = docs[d].object,
           docs' = [docs EXCEPT ![d] = row]
    PROVE  /\ docs' \in Seq(Row) /\ Len(docs') = Len(docs)
           /\ \A e \in Ids : docs'[e].object = docs[e].object
<1>1. /\ Len(docs) \in Nat /\ Ids = 1..Len(docs) /\ DOMAIN docs = 1..Len(docs)
  BY RowsAreRows
<1>2. docs' \in Seq(Row) /\ Len(docs') = Len(docs)
  BY <1>1
<1>3. \A e \in Ids : docs'[e] = IF e = d THEN row ELSE docs[e]
  BY <1>1
<1> QED BY <1>2, <1>3

\* What RowsKeepObjects asks for, when the delivery of results is untouched.
LEMMA ResultsStay ==
    ASSUME Parts, UNCHANGED <<answer, handler>>, Len(docs') = Len(docs),
           \A d \in Ids : docs'[d].object = docs[d].object
    PROVE  /\ handler' = NoDelivery \/ handler' \in [doc : Ids, next : Row]
           /\ HandlerFits' /\ AnswersBounded' /\ answer' \in [1..MaxDocs -> Answer]
           /\ \A d \in 1..MaxDocs : answer[d].state = "unsent" => answer'[d].state = "unsent"
<1>1. handler = NoDelivery \/ handler \in [doc : Ids, next : Row]
  BY DEF Parts, Typed
<1>2. Ids' = Ids
  BY DEF Ids
<1>3. HandlerFits'
  BY <1>1 DEF Parts, HandlerFits
<1>4. AnswersBounded'
  BY <1>2 DEF Parts, AnswersBounded
<1> QED BY <1>1, <1>3, <1>4 DEF Parts, Typed

LEMMA RequestsStay ==
    ASSUME Typed, NEW r \in Requests, UNCHANGED request \/ (Goto(r, Ended) /\ r \notin objects)
    PROVE  /\ request' \in [Requests -> RequestRecord]
           /\ \A p \in Requests : request'[p] = request[p] \/ (request'[p] = Ended /\ p \notin objects)
<1>1. Ended \in RequestRecord /\ request \in [Requests -> RequestRecord]
  BY DEF RequestRecord, Typed
<1> QED BY <1>1 DEF Goto

LEMMA SameRows ==
    ASSUME Typed, UNCHANGED docs
    PROVE  docs' \in Seq(Row) /\ Len(docs') = Len(docs) /\ \A d \in Ids : docs'[d].object = docs[d].object
BY DEF Typed

LEMMA SameFaults ==
    ASSUME Typed, UNCHANGED faults \/ (faults < MaxFaults /\ faults' = faults + 1)
    PROVE  faults' \in 0..MaxFaults /\ faults <= faults'
BY DocumentsAssumption DEF Typed

\* A request goes on with its next call, or ends.
LEMMA AdvanceParts == ASSUME Parts, NEW r \in Requests, Advance(r) PROVE Parts'
<1> DEFINE q == request[r]
<1>0. Typed /\ Fits(r, q) /\ q \in RequestRecord /\ Ended \in RequestRecord
      /\ docs \in Seq(Row) /\ faults \in 0..MaxFaults
  BY DEF Parts, Typed, RequestRecord
<1>1. Fits(r, Ended) /\ Ended.step # "publish"
  BY DEF Fits, Ended
<1>2. CASE CheckSessionBytes(r)
  <2>1. /\ q.step = "sum" /\ UNCHANGED <<docs, objects, bucket, answer, handler, faults>>
        /\ Goto(r, Ended) \/ Goto(r, [q EXCEPT !.step = "number"])
    BY <1>2 DEF CheckSessionBytes
  <2>2. r \notin objects /\ q \in [step : {"sum", "number"}, file : File, version : {0}]
    BY <1>0, <2>1 DEF Fits, RequestRecord, Uploading, Storing, Saving, Idle, Ended
  <2>3. [q EXCEPT !.step = "number"] \in Uploading /\ [q EXCEPT !.step = "number"].step = "number"
    BY <2>2 DEF Uploading
  <2>4. [q EXCEPT !.step = "number"] \in RequestRecord /\ Fits(r, [q EXCEPT !.step = "number"])
    BY <2>2, <2>3 DEF RequestRecord, Fits
  <2> QED BY <1>0, <1>1, <2>1, <2>2, <2>3, <2>4, MovesOn DEF Typed
<1>3. CASE NumberUpload(r)
  <2> DEFINE v == GetNextDocumentVersion(q.file.filename)
             next == [q EXCEPT !.step = "setup", !.version = v]
  <2>1. /\ q.step = "number" /\ UNCHANGED <<docs, objects, bucket, answer, handler, faults>>
        /\ Goto(r, next)
    BY <1>3 DEF NumberUpload
  <2>2. r \notin objects /\ q \in [step : {"sum", "number"}, file : File, version : {0}]
    BY <1>0, <2>1 DEF Fits, RequestRecord, Uploading, Storing, Saving, Idle, Ended
  <2>3. v \in Nat \ {0}
    BY <1>0, NextVersionType
  <2> HIDE DEF v
  <2>4. next \in Uploading /\ next.step = "setup"
    BY <2>2, <2>3 DEF Uploading
  <2> HIDE DEF next
  <2>5. next \in RequestRecord /\ Fits(r, next) /\ next # Ended
    BY <2>2, <2>4 DEF RequestRecord, Fits, Ended
  <2> QED BY <1>0, <2>1, <2>2, <2>4, <2>5, MovesOn DEF Typed
<1>4. CASE EnsureBucketReady(r)
  <2>1. q.step = "setup" /\ UNCHANGED <<docs, objects, answer, handler, faults>>
    BY <1>4 DEF EnsureBucketReady
  <2>2. r \notin objects /\ q \in [step : {"setup", "put"}, file : File, version : Nat \ {0}]
    BY <1>0, <2>1 DEF Fits, RequestRecord, Uploading, Storing, Saving, Idle, Ended
  <2>3. CASE bucket = "unset" /\ bucket' = "pending" /\ UNCHANGED request
    BY <1>0, <2>1, <2>3, SameFaults, SameRows, ResultsStay, RequestsStay, RowsKeepObjects DEF Promises
  <2>4. CASE bucket = "ready" /\ Goto(r, [q EXCEPT !.step = "put"]) /\ UNCHANGED bucket
    <3> DEFINE next == [q EXCEPT !.step = "put"]
    <3>1. next \in Uploading /\ next.step = "put"
      BY <2>2 DEF Uploading
    <3>2. Goto(r, next)
      BY <2>4
    <3> HIDE DEF next
    <3>3. next \in RequestRecord /\ Fits(r, next) /\ next # Ended
      BY <2>2, <2>4, <3>1 DEF RequestRecord, Fits, Ended
    <3> QED BY <1>0, <2>1, <2>4, <3>1, <3>2, <3>3, MovesOn DEF Typed
  <2>5. CASE bucket = "rejected" /\ Goto(r, Ended) /\ UNCHANGED bucket
    BY <1>0, <1>1, <2>1, <2>2, <2>5, MovesOn DEF Typed
  <2> QED BY <1>4, <2>3, <2>4, <2>5 DEF EnsureBucketReady
<1>5. CASE NumberReprocess(r)
  <2> DEFINE of == q.of
             v == GetNextDocumentVersion(of.filename)
             row == [of EXCEPT !.version = v, !.text = "none", !.archived = FALSE]
             next == [step |-> "insert", row |-> row]
  <2>1. /\ q.step = "renumber" /\ UNCHANGED <<docs, objects, bucket, answer, handler, faults>>
        /\ Goto(r, next)
    BY <1>5 DEF NumberReprocess
  <2>2. r \notin objects /\ of.object \in objects /\ of \in Row
    BY <1>0, <2>1 DEF Fits, RequestRecord, Uploading, Storing, Saving, Idle, Ended
  <2>3. v \in Nat \ {0}
    BY <1>0, NextVersionType
  <2> HIDE DEF v, of
  <2>4. row \in Row /\ row.object = of.object
    BY <2>2, <2>3 DEF Row, Texts
  <2> HIDE DEF row
  <2>5. next \in RequestRecord /\ Fits(r, next) /\ next # Ended /\ next.step = "insert"
    BY <2>2, <2>4 DEF RequestRecord, Storing, Fits, Ended
  <2> HIDE DEF next
  <2> QED BY <1>0, <2>1, <2>2, <2>5, MovesOn DEF Typed
<1>6. CASE SaveDocument(r)
  <2>1. /\ q.step = "save" /\ docs' = [docs EXCEPT ![q.doc] = q.next] /\ Goto(r, Ended)
        /\ UNCHANGED <<objects, bucket, answer, handler, faults>>
    BY <1>6 DEF SaveDocument
  <2>2. /\ r \notin objects /\ q.next \in Row /\ q.doc \in Ids
        /\ q.next.object = docs[q.doc].object
    BY <1>0, <2>1 DEF Fits, RequestRecord, Uploading, Storing, Saving, Idle, Ended
  <2> QED BY <1>0, <2>1, <2>2, ReplaceRow, SameFaults, ResultsStay, RequestsStay, RowsKeepObjects DEF Typed
<1> QED BY <1>2, <1>3, <1>4, <1>5, <1>6, StoreParts, InsertParts, PublishParts DEF Advance

-----------------------------------------------------------------------------
(* The bucket, the archive and the results                                 *)

LEMMA BucketParts == ASSUME Parts, BucketCreated \/ BucketFails PROVE Parts'
<1>1. Typed /\ UNCHANGED <<docs, objects, request, answer, handler>>
      /\ bucket = "pending" /\ bucket' \in Promises
      /\ (UNCHANGED faults \/ (faults < MaxFaults /\ faults' = faults + 1))
  BY DEF Parts, BucketCreated, BucketFails, Promises
<1>2. request' \in [Requests -> RequestRecord] /\ \A p \in Requests : request'[p] = request[p]
  BY <1>1 DEF Typed
<1> QED BY <1>1, <1>2, SameRows, SameFaults, ResultsStay, RowsKeepObjects

LEMMA ArchiveParts == ASSUME Parts, ArchiveSession PROVE Parts'
<1>1. /\ docs' = [d \in Ids |-> [docs[d] EXCEPT !.archived = TRUE]]
      /\ UNCHANGED <<objects, bucket, request, answer, handler, faults>>
  BY DEF ArchiveSession
<1>2. /\ Typed /\ Len(docs) \in Nat /\ Ids = 1..Len(docs)
      /\ \A d \in Ids : docs[d] \in Row
  BY RowsAreRows DEF Parts, Typed
<1>3. \A row \in Row : [row EXCEPT !.archived = TRUE] \in Row
                        /\ [row EXCEPT !.archived = TRUE].object = row.object
  BY DEF Row
<1>4. docs' \in [1..Len(docs) -> Row]
  BY <1>1, <1>2, <1>3
<1>5. docs' \in Seq(Row) /\ Len(docs') = Len(docs)
  BY <1>2, <1>4
<1>6. \A d \in Ids : docs'[d].object = docs[d].object
  BY <1>1, <1>2, <1>3
<1>7. request' \in [Requests -> RequestRecord] /\ \A p \in Requests : request'[p] = request[p]
  BY <1>1, <1>2 DEF Typed
<1>8. bucket' \in Promises
  BY <1>1, <1>2 DEF Typed
<1> QED BY <1>1, <1>2, <1>5, <1>6, <1>7, <1>8, SameFaults, ResultsStay, RowsKeepObjects

LEMMA AnswerType ==
    ASSUME Typed, NEW d \in Ids, NEW a \in Answer, answer' = [answer EXCEPT ![d] = a]
    PROVE  /\ answer' \in [1..MaxDocs -> Answer] /\ d \in 1..MaxDocs
           /\ \A e \in 1..MaxDocs : answer'[e] = IF e = d THEN a ELSE answer[e]
<1>1. Len(docs) \in Nat /\ Len(docs) <= MaxDocs
  BY RowsAreRows DEF Typed
<1>2. d \in 1..MaxDocs
  BY <1>1, DocumentsAssumption DEF Ids
<1> QED BY <1>2 DEF Typed

\* A result of d comes to a new state and count.
LEMMA AnswerStep ==
    ASSUME Parts, NEW d \in Ids, NEW a \in Answer, answer' = [answer EXCEPT ![d] = a],
           docs' \in Seq(Row), Len(docs') = Len(docs),
           \A e \in Ids : docs'[e].object = docs[e].object,
           UNCHANGED <<objects, bucket, request>>,
           UNCHANGED faults \/ (faults < MaxFaults /\ faults' = faults + 1),
           answer[d].state # "unsent", a.state # "unsent", a.state = "sent" => a.count = 0,
           a.state = "due" /\ handler'.doc # d => a.count < MaxDeliver,
           handler'.doc = d => a.state = "due",
           \A e \in 1..MaxDocs : e # d => (handler'.doc = e <=> handler.doc = e),
           handler' = NoDelivery \/ handler' \in [doc : Ids, next : Row], HandlerFits'
    PROVE  Parts'
<1>1. /\ answer' \in [1..MaxDocs -> Answer] /\ d \in 1..MaxDocs
      /\ \A e \in 1..MaxDocs : answer'[e] = IF e = d THEN a ELSE answer[e]
  BY AnswerType DEF Parts
<1>2. Ids' = Ids /\ Typed
  BY DEF Ids, Parts
<1>3. ASSUME NEW e \in 1..MaxDocs
      PROVE  /\ answer'[e].state \in {"unsent", "sent"} => answer'[e].count = 0
             /\ answer'[e].state = "due" /\ handler'.doc # e => answer'[e].count < MaxDeliver
             /\ handler'.doc = e => answer'[e].state = "due"
             /\ e \notin Ids => answer'[e].state = "unsent"
  <2>1. CASE e = d
    BY <1>1, <2>1
  <2>2. CASE e # d
    BY <1>1, <2>2 DEF Parts, AnswersBounded
  <2> QED BY <2>1, <2>2
<1>4. AnswersBounded'
  BY <1>2, <1>3 DEF AnswersBounded
<1>5. \A e \in 1..MaxDocs : answer[e].state = "unsent" => answer'[e].state = "unsent"
  BY <1>1
<1>6. /\ request' \in [Requests -> RequestRecord] /\ \A p \in Requests : request'[p] = request[p]
      /\ bucket' \in Promises
  BY <1>2 DEF Typed
<1> QED BY <1>1, <1>2, <1>4, <1>5, <1>6, SameFaults, RowsKeepObjects

LEMMA ResultsParts == ASSUME Parts, Results PROVE Parts'
<1>0. /\ Typed /\ docs \in Seq(Row) /\ AnswersBounded /\ HandlerFits
      /\ \A d \in Ids : docs[d] \in Row
      /\ handler = NoDelivery \/ handler \in [doc : Ids, next : Row]
  BY RowsAreRows DEF Parts, Typed
<1>1. ASSUME NEW d \in Ids
      PROVE  /\ d \in 1..MaxDocs /\ d # 0 /\ answer[d] \in Answer
             /\ \A s \in {"due", "acked", "dropped"} :
                   [answer[d] EXCEPT !.state = s] \in Answer
  <2>1. Len(docs) \in Nat /\ Len(docs) <= MaxDocs
    BY <1>0, RowsAreRows DEF Typed
  <2>2. d \in 1..MaxDocs /\ d # 0
    BY <2>1, DocumentsAssumption DEF Ids
  <2>3. answer[d] \in Answer
    BY <1>0, <2>2 DEF Typed
  <2> QED BY <2>2, <2>3 DEF Answer
<1>2. ASSUME NEW d \in Ids, Preprocess(d) PROVE Parts'
  <2> DEFINE a == [answer[d] EXCEPT !.state = "due"]
  <2>1. /\ answer[d].state = "sent" /\ answer' = [answer EXCEPT ![d] = a]
        /\ UNCHANGED <<docs, objects, bucket, request, handler, faults>>
    BY <1>2 DEF Preprocess
  <2>2. answer[d].count = 0 /\ a \in Answer
    BY <1>0, <1>1, <2>1 DEF AnswersBounded
  <2>3. a.state = "due" /\ a.count = 0
    BY <1>1, <2>2 DEF Answer
  <2>4. 0 < MaxDeliver
    BY DocumentsAssumption
  <2>5. HandlerFits'
    BY <1>0, <2>1 DEF HandlerFits
  <2> HIDE DEF a
  <2> QED BY <1>0, <2>1, <2>2, <2>3, <2>4, <2>5, SameRows, AnswerStep
<1>3. ASSUME NEW d \in Ids, LoadForResult(d) PROVE Parts'
  <2>1. /\ answer[d].state = "due" /\ handler = NoDelivery
        /\ UNCHANGED <<docs, objects, bucket, request, faults>>
    BY <1>3 DEF LoadForResult
  <2>2. handler.doc # d /\ \A e \in 1..MaxDocs : handler.doc # e
    <3>1. handler.doc = 0 /\ \A e \in 1..MaxDocs : e # 0
      BY <2>1, DocumentsAssumption DEF NoDelivery
    <3> QED BY <1>1, <3>1
  <2>3. answer[d].count < MaxDeliver
    BY <1>0, <1>1, <2>1, <2>2 DEF AnswersBounded
  <2>4. CASE answer' = [answer EXCEPT ![d].state = "acked"] /\ UNCHANGED handler
    <3> DEFINE a == [answer[d] EXCEPT !.state = "acked"]
    <3>1. a \in Answer /\ a.state = "acked"
      BY <1>1 DEF Answer
    <3>2. answer' = [answer EXCEPT ![d] = a]
      BY <2>4
    <3>3. HandlerFits'
      BY <2>1, <2>4 DEF HandlerFits
    <3>4. handler'.doc # d
      BY <2>2, <2>4
    <3> HIDE DEF a
    <3> QED BY <1>0, <2>1, <2>4, <3>1, <3>2, <3>3, <3>4, SameRows, AnswerStep
  <2>5. CASE /\ answer' = [answer EXCEPT ![d].count = @ + 1]
             /\ handler' = [doc |-> d, next |-> [docs[d] EXCEPT !.text = "extracted"]]
    <3> DEFINE a == [answer[d] EXCEPT !.count = @ + 1]
               next == [docs[d] EXCEPT !.text = "extracted"]
    <3>1. a \in Answer /\ a.state = "due"
      <4>1. answer[d].count \in 0..MaxDeliver
        BY <1>1 DEF Answer
      <4>2. answer[d].count + 1 \in 0..MaxDeliver
        BY <2>3, <4>1, DocumentsAssumption
      <4> DEFINE c == answer[d].count + 1
      <4>3. a = [answer[d] EXCEPT !.count = c]
        OBVIOUS
      <4> HIDE DEF a, c
      <4>4. c \in 0..MaxDeliver
        BY <4>2 DEF c
      <4> QED BY <1>1, <2>1, <4>3, <4>4 DEF Answer
    <3>2. answer' = [answer EXCEPT ![d] = a]
      BY <2>5
    <3>3. next \in Row /\ next.object = docs[d].object
      BY <1>0 DEF Row, Texts
    <3>4. handler' = [doc |-> d, next |-> next]
      BY <2>5
    <3> HIDE DEF a, next
    <3>5. handler'.doc = d /\ handler' \in [doc : Ids, next : Row]
      BY <3>3, <3>4
    <3>6. HandlerFits'
      BY <2>1, <3>3, <3>4 DEF HandlerFits
    <3> QED BY <1>0, <2>1, <2>2, <3>1, <3>2, <3>5, <3>6, SameRows, AnswerStep
  <2> QED BY <1>3, <2>4, <2>5 DEF LoadForResult
<1>4. ASSUME handler # NoDelivery
      PROVE  /\ handler.doc \in Ids /\ handler.next \in Row
             /\ handler.next.object = docs[handler.doc].object
  BY <1>0, <1>4 DEF HandlerFits
<1>5. NoDelivery.doc = 0 /\ \A e \in 1..MaxDocs : e # 0
  BY DocumentsAssumption DEF NoDelivery
<1>6. CASE SaveResult
  <2> DEFINE d == handler.doc
             a == [answer[d] EXCEPT !.state = "acked"]
  <2>1. /\ handler # NoDelivery /\ docs' = [docs EXCEPT ![d] = handler.next]
        /\ answer' = [answer EXCEPT ![d] = a] /\ handler' = NoDelivery
        /\ UNCHANGED <<objects, bucket, request, faults>>
    BY <1>6 DEF SaveResult
  <2>2. /\ docs' \in Seq(Row) /\ Len(docs') = Len(docs)
        /\ \A e \in Ids : docs'[e].object = docs[e].object
    BY <1>0, <1>4, <2>1, ReplaceRow
  <2>3. d \in Ids /\ a \in Answer /\ a.state = "acked"
    BY <1>1, <1>4, <2>1 DEF Answer
  <2>4. HandlerFits'
    BY <2>1 DEF HandlerFits
  <2>5. answer[d].state = "due" /\ \A e \in 1..MaxDocs : e # d => handler.doc # e /\ handler'.doc # e
    BY <1>0, <1>1, <1>5, <2>1, <2>3 DEF AnswersBounded
  <2>6. handler'.doc # d
    BY <1>1, <2>1, <2>3 DEF NoDelivery
  <2> HIDE DEF a
  <2> QED BY <2>1, <2>2, <2>3, <2>4, <2>5, <2>6, AnswerStep
<1>7. CASE ResultFails
  <2> DEFINE d == handler.doc
             s == IF answer[d].count < MaxDeliver THEN "due" ELSE "dropped"
             a == [answer[d] EXCEPT !.state = s]
  <2>1. /\ handler # NoDelivery /\ answer' = [answer EXCEPT ![d] = a] /\ handler' = NoDelivery
        /\ faults < MaxFaults /\ faults' = faults + 1
        /\ UNCHANGED <<docs, objects, bucket, request>>
    BY <1>7 DEF ResultFails
  <2>2. d \in Ids
    BY <1>4, <2>1
  <2>3. s \in {"due", "dropped"} /\ (s = "due" => answer[d].count < MaxDeliver)
    OBVIOUS
  <2> HIDE DEF s
  <2>4. a \in Answer /\ a.state = s /\ a.count = answer[d].count
    BY <1>1, <2>2, <2>3 DEF Answer
  <2>5. answer[d].state = "due" /\ \A e \in 1..MaxDocs : e # d => handler.doc # e /\ handler'.doc # e
    BY <1>0, <1>1, <1>5, <2>1, <2>2 DEF AnswersBounded
  <2>6. handler'.doc # d /\ HandlerFits'
    BY <1>1, <2>1, <2>2 DEF NoDelivery, HandlerFits
  <2> HIDE DEF a
  <2> QED BY <1>0, <2>1, <2>2, <2>3, <2>4, <2>5, <2>6, SameRows, AnswerStep
<1>8. CASE SaveResultLate
  <2> DEFINE d == handler.doc
  <2>1. /\ handler # NoDelivery /\ docs' = [docs EXCEPT ![d] = handler.next]
        /\ faults < MaxFaults /\ faults' = faults + 1 /\ answer[d].count < MaxDeliver
        /\ handler' = NoDelivery /\ UNCHANGED <<objects, bucket, request, answer>>
    BY <1>8 DEF SaveResultLate
  <2>2. /\ docs' \in Seq(Row) /\ Len(docs') = Len(docs)
        /\ \A e \in Ids : docs'[e].object = docs[e].object
    BY <1>0, <1>4, <2>1, ReplaceRow
  <2>3. d \in Ids /\ answer[d] \in Answer /\ d \in 1..MaxDocs
    BY <1>1, <1>4, <2>1
  <2>4. answer' = [answer EXCEPT ![d] = answer[d]]
    BY <1>0, <2>1, <2>3 DEF Typed
  <2>5. answer[d].state = "due" /\ \A e \in 1..MaxDocs : e # d => handler.doc # e /\ handler'.doc # e
    BY <1>0, <1>1, <1>5, <2>1, <2>3 DEF AnswersBounded
  <2>6. handler'.doc # d /\ HandlerFits'
    BY <1>1, <2>1, <2>3 DEF NoDelivery, HandlerFits
  <2> QED BY <2>1, <2>2, <2>3, <2>4, <2>5, <2>6, AnswerStep
<1> QED BY <1>2, <1>3, <1>6, <1>7, <1>8 DEF Results

LEMMA StutterParts == ASSUME Parts, UNCHANGED vars PROVE Parts'
<1>1. /\ Typed /\ UNCHANGED <<docs, objects, bucket, request, answer, handler, faults>>
      /\ bucket \in Promises /\ request \in [Requests -> RequestRecord]
  BY DEF Parts, Typed, vars
<1> QED BY <1>1, SameRows, SameFaults, ResultsStay, RowsKeepObjects

-----------------------------------------------------------------------------
\* The inductive invariant.  That rows have objects rests on the order of the
\* calls in uploadDocument, carried by CopiesNameObjects; that orphans are paid
\* for by failures, on a request that ends without one leaving none behind.
THEOREM Invariance == Spec => []FInv
<1>1. Init => FInv
  BY InitParts, InParts
<1>2. Parts /\ [Next]_vars => Parts'
  BY BeginParts, AdvanceParts, FailParts, BucketParts, ArchiveParts, ResultsParts, StutterParts
     DEF Next
<1>3. FInv /\ [Next]_vars => FInv'
  BY <1>2, InParts, PartsAfter
<1> QED BY <1>1, <1>3, PTL DEF Spec

\* No document row of any upload, reprocessing, correction or late result names
\* an object that is not in the encrypted bucket, and objects without a row
\* are at most as many as failures (DocumentsService, DocumentStorageService).
THEOREM StorageStaysConsistent == Spec => []StorageConsistent
<1>1. FInv => StorageConsistent
  BY DEF FInv, IInv
<1> QED BY <1>1, Invariance, PTL
-----------------------------------------------------------------------------
(* The sum of the sizes                                                    *)

\* The running sum of rows from the first to the n-th, as a function that
\* satisfies its recursion.
IsSum(f, rows, n) ==
    f = [k \in 0..n |-> IF k = 0 THEN 0 ELSE f[k - 1] + rows[k].size]

LEMMA SumStep ==
    ASSUME NEW rows, NEW n \in Nat, NEW f, IsSum(f, rows, n)
    PROVE  f[0] = 0 /\ \A k \in 1..n : f[k] = f[k - 1] + rows[k].size
<1>1. \A k \in 0..n : f[k] = IF k = 0 THEN 0 ELSE f[k - 1] + rows[k].size
  BY Zenon DEF IsSum
<1>2. \A k \in 1..n : k \in 0..n /\ k # 0
  OBVIOUS
<1> QED BY <1>1, <1>2

LEMMA SumExists == ASSUME NEW rows, NEW n \in Nat PROVE \E f : IsSum(f, rows, n)
<1> DEFINE Has(m) == \E f : IsSum(f, rows, m)
           T == {m \in 0..n : ~Has(m)}
<1>1. SUFFICES ASSUME T # {} PROVE FALSE
  <2>1. n \in 0..n
    OBVIOUS
  <2> QED BY <2>1
<1>2. PICK m \in T : \A k \in T : m <= k
  <2>1. T \subseteq 0..n
    OBVIOUS
  <2> HIDE DEF T
  <2>2. T \subseteq Nat
    BY <2>1
  <2> QED BY <1>1, <2>2, Least
<1>3. m \in 0..n /\ ~Has(m)
  OBVIOUS
<1>4. m # 0
  <2> DEFINE z == [k \in 0..0 |-> 0]
  <2>1. z = [k \in 0..0 |-> IF k = 0 THEN 0 ELSE z[k - 1] + rows[k].size]
    OBVIOUS
  <2> HIDE DEF z
  <2>2. IsSum(z, rows, 0)
    BY <2>1 DEF IsSum
  <2> QED BY <1>3, <2>2
<1>5. m - 1 \in 0..n /\ m - 1 \in Nat /\ ~(m <= m - 1)
  BY <1>3, <1>4
<1>6. m - 1 \notin T
  BY <1>2, <1>5
<1>7. PICK f : IsSum(f, rows, m - 1)
  BY <1>5, <1>6
<1> DEFINE g == [k \in 0..m |-> IF k = m THEN f[m - 1] + rows[m].size ELSE f[k]]
<1>8. \A k \in 0..m : g[k] = IF k = 0 THEN 0 ELSE g[k - 1] + rows[k].size
  <2>1. f[0] = 0 /\ \A k \in 1..(m - 1) : f[k] = f[k - 1] + rows[k].size
    BY <1>5, <1>7, SumStep
  <2>2. \A k \in 0..(m - 1) : g[k] = f[k]
    BY <1>3
  <2>3. g[m] = f[m - 1] + rows[m].size
    BY <1>3
  <2> HIDE DEF g
  <2>4. TAKE k \in 0..m
  <2>5. CASE k = 0
    BY <1>3, <1>4, <2>1, <2>2, <2>5
  <2>6. CASE k = m
    <3>1. m - 1 \in 0..(m - 1)
      BY <1>3, <1>4
    <3> QED BY <1>4, <2>2, <2>3, <2>6, <3>1
  <2>7. CASE k # 0 /\ k # m
    <3>1. k \in 1..(m - 1) /\ k \in 0..(m - 1) /\ k - 1 \in 0..(m - 1)
      BY <1>3, <2>7
    <3> QED BY <2>1, <2>2, <2>7, <3>1
  <2> QED BY <2>5, <2>6, <2>7
<1>9. g = [k \in 0..m |-> g[k]]
  OBVIOUS
<1> HIDE DEF g
<1>10. IsSum(g, rows, m)
  BY <1>8, <1>9 DEF IsSum
<1> QED BY <1>3, <1>10

SameSizes(rows, old, m) == \A k \in 1..m : rows[k].size = old[k].size

\* Two lists of sizes that agree have sums that agree.
LEMMA SumsAgree ==
    ASSUME NEW rows, NEW old, NEW m \in Nat, NEW n \in Nat, m <= n,
           NEW f, IsSum(f, old, m), NEW g, IsSum(g, rows, n), SameSizes(rows, old, m)
    PROVE  g[m] = f[m]
<1> DEFINE T == {k \in 0..m : g[k] # f[k]}
<1>1. SUFFICES ASSUME T # {} PROVE FALSE
  <2>1. m \in 0..m
    OBVIOUS
  <2> QED BY <2>1
<1>2. PICK k \in T : \A j \in T : k <= j
  <2>1. T \subseteq 0..m
    OBVIOUS
  <2> HIDE DEF T
  <2>2. T \subseteq Nat
    BY <2>1
  <2> QED BY <1>1, <2>2, Least
<1>3. f[0] = 0 /\ \A j \in 1..m : f[j] = f[j - 1] + old[j].size
  BY SumStep
<1>4. g[0] = 0 /\ \A j \in 1..n : g[j] = g[j - 1] + rows[j].size
  BY SumStep
<1>5. k # 0 /\ k \in 1..m /\ k \in 1..n /\ k - 1 \in 0..m /\ ~(k <= k - 1)
  BY <1>3, <1>4
<1>6. g[k - 1] = f[k - 1]
  BY <1>2, <1>5
<1> QED BY <1>3, <1>4, <1>5, <1>6 DEF SameSizes

LEMMA BytesAreASum ==
    ASSUME Len(docs) \in Nat
    PROVE  \E f : IsSum(f, docs, Len(docs)) /\ GetSessionDocumentBytes = f[Len(docs)]
<1> DEFINE f == CHOOSE f : IsSum(f, docs, Len(docs))
<1>1. IsSum(f, docs, Len(docs))
  BY SumExists
<1>2. GetSessionDocumentBytes = f[Len(docs)]
  BY DEF GetSessionDocumentBytes, IsSum
<1> QED BY <1>1, <1>2

LEMMA BytesAreASumAfter ==
    ASSUME Len(docs') \in Nat
    PROVE  \E f : IsSum(f, docs', Len(docs')) /\ GetSessionDocumentBytes' = f[Len(docs')]
<1> DEFINE rows == docs'
           f == CHOOSE f : IsSum(f, rows, Len(rows))
<1>1. IsSum(f, rows, Len(rows))
  BY SumExists
<1>2. GetSessionDocumentBytes' = f[Len(rows)]
  BY DEF GetSessionDocumentBytes, IsSum
<1> QED BY <1>1, <1>2

\* Rows that keep their sizes keep the sum, and one that is added counts.
LEMMA BytesKept ==
    ASSUME Len(docs) \in Nat, Len(docs') = Len(docs),
           \A d \in Ids : docs'[d].size = docs[d].size
    PROVE  GetSessionDocumentBytes' = GetSessionDocumentBytes
<1>1. PICK f : IsSum(f, docs, Len(docs)) /\ GetSessionDocumentBytes = f[Len(docs)]
  BY BytesAreASum
<1>2. PICK g : IsSum(g, docs', Len(docs')) /\ GetSessionDocumentBytes' = g[Len(docs')]
  BY BytesAreASumAfter
<1> DEFINE rows == docs'
<1>3. SameSizes(rows, docs, Len(docs))
  BY DEF Ids, SameSizes
<1>4. IsSum(g, rows, Len(docs)) /\ Len(docs) <= Len(docs)
  BY <1>2
<1> HIDE DEF rows
<1>5. g[Len(docs)] = f[Len(docs)]
  BY <1>1, <1>3, <1>4, SumsAgree
<1> QED BY <1>1, <1>2, <1>5

LEMMA BytesAdded ==
    ASSUME Len(docs) \in Nat, Len(docs') = Len(docs) + 1,
           \A d \in Ids : docs'[d].size = docs[d].size
    PROVE  GetSessionDocumentBytes' = GetSessionDocumentBytes + docs'[Len(docs) + 1].size
<1>1. PICK f : IsSum(f, docs, Len(docs)) /\ GetSessionDocumentBytes = f[Len(docs)]
  BY BytesAreASum
<1>2. PICK g : IsSum(g, docs', Len(docs')) /\ GetSessionDocumentBytes' = g[Len(docs')]
  BY BytesAreASumAfter
<1>3. PICK rows : rows = docs'
  OBVIOUS
<1>4. PICK m \in Nat : m = Len(docs)
  OBVIOUS
<1>5. PICK last \in Nat : last = m + 1
  OBVIOUS
<1>6. SameSizes(rows, docs, m)
  BY <1>3, <1>4 DEF Ids, SameSizes
<1>7. IsSum(f, docs, m) /\ IsSum(g, rows, last)
  BY <1>1, <1>2, <1>3, <1>4, <1>5
<1>8. m <= last /\ last \in 1..last /\ last - 1 = m
  BY <1>5
<1>9. g[m] = f[m]
  BY <1>6, <1>7, <1>8, SumsAgree
<1>10. g[last] = g[last - 1] + rows[last].size
  BY <1>7, <1>8, SumStep
<1>11. g[last] = f[m] + rows[last].size
  BY <1>8, <1>9, <1>10
<1> QED BY <1>1, <1>2, <1>3, <1>4, <1>5, <1>11

\* The next number of a name is beyond those its rows have.
LEMMA NextVersionIsBeyond ==
    ASSUME docs \in Seq(Row), NEW filename
    PROVE  Beyond(filename, GetNextDocumentVersion(filename))
<1> DEFINE V == {docs[d].version : d \in {i \in Ids : docs[i].filename = filename}} \union {0}
<1>1. V \subseteq Nat /\ V # {} /\ \E b \in Nat : \A x \in V : x <= b
  BY NumbersAreBounded
<1>2. GetNextDocumentVersion(filename) = Max(V) + 1
  BY DEF GetNextDocumentVersion
<1>3. ASSUME NEW d \in Ids, docs[d].filename = filename PROVE docs[d].version \in V
  BY <1>3
<1> HIDE DEF V
<1>4. Max(V) \in Nat /\ \A x \in V : x <= Max(V)
  BY <1>1, MaxIsNatural
<1>5. ASSUME NEW d \in Ids, docs[d].filename = filename
      PROVE  docs[d].version < GetNextDocumentVersion(filename)
  <2>1. docs[d].version \in V
    BY <1>3, <1>5
  <2>2. docs[d].version \in Nat /\ docs[d].version <= Max(V)
    BY <1>1, <1>4, <2>1
  <2> QED BY <1>2, <1>4, <2>2
<1> QED BY <1>5 DEF Beyond
-----------------------------------------------------------------------------
(* Copies of rows                                                          *)

\* The history after a step, as far as the copies go.
Remembers ==
    /\ raced \subseteq raced'
    /\ \A d \in Ids : Shared(d)' => d \in raced'
    /\ \A d \in Ids : Held(d)' /\ docs'[d].archived # docs[d].archived => d \in raced'

Copies == CopiesKeepTheFile /\ CopiesAreFresh

LEMMA RecordsType ==
    ASSUME Typed
    PROVE  /\ \A r \in Requests : request[r].step = "save" =>
                 request[r].doc \in Ids /\ request[r].next \in Row
           /\ \A r \in Requests : request[r].step \in {"number", "setup", "put"} =>
                 request[r] \in Uploading /\ request[r].file \in File
           /\ \A r \in Requests : request[r].step = "insert" => request[r].row \in Row
           /\ \A r \in Requests : request[r].step = "renumber" => request[r].of \in Row
           /\ handler # NoDelivery => handler.doc \in Ids /\ handler.next \in Row
           /\ handler.doc \in Ids => handler # NoDelivery
           /\ Len(docs) \in Nat /\ docs \in Seq(Row) /\ \A d \in Ids : docs[d] \in Row
<1>1. \A r \in Requests : request[r] \in RequestRecord
  BY DEF Typed
<1>2. \A q \in RequestRecord :
          /\ q.step = "save" => q.doc \in Ids /\ q.next \in Row
          /\ q.step \in {"number", "setup", "put"} => q \in Uploading /\ q.file \in File
          /\ q.step = "insert" => q.row \in Row
          /\ q.step = "renumber" => q.of \in Row
  BY DEF RequestRecord, Uploading, Storing, Saving, Idle, Ended
<1>3. NoDelivery.doc \notin Ids
  BY RowsAreRows DEF NoDelivery, Typed
<1>4. handler # NoDelivery => handler.doc \in Ids /\ handler.next \in Row
  BY DEF Typed
<1>5. Len(docs) \in Nat /\ docs \in Seq(Row) /\ \A d \in Ids : docs[d] \in Row
  BY RowsAreRows DEF Typed
<1> QED BY <1>1, <1>2, <1>3, <1>4, <1>5

\* A step that makes no copy and rewrites no row.
LEMMA CopiesStand ==
    ASSUME Typed, Copies, Remembers, Ids \subseteq Ids', \A d \in Ids : docs'[d] = docs[d],
           \A r \in Requests : request'[r] = request[r] \/ request'[r].step # "save",
           handler' = handler \/ handler' = NoDelivery
    PROVE  Copies'
<1>1. /\ \A r \in Requests : request[r].step = "save" => request[r].doc \in Ids
      /\ handler # NoDelivery => handler.doc \in Ids
  BY RecordsType
<1>2. CopiesKeepTheFile'
  BY <1>1 DEF Copies, CopiesKeepTheFile
<1>3. \A r \in Requests : \A d : Saves(r, d)' => Saves(r, d) /\ request'[r] = request[r] /\ d \in Ids
  BY <1>1 DEF Saves
<1>4. \A d \in Ids' : handler'.doc = d => handler' = handler /\ d \in Ids
  <2>1. CASE handler' = handler /\ handler # NoDelivery
    BY <1>1, <2>1
  <2>2. CASE handler' = NoDelivery
    <3>1. Len(docs') \in Nat => \A d \in Ids' : d # 0
      BY DEF Ids
    <3>2. \A d \in Ids' : d # 0
      BY DEF Ids
    <3> QED BY <2>2, <3>2 DEF NoDelivery
  <2> QED BY <2>1, <2>2
<1>5. ASSUME NEW d \in Ids' \ raced'
      PROVE  /\ ~Shared(d)'
             /\ Held(d)' => ~docs'[d].deleted
             /\ \A r \in Requests : Saves(r, d)' =>
                   request'[r].next \in {[docs'[d] EXCEPT !.deleted = TRUE],
                                         [docs'[d] EXCEPT !.text = "corrected"]}
             /\ handler'.doc = d => handler'.next = [docs'[d] EXCEPT !.text = "extracted"]
  <2>1. CASE d \in Ids
    <3>1. d \in Ids \ raced /\ docs'[d] = docs[d] /\ ~Shared(d)'
      BY <1>5, <2>1 DEF Remembers
    <3>2. Held(d)' => Held(d)
      BY <1>3, <1>4 DEF Held
    <3> QED BY <1>3, <1>4, <3>1, <3>2 DEF Copies, CopiesAreFresh
  <2>2. CASE d \notin Ids
    <3>1. handler'.doc # d /\ \A r \in Requests : ~Saves(r, d)'
      BY <1>3, <1>4, <2>2
    <3> QED BY <3>1 DEF Shared, Held
  <2> QED BY <2>1, <2>2
<1> QED BY <1>2, <1>5 DEF Copies, CopiesAreFresh

\* A request takes a copy of a row.
LEMMA CopyTaken ==
    ASSUME Typed, Copies, Remembers, NEW r \in Requests, NEW d \in Ids, NEW next \in Row,
           next \in {[docs[d] EXCEPT !.deleted = TRUE], [docs[d] EXCEPT !.text = "corrected"]},
           ~docs[d].deleted, UNCHANGED <<docs, handler>>,
           Goto(r, [step |-> "save", doc |-> d, next |-> next])
    PROVE  Copies'
<1>1. \A p \in Requests : request'[p] = IF p = r THEN [step |-> "save", doc |-> d, next |-> next]
                                                 ELSE request[p]
  BY DEF Typed, Goto
<1>2. Ids' = Ids /\ docs' = docs /\ handler' = handler
  BY DEF Ids
<1>3. SameFile(next, docs[d])
  BY RecordsType DEF SameFile, Row
<1>4. CopiesKeepTheFile'
  BY <1>1, <1>2, <1>3 DEF Copies, CopiesKeepTheFile
<1>5. Saves(r, d)' /\ Held(d)' /\ \A p \in Requests : \A e : Saves(p, e)' => Saves(p, e) \/ (p = r /\ e = d)
  BY <1>1 DEF Saves, Held
<1>6. ASSUME NEW e \in Ids \ raced'
      PROVE  /\ ~Shared(e)'
             /\ Held(e)' => ~docs[e].deleted
             /\ \A p \in Requests : Saves(p, e)' =>
                   request'[p].next \in {[docs[e] EXCEPT !.deleted = TRUE],
                                         [docs[e] EXCEPT !.text = "corrected"]}
             /\ handler.doc = e => handler.next = [docs[e] EXCEPT !.text = "extracted"]
  <2>1. e \in Ids \ raced /\ ~Shared(e)'
    BY <1>6 DEF Remembers
  <2>2. CASE e = d
    <3>1. handler.doc # e /\ \A p \in Requests : Saves(p, e)' => p = r
      BY <1>2, <1>5, <2>1, <2>2 DEF Shared
    <3> QED BY <1>1, <2>1, <2>2, <3>1
  <2>3. CASE e # d
    <3>1. \A p \in Requests : Saves(p, e)' => Saves(p, e) /\ request'[p] = request[p]
      BY <1>1, <1>5, <2>3 DEF Saves
    <3>2. Held(e)' => Held(e)
      BY <1>2, <3>1 DEF Held
    <3> QED BY <2>1, <3>1, <3>2 DEF Copies, CopiesAreFresh
  <2> QED BY <2>2, <2>3
<1> QED BY <1>2, <1>4, <1>6 DEF Copies, CopiesAreFresh

\* A handler takes a copy of a row.
LEMMA CopyDelivered ==
    ASSUME Typed, Copies, Remembers, NEW d \in Ids, handler = NoDelivery,
           ~docs[d].deleted, UNCHANGED <<docs, request>>,
           handler' = [doc |-> d, next |-> [docs[d] EXCEPT !.text = "extracted"]]
    PROVE  Copies'
<1>1. Ids' = Ids /\ docs' = docs /\ request' = request /\ handler'.doc = d
  BY DEF Ids
<1>2. SameFile(handler'.next, docs[d])
  BY RecordsType DEF SameFile, Row
<1>3. CopiesKeepTheFile'
  BY <1>1, <1>2 DEF Copies, CopiesKeepTheFile
<1>4. \A p \in Requests : \A e : Saves(p, e)' <=> Saves(p, e)
  BY <1>1 DEF Saves
<1>5. ASSUME NEW e \in Ids \ raced'
      PROVE  /\ ~Shared(e)'
             /\ Held(e)' => ~docs[e].deleted
             /\ \A p \in Requests : Saves(p, e)' =>
                   request[p].next \in {[docs[e] EXCEPT !.deleted = TRUE],
                                        [docs[e] EXCEPT !.text = "corrected"]}
             /\ handler'.doc = e => handler'.next = [docs[e] EXCEPT !.text = "extracted"]
  <2>1. e \in Ids \ raced /\ ~Shared(e)'
    BY <1>5 DEF Remembers
  <2>2. CASE e = d
    <3>1. \A p \in Requests : ~Saves(p, e)'
      BY <1>1, <2>1, <2>2 DEF Shared
    <3> QED BY <1>1, <2>1, <2>2, <3>1
  <2>3. CASE e # d
    <3>1. Held(e)' => Held(e)
      BY <1>1, <1>4, <2>3 DEF Held
    <3> QED BY <1>1, <1>4, <2>1, <2>3, <3>1 DEF Copies, CopiesAreFresh
  <2> QED BY <2>2, <2>3
<1> QED BY <1>1, <1>3, <1>5 DEF Copies, CopiesAreFresh

\* A copy is saved: by a request, or else by the handler.
LEMMA CopySaved ==
    ASSUME Typed, Copies, Remembers, NEW d \in Ids, NEW row \in Row, SameFile(row, docs[d]),
           docs' = [docs EXCEPT ![d] = row],
           \/ /\ \E r \in Requests : Saves(r, d) /\ Goto(r, Ended)
              /\ UNCHANGED handler
           \/ handler.doc = d /\ handler' = NoDelivery /\ UNCHANGED request
    PROVE  Copies'
<1>1. /\ Len(docs) \in Nat /\ docs \in Seq(Row) /\ \A e \in Ids : docs[e] \in Row
      /\ handler # NoDelivery => handler.doc \in Ids
      /\ \A p \in Requests : request[p].step = "save" => request[p].doc \in Ids
  BY RecordsType
<1>2. /\ Ids' = Ids
      /\ \A e \in Ids : docs'[e] = IF e = d THEN row ELSE docs[e]
  BY <1>1 DEF Ids
<1>3. \A p \in Requests : request'[p] = request[p] \/ request'[p] = Ended
  BY DEF Typed, Goto
<1>4. handler' = handler \/ handler' = NoDelivery
  OBVIOUS
<1>5. \A p \in Requests : \A e : Saves(p, e)' => Saves(p, e) /\ request'[p] = request[p]
  BY <1>3 DEF Saves, Ended
<1>6. \A e \in Ids : SameFile(docs'[e], docs[e])
  BY <1>2 DEF SameFile
<1>7. CopiesKeepTheFile'
  BY <1>1, <1>3, <1>4, <1>6 DEF Copies, CopiesKeepTheFile, SameFile, Ended
<1>8. \A e \in Ids : handler'.doc = e => handler' = handler
  BY <1>4, RecordsType DEF NoDelivery, Ids
<1>9. ~Shared(d) => ~Held(d)'
  <2>1. CASE \E r \in Requests : Saves(r, d) /\ Goto(r, Ended) /\ UNCHANGED handler
    <3>1. PICK r \in Requests : Saves(r, d) /\ Goto(r, Ended) /\ UNCHANGED handler
      BY <2>1
    <3>2. ~Saves(r, d)'
      BY <3>1 DEF Typed, Goto, Saves, Ended
    <3> QED BY <1>5, <3>1, <3>2 DEF Shared, Held
  <2>2. CASE handler.doc = d /\ handler' = NoDelivery /\ UNCHANGED request
    <3>1. handler'.doc # d
      BY <1>1, <2>2 DEF NoDelivery, Ids
    <3> QED BY <1>5, <2>2, <3>1 DEF Shared, Held
  <2> QED BY <2>1, <2>2
<1>10. ASSUME NEW e \in Ids \ raced'
      PROVE  /\ ~Shared(e)'
             /\ Held(e)' => ~docs'[e].deleted
             /\ \A p \in Requests : Saves(p, e)' =>
                   request'[p].next \in {[docs'[e] EXCEPT !.deleted = TRUE],
                                         [docs'[e] EXCEPT !.text = "corrected"]}
             /\ handler'.doc = e => handler'.next = [docs'[e] EXCEPT !.text = "extracted"]
  <2>1. e \in Ids \ raced /\ ~Shared(e)'
    BY <1>10 DEF Remembers
  <2>2. CASE e = d
    <3>1. ~Held(e)'
      BY <1>9, <2>1, <2>2 DEF Copies, CopiesAreFresh
    <3> QED BY <2>1, <3>1 DEF Held
  <2>3. CASE e # d
    <3>1. docs'[e] = docs[e]
      BY <1>2, <2>3
    <3>2. Held(e)' => Held(e)
      BY <1>5, <1>8 DEF Held
    <3> QED BY <1>5, <1>8, <2>1, <3>1, <3>2 DEF Copies, CopiesAreFresh
  <2> QED BY <2>2, <2>3
<1> QED BY <1>2, <1>7, <1>10 DEF Copies, CopiesAreFresh

\* The session is archived under the copies.
LEMMA CopiesArchived == ASSUME Typed, Copies, Remembers, ArchiveSession PROVE Copies'
<1>1. /\ docs' = [d \in Ids |-> [docs[d] EXCEPT !.archived = TRUE]]
      /\ request' = request /\ handler' = handler
  BY DEF ArchiveSession
<1>2. /\ Len(docs) \in Nat /\ \A d \in Ids : docs[d] \in Row
      /\ handler # NoDelivery => handler.doc \in Ids
      /\ \A p \in Requests : request[p].step = "save" => request[p].doc \in Ids
  BY RecordsType
<1>3. Ids' = Ids
  BY <1>1, <1>2 DEF Ids
<1>4. \A d \in Ids : docs'[d] = [docs[d] EXCEPT !.archived = TRUE] /\ SameFile(docs'[d], docs[d])
  BY <1>1, <1>2 DEF SameFile, Row
<1>5. CopiesKeepTheFile'
  BY <1>1, <1>2, <1>4 DEF Copies, CopiesKeepTheFile, SameFile
<1>6. \A p \in Requests : \A e : Saves(p, e)' <=> Saves(p, e)
  BY <1>1 DEF Saves
<1>7. \A d \in Ids : docs'[d].archived = docs[d].archived => docs'[d] = docs[d]
  <2>1. \A row \in Row : row.archived = [row EXCEPT !.archived = TRUE].archived =>
                            [row EXCEPT !.archived = TRUE] = row
    BY DEF Row
  <2> QED BY <1>2, <1>4, <2>1
<1>8. ASSUME NEW e \in Ids \ raced'
      PROVE  /\ ~Shared(e)'
             /\ Held(e)' => ~docs'[e].deleted
             /\ \A p \in Requests : Saves(p, e)' =>
                   request'[p].next \in {[docs'[e] EXCEPT !.deleted = TRUE],
                                         [docs'[e] EXCEPT !.text = "corrected"]}
             /\ handler'.doc = e => handler'.next = [docs'[e] EXCEPT !.text = "extracted"]
  <2>1. e \in Ids \ raced /\ ~Shared(e)' /\ (Held(e)' => docs'[e] = docs[e])
    BY <1>7, <1>8 DEF Remembers
  <2>2. CASE ~Held(e)'
    BY <2>1, <2>2 DEF Held
  <2>3. CASE Held(e)'
    <3>1. Held(e)
      BY <1>1, <1>6, <2>3 DEF Held
    <3> QED BY <1>1, <1>6, <2>1, <2>3, <3>1 DEF Copies, CopiesAreFresh
  <2> QED BY <2>2, <2>3
<1> QED BY <1>3, <1>5, <1>8 DEF Copies, CopiesAreFresh
\* Every step keeps the copies in order.
LEMMA BeginCopies ==
    ASSUME Parts, Copies, Remembers, NEW r \in Requests, Begin(r) PROVE Copies'
<1>0. Typed /\ UNCHANGED <<docs, handler>>
  BY DEF Parts, Begin, Upload, ReprocessDocument, SoftDeleteDocument, UpdateExtractedText
<1>1. ASSUME NEW next, Goto(r, next), next.step # "save" PROVE Copies'
  <2>1. Ids' = Ids /\ \A p \in Requests : request'[p] = request[p] \/ request'[p].step # "save"
    BY <1>0, <1>1 DEF Ids, Typed, Goto
  <2> QED BY <1>0, <2>1, CopiesStand
<1>2. ASSUME NEW file \in File, Upload(r, file) PROVE Copies'
  <2>1. \/ Goto(r, Ended)
        \/ Goto(r, [step |-> "sum", file |-> file, version |-> 0])
    BY <1>2 DEF Upload
  <2> QED BY <1>1, <2>1 DEF Ended
<1>3. ASSUME NEW d \in Ids, ReprocessDocument(r, d) PROVE Copies'
  BY <1>1, <1>3 DEF ReprocessDocument
<1>4. \A d \in Ids : docs[d] \in Row
  BY <1>0, RecordsType
<1>5. \A row \in Row : [row EXCEPT !.deleted = TRUE] \in Row /\ [row EXCEPT !.text = "corrected"] \in Row
  BY DEF Row, Texts
<1>6. ASSUME NEW d \in Ids, SoftDeleteDocument(r, d) PROVE Copies'
  <2>1. ~docs[d].deleted
        /\ Goto(r, [step |-> "save", doc |-> d, next |-> [docs[d] EXCEPT !.deleted = TRUE]])
    BY <1>6 DEF SoftDeleteDocument, Active
  <2> QED BY <1>0, <1>4, <1>5, <2>1, CopyTaken
<1>7. ASSUME NEW d \in Ids, UpdateExtractedText(r, d) PROVE Copies'
  <2>1. ~docs[d].deleted
        /\ Goto(r, [step |-> "save", doc |-> d, next |-> [docs[d] EXCEPT !.text = "corrected"]])
    BY <1>7 DEF UpdateExtractedText, Active
  <2> QED BY <1>0, <1>4, <1>5, <2>1, CopyTaken
<1> QED BY <1>2, <1>3, <1>6, <1>7 DEF Begin

LEMMA GoOnCopies ==
    ASSUME Parts, Copies, Remembers, NEW r \in Requests, Advance(r) \/ Fail(r) PROVE Copies'
<1>0. Typed /\ request \in [Requests -> RequestRecord]
  BY DEF Parts, Typed
<1>1. ASSUME NEW next, Goto(r, next), next.step # "save", UNCHANGED handler,
             Ids \subseteq Ids', \A d \in Ids : docs'[d] = docs[d]
      PROVE  Copies'
  <2>1. \A p \in Requests : request'[p] = request[p] \/ request'[p].step # "save"
    BY <1>0, <1>1 DEF Goto
  <2> QED BY <1>0, <1>1, <2>1, CopiesStand
<1>2. CASE CheckSessionBytes(r) \/ NumberUpload(r) \/ PublishDocumentPreprocess(r) \/ Fail(r)
           \/ StoreDocument(r) \/ NumberReprocess(r)
  <2>1. UNCHANGED <<docs, handler>>
    BY <1>2 DEF CheckSessionBytes, NumberUpload, PublishDocumentPreprocess, Fail, StoreDocument,
                NumberReprocess
  <2>2. Ids \subseteq Ids' /\ \A d \in Ids : docs'[d] = docs[d]
    BY <2>1 DEF Ids
  <2>3. ASSUME request[r].step \in {"sum", "number"}
        PROVE  \A v : /\ [request[r] EXCEPT !.step = "number"].step # "save"
                      /\ [request[r] EXCEPT !.step = "setup", !.version = v].step # "save"
    <3>1. request[r] \in Uploading
      BY <1>0, <2>3 DEF RequestRecord, Storing, Saving, Idle, Ended
    <3> QED BY <3>1 DEF Uploading
  <2>4. \E next : Goto(r, next) /\ next.step # "save"
    <3>1. Ended.step # "save"
      BY DEF Ended
    <3>2. CASE CheckSessionBytes(r)
      BY <2>3, <3>1, <3>2 DEF CheckSessionBytes
    <3>3. CASE NumberUpload(r)
      BY <2>3, <3>3 DEF NumberUpload
    <3>4. CASE PublishDocumentPreprocess(r) \/ Fail(r)
      BY <3>1, <3>4 DEF PublishDocumentPreprocess, Fail
    <3>5. CASE StoreDocument(r) \/ NumberReprocess(r)
      BY <3>5 DEF StoreDocument, NumberReprocess
    <3> QED BY <1>2, <3>2, <3>3, <3>4, <3>5
  <2> QED BY <1>1, <2>1, <2>2, <2>4
<1>3. CASE EnsureBucketReady(r)
  <2>1. UNCHANGED <<docs, handler>> /\ request[r].step = "setup"
    BY <1>3 DEF EnsureBucketReady
  <2>2. Ids \subseteq Ids' /\ \A d \in Ids : docs'[d] = docs[d]
    BY <2>1 DEF Ids
  <2>3. CASE UNCHANGED request
    BY <1>0, <2>1, <2>2, <2>3, CopiesStand
  <2>4. CASE Goto(r, [request[r] EXCEPT !.step = "put"])
    <3>1. request[r] \in Uploading
      BY <1>0, <2>1, RecordsType
    <3>2. [request[r] EXCEPT !.step = "put"].step # "save"
      BY <3>1 DEF Uploading
    <3> QED BY <1>1, <2>1, <2>2, <2>4, <3>2
  <2>5. CASE Goto(r, Ended)
    BY <1>1, <2>1, <2>2, <2>5 DEF Ended
  <2> QED BY <1>3, <2>3, <2>4, <2>5 DEF EnsureBucketReady
<1>4. CASE InsertDocument(r)
  <2>1. /\ docs' = Append(docs, request[r].row) /\ UNCHANGED handler /\ request[r].step = "insert"
        /\ Goto(r, [step |-> "publish", doc |-> Len(docs) + 1])
    BY <1>4 DEF InsertDocument
  <2>2. Ids \subseteq Ids' /\ \A d \in Ids : docs'[d] = docs[d]
    BY <1>0, <2>1, RecordsType DEF Ids
  <2> QED BY <1>1, <2>1, <2>2
<1>5. CASE SaveDocument(r)
  <2>1. /\ docs' = [docs EXCEPT ![request[r].doc] = request[r].next] /\ Goto(r, Ended)
        /\ request[r].step = "save" /\ UNCHANGED handler
    BY <1>5 DEF SaveDocument
  <2>2. request[r].doc \in Ids /\ request[r].next \in Row /\ Saves(r, request[r].doc)
        /\ SameFile(request[r].next, docs[request[r].doc])
    BY <1>0, <2>1, RecordsType DEF Saves, Copies, CopiesKeepTheFile
  <2> QED BY <1>0, <2>1, <2>2, CopySaved
<1> QED BY <1>2, <1>3, <1>4, <1>5 DEF Advance

LEMMA OtherCopies ==
    ASSUME Parts, Copies, Remembers, BucketCreated \/ BucketFails \/ Results
    PROVE  Copies'
<1>0. Typed
  BY DEF Parts
<1>1. ASSUME UNCHANGED <<docs, request>>, handler' = handler \/ handler' = NoDelivery PROVE Copies'
  <2>1. Ids \subseteq Ids' /\ \A d \in Ids : docs'[d] = docs[d]
    BY <1>1 DEF Ids
  <2> QED BY <1>0, <1>1, <2>1, CopiesStand
<1>2. CASE BucketCreated \/ BucketFails \/ ResultFails \/ \E d \in Ids : Preprocess(d)
  BY <1>1, <1>2 DEF BucketCreated, BucketFails, ResultFails, Preprocess
<1>3. ASSUME NEW d \in Ids, LoadForResult(d) PROVE Copies'
  <2>1. CASE UNCHANGED handler
    BY <1>1, <1>3, <2>1 DEF LoadForResult
  <2>2. CASE ~docs[d].deleted /\ handler' = [doc |-> d, next |-> [docs[d] EXCEPT !.text = "extracted"]]
    BY <1>0, <1>3, <2>2, CopyDelivered DEF LoadForResult
  <2> QED BY <1>3, <2>1, <2>2 DEF LoadForResult
<1>4. CASE SaveResult \/ SaveResultLate
  <2>1. /\ handler # NoDelivery /\ docs' = [docs EXCEPT ![handler.doc] = handler.next]
        /\ handler' = NoDelivery /\ UNCHANGED request
    BY <1>4 DEF SaveResult, SaveResultLate
  <2>2. handler.doc \in Ids /\ handler.next \in Row /\ SameFile(handler.next, docs[handler.doc])
    BY <1>0, <2>1, RecordsType DEF Copies, CopiesKeepTheFile
  <2> QED BY <1>0, <2>1, <2>2, CopySaved
<1> QED BY <1>2, <1>3, <1>4 DEF Results

LEMMA CopiesKeep == ASSUME Parts, Copies, Remembers, Next PROVE Copies'
<1>1. CASE ArchiveSession
  BY <1>1, CopiesArchived DEF Parts
<1> QED BY <1>1, BeginCopies, GoOnCopies, OtherCopies DEF Next

\* A copy that has its row to itself was made of an active row, and changes
\* only what it was made for.
LEMMA WritesStand ==
    ASSUME Parts, Copies, Next, NEW d \in Ids \ raced
    PROVE  DeletionStands(d) /\ CorrectionStands(d)
<1>0. Typed /\ docs[d] \in Row /\ docs \in Seq(Row) /\ Len(docs) \in Nat /\ d \in 1..Len(docs)
  BY RecordsType DEF Parts, Ids
<1>1. CASE docs'[d] = docs[d]
  <2>1. docs[d] = [docs[d] EXCEPT !.archived = docs[d].archived]
    BY <1>0 DEF Row
  <2> QED BY <1>1, <2>1 DEF DeletionStands, CorrectionStands
<1>2. CASE ArchiveSession
  <2>1. docs'[d] = [docs[d] EXCEPT !.archived = TRUE]
    BY <1>2 DEF ArchiveSession
  <2>2. docs'[d].archived = TRUE /\ docs'[d].text = docs[d].text
    BY <1>0, <2>1 DEF Row
  <2> QED BY <2>1, <2>2 DEF DeletionStands, CorrectionStands
<1>3. ASSUME NEW r \in Requests, Saves(r, d), docs'[d] = request[r].next
      PROVE  DeletionStands(d) /\ CorrectionStands(d)
  <2>1. ~docs[d].deleted /\ docs'[d] \in {[docs[d] EXCEPT !.deleted = TRUE],
                                           [docs[d] EXCEPT !.text = "corrected"]}
    BY <1>3 DEF Copies, CopiesAreFresh, Held
  <2>2. docs'[d].text \in {docs[d].text, "corrected"}
    BY <1>0, <2>1 DEF Row
  <2> QED BY <2>1, <2>2 DEF DeletionStands, CorrectionStands
<1>4. ASSUME handler.doc = d PROVE DeletionStands(d) /\ CorrectionStands(d)
  <2>1. ~docs[d].deleted
    BY <1>4 DEF Copies, CopiesAreFresh, Held
  <2>2. d \in 1..MaxDocs
    BY <1>0, DocumentsAssumption DEF Typed
  <2>3. answer[d].state = "due"
    BY <1>4, <2>2 DEF Parts, AnswersBounded
  <2> QED BY <1>4, <2>1, <2>3 DEF DeletionStands, CorrectionStands
<1>5. ASSUME NEW e \in Ids, NEW row, docs' = [docs EXCEPT ![e] = row]
      PROVE  docs'[d] = IF d = e THEN row ELSE docs[d]
  BY <1>0, <1>5 DEF Ids
<1>6. \/ docs' = docs
      \/ \E r \in Requests : InsertDocument(r) \/ SaveDocument(r)
      \/ ArchiveSession \/ SaveResult \/ SaveResultLate
  BY DEF Next, Begin, Upload, ReprocessDocument, SoftDeleteDocument, UpdateExtractedText, Advance,
         CheckSessionBytes, NumberUpload, EnsureBucketReady, StoreDocument, NumberReprocess,
         PublishDocumentPreprocess, Fail, BucketCreated, BucketFails, Results, Preprocess,
         LoadForResult, ResultFails
<1>7. ASSUME NEW r \in Requests, InsertDocument(r) PROVE docs'[d] = docs[d]
  BY <1>0, <1>7 DEF InsertDocument
<1>8. ASSUME NEW r \in Requests, SaveDocument(r), docs'[d] # docs[d]
      PROVE  Saves(r, d) /\ docs'[d] = request[r].next
  <2>1. request[r].step = "save" /\ docs' = [docs EXCEPT ![request[r].doc] = request[r].next]
        /\ request[r].doc \in Ids
    BY <1>0, <1>8, RecordsType DEF SaveDocument
  <2> QED BY <1>5, <1>8, <2>1 DEF Saves
<1>9. ASSUME SaveResult \/ SaveResultLate, docs'[d] # docs[d] PROVE handler.doc = d
  <2>1. docs' = [docs EXCEPT ![handler.doc] = handler.next] /\ handler.doc \in Ids
    BY <1>0, <1>9, RecordsType DEF SaveResult, SaveResultLate
  <2> QED BY <1>5, <1>9, <2>1
<1> QED BY <1>1, <1>2, <1>3, <1>4, <1>6, <1>7, <1>8, <1>9
-----------------------------------------------------------------------------
(* Checks and inserts                                                      *)

\* The history after a step, as far as the checks go.
Counts ==
    /\ ~crowded' => ~crowded /\ OneInserts'
    /\ ~copied' => ~copied /\ \A r \in Requests : request'[r].step # "renumber"

\* A step that brings no request closer to an insert and renames, resizes or
\* renumbers no row.
LEMMA ChecksOutlive ==
    ASSUME Typed, SerialChecks, Counts, Len(docs') = Len(docs),
           \A d \in Ids : SameFile(docs'[d], docs[d]),
           \A r \in Requests : request'[r] = request[r] \/ ~Inserting(r)'
    PROVE  SerialChecks'
<1>1. SUFFICES ASSUME ~crowded'
               PROVE  OneInserts' /\ NumbersAreNew' /\ VersionsDistinct' /\ (copied' \/ RoomIsLeft')
  BY DEF SerialChecks
<1>2. OneInserts' /\ NumbersAreNew /\ VersionsDistinct /\ (copied \/ RoomIsLeft)
  BY <1>1 DEF Counts, SerialChecks
<1>3. Ids' = Ids /\ Len(docs) \in Nat
  BY RecordsType DEF Ids
<1>4. \A d \in Ids : docs'[d].filename = docs[d].filename /\ docs'[d].version = docs[d].version
  BY DEF SameFile
<1>5. NumbersAreNew'
  <2>1. SUFFICES ASSUME NEW r \in Requests, NEW d \in Ids
        PROVE  /\ request'[r].step \in {"setup", "put"}
                     /\ docs[d].filename = request'[r].file.filename =>
                  docs[d].version < request'[r].version
               /\ request'[r].step = "insert" /\ docs[d].filename = request'[r].row.filename =>
                  docs[d].version < request'[r].row.version
    BY <1>3, <1>4 DEF NumbersAreNew, Beyond
  <2>2. CASE request'[r] = request[r]
    BY <1>2, <2>2 DEF NumbersAreNew, Beyond
  <2>3. CASE ~Inserting(r)'
    BY <2>3 DEF Inserting
  <2> QED BY <2>2, <2>3
<1>6. VersionsDistinct'
  BY <1>2, <1>3 DEF VersionsDistinct, SameFile
<1>7. ASSUME ~copied' PROVE RoomIsLeft'
  <2>1. GetSessionDocumentBytes' = GetSessionDocumentBytes
    BY <1>3, BytesKept DEF SameFile
  <2>2. RoomIsLeft /\ \A r \in Requests : request'[r].step # "renumber"
    BY <1>2, <1>7 DEF Counts
  <2>3. WithinLimit'
    BY <2>1, <2>2 DEF WithinLimit, RoomIsLeft
  <2>4. \A r \in Requests :
            /\ request'[r].step \in {"number", "setup", "put"} =>
                  GetSessionDocumentBytes + request'[r].file.size <= MaxSession
            /\ request'[r].step = "insert" =>
                  GetSessionDocumentBytes + request'[r].row.size <= MaxSession
    BY <2>2 DEF RoomIsLeft, Inserting
  <2> QED BY <2>1, <2>2, <2>3, <2>4 DEF RoomIsLeft
<1> QED BY <1>2, <1>5, <1>6, <1>7

\* A request comes closer to its insert, with what it has checked.
LEMMA ChecksGoOn ==
    ASSUME Typed, SerialChecks, Counts, UNCHANGED docs,
           NEW r \in Requests, NEW next, Goto(r, next),
           ~crowded => /\ next.step \in {"setup", "put"} => Beyond(next.file.filename, next.version)
                       /\ next.step = "insert" => Beyond(next.row.filename, next.row.version),
           ~crowded /\ ~copied =>
              /\ next.step \in {"number", "setup", "put"} =>
                    GetSessionDocumentBytes + next.file.size <= MaxSession
              /\ next.step = "insert" => GetSessionDocumentBytes + next.row.size <= MaxSession
    PROVE  SerialChecks'
<1>1. SUFFICES ASSUME ~crowded'
               PROVE  OneInserts' /\ NumbersAreNew' /\ VersionsDistinct' /\ (copied' \/ RoomIsLeft')
  BY DEF SerialChecks
<1>2. ~crowded /\ OneInserts' /\ NumbersAreNew /\ VersionsDistinct /\ (copied \/ RoomIsLeft)
  BY <1>1 DEF Counts, SerialChecks
<1>3. Ids' = Ids /\ docs' = docs /\ Len(docs) \in Nat
  BY RecordsType DEF Ids
<1>4. \A p \in Requests : request'[p] = IF p = r THEN next ELSE request[p]
  BY DEF Typed, Goto
<1>5. NumbersAreNew'
  <2>1. SUFFICES ASSUME NEW p \in Requests
        PROVE  /\ request'[p].step \in {"setup", "put"} =>
                     Beyond(request'[p].file.filename, request'[p].version)
               /\ request'[p].step = "insert" =>
                     Beyond(request'[p].row.filename, request'[p].row.version)
    BY <1>3 DEF NumbersAreNew, Beyond
  <2> QED BY <1>2, <1>4 DEF NumbersAreNew
<1>6. VersionsDistinct'
  BY <1>2, <1>3 DEF VersionsDistinct
<1>7. ASSUME ~copied' PROVE RoomIsLeft'
  <2>1. GetSessionDocumentBytes' = GetSessionDocumentBytes
    BY <1>3, BytesKept
  <2>2. RoomIsLeft /\ ~copied /\ \A p \in Requests : request'[p].step # "renumber"
    BY <1>2, <1>7 DEF Counts
  <2>3. WithinLimit'
    BY <2>1, <2>2 DEF WithinLimit, RoomIsLeft
  <2>4. \A p \in Requests :
            /\ request'[p].step \in {"number", "setup", "put"} =>
                  GetSessionDocumentBytes + request'[p].file.size <= MaxSession
            /\ request'[p].step = "insert" =>
                  GetSessionDocumentBytes + request'[p].row.size <= MaxSession
    BY <1>2, <1>4, <2>2 DEF RoomIsLeft
  <2> QED BY <2>1, <2>2, <2>3, <2>4 DEF RoomIsLeft
<1> QED BY <1>2, <1>5, <1>6, <1>7

\* The insert uses up what was checked.
LEMMA ChecksInsert ==
    ASSUME Typed, SerialChecks, Counts, NEW r \in Requests, InsertDocument(r)
    PROVE  SerialChecks'
<1> DEFINE n == Len(docs) + 1
           row == request[r].row
<1>1. SUFFICES ASSUME ~crowded'
               PROVE  OneInserts' /\ NumbersAreNew' /\ VersionsDistinct' /\ (copied' \/ RoomIsLeft')
  BY DEF SerialChecks
<1>2. /\ OneInserts /\ OneInserts' /\ NumbersAreNew /\ VersionsDistinct /\ (copied \/ RoomIsLeft)
  BY <1>1 DEF Counts, SerialChecks
<1>3. /\ request[r].step = "insert" /\ docs' = Append(docs, row)
      /\ Goto(r, [step |-> "publish", doc |-> n])
  BY DEF InsertDocument
<1>4. row \in Row /\ docs \in Seq(Row) /\ Len(docs) \in Nat /\ \A d \in Ids : docs[d] \in Row
  BY <1>3, RecordsType
<1>5. \A p \in Requests : ~Inserting(p)'
  <2>1. \A p \in Requests : Inserting(p)' => p # r /\ Inserting(p)
    BY <1>3 DEF Typed, Goto, Inserting
  <2>2. Inserting(r)
    BY <1>3 DEF Inserting
  <2> QED BY <1>2, <2>1, <2>2 DEF OneInserts
<1>6. NumbersAreNew'
  BY <1>5 DEF NumbersAreNew, Inserting
<1>7. Beyond(row.filename, row.version)
  BY <1>2, <1>3 DEF NumbersAreNew
<1> HIDE DEF row
<1>8. /\ Len(docs') = n /\ docs'[n] = row /\ \A d \in Ids : docs'[d] = docs[d]
      /\ \A d \in Ids' : d \in Ids \/ d = n
  BY <1>3, <1>4 DEF Ids
<1>9. VersionsDistinct'
  <2>1. row.version \in Nat /\ \A d \in Ids : docs[d].version \in Nat
    BY <1>4 DEF Row
  <2>2. \A d \in Ids : docs[d].filename = row.filename => docs[d].version # row.version
    BY <1>7, <2>1 DEF Beyond
  <2> HIDE DEF n
  <2> QED BY <1>2, <1>8, <2>2 DEF VersionsDistinct
<1>10. ASSUME ~copied' PROVE RoomIsLeft'
  <2>1. RoomIsLeft /\ \A p \in Requests : request'[p].step # "renumber"
    BY <1>2, <1>10 DEF Counts
  <2>2. GetSessionDocumentBytes + row.size <= MaxSession
    BY <1>3, <2>1 DEF RoomIsLeft, row
  <2>3. GetSessionDocumentBytes' = GetSessionDocumentBytes + docs'[n].size
    BY <1>4, <1>8, BytesAdded
  <2>4. WithinLimit'
    BY <1>8, <2>2, <2>3 DEF WithinLimit
  <2> QED BY <1>5, <2>1, <2>4 DEF RoomIsLeft, Inserting
<1> QED BY <1>2, <1>6, <1>9, <1>10
\* What has been checked so far, carried from one record of a request to the next.
LEMMA UploadChecks ==
    ASSUME Parts, SerialChecks, Counts, NEW r \in Requests,
           \/ CheckSessionBytes(r) \/ NumberUpload(r) \/ EnsureBucketReady(r) \/ StoreDocument(r)
    PROVE  SerialChecks'
<1> DEFINE q == request[r]
<1>0. Typed /\ docs \in Seq(Row) /\ UNCHANGED docs
  BY DEF Parts, Typed, CheckSessionBytes, NumberUpload, EnsureBucketReady, StoreDocument
<1>1. /\ ~crowded /\ q.step \in {"setup", "put"} => Beyond(q.file.filename, q.version)
      /\ ~crowded /\ ~copied /\ q.step \in {"number", "setup", "put"} =>
            GetSessionDocumentBytes + q.file.size <= MaxSession
  BY DEF SerialChecks, NumbersAreNew, RoomIsLeft
<1>2. Len(docs') = Len(docs) /\ \A d \in Ids : SameFile(docs'[d], docs[d])
  BY <1>0 DEF SameFile
<1>3. q.step \in {"sum", "number", "setup", "put"} => q \in Uploading /\ q.file \in File
  <2>1. q \in RequestRecord
    BY <1>0 DEF Typed
  <2> QED BY <2>1 DEF RequestRecord, Uploading, Storing, Saving, Idle, Ended
<1>4. ASSUME Goto(r, Ended) \/ UNCHANGED request PROVE SerialChecks'
  <2>1. \A p \in Requests : request'[p] = request[p] \/ ~Inserting(p)'
    BY <1>0, <1>4 DEF Typed, Goto, Ended, Inserting
  <2> QED BY <1>0, <1>2, <2>1, ChecksOutlive
<1>5. CASE CheckSessionBytes(r)
  <2> DEFINE next == [q EXCEPT !.step = "number"]
  <2>1. CASE GetSessionDocumentBytes + q.file.size <= MaxSession /\ Goto(r, next) /\ q.step = "sum"
    <3>1. next.step = "number" /\ next.file = q.file
      BY <1>3, <2>1 DEF Uploading
    <3> HIDE DEF next
    <3> QED BY <1>0, <2>1, <3>1, ChecksGoOn
  <2> QED BY <1>4, <1>5, <2>1 DEF CheckSessionBytes
<1>6. CASE NumberUpload(r)
  <2> DEFINE v == GetNextDocumentVersion(q.file.filename)
             next == [q EXCEPT !.step = "setup", !.version = v]
  <2>1. Goto(r, next) /\ q.step = "number" /\ Beyond(q.file.filename, v)
    BY <1>0, <1>6, NextVersionIsBeyond DEF NumberUpload
  <2> HIDE DEF v
  <2>2. next.step = "setup" /\ next.file = q.file /\ next.version = v
    BY <1>3, <2>1 DEF Uploading
  <2> HIDE DEF next
  <2> QED BY <1>0, <1>1, <2>1, <2>2, ChecksGoOn
<1>7. CASE EnsureBucketReady(r)
  <2> DEFINE next == [q EXCEPT !.step = "put"]
  <2>1. CASE Goto(r, next) /\ q.step = "setup"
    <3>1. next.step = "put" /\ next.file = q.file /\ next.version = q.version
      BY <1>3, <2>1 DEF Uploading
    <3> HIDE DEF next
    <3> QED BY <1>0, <1>1, <2>1, <3>1, ChecksGoOn
  <2> QED BY <1>4, <1>7, <2>1 DEF EnsureBucketReady
<1>8. CASE StoreDocument(r)
  <2> DEFINE row == [filename |-> q.file.filename, size |-> q.file.size, object |-> r,
                     version |-> q.version, text |-> "none", deleted |-> FALSE, archived |-> FALSE]
             next == [step |-> "insert", row |-> row]
  <2>1. Goto(r, next) /\ q.step = "put"
    BY <1>8 DEF StoreDocument
  <2>2. /\ next.step = "insert" /\ next.row.filename = q.file.filename
        /\ next.row.size = q.file.size /\ next.row.version = q.version
    OBVIOUS
  <2> HIDE DEF next
  <2> QED BY <1>0, <1>1, <2>1, <2>2, ChecksGoOn
<1> QED BY <1>5, <1>6, <1>7, <1>8

\* A copy on its way to an insert is numbered like an upload; its size is
\* checked against nothing, and the history has it in copied.
LEMMA ReprocessChecks ==
    ASSUME Parts, SerialChecks, Counts, NEW r \in Requests,
           NumberReprocess(r) \/ \E d \in Ids : ReprocessDocument(r, d)
    PROVE  SerialChecks'
<1>0. Typed /\ docs \in Seq(Row) /\ UNCHANGED docs
  BY DEF Parts, Typed, NumberReprocess, ReprocessDocument
<1>1. ASSUME NEW d \in Ids, ReprocessDocument(r, d) PROVE SerialChecks'
  <2>1. Goto(r, [step |-> "renumber", of |-> docs[d]])
    BY <1>1 DEF ReprocessDocument
  <2> QED BY <1>0, <2>1, ChecksGoOn
<1>2. CASE NumberReprocess(r)
  <2> DEFINE of == request[r].of
             v == GetNextDocumentVersion(of.filename)
             row == [of EXCEPT !.version = v, !.text = "none", !.archived = FALSE]
             next == [step |-> "insert", row |-> row]
  <2>1. request[r].step = "renumber" /\ Goto(r, next) /\ Beyond(of.filename, v)
    BY <1>0, <1>2, NextVersionIsBeyond DEF NumberReprocess
  <2>2. of \in Row
    BY <1>0, <2>1, RecordsType
  <2> HIDE DEF v, of
  <2>3. row.filename = of.filename /\ row.version = v
    BY <2>2 DEF Row
  <2>4. next.step = "insert" /\ next.row = row
    OBVIOUS
  <2>5. ~crowded => copied
    BY <2>1 DEF SerialChecks, RoomIsLeft
  <2> HIDE DEF next, row
  <2> QED BY <1>0, <2>1, <2>3, <2>4, <2>5, ChecksGoOn
<1> QED BY <1>1, <1>2

\* No other step brings a request closer to an insert.
LEMMA OtherChecks ==
    ASSUME Parts, CopiesKeepTheFile, SerialChecks, Counts,
           \/ \E r \in Requests :
                 \/ \E file \in File : Upload(r, file)
                 \/ \E d \in Ids : SoftDeleteDocument(r, d) \/ UpdateExtractedText(r, d)
                 \/ PublishDocumentPreprocess(r) \/ SaveDocument(r) \/ Fail(r)
           \/ BucketCreated \/ BucketFails \/ ArchiveSession \/ Results
    PROVE  SerialChecks'
<1>0. /\ Typed /\ Len(docs) \in Nat /\ docs \in Seq(Row) /\ \A d \in Ids : docs[d] \in Row
      /\ request \in [Requests -> RequestRecord]
  BY RecordsType DEF Parts, Typed
<1>1. ASSUME NEW d \in Ids, NEW row, SameFile(row, docs[d]), docs' = [docs EXCEPT ![d] = row]
      PROVE  Len(docs') = Len(docs) /\ \A e \in Ids : SameFile(docs'[e], docs[e])
  BY <1>0, <1>1 DEF Ids, SameFile
<1>2. Len(docs') = Len(docs) /\ \A e \in Ids : SameFile(docs'[e], docs[e])
  <2>1. CASE UNCHANGED docs
    BY <2>1 DEF SameFile
  <2>2. ASSUME NEW r \in Requests, SaveDocument(r)
        PROVE  Len(docs') = Len(docs) /\ \A e \in Ids : SameFile(docs'[e], docs[e])
    <3>1. request[r].step = "save" /\ docs' = [docs EXCEPT ![request[r].doc] = request[r].next]
      BY <2>2 DEF SaveDocument
    <3>2. request[r].doc \in Ids /\ SameFile(request[r].next, docs[request[r].doc])
      BY <1>0, <3>1, RecordsType DEF CopiesKeepTheFile
    <3> QED BY <1>1, <3>1, <3>2
  <2>3. CASE SaveResult \/ SaveResultLate
    <3>1. handler # NoDelivery /\ docs' = [docs EXCEPT ![handler.doc] = handler.next]
      BY <2>3 DEF SaveResult, SaveResultLate
    <3>2. handler.doc \in Ids /\ SameFile(handler.next, docs[handler.doc])
      BY <1>0, <3>1, RecordsType DEF CopiesKeepTheFile
    <3> QED BY <1>1, <3>1, <3>2
  <2>4. CASE ArchiveSession
    <3>1. docs' = [d \in Ids |-> [docs[d] EXCEPT !.archived = TRUE]]
      BY <2>4 DEF ArchiveSession
    <3>2. Len(docs') = Len(docs)
      BY <1>0, <3>1 DEF Ids
    <3> QED BY <1>0, <3>1, <3>2 DEF SameFile, Row
  <2> QED BY <2>1, <2>2, <2>3, <2>4
          DEF Upload, SoftDeleteDocument, UpdateExtractedText, PublishDocumentPreprocess, Fail,
              BucketCreated, BucketFails, Results, Preprocess, LoadForResult, ResultFails
<1>3. \A p \in Requests : request'[p] = request[p] \/ ~Inserting(p)'
  <2>1. ASSUME NEW r \in Requests, NEW next, Goto(r, next),
               next.step \in {"sum", "save", "ended"}
        PROVE  \A p \in Requests : request'[p] = request[p] \/ ~Inserting(p)'
    BY <1>0, <2>1 DEF Goto, Inserting
  <2>2. CASE UNCHANGED request
    BY <2>2
  <2>3. \/ UNCHANGED request
        \/ \E r \in Requests : \E next : Goto(r, next) /\ next.step \in {"sum", "save", "ended"}
    <3>1. Ended.step \in {"sum", "save", "ended"}
      BY DEF Ended
    <3>2. ASSUME NEW r \in Requests, NEW file \in File, Upload(r, file)
          PROVE  \E next : Goto(r, next) /\ next.step \in {"sum", "save", "ended"}
      <4>1. \/ Goto(r, Ended)
            \/ Goto(r, [step |-> "sum", file |-> file, version |-> 0])
        BY <3>2 DEF Upload
      <4> QED BY <3>1, <4>1
    <3>3. ASSUME NEW r \in Requests, NEW d \in Ids, SoftDeleteDocument(r, d) \/ UpdateExtractedText(r, d)
          PROVE  \E next : Goto(r, next) /\ next.step \in {"sum", "save", "ended"}
      BY <3>3 DEF SoftDeleteDocument, UpdateExtractedText
    <3>4. ASSUME NEW r \in Requests, PublishDocumentPreprocess(r) \/ SaveDocument(r) \/ Fail(r)
          PROVE  \E next : Goto(r, next) /\ next.step \in {"sum", "save", "ended"}
      BY <3>1, <3>4 DEF PublishDocumentPreprocess, SaveDocument, Fail
    <3>5. CASE BucketCreated \/ BucketFails \/ ArchiveSession \/ Results
      BY <3>5 DEF BucketCreated, BucketFails, ArchiveSession, Results, Preprocess, LoadForResult,
                  SaveResult, SaveResultLate, ResultFails
    <3> QED BY <3>2, <3>3, <3>4, <3>5
  <2> QED BY <2>1, <2>2, <2>3
<1> QED BY <1>0, <1>2, <1>3, ChecksOutlive

LEMMA ChecksKeep ==
    ASSUME Parts, CopiesKeepTheFile, SerialChecks, Counts, Next PROVE SerialChecks'
<1>1. ASSUME NEW r \in Requests, InsertDocument(r) PROVE SerialChecks'
  BY <1>1, ChecksInsert DEF Parts
<1> QED BY <1>1, UploadChecks, ReprocessChecks, OtherChecks DEF Next, Begin, Advance

-----------------------------------------------------------------------------
(* The history                                                             *)

LEMMA HistoryCounts == ASSUME HistoryNext PROVE Remembers /\ Counts
<1>1. Remembers
  BY DEF HistoryNext, Remembers
<1>2. ~crowded' => ~crowded /\ OneInserts'
  BY Zenon DEF HistoryNext, OneInserts
<1>3. ~copied' => ~copied /\ \A r \in Requests : request'[r].step # "renumber"
  BY Zenon DEF HistoryNext
<1> QED BY <1>1, <1>2, <1>3 DEF Counts

LEMMA InitSerial == ASSUME HistoryInit PROVE SerialInv
<1>1. Init /\ raced = {} /\ Ids = {} /\ Len(docs) = 0
  BY DEF HistoryInit, Init, Ids
<1>2. \A r \in Requests : request[r].step = "idle"
  BY <1>1 DEF Init, Idle
<1>3. CopiesKeepTheFile /\ CopiesAreFresh
  BY <1>1, <1>2 DEF Init, CopiesKeepTheFile, CopiesAreFresh
<1>4. OneInserts /\ NumbersAreNew /\ VersionsDistinct
  BY <1>1, <1>2 DEF OneInserts, Inserting, NumbersAreNew, VersionsDistinct
<1>5. GetSessionDocumentBytes = 0
  <2>1. PICK f : IsSum(f, docs, Len(docs)) /\ GetSessionDocumentBytes = f[Len(docs)]
    BY <1>1, BytesAreASum
  <2>2. f[0] = 0
    BY <1>1, <2>1, SumStep
  <2> QED BY <1>1, <2>1, <2>2
<1>6. RoomIsLeft
  BY <1>2, <1>5, DocumentsAssumption DEF RoomIsLeft, WithinLimit
<1> QED BY <1>3, <1>4, <1>6 DEF SerialInv, SerialChecks

LEMMA SerialStep == ASSUME Parts, SerialInv, HistoryNext PROVE Parts' /\ SerialInv'
<1>1. Next /\ Remembers /\ Counts
  BY HistoryCounts DEF HistoryNext
<1>2. Parts'
  BY <1>1, BeginParts, AdvanceParts, FailParts, BucketParts, ArchiveParts, ResultsParts DEF Next
<1>3. Copies'
  BY <1>1, CopiesKeep DEF SerialInv, Copies
<1>4. SerialChecks'
  BY <1>1, ChecksKeep DEF SerialInv
<1> QED BY <1>2, <1>3, <1>4 DEF SerialInv, Copies

LEMMA SerialStutters == ASSUME Parts, SerialInv, UNCHANGED historyVars PROVE Parts' /\ SerialInv'
<1>1. UNCHANGED vars /\ UNCHANGED <<raced, crowded, copied>>
  BY DEF historyVars
<1>2. Parts'
  BY <1>1, StutterParts
<1>3. UNCHANGED <<docs, request, handler>> /\ Typed
  BY <1>1 DEF vars, Parts
<1>4. Copies'
  BY <1>1, <1>3
     DEF SerialInv, Copies, CopiesKeepTheFile, CopiesAreFresh, Shared, Held, Saves, Ids
<1>5. ~crowded => OneInserts' /\ NumbersAreNew' /\ VersionsDistinct' /\ (copied \/ RoomIsLeft')
  <2>1. GetSessionDocumentBytes' = GetSessionDocumentBytes
    BY <1>3, BytesKept, RecordsType
  <2> QED BY <1>3, <2>1 DEF SerialInv, SerialChecks, OneInserts, Inserting, NumbersAreNew, Beyond,
             VersionsDistinct, RoomIsLeft, WithinLimit, Ids
<1>6. SerialChecks'
  BY <1>1, <1>5 DEF SerialChecks
<1> QED BY <1>2, <1>4, <1>6 DEF SerialInv, Copies

\* The inductive invariant of the history: what a request checked before its
\* insert is still true of the rows as long as no other inserts, and a copy
\* that has its row to itself differs from it by one field.
THEOREM HistoryInvariance == HistorySpec => [](FInv /\ SerialInv)
<1>1. HistoryInit => Parts /\ SerialInv
  BY InitParts, InitSerial DEF HistoryInit
<1>2. Parts /\ SerialInv /\ [HistoryNext]_historyVars => Parts' /\ SerialInv'
  BY SerialStep, SerialStutters
<1>3. Parts => FInv
  BY InParts
<1> QED BY <1>1, <1>2, <1>3, PTL DEF HistorySpec

\* Requests that insert one after the other never give two documents of a name
\* the same number nor exceed the limit of the session, for any number of rows
\* (getNextDocumentVersion, getSessionDocumentBytes).
THEOREM ChecksHold == HistorySpec => []SerialChecksHold
<1>1. SerialInv => SerialChecksHold
  BY DEF SerialInv, SerialChecks, SerialChecksHold, RoomIsLeft
<1> QED BY <1>1, HistoryInvariance, PTL

\* A deletion is final and a correction outlives every result already
\* acknowledged, unless two steps held copies of the row together
\* (softDeleteDocument, updateExtractedText, handlePreprocessResult).
THEOREM AloneWritesStand == HistorySpec => SerialWritesStand
<1>1. FInv /\ SerialInv /\ [HistoryNext]_historyVars =>
         [\A d \in Ids \ raced : DeletionStands(d) /\ CorrectionStands(d)]_vars
  BY InParts, WritesStand DEF HistoryNext, historyVars, SerialInv, Copies
<1> QED BY <1>1, HistoryInvariance, PTL DEF HistorySpec, SerialWritesStand
=============================================================================
