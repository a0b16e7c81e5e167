---------------------------- MODULE Skills_proofs ----------------------------
(***************************************************************************)
(* Proofs about Skills and its history, for any requests, names, contents, *)
(* similarities and bounds: the mandatory catalogs, the uniqueness of the  *)
(* active one, the embeddings of the texts, and what activates a skill.    *)
(***************************************************************************)
EXTENDS SkillsHistory, FiniteSetTheorems, SequenceTheorems, TLAPS

RequestRecord == {Idle, Ended} \union Creating \union Changing \union Importing

LEMMA TypeOKDef ==
    TypeOK <=> skills \in Seq(Row) /\ Len(skills) <= MaxSkills
               /\ request \in [Requests -> RequestRecord]
BY DEF TypeOK, RequestRecord

\* What a bundle is to the proofs: a sequence.
LEMMA BundleIsSequence == ASSUME NEW b \in Bundles PROVE b \in Seq(Dto) /\ Len(b) \in 1..MaxImport
<1>1. PICK n \in 1..MaxImport : b \in [1..n -> Dto]
  BY DEF Bundles
<1>2. n \in Nat /\ b \in Seq(Dto)
  BY <1>1, SkillsAssumption
<1>3. Len(b) = n
  BY <1>1, <1>2
<1> QED BY <1>1, <1>2, <1>3

LEMMA ElementOfDomain == ASSUME NEW S, NEW q \in Seq(S), NEW i \in DOMAIN q PROVE q[i] \in S
OBVIOUS

LEMMA InitIInv == ASSUME Init PROVE IInv
BY SkillsAssumption
   DEF Init, IInv, TypeOK, CatalogsAreMandatory, CopiesAreMandatory, ImportsInRange, Ids, Idle

LEMMA NewRowType ==
    ASSUME NEW dto \in Dto, NEW embedded \in Texts \union {Unchanged}
    PROVE  NewRow(dto, embedded) \in Row /\ NewRow(dto, embedded).catalog = NewRow(dto, embedded).mandatory
BY DEF NewRow, Row, Dto

LEMMA TextsOfSkills == /\ \A row \in Row : TextOf(row) \in Texts
                       /\ \A dto \in Dto : TextOf(dto) \in Texts
BY DEF Row, Dto, TextOf, Texts

LEMMA PatchedType ==
    ASSUME NEW row \in Row, NEW name \in Names \union {Unchanged}, NEW content \in Contents \union {Unchanged},
           NEW active \in BOOLEAN \union {Unchanged}
    PROVE  LET next == Patched(row, name, content, active) IN
           /\ next \in Row /\ next.catalog = row.catalog /\ next.mandatory = row.mandatory
           /\ next.embedded = row.embedded
<1> DEFINE n == IF name = Unchanged THEN row.name ELSE name
           c == IF content = Unchanged THEN row.content ELSE content
           a == IF active = Unchanged THEN row.active ELSE active
           v == IF content \in {Unchanged, row.content} THEN row.version ELSE row.version + 1
<1>1. n \in Names /\ c \in Contents /\ a \in BOOLEAN /\ v \in Nat \ {0}
  BY DEF Row
<1>2. Patched(row, name, content, active)
        = [row EXCEPT !.name = n, !.content = c, !.active = a, !.version = v]
  BY DEF Patched
<1> HIDE DEF n, c, a, v
<1> QED BY <1>1, <1>2 DEF Row

LEMMA NewRowFields ==
    \A dto, embedded :
        LET row == NewRow(dto, embedded) IN
        row.catalog = dto.catalog /\ row.active /\ TextOf(row) = TextOf(dto) /\ row.embedded = embedded
BY DEF NewRow, TextOf

\* One more item behind those the loop has kept.
LEMMA KeepsInRange ==
    ASSUME NEW n \in Nat, NEW k \in Seq(1..n), NEW at \in 1..n,
           Len(k) < at, \A i \in DOMAIN k : k[i] < at
    PROVE  \A l \in {k, Append(k, at)} :
              /\ l \in Seq(1..n) /\ Len(l) <= Len(k) + 1
              /\ \A i \in DOMAIN l : l[i] < at + 1
<1>1. \A i \in 1..Len(k) : k[i] \in 1..n /\ k[i] < at
  OBVIOUS
<1>2. /\ Append(k, at) \in Seq(1..n) /\ Len(Append(k, at)) = Len(k) + 1
      /\ \A i \in 1..Len(k) + 1 : Append(k, at)[i] = IF i <= Len(k) THEN k[i] ELSE at
  OBVIOUS
<1>3. Len(k) \in Nat /\ at \in Nat /\ DOMAIN k = 1..Len(k)
  OBVIOUS
<1>4. DOMAIN Append(k, at) = 1..Len(k) + 1
  BY <1>2
<1>5. \A i \in DOMAIN Append(k, at) : Append(k, at)[i] < at + 1
  BY <1>1, <1>2, <1>3, <1>4
<1>6. Len(k) <= Len(k) + 1 /\ \A i \in DOMAIN k : k[i] < at + 1
  BY <1>1, <1>3
<1>7. Len(Append(k, at)) <= Len(k) + 1
  BY <1>2, <1>3
<1> DEFINE longer == Append(k, at)
<1> HIDE DEF longer
<1>8. longer \in Seq(1..n) /\ Len(longer) <= Len(k) + 1 /\ \A i \in DOMAIN longer : longer[i] < at + 1
  BY <1>2, <1>5, <1>7 DEF longer
<1>9. \A l \in {k, longer} :
          l \in Seq(1..n) /\ Len(l) <= Len(k) + 1 /\ \A i \in DOMAIN l : l[i] < at + 1
  BY <1>6, <1>8, Zenon
<1> QED BY <1>9 DEF longer

\* A request that moves on and leaves the rows alone.
LEMMA MovesOn ==
    ASSUME IInv, NEW r \in Requests, NEW next \in RequestRecord,
           Goto(r, next), UNCHANGED skills,
           next.step \in {"reembed", "save"} => (next.next.catalog => next.next.mandatory),
           next.step \in {"validate", "batch"} =>
              /\ next.at <= Len(next.bundle) + 1
              /\ next.step = "validate" => next.at <= Len(next.bundle)
              /\ Len(next.kept) < next.at
              /\ \A i \in DOMAIN next.kept : next.kept[i] < next.at
    PROVE  IInv'
<1>1. request' \in [Requests -> RequestRecord]
  BY TypeOKDef DEF IInv, Goto
<1>2. \A p \in Requests : request'[p] = IF p = r THEN next ELSE request[p]
  BY TypeOKDef DEF IInv, Goto
<1>3. RequestRecord' = RequestRecord
  BY DEF RequestRecord, Creating, Changing, Importing, Ids, Idle, Ended, Bundles, Dto, Row
<1>4. TypeOK'
  BY <1>1, <1>3 DEF IInv, TypeOK, RequestRecord
<1>5. CatalogsAreMandatory'
  BY DEF IInv, CatalogsAreMandatory, Ids
<1>6. CopiesAreMandatory'
  BY <1>2 DEF IInv, CopiesAreMandatory
<1>7. ImportsInRange'
  BY <1>2 DEF IInv, ImportsInRange
<1> QED BY <1>4, <1>5, <1>6, <1>7 DEF IInv

\* A request that ends and leaves rows that were there or are right.
LEMMA EndsWith ==
    ASSUME IInv, NEW r \in Requests, Goto(r, Ended),
           skills' \in Seq(Row), Len(skills') <= MaxSkills, Len(skills) <= Len(skills'),
           \A s \in Ids' : skills'[s].catalog => skills'[s].mandatory
    PROVE  IInv'
<1>1. Ids \subseteq Ids'
  <2>1. Len(skills) \in Nat /\ Len(skills') \in Nat
    BY DEF IInv, TypeOK
  <2> QED BY <2>1 DEF Ids
<1>2. RequestRecord \subseteq RequestRecord' /\ Ended \in RequestRecord
  <2>1. Changing \subseteq Changing'
    BY <1>1 DEF Changing, Row
  <2> QED BY <2>1 DEF RequestRecord, Creating, Importing, Idle, Ended, Bundles, Dto
<1>3. request' \in [Requests -> RequestRecord']
  BY <1>2, TypeOKDef DEF IInv, Goto
<1>4. \A p \in Requests : request'[p] = IF p = r THEN Ended ELSE request[p]
  BY TypeOKDef DEF IInv, Goto
<1>5. TypeOK'
  BY <1>3 DEF TypeOK, RequestRecord, Row
<1>6. CopiesAreMandatory'
  BY <1>4 DEF IInv, CopiesAreMandatory, Ended
<1>7. ImportsInRange'
  BY <1>4 DEF IInv, ImportsInRange, Ended
<1> QED BY <1>5, <1>6, <1>7 DEF IInv, CatalogsAreMandatory

\* The rows an import inserts: its loop keeps no more than the bundle has.
LEMMA ImportedType ==
    ASSUME IInv, NEW r \in Requests, NEW n, request[r] \in Importing, request[r].step = "batch"
    PROVE  LET q == request[r] IN
           /\ q.bundle \in Seq(Dto) /\ q.kept \in Seq(1..MaxImport) /\ Len(q.kept) <= Len(q.bundle)
           /\ Imported(q, n) \in Seq(Row) /\ Len(Imported(q, n)) = Len(q.kept)
           /\ \A i \in 1..Len(q.kept) :
                 Imported(q, n)[i] \in Row /\ Imported(q, n)[i].catalog = Imported(q, n)[i].mandatory
<1> DEFINE q == request[r]
           rows == Imported(q, n)
<1>1. q \in Importing /\ q.step = "batch"
  OBVIOUS
<1>2. q.bundle \in Seq(Dto) /\ q.kept \in Seq(1..MaxImport)
  BY <1>1, BundleIsSequence DEF Importing
<1>3. Len(q.kept) <= Len(q.bundle) /\ \A i \in 1..Len(q.kept) : q.kept[i] \in 1..Len(q.bundle)
  <2>1. MaxImport \in Nat
    BY SkillsAssumption
  <2> QED BY <1>1, <1>2, <2>1 DEF IInv, ImportsInRange, Importing
<1>4. \A i \in 1..Len(q.kept) : rows[i] \in Row /\ rows[i].catalog = rows[i].mandatory
  <2>1. ASSUME NEW i \in 1..Len(q.kept)
        PROVE q.bundle[i] \in Dto /\ TextOf(q.bundle[q.kept[i]]) \in Texts
    <3>1. i \in 1..Len(q.bundle) /\ q.kept[i] \in 1..Len(q.bundle)
      BY <1>2, <1>3
    <3>2. q.bundle[i] \in Dto /\ q.bundle[q.kept[i]] \in Dto
      BY <1>2, <3>1, ElementOfSeq
    <3> QED BY <3>2, TextsOfSkills
  <2>2. \A i \in 1..Len(q.kept) :
            \/ rows[i] = NewRow(q.bundle[i], TextOf(q.bundle[q.kept[i]]))
            \/ rows[i] = NewRow(q.bundle[i], Unchanged)
    BY DEF Imported
  <2> HIDE DEF rows, q
  <2> QED BY <2>1, <2>2, NewRowType
<1>5. rows \in Seq(Row) /\ Len(rows) = Len(q.kept)
  <2>1. rows \in [1..Len(q.kept) -> Row] /\ Len(q.kept) \in Nat
    <3>1. rows = [i \in 1..Len(q.kept) |-> rows[i]]
      BY DEF Imported
    <3>2. Len(q.kept) \in Nat
      BY <1>2
    <3> HIDE DEF rows, q
    <3> QED BY <1>4, <3>1, <3>2
  <2> HIDE DEF rows
  <2> QED BY <2>1
<1> QED BY <1>2, <1>3, <1>4, <1>5

LEMMA ServeIInv == ASSUME IInv, NEW r \in Requests, Serve(r) PROVE IInv'
<1> USE DEF Idle, Ended
<1>0. /\ skills \in Seq(Row) /\ request \in [Requests -> RequestRecord]
      /\ Ended \in RequestRecord
  BY TypeOKDef DEF IInv, RequestRecord
<1>1. ASSUME NEW dto \in Dto, Create(r, dto) PROVE IInv'
  <2>1. [step |-> "embed", dto |-> dto] \in RequestRecord
    BY DEF RequestRecord, Creating
  <2> QED BY <1>0, <1>1, <2>1, MovesOn DEF Create
<1>2. CASE Embed(r)
  <2>1. request[r] \in Creating
    BY <1>0, <1>2 DEF Embed, RequestRecord, Creating, Changing, Importing
  <2>2. [request[r] EXCEPT !.step = "insert"] \in RequestRecord
    BY <2>1 DEF RequestRecord, Creating
  <2>3. [request[r] EXCEPT !.step = "insert"].step = "insert"
    BY <2>1 DEF Creating
  <2> QED BY <1>0, <1>2, <2>2, <2>3, MovesOn DEF Embed
<1>3. CASE Insert(r)
  <2>1. request[r] \in Creating
    BY <1>0, <1>3 DEF Insert, RequestRecord, Creating, Changing, Importing
  <2> DEFINE row == NewRow(request[r].dto, TextOf(request[r].dto))
  <2>2. row \in Row /\ row.catalog = row.mandatory
    BY <2>1, NewRowType, TextsOfSkills DEF Creating
  <2>3. skills' = Append(skills, row) /\ Len(skills) < MaxSkills /\ Goto(r, Ended)
    BY <1>3 DEF Insert, LogSkillChange
  <2> HIDE DEF row
  <2>4. /\ skills' \in Seq(Row) /\ Len(skills') = Len(skills) + 1
        /\ \A s \in 1..Len(skills) : skills'[s] = skills[s]
        /\ skills'[Len(skills) + 1] = row
    BY <1>0, <2>2, <2>3
  <2>5. \A s \in Ids' : skills'[s].catalog => skills'[s].mandatory
    BY <1>0, <2>2, <2>4 DEF IInv, CatalogsAreMandatory, Ids
  <2>6. Len(skills') <= MaxSkills /\ Len(skills) <= Len(skills')
    BY <1>0, <2>3, <2>4, SkillsAssumption
  <2> QED BY <2>3, <2>4, <2>5, <2>6, EndsWith
<1>4. ASSUME NEW s \in Ids, NEW name \in Names \union {Unchanged},
             NEW content \in Contents \union {Unchanged}, NEW active \in BOOLEAN \union {Unchanged},
             NEW mandatory \in BOOLEAN \union {Unchanged},
             Update(r, s, name, content, active, mandatory)
      PROVE IInv'
  <2> DEFINE next == Patched(skills[s], name, content, active)
             step == IF next.content = skills[s].content THEN "save" ELSE "reembed"
             record == [step |-> step, op |-> "update", skill |-> s, next |-> next]
  <2>1. skills[s] \in Row /\ (skills[s].catalog => skills[s].mandatory)
    BY <1>0 DEF IInv, CatalogsAreMandatory, Ids
  <2>2. next \in Row /\ next.catalog = skills[s].catalog /\ next.mandatory = skills[s].mandatory
    BY <2>1, PatchedType
  <2>3. Goto(r, IF skills[s].catalog /\ mandatory = FALSE THEN Ended ELSE record) /\ UNCHANGED skills
    BY <1>4 DEF Update
  <2> HIDE DEF next
  <2>4. record \in RequestRecord
    BY <2>2 DEF RequestRecord, Changing
  <2> QED BY <1>0, <2>1, <2>2, <2>3, <2>4, MovesOn
<1>5. CASE Reembed(r)
  <2>1. request[r] \in Changing
    BY <1>0, <1>5 DEF Reembed, RequestRecord, Creating, Changing, Importing
  <2> DEFINE record == [request[r] EXCEPT !.step = "save", !.next.embedded = TextOf(request[r].next)]
  <2>2. record \in Changing /\ record.next.catalog = request[r].next.catalog
        /\ record.next.mandatory = request[r].next.mandatory /\ record.step = "save"
    BY <2>1, TextsOfSkills DEF Changing, Row
  <2>3. Goto(r, record) \/ Goto(r, Ended)
    BY <1>5 DEF Reembed
  <2>4. UNCHANGED skills /\ request[r].step = "reembed"
    BY <1>5 DEF Reembed
  <2> HIDE DEF record
  <2>5. record.next.catalog => record.next.mandatory
    BY <2>2, <2>4 DEF IInv, CopiesAreMandatory
  <2>6. record \in RequestRecord
    BY <2>2 DEF RequestRecord
  <2> QED BY <1>0, <2>2, <2>3, <2>4, <2>5, <2>6, MovesOn
<1>6. ASSUME NEW s \in Ids, Remove(r, s) PROVE IInv'
  <2> DEFINE next == [skills[s] EXCEPT !.active = FALSE]
             record == [step |-> "save", op |-> "remove", skill |-> s, next |-> next]
  <2>1. skills[s] \in Row /\ (skills[s].catalog => skills[s].mandatory)
    BY <1>0 DEF IInv, CatalogsAreMandatory, Ids
  <2>2. next \in Row /\ next.catalog = skills[s].catalog /\ next.mandatory = skills[s].mandatory
    BY <2>1 DEF Row
  <2>3. Goto(r, IF skills[s].catalog /\ skills[s].mandatory THEN Ended ELSE record) /\ UNCHANGED skills
    BY <1>6 DEF Remove
  <2> HIDE DEF next
  <2>4. record \in RequestRecord
    BY <2>2 DEF RequestRecord, Changing
  <2> QED BY <1>0, <2>1, <2>2, <2>3, <2>4, MovesOn
<1>7. CASE Save(r)
  <2>1. request[r] \in Changing
    BY <1>0, <1>7 DEF Save, RequestRecord, Creating, Changing, Importing
  <2> DEFINE s == request[r].skill
             row == request[r].next
  <2>2. s \in Ids /\ row \in Row /\ (row.catalog => row.mandatory)
    BY <1>7, <2>1 DEF Changing, Save, IInv, CopiesAreMandatory
  <2>3. skills' = [skills EXCEPT ![s] = row] /\ Goto(r, Ended)
    BY <1>7 DEF Save, LogSkillChange
  <2> HIDE DEF s, row
  <2>4. /\ skills' \in Seq(Row) /\ Len(skills') = Len(skills)
        /\ \A i \in Ids : skills'[i] = IF i = s THEN row ELSE skills[i]
    BY <1>0, <2>2, <2>3 DEF Ids
  <2>5. \A i \in Ids' : skills'[i].catalog => skills'[i].mandatory
    BY <2>2, <2>4 DEF IInv, CatalogsAreMandatory, Ids
  <2>6. Len(skills') <= MaxSkills /\ Len(skills) <= Len(skills')
    BY <1>0, <2>4 DEF IInv, TypeOK
  <2> QED BY <2>3, <2>4, <2>5, <2>6, EndsWith
<1>8. ASSUME NEW bundle \in Bundles, Import(r, bundle) PROVE IInv'
  <2> DEFINE record == [step |-> "validate", bundle |-> bundle, kept |-> <<>>, at |-> 1]
  <2>1. Len(bundle) \in 1..MaxImport
    BY BundleIsSequence
  <2>2. record \in Importing
    BY <2>1, SkillsAssumption DEF Importing
  <2>3. record \in RequestRecord
    BY <2>2 DEF RequestRecord
  <2> QED BY <1>8, <2>1, <2>3, SkillsAssumption, MovesOn DEF Import
<1>9. CASE Validate(r)
  <2> DEFINE q == request[r]
             step == IF q.at = Len(q.bundle) THEN "batch" ELSE q.step
             kept == IF q.bundle[q.at].catalog /\ CatalogExists THEN q.kept ELSE Append(q.kept, q.at)
             record == [q EXCEPT !.step = step, !.at = q.at + 1, !.kept = kept]
  <2>1. q \in Importing /\ q.step = "validate"
    BY <1>0, <1>9 DEF Validate, RequestRecord, Creating, Changing, Importing
  <2>2. Len(q.bundle) \in 1..MaxImport /\ q.at \in 1..Len(q.bundle)
        /\ Len(q.kept) < q.at /\ \A i \in DOMAIN q.kept : q.kept[i] < q.at
    BY <2>1, BundleIsSequence, SkillsAssumption DEF IInv, ImportsInRange, Importing
  <2>3. Goto(r, record) /\ UNCHANGED skills
    BY <1>9 DEF Validate
  <2>4. q.kept \in Seq(1..MaxImport) /\ q.at \in 1..MaxImport
    BY <2>1, <2>2, SkillsAssumption DEF Importing
  <2>5. /\ kept \in Seq(1..MaxImport) /\ Len(kept) <= Len(q.kept) + 1
        /\ \A i \in DOMAIN kept : kept[i] < q.at + 1
    <3>1. kept \in {q.kept, Append(q.kept, q.at)}
      OBVIOUS
    <3> HIDE DEF kept, q
    <3> QED BY <2>2, <2>4, <3>1, SkillsAssumption, KeepsInRange
  <2> HIDE DEF kept
  <2>6. record \in Importing /\ record.at = q.at + 1 /\ record.kept = kept
        /\ record.bundle = q.bundle /\ record.step = step
    <3>1. q.at + 1 \in 1..MaxImport + 1 /\ step \in {"validate", "batch"}
      BY <2>1, <2>4, SkillsAssumption
    <3> HIDE DEF step
    <3> QED BY <2>1, <2>5, <3>1 DEF Importing
  <2>7. record.at <= Len(record.bundle) + 1 /\ Len(record.kept) < record.at
        /\ (record.step = "validate" => record.at <= Len(record.bundle))
    <3>1. Len(kept) \in Nat /\ Len(q.kept) \in Nat /\ Len(q.bundle) \in Nat /\ q.at \in Nat
      BY <2>2, <2>4, <2>5, SkillsAssumption
    <3>2. record.step = "validate" => q.at # Len(q.bundle)
      BY <2>6
    <3> HIDE DEF record, q
    <3> QED BY <2>2, <2>5, <2>6, <3>1, <3>2
  <2>8. \A i \in DOMAIN record.kept : record.kept[i] < record.at
    BY <2>5, <2>6
  <2>9. record \in RequestRecord
    BY <2>6 DEF RequestRecord
  <2> HIDE DEF record
  <2>10. record.step \in {"validate", "batch"}
    BY <2>1, <2>6
  <2> QED BY <2>3, <2>7, <2>8, <2>9, <2>10, MovesOn
<1>10. ASSUME NEW n \in 0..MaxImport, InsertBatch(r, n) PROVE IInv'
  <2> DEFINE q == request[r]
             rows == Imported(q, n)
  <2>1. q \in Importing /\ q.step = "batch"
    <3>1. q.step = "batch"
      BY <1>10 DEF InsertBatch
    <3>2. q \in RequestRecord
      BY <1>0
    <3> HIDE DEF q
    <3> QED BY <3>1, <3>2 DEF RequestRecord, Creating, Changing, Importing
  <2>2. /\ rows \in Seq(Row) /\ Len(rows) = Len(q.kept)
        /\ \A i \in 1..Len(q.kept) : rows[i] \in Row /\ rows[i].catalog = rows[i].mandatory
    <3>1. request[r] \in Importing /\ request[r].step = "batch"
      BY <2>1
    <3> QED BY <3>1, ImportedType, Zenon
  <2>6. skills' = skills \o rows /\ Len(skills) + Len(q.kept) <= MaxSkills /\ Goto(r, Ended)
    BY <1>10 DEF InsertBatch
  <2> HIDE DEF rows, q
  <2>7. /\ skills' \in Seq(Row) /\ Len(skills') = Len(skills) + Len(rows)
        /\ \A i \in 1..Len(skills') :
              skills'[i] = IF i <= Len(skills) THEN skills[i] ELSE rows[i - Len(skills)]
    <3>1. skills \in Seq(Row) /\ rows \in Seq(Row)
      BY <1>0, <2>2
    <3> QED BY <2>6, <3>1
  <2>8. Len(skills) \in Nat /\ Len(rows) \in Nat
    BY <1>0, <2>2
  <2>9. ASSUME NEW i \in Ids' PROVE skills'[i].catalog => skills'[i].mandatory
    <3>1. CASE i <= Len(skills)
      BY <2>7, <2>8, <2>9, <3>1 DEF IInv, CatalogsAreMandatory, Ids
    <3>2. CASE i > Len(skills)
      <4>1. i - Len(skills) \in 1..Len(q.kept)
        BY <2>2, <2>7, <2>8, <2>9, <3>2 DEF Ids
      <4>2. rows[i - Len(skills)].catalog => rows[i - Len(skills)].mandatory
        BY <2>2, <4>1
      <4>3. i \in 1..Len(skills') /\ ~(i <= Len(skills))
        BY <2>7, <2>8, <2>9, <3>2 DEF Ids
      <4>4. skills'[i] = rows[i - Len(skills)]
        BY <2>7, <4>3
      <4> QED BY <4>2, <4>4
    <3> QED BY <2>8, <2>9, <2>7, <3>1, <3>2 DEF Ids
  <2>10. Len(skills') <= MaxSkills /\ Len(skills) <= Len(skills')
    BY <2>2, <2>6, <2>7, <2>8
  <2> QED BY <2>6, <2>7, <2>9, <2>10, EndsWith
<1>11. CASE BatchFails(r)
  BY <1>0, <1>11, MovesOn DEF BatchFails
<1> QED BY <1>1, <1>2, <1>3, <1>4, <1>5, <1>6, <1>7, <1>8, <1>9, <1>10, <1>11 DEF Serve

LEMMA StutterIInv == ASSUME IInv, UNCHANGED vars PROVE IInv'
BY DEF vars, IInv, TypeOK, CatalogsAreMandatory, CopiesAreMandatory, ImportsInRange, Ids,
       Creating, Changing, Importing

\* The inductive invariant holds in every reachable state.
THEOREM Invariance == Spec => []IInv
<1>1. Init => IInv
  BY InitIInv
<1>2. IInv /\ [Next]_vars => IInv'
  BY ServeIInv, StutterIInv DEF Next
<1> QED BY <1>1, <1>2, PTL DEF Spec

\* Every reachable state is type-correct: requests only hold rows that exist.
THEOREM TypeCorrect == Spec => []TypeOK
BY Invariance, PTL DEF IInv

\* An ACTOR_CATALOG is mandatory in every row, by whichever of create, PATCH,
\* delete and import it came about and however they overlap, so that
\* listMandatorySkills never misses an active one.
THEOREM CatalogsStayMandatory == Spec => []CatalogsAreMandatory
BY Invariance, PTL DEF IInv
-----------------------------------------------------------------------------
(* The history of a step                                                   *)

Remembers ==
    /\ raced \subseteq raced' /\ asked \subseteq asked'
    /\ \A s \in Ids : \A p, r \in Requests : p # r /\ Holds(p, s)' /\ Holds(r, s)' => s \in raced'
    /\ \A s \in Ids : \A a \in BOOLEAN : \A r \in Requests : Asks(r, s, a) => <<s, a>> \in asked'
    /\ ~crowded' => /\ ~crowded
                    /\ \A p, r \in Requests : Founds(p)' /\ Founds(r)' => p = r
                    /\ \A r \in Requests : ~HasTwins(r)'
    /\ ~shifted' => ~shifted /\ \A r \in Requests : ~Shifts(r)'
    /\ \A r \in staleCopies : Save(r) => request[r].skill \in stale' \/ request[r].skill \notin Ids'
    /\ \A s \in stale \intersect Ids' : s \in stale' \/ \E r \in Requests : Save(r) /\ request[r].skill = s
    /\ \A r \in Requests : \A n \in 0..MaxImport : \A s \in Ids' :
          InsertBatch(r, n) /\ Mispairs(r, n, s) => s \in stale'
    /\ \A r \in Requests : Leaves(r) \/ (r \in staleCopies /\ ~Save(r)) => r \in staleCopies'

LEMMA HistoryRemembers == ASSUME HistoryNext PROVE Remembers
<1>1. raced \subseteq raced' /\ asked \subseteq asked'
  BY DEF HistoryNext
<1>2. \A s \in Ids : \A p, r \in Requests : p # r /\ Holds(p, s)' /\ Holds(r, s)' => s \in raced'
  BY DEF HistoryNext
<1>3. ASSUME NEW s \in Ids, NEW a \in BOOLEAN, NEW r \in Requests, Asks(r, s, a)
      PROVE  <<s, a>> \in asked'
  <2> DEFINE w == <<s, a>>
  <2>1. w \in Ids \X BOOLEAN /\ Asks(r, w[1], w[2])
    BY <1>3
  <2> HIDE DEF w
  <2>2. w \in {v \in Ids \X BOOLEAN : \E q \in Requests : Asks(q, v[1], v[2])}
    BY <2>1
  <2>3. asked' = asked \union {v \in Ids \X BOOLEAN : \E q \in Requests : Asks(q, v[1], v[2])}
    BY DEF HistoryNext
  <2> QED BY <2>2, <2>3 DEF w
<1>4. ~crowded' => /\ ~crowded
                   /\ \A p, r \in Requests : Founds(p)' /\ Founds(r)' => p = r
                   /\ \A r \in Requests : ~HasTwins(r)'
  BY Zenon DEF HistoryNext
<1>5. ~shifted' => ~shifted /\ \A r \in Requests : ~Shifts(r)'
  BY Zenon DEF HistoryNext
<1>6. /\ \A r \in staleCopies : Save(r) => request[r].skill \in stale' \/ request[r].skill \notin Ids'
      /\ \A s \in stale \intersect Ids' : s \in stale' \/ \E r \in Requests : Save(r) /\ request[r].skill = s
      /\ \A r \in Requests : \A n \in 0..MaxImport : \A s \in Ids' :
            InsertBatch(r, n) /\ Mispairs(r, n, s) => s \in stale'
  <2>1. stale' = {s \in Ids' :
            \/ \E r \in staleCopies : Save(r) /\ request[r].skill = s
            \/ s \in stale /\ ~\E r \in Requests : Save(r) /\ request[r].skill = s
            \/ \E r \in Requests : \E n \in 0..MaxImport : InsertBatch(r, n) /\ Mispairs(r, n, s)}
    BY DEF HistoryNext
  <2>2. \A s \in Ids' : s \in stale' <=>
            \/ \E r \in staleCopies : Save(r) /\ request[r].skill = s
            \/ s \in stale /\ ~\E r \in Requests : Save(r) /\ request[r].skill = s
            \/ \E r \in Requests : \E n \in 0..MaxImport : InsertBatch(r, n) /\ Mispairs(r, n, s)
    BY <2>1, Zenon
  <2> QED BY <2>2, Zenon
<1>7. \A r \in Requests : Leaves(r) \/ (r \in staleCopies /\ ~Save(r)) => r \in staleCopies'
  BY Zenon DEF HistoryNext
<1> QED BY <1>1, <1>2, <1>3, <1>4, <1>5, <1>6, <1>7, Zenon DEF Remembers

LEMMA RecordsType ==
    ASSUME IInv
    PROVE  /\ skills \in Seq(Row) /\ Len(skills) \in Nat /\ \A s \in Ids : skills[s] \in Row
           /\ request \in [Requests -> RequestRecord]
           /\ \A r \in Requests :
                 LET q == request[r] IN
                 /\ q.step \in {"embed", "insert"} => q \in Creating /\ q.dto \in Dto
                 /\ q.step \in {"reembed", "save"} =>
                       q \in Changing /\ q.skill \in Ids /\ q.next \in Row
                 /\ q.step \in {"validate", "batch"} => q \in Importing
<1>1. skills \in Seq(Row) /\ request \in [Requests -> RequestRecord]
  BY TypeOKDef DEF IInv
<1>2. Len(skills) \in Nat /\ \A s \in Ids : skills[s] \in Row
  BY <1>1 DEF Ids
<1>3. \A q \in RequestRecord :
          /\ q.step \in {"embed", "insert"} => q \in Creating /\ q.dto \in Dto
          /\ q.step \in {"reembed", "save"} => q \in Changing /\ q.skill \in Ids /\ q.next \in Row
          /\ q.step \in {"validate", "batch"} => q \in Importing
  BY DEF RequestRecord, Creating, Changing, Importing, Idle, Ended
<1> QED BY <1>1, <1>2, <1>3

-----------------------------------------------------------------------------
(* Copies of rows                                                          *)

Copies == CopiesKeepTheType /\ CopiesAreAsked

\* A step that takes no copy and rewrites no row.
LEMMA CopiesStand ==
    ASSUME IInv, Copies, Remembers, Ids \subseteq Ids', \A s \in Ids : skills'[s] = skills[s],
           \A r \in Requests : \A s :
              Holds(r, s)' => /\ Holds(r, s)
                              /\ request'[r].next.catalog = request[r].next.catalog
                              /\ request'[r].next.active = request[r].next.active
    PROVE  Copies'
<1>1. \A r \in Requests : \A s : Holds(r, s) => s \in Ids
  BY RecordsType DEF Holds
<1>2. CopiesKeepTheType'
  BY <1>1 DEF Copies, CopiesKeepTheType
<1>3. ASSUME NEW s \in Ids' \ raced'
      PROVE  /\ \A p, r \in Requests : Holds(p, s)' /\ Holds(r, s)' => p = r
             /\ \A r \in Requests :
                   Holds(r, s)' /\ request'[r].next.active # skills'[s].active
                   /\ (request'[r].next.active \/ skills'[s].catalog)
                       => <<s, request'[r].next.active>> \in asked'
  <2>1. CASE s \notin Ids
    BY <1>1, <2>1
  <2>2. CASE s \in Ids
    <3>1. s \in Ids \ raced /\ asked \subseteq asked' /\ skills'[s] = skills[s]
      BY <1>3, <2>2 DEF Remembers
    <3> QED BY <3>1 DEF Copies, CopiesAreAsked
  <2> QED BY <2>1, <2>2
<1> QED BY <1>2, <1>3 DEF Copies, CopiesAreAsked

\* A request takes a copy of a row, to change isActive as it was asked.
LEMMA CopyTaken ==
    ASSUME IInv, Copies, Remembers, UNCHANGED skills,
           NEW r \in Requests, NEW s \in Ids, NEW next, Goto(r, next), next.skill = s,
           next.step \in {"reembed", "save"}, next.next.catalog = skills[s].catalog,
           next.next.active # skills[s].active /\ (next.next.active \/ skills[s].catalog)
              => <<s, next.next.active>> \in asked'
    PROVE  Copies'
<1>1. \A p \in Requests : request'[p] = IF p = r THEN next ELSE request[p]
  BY RecordsType DEF Goto
<1>2. Ids' = Ids /\ skills' = skills /\ raced \subseteq raced' /\ asked \subseteq asked'
  BY DEF Ids, Remembers
<1>3. Holds(r, s)' /\ \A p \in Requests : \A t :
          Holds(p, t)' => (p = r /\ t = s) \/ (p # r /\ Holds(p, t) /\ request'[p] = request[p])
  BY <1>1 DEF Holds
<1>4. CopiesKeepTheType'
  BY <1>1, <1>2, <1>3 DEF Copies, CopiesKeepTheType
<1>5. ASSUME NEW t \in Ids \ raced'
      PROVE  /\ \A p, q \in Requests : Holds(p, t)' /\ Holds(q, t)' => p = q
             /\ \A p \in Requests :
                   Holds(p, t)' /\ request'[p].next.active # skills[t].active
                   /\ (request'[p].next.active \/ skills[t].catalog)
                       => <<t, request'[p].next.active>> \in asked'
  <2>1. t \in Ids \ raced /\ \A p, q \in Requests : Holds(p, t)' /\ Holds(q, t)' => p = q
    BY <1>2, <1>5 DEF Remembers
  <2>2. ASSUME NEW p \in Requests, Holds(p, t)', request'[p].next.active # skills[t].active,
               request'[p].next.active \/ skills[t].catalog
        PROVE  <<t, request'[p].next.active>> \in asked'
    <3>1. CASE p = r /\ t = s
      BY <1>1, <2>2, <3>1
    <3>2. CASE Holds(p, t) /\ request'[p] = request[p]
      BY <1>2, <2>1, <2>2, <3>2 DEF Copies, CopiesAreAsked
    <3> QED BY <1>3, <2>2, <3>1, <3>2
  <2> QED BY <2>1, <2>2
<1> QED BY <1>2, <1>4, <1>5 DEF Copies, CopiesAreAsked

LEMMA SaveEffect ==
    ASSUME IInv, NEW r \in Requests, Save(r)
    PROVE  LET t == request[r].skill IN
           /\ Holds(r, t) /\ t \in Ids /\ request[r].next \in Row /\ Ids' = Ids
           /\ \A s \in Ids : skills'[s] = IF s = t THEN request[r].next ELSE skills[s]
           /\ \A p \in Requests : request'[p] = IF p = r THEN Ended ELSE request[p]
           /\ \A p \in Requests : \A s : Holds(p, s)' => p # r /\ Holds(p, s)
<1>1. /\ request[r].step = "save" /\ Goto(r, Ended)
      /\ skills' = [skills EXCEPT ![request[r].skill] = request[r].next]
  BY DEF Save, LogSkillChange
<1>2. /\ request[r].skill \in Ids /\ request[r].next \in Row /\ skills \in Seq(Row)
      /\ request \in [Requests -> RequestRecord]
  BY <1>1, RecordsType
<1>3. \A p \in Requests : request'[p] = IF p = r THEN Ended ELSE request[p]
  BY <1>1, <1>2 DEF Goto
<1>4. Ids' = Ids /\ \A s \in Ids : skills'[s] = IF s = request[r].skill THEN request[r].next ELSE skills[s]
  BY <1>1, <1>2 DEF Ids
<1>5. \A p \in Requests : \A s : Holds(p, s)' => p # r /\ Holds(p, s)
  BY <1>3 DEF Holds, Ended
<1>6. Holds(r, request[r].skill)
  BY <1>1 DEF Holds
<1> QED BY <1>2, <1>3, <1>4, <1>5, <1>6

LEMMA CopySaved ==
    ASSUME IInv, Copies, Remembers, NEW r \in Requests, Save(r) PROVE Copies'
<1> DEFINE t == request[r].skill
<1>1. /\ Holds(r, t) /\ t \in Ids /\ request[r].next \in Row /\ Ids' = Ids
      /\ \A s \in Ids : skills'[s] = IF s = t THEN request[r].next ELSE skills[s]
      /\ \A p \in Requests : request'[p] = IF p = r THEN Ended ELSE request[p]
      /\ \A p \in Requests : \A s : Holds(p, s)' => p # r /\ Holds(p, s)
  BY SaveEffect
<1> HIDE DEF t
<1>2. \A s \in Ids : skills'[s].catalog = skills[s].catalog
  BY <1>1 DEF Copies, CopiesKeepTheType
<1>3. CopiesKeepTheType'
  BY <1>1, <1>2 DEF Copies, CopiesKeepTheType
<1>4. ASSUME NEW s \in Ids \ raced'
      PROVE  /\ \A p, q \in Requests : Holds(p, s)' /\ Holds(q, s)' => p = q
             /\ \A p \in Requests :
                   Holds(p, s)' /\ request'[p].next.active # skills'[s].active
                   /\ (request'[p].next.active \/ skills'[s].catalog)
                       => <<s, request'[p].next.active>> \in asked'
  <2>1. s \in Ids \ raced /\ asked \subseteq asked'
    BY <1>4 DEF Remembers
  <2>2. CASE s = t
    <3>1. \A p \in Requests : ~Holds(p, s)'
      BY <1>1, <2>1, <2>2 DEF Copies, CopiesAreAsked
    <3> QED BY <3>1
  <2>3. CASE s # t
    BY <1>1, <2>1, <2>3 DEF Copies, CopiesAreAsked
  <2> QED BY <2>2, <2>3
<1> QED BY <1>1, <1>3, <1>4 DEF Copies, CopiesAreAsked
\* A request goes where it holds no copy, and the rows that were there stay.
LEMMA StepAway ==
    ASSUME IInv, Copies, Remembers, NEW r \in Requests, NEW next, Goto(r, next),
           next.step \notin {"reembed", "save"},
           Ids \subseteq Ids', \A s \in Ids : skills'[s] = skills[s]
    PROVE  Copies'
<1>1. \A p \in Requests : request'[p] = IF p = r THEN next ELSE request[p]
  BY RecordsType DEF Goto
<1>2. \A p \in Requests : \A s : Holds(p, s)' => Holds(p, s) /\ request'[p] = request[p]
  BY <1>1 DEF Holds
<1> QED BY <1>2, CopiesStand

LEMMA InsertEffect ==
    ASSUME IInv, NEW r \in Requests, Insert(r)
    PROVE  /\ request[r].step = "insert" /\ request[r].dto \in Dto /\ Goto(r, Ended)
           /\ Ids' = Ids \union {Len(skills) + 1} /\ Len(skills) + 1 \notin Ids
           /\ \A s \in Ids : skills'[s] = skills[s]
           /\ skills'[Len(skills) + 1] = NewRow(request[r].dto, TextOf(request[r].dto))
<1>1. /\ request[r].step = "insert" /\ Goto(r, Ended)
      /\ skills' = Append(skills, NewRow(request[r].dto, TextOf(request[r].dto)))
  BY DEF Insert, LogSkillChange
<1>2. request[r].dto \in Dto /\ skills \in Seq(Row) /\ Len(skills) \in Nat
  BY <1>1, RecordsType
<1>3. NewRow(request[r].dto, TextOf(request[r].dto)) \in Row
  BY <1>2, NewRowType, TextsOfSkills
<1> DEFINE row == NewRow(request[r].dto, TextOf(request[r].dto))
<1> HIDE DEF row
<1>4. /\ Len(skills') = Len(skills) + 1 /\ skills'[Len(skills) + 1] = row
      /\ \A s \in 1..Len(skills) : skills'[s] = skills[s]
  BY <1>1, <1>2, <1>3 DEF row
<1>5. Ids' = Ids \union {Len(skills) + 1} /\ Len(skills) + 1 \notin Ids
  BY <1>2, <1>4 DEF Ids
<1> QED BY <1>1, <1>2, <1>4, <1>5 DEF Ids, row

LEMMA InsertBatchEffect ==
    ASSUME IInv, NEW r \in Requests, NEW n \in 0..MaxImport, InsertBatch(r, n)
    PROVE  LET q == request[r] IN
           /\ q.step = "batch" /\ Goto(r, Ended)
           /\ Ids \subseteq Ids' /\ \A s \in Ids : skills'[s] = skills[s]
           /\ \A i \in 1..Len(q.kept) : i \in DOMAIN q.kept /\ i \in DOMAIN q.bundle
           /\ \A s \in Ids' \ Ids : \E i \in 1..Len(q.kept) :
                 /\ s = Len(skills) + i
                 /\ skills'[s] = NewRow(q.bundle[i], IF i <= n THEN TextOf(q.bundle[q.kept[i]]) ELSE Unchanged)
<1> DEFINE q == request[r]
           rows == Imported(q, n)
<1>1. /\ q.step = "batch" /\ Goto(r, Ended) /\ skills' = skills \o rows
  BY DEF InsertBatch
<1>2. q \in Importing /\ skills \in Seq(Row) /\ Len(skills) \in Nat
  BY <1>1, RecordsType
<1>3. /\ q.bundle \in Seq(Dto) /\ q.kept \in Seq(1..MaxImport) /\ Len(q.bundle) \in Nat
      /\ Len(q.kept) \in Nat /\ q.at \in Nat
  BY <1>2, BundleIsSequence, SkillsAssumption DEF Importing
<1>4. Len(q.kept) <= Len(q.bundle)
  BY <1>1, <1>2, <1>3 DEF IInv, ImportsInRange
<1>5. \A i \in 1..Len(q.kept) : i \in DOMAIN q.kept /\ i \in DOMAIN q.bundle
  BY <1>3, <1>4
<1>6. rows = [i \in 1..Len(q.kept) |->
                NewRow(q.bundle[i], IF i <= n THEN TextOf(q.bundle[q.kept[i]]) ELSE Unchanged)]
  BY DEF Imported
<1>7. /\ Len(skills') = Len(skills) + Len(q.kept)
      /\ \A s \in 1..Len(skills') :
            skills'[s] = IF s <= Len(skills) THEN skills[s] ELSE rows[s - Len(skills)]
  <2>1. rows \in Seq(Row) /\ Len(rows) = Len(q.kept)
    BY <1>1, <1>2, ImportedType
  <2>2. skills \in Seq(Row) /\ rows \in Seq(Row) /\ skills' = skills \o rows
    BY <1>1, <1>2, <2>1
  <2> HIDE DEF rows, q
  <2>3. /\ Len(skills') = Len(skills) + Len(rows)
        /\ \A s \in 1..Len(skills') :
              skills'[s] = IF s <= Len(skills) THEN skills[s] ELSE rows[s - Len(skills)]
    BY <2>2
  <2> QED BY <2>1, <2>3
<1> HIDE DEF rows, q
<1>8. Ids \subseteq Ids' /\ \A s \in Ids : skills'[s] = skills[s]
  BY <1>2, <1>3, <1>7 DEF Ids
<1>9. ASSUME NEW s \in Ids' \ Ids
      PROVE  \E i \in 1..Len(q.kept) :
                /\ s = Len(skills) + i
                /\ skills'[s] = NewRow(q.bundle[i], IF i <= n THEN TextOf(q.bundle[q.kept[i]]) ELSE Unchanged)
  <2>1. s - Len(skills) \in 1..Len(q.kept) /\ s = Len(skills) + (s - Len(skills))
    BY <1>2, <1>3, <1>7, <1>9 DEF Ids
  <2>2. skills'[s] = rows[s - Len(skills)]
    BY <1>2, <1>3, <1>7, <1>9, <2>1 DEF Ids
  <2> QED BY <1>6, <2>1, <2>2
<1> QED BY <1>1, <1>5, <1>8, <1>9 DEF q

\* What a PATCH makes of the row, and what is asked for with it.
LEMMA UpdateEffect ==
    ASSUME IInv, NEW r \in Requests, NEW s \in Ids, NEW name \in Names \union {Unchanged},
           NEW content \in Contents \union {Unchanged}, NEW active \in BOOLEAN \union {Unchanged}, NEW mandatory,
           Update(r, s, name, content, active, mandatory)
    PROVE  /\ request[r] = Idle /\ UNCHANGED skills
           /\ \/ Goto(r, Ended)
              \/ \E next \in Changing :
                    /\ Goto(r, next) /\ next.op = "update" /\ next.skill = s
                    /\ next.next.catalog = skills[s].catalog
                    /\ next.next.embedded = skills[s].embedded
                    /\ next.step = "save" => next.next.content = skills[s].content
<1> DEFINE copy == Patched(skills[s], name, content, active)
           next == [step |-> IF copy.content = skills[s].content THEN "save" ELSE "reembed",
                    op |-> "update", skill |-> s, next |-> copy]
<1>1. /\ request[r] = Idle /\ UNCHANGED skills
      /\ Goto(r, IF skills[s].catalog /\ mandatory = FALSE THEN Ended ELSE next)
  BY DEF Update
<1>2. skills[s] \in Row
  BY RecordsType
<1>3. copy \in Row /\ copy.catalog = skills[s].catalog
  BY <1>2, PatchedType
<1>4. copy.embedded = skills[s].embedded
  BY <1>2, PatchedType
<1> HIDE DEF copy
<1>5. /\ next \in Changing /\ next.op = "update" /\ next.skill = s /\ next.next = copy
      /\ next.step = "save" => next.next.content = skills[s].content
  BY <1>3 DEF Changing
<1> HIDE DEF next
<1> QED BY <1>1, <1>3, <1>4, <1>5

LEMMA RemoveEffect ==
    ASSUME IInv, NEW r \in Requests, NEW s \in Ids, Remove(r, s)
    PROVE  /\ UNCHANGED skills
           /\ \/ Goto(r, Ended)
              \/ \E next \in Changing :
                    /\ Goto(r, next) /\ next.step = "save" /\ next.skill = s
                    /\ ~skills[s].catalog /\ ~next.next.catalog /\ ~next.next.active
                    /\ next.next.embedded = skills[s].embedded
                    /\ TextOf(next.next) = TextOf(skills[s])
<1> DEFINE copy == [skills[s] EXCEPT !.active = FALSE]
           next == [step |-> "save", op |-> "remove", skill |-> s, next |-> copy]
<1>1. /\ UNCHANGED skills
      /\ Goto(r, IF skills[s].catalog /\ skills[s].mandatory THEN Ended ELSE next)
  BY DEF Remove
<1>2. skills[s] \in Row /\ (skills[s].catalog => skills[s].mandatory)
  BY RecordsType DEF IInv, CatalogsAreMandatory
<1>3. /\ copy \in Row /\ copy.catalog = skills[s].catalog /\ ~copy.active
      /\ copy.embedded = skills[s].embedded /\ TextOf(copy) = TextOf(skills[s])
  BY <1>2 DEF Row, TextOf
<1> HIDE DEF copy
<1>4. next \in Changing /\ next.step = "save" /\ next.skill = s /\ next.next = copy
  BY <1>3 DEF Changing
<1> HIDE DEF next
<1>5. Goto(r, Ended) \/ (Goto(r, next) /\ ~skills[s].catalog)
  BY <1>1, <1>2
<1> QED BY <1>1, <1>3, <1>4, <1>5

LEMMA ReembedEffect ==
    ASSUME IInv, NEW r \in Requests, Reembed(r)
    PROVE  /\ UNCHANGED skills /\ request[r].step = "reembed"
           /\ \/ Goto(r, Ended)
              \/ \E next \in Changing :
                    /\ Goto(r, next) /\ next.step = "save" /\ next.skill = request[r].skill
                    /\ next.op = request[r].op
                    /\ next.next.catalog = request[r].next.catalog
                    /\ next.next.active = request[r].next.active
                    /\ next.next.embedded = TextOf(next.next)
<1> DEFINE next == [request[r] EXCEPT !.step = "save", !.next.embedded = TextOf(request[r].next)]
<1>1. UNCHANGED skills /\ request[r].step = "reembed" /\ (Goto(r, next) \/ Goto(r, Ended))
  BY DEF Reembed
<1>2. request[r] \in Changing /\ request[r].next \in Row
  BY <1>1, RecordsType
<1>3. /\ next \in Changing /\ next.step = "save" /\ next.skill = request[r].skill
      /\ next.op = request[r].op
      /\ next.next.catalog = request[r].next.catalog
      /\ next.next.active = request[r].next.active
      /\ next.next.embedded = TextOf(next.next)
  BY <1>2, TextsOfSkills DEF Changing, Row, TextOf
<1> HIDE DEF next
<1> QED BY <1>1, <1>3
LEMMA ServeCopies ==
    ASSUME IInv, Copies, Remembers, NEW r \in Requests, Serve(r) PROVE Copies'
<1> USE DEF Idle, Ended
<1>0. UNCHANGED skills => Ids \subseteq Ids' /\ \A s \in Ids : skills'[s] = skills[s]
  BY DEF Ids
<1>1. ASSUME NEW dto \in Dto, Create(r, dto) PROVE Copies'
  BY <1>0, <1>1, StepAway DEF Create
<1>2. CASE Embed(r)
  <2>1. request[r] \in Creating
    BY <1>2, RecordsType DEF Embed
  <2>2. [request[r] EXCEPT !.step = "insert"].step = "insert"
    BY <2>1 DEF Creating
  <2> QED BY <1>0, <1>2, <2>2, StepAway DEF Embed
<1>3. CASE Insert(r)
  <2>1. Goto(r, Ended) /\ Ids \subseteq Ids' /\ \A s \in Ids : skills'[s] = skills[s]
    BY <1>3, InsertEffect
  <2> QED BY <2>1, StepAway
<1>4. ASSUME NEW s \in Ids, NEW name \in Names \union {Unchanged},
             NEW content \in Contents \union {Unchanged}, NEW active \in BOOLEAN \union {Unchanged}, NEW mandatory,
             Update(r, s, name, content, active, mandatory)
      PROVE  Copies'
  <2>1. CASE Goto(r, Ended)
    BY <1>0, <1>4, <2>1, StepAway, UpdateEffect
  <2>2. ASSUME NEW next \in Changing, Goto(r, next), next.op = "update", next.skill = s,
               next.next.catalog = skills[s].catalog
        PROVE  Copies'
    <3>1. request'[r] = next /\ next.step \in {"reembed", "save"} /\ next.next.active \in BOOLEAN
      BY <2>2, RecordsType DEF Goto, Changing, Row
    <3>2. request[r] = Idle /\ UNCHANGED skills
      BY <1>4, UpdateEffect
    <3>3. ASSUME next.next.active # skills[s].active PROVE <<s, next.next.active>> \in asked'
      <4>1. Asks(r, s, next.next.active)
        BY <2>2, <3>1, <3>2, <3>3 DEF Asks, Holds
      <4> QED BY <3>1, <4>1 DEF Remembers
    <3> QED BY <2>2, <3>1, <3>2, <3>3, CopyTaken
  <2> QED BY <1>4, <2>1, <2>2, UpdateEffect
<1>5. CASE Reembed(r)
  <2>1. CASE Goto(r, Ended)
    BY <1>0, <1>5, <2>1, StepAway, ReembedEffect
  <2>2. ASSUME NEW next \in Changing, Goto(r, next), next.skill = request[r].skill,
               next.next.catalog = request[r].next.catalog,
               next.next.active = request[r].next.active
        PROVE  Copies'
    <3>1. \A p \in Requests : request'[p] = IF p = r THEN next ELSE request[p]
      BY <2>2, RecordsType DEF Goto
    <3>2. request[r].step = "reembed" /\ UNCHANGED skills
      BY <1>5, ReembedEffect
    <3>3. \A p \in Requests : \A s :
              Holds(p, s)' => /\ Holds(p, s)
                              /\ request'[p].next.catalog = request[p].next.catalog
                              /\ request'[p].next.active = request[p].next.active
      BY <2>2, <3>1, <3>2 DEF Holds
    <3> QED BY <1>0, <3>2, <3>3, CopiesStand
  <2> QED BY <1>5, <2>1, <2>2, ReembedEffect
<1>6. ASSUME NEW s \in Ids, Remove(r, s) PROVE Copies'
  <2>1. CASE Goto(r, Ended)
    BY <1>0, <1>6, <2>1, StepAway, RemoveEffect
  <2>2. ASSUME NEW next \in Changing, Goto(r, next), next.step = "save", next.skill = s,
               ~skills[s].catalog, ~next.next.catalog, ~next.next.active
        PROVE  Copies'
    <3>1. next.next.catalog = skills[s].catalog
      BY <2>2, RecordsType DEF Changing, Row
    <3> QED BY <1>6, <2>2, <3>1, CopyTaken, RemoveEffect
  <2> QED BY <1>6, <2>1, <2>2, RemoveEffect
<1>7. CASE Save(r)
  BY <1>7, CopySaved
<1>8. ASSUME NEW bundle \in Bundles, Import(r, bundle) PROVE Copies'
  BY <1>0, <1>8, StepAway DEF Import
<1>9. CASE Validate(r)
  <2> DEFINE q == request[r]
             next == [q EXCEPT !.step = IF q.at = Len(q.bundle) THEN "batch" ELSE @,
                               !.at = @ + 1,
                               !.kept = IF q.bundle[q.at].catalog /\ CatalogExists
                                        THEN @ ELSE Append(@, q.at)]
  <2>1. Goto(r, next) /\ UNCHANGED skills /\ q.step = "validate"
    BY <1>9 DEF Validate
  <2>2. next.step \in {"validate", "batch"}
    BY <2>1, RecordsType DEF Importing
  <2> HIDE DEF next
  <2> QED BY <1>0, <2>1, <2>2, StepAway
<1>10. ASSUME NEW n \in 0..MaxImport, InsertBatch(r, n) PROVE Copies'
  <2>1. Goto(r, Ended) /\ Ids \subseteq Ids' /\ \A s \in Ids : skills'[s] = skills[s]
    BY <1>10, InsertBatchEffect
  <2> QED BY <2>1, StepAway
<1>11. CASE BatchFails(r)
  BY <1>0, <1>11, StepAway DEF BatchFails
<1> QED BY <1>1, <1>2, <1>3, <1>4, <1>5, <1>6, <1>7, <1>8, <1>9, <1>10, <1>11 DEF Serve

-----------------------------------------------------------------------------
(* Embeddings                                                              *)

\* A request goes on, saves nothing, and what is new has its embedding or was
\* left behind.
LEMMA EmbeddingsStand ==
    ASSUME IInv, EmbeddingsMatch, Remembers, NEW r \in Requests, NEW next, Goto(r, next),
           ~Save(r), Ids \subseteq Ids', \A s \in Ids : skills'[s] = skills[s],
           \A s \in Ids' \ Ids : s \in stale' \/ skills'[s].embedded = TextOf(skills'[s]),
           next.step = "save" => r \in staleCopies' \/ next.next.embedded = TextOf(next.next)
    PROVE  EmbeddingsMatch'
<1>1. \A p \in Requests : request'[p] = IF p = r THEN next ELSE request[p]
  BY RecordsType DEF Goto
<1>2. \A p \in Requests : ~Save(p)
  <2>1. ASSUME NEW p \in Requests, Save(p) PROVE FALSE
    <3>1. p # r /\ request[p].step = "save" /\ request'[p] = Ended
      BY <2>1, RecordsType DEF Save, LogSkillChange, Goto
    <3> QED BY <1>1, <3>1 DEF Ended
  <2> QED BY <2>1
<1>3. ASSUME NEW s \in Ids' \ stale' PROVE skills'[s].embedded = TextOf(skills'[s])
  <2>1. CASE s \in Ids
    <3>1. s \notin stale
      BY <1>2, <1>3, <2>1 DEF Remembers
    <3> QED BY <2>1, <3>1 DEF EmbeddingsMatch
  <2>2. CASE s \notin Ids
    BY <1>3, <2>2
  <2> QED BY <2>1, <2>2
<1>4. ASSUME NEW p \in Requests \ staleCopies', request'[p].step = "save"
      PROVE  request'[p].next.embedded = TextOf(request'[p].next)
  <2>1. CASE p = r
    BY <1>1, <1>4, <2>1
  <2>2. CASE p # r
    <3>1. p \notin staleCopies
      BY <1>2, <1>4 DEF Remembers
    <3> QED BY <1>1, <1>4, <2>2, <3>1 DEF EmbeddingsMatch
  <2> QED BY <2>1, <2>2
<1>5. ~shifted' => \A p \in Requests : ~Shifts(p)'
  BY DEF Remembers
<1> QED BY <1>3, <1>4, <1>5 DEF EmbeddingsMatch

LEMMA EmbeddingSaved ==
    ASSUME IInv, EmbeddingsMatch, Remembers, NEW r \in Requests, Save(r)
    PROVE  EmbeddingsMatch'
<1> DEFINE t == request[r].skill
<1>1. /\ t \in Ids /\ Ids' = Ids
      /\ \A s \in Ids : skills'[s] = IF s = t THEN request[r].next ELSE skills[s]
      /\ \A p \in Requests : request'[p] = IF p = r THEN Ended ELSE request[p]
  BY SaveEffect
<1>2. \A p \in Requests : Save(p) => p = r
  <2>1. ASSUME NEW p \in Requests, Save(p), p # r PROVE FALSE
    <3>1. request[p].step = "save" /\ request'[p] = Ended
      BY <2>1, RecordsType DEF Save, LogSkillChange, Goto
    <3> QED BY <1>1, <2>1, <3>1 DEF Ended
  <2> QED BY <2>1
<1>3. request[r].step = "save"
  BY DEF Save
<1>4. ASSUME NEW s \in Ids' \ stale' PROVE skills'[s].embedded = TextOf(skills'[s])
  <2>1. CASE s = t
    <3>1. r \notin staleCopies
      BY <1>1, <1>4, <2>1 DEF Remembers
    <3> QED BY <1>1, <1>3, <2>1, <3>1 DEF EmbeddingsMatch
  <2>2. CASE s # t
    <3>1. s \notin stale
      BY <1>1, <1>2, <1>4, <2>2 DEF Remembers
    <3> QED BY <1>1, <1>4, <2>2, <3>1 DEF EmbeddingsMatch
  <2> QED BY <2>1, <2>2
<1>5. ASSUME NEW p \in Requests \ staleCopies', request'[p].step = "save"
      PROVE  request'[p].next.embedded = TextOf(request'[p].next)
  <2>1. p # r /\ request'[p] = request[p]
    BY <1>1, <1>5 DEF Ended
  <2>2. p \notin staleCopies
    BY <1>2, <1>5, <2>1 DEF Remembers
  <2> QED BY <1>5, <2>1, <2>2 DEF EmbeddingsMatch
<1>6. ~shifted' => \A p \in Requests : ~Shifts(p)'
  BY DEF Remembers
<1> QED BY <1>4, <1>5, <1>6 DEF EmbeddingsMatch

LEMMA ServeEmbeddings ==
    ASSUME IInv, EmbeddingsMatch, Remembers, NEW r \in Requests, Serve(r) PROVE EmbeddingsMatch'
<1> USE DEF Idle, Ended
<1>0. UNCHANGED skills => Ids' = Ids /\ \A s \in Ids : skills'[s] = skills[s]
  BY DEF Ids
<1>a. request[r].step # "save" => ~Save(r)
  BY DEF Save
<1>b. ASSUME UNCHANGED skills, Goto(r, Ended), request[r].step # "save" PROVE EmbeddingsMatch'
  BY <1>0, <1>a, <1>b, EmbeddingsStand
<1>1. ASSUME NEW dto \in Dto, Create(r, dto) PROVE EmbeddingsMatch'
  BY <1>0, <1>1, <1>a, EmbeddingsStand DEF Create
<1>2. CASE Embed(r)
  <2>1. request[r] \in Creating
    BY <1>2, RecordsType DEF Embed
  <2>2. [request[r] EXCEPT !.step = "insert"].step = "insert"
    BY <2>1 DEF Creating
  <2> QED BY <1>0, <1>2, <1>a, <2>2, EmbeddingsStand DEF Embed
<1>3. CASE Insert(r)
  <2>1. /\ Goto(r, Ended) /\ request[r].step = "insert" /\ Ids' = Ids \union {Len(skills) + 1}
        /\ \A s \in Ids : skills'[s] = skills[s]
        /\ skills'[Len(skills) + 1].embedded = TextOf(skills'[Len(skills) + 1])
    BY <1>3, InsertEffect, NewRowFields
  <2> QED BY <1>a, <2>1, EmbeddingsStand
<1>4. ASSUME NEW s \in Ids, NEW name \in Names \union {Unchanged},
             NEW content \in Contents \union {Unchanged}, NEW active \in BOOLEAN \union {Unchanged},
             NEW mandatory, Update(r, s, name, content, active, mandatory)
      PROVE  EmbeddingsMatch'
  <2>1. UNCHANGED skills /\ request[r] = Idle
    BY <1>4, UpdateEffect
  <2>2. ASSUME NEW next \in Changing, Goto(r, next), next.skill = s,
               next.next.embedded = skills[s].embedded,
               next.step = "save" => next.next.content = skills[s].content
        PROVE  EmbeddingsMatch'
    <3>1. request'[r] = next
      BY <2>2, RecordsType DEF Goto
    <3>2. ASSUME next.step = "save", r \notin staleCopies'
          PROVE  next.next.embedded = TextOf(next.next)
      <4>1. s \notin stale /\ next.next.name = skills[s].name
        BY <2>1, <2>2, <3>1, <3>2 DEF Remembers, Leaves
      <4> QED BY <2>2, <3>2, <4>1 DEF EmbeddingsMatch, TextOf
    <3> QED BY <1>0, <1>a, <2>1, <2>2, <3>2, EmbeddingsStand
  <2> QED BY <1>4, <1>b, <2>1, <2>2, UpdateEffect
<1>5. CASE Reembed(r)
  <2>1. UNCHANGED skills /\ request[r].step = "reembed"
    BY <1>5, ReembedEffect
  <2>2. ASSUME NEW next \in Changing, Goto(r, next), next.next.embedded = TextOf(next.next)
        PROVE  EmbeddingsMatch'
    BY <1>0, <1>a, <2>1, <2>2, EmbeddingsStand
  <2> QED BY <1>5, <1>b, <2>1, <2>2, ReembedEffect
<1>6. ASSUME NEW s \in Ids, Remove(r, s) PROVE EmbeddingsMatch'
  <2>1. UNCHANGED skills /\ request[r] = Idle
    BY <1>6, RemoveEffect DEF Remove
  <2>2. ASSUME NEW next \in Changing, Goto(r, next), next.step = "save", next.skill = s,
               next.next.embedded = skills[s].embedded, TextOf(next.next) = TextOf(skills[s])
        PROVE  EmbeddingsMatch'
    <3>1. request'[r] = next
      BY <2>2, RecordsType DEF Goto
    <3>2. ASSUME r \notin staleCopies' PROVE next.next.embedded = TextOf(next.next)
      <4>1. s \notin stale
        BY <2>1, <2>2, <3>1, <3>2 DEF Remembers, Leaves
      <4> QED BY <2>2, <4>1 DEF EmbeddingsMatch
    <3> QED BY <1>0, <1>a, <2>1, <2>2, <3>2, EmbeddingsStand
  <2> QED BY <1>6, <1>b, <2>1, <2>2, RemoveEffect
<1>7. CASE Save(r)
  BY <1>7, EmbeddingSaved
<1>8. ASSUME NEW bundle \in Bundles, Import(r, bundle) PROVE EmbeddingsMatch'
  BY <1>0, <1>8, <1>a, EmbeddingsStand DEF Import
<1>9. CASE Validate(r)
  <2> DEFINE q == request[r]
             next == [q EXCEPT !.step = IF q.at = Len(q.bundle) THEN "batch" ELSE @,
                               !.at = @ + 1,
                               !.kept = IF q.bundle[q.at].catalog /\ CatalogExists
                                        THEN @ ELSE Append(@, q.at)]
  <2>1. Goto(r, next) /\ UNCHANGED skills /\ q.step = "validate"
    BY <1>9 DEF Validate
  <2>2. next.step \in {"validate", "batch"}
    BY <2>1, RecordsType DEF Importing
  <2> HIDE DEF next
  <2> QED BY <1>0, <1>a, <2>1, <2>2, EmbeddingsStand
<1>10. ASSUME NEW n \in 0..MaxImport, InsertBatch(r, n) PROVE EmbeddingsMatch'
  <2> DEFINE q == request[r]
  <2>1. /\ q.step = "batch" /\ Goto(r, Ended) /\ Ids \subseteq Ids'
        /\ \A s \in Ids : skills'[s] = skills[s]
        /\ \A i \in 1..Len(q.kept) : i \in DOMAIN q.kept
        /\ \A s \in Ids' \ Ids : \E i \in 1..Len(q.kept) :
              /\ s = Len(skills) + i
              /\ skills'[s] = NewRow(q.bundle[i], IF i <= n THEN TextOf(q.bundle[q.kept[i]]) ELSE Unchanged)
    BY <1>10, InsertBatchEffect
  <2>2. ASSUME NEW s \in Ids' \ Ids, s \notin stale'
        PROVE  skills'[s].embedded = TextOf(skills'[s])
    <3>1. PICK i \in 1..Len(q.kept) :
              /\ s = Len(skills) + i
              /\ skills'[s] = NewRow(q.bundle[i], IF i <= n THEN TextOf(q.bundle[q.kept[i]]) ELSE Unchanged)
      BY <2>1
    <3>2. s - Len(skills) = i /\ i \in DOMAIN q.kept
      <4>1. Len(skills) \in Nat /\ i \in Nat
        BY <3>1, RecordsType
      <4>2. i \in DOMAIN q.kept
        BY <2>1
      <4>3. s = Len(skills) + i
        BY <3>1
      <4> QED BY <4>1, <4>2, <4>3
    <3>3. ~Mispairs(r, n, s)
      BY <1>10, <2>2 DEF Remembers
    <3>4. q.kept[i] = i /\ ~(i > n)
      BY <3>2, <3>3 DEF Mispairs
    <3>5. i <= n
      BY <3>4
    <3>6. skills'[s] = NewRow(q.bundle[i], TextOf(q.bundle[i]))
      BY <3>1, <3>4, <3>5
    <3> QED BY <3>6, NewRowFields
  <2> QED BY <1>a, <2>1, <2>2, EmbeddingsStand
<1>11. CASE BatchFails(r)
  BY <1>11, <1>b DEF BatchFails
<1> QED BY <1>1, <1>2, <1>3, <1>4, <1>5, <1>6, <1>7, <1>8, <1>9, <1>10, <1>11 DEF Serve
-----------------------------------------------------------------------------
(* Catalogs                                                                *)

\* What FoundingIsAlone asks of one request.
IsClean(r) ==
    /\ Creates(r) => ~CatalogExists
    /\ request[r].step \in {"validate", "batch"} =>
          \A i \in DOMAIN request[r].kept :
              request[r].bundle[request[r].kept[i]].catalog => ~CatalogExists

LEMMA UndisturbedBefore ==
    ASSUME Remembers, Ids \subseteq Ids', \A s \in Ids : skills'[s].catalog = skills[s].catalog,
           Undisturbed'
    PROVE  Undisturbed
BY DEF Remembers, Undisturbed

\* A step of r that lets no catalog appear.
LEMMA NoneFounded ==
    ASSUME IInv, FoundingIsAlone, Remembers, NEW r \in Requests, NEW next, Goto(r, next),
           Undisturbed' => Undisturbed /\ ActiveCatalogs' \subseteq ActiveCatalogs /\ IsClean(r)'
    PROVE  FoundingIsAlone'
<1> SUFFICES ASSUME Undisturbed'
             PROVE  /\ \A s, t \in Ids' : s \in ActiveCatalogs' /\ t \in ActiveCatalogs' => s = t
                    /\ \A p, q \in Requests : Founds(p)' /\ Founds(q)' => p = q
                    /\ \A p \in Requests : ~HasTwins(p)' /\ IsClean(p)'
  BY DEF FoundingIsAlone, IsClean
<1>1. \A p \in Requests : request'[p] = IF p = r THEN next ELSE request[p]
  BY RecordsType DEF Goto
<1>2. /\ \A s, t \in ActiveCatalogs : s = t
      /\ \A p \in Requests : IsClean(p)
  BY DEF FoundingIsAlone, IsClean, ActiveCatalogs
<1>3. \A s, t \in ActiveCatalogs' : s = t
  BY <1>2
<1>4. ~crowded'
  BY DEF Undisturbed
<1>5. CatalogExists' => CatalogExists
  BY DEF CatalogExists, ActiveCatalogs
<1>6. ASSUME NEW p \in Requests PROVE IsClean(p)'
  <2>1. CASE p = r
    BY <2>1
  <2>2. CASE p # r
    BY <1>1, <1>2, <1>5, <2>2 DEF IsClean, Creates
  <2> QED BY <2>1, <2>2
<1> QED BY <1>3, <1>4, <1>6 DEF Remembers

\* A request that founds a catalog ends: it was alone, so nobody else does.
LEMMA OneFounded ==
    ASSUME IInv, FoundingIsAlone, Remembers, NEW r \in Requests, Goto(r, Ended),
           Undisturbed' => /\ Undisturbed /\ Founds(r)
                           /\ \A s, t \in ActiveCatalogs' : s = t
    PROVE  FoundingIsAlone'
<1> SUFFICES ASSUME Undisturbed'
             PROVE  /\ \A s, t \in Ids' : s \in ActiveCatalogs' /\ t \in ActiveCatalogs' => s = t
                    /\ \A p, q \in Requests : Founds(p)' /\ Founds(q)' => p = q
                    /\ \A p \in Requests : ~HasTwins(p)' /\ IsClean(p)'
  BY DEF FoundingIsAlone, IsClean
<1>1. \A p \in Requests : request'[p] = IF p = r THEN Ended ELSE request[p]
  BY RecordsType DEF Goto
<1>2. \A p \in Requests : Founds(p) => p = r
  BY DEF FoundingIsAlone
<1>3. \A p \in Requests : ~Creates(p)' /\ ~Imports(p)'
  BY <1>1, <1>2 DEF Founds, Creates, Imports, Ended
<1>4. ASSUME NEW p \in Requests, NEW i, request'[p].step \in {"validate", "batch"},
             i \in DOMAIN request'[p].kept
      PROVE  ~request'[p].bundle[request'[p].kept[i]].catalog
  <2>1. p # r /\ request'[p] = request[p]
    BY <1>1, <1>4 DEF Ended
  <2>2. request[p].kept[i] \in DOMAIN request[p].bundle
    <3>1. request[p] \in Importing
      BY <1>4, <2>1, RecordsType
    <3>2. /\ request[p].kept \in Seq(1..MaxImport) /\ Len(request[p].bundle) \in Nat
          /\ request[p].bundle \in Seq(Dto) /\ request[p].at \in Nat
      BY <3>1, BundleIsSequence, SkillsAssumption DEF Importing
    <3>3. i \in DOMAIN request[p].kept /\ request[p].kept[i] \in 1..MaxImport
      <4>1. i \in DOMAIN request[p].kept
        BY <1>4, <2>1
      <4> QED BY <3>2, <4>1, ElementOfDomain
    <3>4. request[p].kept[i] < request[p].at /\ request[p].at <= Len(request[p].bundle) + 1
      BY <1>4, <2>1, <3>3 DEF IInv, ImportsInRange
    <3> QED BY <3>2, <3>3, <3>4, SkillsAssumption
  <2> QED BY <1>3, <1>4, <2>1, <2>2 DEF Imports
<1>5. \A p \in Requests : IsClean(p)'
  BY <1>3, <1>4 DEF IsClean
<1>6. ~crowded'
  BY DEF Undisturbed
<1> QED BY <1>5, <1>6 DEF Remembers

\* A request that leaves the rows alone.
LEMMA RowsStand ==
    ASSUME IInv, FoundingIsAlone, Remembers, UNCHANGED skills,
           NEW r \in Requests, NEW next, Goto(r, next),
           Undisturbed' => IsClean(r)'
    PROVE  FoundingIsAlone'
<1>1. Ids' = Ids /\ ActiveCatalogs' = ActiveCatalogs
  BY DEF Ids, ActiveCatalogs
<1>2. Undisturbed' => Undisturbed
  BY <1>1, UndisturbedBefore
<1> QED BY <1>1, <1>2, NoneFounded

\* A request that is not on its way to insert anything.
LEMMA EndIsClean ==
    ASSUME NEW r \in Requests, request'[r].step \notin {"embed", "insert", "validate", "batch"}
    PROVE  IsClean(r)'
BY DEF IsClean, Creates

LEMMA InsertFounding ==
    ASSUME IInv, FoundingIsAlone, Remembers, NEW r \in Requests, Insert(r)
    PROVE  FoundingIsAlone'
<1> DEFINE id == Len(skills) + 1
           dto == request[r].dto
<1>1. /\ request[r].step = "insert" /\ Goto(r, Ended)
      /\ Ids' = Ids \union {id}
      /\ \A s \in Ids : skills'[s] = skills[s]
      /\ skills'[id].catalog = dto.catalog
  BY InsertEffect, NewRowFields
<1> HIDE DEF id
<1>2. Undisturbed' => Undisturbed
  BY <1>1, UndisturbedBefore
<1>3. ActiveCatalogs' \subseteq ActiveCatalogs \union {id}
  BY <1>1 DEF ActiveCatalogs
<1>4. CASE dto.catalog
  <2>1. Undisturbed => ActiveCatalogs = {} /\ Founds(r)
    BY <1>1, <1>4 DEF FoundingIsAlone, Creates, Founds, CatalogExists, ActiveCatalogs
  <2> QED BY <1>1, <1>2, <1>3, <2>1, OneFounded
<1>5. CASE ~dto.catalog
  <2>1. ActiveCatalogs' \subseteq ActiveCatalogs
    BY <1>1, <1>5 DEF ActiveCatalogs
  <2>2. request'[r].step = "ended"
    BY <1>1, RecordsType DEF Goto, Ended
  <2>3. IsClean(r)'
    BY <2>2, EndIsClean
  <2> QED BY <1>1, <1>2, <2>1, <2>3, NoneFounded
<1> QED BY <1>4, <1>5

LEMMA BatchFounding ==
    ASSUME IInv, EmbeddingsMatch, FoundingIsAlone, Remembers, NEW r \in Requests,
           NEW n \in 0..MaxImport, InsertBatch(r, n)
    PROVE  FoundingIsAlone'
<1> DEFINE q == request[r]
<1>1. /\ q.step = "batch" /\ Goto(r, Ended)
      /\ Ids \subseteq Ids' /\ \A s \in Ids : skills'[s] = skills[s]
      /\ \A i \in 1..Len(q.kept) : i \in DOMAIN q.kept /\ i \in DOMAIN q.bundle
      /\ \A s \in Ids' \ Ids : \E i \in 1..Len(q.kept) :
            s = Len(skills) + i /\ skills'[s].catalog = q.bundle[i].catalog
  BY InsertBatchEffect, NewRowFields
<1>2. Undisturbed' => Undisturbed
  BY <1>1, UndisturbedBefore
<1>3. CASE \E i \in 1..Len(q.kept) : q.bundle[i].catalog
  <2>1. PICK i \in 1..Len(q.kept) : q.bundle[i].catalog
    BY <1>3
  <2>2. i \in DOMAIN q.kept /\ i \in DOMAIN q.bundle
    BY <1>1, <2>1
  <2>3. Undisturbed => q.kept[i] = i
    BY <1>1, <2>2 DEF EmbeddingsMatch, Undisturbed, Shifts
  <2>4. Undisturbed => ActiveCatalogs = {}
    BY <1>1, <2>1, <2>2, <2>3 DEF FoundingIsAlone, CatalogExists, ActiveCatalogs
  <2>5. Founds(r)
    BY <1>1, <2>1, <2>2 DEF Founds, Imports
  <2>6. Undisturbed => \A j \in 1..Len(q.kept) : q.bundle[j].catalog => j = i
    BY <1>1, <2>1, <2>2 DEF FoundingIsAlone, HasTwins
  <2>7. Undisturbed => \A s \in ActiveCatalogs' : s = Len(skills) + i
    <3>1. ASSUME Undisturbed, NEW s \in ActiveCatalogs' PROVE s = Len(skills) + i
      <4>1. s \in Ids' /\ skills'[s].catalog /\ skills'[s].active
        BY <3>1 DEF ActiveCatalogs
      <4>2. s \notin Ids
        BY <1>1, <2>4, <3>1, <4>1 DEF ActiveCatalogs
      <4>3. PICK j \in 1..Len(q.kept) : s = Len(skills) + j /\ skills'[s].catalog = q.bundle[j].catalog
        BY <1>1, <4>1, <4>2
      <4> QED BY <2>6, <3>1, <4>1, <4>3
    <3> QED BY <3>1
  <2> QED BY <1>1, <1>2, <2>5, <2>7, OneFounded
<1>4. CASE ~\E i \in 1..Len(q.kept) : q.bundle[i].catalog
  <2>1. ActiveCatalogs' \subseteq ActiveCatalogs
    <3>1. ASSUME NEW s \in ActiveCatalogs' PROVE s \in ActiveCatalogs
      <4>1. s \in Ids' /\ skills'[s].catalog /\ skills'[s].active
        BY <3>1 DEF ActiveCatalogs
      <4>2. s \in Ids
        BY <1>1, <1>4, <4>1
      <4> QED BY <1>1, <4>1, <4>2 DEF ActiveCatalogs
    <3> QED BY <3>1
  <2>2. request'[r].step = "ended"
    BY <1>1, RecordsType DEF Goto, Ended
  <2>3. IsClean(r)'
    BY <2>2, EndIsClean
  <2> QED BY <1>1, <1>2, <2>1, <2>3, NoneFounded
<1> QED BY <1>3, <1>4

\* A copy that nobody else held activates a catalog only if a PATCH asked for it.
LEMMA SaveFounding ==
    ASSUME IInv, Copies, FoundingIsAlone, Remembers, NEW r \in Requests, Save(r)
    PROVE  FoundingIsAlone'
<1> DEFINE t == request[r].skill
<1>1. /\ Holds(r, t) /\ t \in Ids /\ request[r].next \in Row /\ Ids' = Ids /\ skills[t] \in Row
      /\ \A s \in Ids : skills'[s] = IF s = t THEN request[r].next ELSE skills[s]
  BY SaveEffect, RecordsType
<1>2. Goto(r, Ended)
  BY DEF Save, LogSkillChange
<1> HIDE DEF t
<1>3. \A s \in Ids : skills'[s].catalog = skills[s].catalog
  BY <1>1 DEF Copies, CopiesKeepTheType
<1>4. Undisturbed' => Undisturbed
  BY <1>1, <1>3, UndisturbedBefore
<1>5. ASSUME Undisturbed, NEW s \in ActiveCatalogs' PROVE s \in ActiveCatalogs
  <2>1. s \in Ids /\ skills'[s].catalog /\ skills'[s].active /\ skills[s].catalog
    BY <1>1, <1>3, <1>5 DEF ActiveCatalogs
  <2>2. CASE s # t
    BY <1>1, <2>1, <2>2 DEF ActiveCatalogs
  <2>3. CASE s = t
    <3>1. s \in Ids \ raced /\ <<s, TRUE>> \notin asked
      BY <1>5, <2>1 DEF Undisturbed
    <3>2. request[r].next.active = TRUE /\ Holds(r, s)
      BY <1>1, <2>1, <2>3 DEF Row
    <3>3. skills[s].active
      BY <2>1, <3>1, <3>2 DEF Copies, CopiesAreAsked
    <3> QED BY <2>1, <3>3 DEF ActiveCatalogs
  <2> QED BY <2>2, <2>3
<1>6. request'[r].step = "ended"
  BY <1>2, RecordsType DEF Goto, Ended
<1>7. IsClean(r)'
  BY <1>6, EndIsClean
<1> QED BY <1>2, <1>4, <1>5, <1>7, NoneFounded
LEMMA ServeFounding ==
    ASSUME IInv, Copies, EmbeddingsMatch, FoundingIsAlone, Remembers, NEW r \in Requests, Serve(r)
    PROVE  FoundingIsAlone'
<1>0. \A next : Goto(r, next) => request'[r] = next
  BY RecordsType DEF Goto
<1>1. UNCHANGED skills => CatalogExists' = CatalogExists
  BY DEF CatalogExists, Ids
<1>2. UNCHANGED skills /\ Goto(r, Ended) => FoundingIsAlone'
  BY <1>0, EndIsClean, RowsStand DEF Ended
<1>3. ASSUME NEW next \in Changing, Goto(r, next), UNCHANGED skills PROVE FoundingIsAlone'
  <2>1. request'[r].step \notin {"embed", "insert", "validate", "batch"}
    BY <1>0, <1>3 DEF Changing
  <2> QED BY <1>3, <2>1, EndIsClean, RowsStand
<1>4. ASSUME NEW dto \in Dto, Create(r, dto) PROVE FoundingIsAlone'
  <2> DEFINE next == [step |-> "embed", dto |-> dto]
  <2>1. UNCHANGED skills /\ (Goto(r, Ended) \/ (Goto(r, next) /\ (dto.catalog => ~CatalogExists)))
    BY <1>4 DEF Create
  <2>2. next.step = "embed" /\ next.dto = dto
    OBVIOUS
  <2> HIDE DEF next
  <2>3. CASE Goto(r, next) /\ (dto.catalog => ~CatalogExists)
    <3>1. IsClean(r)'
      BY <1>0, <1>1, <2>1, <2>2, <2>3 DEF IsClean, Creates
    <3> QED BY <2>1, <2>3, <3>1, RowsStand
  <2> QED BY <1>2, <2>1, <2>3
<1>5. CASE Embed(r)
  <2> DEFINE next == [request[r] EXCEPT !.step = "insert"]
  <2>1. request[r].step = "embed" /\ UNCHANGED skills /\ (Goto(r, Ended) \/ Goto(r, next))
    BY <1>5 DEF Embed
  <2>2. next.step = "insert" /\ next.dto = request[r].dto
    BY <2>1, RecordsType DEF Creating
  <2> HIDE DEF next
  <2>3. CASE Goto(r, next)
    <3>1. Undisturbed => (Creates(r) => ~CatalogExists)
      BY DEF FoundingIsAlone
    <3>2. Undisturbed => IsClean(r)'
      BY <1>0, <1>1, <2>1, <2>2, <2>3, <3>1 DEF IsClean, Creates
    <3>3. Undisturbed' => Undisturbed
      BY <2>1, UndisturbedBefore DEF Ids
    <3> QED BY <2>1, <2>3, <3>2, <3>3, RowsStand
  <2> QED BY <1>2, <2>1, <2>3
<1>6. CASE Insert(r)
  BY <1>6, InsertFounding
<1>7. ASSUME NEW s \in Ids, NEW name \in Names \union {Unchanged},
             NEW content \in Contents \union {Unchanged}, NEW active \in BOOLEAN \union {Unchanged}, NEW mandatory,
             Update(r, s, name, content, active, mandatory)
      PROVE  FoundingIsAlone'
  BY <1>2, <1>3, <1>7, UpdateEffect
<1>8. CASE Reembed(r)
  BY <1>2, <1>3, <1>8, ReembedEffect
<1>9. ASSUME NEW s \in Ids, Remove(r, s) PROVE FoundingIsAlone'
  BY <1>2, <1>3, <1>9, RemoveEffect
<1>10. CASE Save(r)
  BY <1>10, SaveFounding
<1>11. ASSUME NEW bundle \in Bundles, Import(r, bundle) PROVE FoundingIsAlone'
  <2> DEFINE next == [step |-> "validate", bundle |-> bundle, kept |-> <<>>, at |-> 1]
  <2>1. Goto(r, next) /\ UNCHANGED skills
    BY <1>11 DEF Import
  <2>2. request'[r].step = "validate" /\ request'[r].kept = <<>>
    BY <1>0, <2>1
  <2>3. IsClean(r)'
    BY <2>2 DEF IsClean, Creates
  <2> HIDE DEF next
  <2> QED BY <2>1, <2>3, RowsStand
<1>12. CASE Validate(r)
  <2> DEFINE q == request[r]
             kept == IF q.bundle[q.at].catalog /\ CatalogExists THEN q.kept ELSE Append(q.kept, q.at)
             next == [q EXCEPT !.step = IF q.at = Len(q.bundle) THEN "batch" ELSE @,
                               !.at = @ + 1,
                               !.kept = IF q.bundle[q.at].catalog /\ CatalogExists
                                        THEN @ ELSE Append(@, q.at)]
  <2>1. Goto(r, next) /\ UNCHANGED skills /\ q.step = "validate"
    BY <1>12 DEF Validate
  <2>2. q \in Importing /\ q.kept \in Seq(1..MaxImport)
    BY <2>1, RecordsType DEF Importing
  <2>3. next.step \in {"validate", "batch"} /\ next.bundle = q.bundle /\ next.kept = kept
    BY <2>1, <2>2 DEF Importing
  <2>4. request'[r] = next
    BY <1>0, <2>1
  <2> HIDE DEF next
  <2>5. Undisturbed =>
          \A i \in DOMAIN q.kept : q.bundle[q.kept[i]].catalog => ~CatalogExists
    BY <2>1 DEF FoundingIsAlone
  <2>6. \A i \in DOMAIN kept :
           \/ i \in DOMAIN q.kept /\ kept[i] = q.kept[i]
           \/ kept[i] = q.at /\ ~(q.bundle[q.at].catalog /\ CatalogExists)
    <3>1. \A S : \A k \in Seq(S) : \A a : \A i \in DOMAIN Append(k, a) :
             (i \in DOMAIN k /\ Append(k, a)[i] = k[i]) \/ Append(k, a)[i] = a
      OBVIOUS
    <3> HIDE DEF q
    <3> QED BY <2>2, <3>1
  <2> HIDE DEF kept
  <2>7. Undisturbed => \A i \in DOMAIN kept : q.bundle[kept[i]].catalog => ~CatalogExists
    BY <2>5, <2>6
  <2>8. Undisturbed => IsClean(r)'
    BY <1>1, <2>1, <2>3, <2>4, <2>7 DEF IsClean, Creates
  <2>9. Undisturbed' => Undisturbed
    BY <2>1, UndisturbedBefore DEF Ids
  <2> QED BY <2>1, <2>8, <2>9, RowsStand
<1>13. ASSUME NEW n \in 0..MaxImport, InsertBatch(r, n) PROVE FoundingIsAlone'
  BY <1>13, BatchFounding
<1>14. CASE BatchFails(r)
  BY <1>2, <1>14 DEF BatchFails
<1> QED BY <1>4, <1>5, <1>6, <1>7, <1>8, <1>9, <1>10, <1>11, <1>12, <1>13, <1>14 DEF Serve

-----------------------------------------------------------------------------
(* The history invariant                                                   *)

LEMMA InitHistoryInv == ASSUME HistoryInit PROVE HistoryInv
<1>1. skills = <<>> /\ Ids = {}
  BY DEF HistoryInit, Init, Ids
<1>2. \A r \in Requests : request[r].step = "idle"
  BY DEF HistoryInit, Init, Idle
<1>3. CopiesKeepTheType /\ CopiesAreAsked
  BY <1>1 DEF CopiesKeepTheType, CopiesAreAsked
<1>4. EmbeddingsMatch
  BY <1>1, <1>2 DEF EmbeddingsMatch, Shifts
<1>5. FoundingIsAlone
  BY <1>1, <1>2 DEF FoundingIsAlone, Founds, Creates, Imports, HasTwins
<1> QED BY <1>3, <1>4, <1>5 DEF HistoryInv

LEMMA HistoryStutter == ASSUME HistoryInv, UNCHANGED historyVars PROVE HistoryInv'
<1>1. /\ skills' = skills /\ request' = request /\ raced' = raced /\ asked' = asked
      /\ (crowded' <=> crowded) /\ (shifted' <=> shifted) /\ Ids' = Ids
      /\ stale' = stale /\ staleCopies' = staleCopies
  BY DEF historyVars, vars, Ids
<1>2. CopiesKeepTheType' /\ CopiesAreAsked'
  BY <1>1 DEF HistoryInv, CopiesKeepTheType, CopiesAreAsked, Holds
<1>3. EmbeddingsMatch'
  BY <1>1 DEF HistoryInv, EmbeddingsMatch, Shifts
<1>4. Undisturbed' => Undisturbed
  BY <1>1 DEF Undisturbed
<1>5. FoundingIsAlone'
  BY <1>1, <1>4 DEF HistoryInv, FoundingIsAlone, Founds, Creates, Imports, HasTwins,
                    ActiveCatalogs, CatalogExists
<1> QED BY <1>2, <1>3, <1>5 DEF HistoryInv

\* However requests overlap, what is stored or held has the embedding of its
\* text unless it was left behind, a copy held alone changes isActive
\* only as it was asked, and who is going to found a catalog is alone.
THEOREM HistoryInvariance == HistorySpec => [](IInv /\ HistoryInv)
<1>1. HistoryInit => IInv /\ HistoryInv
  BY InitIInv, InitHistoryInv DEF HistoryInit
<1>2. ASSUME IInv, HistoryInv, HistoryNext PROVE IInv' /\ HistoryInv'
  <2>1. PICK r \in Requests : Serve(r)
    BY <1>2 DEF HistoryNext, Next
  <2>2. Copies /\ EmbeddingsMatch /\ FoundingIsAlone /\ Remembers
    BY <1>2, HistoryRemembers DEF HistoryInv, Copies
  <2>3. Copies'
    BY <1>2, <2>1, <2>2, ServeCopies
  <2>4. EmbeddingsMatch' /\ FoundingIsAlone'
    BY <1>2, <2>1, <2>2, ServeEmbeddings, ServeFounding
  <2> QED BY <1>2, <2>1, <2>3, <2>4, ServeIInv DEF HistoryInv, Copies
<1>3. IInv /\ HistoryInv /\ UNCHANGED historyVars => IInv' /\ HistoryInv'
  BY StutterIInv, HistoryStutter DEF historyVars
<1> QED BY <1>1, <1>2, <1>3, PTL DEF HistorySpec

\* An organization has one active ACTOR_CATALOG at most and the agents get it,
\* as long as founding requests do not overlap, no import is shifted, no PATCH
\* activates a catalog and none is held by two requests together.
THEOREM CatalogStaysUnique == HistorySpec => []SerialCatalogIsUnique
<1>1. ASSUME IInv, HistoryInv, Undisturbed PROVE CatalogIsUnique
  <2>1. \A s, t \in ActiveCatalogs : s = t
    BY <1>1 DEF HistoryInv, FoundingIsAlone, ActiveCatalogs
  <2>2. Cardinality(ActiveCatalogs) <= 1
    <3>1. CASE ActiveCatalogs = {}
      BY <3>1, FS_EmptySet
    <3>2. CASE ActiveCatalogs # {}
      <4>1. PICK s : ActiveCatalogs = {s}
        BY <2>1, <3>2
      <4>2. Cardinality({s}) = 1
        BY FS_Singleton, Zenon
      <4> QED BY <4>1, <4>2
    <3> QED BY <3>1, <3>2
  <2>3. ActiveCatalogs \subseteq ListMandatorySkills
    BY <1>1 DEF IInv, CatalogsAreMandatory, ActiveCatalogs, ListMandatorySkills
  <2> QED BY <2>2, <2>3 DEF CatalogIsUnique
<1>2. IInv /\ HistoryInv => SerialCatalogIsUnique
  BY <1>1 DEF SerialCatalogIsUnique
<1> QED BY <1>2, HistoryInvariance, PTL

\* A search finds the nearest of the active skills by the names and contents
\* they have now, for every similarity, threshold and number of answers, as
\* long as no active skill was left behind by a renaming or by an import.
THEOREM SearchesFind == HistorySpec => []SearchFindsText
<1>1. ASSUME IInv, HistoryInv, stale \intersect {s \in Ids : skills[s].active} = {},
             NEW query \in Queries
      PROVE  SemanticSearch(query) = TopMatches(query, [s \in Ids |-> TextOf(skills[s])])
  <2> DEFINE stored == [s \in Ids |-> skills[s].embedded]
             shown == [s \in Ids |-> TextOf(skills[s])]
             similar(text) == {s \in Ids : /\ skills[s].active
                                           /\ text[s] # Unchanged
                                           /\ Similarity[query][text[s]] >= MinSimilarity}
             Answers(text) ==
                {found \in SUBSET similar(text) :
                    /\ Cardinality(found) <= TopK
                    /\ found # similar(text) => Cardinality(found) = TopK
                    /\ \A s \in found, t \in similar(text) \ found :
                          Similarity[query][text[s]] >= Similarity[query][text[t]]}
  <2>1. \A s \in Ids : skills[s].active => stored[s] = shown[s]
    BY <1>1 DEF HistoryInv, EmbeddingsMatch
  <2>2. SemanticSearch(query) = Answers(stored) /\ TopMatches(query, shown) = Answers(shown)
    BY DEF SemanticSearch, TopMatches
  <2> HIDE DEF stored, shown
  <2>3. similar(stored) = similar(shown)
    BY <2>1
  <2>4. \A s \in similar(shown) : stored[s] = shown[s]
    BY <2>1
  <2> HIDE DEF similar
  <2>5. Answers(stored) = Answers(shown)
    BY <2>3, <2>4
  <2> QED BY <2>2, <2>5 DEF shown
<1>2. IInv /\ HistoryInv => SearchFindsText
  BY <1>1 DEF SearchFindsText, SearchIsFaithful
<1> QED BY <1>2, HistoryInvariance, PTL

\* A skill that no two requests held together is activated only by a PATCH that
\* says so, and a catalog deactivated only by such a PATCH: DELETE and import
\* leave both alone.
THEOREM ActivationIsAsked == HistorySpec => SerialActivationIsAsked
<1> DEFINE Asked == \A s \in Ids \ raced :
                        skills'[s].active # skills[s].active
                        /\ (skills'[s].active \/ skills[s].catalog)
                            => <<s, skills'[s].active>> \in asked
<1>1. ASSUME IInv, HistoryInv, HistoryNext PROVE Asked
  <2>1. PICK r \in Requests : Serve(r)
    BY <1>1 DEF HistoryNext, Next
  <2>2. CASE Save(r)
    <3>1. LET t == request[r].skill IN
          /\ Holds(r, t)
          /\ \A s \in Ids : skills'[s] = IF s = t THEN request[r].next ELSE skills[s]
      BY <1>1, <2>2, SaveEffect
    <3> QED BY <1>1, <3>1 DEF HistoryInv, CopiesAreAsked
  <2>3. CASE ~Save(r)
    <3>1. \A s \in Ids : skills'[s] = skills[s]
      <4>1. UNCHANGED skills \/ Insert(r) \/ \E n \in 0..MaxImport : InsertBatch(r, n)
        BY <2>1, <2>3 DEF Serve, Create, Embed, Update, Reembed, Remove, Import, Validate, BatchFails
      <4> QED BY <1>1, <4>1, InsertEffect, InsertBatchEffect
    <3> QED BY <3>1
  <2> QED BY <2>2, <2>3
<1>2. UNCHANGED historyVars => UNCHANGED vars
  BY DEF historyVars
<1>3. IInv /\ HistoryInv /\ [HistoryNext]_historyVars => [Asked]_vars
  BY <1>1, <1>2
<1> HIDE DEF Asked
<1>4. HistorySpec => [][Asked]_vars
  BY <1>3, HistoryInvariance, PTL DEF HistorySpec
<1> QED BY <1>4 DEF SerialActivationIsAsked, Asked
=============================================================================
