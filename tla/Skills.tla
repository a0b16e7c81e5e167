------------------------------- MODULE Skills -------------------------------
(***************************************************************************)
(* The skills of one organization and SkillsService: create, PATCH, soft   *)
(* delete and import, with the calls to the embedding service between the  *)
(* checks and the writes.                                                  *)
(*                                                                         *)
(* A skill is reduced to whether it is an ACTOR_CATALOG, its name and its  *)
(* content, the text its embedding was computed from (Unchanged if it has  *)
(* none), and the columns is_active, is_mandatory and version.  Each       *)
(* awaited call is a step; save writes back the entity loaded before.      *)
(* create, update and remove end with an audit row whose workflow_id is    *)
(* the id of the skill; the foreign key of audit_log refuses it, so these  *)
(* requests answer 500 once their change is stored.                        *)
(***************************************************************************)
EXTENDS Naturals, Sequences, FiniteSets

CONSTANTS
    Requests,      \* requests to SkillsService, each served once
    Names,         \* what a skill may be called
    Contents,      \* what a skill may say
    Unchanged,     \* a field that is not in a PATCH, and no embedding
    Queries,       \* what may be searched for
    Similarity,    \* of the embeddings of a query and of a text, in percent
    MinSimilarity, \* of what a search finds; 35 in the code
    TopK,          \* the most a search finds; 5 in the code
    MaxSkills,     \* bound on the rows
    MaxImport      \* bound on the skills of an import; 200 in the code

\* What is embedded: the name with the content.
Texts == Names \X Contents

ASSUME SkillsAssumption ==
    /\ Unchanged \notin Names \union Contents \union Texts \union BOOLEAN
    /\ Similarity \in [Queries -> [Texts -> Nat]]
    /\ MinSimilarity \in Nat /\ TopK \in Nat
    /\ MaxSkills \in Nat /\ MaxImport \in Nat

VARIABLES
    skills,  \* the skill rows, in the order of their creation
    request  \* per request: step and locals

vars == <<skills, request>>

Row == [catalog : BOOLEAN, name : Names, content : Contents,
        embedded : Texts \union {Unchanged},
        active : BOOLEAN, mandatory : BOOLEAN, version : Nat \ {0}]

\* CreateSkillDto: the type, the name and what the skill says; isMandatory is
\* not given.
Dto == [catalog : BOOLEAN, name : Names, content : Contents]

\* prepareContentForEmbedding, of a row or of a dto.
TextOf(skill) == <<skill.name, skill.content>>

Bundles == UNION {[1..n -> Dto] : n \in 1..MaxImport}

Ids == 1..Len(skills)
Idle == [step |-> "idle"]
Ended == [step |-> "ended"]

Creating == [step : {"embed", "insert"}, dto : Dto]
Changing == [step : {"reembed", "save"}, op : {"update", "remove"}, skill : Ids, next : Row]
Importing == [step : {"validate", "batch"}, bundle : Bundles,
              kept : Seq(1..MaxImport), at : 1..MaxImport + 1]

TypeOK ==
    /\ skills \in Seq(Row) /\ Len(skills) <= MaxSkills
    /\ request \in [Requests -> {Idle, Ended} \union Creating \union Changing \union Importing]

Init ==
    /\ skills = <<>>
    /\ request = [r \in Requests |-> Idle]

Goto(r, next) == request' = [request EXCEPT ![r] = next]

\* audit_log.workflow_id references workflow, and the row has the id of the
\* skill there: it is refused, and the request answers 500 with its change
\* stored.
LogSkillChange(r) == Goto(r, Ended)

-----------------------------------------------------------------------------
\* validateActorCatalogUniqueness, and the same query in importSkills.
CatalogExists == \E s \in Ids : skills[s].catalog /\ skills[s].active

NewRow(dto, embedded) ==
    [catalog |-> dto.catalog, name |-> dto.name, content |-> dto.content,
     embedded |-> embedded, active |-> TRUE, mandatory |-> dto.catalog, version |-> 1]

\* Mutant: the uniqueness of the catalog is not checked.
CreateAnyway(r, dto) ==
    /\ request[r] = Idle
    /\ Goto(r, [step |-> "embed", dto |-> dto])
    /\ UNCHANGED skills

\* create up to the embedding.
Create(r, dto) ==
    /\ request[r] = Idle
    /\ Goto(r, IF dto.catalog /\ CatalogExists THEN Ended
               ELSE [step |-> "embed", dto |-> dto])
    /\ UNCHANGED skills

Embed(r) ==
    /\ request[r].step = "embed"
    /\ \/ Goto(r, [request[r] EXCEPT !.step = "insert"])
       \/ Goto(r, Ended)  \* the embedding service fails
    /\ UNCHANGED skills

Insert(r) ==
    LET dto == request[r].dto IN
    /\ request[r].step = "insert"
    /\ Len(skills) < MaxSkills
    /\ skills' = Append(skills, NewRow(dto, TextOf(dto)))
    /\ LogSkillChange(r)

\* update changes the loaded entity before it calls the embedding service.
\* isMandatory is only looked at to refuse a catalog that is not mandatory.
Patched(row, name, content, active) ==
    [row EXCEPT !.name = IF name = Unchanged THEN @ ELSE name,
                !.content = IF content = Unchanged THEN @ ELSE content,
                !.active = IF active = Unchanged THEN @ ELSE active,
                !.version = IF content \in {Unchanged, row.content} THEN @ ELSE @ + 1]

\* The embedding is only renewed when the content changes, not with the name.
Update(r, s, name, content, active, mandatory) ==
    LET next == Patched(skills[s], name, content, active) IN
    /\ request[r] = Idle
    /\ Goto(r, IF skills[s].catalog /\ mandatory = FALSE THEN Ended
               ELSE [step |-> IF next.content = skills[s].content THEN "save" ELSE "reembed",
                     op |-> "update", skill |-> s, next |-> next])
    /\ UNCHANGED skills

\* Mutant: the update is stored although the embedding service failed.
ReembedOrNot(r) ==
    /\ request[r].step = "reembed"
    /\ \/ Goto(r, [request[r] EXCEPT !.step = "save", !.next.embedded = TextOf(request[r].next)])
       \/ Goto(r, [request[r] EXCEPT !.step = "save"])
    /\ UNCHANGED skills

Reembed(r) ==
    /\ request[r].step = "reembed"
    /\ \/ Goto(r, [request[r] EXCEPT !.step = "save", !.next.embedded = TextOf(request[r].next)])
       \/ Goto(r, Ended)
    /\ UNCHANGED skills

\* Mutant: a catalog can be deleted.
RemoveAny(r, s) ==
    /\ request[r] = Idle
    /\ Goto(r, [step |-> "save", op |-> "remove", skill |-> s,
                next |-> [skills[s] EXCEPT !.active = FALSE]])
    /\ UNCHANGED skills

\* DELETE sets is_active only, and not on a catalog.
Remove(r, s) ==
    /\ request[r] = Idle
    /\ Goto(r, IF skills[s].catalog /\ skills[s].mandatory THEN Ended
               ELSE [step |-> "save", op |-> "remove", skill |-> s,
                     next |-> [skills[s] EXCEPT !.active = FALSE]])
    /\ UNCHANGED skills

Save(r) ==
    /\ request[r].step = "save"
    /\ skills' = [skills EXCEPT ![request[r].skill] = request[r].next]
    /\ LogSkillChange(r)

-----------------------------------------------------------------------------
(* importSkills                                                            *)

Import(r, bundle) ==
    /\ request[r] = Idle
    /\ Goto(r, [step |-> "validate", bundle |-> bundle, kept |-> <<>>, at |-> 1])
    /\ UNCHANGED skills

\* One round of the validation loop: a catalog is kept out if one exists.
Validate(r) ==
    LET q == request[r] IN
    /\ q.step = "validate"
    /\ Goto(r, [q EXCEPT !.step = IF q.at = Len(q.bundle) THEN "batch" ELSE @,
                         !.at = @ + 1,
                         !.kept = IF q.bundle[q.at].catalog /\ CatalogExists
                                  THEN @ ELSE Append(@, q.at)])
    /\ UNCHANGED skills

\* The insert loop runs over the kept items but takes the i-th skill of the
\* bundle for the i-th of them, with the embedding of the item, or with none
\* beyond the n embeddings the service answered.
Imported(q, n) ==
    [i \in 1..Len(q.kept) |->
        NewRow(q.bundle[i], IF i <= n THEN TextOf(q.bundle[q.kept[i]]) ELSE Unchanged)]

\* The batch is embedded, and inserted in one transaction.
InsertBatch(r, n) ==
    LET q == request[r] IN
    /\ q.step = "batch" /\ n <= Len(q.kept)
    /\ Len(skills) + Len(q.kept) <= MaxSkills
    /\ skills' = skills \o Imported(q, n)
    /\ Goto(r, Ended)

BatchFails(r) ==
    /\ request[r].step = "batch"
    /\ Goto(r, Ended)
    /\ UNCHANGED skills

-----------------------------------------------------------------------------
(* What agents and users get to see                                        *)

\* For the agents to take along; no dispatch asks for it yet.
ListMandatorySkills == {s \in Ids : skills[s].mandatory /\ skills[s].active}

\* The answers a search may give when skill s counts as text[s]: the TopK of
\* the active skills with an embedding that is similar enough, in any order of
\* equals.
TopMatches(query, text) ==
    LET similarity == Similarity[query]
        similar == {s \in Ids : /\ skills[s].active
                                /\ text[s] # Unchanged
                                /\ similarity[text[s]] >= MinSimilarity}
    IN  {found \in SUBSET similar :
            /\ Cardinality(found) <= TopK
            /\ found # similar => Cardinality(found) = TopK
            /\ \A s \in found, t \in similar \ found : similarity[text[s]] >= similarity[text[t]]}

\* A search compares the embeddings that are stored.
SemanticSearch(query) == TopMatches(query, [s \in Ids |-> skills[s].embedded])

-----------------------------------------------------------------------------
Serve(r) ==
    \/ \E dto \in Dto : Create(r, dto)
    \/ Embed(r)
    \/ Insert(r)
    \/ \E s \in Ids, name \in Names \union {Unchanged}, content \in Contents \union {Unchanged},
          active, mandatory \in BOOLEAN \union {Unchanged} :
             Update(r, s, name, content, active, mandatory)
    \/ Reembed(r)
    \/ \E s \in Ids : Remove(r, s)
    \/ Save(r)
    \/ \E bundle \in Bundles : Import(r, bundle)
    \/ Validate(r)
    \/ \E n \in 0..MaxImport : InsertBatch(r, n)
    \/ BatchFails(r)

Next == \E r \in Requests : Serve(r)

Spec == Init /\ [][Next]_vars

-----------------------------------------------------------------------------
(* Properties                                                              *)

ActiveCatalogs == {s \in Ids : skills[s].catalog /\ skills[s].active}

\* The organization has at most one active ACTOR_CATALOG, and the agents get it.
CatalogIsUnique ==
    /\ Cardinality(ActiveCatalogs) <= 1
    /\ ActiveCatalogs \subseteq ListMandatorySkills

\* A search ranks the skills as their names and contents read now.
SearchIsFaithful ==
    \A query \in Queries :
        SemanticSearch(query) = TopMatches(query, [s \in Ids |-> TextOf(skills[s])])

\* A catalog is mandatory in every row, however created, changed or imported
\* and whatever overlaps: a PATCH cannot turn isMandatory off.
CatalogsAreMandatory == \A s \in Ids : skills[s].catalog => skills[s].mandatory

\* The same of the copies that are still to be saved, and what the loop of an
\* import has kept lies before the item it looks at.
CopiesAreMandatory ==
    \A r \in Requests : request[r].step \in {"reembed", "save"} =>
        (request[r].next.catalog => request[r].next.mandatory)

ImportsInRange ==
    \A r \in Requests : request[r].step \in {"validate", "batch"} =>
        LET q == request[r] IN
        /\ q.at <= Len(q.bundle) + 1
        /\ q.step = "validate" => q.at <= Len(q.bundle)
        /\ Len(q.kept) < q.at
        /\ \A i \in DOMAIN q.kept : q.kept[i] < q.at

IInv == TypeOK /\ CatalogsAreMandatory /\ CopiesAreMandatory /\ ImportsInRange
=============================================================================
