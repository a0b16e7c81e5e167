---------------------------- MODULE SkillsHistory ----------------------------
(***************************************************************************)
(* Skills with history variables that guard no step: copies and checks     *)
(* that overlapped, PATCHes that set isActive, imports that kept a catalog *)
(* out, and where a renaming or an import left the embedding behind.       *)
(***************************************************************************)
EXTENDS Skills

VARIABLES
    raced,    \* skills of which two requests held a copy together
    crowded,  \* a catalog was created or imported while another was on its way
    asked,    \* <<skill, value>> of the PATCHes that set isActive
    shifted,  \* an import kept a skill out that is not its last one
    stale,    \* skills left with the embedding of another text, or with none
    staleCopies \* requests whose copy is to be saved as such

historyVars == <<vars, raced, crowded, asked, shifted, stale, staleCopies>>

Holds(r, s) == request[r].step \in {"reembed", "save"} /\ request[r].skill = s

Creates(r) == request[r].step \in {"embed", "insert"} /\ request[r].dto.catalog

Imports(r) ==
    /\ request[r].step \in {"validate", "batch"}
    /\ \E i \in DOMAIN request[r].bundle : request[r].bundle[i].catalog

Founds(r) == Creates(r) \/ Imports(r)

\* A bundle brings two catalogs, which its checks cannot see.
HasTwins(r) ==
    /\ request[r].step \in {"validate", "batch"}
    /\ \E i, j \in DOMAIN request[r].bundle :
          i # j /\ request[r].bundle[i].catalog /\ request[r].bundle[j].catalog

Shifts(r) ==
    request[r].step = "batch" /\ \E i \in DOMAIN request[r].kept : request[r].kept[i] # i

\* A PATCH loads skill s to set isActive to a.
Asks(r, s, a) ==
    /\ request[r] = Idle /\ Holds(r, s)'
    /\ request'[r].op = "update"
    /\ request'[r].next.active = a /\ a # skills[s].active

\* An import inserts skill s for another item than its own, or without the
\* embedding that the service left out.
Mispairs(r, n, s) ==
    LET i == s - Len(skills) IN
    i \in DOMAIN request[r].kept /\ (request[r].kept[i] # i \/ i > n)

\* A copy is going to be saved with the embedding of its row, which was left
\* behind before or by the new name.
Leaves(r) ==
    /\ request[r] = Idle /\ request'[r].step = "save"
    /\ LET s == request'[r].skill IN
       s \in stale \/ request'[r].next.name # skills[s].name

HistoryInit ==
    /\ Init
    /\ raced = {} /\ crowded = FALSE /\ asked = {} /\ shifted = FALSE
    /\ stale = {} /\ staleCopies = {}

HistoryNext ==
    /\ Next
    /\ raced' = raced \union
          {s \in Ids : \E p, r \in Requests : p # r /\ Holds(p, s)' /\ Holds(r, s)'}
    /\ crowded' = (crowded \/ \E p, r \in Requests :
                      \/ p # r /\ Founds(p)' /\ Founds(r)'
                      \/ HasTwins(r)')
    /\ asked' = asked \union {w \in Ids \X BOOLEAN : \E r \in Requests : Asks(r, w[1], w[2])}
    /\ shifted' = (shifted \/ \E r \in Requests : Shifts(r)')
    /\ stale' = {s \in Ids' :
          \/ \E r \in staleCopies : Save(r) /\ request[r].skill = s
          \/ s \in stale /\ ~\E r \in Requests : Save(r) /\ request[r].skill = s
          \/ \E r \in Requests : \E n \in 0..MaxImport : InsertBatch(r, n) /\ Mispairs(r, n, s)}
    /\ staleCopies' = {r \in Requests : Leaves(r) \/ (r \in staleCopies /\ ~Save(r))}

HistorySpec == HistoryInit /\ [][HistoryNext]_historyVars

-----------------------------------------------------------------------------
(* Properties                                                              *)

\* No catalog was activated by a PATCH or held in two copies, and nothing that
\* may bring one overlapped.
Undisturbed ==
    /\ ~crowded /\ ~shifted
    /\ \A s \in Ids : skills[s].catalog => s \notin raced /\ <<s, TRUE>> \notin asked

\* One active ACTOR_CATALOG at most, as long as founding requests do not
\* overlap, no import is shifted, no PATCH activates a catalog and no two
\* requests hold copies of one, of which the older would bring it back.
SerialCatalogIsUnique == Undisturbed => CatalogIsUnique

\* A search finds the nearest of the active skills by the names and contents
\* they have now, whatever requests, failures of the embedding service and
\* saves of old copies interleave, unless an active skill was left behind: by
\* a PATCH of the name alone, or by an import that kept an item out before it
\* or got too few embeddings.  A PATCH of its content heals it.
SearchFindsText == stale \intersect {s \in Ids : skills[s].active} = {} => SearchIsFaithful

\* A skill is activated only by a PATCH that says so, and a catalog leaves the
\* context of the agents only by such a PATCH, unless requests held the skill
\* together: an update that waits for its embedding brings back a deleted one.
SerialActivationIsAsked ==
    [][\A s \in Ids \ raced :
          skills'[s].active # skills[s].active /\ (skills'[s].active \/ skills[s].catalog)
              => <<s, skills'[s].active>> \in asked]_vars

-----------------------------------------------------------------------------
(* What makes them inductive                                               *)

\* A copy is of a row, and nothing turns a skill into a catalog.
CopiesKeepTheType ==
    \A r \in Requests : \A s \in Ids :
        Holds(r, s) => request[r].next.catalog = skills[s].catalog

\* A copy that has its row to itself changes isActive only as asked.
CopiesAreAsked ==
    \A s \in Ids \ raced :
        /\ \A p, r \in Requests : Holds(p, s) /\ Holds(r, s) => p = r
        /\ \A r \in Requests :
              Holds(r, s) /\ request[r].next.active # skills[s].active
              /\ (request[r].next.active \/ skills[s].catalog)
                  => <<s, request[r].next.active>> \in asked

\* What is stored or about to be stored has the embedding of its text, unless
\* it was left behind.
EmbeddingsMatch ==
    /\ \A s \in Ids \ stale : skills[s].embedded = TextOf(skills[s])
    /\ \A r \in Requests \ staleCopies :
          request[r].step = "save" => request[r].next.embedded = TextOf(request[r].next)
    /\ ~shifted => \A r \in Requests : ~Shifts(r)

\* Whoever is going to found a catalog is alone, and there is none.
FoundingIsAlone ==
    Undisturbed =>
        /\ \A s, t \in Ids : s \in ActiveCatalogs /\ t \in ActiveCatalogs => s = t
        /\ \A p, r \in Requests : Founds(p) /\ Founds(r) => p = r
        /\ \A r \in Requests :
              /\ ~HasTwins(r)
              /\ Creates(r) => ~CatalogExists
              /\ request[r].step \in {"validate", "batch"} =>
                    \A i \in DOMAIN request[r].kept :
                        request[r].bundle[request[r].kept[i]].catalog => ~CatalogExists

HistoryInv == CopiesKeepTheType /\ CopiesAreAsked /\ EmbeddingsMatch /\ FoundingIsAlone
=============================================================================
