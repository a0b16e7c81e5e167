------------------------------ MODULE MCSkills ------------------------------
(* Skills with its history for a few requests, two names and two contents: *)
(* a query for a skill finds those with its content, and those with its    *)
(* name alone only just.                                                   *)
EXTENDS SkillsHistory, TLC

CONSTANTS r1, r2, r3, n1, n2, k1, k2

MCQueries == Texts

MCSimilarity ==
    [query \in Texts |-> [text \in Texts |->
        30 + (IF query[1] = text[1] THEN 10 ELSE 0) + (IF query[2] = text[2] THEN 50 ELSE 0)]]

\* New skills are called n1; PATCHes give them either name.
NewSkills ==
    \A r \in Requests :
        /\ request[r].step \in {"embed", "insert"} => request[r].dto.name = n1
        /\ request[r].step \in {"validate", "batch"} =>
              \A i \in DOMAIN request[r].bundle : request[r].bundle[i].name = n1

Symmetry == Permutations(Requests) \union Permutations(Contents)
=============================================================================
