------------------------------ MODULE MCComments -----------------------------
(* CommentsHistory on a small instance, with a bound on the inputs.        *)
EXTENDS CommentsHistory, TLC

CONSTANTS c1, c2, r1, r2, r3, u1, u2, e1, e2

\* Bound on the inputs: a new version keeps the elements of the one before it.
ElementsStay ==
    Len(versions') > Len(versions) =>
        versions[Latest].elements \subseteq versions'[Latest + 1].elements

MCNext == HistoryNext /\ ElementsStay

MCSpec == HistoryInit /\ [][MCNext]_historyVars

Symmetry == Permutations(CommentIds) \union Permutations(Requests)
              \union Permutations(Users) \union Permutations(Elements)
=============================================================================
