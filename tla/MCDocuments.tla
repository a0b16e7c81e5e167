----------------------------- MODULE MCDocuments ----------------------------
(* Documents with its history for three requests and two names of files.   *)
EXTENDS DocumentsHistory, TLC

CONSTANTS r1, r2, r3, f1, f2

Symmetry == Permutations(Requests) \union Permutations(Filenames)
=============================================================================
