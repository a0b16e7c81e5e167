------------------------ MODULE MCWorkflowVersions --------------------------
(* Requests and results of the instance of WorkflowVersionsHistory.        *)
EXTENDS WorkflowVersionsHistory, TLC

CONSTANTS r1, r2, a1

\* Requests differ only in name.
Symmetry == Permutations(Requests)
=============================================================================
