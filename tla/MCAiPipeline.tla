---------------------------- MODULE MCAiPipeline ----------------------------
(* Instances of AiPipelineHistory, with and without fairness.              *)
EXTENDS AiPipelineHistory, TLC

CONSTANTS d1, d2, o1, o2

FairSpec == HistorySpec /\ Fairness

\* The divergence results have not come back, and the session is in AUTO mode.
ResultsOnly == comparing = Idle /\ compared = {} /\ session.mode = "AUTO"

Symmetry == Permutations(Dispatches) \union Permutations(Ops)
=============================================================================
