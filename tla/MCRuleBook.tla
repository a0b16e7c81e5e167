------------------------------ MODULE MCRuleBook ----------------------------
(* RuleBookHistory on a small instance.                                    *)
EXTENDS RuleBookHistory, TLC

CONSTANTS x1, x2, r1, r2, r3, s1, i1, i2

Symmetry == Permutations(Rules) \union Permutations(Requests) \union Permutations(Instructions)
=============================================================================
