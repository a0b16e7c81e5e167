--------------------------- MODULE MCOrganizations ---------------------------
(* Users and requests of the instance of OrganizationsHistory.             *)
EXTENDS OrganizationsHistory, TLC

CONSTANTS u1, u2, u3, r1, r2, r3

Symmetry == Permutations(Requests) \union Permutations(Founders)
=============================================================================
