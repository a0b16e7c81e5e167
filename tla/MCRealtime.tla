----------------------------- MODULE MCRealtime ------------------------------
(* RealtimeHistory on a small instance.                                    *)
EXTENDS RealtimeHistory, TLC

CONSTANTS s1, s2, o1, o2

\* A member of an organization, an administrator of the other one, and a
\* token without organization.
MCTokens == {[user |-> o1, org |-> o1, admin |-> FALSE],
             [user |-> o2, org |-> o2, admin |-> TRUE],
             [user |-> o2, org |-> None, admin |-> TRUE]}

\* The rooms of the first organization, and those that take no query.
MCRequested == (Scoped \X {o1}) \union {<<"user", o2>>, <<"session", None>>,
                                          AdminHealth, Unknown}

MCMessages == {m \in Message : m.org # o2}

Symmetry == Permutations(Sockets)
=============================================================================
