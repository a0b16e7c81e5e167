--------------------------- MODULE MessageOutcome ---------------------------
(***************************************************************************)
(* What a durable subscription promises about each message published to    *)
(* it: the message is either applied by the handler or recorded in the     *)
(* dead_letter table, and that verdict is final.                           *)
(***************************************************************************)
CONSTANT Msgs

VARIABLE outcome   \* per message: what became of it

Init == outcome = [m \in Msgs |-> "unsent"]

Becomes(m, from, to) ==
    /\ outcome[m] = from
    /\ outcome' = [outcome EXCEPT ![m] = to]

Send(m)       == Becomes(m, "unsent", "pending")
Apply(m)      == Becomes(m, "pending", "applied")
DeadLetter(m) == Becomes(m, "pending", "dead")

Next == \E m \in Msgs : Send(m) \/ Apply(m) \/ DeadLetter(m)

Safety == Init /\ [][Next]_outcome
=============================================================================
