------------------------- MODULE NatsDeliveryHistory -------------------------
(***************************************************************************)
(* NatsDelivery with a history variable that guards no step: whether       *)
(* ack_wait has ever expired on a delivery the client still held.          *)
(***************************************************************************)
EXTENDS NatsDelivery

VARIABLE late

historyVars == <<vars, late>>

HistoryInit == Init /\ late = FALSE

HistoryNext ==
    /\ Next
    /\ late' = (late \/ \E m \in Msgs : AckWaitExpires(m) /\ Held(m))

HistorySpec == HistoryInit /\ [][HistoryNext]_historyVars /\ Fairness

-----------------------------------------------------------------------------
(* Properties                                                              *)

\* With handlers faster than ack_wait and no crash, a message is applied once
\* or dead-lettered once, never both and never twice.
PromptMeansExactlyOnce ==
    ~late /\ crashes = 0 => \A m \in Msgs : applied[m] + dlq[m] <= 1

-----------------------------------------------------------------------------
(* What makes it inductive                                                 *)

\* The process has at most one delivery of a message in hand, the server
\* awaits its acknowledgement, and a message that has left its trace is
\* settled or about to be.
Settled(m) ==
    \/ stream[m] \in {"acked", "termed"}
    \/ loop.state \in {"handled", "recorded"} /\ loop.at.msg = m

OneInHand ==
    /\ \A i, j \in DOMAIN buffer : buffer[i].msg = buffer[j].msg => i = j
    /\ loop.state \in Busy => \A i \in DOMAIN buffer : buffer[i].msg # loop.at.msg
    /\ \A m \in Msgs : Held(m) => stream[m] = "waiting"

TracedOnce ==
    \A m \in Msgs :
        /\ applied[m] + dlq[m] <= 1
        /\ applied[m] + dlq[m] > 0 => Settled(m)

PromptInv == ~late /\ crashes = 0 => OneInHand /\ TracedOnce
=============================================================================
