----------------------------- MODULE NatsDelivery ---------------------------
(***************************************************************************)
(* One durable JetStream consumer and the loop NatsClientService starts    *)
(* for it in subscribeDurable: explicit acknowledgement, ack_wait,         *)
(* max_deliver, a negative acknowledgement when the handler throws, and    *)
(* onExhausted followed by term on the last delivery.                      *)
(*                                                                         *)
(* The server side (Publish, Deliver, AckWaitExpires) is NATS, modelled    *)
(* from the consumer configuration the client passes.  Delays (the 5 s of  *)
(* nak, the 30 s of ack_wait) are abstracted to "later".                   *)
(***************************************************************************)
EXTENDS Naturals, Sequences

CONSTANTS
    Msgs,         \* messages published on the subject
    MaxDeliver,   \* max_deliver of the consumer; 3 in the code
    HasExhausted, \* the subscription passes onExhausted
    Prompt,       \* ack_wait never expires on a delivery the client still holds
    MaxCrash      \* bound on the deaths of the process

ASSUME NDAssumption ==
    /\ MaxDeliver \in Nat \ {0}
    /\ HasExhausted \in BOOLEAN /\ Prompt \in BOOLEAN
    /\ MaxCrash \in Nat

VARIABLES
    consumer,  \* the durable consumer exists on the server
    stream,    \* per message: the consumer's view of it
    count,     \* per message: deliveries made
    buffer,    \* deliveries the client has received and not begun
    loop,      \* what the for-await loop is doing
    applied,   \* per message: runs of the handler that completed
    dlq,       \* per message: rows in dead_letter
    crashes    \* deaths of the process so far

vars == <<consumer, stream, count, buffer, loop, applied, dlq, crashes>>

\* due: to be delivered; waiting: delivered, acknowledgement awaited; spent:
\* delivered max_deliver times and never delivered again; skipped: published
\* before the consumer existed (deliver_policy 'new').
StreamStates == {"unsent", "skipped", "due", "waiting", "spent", "acked", "termed"}

Deliveries == [msg : Msgs, count : 1..MaxDeliver]

\* down: not subscribed.  handled: the handler returned, ack not yet sent.
\* recorded: onExhausted returned, term not yet sent.
Busy == {"handling", "handled", "exhausting", "recorded"}

TypeOK ==
    /\ consumer \in BOOLEAN
    /\ stream \in [Msgs -> StreamStates]
    /\ count \in [Msgs -> 0..MaxDeliver]
    /\ buffer \in Seq(Deliveries)
    /\ \/ loop \in [state : Busy, at : Deliveries]
       \/ loop \in [state : {"down", "idle"}]
    /\ applied \in [Msgs -> 0..MaxDeliver]
    /\ dlq \in [Msgs -> Nat]
    /\ crashes \in 0..MaxCrash

Init ==
    /\ consumer = FALSE
    /\ stream = [m \in Msgs |-> "unsent"]
    /\ count = [m \in Msgs |-> 0]
    /\ buffer = <<>>
    /\ loop = [state |-> "down"]
    /\ applied = [m \in Msgs |-> 0]
    /\ dlq = [m \in Msgs |-> 0]
    /\ crashes = 0

\* The process holds a delivery of m: the loop works on it, or it is buffered.
Held(m) ==
    \/ loop.state \in Busy /\ loop.at.msg = m
    \/ \E i \in DOMAIN buffer : buffer[i].msg = m

-----------------------------------------------------------------------------
(* The server. *)

Publish(m) ==
    /\ stream[m] = "unsent"
    /\ stream' = [stream EXCEPT ![m] = IF consumer THEN "due" ELSE "skipped"]
    /\ UNCHANGED <<consumer, count, buffer, loop, applied, dlq, crashes>>

Deliver(m) ==
    /\ stream[m] = "due"
    /\ loop.state # "down"
    /\ stream' = [stream EXCEPT ![m] = "waiting"]
    /\ count' = [count EXCEPT ![m] = @ + 1]
    /\ buffer' = Append(buffer, [msg |-> m, count |-> count[m] + 1])
    /\ UNCHANGED <<consumer, loop, applied, dlq, crashes>>

\* Mutant: max_deliver is one less than the number the loop waits for.
AgainOneFewer(m) == IF count[m] < MaxDeliver - 1 THEN "due" ELSE "spent"

\* No acknowledgement arrived in time, or a nak did: deliver again, if allowed.
Again(m) == IF count[m] < MaxDeliver THEN "due" ELSE "spent"

AckWaitExpires(m) ==
    /\ stream[m] = "waiting"
    /\ Prompt => ~Held(m)
    /\ stream' = [stream EXCEPT ![m] = Again(m)]
    /\ UNCHANGED <<consumer, count, buffer, loop, applied, dlq, crashes>>

\* Acknowledgements are matched by stream sequence, so one sent for an earlier
\* delivery settles the message; after ack or term every other one is ignored.
Settle(m, verdict) ==
    stream' = [stream EXCEPT ![m] = IF @ \in {"acked", "termed"} THEN @ ELSE verdict]

Nak(m) ==
    stream' = [stream EXCEPT ![m] = IF @ = "waiting" THEN Again(m) ELSE @]
-----------------------------------------------------------------------------
(* subscribeDurable. *)

Subscribe ==
    /\ loop.state = "down"
    /\ loop' = [state |-> "idle"]
    /\ consumer' = TRUE
    /\ UNCHANGED <<stream, count, buffer, applied, dlq, crashes>>

\* for await (const rawMsg of subscription)
Take ==
    /\ loop.state = "idle"
    /\ buffer # <<>>
    /\ loop' = [state |-> "handling", at |-> Head(buffer)]
    /\ buffer' = Tail(buffer)
    /\ UNCHANGED <<consumer, stream, count, applied, dlq, crashes>>

HandlerReturns ==
    /\ loop.state = "handling"
    /\ applied' = [applied EXCEPT ![loop.at.msg] = @ + 1]
    /\ loop' = [loop EXCEPT !.state = "handled"]
    /\ UNCHANGED <<consumer, stream, count, buffer, dlq, crashes>>

\* Mutant: manualAck without the call of ack.
AckForgotten ==
    /\ loop.state = "handled"
    /\ loop' = [state |-> "idle"]
    /\ UNCHANGED <<consumer, stream, count, buffer, applied, dlq, crashes>>

Ack ==
    /\ loop.state = "handled"
    /\ Settle(loop.at.msg, "acked")
    /\ loop' = [state |-> "idle"]
    /\ UNCHANGED <<consumer, count, buffer, applied, dlq, crashes>>

\* Mutant: the loop gives up one delivery early.
ExhaustedEarly(delivery) == delivery.count >= MaxDeliver - 1

\* The delivery number the loop compares with 3.
Exhausted(delivery) == delivery.count >= MaxDeliver

HandlerThrows ==
    /\ loop.state = "handling"
    /\ ~Exhausted(loop.at)
    /\ Nak(loop.at.msg)
    /\ loop' = [state |-> "idle"]
    /\ UNCHANGED <<consumer, count, buffer, applied, dlq, crashes>>

\* Mutant: the last delivery is terminated without onExhausted.
HandlerThrowsLastUnrecorded ==
    /\ loop.state = "handling"
    /\ Exhausted(loop.at)
    /\ loop' = [loop EXCEPT !.state = "recorded"]
    /\ UNCHANGED <<consumer, stream, count, buffer, applied, dlq, crashes>>

HandlerThrowsLast ==
    /\ loop.state = "handling"
    /\ Exhausted(loop.at)
    /\ loop' = [loop EXCEPT !.state = IF HasExhausted THEN "exhausting" ELSE "recorded"]
    /\ UNCHANGED <<consumer, stream, count, buffer, applied, dlq, crashes>>

\* RetryExhaustedHandler.handle, ending in AiTaskDlqService.recordFailure.
RecordFailure ==
    /\ loop.state = "exhausting"
    /\ dlq' = [dlq EXCEPT ![loop.at.msg] = @ + 1]
    /\ loop' = [loop EXCEPT !.state = "recorded"]
    /\ UNCHANGED <<consumer, stream, count, buffer, applied, crashes>>

Term ==
    /\ loop.state = "recorded"
    /\ Settle(loop.at.msg, "termed")
    /\ loop' = [state |-> "idle"]
    /\ UNCHANGED <<consumer, count, buffer, applied, dlq, crashes>>

\* The process dies: a crash, or onExhausted throws, which nothing in the loop
\* catches and which ends the process as an unhandled rejection.  What the
\* client had buffered is gone; the server only learns by ack_wait.
Crash ==
    /\ loop.state # "down"
    /\ crashes < MaxCrash
    /\ crashes' = crashes + 1
    /\ loop' = [state |-> "down"]
    /\ buffer' = <<>>
    /\ UNCHANGED <<consumer, stream, count, applied, dlq>>
-----------------------------------------------------------------------------
Loop ==
    \/ Take \/ HandlerReturns \/ Ack
    \/ HandlerThrows \/ HandlerThrowsLast \/ RecordFailure \/ Term

Next ==
    \/ \E m \in Msgs : Publish(m) \/ Deliver(m) \/ AckWaitExpires(m)
    \/ Subscribe
    \/ Loop
    \/ Crash

\* The server redelivers and times out, the process is restarted when it dies
\* and its loop runs.  Nothing has to be published and nothing has to fail.
Fairness ==
    /\ \A m \in Msgs : WF_vars(Deliver(m)) /\ WF_vars(AckWaitExpires(m))
    /\ WF_vars(Subscribe)
    /\ WF_vars(Loop)

Spec == Init /\ [][Next]_vars /\ Fairness
-----------------------------------------------------------------------------
(* Properties *)

\* The consumer will do nothing more for m.
GivenUp(m) == stream[m] \in {"spent", "termed"} /\ ~Held(m)

\* The dead-letter row is written once, whatever crash or expiry comes between
\* onExhausted and term, and only when every delivery has been made.
DeadLetteredOnce ==
    \A m \in Msgs : dlq[m] <= 1 /\ (dlq[m] = 1 => count[m] = MaxDeliver)

\* The state is well formed, and no delivery is lost count of between the
\* server, the buffer and the dead-letter table.
DeliveriesConsistent == TypeOK /\ DeadLetteredOnce

\* Without a crash, a message given up on was applied or dead-lettered: a
\* delivery buffered behind a slow handler still gets its turn.
GivenUpIsAccountedFor ==
    crashes = 0 => \A m \in Msgs : GivenUp(m) => applied[m] + dlq[m] > 0

\* What makes DeadLetteredOnce, GivenUpIsAccountedFor and VerdictIsFinal
\* inductive.  The server counts what it delivers, and delivers no more than
\* MaxDeliver times.
CountsMatch ==
    \A m \in Msgs :
        /\ stream[m] \in {"unsent", "skipped"} => count[m] = 0
        /\ stream[m] = "due" => count[m] < MaxDeliver
        /\ stream[m] = "spent" => count[m] = MaxDeliver
        /\ applied[m] <= count[m]

\* The deliveries of a message stand in the buffer, and behind the one the loop
\* works on, in the order they were made, and none of them was handled.
InOrder ==
    /\ \A i \in DOMAIN buffer :
          /\ buffer[i].count <= count[buffer[i].msg]
          /\ applied[buffer[i].msg] < buffer[i].count
    /\ \A i, j \in DOMAIN buffer :
          i < j /\ buffer[i].msg = buffer[j].msg => buffer[i].count < buffer[j].count
    /\ loop.state \in Busy =>
          /\ loop.at.count <= count[loop.at.msg]
          /\ \A i \in DOMAIN buffer :
                buffer[i].msg = loop.at.msg => loop.at.count < buffer[i].count
    /\ loop.state = "handling" => applied[loop.at.msg] < loop.at.count
    /\ loop.state = "handled" => applied[loop.at.msg] \in 1..loop.at.count
    /\ loop.state \in {"exhausting", "recorded"} => loop.at.count = MaxDeliver

\* After its dead-letter row a message is terminated and nothing else.
DeadIsLast ==
    \A m \in Msgs : dlq[m] > 0 =>
        /\ dlq[m] = 1 /\ count[m] = MaxDeliver
        /\ \A i \in DOMAIN buffer : buffer[i].msg # m
        /\ loop.state \in Busy /\ loop.at.msg = m => loop.state = "recorded"

\* Until the process dies, the last delivery of a message is on its way to the
\* loop, or it has left its trace.
LastHeld(m) ==
    LET last == [msg |-> m, count |-> MaxDeliver] IN
    \/ loop.state \in Busy /\ loop.at = last
    \/ \E i \in DOMAIN buffer : buffer[i] = last

LastIsAccountedFor ==
    crashes = 0 /\ HasExhausted =>
        /\ \A m \in Msgs : count[m] = MaxDeliver => applied[m] > 0 \/ dlq[m] > 0 \/ LastHeld(m)
        /\ \A m \in Msgs : stream[m] = "termed" => applied[m] > 0 \/ dlq[m] > 0
        /\ loop.state = "recorded" => dlq[loop.at.msg] > 0

IInv == TypeOK /\ CountsMatch /\ InOrder /\ DeadIsLast /\ LastIsAccountedFor

Outcome ==
    [m \in Msgs |->
        CASE applied[m] > 0 -> "applied"
          [] applied[m] = 0 /\ dlq[m] > 0 -> "dead"
          [] applied[m] = 0 /\ dlq[m] = 0 /\ stream[m] \in {"unsent", "skipped"} -> "unsent"
          [] OTHER -> "pending"]

Abstract == INSTANCE MessageOutcome WITH outcome <- Outcome

\* The subscription implements MessageOutcome: the verdict on a message is final.
VerdictIsFinal == Abstract!Safety

\* What the code does deliver: a message is lost only when the process died and
\* no delivery of it is left.
LostOnlyOnLastDelivery ==
    \A m \in Msgs :
        Outcome[m] = "pending" ~>
            \/ Outcome[m] \in {"applied", "dead"}
            \/ crashes > 0 /\ stream[m] = "spent"
=============================================================================
