------------------------- MODULE NatsDelivery_proofs -------------------------
(***************************************************************************)
(* The safety of NatsDelivery for any messages, any max_deliver and any    *)
(* number of crashes, and its refinement of MessageOutcome.                *)
(***************************************************************************)
EXTENDS NatsDeliveryHistory, TLAPS

LEMMA LoopType ==
    ASSUME TypeOK
    PROVE  /\ loop.state \in Busy \union {"down", "idle"}
           /\ loop.state \in Busy => loop \in [state : Busy, at : Deliveries]
           /\ loop.state \in Busy => loop.at \in Deliveries /\ loop.at.msg \in Msgs
                                     /\ loop.at.count \in 1..MaxDeliver
BY DEF TypeOK, Busy, Deliveries

LEMMA BufferType ==
    ASSUME TypeOK
    PROVE  /\ DOMAIN buffer = 1..Len(buffer) /\ Len(buffer) \in Nat
           /\ \A i \in DOMAIN buffer : buffer[i] \in Deliveries /\ buffer[i].msg \in Msgs
                                       /\ buffer[i].count \in 1..MaxDeliver
<1>1. buffer \in Seq(Deliveries)
  BY DEF TypeOK
<1>2. DOMAIN buffer = 1..Len(buffer) /\ Len(buffer) \in Nat
      /\ \A i \in DOMAIN buffer : buffer[i] \in Deliveries
  BY <1>1
<1> QED BY <1>2 DEF Deliveries

LEMMA InitIInv == ASSUME Init PROVE IInv
<1>0. MaxDeliver \in Nat /\ MaxCrash \in Nat
  BY NDAssumption
<1>1. TypeOK
  <2>1. /\ consumer \in BOOLEAN /\ stream \in [Msgs -> StreamStates]
        /\ count \in [Msgs -> 0..MaxDeliver] /\ applied \in [Msgs -> 0..MaxDeliver]
        /\ dlq \in [Msgs -> Nat] /\ crashes \in 0..MaxCrash
    <3>1. consumer \in BOOLEAN
      BY DEF Init
    <3>2. stream \in [Msgs -> StreamStates]
      BY DEF Init, StreamStates
    <3>3. count \in [Msgs -> 0..MaxDeliver] /\ applied \in [Msgs -> 0..MaxDeliver]
      BY <1>0 DEF Init
    <3>4. dlq \in [Msgs -> Nat] /\ crashes \in 0..MaxCrash
      BY <1>0 DEF Init
    <3> QED BY <3>1, <3>2, <3>3, <3>4
  <2>2. buffer \in Seq(Deliveries) /\ loop \in [state : {"down", "idle"}]
    BY DEF Init
  <2> QED BY <2>1, <2>2 DEF TypeOK
<1>2. CountsMatch
  <2>1. \A m \in Msgs : stream[m] = "unsent" /\ count[m] = 0 /\ applied[m] = 0
    BY DEF Init
  <2>2. \A m \in Msgs : applied[m] <= count[m]
    <3>1. 0 <= 0
      OBVIOUS
    <3> QED BY <2>1, <3>1, Zenon
  <2> QED BY <2>1, <2>2 DEF CountsMatch
<1>3. DOMAIN buffer = {} /\ loop.state = "down" /\ \A m \in Msgs : stream[m] = "unsent" /\ dlq[m] = 0
  BY DEF Init
<1>4. InOrder
  BY <1>3 DEF InOrder, Busy
<1>5. DeadIsLast
  BY <1>3 DEF DeadIsLast
<1>6. LastIsAccountedFor
  <2>1. \A m \in Msgs : count[m] # MaxDeliver
    BY NDAssumption DEF Init
  <2> QED BY <1>3, <2>1 DEF LastIsAccountedFor
<1> QED BY <1>1, <1>2, <1>4, <1>5, <1>6 DEF IInv

-----------------------------------------------------------------------------
(* The server                                                              *)

LEMMA AgainType ==
    ASSUME TypeOK, NEW m \in Msgs
    PROVE  /\ Again(m) \in {"due", "spent"}
           /\ Again(m) = "due" => count[m] < MaxDeliver
           /\ Again(m) = "spent" => count[m] = MaxDeliver
BY NDAssumption DEF TypeOK, Again

\* A step that only changes what the server thinks of one message.
LEMMA StreamStep ==
    ASSUME IInv, NEW m \in Msgs, NEW state \in StreamStates,
           stream' = [stream EXCEPT ![m] = state],
           UNCHANGED <<consumer, count, buffer, loop, applied, dlq, crashes>>,
           state \in {"unsent", "skipped"} => count[m] = 0,
           state = "due" => count[m] < MaxDeliver,
           state = "spent" => count[m] = MaxDeliver,
           state # "termed"
    PROVE  IInv'
<1>1. TypeOK'
  BY DEF IInv, TypeOK
<1>2. CountsMatch'
  BY DEF IInv, TypeOK, CountsMatch
<1>3. InOrder'
  BY DEF IInv, InOrder
<1>4. DeadIsLast'
  BY DEF IInv, DeadIsLast
<1>5. LastIsAccountedFor'
  BY DEF IInv, TypeOK, LastIsAccountedFor, LastHeld
<1> QED BY <1>1, <1>2, <1>3, <1>4, <1>5 DEF IInv

LEMMA PublishIInv == ASSUME IInv, NEW m \in Msgs, Publish(m) PROVE IInv'
<1>1. count[m] = 0 /\ 0 < MaxDeliver
  BY NDAssumption DEF IInv, CountsMatch, Publish
<1>2. CASE consumer
  BY <1>1, <1>2, StreamStep DEF Publish, StreamStates
<1>3. CASE ~consumer
  BY <1>1, <1>3, StreamStep DEF Publish, StreamStates
<1> QED BY <1>2, <1>3

LEMMA AckWaitExpiresIInv == ASSUME IInv, NEW m \in Msgs, AckWaitExpires(m) PROVE IInv'
<1>1. Again(m) \in StreamStates /\ Again(m) \in {"due", "spent"}
  BY AgainType DEF IInv, StreamStates
<1> QED BY <1>1, AgainType, StreamStep DEF IInv, AckWaitExpires

LEMMA DeliverIInv == ASSUME IInv, NEW m \in Msgs, Deliver(m) PROVE IInv'
<1> DEFINE new == [msg |-> m, count |-> count[m] + 1]
           last == Len(buffer) + 1
<1> USE NDAssumption
<1>1. TypeOK /\ stream[m] = "due" /\ count[m] \in Nat /\ count[m] + 1 \in 1..MaxDeliver
  BY DEF IInv, TypeOK, CountsMatch, Deliver
<1>2. new \in Deliveries /\ new.msg = m /\ new.count = count[m] + 1
  BY <1>1 DEF Deliveries
<1>3. /\ buffer' = Append(buffer, new) /\ stream' = [stream EXCEPT ![m] = "waiting"]
      /\ count' = [count EXCEPT ![m] = count[m] + 1]
      /\ UNCHANGED <<consumer, loop, applied, dlq, crashes>>
  BY DEF Deliver
<1> HIDE DEF new
<1>4. /\ buffer' \in Seq(Deliveries)
      /\ Len(buffer) \in Nat /\ DOMAIN buffer = 1..Len(buffer) /\ DOMAIN buffer' = 1..last
      /\ \A i \in DOMAIN buffer : buffer'[i] = buffer[i]
      /\ buffer'[last] = new
  BY <1>1, <1>2, <1>3 DEF TypeOK
<1>5. TypeOK'
  BY <1>1, <1>3, <1>4 DEF TypeOK, StreamStates
<1>6. \A k \in Msgs : count[k] \in Nat /\ applied[k] \in Nat
                      /\ count'[k] = IF k = m THEN count[m] + 1 ELSE count[k]
  BY <1>1, <1>3 DEF TypeOK
<1>7. CountsMatch'
  BY <1>1, <1>3, <1>6 DEF IInv, TypeOK, CountsMatch
<1>8. InOrder'
  <2>1. \A i \in DOMAIN buffer' :
          /\ buffer'[i].count <= count'[buffer'[i].msg]
          /\ applied'[buffer'[i].msg] < buffer'[i].count
    <3>1. ASSUME NEW i \in DOMAIN buffer
          PROVE  buffer[i].count <= count'[buffer[i].msg] /\ applied[buffer[i].msg] < buffer[i].count
      BY <1>1, <1>6, BufferType DEF IInv, InOrder
    <3>2. new.count <= count'[new.msg] /\ applied[new.msg] < new.count
      BY <1>2, <1>6 DEF IInv, CountsMatch
    <3> QED BY <1>3, <1>4, <3>1, <3>2
  <2>2. \A i, j \in DOMAIN buffer' :
          i < j /\ buffer'[i].msg = buffer'[j].msg => buffer'[i].count < buffer'[j].count
    <3>1. ASSUME NEW i \in DOMAIN buffer, buffer[i].msg = m
          PROVE  buffer[i].count < new.count
      BY <1>1, <1>2, <1>6, <3>1, BufferType DEF IInv, InOrder
    <3>2. \A i, j \in DOMAIN buffer :
             i < j /\ buffer[i].msg = buffer[j].msg => buffer[i].count < buffer[j].count
      BY DEF IInv, InOrder
    <3>3. ASSUME NEW i \in DOMAIN buffer', NEW j \in DOMAIN buffer', i < j
          PROVE  i \in DOMAIN buffer /\ (j \in DOMAIN buffer \/ j = last)
      BY <1>4, <3>3
    <3> QED BY <1>2, <1>4, <3>1, <3>2, <3>3
  <2>3. loop.state \in Busy =>
          /\ loop.at.count <= count'[loop.at.msg]
          /\ \A i \in DOMAIN buffer' :
                buffer'[i].msg = loop.at.msg => loop.at.count < buffer'[i].count
    <3> SUFFICES ASSUME loop.state \in Busy
                 PROVE  /\ loop.at.count <= count'[loop.at.msg]
                        /\ \A i \in DOMAIN buffer' :
                              buffer'[i].msg = loop.at.msg => loop.at.count < buffer'[i].count
      OBVIOUS
    <3>1. loop.at.count <= count[loop.at.msg] /\ loop.at.msg \in Msgs /\ loop.at.count \in Nat
      BY <1>1, LoopType DEF IInv, InOrder
    <3>2. loop.at.count <= count'[loop.at.msg]
      BY <1>6, <3>1
    <3>3. new.msg = loop.at.msg => loop.at.count < new.count
      BY <1>2, <1>6, <3>1
    <3>4. \A i \in DOMAIN buffer : buffer[i].msg = loop.at.msg => loop.at.count < buffer[i].count
      BY DEF IInv, InOrder
    <3>5. \A i \in DOMAIN buffer' : i \in DOMAIN buffer \/ i = last
      BY <1>4
    <3> QED BY <1>4, <3>2, <3>3, <3>4, <3>5
  <2> QED BY <1>3, <2>1, <2>2, <2>3 DEF IInv, InOrder
<1>9. DeadIsLast'
  <2>1. dlq[m] = 0 \/ ~(dlq[m] > 0)
    BY <1>1 DEF IInv, TypeOK, DeadIsLast
  <2> QED BY <1>1, <1>2, <1>3, <1>4, <1>6, <2>1 DEF IInv, TypeOK, DeadIsLast
<1>10. LastIsAccountedFor'
  <2>1. ASSUME NEW k \in Msgs, LastHeld(k) PROVE LastHeld(k)'
    BY <1>3, <1>4, <2>1 DEF LastHeld
  <2>2. count'[m] = MaxDeliver => LastHeld(m)'
    BY <1>4, <1>6 DEF LastHeld, new
  <2>3. \A k \in Msgs : stream'[k] = "termed" => stream[k] = "termed"
    BY <1>1, <1>3 DEF TypeOK
  <2> QED BY <1>3, <1>6, <2>1, <2>2, <2>3 DEF IInv, LastIsAccountedFor
<1> QED BY <1>5, <1>7, <1>8, <1>9, <1>10 DEF IInv
-----------------------------------------------------------------------------
(* The loop                                                                *)

LEMMA SubscribeIInv == ASSUME IInv, Subscribe PROVE IInv'
<1> USE DEF Subscribe
<1>1. TypeOK'
  BY DEF IInv, TypeOK
<1>2. CountsMatch' /\ InOrder' /\ DeadIsLast'
  BY DEF IInv, CountsMatch, InOrder, DeadIsLast, Busy
<1>3. LastIsAccountedFor'
  BY DEF IInv, LastIsAccountedFor, LastHeld, Busy
<1> QED BY <1>1, <1>2, <1>3 DEF IInv

\* The first delivery of the buffer becomes the one the loop works on.
LEMMA TakeIInv == ASSUME IInv, Take PROVE IInv'
<1> DEFINE head == buffer[1]
<1>1. TypeOK /\ loop.state = "idle" /\ buffer \in Seq(Deliveries) /\ buffer # <<>>
  BY DEF IInv, TypeOK, Take
<1>2. loop' = [state |-> "handling", at |-> head] /\ buffer' = Tail(buffer)
      /\ UNCHANGED <<consumer, stream, count, applied, dlq, crashes>>
  BY <1>1 DEF Take
<1>3. /\ Len(buffer) \in Nat \ {0} /\ DOMAIN buffer = 1..Len(buffer)
      /\ buffer' \in Seq(Deliveries) /\ DOMAIN buffer' = 1..(Len(buffer) - 1)
      /\ \A i \in DOMAIN buffer' : buffer'[i] = buffer[i + 1]
  BY <1>1, <1>2
<1>4. \A i \in DOMAIN buffer' : i + 1 \in DOMAIN buffer /\ 1 < i + 1
  BY <1>3
<1>5. 1 \in DOMAIN buffer /\ head \in Deliveries
  BY <1>1, <1>3
<1> HIDE DEF head
<1>6. TypeOK'
  BY <1>1, <1>2, <1>3, <1>5 DEF TypeOK, Busy
<1>7. loop'.state = "handling" /\ loop'.at = head
  BY <1>2
<1>8. CountsMatch'
  BY <1>2 DEF IInv, CountsMatch
<1>9. InOrder'
  <2>1. \A i \in DOMAIN buffer' :
          /\ buffer'[i].count <= count'[buffer'[i].msg]
          /\ applied'[buffer'[i].msg] < buffer'[i].count
    BY <1>2, <1>3, <1>4 DEF IInv, InOrder
  <2>2. \A i, j \in DOMAIN buffer' :
          i < j /\ buffer'[i].msg = buffer'[j].msg => buffer'[i].count < buffer'[j].count
    <3>1. ASSUME NEW i \in DOMAIN buffer', NEW j \in DOMAIN buffer', i < j
          PROVE  i + 1 < j + 1
      BY <1>3, <3>1
    <3> QED BY <1>3, <1>4, <3>1 DEF IInv, InOrder
  <2>3. /\ head.count <= count'[head.msg] /\ applied'[head.msg] < head.count
        /\ \A i \in DOMAIN buffer' :
              buffer'[i].msg = head.msg => head.count < buffer'[i].count
    BY <1>2, <1>3, <1>4, <1>5 DEF IInv, InOrder, head
  <2> QED BY <1>7, <2>1, <2>2, <2>3 DEF InOrder
<1>10. DeadIsLast'
  BY <1>2, <1>3, <1>4, <1>5, <1>7 DEF IInv, DeadIsLast, head
<1>11. LastIsAccountedFor'
  <2>1. ASSUME NEW m \in Msgs, LastHeld(m) PROVE LastHeld(m)'
    <3> DEFINE last == [msg |-> m, count |-> MaxDeliver]
    <3>1. PICK i \in DOMAIN buffer : buffer[i] = last
      BY <1>1, <2>1 DEF LastHeld, Busy
    <3>2. CASE i = 1
      BY <1>7, <3>1, <3>2 DEF LastHeld, Busy, head
    <3>3. CASE i # 1
      <4>1. i - 1 \in DOMAIN buffer' /\ (i - 1) + 1 = i
        BY <1>3, <3>3
      <4>2. buffer'[i - 1] = last
        BY <1>3, <3>1, <4>1
      <4> QED BY <4>1, <4>2 DEF LastHeld
    <3> QED BY <3>2, <3>3
  <2> QED BY <1>2, <1>7, <2>1 DEF IInv, LastIsAccountedFor
<1> QED BY <1>6, <1>8, <1>9, <1>10, <1>11 DEF IInv

LEMMA HandlerReturnsIInv == ASSUME IInv, HandlerReturns PROVE IInv'
<1> DEFINE m == loop.at.msg
<1>1. /\ TypeOK /\ loop.state = "handling" /\ m \in Msgs /\ loop.at.count \in 1..MaxDeliver
      /\ loop \in [state : Busy, at : Deliveries]
  BY LoopType DEF IInv, HandlerReturns, Busy
<1>2. /\ loop' = [loop EXCEPT !.state = "handled"] /\ loop'.state = "handled" /\ loop'.at = loop.at
      /\ applied' = [applied EXCEPT ![m] = applied[m] + 1]
      /\ UNCHANGED <<consumer, stream, count, buffer, dlq, crashes>>
  BY <1>1 DEF HandlerReturns
<1>3. /\ applied[m] < loop.at.count /\ loop.at.count <= count[m]
      /\ \A i \in DOMAIN buffer : buffer[i].msg = m => loop.at.count < buffer[i].count
  BY <1>1 DEF IInv, InOrder, Busy
<1>4. \A k \in Msgs : applied[k] \in 0..MaxDeliver /\ count[k] \in 0..MaxDeliver
                      /\ applied'[k] = IF k = m THEN applied[m] + 1 ELSE applied[k]
  BY <1>1, <1>2 DEF TypeOK
<1> USE NDAssumption
<1>5. TypeOK'
  <2>1. applied[m] + 1 \in 0..MaxDeliver
    BY <1>1, <1>3, <1>4
  <2> QED BY <1>1, <1>2, <2>1 DEF TypeOK, Busy
<1>6. CountsMatch'
  BY <1>1, <1>2, <1>3, <1>4 DEF IInv, CountsMatch
<1>7. InOrder'
  <2>1. ASSUME NEW i \in DOMAIN buffer PROVE applied'[buffer[i].msg] < buffer[i].count
    <3>1. buffer[i].msg \in Msgs /\ buffer[i].count \in Nat
          /\ applied[buffer[i].msg] < buffer[i].count
      BY <1>1, BufferType DEF IInv, InOrder
    <3> QED BY <1>1, <1>3, <1>4, <3>1
  <2>2. applied'[m] \in 1..loop.at.count
    BY <1>1, <1>3, <1>4
  <2> QED BY <1>1, <1>2, <2>1, <2>2 DEF IInv, InOrder, Busy
<1>8. DeadIsLast'
  BY <1>1, <1>2 DEF IInv, DeadIsLast, Busy
<1>9. LastIsAccountedFor'
  <2>1. ASSUME NEW k \in Msgs, LastHeld(k) PROVE LastHeld(k)'
    BY <1>1, <1>2, <2>1 DEF LastHeld, Busy
  <2>2. \A k \in Msgs : applied[k] > 0 => applied'[k] > 0
    BY <1>4
  <2> QED BY <1>2, <2>1, <2>2 DEF IInv, LastIsAccountedFor
<1> QED BY <1>5, <1>6, <1>7, <1>8, <1>9 DEF IInv

\* The loop is done with a delivery and tells the server.
LEMMA LoopEnds ==
    ASSUME IInv, NEW m \in Msgs, loop.state \in Busy, loop.at.msg = m,
           NEW state \in StreamStates,
           loop' = [state |-> "idle"], stream' = [stream EXCEPT ![m] = state],
           UNCHANGED <<consumer, count, buffer, applied, dlq, crashes>>,
           state = "due" => count[m] < MaxDeliver,
           state = "spent" => count[m] = MaxDeliver,
           state \in {"unsent", "skipped"} => count[m] = 0,
           state = "termed" => stream[m] = "termed" \/ loop.state = "recorded",
           applied[m] > 0 \/ dlq[m] > 0 \/ loop.at.count < MaxDeliver \/ ~HasExhausted \/ crashes > 0
    PROVE  IInv'
<1>1. loop'.state = "idle" /\ loop'.state \notin Busy
  BY DEF Busy
<1>2. TypeOK'
  BY DEF IInv, TypeOK
<1>3. CountsMatch'
  BY DEF IInv, TypeOK, CountsMatch
<1>4. InOrder'
  BY <1>1 DEF IInv, InOrder, Busy
<1>5. DeadIsLast'
  BY <1>1 DEF IInv, DeadIsLast
<1>6. LastIsAccountedFor'
  <2> SUFFICES ASSUME crashes = 0, HasExhausted
               PROVE  /\ \A k \in Msgs : count[k] = MaxDeliver =>
                              applied[k] > 0 \/ dlq[k] > 0 \/ LastHeld(k)'
                      /\ \A k \in Msgs : stream'[k] = "termed" => applied[k] > 0 \/ dlq[k] > 0
    BY <1>1 DEF LastIsAccountedFor
  <2>1. ASSUME NEW k \in Msgs, LastHeld(k), k # m \/ loop.at.count < MaxDeliver PROVE LastHeld(k)'
    <3>1. loop.at # [msg |-> k, count |-> MaxDeliver]
      BY NDAssumption, LoopType, <2>1 DEF IInv
    <3> QED BY <2>1, <3>1 DEF LastHeld
  <2>2. ASSUME NEW k \in Msgs, count[k] = MaxDeliver
        PROVE  applied[k] > 0 \/ dlq[k] > 0 \/ LastHeld(k)'
    BY <2>1, <2>2 DEF IInv, LastIsAccountedFor
  <2>3. ASSUME NEW k \in Msgs, stream'[k] = "termed" PROVE applied[k] > 0 \/ dlq[k] > 0
    BY <2>3 DEF IInv, TypeOK, LastIsAccountedFor
  <2> QED BY <2>2, <2>3
<1> QED BY <1>2, <1>3, <1>4, <1>5, <1>6 DEF IInv

LEMMA LoopEndsIInv == ASSUME IInv, Ack \/ HandlerThrows \/ Term PROVE IInv'
<1> DEFINE m == loop.at.msg
<1>1. TypeOK /\ loop.state \in {"handled", "handling", "recorded"} /\ loop.state \in Busy
  BY DEF IInv, Ack, HandlerThrows, Term, Busy
<1>2. m \in Msgs /\ loop.at.count \in 1..MaxDeliver /\ stream[m] \in StreamStates
  BY <1>1, LoopType DEF TypeOK
<1>3. stream[m] \notin {"unsent", "skipped"}
  BY <1>1, <1>2, NDAssumption DEF IInv, TypeOK, CountsMatch, InOrder
<1>4. /\ loop' = [state |-> "idle"]
      /\ UNCHANGED <<consumer, count, buffer, applied, dlq, crashes>>
  BY DEF Ack, HandlerThrows, Term
<1>5. CASE Ack
  <2> DEFINE state == IF stream[m] \in {"acked", "termed"} THEN stream[m] ELSE "acked"
  <2>1. stream' = [stream EXCEPT ![m] = state]
    BY <1>5 DEF Ack, Settle
  <2>2. applied[m] > 0
    BY <1>2, <1>5 DEF IInv, InOrder, Ack
  <2>3. state \in StreamStates /\ state \in {"acked", "termed"} /\ (state = "termed" => stream[m] = "termed")
    BY DEF StreamStates
  <2> HIDE DEF m, state
  <2> QED BY <1>1, <1>2, <1>4, <2>1, <2>2, <2>3, LoopEnds DEF m
<1>6. CASE HandlerThrows
  <2> DEFINE state == IF stream[m] = "waiting" THEN Again(m) ELSE stream[m]
  <2>1. stream' = [stream EXCEPT ![m] = state]
    BY <1>6 DEF HandlerThrows, Nak
  <2>2. loop.at.count < MaxDeliver
    BY <1>2, <1>6, NDAssumption DEF HandlerThrows, Exhausted
  <2>3. state \in StreamStates /\ (state = "termed" => stream[m] = "termed")
        /\ state \notin {"unsent", "skipped"}
    BY <1>1, <1>2, <1>3, AgainType DEF StreamStates
  <2>4. (state = "due" => count[m] < MaxDeliver) /\ (state = "spent" => count[m] = MaxDeliver)
    BY <1>1, <1>2, AgainType DEF IInv, CountsMatch
  <2> HIDE DEF m, state
  <2> QED BY <1>1, <1>2, <1>4, <2>1, <2>2, <2>3, <2>4, LoopEnds DEF m
<1>7. CASE Term
  <2> DEFINE state == IF stream[m] \in {"acked", "termed"} THEN stream[m] ELSE "termed"
  <2>1. stream' = [stream EXCEPT ![m] = state] /\ loop.state = "recorded"
    BY <1>7 DEF Term, Settle
  <2>2. dlq[m] > 0 \/ ~HasExhausted \/ crashes > 0
    BY <1>1, <2>1 DEF IInv, LastIsAccountedFor, TypeOK
  <2>3. state \in StreamStates /\ state \in {"acked", "termed"}
    BY DEF StreamStates
  <2> HIDE DEF m, state
  <2> QED BY <1>1, <1>2, <1>4, <2>1, <2>2, <2>3, LoopEnds DEF m
<1> QED BY <1>5, <1>6, <1>7

LEMMA HandlerThrowsLastIInv == ASSUME IInv, HandlerThrowsLast PROVE IInv'
<1>1. /\ TypeOK /\ loop.state = "handling" /\ loop \in [state : Busy, at : Deliveries]
      /\ loop.at.msg \in Msgs /\ loop.at.count = MaxDeliver
  BY LoopType, NDAssumption DEF IInv, HandlerThrowsLast, Exhausted, Busy
<1>2. /\ loop'.state = (IF HasExhausted THEN "exhausting" ELSE "recorded")
      /\ loop'.at = loop.at /\ loop' \in [state : Busy, at : Deliveries]
      /\ UNCHANGED <<consumer, stream, count, buffer, applied, dlq, crashes>>
  BY <1>1 DEF HandlerThrowsLast, Busy
<1>3. TypeOK' /\ CountsMatch'
  BY <1>1, <1>2 DEF IInv, TypeOK, CountsMatch
<1>4. InOrder'
  BY <1>1, <1>2 DEF IInv, InOrder, Busy
<1>5. DeadIsLast'
  BY <1>1, <1>2 DEF IInv, DeadIsLast, Busy
<1>6. LastIsAccountedFor'
  BY <1>1, <1>2 DEF IInv, LastIsAccountedFor, LastHeld, Busy
<1> QED BY <1>3, <1>4, <1>5, <1>6 DEF IInv

LEMMA RecordFailureIInv == ASSUME IInv, RecordFailure PROVE IInv'
<1> DEFINE m == loop.at.msg
<1>1. /\ TypeOK /\ loop.state = "exhausting" /\ loop \in [state : Busy, at : Deliveries]
      /\ m \in Msgs /\ loop.at.count = MaxDeliver /\ count[m] \in 0..MaxDeliver
  BY LoopType DEF IInv, InOrder, RecordFailure, Busy, TypeOK
<1>2. /\ loop'.state = "recorded" /\ loop'.at = loop.at /\ loop' \in [state : Busy, at : Deliveries]
      /\ dlq' = [dlq EXCEPT ![m] = dlq[m] + 1]
      /\ UNCHANGED <<consumer, stream, count, buffer, applied, crashes>>
  BY <1>1 DEF RecordFailure, Busy
<1>3. dlq[m] = 0
  BY <1>1 DEF IInv, DeadIsLast, TypeOK, Busy
<1>4. /\ count[m] = MaxDeliver
      /\ \A i \in DOMAIN buffer : buffer[i].msg # m
  <2>1. loop.at.count <= count[m]
        /\ \A i \in DOMAIN buffer : buffer[i].msg = m => loop.at.count < buffer[i].count
    BY <1>1 DEF IInv, InOrder, Busy
  <2> QED BY <1>1, <2>1, BufferType, NDAssumption
<1>5. \A k \in Msgs : dlq'[k] = IF k = m THEN 1 ELSE dlq[k]
  BY <1>1, <1>2, <1>3 DEF TypeOK
<1>6. TypeOK' /\ CountsMatch'
  BY <1>1, <1>2 DEF IInv, TypeOK, CountsMatch
<1>7. InOrder'
  BY <1>1, <1>2 DEF IInv, InOrder, Busy
<1>8. DeadIsLast'
  BY <1>1, <1>2, <1>4, <1>5 DEF IInv, DeadIsLast, Busy
<1>9. LastIsAccountedFor'
  BY <1>1, <1>2, <1>5 DEF IInv, LastIsAccountedFor, LastHeld, Busy
<1> QED BY <1>6, <1>7, <1>8, <1>9 DEF IInv

LEMMA CrashIInv == ASSUME IInv, Crash PROVE IInv'
<1>1. /\ loop' = [state |-> "down"] /\ loop'.state = "down" /\ buffer' = <<>>
      /\ crashes' = crashes + 1 /\ crashes < MaxCrash
      /\ UNCHANGED <<consumer, stream, count, applied, dlq>>
  BY DEF Crash
<1>2. crashes \in Nat /\ crashes' \in 0..MaxCrash /\ crashes' # 0
  BY <1>1, NDAssumption DEF IInv, TypeOK
<1>3. TypeOK' /\ CountsMatch'
  BY <1>1, <1>2 DEF IInv, TypeOK, CountsMatch
<1>4. DOMAIN buffer' = {}
  BY <1>1
<1>5. InOrder' /\ DeadIsLast'
  BY <1>1, <1>4 DEF IInv, InOrder, DeadIsLast, Busy
<1>6. LastIsAccountedFor'
  BY <1>2 DEF LastIsAccountedFor
<1> QED BY <1>3, <1>5, <1>6 DEF IInv

LEMMA StepIInv == ASSUME IInv, [Next]_vars PROVE IInv'
<1>1. ASSUME NEW m \in Msgs, Publish(m) \/ Deliver(m) \/ AckWaitExpires(m) PROVE IInv'
  BY <1>1, PublishIInv, DeliverIInv, AckWaitExpiresIInv
<1>2. CASE Loop
  BY <1>2, TakeIInv, HandlerReturnsIInv, LoopEndsIInv, HandlerThrowsLastIInv, RecordFailureIInv
     DEF Loop
<1>3. CASE UNCHANGED vars
  BY <1>3 DEF vars, IInv, TypeOK, CountsMatch, InOrder, DeadIsLast, LastIsAccountedFor, LastHeld
<1> QED BY <1>1, <1>2, <1>3, SubscribeIInv, CrashIInv DEF Next

-----------------------------------------------------------------------------
(* What holds in every reachable state                                     *)

\* The inductive invariant, whatever is delivered late, twice or to a process
\* that dies.
THEOREM Invariance == Spec => []IInv
<1>1. Init => IInv
  BY InitIInv
<1>2. IInv /\ [Next]_vars => IInv'
  BY StepIInv
<1> QED BY <1>1, <1>2, PTL DEF Spec

\* A message has one dead-letter row at most, and only after its last delivery.
THEOREM DeliveriesStayConsistent == Spec => []DeliveriesConsistent
<1>1. IInv => DeliveriesConsistent
  BY DEF IInv, DeliveriesConsistent, DeadLetteredOnce, DeadIsLast, TypeOK
<1> QED BY <1>1, Invariance, PTL

\* With onExhausted and while the process lives, whatever the server gives up
\* on was applied or dead-lettered: late deliveries and expired timers lose
\* nothing.
THEOREM NothingIsGivenUpSilently == HasExhausted => (Spec => []GivenUpIsAccountedFor)
<1> SUFFICES ASSUME HasExhausted PROVE Spec => []GivenUpIsAccountedFor
  OBVIOUS
<1>1. IInv => GivenUpIsAccountedFor
  <2> SUFFICES ASSUME IInv, crashes = 0, NEW m \in Msgs, GivenUp(m)
               PROVE  applied[m] + dlq[m] > 0
    BY DEF GivenUpIsAccountedFor
  <2>1. ~LastHeld(m)
    BY DEF GivenUp, Held, LastHeld
  <2>2. applied[m] > 0 \/ dlq[m] > 0
    BY <2>1 DEF GivenUp, IInv, CountsMatch, LastIsAccountedFor
  <2>3. applied[m] \in Nat /\ dlq[m] \in Nat
    BY NDAssumption DEF IInv, TypeOK
  <2> QED BY <2>2, <2>3
<1> QED BY <1>1, Invariance, PTL

-----------------------------------------------------------------------------
(* The refinement of MessageOutcome                                        *)

Verdict(runs, rows, state) ==
    CASE runs > 0 -> "applied"
      [] runs = 0 /\ rows > 0 -> "dead"
      [] runs = 0 /\ rows = 0 /\ state \in {"unsent", "skipped"} -> "unsent"
      [] OTHER -> "pending"

LEMMA VerdictCases ==
    ASSUME NEW runs \in Nat, NEW rows \in Nat, NEW state
    PROVE  /\ runs > 0 => Verdict(runs, rows, state) = "applied"
           /\ runs = 0 /\ rows > 0 => Verdict(runs, rows, state) = "dead"
           /\ runs = 0 /\ rows = 0 /\ state \in {"unsent", "skipped"}
                 => Verdict(runs, rows, state) = "unsent"
           /\ runs = 0 /\ rows = 0 /\ state \notin {"unsent", "skipped"}
                 => Verdict(runs, rows, state) = "pending"
BY DEF Verdict

LEMMA OutcomeIsVerdict ==
    /\ Outcome = [m \in Msgs |-> Verdict(applied[m], dlq[m], stream[m])]
    /\ Outcome' = [m \in Msgs |-> Verdict(applied'[m], dlq'[m], stream'[m])]
BY DEF Outcome, Verdict

\* A step that concerns one message changes its outcome only.
LEMMA OneOutcome ==
    ASSUME NEW m \in Msgs,
           \A k \in Msgs \ {m} : /\ applied'[k] = applied[k] /\ dlq'[k] = dlq[k]
                                  /\ stream'[k] = stream[k]
    PROVE  /\ Outcome' = [Outcome EXCEPT ![m] = Verdict(applied'[m], dlq'[m], stream'[m])]
           /\ Outcome[m] = Verdict(applied[m], dlq[m], stream[m])
BY OutcomeIsVerdict

\* Once delivered, what the server thinks of a message is no verdict.
LEMMA StreamIsNoVerdict ==
    ASSUME IInv, NEW m \in Msgs, NEW state,
           stream' = [stream EXCEPT ![m] = state], UNCHANGED <<applied, dlq>>,
           stream[m] \notin {"unsent", "skipped"}, state \notin {"unsent", "skipped"}
    PROVE  Outcome' = Outcome
<1>1. TypeOK /\ applied[m] \in Nat /\ dlq[m] \in Nat
  BY NDAssumption DEF IInv, TypeOK
<1>2. stream'[m] = state /\ \A k \in Msgs \ {m} : stream'[k] = stream[k]
  BY <1>1 DEF TypeOK
<1>3. Verdict(applied[m], dlq[m], stream[m]) = Verdict(applied[m], dlq[m], state)
  BY <1>1, VerdictCases
<1>4. Outcome' = [Outcome EXCEPT ![m] = Outcome[m]]
  BY <1>2, <1>3, OneOutcome
<1>5. Outcome = [k \in Msgs |-> Outcome[k]]
  BY OutcomeIsVerdict
<1> QED BY <1>4, <1>5

LEMMA PublishRefines == ASSUME IInv, NEW m \in Msgs, Publish(m) PROVE [Abstract!Next]_Outcome
<1> USE NDAssumption
<1>1. applied[m] = 0 /\ dlq[m] = 0 /\ stream[m] = "unsent"
  <2>1. stream[m] = "unsent" /\ count[m] = 0
    BY DEF IInv, CountsMatch, Publish
  <2>2. applied[m] \in Nat /\ applied[m] <= 0
    BY <2>1 DEF IInv, TypeOK, CountsMatch
  <2>3. dlq[m] \in Nat /\ ~(dlq[m] > 0)
    BY <2>1 DEF IInv, TypeOK, DeadIsLast
  <2> QED BY <2>1, <2>2, <2>3
<1>2. stream'[m] \in {"due", "skipped"} /\ UNCHANGED <<applied, dlq>>
      /\ \A k \in Msgs \ {m} : stream'[k] = stream[k]
  BY DEF IInv, TypeOK, Publish
<1>3. /\ Outcome' = [Outcome EXCEPT ![m] = Verdict(0, 0, stream'[m])]
      /\ Outcome[m] = "unsent"
  BY <1>1, <1>2, OneOutcome, VerdictCases
<1>4. CASE stream'[m] = "due"
  <2>1. Verdict(0, 0, stream'[m]) = "pending"
    BY <1>4, VerdictCases
  <2> QED BY <1>3, <2>1 DEF Abstract!Next, Abstract!Send, Abstract!Becomes
<1>5. CASE stream'[m] = "skipped"
  <2>1. Verdict(0, 0, stream'[m]) = Outcome[m]
    BY <1>3, <1>5, VerdictCases
  <2> QED BY <1>3, <2>1, OutcomeIsVerdict
<1> QED BY <1>2, <1>4, <1>5

\* The message of a delivery in hand has been sent, and has no verdict but the
\* handler's own.
LEMMA InHand ==
    ASSUME IInv, loop.state \in Busy
    PROVE  /\ loop.at.msg \in Msgs
           /\ stream[loop.at.msg] \notin {"unsent", "skipped"}
           /\ applied[loop.at.msg] \in Nat /\ dlq[loop.at.msg] \in Nat
           /\ loop.state # "recorded" => dlq[loop.at.msg] = 0
<1>1. TypeOK /\ loop.at.msg \in Msgs /\ loop.at.count \in 1..MaxDeliver
      /\ loop.at.count <= count[loop.at.msg]
  BY LoopType DEF IInv, InOrder
<1>2. stream[loop.at.msg] \notin {"unsent", "skipped"}
  BY <1>1, NDAssumption DEF IInv, CountsMatch
<1> QED BY <1>1, <1>2, NDAssumption DEF IInv, TypeOK, DeadIsLast

LEMMA HandlerReturnsRefines == ASSUME IInv, HandlerReturns PROVE [Abstract!Next]_Outcome
<1> DEFINE m == loop.at.msg
<1>1. m \in Msgs /\ applied[m] \in Nat /\ dlq[m] = 0 /\ stream[m] \notin {"unsent", "skipped"}
  BY InHand DEF HandlerReturns, Busy
<1>2. applied'[m] = applied[m] + 1 /\ UNCHANGED <<dlq, stream>>
      /\ \A k \in Msgs \ {m} : applied'[k] = applied[k]
  BY <1>1 DEF IInv, TypeOK, HandlerReturns
<1> HIDE DEF m
<1>3. Verdict(applied'[m], dlq'[m], stream'[m]) = "applied"
  <2>1. applied'[m] \in Nat /\ applied'[m] > 0 /\ dlq'[m] \in Nat
    BY <1>1, <1>2
  <2> QED BY <2>1, VerdictCases
<1>4. Outcome[m] \in {"pending", "applied"} /\ Outcome' = [Outcome EXCEPT ![m] = "applied"]
  BY <1>1, <1>2, <1>3, OneOutcome, VerdictCases
<1>5. CASE Outcome[m] = "pending"
  BY <1>1, <1>4, <1>5 DEF Abstract!Next, Abstract!Apply, Abstract!Becomes
<1>6. CASE Outcome[m] = "applied"
  BY <1>4, <1>6, OutcomeIsVerdict
<1> QED BY <1>4, <1>5, <1>6

LEMMA RecordFailureRefines == ASSUME IInv, RecordFailure PROVE [Abstract!Next]_Outcome
<1> DEFINE m == loop.at.msg
<1>1. m \in Msgs /\ applied[m] \in Nat /\ dlq[m] = 0 /\ stream[m] \notin {"unsent", "skipped"}
  BY InHand DEF RecordFailure, Busy
<1>2. dlq'[m] = 1 /\ UNCHANGED <<applied, stream>> /\ \A k \in Msgs \ {m} : dlq'[k] = dlq[k]
  BY <1>1 DEF IInv, TypeOK, RecordFailure
<1> HIDE DEF m
<1>3. CASE applied[m] = 0
  <2>1. Verdict(applied'[m], dlq'[m], stream'[m]) = "dead"
    BY <1>2, <1>3, VerdictCases
  <2>2. Outcome[m] = "pending" /\ Outcome' = [Outcome EXCEPT ![m] = "dead"]
    BY <1>1, <1>2, <1>3, <2>1, OneOutcome, VerdictCases
  <2> QED BY <1>1, <2>2 DEF Abstract!Next, Abstract!DeadLetter, Abstract!Becomes
<1>4. CASE applied[m] > 0
  <2>1. Verdict(applied'[m], dlq'[m], stream'[m]) = "applied"
    BY <1>1, <1>2, <1>4, VerdictCases
  <2>2. Outcome[m] = "applied" /\ Outcome' = [Outcome EXCEPT ![m] = "applied"]
    BY <1>1, <1>2, <1>4, <2>1, OneOutcome, VerdictCases
  <2> QED BY <2>2, OutcomeIsVerdict
<1> QED BY <1>1, <1>3, <1>4

\* What the server does with a sent message, and what the loop tells it.
LEMMA ServerRefines ==
    ASSUME IInv, \/ \E m \in Msgs : Deliver(m) \/ AckWaitExpires(m)
                 \/ Ack \/ HandlerThrows \/ Term
    PROVE  Outcome' = Outcome
<1>1. ASSUME NEW m \in Msgs, Deliver(m) PROVE Outcome' = Outcome
  BY <1>1, StreamIsNoVerdict DEF Deliver
<1>2. ASSUME NEW m \in Msgs, AckWaitExpires(m) PROVE Outcome' = Outcome
  BY <1>2, AgainType, StreamIsNoVerdict DEF AckWaitExpires, IInv
<1>3. CASE Ack
  <2> DEFINE m == loop.at.msg
             state == IF stream[m] \in {"acked", "termed"} THEN stream[m] ELSE "acked"
  <2>1. stream' = [stream EXCEPT ![m] = state] /\ UNCHANGED <<applied, dlq>> /\ loop.state \in Busy
    BY <1>3 DEF Ack, Settle, Busy
  <2>2. state \in {"acked", "termed"}
    OBVIOUS
  <2> HIDE DEF state
  <2> QED BY <2>1, <2>2, InHand, StreamIsNoVerdict
<1>4. CASE HandlerThrows
  BY <1>4, InHand, AgainType, StreamIsNoVerdict DEF HandlerThrows, Nak, Busy, IInv
<1>5. CASE Term
  <2> DEFINE m == loop.at.msg
             state == IF stream[m] \in {"acked", "termed"} THEN stream[m] ELSE "termed"
  <2>1. stream' = [stream EXCEPT ![m] = state] /\ UNCHANGED <<applied, dlq>> /\ loop.state \in Busy
    BY <1>5 DEF Term, Settle, Busy
  <2>2. state \in {"acked", "termed"}
    OBVIOUS
  <2> HIDE DEF state
  <2> QED BY <2>1, <2>2, InHand, StreamIsNoVerdict
<1> QED BY <1>1, <1>2, <1>3, <1>4, <1>5

LEMMA StepRefines == ASSUME IInv, [Next]_vars PROVE [Abstract!Next]_Outcome
<1>1. CASE UNCHANGED <<applied, dlq, stream>>
  BY <1>1, OutcomeIsVerdict
<1>2. CASE Subscribe \/ Take \/ HandlerThrowsLast \/ Crash \/ UNCHANGED vars
  BY <1>1, <1>2 DEF Subscribe, Take, HandlerThrowsLast, Crash, vars
<1> QED BY <1>2, PublishRefines, HandlerReturnsRefines, RecordFailureRefines, ServerRefines
        DEF Next, Loop

LEMMA InitRefines == ASSUME Init PROVE Abstract!Init
<1> SUFFICES Outcome = [m \in Msgs |-> "unsent"]
  BY DEF Abstract!Init
<1>1. \A m \in Msgs : applied[m] = 0 /\ dlq[m] = 0 /\ stream[m] = "unsent"
  BY DEF Init
<1>2. \A m \in Msgs : Verdict(applied[m], dlq[m], stream[m]) = "unsent"
  BY <1>1, VerdictCases
<1> QED BY <1>2, OutcomeIsVerdict

\* The subscription implements MessageOutcome: once a message was applied or
\* dead-lettered, no redelivery, late acknowledgement or restart changes that,
\* for any max_deliver and any number of crashes.
THEOREM VerdictsAreFinal == Spec => VerdictIsFinal
<1>1. Init => Abstract!Init
  BY InitRefines
<1>2. IInv /\ [Next]_vars => [Abstract!Next]_Outcome
  BY StepRefines
<1> QED BY <1>1, <1>2, Invariance, PTL DEF Spec, VerdictIsFinal, Abstract!Safety
-----------------------------------------------------------------------------
(* Exactly once while ack_wait does not expire on a held delivery          *)

LEMMA InitPrompt == ASSUME HistoryInit PROVE PromptInv
<1>1. buffer = <<>> /\ loop.state = "down" /\ \A m \in Msgs : applied[m] = 0 /\ dlq[m] = 0
  BY DEF HistoryInit, Init
<1>2. OneInHand
  BY <1>1 DEF OneInHand, Held, Busy
<1> QED BY <1>1, <1>2 DEF PromptInv, TracedOnce

\* The server touches a message the process does not hold, or delivers it.
LEMMA ServerPrompt ==
    ASSUME IInv, OneInHand, TracedOnce, NEW m \in Msgs, ~Held(m), NEW state,
           stream[m] \notin {"acked", "termed"}, stream' = [stream EXCEPT ![m] = state],
           UNCHANGED <<buffer, loop, applied, dlq>>
    PROVE  OneInHand' /\ TracedOnce'
<1>1. \A k \in Msgs : Held(k)' <=> Held(k)
  BY DEF Held
<1>2. \A k \in Msgs : k # m => stream'[k] = stream[k]
  BY DEF IInv, TypeOK
<1>3. OneInHand'
  BY <1>1, <1>2 DEF OneInHand
<1>4. applied[m] + dlq[m] = 0
  <2>1. ~Settled(m)
    BY DEF Settled, Held, Busy
  <2> QED BY <2>1 DEF TracedOnce, IInv, TypeOK
<1>5. TracedOnce'
  BY <1>2, <1>4 DEF TracedOnce, Settled
<1> QED BY <1>3, <1>5

LEMMA DeliverPrompt ==
    ASSUME IInv, OneInHand, TracedOnce, NEW m \in Msgs, Deliver(m)
    PROVE  OneInHand' /\ TracedOnce'
<1> DEFINE new == [msg |-> m, count |-> count[m] + 1]
           last == Len(buffer) + 1
<1>1. ~Held(m) /\ stream[m] = "due"
  BY DEF Deliver, OneInHand
<1>2. /\ new.msg = m /\ new \in Deliveries
      /\ buffer' = Append(buffer, new) /\ UNCHANGED <<loop, applied, dlq>>
  BY NDAssumption DEF Deliver, IInv, TypeOK, CountsMatch, Deliveries
<1> HIDE DEF new
<1>3. /\ Len(buffer) \in Nat /\ DOMAIN buffer = 1..Len(buffer) /\ DOMAIN buffer' = 1..last
      /\ \A i \in DOMAIN buffer : buffer'[i] = buffer[i]
      /\ buffer'[last] = new
  BY <1>2 DEF IInv, TypeOK
<1>4. \A i \in DOMAIN buffer : buffer[i].msg # m
  BY <1>1 DEF Held
<1>5. stream'[m] = "waiting" /\ \A k \in Msgs : k # m => stream'[k] = stream[k]
  BY DEF Deliver, IInv, TypeOK
<1>6. ASSUME NEW k \in Msgs, k # m, Held(k)' PROVE Held(k)
  <2>1. CASE loop.state \in Busy /\ loop.at.msg = k
    BY <2>1 DEF Held
  <2>2. ASSUME NEW i \in DOMAIN buffer', buffer'[i].msg = k PROVE Held(k)
    <3>1. i # last
      BY <1>2, <1>3, <1>6, <2>2
    <3>2. i \in DOMAIN buffer
      BY <1>3, <3>1
    <3> QED BY <1>3, <2>2, <3>2 DEF Held
  <2> QED BY <1>2, <1>6, <2>1, <2>2 DEF Held
<1>7. OneInHand'
  <2>1. \A i, j \in DOMAIN buffer' : buffer'[i].msg = buffer'[j].msg => i = j
    <3>1. \A i \in DOMAIN buffer' : i = last \/ i \in DOMAIN buffer
      BY <1>3
    <3> QED BY <1>2, <1>3, <1>4, <3>1 DEF OneInHand
  <2>2. loop'.state \in Busy => \A i \in DOMAIN buffer' : buffer'[i].msg # loop'.at.msg
    <3>1. \A i \in DOMAIN buffer' : i = last \/ i \in DOMAIN buffer
      BY <1>3
    <3> QED BY <1>1, <1>2, <1>3, <3>1 DEF OneInHand, Held
  <2>3. \A k \in Msgs : Held(k)' => stream'[k] = "waiting"
    BY <1>5, <1>6 DEF OneInHand
  <2> QED BY <2>1, <2>2, <2>3 DEF OneInHand
<1>8. TracedOnce'
  <2>1. ~Settled(m)
    BY <1>1 DEF Settled, Held, Busy
  <2> QED BY <1>2, <1>5, <2>1 DEF TracedOnce, Settled
<1> QED BY <1>7, <1>8

LEMMA TakePrompt ==
    ASSUME IInv, OneInHand, TracedOnce, Take
    PROVE  OneInHand' /\ TracedOnce'
<1>1. /\ loop.state = "idle" /\ loop'.state = "handling" /\ loop'.at = buffer[1]
      /\ buffer' = Tail(buffer) /\ UNCHANGED <<stream, applied, dlq>>
  BY DEF IInv, TypeOK, Take
<1>2. /\ Len(buffer) \in Nat \ {0} /\ DOMAIN buffer = 1..Len(buffer)
      /\ DOMAIN buffer' = 1..(Len(buffer) - 1)
      /\ \A i \in DOMAIN buffer' : buffer'[i] = buffer[i + 1]
  BY <1>1 DEF IInv, TypeOK, Take
<1>3. \A i \in DOMAIN buffer' : i \in Nat /\ i + 1 \in DOMAIN buffer /\ i + 1 # 1
  BY <1>2
<1>4. 1 \in DOMAIN buffer
  BY <1>2
<1>5. \A i \in DOMAIN buffer' : buffer'[i].msg # loop'.at.msg
  BY <1>1, <1>2, <1>3, <1>4 DEF OneInHand
<1>6. \A i, j \in DOMAIN buffer' : buffer'[i].msg = buffer'[j].msg => i = j
  <2>1. ASSUME NEW i \in DOMAIN buffer', NEW j \in DOMAIN buffer', buffer'[i].msg = buffer'[j].msg
        PROVE  i = j
    <3>1. i + 1 = j + 1
      BY <1>2, <1>3, <2>1 DEF OneInHand
    <3> QED BY <1>3, <3>1
  <2> QED BY <2>1
<1>7. \A m \in Msgs : Held(m)' => Held(m)
  BY <1>1, <1>2, <1>3, <1>4 DEF Held
<1>8. OneInHand'
  BY <1>1, <1>5, <1>6, <1>7 DEF OneInHand
<1>9. TracedOnce'
  BY <1>1 DEF TracedOnce, Settled
<1> QED BY <1>8, <1>9

\* The loop goes on with its delivery: the handler or onExhausted returns.
LEMMA GoesOnPrompt ==
    ASSUME IInv, OneInHand, TracedOnce, HandlerReturns \/ HandlerThrowsLast \/ RecordFailure
    PROVE  OneInHand' /\ TracedOnce'
<1> DEFINE m == loop.at.msg
<1>1. /\ loop.state \in {"handling", "exhausting"} /\ loop.state \in Busy /\ m \in Msgs
      /\ loop'.state \in Busy /\ loop'.at = loop.at /\ UNCHANGED <<stream, buffer>>
  BY LoopType DEF IInv, HandlerReturns, HandlerThrowsLast, RecordFailure, Busy
<1>2. OneInHand'
  BY <1>1 DEF OneInHand, Held
<1>3. applied[m] + dlq[m] = 0 /\ applied[m] \in Nat /\ dlq[m] \in Nat
  <2>1. Held(m) /\ stream[m] = "waiting"
    BY <1>1 DEF Held, OneInHand
  <2>2. ~Settled(m)
    BY <1>1, <2>1 DEF Settled
  <2> QED BY <1>1, <2>2 DEF TracedOnce, IInv, TypeOK
<1>4. /\ applied'[m] + dlq'[m] <= 1
      /\ applied'[m] + dlq'[m] > 0 => loop'.state \in {"handled", "recorded"}
  BY <1>1, <1>3 DEF IInv, TypeOK, HandlerReturns, HandlerThrowsLast, RecordFailure
<1>5. \A k \in Msgs : k # m => applied'[k] = applied[k] /\ dlq'[k] = dlq[k]
  BY DEF IInv, TypeOK, HandlerReturns, HandlerThrowsLast, RecordFailure
<1>6. TracedOnce'
  BY <1>1, <1>4, <1>5 DEF TracedOnce, Settled
<1> QED BY <1>2, <1>6

\* The loop tells the server: the message is settled, or it left no trace.
LEMMA EndsPrompt ==
    ASSUME IInv, OneInHand, TracedOnce, Ack \/ HandlerThrows \/ Term
    PROVE  OneInHand' /\ TracedOnce'
<1>0. loop.state \in Busy /\ loop.at.msg \in Msgs
  BY LoopType DEF IInv, Ack, HandlerThrows, Term, Busy
<1> PICK m \in Msgs : m = loop.at.msg
  BY <1>0
<1>1. /\ loop.state \in Busy /\ loop'.state = "idle" /\ UNCHANGED <<buffer, applied, dlq>>
  BY <1>0 DEF Ack, HandlerThrows, Term
<1>2. Held(m) /\ stream[m] = "waiting"
  BY <1>1 DEF Held, OneInHand
<1>3. \A k \in Msgs : k # m => stream'[k] = stream[k]
  BY <1>1 DEF IInv, TypeOK, Ack, HandlerThrows, Term, Settle, Nak
<1>4. OneInHand'
  <2>1. ~Held(m)'
    BY <1>1 DEF Held, OneInHand, Busy
  <2>2. \A k \in Msgs : Held(k)' => Held(k)
    BY <1>1 DEF Held, Busy
  <2> QED BY <1>1, <1>3, <2>1, <2>2 DEF OneInHand, Busy
<1>5. CASE Ack \/ Term
  <2>1. stream'[m] \in {"acked", "termed"}
    BY <1>1, <1>2, <1>5 DEF IInv, TypeOK, Ack, Term, Settle
  <2> QED BY <1>1, <1>3, <1>4, <2>1 DEF TracedOnce, Settled
<1>6. CASE HandlerThrows
  <2>1. ~Settled(m)
    BY <1>2, <1>6 DEF Settled, HandlerThrows
  <2> QED BY <1>1, <1>3, <1>4, <2>1 DEF TracedOnce, Settled
<1> QED BY <1>5, <1>6

LEMMA StepPrompt ==
    ASSUME IInv, PromptInv, [HistoryNext]_historyVars
    PROVE  PromptInv'
<1>1. CASE HistoryNext
  <2> SUFFICES ASSUME ~late', crashes' = 0 PROVE OneInHand' /\ TracedOnce'
    BY DEF PromptInv
  <2>1. Next /\ ~late /\ \A m \in Msgs : AckWaitExpires(m) => ~Held(m)
    BY <1>1 DEF HistoryNext
  <2>2. ~Crash
    BY DEF Crash, IInv, TypeOK
  <2>3. crashes = 0
    BY <2>1, <2>2 DEF Next, Publish, Deliver, AckWaitExpires, Subscribe, Loop, Take, HandlerReturns,
       Ack, HandlerThrows, HandlerThrowsLast, RecordFailure, Term
  <2>4. OneInHand /\ TracedOnce
    BY <2>1, <2>3 DEF PromptInv
  <2>5. ASSUME NEW m \in Msgs, Publish(m) PROVE OneInHand' /\ TracedOnce'
    <3>1. ~Held(m) /\ stream[m] \notin {"acked", "termed"}
      BY <2>4, <2>5 DEF Publish, OneInHand
    <3> QED BY <2>4, <2>5, <3>1, ServerPrompt DEF Publish
  <2>6. ASSUME NEW m \in Msgs, AckWaitExpires(m) PROVE OneInHand' /\ TracedOnce'
    <3>1. ~Held(m) /\ stream[m] \notin {"acked", "termed"}
      BY <2>1, <2>6 DEF AckWaitExpires
    <3> QED BY <2>4, <2>6, <3>1, ServerPrompt DEF AckWaitExpires
  <2>7. CASE Subscribe
    <3>1. /\ loop.state \notin Busy /\ loop'.state \notin Busy
          /\ UNCHANGED <<stream, buffer, applied, dlq>>
      BY <2>7 DEF Subscribe, Busy
    <3>2. \A m \in Msgs : (Held(m)' <=> Held(m)) /\ (Settled(m)' <=> Settled(m))
      BY <3>1 DEF Held, Settled, Busy
    <3> QED BY <2>4, <3>1, <3>2 DEF OneInHand, TracedOnce
  <2> QED
    BY <2>1, <2>2, <2>4, <2>5, <2>6, <2>7, DeliverPrompt, TakePrompt, GoesOnPrompt, EndsPrompt
       DEF Next, Loop
<1>2. CASE UNCHANGED historyVars
  BY <1>2 DEF historyVars, vars, PromptInv, OneInHand, TracedOnce, Held, Settled
<1> QED BY <1>1, <1>2

\* Until a delivery outlives ack_wait in the hands of the client, or the
\* process dies, at-least-once delivery is exactly-once processing.
THEOREM PromptIsExactlyOnce == HistorySpec => []PromptMeansExactlyOnce
<1>1. HistoryInit => IInv /\ PromptInv
  BY InitIInv, InitPrompt DEF HistoryInit
<1>2. IInv /\ PromptInv /\ [HistoryNext]_historyVars => (IInv /\ PromptInv)'
  <2>1. [HistoryNext]_historyVars => [Next]_vars
    BY DEF HistoryNext, historyVars
  <2> QED BY <2>1, StepIInv, StepPrompt
<1>3. PromptInv => PromptMeansExactlyOnce
  BY DEF PromptInv, TracedOnce, PromptMeansExactlyOnce
<1> QED BY <1>1, <1>2, <1>3, PTL DEF HistorySpec
=============================================================================
