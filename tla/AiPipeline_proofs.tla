-------------------------- MODULE AiPipeline_proofs ---------------------------
(***************************************************************************)
(* Facts about the transition table of session-fsm.ts, and the safety of   *)
(* AiPipeline for any tasks, requests, deliveries, failures and crashes.   *)
(* That the consumer of results is a NatsDelivery lets the theorems of     *)
(* NatsDelivery_proofs be used here.                                       *)
(***************************************************************************)
EXTENDS AiPipelineHistory, TLAPS

\* The history variable of NatsDelivery_proofs plays no part here.
NatsThm == INSTANCE NatsDelivery_proofs
             WITH Msgs <- Dispatches, HasExhausted <- TRUE, late <- FALSE

-----------------------------------------------------------------------------
(* The state machine of sessions                                           *)

\* What each event leads to, read off the table: the status an event ends in
\* does not depend on the status it starts from.
Target(event) ==
    CASE event = "FIRST_USER_MESSAGE"   -> "AWAITING_INPUT"
      [] event = "AI_TASK_PUBLISHED"    -> "PROCESSING"
      [] event = "USER_ANSWER_POSTED"   -> "PROCESSING"
      [] event = "AI_QUESTION_RECEIVED" -> "IN_ELICITATION"
      [] event = "DIVERGENCE_DETECTED"  -> "NEEDS_RECONCILIATION"
      [] event = "ENTER_REVIEW"         -> "IN_REVIEW"
      [] event = "VALIDATE"             -> "VALIDATED"
      [] event = "EXPORT_COMPLETED"     -> "EXPORTED"
      [] event = "PIPELINE_ERROR"       -> "ERROR"
      [] event = "USER_DELETES"         -> "ARCHIVED"
      [] OTHER                          -> "DRAFT_READY"

\* The fields of a rule built by Rule.
LEMMA RuleFields ==
    ASSUME NEW from, NEW event, NEW to
    PROVE  /\ Rule(from, event, to).from = from
           /\ Rule(from, event, to).event = event
           /\ Rule(from, event, to).to = to
BY DEF Rule

\* Every event leads to a status.
LEMMA TargetIsStatus == ASSUME NEW event PROVE Target(event) \in SessionStatus
BY DEF Target, SessionStatus

\* Every rule leads where its event leads, and only USER_DELETES and
\* PIPELINE_ERROR are allowed from ARCHIVED.
LEMMA RuleTarget ==
    ASSUME NEW rule \in SESSION_TRANSITIONS
    PROVE  /\ rule.to = Target(rule.event)
           /\ rule.to \in SessionStatus
           /\ rule.from = "ARCHIVED" => rule.event \in {"PIPELINE_ERROR", "USER_DELETES"}
<1>1. CASE \E from \in SessionStatus \ {"VALIDATED", "EXPORTED", "ARCHIVED", "ERROR"} :
               rule = Rule(from, "USER_FINALIZES", "DRAFT_READY")
  BY <1>1, RuleFields DEF Target, SessionStatus
<1>2. CASE \E from \in SessionStatus : rule = Rule(from, "PIPELINE_ERROR", "ERROR")
  <2>1. PICK from \in SessionStatus : rule = Rule(from, "PIPELINE_ERROR", "ERROR")
    BY <1>2
  <2>2. rule.event = "PIPELINE_ERROR" /\ rule.to = "ERROR"
    BY <2>1, RuleFields
  <2>3. Target("PIPELINE_ERROR") = "ERROR"
    BY DEF Target
  <2> QED BY <2>2, <2>3, TargetIsStatus
<1>3. CASE \E from \in SessionStatus : rule = Rule(from, "USER_DELETES", "ARCHIVED")
  <2>1. PICK from \in SessionStatus : rule = Rule(from, "USER_DELETES", "ARCHIVED")
    BY <1>3
  <2>2. rule.event = "USER_DELETES" /\ rule.to = "ARCHIVED"
    BY <2>1, RuleFields
  <2>3. Target("USER_DELETES") = "ARCHIVED"
    BY DEF Target
  <2> QED BY <2>2, <2>3, TargetIsStatus
<1>4. CASE \E from \in SessionStatus, event \in SessionFsmEvent :
               rule = Rule(from, event, Target(event)) /\ from # "ARCHIVED"
  <2>1. PICK from \in SessionStatus, event \in SessionFsmEvent :
            rule = Rule(from, event, Target(event)) /\ from # "ARCHIVED"
    BY <1>4
  <2>2. rule.from = from /\ rule.event = event /\ rule.to = Target(event)
    BY <2>1, RuleFields
  <2> QED BY <2>1, <2>2, TargetIsStatus
<1>5. CASE rule = [from |-> "PROCESSING", event |-> "AI_QUESTION_RECEIVED",
                   to |-> "IN_ELICITATION", modes |-> {"INTERACTIVE"}]
  BY <1>5 DEF Target, SessionStatus
<1>6. QED
  BY <1>1, <1>2, <1>3, <1>4, <1>5, SMTT(60)
  DEF SESSION_TRANSITIONS, Target, SessionStatus, SessionFsmEvent

\* Two rules for the same event lead to the same status: the first match of
\* the code is the only outcome, and the order of the table is immaterial.
THEOREM TransitionIsDeterministic ==
    ASSUME NEW r1 \in SESSION_TRANSITIONS, NEW r2 \in SESSION_TRANSITIONS,
           r1.event = r2.event
    PROVE  r1.to = r2.to
BY RuleTarget

\* An accepted transition stores the target of its event, a member of the
\* enumeration, whichever of the matching rules the search finds.
THEOREM TransitionLeadsToTarget ==
    ASSUME NEW from, NEW event, NEW mode, Accepts(from, event, mode)
    PROVE  /\ TransitionSessionStatus(from, event, mode) = Target(event)
           /\ TransitionSessionStatus(from, event, mode) \in SessionStatus
<1>1. PICK rule \in Matching(from, event, mode) :
          TransitionSessionStatus(from, event, mode) = rule.to
  BY DEF Accepts, TransitionSessionStatus
<1>2. rule \in SESSION_TRANSITIONS /\ rule.event = event
  BY DEF Matching
<1> QED BY <1>1, <1>2, RuleTarget

\* What the table accepts from ARCHIVED leads to ARCHIVED or ERROR: no event
\* brings an archived session back to work.
THEOREM ArchivedIsAbsorbing ==
    ASSUME NEW event, NEW mode, Accepts("ARCHIVED", event, mode)
    PROVE  TransitionSessionStatus("ARCHIVED", event, mode) \in {"ARCHIVED", "ERROR"}
<1>1. PICK rule \in Matching("ARCHIVED", event, mode) : TRUE
  BY DEF Accepts
<1>2. event \in {"PIPELINE_ERROR", "USER_DELETES"}
  BY <1>1, RuleTarget DEF Matching
<1> QED BY <1>2, TransitionLeadsToTarget DEF Target

\* The transitions that publishing, deleting and a first message take.
LEMMA AcceptedTransitions ==
    ASSUME NEW mode \in Mode
    PROVE  /\ Accepts("CREATED", "FIRST_USER_MESSAGE", mode)
           /\ \A from \in {"AWAITING_INPUT", "IN_ELICITATION"} :
                 Accepts(from, "AI_TASK_PUBLISHED", mode)
           /\ \A from \in SessionStatus : Accepts(from, "USER_DELETES", mode)
<1>1. ASSUME NEW from, NEW event, NEW to, Rule(from, event, to) \in SESSION_TRANSITIONS
      PROVE  Accepts(from, event, mode)
  BY <1>1 DEF Accepts, Matching, Rule
<1>2. /\ Rule("CREATED", "FIRST_USER_MESSAGE", "AWAITING_INPUT") \in SESSION_TRANSITIONS
      /\ Rule("AWAITING_INPUT", "AI_TASK_PUBLISHED", "PROCESSING") \in SESSION_TRANSITIONS
      /\ Rule("IN_ELICITATION", "AI_TASK_PUBLISHED", "PROCESSING") \in SESSION_TRANSITIONS
      /\ \A from \in SessionStatus : Rule(from, "USER_DELETES", "ARCHIVED") \in SESSION_TRANSITIONS
  BY DEF SESSION_TRANSITIONS
<1> QED BY <1>1, <1>2

\* What the transitions make of a session is a session.
LEMMA TransitionsType ==
    ASSUME NEW copy \in Session
    PROVE  /\ copy.status = "CREATED" => Published(FirstMessage(copy)) \in Session
           /\ copy.status \in {"AWAITING_INPUT", "IN_ELICITATION"} => Published(copy) \in Session
           /\ \A event : Accepts(copy.status, event, copy.mode) =>
                 [copy EXCEPT !.status = TransitionSessionStatus(@, event, copy.mode)] \in Session
           /\ [copy EXCEPT !.status = TransitionSessionStatus(@, "USER_DELETES", copy.mode),
                           !.archived = TRUE] \in Session
<1>1. copy.mode \in Mode /\ copy.status \in SessionStatus
  BY DEF Session
<1>2. ASSUME NEW event, Accepts(copy.status, event, copy.mode)
      PROVE  [copy EXCEPT !.status = TransitionSessionStatus(@, event, copy.mode)] \in Session
  BY <1>2, TransitionLeadsToTarget DEF Session
<1>3. ASSUME copy.status \in {"AWAITING_INPUT", "IN_ELICITATION"}
      PROVE  Published(copy) \in Session
  BY <1>1, <1>2, <1>3, AcceptedTransitions DEF Published
<1>4. ASSUME copy.status = "CREATED"
      PROVE  Published(FirstMessage(copy)) \in Session
  <2>1. FirstMessage(copy) = [copy EXCEPT !.status = "AWAITING_INPUT"]
    BY <1>1, <1>4, AcceptedTransitions, TransitionLeadsToTarget DEF FirstMessage, Target
  <2>2. FirstMessage(copy) \in Session /\ FirstMessage(copy).status = "AWAITING_INPUT"
        /\ FirstMessage(copy).mode = copy.mode
    BY <2>1 DEF Session, SessionStatus
  <2>3. Accepts("AWAITING_INPUT", "AI_TASK_PUBLISHED", copy.mode)
    BY <1>1, AcceptedTransitions
  <2> QED BY <2>2, <2>3, TransitionLeadsToTarget DEF Published, Session
<1>5. [copy EXCEPT !.status = TransitionSessionStatus(@, "USER_DELETES", copy.mode),
                   !.archived = TRUE] \in Session
  BY <1>1, AcceptedTransitions, TransitionLeadsToTarget DEF Session
<1> QED BY <1>2, <1>3, <1>4, <1>5

-----------------------------------------------------------------------------
(* The consumer of results is a durable subscription                       *)

LEMMA NatsAssumption == NatsThm!NDAssumption
BY AiPipelineAssumption DEF NatsThm!NDAssumption

LEMMA SameNats ==
    /\ Nats!IInv <=> NatsThm!IInv
    /\ Nats!IInv' <=> NatsThm!IInv'
    /\ Nats!Init <=> NatsThm!Init
    /\ Nats!vars = NatsThm!vars /\ Nats!vars' = NatsThm!vars'
    /\ UNCHANGED natsVars => UNCHANGED Nats!vars
<1> USE DEF Nats!TypeOK, Nats!CountsMatch, Nats!InOrder, Nats!DeadIsLast, Nats!LastIsAccountedFor,
        Nats!StreamStates, Nats!Deliveries, Nats!Busy, Nats!LastHeld,
        NatsThm!TypeOK, NatsThm!CountsMatch, NatsThm!InOrder, NatsThm!DeadIsLast,
        NatsThm!LastIsAccountedFor, NatsThm!StreamStates, NatsThm!Deliveries, NatsThm!Busy,
        NatsThm!LastHeld
<1>1. Nats!IInv <=> NatsThm!IInv
  BY Zenon DEF Nats!IInv, NatsThm!IInv
<1>2. Nats!IInv' <=> NatsThm!IInv'
  BY Zenon DEF Nats!IInv, NatsThm!IInv
<1>3. Nats!Init <=> NatsThm!Init
  BY Zenon DEF Nats!Init, NatsThm!Init
<1>4. /\ Nats!vars = NatsThm!vars /\ Nats!vars' = NatsThm!vars'
      /\ UNCHANGED natsVars => UNCHANGED Nats!vars
  BY DEF Nats!vars, NatsThm!vars, natsVars
<1> QED BY <1>1, <1>2, <1>3, <1>4

LEMMA SameNatsNext == Nats!Next <=> NatsThm!Next
BY Zenon DEF Nats!Next, Nats!Publish, Nats!Deliver, Nats!AckWaitExpires, Nats!Held, Nats!Again,
    Nats!Subscribe, Nats!Loop, Nats!Take, Nats!HandlerReturns, Nats!Ack, Nats!Settle,
    Nats!HandlerThrows, Nats!Nak, Nats!Exhausted, Nats!HandlerThrowsLast, Nats!RecordFailure,
    Nats!Term, Nats!Crash, Nats!Busy,
    NatsThm!Next, NatsThm!Publish, NatsThm!Deliver, NatsThm!AckWaitExpires, NatsThm!Held,
    NatsThm!Again, NatsThm!Subscribe, NatsThm!Loop, NatsThm!Take, NatsThm!HandlerReturns,
    NatsThm!Ack, NatsThm!Settle, NatsThm!HandlerThrows, NatsThm!Nak, NatsThm!Exhausted,
    NatsThm!HandlerThrowsLast, NatsThm!RecordFailure, NatsThm!Term, NatsThm!Crash, NatsThm!Busy

\* Whatever the session's requests and handlers do, the subscription takes a
\* step of NatsDelivery or none.
LEMMA NatsStep == ASSUME [Next]_vars PROVE [Nats!Next]_(Nats!vars)
<1>0. UNCHANGED natsVars => [Nats!Next]_(Nats!vars)
  BY SameNats
<1>2. CASE Start
  BY <1>2 DEF Start, Consume, Nats!Next
<1>3. ASSUME NEW d \in Dispatches,
             Post(d) \/ Dispatch(d) \/ AiAnswers(d) \/ DeliverResult(d) \/ ResultAckWaitExpires(d)
      PROVE  [Nats!Next]_(Nats!vars)
  <2>1. CASE Post(d) \/ Dispatch(d)
    BY <1>0, <2>1 DEF Post, Dispatch, LoadForDispatch, CreatePipeline, PublishTask, PublishFails,
       SaveNatsId, MarkProcessing
  <2>2. CASE AiAnswers(d) \/ DeliverResult(d) \/ ResultAckWaitExpires(d)
    BY <2>2 DEF AiAnswers, DeliverResult, ResultAckWaitExpires, Consume, Nats!Next
  <2> QED BY <1>3, <2>1, <2>2
<1>4. CASE ConsumeResult \/ HandlerFault
  <2>1. CASE TakeResult \/ ResultHandled \/ AckResult \/ ResultThrows \/ ResultExhausted
             \/ RecordResult \/ TermResult
    BY <2>1 DEF TakeResult, ResultHandled, AckResult, ResultThrows, ResultExhausted, RecordResult,
       TermResult, Consume, Nats!Next, Nats!Loop
  <2>2. CASE Enrich \/ LoadPipeline \/ LoadSessionForResult \/ InsertVersion \/ SaveResultSession
             \/ RejectResult \/ CompletePipeline \/ FinishResult \/ LoadFailedPipeline
             \/ FailPipeline \/ HandlerFault
    BY <1>0, <2>2 DEF Enrich, LoadPipeline, LoadSessionForResult, InsertVersion, SaveResultSession,
       RejectResult, CompletePipeline, FinishResult, LoadFailedPipeline, FailPipeline, HandlerFault,
       HandlerQuery
  <2> QED BY <1>4, <2>1, <2>2 DEF ConsumeResult
<1>5. CASE SkipDivergence \/ LoadForDivergence \/ NeedsReconciliation
  BY <1>0, <1>5 DEF SkipDivergence, LoadForDivergence, NeedsReconciliation, DivergenceQuery
<1>6. ASSUME NEW o \in Ops, Op(o) PROVE [Nats!Next]_(Nats!vars)
  BY <1>0, <1>6 DEF Op, LoadForOp, UpdateMode, Finalize, Archive, ArchivePipelines, OverrideStatus,
     OpSaves
<1>7. CASE Crash
  BY <1>7 DEF Crash, Nats!Next
<1>8. CASE UNCHANGED vars
  BY <1>0, <1>8 DEF vars
<1> QED BY <1>2, <1>3, <1>4, <1>5, <1>6, <1>7, <1>8 DEF Next

LEMMA NatsIInv ==
    /\ Init => Nats!IInv
    /\ Nats!IInv /\ [Next]_vars => Nats!IInv'
<1>1. Init => Nats!IInv
  BY NatsThm!InitIInv, NatsAssumption, SameNats DEF NatsThm!InitIInv, Init
<1>2. ASSUME Nats!IInv, [Next]_vars PROVE Nats!IInv'
  <2>1. [NatsThm!Next]_(NatsThm!vars)
    BY <1>2, NatsStep, SameNats, SameNatsNext
  <2> QED BY <1>2, <2>1, NatsThm!StepIInv, NatsAssumption, SameNats DEF NatsThm!StepIInv
<1> QED BY <1>1, <1>2

-----------------------------------------------------------------------------
(* What the subscription says of the delivery in hand                      *)

LEMMA InHand ==
    ASSUME Nats!IInv
    PROVE  /\ stream \in [Dispatches -> Nats!StreamStates]
           /\ count \in [Dispatches -> 0..MaxDeliver]
           /\ loop.state \in {"handling", "handled", "exhausting", "recorded"} =>
                 /\ loop.at.msg \in Dispatches
                 /\ loop.at.count \in 1..MaxDeliver /\ loop.at.count <= count[loop.at.msg]
                 /\ stream[loop.at.msg] # "unsent"
<1> SUFFICES ASSUME loop.state \in {"handling", "handled", "exhausting", "recorded"}
             PROVE  /\ loop.at.msg \in Dispatches
                    /\ loop.at.count \in 1..MaxDeliver /\ loop.at.count <= count[loop.at.msg]
                    /\ stream[loop.at.msg] # "unsent"
  BY DEF Nats!IInv, Nats!TypeOK
<1>1. loop.at.msg \in Dispatches /\ loop.at.count \in 1..MaxDeliver
  BY DEF Nats!IInv, Nats!TypeOK, Nats!Busy, Nats!Deliveries
<1>2. loop.at.count <= count[loop.at.msg] /\ count[loop.at.msg] \in Nat
  BY <1>1, AiPipelineAssumption DEF Nats!IInv, Nats!InOrder, Nats!Busy, Nats!TypeOK
<1> QED BY <1>1, <1>2, AiPipelineAssumption DEF Nats!IInv, Nats!CountsMatch

LEMMA Waiting ==
    ASSUME Nats!IInv
    PROVE  /\ buffer \in Seq(Nats!Deliveries)
           /\ \A i \in DOMAIN buffer :
                 /\ buffer[i].msg \in Dispatches /\ buffer[i].count \in 1..MaxDeliver
                 /\ buffer[i].count <= count[buffer[i].msg]
<1>1. buffer \in Seq(Nats!Deliveries)
  BY DEF Nats!IInv, Nats!TypeOK
<1>2. \A i \in DOMAIN buffer : buffer[i] \in Nats!Deliveries
  BY <1>1
<1> QED BY <1>1, <1>2 DEF Nats!IInv, Nats!InOrder, Nats!Deliveries

\* Where the loop is when the handler is at work.
LEMMA AtWork ==
    ASSUME IInv
    PROVE  /\ handler.step \in {"enrich", "loadPipeline", "loadSession", "insert", "saveSession",
                                "savePipeline", "finish", "return", "throw"}
                 <=> loop.state = "handling"
           /\ handler.step \in {"loadFailed", "saveFailed", "record"} <=> loop.state = "exhausting"
           /\ handler.step # "idle" => loop.at.msg \in Dispatches /\ stream[loop.at.msg] # "unsent"
           /\ handler.step \in {"loadFailed", "saveFailed"} => loop.at.msg \in named
<1>1. /\ handler.step \in {"enrich", "loadPipeline", "loadSession", "insert", "saveSession",
                           "savePipeline", "finish", "return", "throw"}
            <=> loop.state = "handling"
      /\ handler.step \in {"loadFailed", "saveFailed", "record"} <=> loop.state = "exhausting"
      /\ handler.step \in {"loadFailed", "saveFailed"} => loop.at.msg \in named
  BY DEF IInv, HandlerFollowsLoop, Working, Loaded
<1>2. handler.step # "idle" => loop.state \in {"handling", "exhausting"}
  BY <1>1 DEF IInv, TypeOK, HandlingResult
<1> QED BY <1>1, <1>2, InHand DEF IInv

-----------------------------------------------------------------------------
(* Types                                                                   *)

\* What the handler holds at each of its steps.
LEMMA HandlerType ==
    ASSUME handler \in HandlingResult
    PROVE  /\ handler.step \in Working => handler.of \in Dispatches /\ handler.key \in Keys
           /\ handler.step \in Loaded \union {"saveFailed"} =>
                 handler.pipeline \in Pipeline
           /\ handler.step \in {"insert", "saveSession"} => handler.session \in Session
           /\ handler.step = "finish" => handler.key \in Keys
BY DEF HandlingResult, Working, Loaded

LEMMA DispatchType ==
    ASSUME TypeOK, NEW d \in Dispatches,
           dispatch[d].step \in {"loaded", "created", "published", "saved"}
    PROVE  dispatch[d].session \in Session /\ dispatch[d] \in [step : {"loaded", "created", "published", "saved"}, session : Session]
BY DEF TypeOK, Dispatching

LEMMA OpType ==
    ASSUME TypeOK, NEW o \in Ops, ops[o].step \in {"mode", "finalize", "archive", "override"}
    PROVE  ops[o].session \in Session
BY DEF TypeOK, Operating

LEMMA InitTypeOK == ASSUME Init PROVE TypeOK
<1>1. Nats!TypeOK
  BY NatsIInv DEF Nats!IInv
<1>2. session \in Session /\ pipelines \in [Dispatches -> Pipeline]
  <2>1. session \in Session
    <3>1. PICK m \in Mode : session = [status |-> "CREATED", mode |-> m, archived |-> FALSE]
      BY DEF Init
    <3> QED BY <3>1 DEF Session, SessionStatus
  <2>2. NoPipeline \in Pipeline
    BY DEF Pipeline, NoPipeline
  <2> QED BY <2>1, <2>2 DEF Init
<1>3. order \in Seq(Dispatches) /\ IsInjective(order) /\ divergences \in Seq(Keys)
  BY DEF Init, IsInjective
<1>4. /\ dispatch \in [Dispatches -> Dispatching] /\ ops \in [Ops -> Operating]
      /\ handler \in HandlingResult /\ comparing \in Comparing
  BY DEF Init, Idle, Dispatching, Operating, HandlingResult, Comparing
<1>5. versions \in [Dispatches -> 0..MaxDeliver] /\ faults \in 0..MaxFaults
  BY AiPipelineAssumption DEF Init
<1> QED BY <1>1, <1>2, <1>3, <1>4, <1>5 DEF TypeOK, Init

LEMMA DispatchTypeOK ==
    ASSUME IInv, Nats!TypeOK', NEW d \in Dispatches, Post(d) \/ Dispatch(d) \/ AiAnswers(d)
    PROVE  TypeOK'
<1>1. TypeOK /\ dispatch \in [Dispatches -> Dispatching] /\ session \in Session
  BY DEF IInv, TypeOK
<1>2. CASE Post(d) \/ LoadForDispatch(d)
  <2>1. dispatch' \in [Dispatches -> Dispatching]
    BY <1>1, <1>2 DEF Post, LoadForDispatch, Dispatching
  <2> QED BY <1>1, <1>2, <2>1 DEF Post, LoadForDispatch, TypeOK, resultVars, divergenceVars, natsVars
<1>3. CASE CreatePipeline(d)
  <2>1. dispatch' \in [Dispatches -> Dispatching]
    BY <1>1, <1>3, DispatchType DEF CreatePipeline, Dispatching
  <2>2. pipelines' \in [Dispatches -> Pipeline]
    BY <1>1, <1>3 DEF CreatePipeline, TypeOK, Pipeline, NoPipeline
  <2>3. order \in Seq(Dispatches) /\ IsInjective(order) /\ \A i \in DOMAIN order : order[i] # d
    <3>1. pipelines[d].status = "none"
      BY <1>3 DEF IInv, DispatchesInOrder, CreatePipeline, NoPipeline
    <3> QED BY <1>1, <3>1 DEF IInv, TypeOK, DispatchesInOrder
  <2>4. order' \in Seq(Dispatches) /\ IsInjective(order')
    BY <1>3, <2>3 DEF CreatePipeline, IsInjective
  <2> QED BY <1>1, <1>3, <2>1, <2>2, <2>4 DEF CreatePipeline, TypeOK, resultVars, divergenceVars, natsVars
<1>4. CASE PublishTask(d) \/ SaveNatsId(d)
  <2>1. dispatch' \in [Dispatches -> Dispatching]
    BY <1>1, <1>4, DispatchType DEF PublishTask, SaveNatsId, Dispatching
  <2>2. pipelines' \in [Dispatches -> Pipeline]
    <3>1. [status |-> "PENDING", natsId |-> TRUE, archived |-> FALSE] \in Pipeline
      BY DEF Pipeline
    <3> QED BY <1>1, <1>4, <3>1 DEF PublishTask, SaveNatsId, TypeOK
  <2> QED BY <1>1, <1>4, <2>1, <2>2 DEF PublishTask, SaveNatsId, TypeOK, resultVars, divergenceVars, natsVars
<1>5. CASE PublishFails(d)
  <2>1. dispatch' \in [Dispatches -> Dispatching] /\ faults' \in 0..MaxFaults
    BY <1>1, <1>5, AiPipelineAssumption DEF PublishFails, Fault, Ended, Dispatching, TypeOK
  <2> QED BY <1>1, <1>5, <2>1 DEF PublishFails, TypeOK, resultVars, divergenceVars, natsVars
<1>6. CASE MarkProcessing(d)
  <2> DEFINE copy == dispatch[d].session
  <2>1. dispatch' \in [Dispatches -> Dispatching] /\ copy \in Session
    BY <1>1, <1>6, DispatchType DEF MarkProcessing, Ended, Dispatching
  <2>2. session' \in Session
    <3>1. CASE copy.status = "CREATED"
      BY <1>6, <2>1, <3>1, TransitionsType DEF MarkProcessing
    <3>2. CASE copy.status \in {"AWAITING_INPUT", "IN_ELICITATION"}
      BY <1>6, <2>1, <3>2, TransitionsType DEF MarkProcessing
    <3>3. CASE copy.status \notin {"CREATED", "AWAITING_INPUT", "IN_ELICITATION"}
      BY <1>1, <1>6, <3>3 DEF MarkProcessing
    <3> QED BY <3>1, <3>2, <3>3
  <2> QED BY <1>1, <1>6, <2>1, <2>2 DEF MarkProcessing, TypeOK, resultVars, divergenceVars, natsVars
<1>7. CASE AiAnswers(d)
  BY <1>1, <1>7 DEF AiAnswers, TypeOK, resultVars, divergenceVars
<1> QED BY <1>2, <1>3, <1>4, <1>5, <1>6, <1>7 DEF Dispatch

\* A step of the consumer that changes nothing of the session's rows.
LEMMA ConsumeTypeOK ==
    ASSUME TypeOK, Nats!TypeOK', handler' \in HandlingResult,
           UNCHANGED <<session, taskVars, handled, versions, divergenceVars, ops, faults, named>>
    PROVE  TypeOK'
BY DEF TypeOK, taskVars, divergenceVars

\* A query of the handler, which leaves the subscription alone.
LEMMA QueryTypeOK ==
    ASSUME TypeOK, Nats!TypeOK', HandlerQuery, handler' \in HandlingResult, session' \in Session,
           versions' \in [Dispatches -> 0..MaxDeliver]
    PROVE  TypeOK'
BY DEF TypeOK, HandlerQuery, taskVars, divergenceVars, natsVars

\* A result that is being handled is taken for a pipeline that has a row.
LEMMA TakenFor ==
    ASSUME IInv, loop.state = "handling"
    PROVE  /\ order # <<>> /\ Last(order) \in Dispatches
           /\ PipelineOf(loop.at.msg) \in Dispatches
           /\ pipelines[PipelineOf(loop.at.msg)].status # "none"
           /\ KeyOf(loop.at.msg) \in Keys
<1> DEFINE d == loop.at.msg
<1>1. d \in Dispatches /\ stream[d] # "unsent"
  BY InHand DEF IInv
<1>2. pipelines[d].status # "none"
  BY <1>1 DEF IInv, RowsExist
<1>3. PICK i \in DOMAIN order : order[i] = d
  BY <1>1, <1>2 DEF IInv, DispatchesInOrder
<1>4. order \in Seq(Dispatches)
  BY DEF IInv, TypeOK
<1>5. order # <<>> /\ Len(order) \in DOMAIN order /\ Last(order) = order[Len(order)]
      /\ Last(order) \in Dispatches
  BY <1>3, <1>4 DEF Last
<1>6. pipelines[Last(order)].status # "none"
  BY <1>5 DEF IInv, DispatchesInOrder
<1>7. KeyOf(d) \in Keys
  <2>1. CorrelationOf(d) \in Keys /\ MessageOf(Last(order)) \in Keys /\ Fresh \in Keys
    BY <1>1, <1>5 DEF CorrelationOf, MessageOf, Keys
  <2> QED BY <2>1 DEF KeyOf
<1> QED BY <1>1, <1>2, <1>5, <1>6, <1>7 DEF PipelineOf

LEMMA ConsumerTypeOK ==
    ASSUME IInv, Nats!IInv',
           \/ Start \/ ConsumeResult \/ HandlerFault
           \/ \E d \in Dispatches : DeliverResult(d) \/ ResultAckWaitExpires(d)
    PROVE  TypeOK'
<1>0. TypeOK /\ Nats!IInv /\ Nats!TypeOK' /\ handler \in HandlingResult
      /\ session \in Session /\ versions \in [Dispatches -> 0..MaxDeliver]
      /\ pipelines \in [Dispatches -> Pipeline]
  BY DEF IInv, TypeOK, Nats!IInv
<1>1. CASE Start \/ AckResult \/ TermResult
           \/ \E d \in Dispatches : DeliverResult(d) \/ ResultAckWaitExpires(d)
  BY <1>0, <1>1, ConsumeTypeOK
     DEF Start, AckResult, TermResult, DeliverResult, ResultAckWaitExpires, Consume
<1>2. CASE TakeResult \/ ResultHandled \/ ResultThrows \/ ResultExhausted \/ RecordResult
  <2>1. handler' \in [step : {"idle", "enrich", "return", "throw", "record", "loadFailed"}]
    BY <1>2 DEF TakeResult, ResultHandled, ResultThrows, ResultExhausted, RecordResult, Consume, Idle
  <2>2. handler' \in HandlingResult
    BY <2>1 DEF HandlingResult
  <2> QED BY <1>0, <1>2, <2>2, ConsumeTypeOK
          DEF TakeResult, ResultHandled, ResultThrows, ResultExhausted, RecordResult, Consume
<1>3. CASE Enrich
  <2>1. loop.state = "handling"
    BY <1>3 DEF IInv, HandlerFollowsLoop, Enrich, Handling
  <2>2. handler' \in HandlingResult
    BY <1>3, <2>1, TakenFor DEF Enrich, HandlingResult
  <2> QED BY <1>0, <1>3, <2>2, QueryTypeOK DEF Enrich
<1>4. CASE LoadPipeline \/ LoadSessionForResult
  <2>1. handler' \in HandlingResult
    BY <1>0, <1>4, HandlerType DEF LoadPipeline, LoadSessionForResult, Handling, HandlingResult,
       Working, Loaded
  <2> QED BY <1>0, <1>4, <2>1, QueryTypeOK DEF LoadPipeline, LoadSessionForResult
<1>5. CASE InsertVersion
  <2>1. loop.at.msg \in Dispatches /\ loop.at.count \in 1..MaxDeliver
        /\ versions[loop.at.msg] < loop.at.count /\ versions[loop.at.msg] \in Nat
    <3>1. loop.state = "handling" /\ versions[loop.at.msg] < loop.at.count
      BY <1>5, AtWork DEF IInv, VersionsFollowDeliveries, InsertVersion, Handling
    <3>2. MaxDeliver \in Nat
      BY AiPipelineAssumption
    <3> QED BY <1>0, <3>1, <3>2, InHand
  <2>2. versions[loop.at.msg] + 1 \in 0..MaxDeliver
    BY <2>1, AiPipelineAssumption
  <2>3. versions' \in [Dispatches -> 0..MaxDeliver]
    BY <1>0, <1>5, <2>1, <2>2 DEF InsertVersion
  <2>4. handler' \in HandlingResult
    BY <1>0, <1>5 DEF InsertVersion, Handling, HandlingResult
  <2> QED BY <1>0, <1>5, <2>3, <2>4, QueryTypeOK DEF InsertVersion
<1>6. CASE SaveResultSession
  <2>1. handler.session \in Session /\ handler' \in HandlingResult
    BY <1>0, <1>6, HandlerType DEF SaveResultSession, Handling, HandlingResult, Working, Loaded
  <2>2. session' \in Session
    BY <1>6, <2>1, TransitionsType DEF SaveResultSession, AcceptsResult
  <2> QED BY <1>0, <1>6, <2>1, <2>2, QueryTypeOK DEF SaveResultSession
<1>7. CASE RejectResult
  <2>1. handler' \in HandlingResult
    BY <1>7 DEF RejectResult, HandlingResult
  <2> QED BY <1>0, <1>7, <2>1, QueryTypeOK DEF RejectResult
<1>8. CASE CompletePipeline
  <2>1. handler.of \in Dispatches /\ handler.pipeline \in Pipeline /\ handler.key \in Keys
    BY <1>0, <1>8, HandlerType DEF CompletePipeline, Handling, Working, Loaded
  <2>2. [handler.pipeline EXCEPT !.status = "COMPLETED"] \in Pipeline
    BY <2>1 DEF Pipeline
  <2>3. pipelines' \in [Dispatches -> Pipeline] /\ handler' \in HandlingResult
    BY <1>0, <1>8, <2>1, <2>2 DEF CompletePipeline, HandlingResult
  <2> QED BY <1>0, <1>8, <2>3 DEF CompletePipeline, TypeOK, divergenceVars, natsVars
<1>9. CASE FinishResult
  <2>1. handler.key \in Keys /\ handler' \in HandlingResult
    BY <1>0, <1>9, HandlerType DEF FinishResult, Handling, HandlingResult
  <2>2. divergences' \in Seq(Keys) /\ handled' \subseteq Keys \ {Fresh}
    BY <1>9, <2>1, <1>0 DEF FinishResult, CompareGraphs, MarkHandled, TypeOK
  <2> QED BY <1>0, <1>9, <2>1, <2>2 DEF FinishResult, TypeOK, taskVars, natsVars
<1>10. CASE LoadFailedPipeline
  <2>1. pipelines[loop.at.msg] \in Pipeline
    BY <1>0, <1>10, InHand DEF IInv, HandlerFollowsLoop, LoadFailedPipeline, Handling
  <2>2. handler' \in HandlingResult
    BY <1>10, <2>1 DEF LoadFailedPipeline, HandlingResult
  <2> QED BY <1>0, <1>10, <2>2, QueryTypeOK DEF LoadFailedPipeline
<1>11. CASE FailPipeline
  <2>1. handler.pipeline \in Pipeline
    BY <1>0, <1>11, HandlerType DEF FailPipeline, Handling
  <2>2. [handler.pipeline EXCEPT !.status = "FAILED"] \in Pipeline
    BY <2>1 DEF Pipeline
  <2>3. pipelines' \in [Dispatches -> Pipeline] /\ handler' \in HandlingResult
    BY <1>0, <1>11, <2>2 DEF FailPipeline, HandlingResult
  <2> QED BY <1>0, <1>11, <2>3 DEF FailPipeline, TypeOK, divergenceVars, natsVars
<1>12. CASE HandlerFault
  <2>1. handler' \in HandlingResult /\ faults' \in 0..MaxFaults
    BY <1>0, <1>12, AiPipelineAssumption DEF HandlerFault, Fault, HandlingResult, TypeOK
  <2> QED BY <1>0, <1>12, <2>1 DEF HandlerFault, TypeOK, taskVars, divergenceVars, natsVars
<1> QED BY <1>1, <1>2, <1>3, <1>4, <1>5, <1>6, <1>7, <1>8, <1>9, <1>10, <1>11, <1>12
        DEF ConsumeResult

LEMMA OthersTypeOK ==
    ASSUME TypeOK, HeadIsCompared, Nats!TypeOK',
           \/ SkipDivergence \/ LoadForDivergence \/ NeedsReconciliation
           \/ \E o \in Ops : Op(o)
           \/ Crash
           \/ UNCHANGED vars
    PROVE  TypeOK'
<1>0. /\ session \in Session /\ ops \in [Ops -> Operating] /\ pipelines \in [Dispatches -> Pipeline]
      /\ dispatch \in [Dispatches -> Dispatching] /\ divergences \in Seq(Keys)
      /\ comparing \in Comparing /\ compared \subseteq Keys \ {Fresh}
  BY DEF TypeOK
<1>1. CASE SkipDivergence \/ NeedsReconciliation
  <2>1. divergences # <<>>
    BY <1>1 DEF SkipDivergence, NeedsReconciliation, HeadIsCompared, Idle
  <2>2. Tail(divergences) \in Seq(Keys) /\ Head(divergences) \in Keys
    BY <1>0, <2>1
  <2>3. divergences' \in Seq(Keys) /\ compared' \subseteq Keys \ {Fresh} /\ comparing' \in Comparing
    BY <1>0, <1>1, <2>2 DEF SkipDivergence, NeedsReconciliation, Compared, Comparing
  <2>4. session' \in Session
    <3>1. CASE SkipDivergence
      BY <1>0, <3>1 DEF SkipDivergence
    <3>2. CASE NeedsReconciliation
      <4>1. comparing.session \in Session
        BY <1>0, <3>2 DEF NeedsReconciliation, Comparing, Idle
      <4> QED BY <3>2, <4>1 DEF NeedsReconciliation, Session, SessionStatus
    <3> QED BY <1>1, <3>1, <3>2
  <2>5. UNCHANGED <<taskVars, resultVars, ops, faults, named>>
    BY <1>1 DEF SkipDivergence, NeedsReconciliation, DivergenceQuery, natsVars
  <2> QED BY <2>3, <2>4, <2>5 DEF TypeOK, taskVars, resultVars
<1>2. CASE LoadForDivergence
  <2>1. comparing' \in Comparing
    BY <1>0, <1>2 DEF LoadForDivergence, Comparing
  <2> QED BY <1>2, <2>1 DEF LoadForDivergence, DivergenceQuery, TypeOK, taskVars, resultVars, natsVars
<1>3. ASSUME NEW o \in Ops, Op(o) PROVE TypeOK'
  <2>1. CASE LoadForOp(o)
    <3>1. ops' \in [Ops -> Operating]
      BY <1>0, <2>1 DEF LoadForOp, Operating
    <3> QED BY <2>1, <3>1 DEF LoadForOp, TypeOK, taskVars, resultVars, divergenceVars, natsVars
  <2>2. ASSUME NEW step, NEW saved \in Session, NEW next \in {"archiving", "ended"},
               OpSaves(o, step, saved, next)
        PROVE  TypeOK'
    <3>1. ops' \in [Ops -> Operating]
      BY <1>0, <2>2 DEF OpSaves, Operating
    <3> QED BY <2>2, <3>1 DEF OpSaves, TypeOK, taskVars, resultVars, divergenceVars, natsVars
  <2>3. CASE UpdateMode(o)
    <3>1. PICK mode \in Mode :
              OpSaves(o, "mode",
                      IF mode = ops[o].session.mode THEN session
                      ELSE [ops[o].session EXCEPT !.mode = mode],
                      "ended")
      BY <2>3 DEF UpdateMode
    <3>2. ops[o].session \in Session
      BY <3>1, OpType DEF OpSaves
    <3>3. [ops[o].session EXCEPT !.mode = mode] \in Session
      BY <3>2 DEF Session
    <3> QED BY <1>0, <2>2, <3>1, <3>3
  <2>4. CASE Finalize(o)
    <3> DEFINE copy == ops[o].session
               saved == IF Accepts(copy.status, "USER_FINALIZES", copy.mode)
                        THEN [copy EXCEPT !.status =
                                 TransitionSessionStatus(@, "USER_FINALIZES", copy.mode)]
                        ELSE session
    <3>1. copy \in Session /\ OpSaves(o, "finalize", saved, "ended")
      BY <2>4, OpType DEF Finalize
    <3>2. saved \in Session
      BY <1>0, <3>1, TransitionsType
    <3> QED BY <2>2, <3>1, <3>2
  <2>5. CASE Archive(o)
    <3> DEFINE copy == ops[o].session
    <3>1. copy \in Session
      BY <2>5, OpType DEF Archive
    <3> QED BY <2>2, <2>5, <3>1, TransitionsType DEF Archive
  <2>6. CASE ArchivePipelines(o)
    <3>1. ops' \in [Ops -> Operating]
      BY <1>0, <2>6 DEF ArchivePipelines, Operating, Ended
    <3>2. \A d \in Dispatches : [pipelines[d] EXCEPT !.archived = TRUE] \in Pipeline
      BY <1>0 DEF Pipeline
    <3>3. NoPipeline \in Pipeline
      BY DEF Pipeline, NoPipeline
    <3>4. pipelines' \in [Dispatches -> Pipeline]
      BY <2>6, <3>2, <3>3 DEF ArchivePipelines
    <3> QED BY <2>6, <3>1, <3>4 DEF ArchivePipelines, TypeOK, resultVars, divergenceVars, natsVars
  <2>7. ASSUME NEW to \in Targets, NEW force \in BOOLEAN, OverrideStatus(o, to, force)
        PROVE  TypeOK'
    <3> DEFINE copy == ops[o].session
               saved == IF force \/ CanTransitionTo(copy.status, to, copy.mode)
                        THEN [copy EXCEPT !.status = to, !.archived = @ \/ to = "ARCHIVED"]
                        ELSE session
    <3>1. copy \in Session /\ to \in SessionStatus /\ OpSaves(o, "override", saved, "ended")
      BY <2>7, OpType, AiPipelineAssumption DEF OverrideStatus
    <3>2. [copy EXCEPT !.status = to, !.archived = @ \/ to = "ARCHIVED"] \in Session
      BY <3>1 DEF Session
    <3>3. saved \in Session
      BY <1>0, <3>2
    <3> QED BY <2>2, <3>1, <3>3
  <2> QED BY <1>3, <2>1, <2>3, <2>4, <2>5, <2>6, <2>7 DEF Op
<1>4. CASE Crash
  <2>1. Idle \in Dispatching /\ Ended \in Dispatching /\ Idle \in Operating /\ Ended \in Operating
        /\ Idle \in HandlingResult /\ Idle \in Comparing
    BY DEF Idle, Ended, Dispatching, Operating, HandlingResult, Comparing
  <2>2. dispatch' \in [Dispatches -> Dispatching] /\ ops' \in [Ops -> Operating]
    BY <1>4, <2>1 DEF Crash
  <2> QED BY <1>4, <2>1, <2>2 DEF Crash, TypeOK
<1>5. CASE UNCHANGED vars
  BY <1>5 DEF vars, TypeOK, taskVars, resultVars, divergenceVars, natsVars
<1> QED BY <1>1, <1>2, <1>3, <1>4, <1>5

-----------------------------------------------------------------------------
(* What the steps leave alone                                              *)

LEMMA RequestFrame ==
    ASSUME NEW d \in Dispatches,
           Post(d) \/ Dispatch(d) \/ AiAnswers(d) \/ DeliverResult(d) \/ ResultAckWaitExpires(d)
    PROVE  UNCHANGED <<handler, handled, versions, divergences, comparing, loop, dlq>>
<1>1. CASE Post(d) \/ Dispatch(d)
  BY <1>1 DEF Post, Dispatch, LoadForDispatch, CreatePipeline, PublishTask, PublishFails, SaveNatsId,
     MarkProcessing, resultVars, divergenceVars, natsVars
<1>2. CASE AiAnswers(d)
  BY <1>2 DEF AiAnswers, Nats!Publish, resultVars, divergenceVars
<1>3. CASE DeliverResult(d) \/ ResultAckWaitExpires(d)
  BY <1>3 DEF DeliverResult, ResultAckWaitExpires, Consume, Nats!Deliver, Nats!AckWaitExpires,
     divergenceVars
<1> QED BY <1>1, <1>2, <1>3

LEMMA OtherFrame ==
    ASSUME \/ SkipDivergence \/ LoadForDivergence \/ NeedsReconciliation
           \/ \E o \in Ops : Op(o)
           \/ UNCHANGED vars
    PROVE  UNCHANGED <<order, dispatch, handler, handled, versions, stream, count, buffer, loop, dlq, named>>
<1>1. CASE SkipDivergence \/ LoadForDivergence \/ NeedsReconciliation
  BY <1>1 DEF SkipDivergence, LoadForDivergence, NeedsReconciliation, DivergenceQuery,
     taskVars, resultVars, natsVars
<1>2. ASSUME NEW o \in Ops, Op(o)
      PROVE  UNCHANGED <<order, dispatch, handler, handled, versions, stream, count, buffer, loop, dlq, named>>
  BY <1>2 DEF Op, LoadForOp, UpdateMode, Finalize, Archive, ArchivePipelines, OverrideStatus,
     OpSaves, taskVars, resultVars, natsVars
<1>3. CASE UNCHANGED vars
  BY <1>3 DEF vars, taskVars, resultVars, natsVars
<1> QED BY <1>1, <1>2, <1>3

\* The awaits of the handler, and the moves of the loop between them.
Query ==
    \/ Enrich \/ LoadPipeline \/ LoadSessionForResult \/ InsertVersion \/ SaveResultSession
    \/ RejectResult \/ CompletePipeline \/ FinishResult \/ LoadFailedPipeline \/ FailPipeline
    \/ HandlerFault

LoopMove ==
    \/ Start \/ TakeResult \/ ResultHandled \/ AckResult \/ ResultThrows \/ ResultExhausted
    \/ RecordResult \/ TermResult

LEMMA QueryFrame ==
    ASSUME Query
    PROVE  UNCHANGED <<order, dispatch, comparing, stream, count, buffer, loop, dlq, named>>
BY DEF Query, Enrich, LoadPipeline, LoadSessionForResult, InsertVersion, SaveResultSession,
   RejectResult, CompletePipeline, FinishResult, LoadFailedPipeline, FailPipeline, HandlerFault,
   HandlerQuery, taskVars, divergenceVars, natsVars

LEMMA LoopFrame ==
    ASSUME LoopMove
    PROVE  UNCHANGED <<pipelines, order, dispatch, handled, versions, divergences, comparing, named>>
BY DEF LoopMove, Start, TakeResult, ResultHandled, AckResult, ResultThrows, ResultExhausted,
   RecordResult, TermResult, Consume, taskVars, divergenceVars

\* Every step is one of these.
LEMMA StepKinds ==
    ASSUME [Next]_vars
    PROVE  \/ \E d \in Dispatches :
                 Post(d) \/ Dispatch(d) \/ AiAnswers(d) \/ DeliverResult(d) \/ ResultAckWaitExpires(d)
           \/ SkipDivergence \/ LoadForDivergence \/ NeedsReconciliation
              \/ (\E o \in Ops : Op(o)) \/ UNCHANGED vars
           \/ Query
           \/ LoopMove
           \/ Crash
BY DEF Next, ConsumeResult, Query, LoopMove

\* A result names its task from the answer on, and never later.
LEMMA NamedSteps ==
    ASSUME [Next]_vars, NEW d \in Dispatches
    PROVE  (d \in named' <=> d \in named) \/ AiAnswers(d)
<1>1. ASSUME NEW e \in Dispatches, Post(e) \/ Dispatch(e) PROVE named' = named
  BY <1>1 DEF Post, Dispatch, LoadForDispatch, CreatePipeline, PublishTask, PublishFails, SaveNatsId,
     MarkProcessing, natsVars
<1>2. ASSUME NEW e \in Dispatches, DeliverResult(e) \/ ResultAckWaitExpires(e) PROVE named' = named
  BY <1>2 DEF DeliverResult, ResultAckWaitExpires, Consume
<1>3. ASSUME NEW e \in Dispatches, AiAnswers(e), e # d PROVE d \in named' <=> d \in named
  BY <1>3 DEF AiAnswers
<1>4. CASE Crash
  BY <1>4 DEF Crash
<1> QED BY <1>1, <1>2, <1>3, <1>4, StepKinds, OtherFrame, QueryFrame, LoopFrame

LEMMA NamedStays ==
    ASSUME [Next]_vars, NEW d \in Dispatches, stream[d] # "unsent"
    PROVE  d \in named' <=> d \in named
BY NamedSteps DEF AiAnswers, Nats!Publish

-----------------------------------------------------------------------------
(* The handler and the loop                                                *)

LEMMA HandlerStep == ASSUME IInv, [Next]_vars PROVE HandlerFollowsLoop'
<1> USE DEF HandlerFollowsLoop, Working, Loaded
<1>0. HandlerFollowsLoop /\ handler \in HandlingResult
  BY DEF IInv, TypeOK
<1>1. CASE UNCHANGED <<handler, loop>>
  BY <1>0, <1>1, AtWork, NamedStays
<1>2. CASE Query
  <2>1. loop' = loop /\ named' = named
    BY <1>2, QueryFrame
  <2>2. CASE Enrich \/ LoadPipeline \/ LoadSessionForResult \/ SaveResultSession \/ RejectResult
             \/ LoadFailedPipeline
    BY <1>0, <2>1, <2>2 DEF Enrich, LoadPipeline, LoadSessionForResult, SaveResultSession,
       RejectResult, LoadFailedPipeline, Handling
  <2>3. CASE InsertVersion
    <3>1. handler'.step = "saveSession"
      BY <1>0, <2>3 DEF InsertVersion, Handling, HandlingResult
    <3> QED BY <1>0, <2>1, <2>3, <3>1 DEF InsertVersion, Handling
  <2>4. CASE CompletePipeline \/ FailPipeline \/ HandlerFault \/ FinishResult
    BY <1>0, <2>1, <2>4 DEF CompletePipeline, FailPipeline, HandlerFault, FinishResult, Handling
  <2> QED BY <1>2, <2>2, <2>3, <2>4 DEF Query
<1>3. CASE LoopMove
  <2>1. named' = named
    BY <1>3, LoopFrame
  <2>2. CASE Start \/ AckResult \/ TermResult
    BY <1>0, <2>1, <2>2 DEF Start, AckResult, TermResult, Consume, Nats!Subscribe, Nats!Ack, Nats!Term
  <2>3. CASE TakeResult
    BY <1>0, <2>1, <2>3 DEF TakeResult, Consume, Nats!Take
  <2>4. CASE ResultThrows
    BY <1>0, <2>1, <2>4 DEF ResultThrows, Consume, Handling, Nats!HandlerThrows, Idle
  <2>5. CASE ResultHandled \/ ResultExhausted \/ RecordResult
    <3>1. loop.state \in Nats!Busy /\ loop \in [state : Nats!Busy, at : Nats!Deliveries]
      BY <1>0, <2>5 DEF ResultHandled, ResultExhausted, RecordResult, Handling, Nats!Busy, IInv,
         Nats!IInv, Nats!TypeOK
    <3> QED BY <1>0, <2>1, <2>5, <3>1 DEF ResultHandled, ResultExhausted, RecordResult, Consume, Idle,
               Handling, Nats!HandlerReturns, Nats!HandlerThrowsLast, Nats!RecordFailure
  <2> QED BY <1>3, <2>2, <2>3, <2>4, <2>5 DEF LoopMove
<1>4. CASE Crash
  BY <1>4 DEF Crash, Nats!Crash, Idle
<1> QED BY <1>1, <1>2, <1>3, <1>4, StepKinds, RequestFrame, OtherFrame

\* Versions are only added, for the delivery in hand.
LEMMA VersionsStep ==
    ASSUME IInv, [Next]_vars, NEW d \in Dispatches
    PROVE  /\ versions[d] \in Nat /\ versions'[d] \in Nat
           /\ \/ versions'[d] = versions[d]
              \/ /\ InsertVersion /\ handler.step = "insert" /\ d = loop.at.msg
                 /\ versions'[d] = versions[d] + 1
<1>0. versions \in [Dispatches -> 0..MaxDeliver] /\ versions[d] \in Nat
  BY AiPipelineAssumption DEF IInv, TypeOK
<1>1. CASE InsertVersion
  <2>1. versions' = [versions EXCEPT ![loop.at.msg] = @ + 1] /\ handler.step = "insert"
    BY <1>1 DEF InsertVersion, Handling
  <2> QED BY <1>0, <1>1, <2>1
<1>2. CASE Query /\ ~InsertVersion
  BY <1>0, <1>2 DEF Query, Enrich, LoadPipeline, LoadSessionForResult, SaveResultSession,
     RejectResult, CompletePipeline, FinishResult, LoadFailedPipeline, FailPipeline, HandlerFault
<1>3. CASE Crash
  BY <1>0, <1>3 DEF Crash
<1> QED BY <1>0, <1>1, <1>2, <1>3, StepKinds, RequestFrame, OtherFrame, LoopFrame

\* An anonymous result that made a version stays one.
LEMMA AnonymousStays ==
    ASSUME IInv, [Next]_vars, AnonymousApplied PROVE AnonymousApplied'
<1>1. PICK e \in Dispatches \ named : versions[e] > 0
  BY DEF AnonymousApplied
<1>2. count[e] \in Nat /\ versions[e] \in Nat /\ versions[e] <= count[e]
  BY VersionsStep, InHand, AiPipelineAssumption DEF IInv, VersionsFollowDeliveries
<1>3. stream[e] # "unsent"
  BY <1>1, <1>2 DEF IInv, Nats!IInv, Nats!CountsMatch
<1>4. e \notin named' /\ versions'[e] > 0
  BY <1>1, <1>2, <1>3, NamedStays, VersionsStep
<1> QED BY <1>4 DEF AnonymousApplied

\* The server's counts only grow, and a delivery it makes has the next number.
LEMMA DeliverySteps ==
    ASSUME IInv, [Next]_vars
    PROVE  /\ \A d \in Dispatches : count[d] \in Nat /\ count'[d] \in Nat /\ count[d] <= count'[d]
           /\ \A i \in DOMAIN buffer' :
                 \/ \E j \in DOMAIN buffer : buffer'[i] = buffer[j]
                 \/ /\ buffer'[i].msg \in Dispatches
                    /\ buffer'[i].count = count[buffer'[i].msg] + 1
                    /\ versions' = versions
<1>0. Nats!IInv /\ Nats!TypeOK /\ Nats!TypeOK' /\ buffer \in Seq(Nats!Deliveries)
  BY NatsIInv DEF IInv, Nats!IInv, Nats!TypeOK
<1>1. count \in [Dispatches -> 0..MaxDeliver] /\ \A d \in Dispatches : count[d] \in Nat /\ count'[d] \in Nat
  BY <1>0, AiPipelineAssumption DEF Nats!TypeOK
<1>2. CASE UNCHANGED <<count, buffer>>
  BY <1>1, <1>2
<1>3. ASSUME NEW d \in Dispatches, DeliverResult(d)
      PROVE  /\ \A e \in Dispatches : count[e] <= count'[e]
             /\ \A i \in DOMAIN buffer' :
                   \/ \E j \in DOMAIN buffer : buffer'[i] = buffer[j]
                   \/ /\ buffer'[i].msg \in Dispatches
                      /\ buffer'[i].count = count[buffer'[i].msg] + 1
                      /\ versions' = versions
  <2>1. count' = [count EXCEPT ![d] = @ + 1] /\ versions' = versions
        /\ buffer' = Append(buffer, [msg |-> d, count |-> count[d] + 1])
    BY <1>3 DEF DeliverResult, Consume, Nats!Deliver
  <2>2. \A i \in DOMAIN buffer' :
           \/ i \in DOMAIN buffer /\ buffer'[i] = buffer[i]
           \/ buffer'[i] = [msg |-> d, count |-> count[d] + 1]
    BY <1>0, <2>1
  <2>3. \A e \in Dispatches : count[e] <= count'[e]
    BY <1>1, <2>1
  <2> QED BY <2>1, <2>2, <2>3
<1>4. CASE TakeResult
  <2>1. buffer # <<>> /\ buffer' = Tail(buffer) /\ count' = count
    BY <1>4 DEF TakeResult, Consume, Nats!Take
  <2>2. \A i \in DOMAIN buffer' : i + 1 \in DOMAIN buffer /\ buffer'[i] = buffer[i + 1]
    BY <1>0, <2>1
  <2> QED BY <1>1, <2>1, <2>2
<1>5. CASE Crash
  BY <1>1, <1>5 DEF Crash, Nats!Crash
<1>6. ASSUME NEW d \in Dispatches, Post(d) \/ Dispatch(d) \/ AiAnswers(d) \/ ResultAckWaitExpires(d)
      PROVE  UNCHANGED <<count, buffer>>
  <2>1. CASE Post(d) \/ Dispatch(d)
    BY <2>1 DEF Post, Dispatch, LoadForDispatch, CreatePipeline, PublishTask, PublishFails,
       SaveNatsId, MarkProcessing, natsVars
  <2>2. CASE AiAnswers(d) \/ ResultAckWaitExpires(d)
    BY <2>2 DEF AiAnswers, ResultAckWaitExpires, Consume, Nats!Publish, Nats!AckWaitExpires
  <2> QED BY <1>6, <2>1, <2>2
<1>7. CASE LoopMove /\ ~TakeResult
  BY <1>2, <1>7 DEF LoopMove, Start, ResultHandled, AckResult, ResultThrows, ResultExhausted,
     RecordResult, TermResult, Consume, Nats!Subscribe, Nats!HandlerReturns, Nats!Ack,
     Nats!HandlerThrows, Nats!HandlerThrowsLast, Nats!RecordFailure, Nats!Term
<1> QED BY <1>1, <1>2, <1>3, <1>4, <1>5, <1>6, <1>7, StepKinds, OtherFrame, QueryFrame

\* A result is acknowledged by the loop only, after its handler returned, and
\* it is sent by the AI service, once.
LEMMA ResultStates ==
    ASSUME IInv, [Next]_vars, NEW d \in Dispatches
    PROVE  /\ stream'[d] = "acked" =>
                 stream[d] = "acked" \/ (loop.state = "handled" /\ d = loop.at.msg)
           /\ stream'[d] # "unsent" => stream[d] # "unsent" \/ AiAnswers(d)
           /\ stream[d] # "unsent" => stream'[d] # "unsent"
<1>0. Nats!IInv /\ stream \in [Dispatches -> Nats!StreamStates]
  BY InHand DEF IInv
<1>1. CASE stream' = stream
  BY <1>1
<1>2. ASSUME NEW e \in Dispatches, AiAnswers(e) \/ DeliverResult(e) \/ ResultAckWaitExpires(e)
      PROVE  /\ stream'[d] = "acked" => stream[d] = "acked"
             /\ stream'[d] # "unsent" => stream[d] # "unsent" \/ AiAnswers(d)
             /\ stream[d] # "unsent" => stream'[d] # "unsent"
  BY <1>0, <1>2 DEF AiAnswers, DeliverResult, ResultAckWaitExpires, Consume, Nats!Publish,
     Nats!Deliver, Nats!AckWaitExpires, Nats!Again
<1>3. ASSUME NEW e \in Dispatches, Post(e) \/ Dispatch(e) PROVE stream' = stream
  BY <1>3 DEF Post, Dispatch, LoadForDispatch, CreatePipeline, PublishTask, PublishFails,
     SaveNatsId, MarkProcessing, natsVars
<1>4. CASE AckResult \/ TermResult \/ ResultThrows
  <2>1. loop.at.msg \in Dispatches /\ stream[loop.at.msg] # "unsent"
    BY <1>0, <1>4, InHand DEF AckResult, TermResult, ResultThrows, Consume, Nats!Ack, Nats!Term,
       Nats!HandlerThrows
  <2>2. CASE AckResult
    BY <1>0, <2>1, <2>2 DEF AckResult, Consume, Nats!Ack, Nats!Settle
  <2>3. CASE TermResult
    BY <1>0, <2>1, <2>3 DEF TermResult, Consume, Nats!Term, Nats!Settle
  <2>4. CASE ResultThrows
    BY <1>0, <2>1, <2>4 DEF ResultThrows, Consume, Nats!HandlerThrows, Nats!Nak, Nats!Again
  <2> QED BY <1>4, <2>2, <2>3, <2>4
<1>5. CASE Start \/ TakeResult \/ ResultHandled \/ ResultExhausted \/ RecordResult \/ Crash
  BY <1>1, <1>5 DEF Start, TakeResult, ResultHandled, ResultExhausted, RecordResult, Crash, Consume,
     Nats!Subscribe, Nats!Take, Nats!HandlerReturns, Nats!HandlerThrowsLast, Nats!RecordFailure,
     Nats!Crash
<1> QED BY <1>1, <1>2, <1>3, <1>4, <1>5, StepKinds, OtherFrame, QueryFrame DEF LoopMove

\* Who changes the status of a pipeline: its own dispatch, and the handler of
\* a result taken for it.
LEMMA PipelineSteps ==
    ASSUME IInv, [Next]_vars, NEW d \in Dispatches
    PROVE  \/ pipelines'[d].status = pipelines[d].status
           \/ CreatePipeline(d) /\ pipelines'[d].status = "PENDING"
           \/ SaveNatsId(d) /\ pipelines'[d].status = "PENDING"
           \/ /\ CompletePipeline /\ handler.step = "savePipeline" /\ d = handler.of
              /\ pipelines'[d].status = "COMPLETED"
           \/ /\ FailPipeline /\ d = loop.at.msg /\ pipelines'[d].status = "FAILED"
<1>0. /\ pipelines \in [Dispatches -> Pipeline] /\ handler \in HandlingResult
  BY DEF IInv, TypeOK
<1>1. ASSUME NEW e \in Dispatches,
             \/ Post(e) \/ Dispatch(e) \/ AiAnswers(e) \/ DeliverResult(e) \/ ResultAckWaitExpires(e)
      PROVE  \/ pipelines' = pipelines
             \/ /\ e = d => CreatePipeline(d) \/ SaveNatsId(d)
                /\ e = d => pipelines'[d].status = "PENDING"
                /\ e # d => pipelines'[d] = pipelines[d]
  <2>1. CASE CreatePipeline(e) \/ SaveNatsId(e)
    BY <1>0, <2>1 DEF CreatePipeline, SaveNatsId, NoPipeline
  <2>2. CASE ~CreatePipeline(e) /\ ~SaveNatsId(e)
    BY <1>1, <2>2 DEF Post, Dispatch, LoadForDispatch, PublishTask, PublishFails, MarkProcessing,
       AiAnswers, DeliverResult, ResultAckWaitExpires, Consume, taskVars
  <2> QED BY <2>1, <2>2
<1>2. CASE CompletePipeline
  <2>1. handler.pipeline \in Pipeline /\ handler.step = "savePipeline"
    BY <1>0, <1>2, HandlerType DEF CompletePipeline, Handling, Loaded
  <2>2. [handler.pipeline EXCEPT !.status = "COMPLETED"].status = "COMPLETED"
    BY <2>1 DEF Pipeline
  <2> QED BY <1>0, <1>2, <2>1, <2>2 DEF CompletePipeline
<1>3. CASE FailPipeline
  <2>1. handler.pipeline \in Pipeline
    BY <1>0, <1>3, HandlerType DEF FailPipeline, Handling
  <2>2. [handler.pipeline EXCEPT !.status = "FAILED"].status = "FAILED"
    BY <2>1 DEF Pipeline
  <2> QED BY <1>0, <1>3, <2>2 DEF FailPipeline
<1>4. CASE Query /\ ~CompletePipeline /\ ~FailPipeline
  BY <1>4 DEF Query, Enrich, LoadPipeline, LoadSessionForResult, InsertVersion, SaveResultSession,
     RejectResult, FinishResult, LoadFailedPipeline, HandlerFault, HandlerQuery, taskVars
<1>5. ASSUME NEW o \in Ops, Op(o) PROVE pipelines'[d].status = pipelines[d].status
  <2>1. CASE ArchivePipelines(o)
    <3>1. [pipelines[d] EXCEPT !.archived = TRUE].status = pipelines[d].status
      BY <1>0 DEF Pipeline
    <3>2. pipelines'[d] = IF pipelines[d] = NoPipeline THEN NoPipeline
                          ELSE [pipelines[d] EXCEPT !.archived = TRUE]
      BY <2>1 DEF ArchivePipelines
    <3> QED BY <3>1, <3>2
  <2>2. CASE ~ArchivePipelines(o)
    BY <1>5, <2>2 DEF Op, LoadForOp, UpdateMode, Finalize, Archive, OverrideStatus, OpSaves, taskVars
  <2> QED BY <2>1, <2>2
<1>6. CASE SkipDivergence \/ LoadForDivergence \/ NeedsReconciliation \/ UNCHANGED vars \/ Crash
  BY <1>6 DEF SkipDivergence, LoadForDivergence, NeedsReconciliation, DivergenceQuery, vars, Crash,
     taskVars
<1> QED BY <1>1, <1>2, <1>3, <1>4, <1>5, <1>6, StepKinds, LoopFrame

LEMMA VersionsFollowStep == ASSUME IInv, [Next]_vars PROVE VersionsFollowDeliveries'
<1>0. /\ Nats!IInv /\ HandlerFollowsLoop /\ VersionsFollowDeliveries /\ handler \in HandlingResult
      /\ versions \in [Dispatches -> 0..MaxDeliver]
  BY DEF IInv, TypeOK
<1>1. \A d \in Dispatches : versions'[d] <= count'[d]
  <2> SUFFICES ASSUME NEW d \in Dispatches PROVE versions'[d] <= count'[d]
    OBVIOUS
  <2>1. versions[d] <= count[d] /\ count[d] <= count'[d] /\ count[d] \in Nat /\ count'[d] \in Nat
    BY <1>0, DeliverySteps DEF VersionsFollowDeliveries
  <2>2. CASE handler.step = "insert" /\ d = loop.at.msg
    <3>1. versions[d] < loop.at.count /\ loop.at.count <= count[d] /\ loop.at.count \in Nat
      BY <1>0, <2>2, AtWork, InHand, AiPipelineAssumption DEF VersionsFollowDeliveries
    <3> QED BY <2>1, <3>1, VersionsStep
  <2> QED BY <2>1, <2>2, VersionsStep
<1>2. \A i \in DOMAIN buffer' : versions'[buffer'[i].msg] < buffer'[i].count
  <2> SUFFICES ASSUME NEW i \in DOMAIN buffer' PROVE versions'[buffer'[i].msg] < buffer'[i].count
    OBVIOUS
  <2>1. ASSUME NEW j \in DOMAIN buffer, buffer'[i] = buffer[j]
        PROVE  versions'[buffer'[i].msg] < buffer'[i].count
    <3> DEFINE d == buffer[j].msg
    <3>1. d \in Dispatches /\ buffer[j].count \in Nat /\ versions[d] < buffer[j].count
      BY <1>0, Waiting, AiPipelineAssumption DEF VersionsFollowDeliveries
    <3>2. CASE handler.step = "insert" /\ d = loop.at.msg
      <4>1. loop.state = "handling" /\ versions[d] < loop.at.count /\ loop.at.count \in Nat
        BY <1>0, <3>2, AtWork, InHand, AiPipelineAssumption DEF VersionsFollowDeliveries
      <4>2. loop.at.count < buffer[j].count
        BY <1>0, <3>2, <4>1 DEF Nats!IInv, Nats!InOrder, Nats!Busy
      <4> HIDE DEF d
      <4>3. versions'[d] < buffer[j].count
        BY <3>1, <4>1, <4>2, VersionsStep
      <4> QED BY <2>1, <4>3 DEF d
    <3> QED BY <2>1, <3>1, <3>2, VersionsStep
  <2>2. ASSUME buffer'[i].msg \in Dispatches, buffer'[i].count = count[buffer'[i].msg] + 1,
               versions' = versions
        PROVE  versions'[buffer'[i].msg] < buffer'[i].count
    <3>1. versions[buffer'[i].msg] <= count[buffer'[i].msg]
      BY <1>0, <2>2 DEF VersionsFollowDeliveries
    <3>2. versions[buffer'[i].msg] \in Nat /\ count[buffer'[i].msg] \in Nat
      BY <2>2, VersionsStep, DeliverySteps
    <3> QED BY <2>2, <3>1, <3>2
  <2> QED BY <2>1, <2>2, DeliverySteps
<1>3. handler'.step \in {"enrich", "loadPipeline", "loadSession", "insert"} =>
          versions'[loop'.at.msg] < loop'.at.count
  <2>1. CASE UNCHANGED <<handler, versions, loop>>
    BY <1>0, <2>1 DEF VersionsFollowDeliveries
  <2>2. CASE Enrich \/ LoadPipeline \/ LoadSessionForResult
    <3>1. handler.step \in {"enrich", "loadPipeline", "loadSession"} /\ UNCHANGED <<versions, loop>>
      BY <2>2, QueryFrame DEF Query, Enrich, LoadPipeline, LoadSessionForResult, Handling
    <3> QED BY <1>0, <3>1 DEF VersionsFollowDeliveries
  <2>3. CASE \/ SaveResultSession \/ RejectResult \/ CompletePipeline \/ FinishResult
             \/ LoadFailedPipeline \/ FailPipeline \/ HandlerFault \/ ResultHandled \/ ResultThrows
             \/ ResultExhausted \/ RecordResult \/ Crash
    BY <2>3 DEF SaveResultSession, RejectResult, CompletePipeline, FinishResult, LoadFailedPipeline,
       FailPipeline, HandlerFault, ResultHandled, ResultThrows, ResultExhausted, RecordResult, Crash,
       Consume, Idle
  <2>4. CASE InsertVersion
    BY <1>0, <2>4 DEF InsertVersion, Handling, HandlingResult
  <2>5. CASE TakeResult
    <3>1. buffer # <<>> /\ loop'.at = Head(buffer) /\ versions' = versions
      BY <2>5 DEF TakeResult, Consume, Nats!Take
    <3>2. 1 \in DOMAIN buffer /\ Head(buffer) = buffer[1]
      BY <1>0, <3>1, Waiting
    <3> QED BY <1>0, <3>1, <3>2 DEF VersionsFollowDeliveries
  <2>6. CASE Start \/ AckResult \/ TermResult
    BY <2>6, AtWork DEF Start, AckResult, TermResult, Consume, Nats!Subscribe, Nats!Ack, Nats!Term
  <2> QED BY <2>1, <2>2, <2>3, <2>4, <2>5, <2>6, StepKinds, RequestFrame, OtherFrame
          DEF Query, LoopMove
<1> QED BY <1>1, <1>2, <1>3 DEF VersionsFollowDeliveries

LEMMA HandledStep == ASSUME IInv, [Next]_vars PROVE HandledMeansApplied'
<1>0. /\ Nats!IInv /\ HandledMeansApplied /\ KeysFollowPayloads /\ handler \in HandlingResult
      /\ handled \subseteq Keys \ {Fresh} /\ versions \in [Dispatches -> 0..MaxDeliver]
  BY DEF IInv, TypeOK
<1> DEFINE d == loop.at.msg
<1>1. \A e \in Dispatches : versions[e] > 0 => versions'[e] > 0
  BY VersionsStep
<1>2. \A e \in Dispatches : stream[e] # "unsent" => (e \in named' <=> e \in named)
  BY NamedStays
<1>3. AnonymousApplied => AnonymousApplied'
  BY AnonymousStays
<1>4. ASSUME FinishResult
      PROVE  /\ handled' \subseteq handled \union {handler.key}
             /\ d \in Dispatches /\ versions[d] > 0
             /\ d \in named => handler.key = CorrelationOf(d)
             /\ d \notin named => handler.key = Fresh \/ \E p \in Dispatches : handler.key = MessageOf(p)
  BY <1>0, <1>4, AtWork DEF FinishResult, Handling, MarkHandled, HandledMeansApplied,
     KeysFollowPayloads
<1>5. handled' \subseteq handled \/ FinishResult
  <2>1. CASE Query /\ ~FinishResult
    BY <2>1 DEF Query, Enrich, LoadPipeline, LoadSessionForResult, InsertVersion,
       SaveResultSession, RejectResult, CompletePipeline, LoadFailedPipeline, FailPipeline,
       HandlerFault, HandlerQuery
  <2> QED BY <2>1, StepKinds, RequestFrame, OtherFrame, LoopFrame DEF Crash
<1>6. ASSUME NEW e \in Dispatches, CorrelationOf(e) \in handled' PROVE versions'[e] > 0
  <2>1. CASE CorrelationOf(e) \in handled
    BY <1>0, <1>1, <2>1 DEF HandledMeansApplied
  <2>2. CASE CorrelationOf(e) \notin handled
    <3>1. FinishResult /\ handler.key = CorrelationOf(e)
      BY <1>4, <1>5, <1>6, <2>2
    <3>2. e = d
      BY <1>4, <3>1, AiPipelineAssumption DEF CorrelationOf, MessageOf
    <3> QED BY <1>1, <1>4, <3>1, <3>2
  <2> QED BY <2>1, <2>2
<1>7. ASSUME NEW p \in Dispatches, MessageOf(p) \in handled' PROVE AnonymousApplied'
  <2>1. CASE MessageOf(p) \in handled
    BY <1>0, <1>3, <2>1 DEF HandledMeansApplied
  <2>2. CASE MessageOf(p) \notin handled
    <3>1. FinishResult /\ handler.key = MessageOf(p)
      BY <1>4, <1>5, <1>7, <2>2
    <3>2. d \notin named /\ d \in Dispatches /\ versions[d] > 0
      BY <1>4, <3>1 DEF CorrelationOf, MessageOf
    <3> QED BY <1>3, <3>2 DEF AnonymousApplied
  <2> QED BY <2>1, <2>2
<1>8. handler'.step \in {"saveSession", "savePipeline", "finish"} => versions'[loop'.at.msg] > 0
  <2>1. CASE UNCHANGED <<handler, loop>>
    BY <1>0, <1>1, <2>1, AtWork DEF HandledMeansApplied
  <2>2. CASE InsertVersion
    <3>1. loop' = loop /\ d \in Dispatches
      BY <2>2, QueryFrame, AtWork DEF Query, InsertVersion, Handling
    <3>2. versions[d] \in Nat /\ versions'[d] = versions[d] + 1
      BY <1>0, <2>2, <3>1, AiPipelineAssumption DEF InsertVersion
    <3> QED BY <3>1, <3>2
  <2>3. CASE SaveResultSession \/ CompletePipeline
    <3>1. loop' = loop /\ handler.step \in {"saveSession", "savePipeline"} /\ d \in Dispatches
      BY <2>3, QueryFrame, AtWork DEF Query, SaveResultSession, CompletePipeline, Handling
    <3> QED BY <1>0, <1>1, <3>1 DEF HandledMeansApplied
  <2>4. CASE \/ Enrich \/ LoadPipeline \/ LoadSessionForResult \/ RejectResult \/ FinishResult
             \/ LoadFailedPipeline \/ FailPipeline \/ HandlerFault
             \/ TakeResult \/ ResultHandled \/ ResultThrows \/ ResultExhausted \/ RecordResult \/ Crash
    BY <2>4 DEF Enrich, LoadPipeline, LoadSessionForResult, RejectResult, FinishResult,
       LoadFailedPipeline, FailPipeline, HandlerFault, TakeResult, ResultHandled, ResultThrows,
       ResultExhausted, RecordResult, Crash, Consume, Idle
  <2>5. CASE Start \/ AckResult \/ TermResult
    BY <2>5, AtWork DEF Start, AckResult, TermResult, Consume, Nats!Subscribe, Nats!Ack, Nats!Term
  <2> QED BY <2>1, <2>2, <2>3, <2>4, <2>5, StepKinds, RequestFrame, OtherFrame DEF Query, LoopMove
<1>9. handler'.step = "return" \/ loop'.state = "handled" =>
          versions'[loop'.at.msg] > 0 \/ (loop'.at.msg \notin named' /\ AnonymousApplied')
  <2> DEFINE Seen == versions[d] > 0 \/ (d \notin named /\ AnonymousApplied)
  <2>0. Seen /\ d \in Dispatches /\ stream[d] # "unsent"
        => versions'[d] > 0 \/ (d \notin named' /\ AnonymousApplied')
    BY <1>1, <1>2, <1>3
  <2>1. CASE UNCHANGED <<handler, loop>>
    <3>1. ASSUME handler'.step = "return" \/ loop'.state = "handled"
          PROVE  Seen /\ d \in Dispatches /\ stream[d] # "unsent"
      BY <1>0, <2>1, <3>1, AtWork, InHand DEF HandledMeansApplied
    <3> HIDE DEF Seen
    <3> QED BY <2>0, <2>1, <3>1
  <2>2. CASE Enrich
    <3>1. loop' = loop /\ loop.state = "handling" /\ d \in Dispatches /\ stream[d] # "unsent"
      BY <2>2, QueryFrame, AtWork DEF Query, Enrich, Handling
    <3>2. ASSUME handler'.step = "return" PROVE Seen
      <4>1. KeyOf(d) \in handled /\ Last(order) \in Dispatches
        BY <2>2, <3>1, <3>2, TakenFor DEF Enrich
      <4>2. CASE d \in named
        BY <1>0, <3>1, <4>1, <4>2 DEF KeyOf, HandledMeansApplied
      <4>3. CASE d \notin named
        BY <1>0, <3>1, <4>1, <4>3 DEF KeyOf, HandledMeansApplied
      <4> QED BY <4>2, <4>3
    <3>3. loop'.state # "handled"
      BY <3>1
    <3> HIDE DEF Seen
    <3> QED BY <2>0, <3>1, <3>2, <3>3
  <2>3. CASE FinishResult
    <3>1. loop' = loop /\ d \in Dispatches
      BY <2>3, QueryFrame, AtWork DEF Query, FinishResult, Handling
    <3> QED BY <1>1, <1>4, <2>3, <3>1
  <2>4. CASE \/ LoadPipeline \/ LoadSessionForResult \/ InsertVersion \/ SaveResultSession
             \/ RejectResult \/ CompletePipeline \/ LoadFailedPipeline \/ FailPipeline \/ HandlerFault
    <3>1. loop' = loop /\ loop.state \in {"handling", "exhausting"}
      BY <2>4, QueryFrame, AtWork DEF Query, LoadPipeline, LoadSessionForResult, InsertVersion,
         SaveResultSession, RejectResult, CompletePipeline, LoadFailedPipeline, FailPipeline,
         HandlerFault, Handling
    <3>2. handler'.step # "return"
      <4>1. CASE InsertVersion
        BY <1>0, <4>1 DEF InsertVersion, Handling, HandlingResult
      <4>2. CASE ~InsertVersion
        BY <2>4, <4>2 DEF LoadPipeline, LoadSessionForResult, SaveResultSession, RejectResult,
           CompletePipeline, LoadFailedPipeline, FailPipeline, HandlerFault
      <4> QED BY <4>1, <4>2
    <3> QED BY <3>1, <3>2
  <2>5. CASE ResultHandled
    <3>1. handler.step = "return" /\ loop'.at = loop.at
      BY <1>0, <2>5, AtWork DEF ResultHandled, Consume, Handling, Nats!HandlerReturns,
         Nats!IInv, Nats!TypeOK, Nats!Busy
    <3>2. Seen /\ d \in Dispatches /\ stream[d] # "unsent"
      BY <1>0, <3>1, AtWork DEF HandledMeansApplied
    <3> HIDE DEF Seen
    <3> QED BY <2>0, <3>1, <3>2
  <2>6. CASE TakeResult \/ ResultThrows
    BY <2>6 DEF TakeResult, ResultThrows, Consume, Nats!Take, Nats!HandlerThrows, Idle
  <2>7. CASE ResultExhausted \/ RecordResult
    <3>1. loop \in [state : Nats!Busy, at : Nats!Deliveries]
      BY <1>0, <2>7 DEF ResultExhausted, RecordResult, Consume, Nats!HandlerThrowsLast,
         Nats!RecordFailure, Nats!IInv, Nats!TypeOK, Nats!Busy
    <3> QED BY <2>7, <3>1 DEF ResultExhausted, RecordResult, Consume, Nats!HandlerThrowsLast,
               Nats!RecordFailure, Idle
  <2>8. CASE Start \/ AckResult \/ TermResult
    BY <2>8, AtWork DEF Start, AckResult, TermResult, Consume, Nats!Subscribe, Nats!Ack, Nats!Term
  <2>9. CASE Crash
    BY <2>9 DEF Crash, Nats!Crash, Idle
  <2> QED BY <2>1, <2>2, <2>3, <2>4, <2>5, <2>6, <2>7, <2>8, <2>9, StepKinds, RequestFrame,
             OtherFrame DEF Query, LoopMove
<1>10. ASSUME NEW e \in Dispatches, stream'[e] = "acked"
       PROVE  versions'[e] > 0 \/ (e \notin named' /\ AnonymousApplied')
  <2>1. stream[e] # "unsent" /\ (versions[e] > 0 \/ (e \notin named /\ AnonymousApplied))
    BY <1>0, <1>10, ResultStates, InHand DEF HandledMeansApplied
  <2> QED BY <1>1, <1>2, <1>3, <2>1
<1>11. ASSUME NEW e \in Dispatches, pipelines'[e].status = "COMPLETED"
       PROVE  versions'[e] > 0 \/ AnonymousApplied'
  <2>1. CASE pipelines[e].status = "COMPLETED"
    BY <1>0, <1>1, <1>3, <2>1 DEF HandledMeansApplied
  <2>2. CASE handler.step = "savePipeline" /\ e = handler.of
    <3>1. d \in Dispatches /\ versions[d] > 0 /\ (d \in named => e = d)
      BY <1>0, <2>2, AtWork DEF HandledMeansApplied, KeysFollowPayloads, Working, Loaded
    <3>2. d \notin named => AnonymousApplied
      BY <3>1 DEF AnonymousApplied
    <3> QED BY <1>1, <1>3, <3>1, <3>2
  <2> QED BY <1>11, <2>1, <2>2, PipelineSteps
<1> QED BY <1>6, <1>7, <1>8, <1>9, <1>10, <1>11 DEF HandledMeansApplied

\* A request that dispatches moves on or ends, and ended it stays.
LEMMA DispatchSteps ==
    ASSUME IInv, [Next]_vars, NEW d \in Dispatches
    PROVE  /\ dispatch'[d].step \in {"idle", "posted", "loaded"} =>
                 dispatch[d].step \in {"idle", "posted", "loaded"} /\ ~CreatePipeline(d)
           /\ dispatch[d].step = "ended" => dispatch'[d].step = "ended"
<1>0. dispatch \in [Dispatches -> Dispatching]
  BY DEF IInv, TypeOK
<1>1. ASSUME NEW e \in Dispatches, Post(e) \/ Dispatch(e)
      PROVE  /\ dispatch'[d].step \in {"idle", "posted", "loaded"} =>
                   dispatch[d].step \in {"idle", "posted", "loaded"} /\ ~CreatePipeline(d)
             /\ dispatch[d].step = "ended" => dispatch'[d].step = "ended"
  <2>1. CASE Post(e) \/ LoadForDispatch(e) \/ PublishFails(e) \/ MarkProcessing(e)
    BY <1>0, <2>1 DEF Post, LoadForDispatch, PublishFails, MarkProcessing, CreatePipeline, Ended
  <2>2. CASE CreatePipeline(e) \/ PublishTask(e) \/ SaveNatsId(e)
    <3>1. dispatch[e] \in [step : {"loaded", "created", "published", "saved"}, session : Session]
      BY <2>2, DispatchType DEF CreatePipeline, PublishTask, SaveNatsId, IInv
    <3>2. dispatch'[e].step \in {"created", "published", "saved"} /\ dispatch[e].step # "ended"
          /\ (e # d => dispatch'[d] = dispatch[d])
      BY <1>0, <2>2, <3>1 DEF CreatePipeline, PublishTask, SaveNatsId
    <3>3. CreatePipeline(d) => dispatch'[d].step = "created"
      <4>1. ASSUME CreatePipeline(d) PROVE dispatch'[d].step = "created"
        <5>1. dispatch[d] \in [step : {"loaded", "created", "published", "saved"}, session : Session]
          BY <4>1, DispatchType DEF CreatePipeline, IInv
        <5> QED BY <1>0, <4>1, <5>1 DEF CreatePipeline
      <4> QED BY <4>1
    <3> QED BY <3>2, <3>3
  <2> QED BY <1>1, <2>1, <2>2 DEF Dispatch
<1>2. CASE dispatch' = dispatch
  <2>1. ~CreatePipeline(d)
    <3>1. ASSUME CreatePipeline(d) PROVE FALSE
      <4>1. dispatch[d] \in [step : {"loaded", "created", "published", "saved"}, session : Session]
            /\ dispatch[d].step = "loaded"
        BY <3>1, DispatchType DEF CreatePipeline, IInv
      <4>2. dispatch'[d].step = "created"
        BY <1>0, <3>1, <4>1 DEF CreatePipeline
      <4> QED BY <1>2, <4>1, <4>2
    <3> QED BY <3>1
  <2> QED BY <1>2, <2>1
<1>3. CASE Crash
  <2>1. dispatch'[d] = IF dispatch[d] = Idle THEN Idle ELSE Ended
    BY <1>3 DEF Crash
  <2>2. UNCHANGED order /\ order \in Seq(Dispatches)
    BY <1>3 DEF Crash, IInv, TypeOK
  <2>3. ~CreatePipeline(d)
    BY <2>2 DEF CreatePipeline
  <2> QED BY <2>1, <2>3 DEF Idle, Ended
<1>4. ASSUME NEW e \in Dispatches, AiAnswers(e) \/ DeliverResult(e) \/ ResultAckWaitExpires(e)
      PROVE  dispatch' = dispatch
  BY <1>4 DEF AiAnswers, DeliverResult, ResultAckWaitExpires, Consume, taskVars
<1> QED BY <1>1, <1>2, <1>3, <1>4, StepKinds, OtherFrame, QueryFrame, LoopFrame

\* What becomes of the row of a pipeline.
LEMMA RowSteps ==
    ASSUME IInv, [Next]_vars, NEW d \in Dispatches
    PROVE  \/ pipelines'[d] = pipelines[d]
           \/ CreatePipeline(d) \/ SaveNatsId(d)
           \/ CompletePipeline /\ d = handler.of
           \/ FailPipeline /\ d = loop.at.msg
           \/ pipelines[d] # NoPipeline /\ pipelines'[d] = [pipelines[d] EXCEPT !.archived = TRUE]
<1>0. pipelines \in [Dispatches -> Pipeline]
  BY DEF IInv, TypeOK
<1>1. ASSUME NEW e \in Dispatches,
             \/ Post(e) \/ Dispatch(e) \/ AiAnswers(e) \/ DeliverResult(e) \/ ResultAckWaitExpires(e)
      PROVE  pipelines'[d] = pipelines[d] \/ CreatePipeline(d) \/ SaveNatsId(d)
  <2>1. CASE CreatePipeline(e) \/ SaveNatsId(e)
    BY <1>0, <2>1 DEF CreatePipeline, SaveNatsId
  <2>2. CASE ~CreatePipeline(e) /\ ~SaveNatsId(e)
    BY <1>1, <2>2 DEF Post, Dispatch, LoadForDispatch, PublishTask, PublishFails, MarkProcessing,
       AiAnswers, DeliverResult, ResultAckWaitExpires, Consume, taskVars
  <2> QED BY <2>1, <2>2
<1>2. CASE Query
  <2>1. CASE CompletePipeline
    BY <1>0, <2>1 DEF CompletePipeline
  <2>2. CASE FailPipeline
    BY <1>0, <2>2 DEF FailPipeline
  <2>3. CASE ~CompletePipeline /\ ~FailPipeline
    BY <1>2, <2>3 DEF Query, Enrich, LoadPipeline, LoadSessionForResult, InsertVersion,
       SaveResultSession, RejectResult, FinishResult, LoadFailedPipeline, HandlerFault,
       HandlerQuery, taskVars
  <2> QED BY <2>1, <2>2, <2>3
<1>3. ASSUME NEW o \in Ops, Op(o)
      PROVE  \/ pipelines'[d] = pipelines[d]
             \/ pipelines[d] # NoPipeline /\ pipelines'[d] = [pipelines[d] EXCEPT !.archived = TRUE]
  <2>1. CASE ArchivePipelines(o)
    BY <2>1 DEF ArchivePipelines
  <2>2. CASE ~ArchivePipelines(o)
    BY <1>3, <2>2 DEF Op, LoadForOp, UpdateMode, Finalize, Archive, OverrideStatus, OpSaves, taskVars
  <2> QED BY <2>1, <2>2
<1>4. CASE SkipDivergence \/ LoadForDivergence \/ NeedsReconciliation \/ UNCHANGED vars \/ Crash
  BY <1>4 DEF SkipDivergence, LoadForDivergence, NeedsReconciliation, DivergenceQuery, vars, Crash,
     taskVars
<1> QED BY <1>1, <1>2, <1>3, <1>4, StepKinds, LoopFrame

\* The handlers write rows that exist, and a request that has created its own.
LEMMA RowsWritten ==
    ASSUME IInv, [Next]_vars, NEW d \in Dispatches,
           \/ SaveNatsId(d)
           \/ CompletePipeline /\ d = handler.of
           \/ FailPipeline /\ d = loop.at.msg
    PROVE  pipelines[d].status # "none"
<1>1. CASE SaveNatsId(d)
  BY <1>1 DEF SaveNatsId, IInv, RowsExist
<1>2. CASE CompletePipeline /\ d = handler.of
  BY <1>2 DEF CompletePipeline, Handling, IInv, RowsExist, Working, Loaded
<1>3. CASE FailPipeline /\ d = loop.at.msg
  <2>1. stream[d] # "unsent"
    BY <1>3, AtWork DEF FailPipeline, Handling
  <2> QED BY <2>1 DEF IInv, RowsExist
<1> QED BY <1>1, <1>2, <1>3

LEMMA OrderSteps ==
    ASSUME IInv, [Next]_vars
    PROVE  \/ order' = order /\ \A e \in Dispatches : ~CreatePipeline(e)
           \/ \E e \in Dispatches : CreatePipeline(e)
<1>1. ASSUME NEW e \in Dispatches, ~CreatePipeline(e),
             Post(e) \/ Dispatch(e) \/ AiAnswers(e) \/ DeliverResult(e) \/ ResultAckWaitExpires(e)
      PROVE  order' = order
  BY <1>1 DEF Post, Dispatch, LoadForDispatch, PublishTask, PublishFails, SaveNatsId,
     MarkProcessing, AiAnswers, DeliverResult, ResultAckWaitExpires, Consume, taskVars
<1>2. (\E e \in Dispatches : CreatePipeline(e)) \/ order' = order
  BY <1>1, StepKinds, OtherFrame, QueryFrame, LoopFrame DEF Crash
<1> QED BY <1>2

LEMMA DispatchesInOrderStep == ASSUME IInv, [Next]_vars PROVE DispatchesInOrder'
<1>0. DispatchesInOrder /\ order \in Seq(Dispatches) /\ pipelines \in [Dispatches -> Pipeline]
  BY DEF IInv, TypeOK
<1>1. ASSUME NEW d \in Dispatches, dispatch'[d].step \in {"idle", "posted", "loaded"}
      PROVE  pipelines'[d] = NoPipeline
  <2>1. dispatch[d].step \in {"idle", "posted", "loaded"} /\ ~CreatePipeline(d)
    BY <1>1, DispatchSteps
  <2>2. pipelines[d] = NoPipeline /\ pipelines[d].status = "none"
    BY <1>0, <2>1 DEF DispatchesInOrder, NoPipeline
  <2> QED BY <2>1, <2>2, RowSteps, RowsWritten
<1>2. ASSUME NEW d \in Dispatches
      PROVE  pipelines'[d].status # "none" <=> \E i \in DOMAIN order' : order'[i] = d
  <2>1. CASE CreatePipeline(d)
    <3>1. order' = Append(order, d) /\ pipelines'[d].status = "PENDING"
      BY <1>0, <2>1 DEF CreatePipeline, NoPipeline
    <3>2. Len(order) + 1 \in DOMAIN order' /\ order'[Len(order) + 1] = d
      BY <1>0, <3>1
    <3> QED BY <3>1, <3>2
  <2>2. ASSUME NEW e \in Dispatches, CreatePipeline(e), e # d
        PROVE  pipelines'[d].status # "none" <=> \E i \in DOMAIN order' : order'[i] = d
    <3>1. order' = Append(order, e) /\ pipelines'[d] = pipelines[d]
      BY <1>0, <2>2 DEF CreatePipeline
    <3>2. \A i \in DOMAIN order : i \in DOMAIN order' /\ order'[i] = order[i]
      BY <1>0, <2>2, <3>1
    <3>3. \A i \in DOMAIN order' : order'[i] = e \/ (i \in DOMAIN order /\ order'[i] = order[i])
      BY <1>0, <2>2, <3>1
    <3>4. (\E i \in DOMAIN order : order[i] = d) <=> \E i \in DOMAIN order' : order'[i] = d
      BY <2>2, <3>2, <3>3
    <3> QED BY <1>0, <3>1, <3>4 DEF DispatchesInOrder
  <2>3. CASE order' = order /\ ~CreatePipeline(d)
    <3>1. pipelines'[d].status # "none" <=> pipelines[d].status # "none"
      <4>1. CASE pipelines'[d].status = pipelines[d].status
        BY <4>1
      <4>2. CASE pipelines'[d].status # pipelines[d].status
        <5>1. pipelines'[d].status \in {"PENDING", "COMPLETED", "FAILED"}
              /\ \/ SaveNatsId(d)
                 \/ CompletePipeline /\ d = handler.of
                 \/ FailPipeline /\ d = loop.at.msg
          BY <2>3, <4>2, PipelineSteps
        <5> QED BY <5>1, RowsWritten
      <4> QED BY <4>1, <4>2
    <3> QED BY <1>0, <2>3, <3>1 DEF DispatchesInOrder
  <2> QED BY <2>1, <2>2, <2>3, OrderSteps
<1>3. ASSUME SlowAi, NEW d \in Dispatches, stream'[d] # "unsent" PROVE dispatch'[d].step = "ended"
  <2>1. dispatch[d].step = "ended"
    BY <1>0, <1>3, ResultStates DEF DispatchesInOrder, AiAnswers
  <2> QED BY <2>1, DispatchSteps
<1> QED BY <1>1, <1>2, <1>3 DEF DispatchesInOrder

\* Every pipeline of a result or of a dispatch on its way has a row, for good.
LEMMA RowsStep == ASSUME IInv, [Next]_vars PROVE RowsExist'
<1>0. /\ RowsExist /\ handler \in HandlingResult
      /\ dispatch \in [Dispatches -> Dispatching]
  BY DEF IInv, TypeOK
<1>1. \A d \in Dispatches : pipelines[d].status # "none" => pipelines'[d].status # "none"
  BY PipelineSteps
<1>2. ASSUME NEW d \in Dispatches
      PROVE  \/ d \in tasks'
             \/ stream'[d] # "unsent"
             \/ dispatch'[d].step \in {"created", "published", "saved"}
             => \/ d \in tasks
                \/ stream[d] # "unsent"
                \/ dispatch[d].step \in {"created", "published", "saved"}
                \/ pipelines'[d].status # "none"
  <2>1. stream'[d] # "unsent" => stream[d] # "unsent" \/ d \in tasks
    BY ResultStates DEF AiAnswers
  <2>2. CASE UNCHANGED <<dispatch, tasks>>
    BY <2>1, <2>2
  <2>3. ASSUME NEW e \in Dispatches, Post(e) \/ Dispatch(e) PROVE <1>2!2
    <3>1. CASE Post(e) \/ LoadForDispatch(e)
      BY <1>0, <2>1, <3>1 DEF Post, LoadForDispatch
    <3>2. CASE CreatePipeline(e)
      <4>1. d = e => pipelines'[d].status = "PENDING"
        BY <3>2 DEF CreatePipeline, IInv, TypeOK, NoPipeline
      <4>2. d # e => dispatch'[d] = dispatch[d]
        BY <1>0, <3>2 DEF CreatePipeline
      <4>3. tasks' = tasks
        BY <3>2 DEF CreatePipeline
      <4> QED BY <2>1, <4>1, <4>2, <4>3
    <3>3. CASE PublishTask(e) \/ PublishFails(e)
      <4>1. /\ d # e => dispatch'[d] = dispatch[d]
            /\ dispatch[e].step = "created"
            /\ tasks' \subseteq tasks \union {e}
        BY <1>0, <3>3 DEF PublishTask, PublishFails
      <4> QED BY <2>1, <4>1
    <3>4. CASE SaveNatsId(e) \/ MarkProcessing(e)
      <4>1. /\ d # e => dispatch'[d] = dispatch[d]
            /\ dispatch[e].step \in {"published", "saved"}
            /\ tasks' = tasks
        BY <1>0, <3>4 DEF SaveNatsId, MarkProcessing
      <4> QED BY <2>1, <4>1
    <3> QED BY <2>3, <3>1, <3>2, <3>3, <3>4 DEF Dispatch
  <2>4. ASSUME NEW e \in Dispatches, AiAnswers(e) \/ DeliverResult(e) \/ ResultAckWaitExpires(e)
        PROVE  dispatch' = dispatch /\ tasks' \subseteq tasks
    BY <2>4 DEF AiAnswers, DeliverResult, ResultAckWaitExpires, Consume, taskVars
  <2>5. CASE Query
    BY <2>2, <2>5 DEF Query, Enrich, LoadPipeline, LoadSessionForResult, InsertVersion,
       SaveResultSession, RejectResult, CompletePipeline, FinishResult, LoadFailedPipeline,
       FailPipeline, HandlerFault, HandlerQuery, taskVars
  <2>6. CASE LoopMove
    BY <2>2, <2>6 DEF LoopMove, Start, TakeResult, ResultHandled, AckResult, ResultThrows,
       ResultExhausted, RecordResult, TermResult, Consume, taskVars
  <2>7. CASE SkipDivergence \/ LoadForDivergence \/ NeedsReconciliation \/ UNCHANGED vars
    BY <2>2, <2>7 DEF SkipDivergence, LoadForDivergence, NeedsReconciliation, DivergenceQuery,
       taskVars, vars
  <2>8. ASSUME NEW o \in Ops, Op(o) PROVE UNCHANGED <<dispatch, tasks>>
    BY <2>8 DEF Op, LoadForOp, UpdateMode, Finalize, Archive, ArchivePipelines, OverrideStatus,
       OpSaves, taskVars
  <2>9. CASE Crash
    BY <2>1, <2>9 DEF Crash, Idle, Ended
  <2> QED BY <2>1, <2>2, <2>3, <2>4, <2>5, <2>6, <2>7, <2>8, <2>9, StepKinds
<1>3. \A d \in Dispatches :
         \/ d \in tasks'
         \/ stream'[d] # "unsent"
         \/ dispatch'[d].step \in {"created", "published", "saved"}
         => pipelines'[d].status # "none"
  BY <1>0, <1>1, <1>2 DEF RowsExist
<1>4. handler'.step \in Working => pipelines'[handler'.of].status # "none"
  <2>1. ASSUME handler'.of = handler.of, handler.step \in Working
        PROVE  pipelines'[handler'.of].status # "none"
    <3>1. handler.of \in Dispatches /\ pipelines[handler.of].status # "none"
      BY <1>0, <2>1, HandlerType DEF RowsExist
    <3> QED BY <1>1, <2>1, <3>1
  <2>2. CASE handler' = handler
    BY <2>1, <2>2
  <2>3. CASE Enrich
    <3>1. loop.state = "handling" /\ pipelines' = pipelines
      BY <2>3, AtWork DEF Enrich, Handling, HandlerQuery, taskVars
    <3>2. handler'.step \in Working => handler'.of = PipelineOf(loop.at.msg)
      BY <2>3 DEF Enrich, Working, Loaded
    <3> QED BY <3>1, <3>2, TakenFor
  <2>4. CASE LoadPipeline \/ LoadSessionForResult \/ InsertVersion \/ SaveResultSession
    <3>1. handler.step \in Working /\ handler'.of = handler.of
      BY <1>0, <2>4 DEF LoadPipeline, LoadSessionForResult, InsertVersion, SaveResultSession, Handling,
         HandlingResult, Working, Loaded
    <3> QED BY <2>1, <3>1
  <2>5. CASE \/ RejectResult \/ CompletePipeline \/ FinishResult \/ LoadFailedPipeline
             \/ FailPipeline \/ HandlerFault
    BY <2>5 DEF RejectResult, CompletePipeline, FinishResult, LoadFailedPipeline, FailPipeline,
       HandlerFault, Working, Loaded
  <2>6. CASE LoopMove
    BY <2>2, <2>6 DEF LoopMove, Start, TakeResult, ResultHandled, AckResult, ResultThrows,
       ResultExhausted, RecordResult, TermResult, Consume, Idle, Working, Loaded
  <2>7. CASE Crash
    BY <2>7 DEF Crash, Idle, Working, Loaded
  <2> QED BY <2>2, <2>3, <2>4, <2>5, <2>6, <2>7, RequestFrame, OtherFrame, StepKinds DEF Query
<1>5. handler'.step \in Loaded \union {"saveFailed"} => handler'.pipeline.status # "none"
  <2>1. CASE handler' = handler
    BY <1>0, <2>1 DEF RowsExist
  <2>2. CASE LoadPipeline
    <3>1. pipelines[handler.of].status # "none" /\ handler'.pipeline = pipelines[handler.of]
      BY <1>0, <2>2 DEF LoadPipeline, Handling, RowsExist, Working
    <3> QED BY <3>1
  <2>3. CASE LoadFailedPipeline
    <3>1. loop.at.msg \in Dispatches /\ stream[loop.at.msg] # "unsent"
      BY <2>3, AtWork DEF LoadFailedPipeline, Handling
    <3>2. handler'.pipeline = pipelines[loop.at.msg]
      BY <2>3 DEF LoadFailedPipeline
    <3> QED BY <1>0, <3>1, <3>2 DEF RowsExist
  <2>4. CASE LoadSessionForResult \/ InsertVersion \/ SaveResultSession
    <3>1. /\ handler.step \in {"loadSession", "insert", "saveSession"}
          /\ handler'.pipeline = handler.pipeline
      BY <1>0, <2>4 DEF LoadSessionForResult, InsertVersion, SaveResultSession, Handling, HandlingResult
    <3> QED BY <1>0, <3>1 DEF RowsExist, Loaded
  <2>5. CASE Enrich \/ RejectResult \/ CompletePipeline \/ FinishResult \/ FailPipeline \/ HandlerFault
    BY <2>5 DEF Enrich, RejectResult, CompletePipeline, FinishResult, FailPipeline, HandlerFault, Loaded
  <2>6. CASE LoopMove
    BY <2>1, <2>6 DEF LoopMove, Start, TakeResult, ResultHandled, AckResult, ResultThrows,
       ResultExhausted, RecordResult, TermResult, Consume, Idle, Loaded
  <2>7. CASE Crash
    BY <2>7 DEF Crash, Idle, Loaded
  <2> QED BY <2>1, <2>2, <2>3, <2>4, <2>5, <2>6, <2>7, RequestFrame, OtherFrame, StepKinds DEF Query
<1> QED BY <1>3, <1>4, <1>5 DEF RowsExist

LEMMA HeadStep == ASSUME IInv, [Next]_vars PROVE HeadIsCompared'
<1>0. HeadIsCompared /\ divergences \in Seq(Keys) /\ handler \in HandlingResult
  BY DEF IInv, TypeOK
<1>1. CASE UNCHANGED <<divergences, comparing>>
  BY <1>0, <1>1 DEF HeadIsCompared
<1>2. CASE SkipDivergence \/ NeedsReconciliation \/ Crash
  BY <1>2 DEF SkipDivergence, NeedsReconciliation, Compared, Crash, HeadIsCompared
<1>3. CASE LoadForDivergence
  BY <1>3 DEF LoadForDivergence, HeadIsCompared
<1>4. CASE FinishResult
  <2>1. divergences' # <<>>
    <3>1. handler.key \in Keys
      BY <1>0, <1>4, HandlerType DEF FinishResult, Handling
    <3> QED BY <1>0, <1>4, <3>1 DEF FinishResult, CompareGraphs
  <2> QED BY <2>1 DEF HeadIsCompared
<1>5. CASE Query /\ ~FinishResult
  BY <1>1, <1>5 DEF Query, Enrich, LoadPipeline, LoadSessionForResult, InsertVersion,
     SaveResultSession, RejectResult, CompletePipeline, LoadFailedPipeline, FailPipeline,
     HandlerFault, HandlerQuery, divergenceVars
<1>6. ASSUME NEW o \in Ops, Op(o) PROVE UNCHANGED <<divergences, comparing>>
  BY <1>6 DEF Op, LoadForOp, UpdateMode, Finalize, Archive, ArchivePipelines, OverrideStatus,
     OpSaves, divergenceVars
<1>7. CASE UNCHANGED vars
  BY <1>1, <1>7 DEF vars, divergenceVars
<1> QED BY <1>1, <1>2, <1>3, <1>4, <1>5, <1>6, <1>7, StepKinds, RequestFrame, LoopFrame

\* The awaits between the start of a delivery's work and its end.
LEMMA WorkSteps ==
    ASSUME IInv, [Next]_vars, handler'.step \in Working \union {"finish"}
    PROVE  /\ handled' = handled /\ loop'.at = loop.at /\ loop.state = "handling"
           /\ loop.at.msg \in Dispatches /\ stream[loop.at.msg] # "unsent"
           /\ ~FailPipeline
           /\ \/ handler' = handler /\ ~CompletePipeline
              \/ /\ Enrich /\ handler'.step = "loadPipeline" /\ ~CompletePipeline
                 /\ handler'.of = PipelineOf(loop.at.msg) /\ handler'.key = KeyOf(loop.at.msg)
                 /\ KeyOf(loop.at.msg) \notin handled
              \/ /\ handler.step = "loadPipeline" /\ handler'.step = "loadSession" /\ ~CompletePipeline
                 /\ handler'.of = handler.of /\ handler'.key = handler.key
                 /\ handler'.pipeline = pipelines[handler.of]
              \/ /\ handler.step \in Loaded /\ handler'.step \in Loaded /\ ~CompletePipeline
                 /\ handler'.of = handler.of /\ handler'.key = handler.key
                 /\ handler'.pipeline = handler.pipeline
              \/ /\ CompletePipeline /\ handler.step = "savePipeline" /\ handler'.step = "finish"
                 /\ handler'.key = handler.key
<1> USE DEF Working, Loaded
<1>0. handler \in HandlingResult
  BY DEF IInv, TypeOK
<1>1. ~FailPipeline /\ ~FinishResult
  BY DEF FailPipeline, FinishResult
<1>2. CASE handler' = handler
  <2>1. ~CompletePipeline
    BY <1>2 DEF CompletePipeline, Handling
  <2>2. loop.state = "handling" /\ loop.at.msg \in Dispatches /\ stream[loop.at.msg] # "unsent"
    BY <1>2, AtWork
  <2>3. loop'.at = loop.at /\ handled' = handled
    <3>1. CASE LoopMove
      <4>1. ~Start /\ ~AckResult /\ ~TermResult
        BY <2>2 DEF Start, AckResult, TermResult, Consume, Nats!Subscribe, Nats!Ack, Nats!Term
      <4>2. CASE TakeResult \/ ResultHandled \/ ResultThrows \/ ResultExhausted \/ RecordResult
        BY <4>2 DEF TakeResult, ResultHandled, ResultThrows, ResultExhausted, RecordResult, Consume, Idle
      <4> QED BY <3>1, <4>1, <4>2 DEF LoopMove
    <3>2. CASE Crash
      BY <3>2 DEF Crash, Idle
    <3>3. CASE Query
      BY <1>1, <1>2, <3>3, QueryFrame DEF Query, Enrich, LoadPipeline, LoadSessionForResult,
         InsertVersion, SaveResultSession, RejectResult, CompletePipeline, LoadFailedPipeline,
         HandlerFault, HandlerQuery
    <3> QED BY <3>1, <3>2, <3>3, StepKinds, RequestFrame, OtherFrame
  <2> QED BY <1>1, <1>2, <2>1, <2>2, <2>3
<1>3. CASE handler' # handler
  <2>1. ~LoopMove /\ ~Crash
    BY <1>3 DEF LoopMove, Start, TakeResult, ResultHandled, AckResult, ResultThrows,
       ResultExhausted, RecordResult, TermResult, Crash, Consume, Idle
  <2>2. Query
    BY <1>3, <2>1, StepKinds, RequestFrame, OtherFrame
  <2>3. loop' = loop
    BY <2>2, QueryFrame
  <2>4. CASE Enrich
    <3>1. loop.state = "handling" /\ loop.at.msg \in Dispatches /\ stream[loop.at.msg] # "unsent"
      BY <2>4, AtWork DEF Enrich, Handling
    <3>2. handled' = handled /\ ~CompletePipeline
      BY <2>4 DEF Enrich, HandlerQuery, CompletePipeline, Handling
    <3> QED BY <1>1, <2>3, <2>4, <3>1, <3>2 DEF Enrich
  <2>5. CASE LoadPipeline
    <3>1. loop.state = "handling" /\ loop.at.msg \in Dispatches /\ stream[loop.at.msg] # "unsent"
      BY <2>5, AtWork DEF LoadPipeline, Handling
    <3> QED BY <1>1, <2>3, <2>5, <3>1 DEF LoadPipeline, HandlerQuery, CompletePipeline, Handling
  <2>6. CASE LoadSessionForResult \/ InsertVersion \/ SaveResultSession
    <3>1. loop.state = "handling" /\ loop.at.msg \in Dispatches /\ stream[loop.at.msg] # "unsent"
      BY <2>6, AtWork DEF LoadSessionForResult, InsertVersion, SaveResultSession, Handling
    <3>2. /\ handler.step \in Loaded /\ handler'.step \in Loaded
          /\ handler'.of = handler.of /\ handler'.key = handler.key
          /\ handler'.pipeline = handler.pipeline
      BY <1>0, <2>6 DEF LoadSessionForResult, InsertVersion, SaveResultSession, Handling, HandlingResult
    <3>3. handled' = handled /\ ~CompletePipeline
      BY <2>6 DEF LoadSessionForResult, InsertVersion, SaveResultSession, HandlerQuery,
         CompletePipeline, Handling
    <3> QED BY <1>1, <2>3, <3>1, <3>2, <3>3
  <2>7. CASE CompletePipeline
    <3>1. loop.state = "handling" /\ loop.at.msg \in Dispatches /\ stream[loop.at.msg] # "unsent"
      BY <2>7, AtWork DEF CompletePipeline, Handling
    <3> QED BY <1>1, <2>3, <2>7, <3>1 DEF CompletePipeline, Handling
  <2>8. ~RejectResult /\ ~LoadFailedPipeline /\ ~HandlerFault
    BY DEF RejectResult, LoadFailedPipeline, HandlerFault
  <2> QED BY <1>1, <2>2, <2>4, <2>5, <2>6, <2>7, <2>8 DEF Query
<1> QED BY <1>2, <1>3

\* A saved nats_message_id is lost only to a handler's older copy of the row.
LEMMA NatsIdStays ==
    ASSUME IInv, [Next]_vars, NEW d \in Dispatches, pipelines[d].natsId,
           ~(CompletePipeline /\ d = handler.of), ~(FailPipeline /\ d = loop.at.msg)
    PROVE  pipelines'[d].natsId
<1>0. pipelines \in [Dispatches -> Pipeline] /\ pipelines[d] \in Pipeline
  BY DEF IInv, TypeOK
<1>1. ~CreatePipeline(d)
  BY DEF CreatePipeline, IInv, DispatchesInOrder, NoPipeline
<1>2. CASE SaveNatsId(d)
  BY <1>0, <1>2 DEF SaveNatsId
<1>3. CASE pipelines'[d] = [pipelines[d] EXCEPT !.archived = TRUE]
  BY <1>0, <1>3 DEF Pipeline
<1> QED BY <1>1, <1>2, <1>3, RowSteps

LEMMA KeysStep == ASSUME IInv, TypeOK', [Next]_vars PROVE KeysFollowPayloads'
<1> DEFINE d == loop.at.msg
<1>0. KeysFollowPayloads /\ pipelines \in [Dispatches -> Pipeline] /\ handler \in HandlingResult
  BY DEF IInv, TypeOK
<1>1. ASSUME NEW e \in Dispatches, e \in named' PROVE stream'[e] # "unsent"
  <2>1. CASE e \in named
    BY <1>0, <2>1, ResultStates DEF KeysFollowPayloads
  <2>2. CASE AiAnswers(e)
    BY <2>2, InHand DEF IInv, AiAnswers, Nats!Publish
  <2> QED BY <1>1, <2>1, <2>2, NamedSteps
<1>2. ASSUME handler'.step \in Working \union {"finish"}
      PROVE  /\ handler'.key \notin handled'
             /\ loop'.at.msg \in named' => handler'.key = CorrelationOf(loop'.at.msg)
             /\ handler'.step \in Working =>
                   IF loop'.at.msg \in named' THEN handler'.of = loop'.at.msg
                   ELSE \/ handler'.key = Fresh
                        \/ handler'.key = MessageOf(handler'.of) /\ pipelines'[handler'.of].natsId
             /\ handler'.step \in Loaded /\ loop'.at.msg \notin named' /\ handler'.key # Fresh =>
                   handler'.pipeline.natsId
             /\ handler'.step = "finish" /\ loop'.at.msg \notin named' =>
                   \/ handler'.key = Fresh
                   \/ \E p \in Dispatches : handler'.key = MessageOf(p) /\ pipelines'[p].natsId
  <2>1. /\ handled' = handled /\ loop'.at.msg = d /\ d \in Dispatches /\ ~FailPipeline
        /\ d \in named' <=> d \in named
    BY <1>2, WorkSteps, NamedStays
  <2>2. CASE Enrich /\ handler'.step = "loadPipeline" /\ ~CompletePipeline
             /\ handler'.of = PipelineOf(d) /\ handler'.key = KeyOf(d) /\ KeyOf(d) \notin handled
    <3>1. pipelines' = pipelines
      BY <2>2 DEF Enrich, HandlerQuery, taskVars
    <3>2. CASE d \in named
      BY <2>1, <2>2, <3>2 DEF KeyOf, PipelineOf, Loaded
    <3>3. CASE d \notin named
      <4>1. KeyOf(d) = Fresh \/ (KeyOf(d) = MessageOf(PipelineOf(d)) /\ pipelines[PipelineOf(d)].natsId)
        BY <3>3 DEF KeyOf, PipelineOf
      <4> QED BY <2>1, <2>2, <3>1, <3>3, <4>1 DEF Loaded
    <3> QED BY <3>2, <3>3
  <2>3. CASE /\ handler.step \in Working /\ handler'.step \in Working /\ ~CompletePipeline
             /\ handler'.of = handler.of /\ handler'.key = handler.key
             /\ handler'.step \in Loaded =>
                   \/ handler'.pipeline = pipelines[handler.of]
                   \/ handler.step \in Loaded /\ handler'.pipeline = handler.pipeline
    <3>1. handler.of \in Dispatches
      BY <1>0, <2>3, HandlerType
    <3>2. pipelines[handler.of].natsId => pipelines'[handler.of].natsId
      BY <2>1, <2>3, <3>1, NatsIdStays
    <3>3. handler'.step # "finish"
      BY <2>3 DEF Working, Loaded
    <3>4. /\ handler.key \notin handled
          /\ d \in named => handler.key = CorrelationOf(d) /\ handler.of = d
          /\ d \notin named => \/ handler.key = Fresh
                               \/ handler.key = MessageOf(handler.of) /\ pipelines[handler.of].natsId
          /\ handler.step \in Loaded /\ d \notin named /\ handler.key # Fresh => handler.pipeline.natsId
      BY <1>0, <2>3 DEF KeysFollowPayloads
    <3> HIDE DEF d
    <3> QED BY <2>1, <2>3, <3>2, <3>3, <3>4
  <2>4. CASE handler' = handler /\ ~CompletePipeline /\ handler.step = "finish"
    <3>1. \A p \in Dispatches : pipelines[p].natsId => pipelines'[p].natsId
      BY <2>1, <2>4, NatsIdStays
    <3>2. handler'.step \notin Working /\ handler'.step \notin Loaded
      BY <2>4 DEF Working, Loaded
    <3>3. /\ handler.key \notin handled
          /\ d \in named => handler.key = CorrelationOf(d)
          /\ d \notin named => \/ handler.key = Fresh
                               \/ \E p \in Dispatches : handler.key = MessageOf(p) /\ pipelines[p].natsId
      BY <1>0, <2>4 DEF KeysFollowPayloads
    <3> HIDE DEF d
    <3> QED BY <2>1, <2>4, <3>1, <3>2, <3>3
  <2>5. CASE CompletePipeline /\ handler.step = "savePipeline" /\ handler'.step = "finish"
             /\ handler'.key = handler.key
    <3>1. handler'.step \notin Working /\ handler'.step \notin Loaded
          /\ handler.step \in Working /\ handler.step \in Loaded
      BY <2>5 DEF Working, Loaded
    <3>2. handler.of \in Dispatches /\ handler.pipeline \in Pipeline
      BY <1>0, <3>1, HandlerType
    <3>3. pipelines'[handler.of] = [handler.pipeline EXCEPT !.status = "COMPLETED"]
      BY <1>0, <2>5, <3>2 DEF CompletePipeline
    <3>4. handler.pipeline.natsId => pipelines'[handler.of].natsId
      BY <3>2, <3>3 DEF Pipeline
    <3>5. /\ handler.key \notin handled
          /\ d \in named => handler.key = CorrelationOf(d)
          /\ d \notin named => handler.key = Fresh \/ handler.key = MessageOf(handler.of)
          /\ d \notin named /\ handler.key # Fresh => handler.pipeline.natsId
      BY <1>0, <3>1 DEF KeysFollowPayloads
    <3> HIDE DEF d
    <3> QED BY <2>1, <2>5, <3>1, <3>2, <3>4, <3>5
  <2>6. \/ <2>2!1 \/ <2>3!1 \/ <2>4!1 \/ <2>5!1
    <3>1. handler.step \in Working \union {"finish"} /\ handler' = handler =>
             handler.step \in Working \/ handler.step = "finish"
      OBVIOUS
    <3> QED BY <1>2, <3>1, WorkSteps DEF Working, Loaded
  <2> QED BY <2>2, <2>3, <2>4, <2>5, <2>6
<1>3. \A e \in named' : stream'[e] # "unsent"
  BY <1>1 DEF TypeOK
<1> HIDE DEF d
<1> QED BY <1>2, <1>3 DEF KeysFollowPayloads, Working, Loaded

\* Who records a result in the dead-letter table, and when.
LEMMA RecordSteps ==
    ASSUME IInv, [Next]_vars, NEW d \in Dispatches, dlq'[d] > 0
    PROVE  dlq[d] > 0 \/ (RecordResult /\ handler.step = "record" /\ d = loop.at.msg)
<1>1. CASE RecordResult
  <2>1. handler.step = "record" /\ loop.at.msg \in Dispatches
        /\ dlq' = [dlq EXCEPT ![loop.at.msg] = @ + 1]
    BY <1>1, AtWork DEF RecordResult, Consume, Handling, Nats!RecordFailure
  <2>2. dlq \in [Dispatches -> Nat]
    BY DEF IInv, Nats!IInv, Nats!TypeOK
  <2> QED BY <1>1, <2>1, <2>2
<1>2. dlq' = dlq \/ RecordResult
  <2>1. CASE LoopMove /\ ~RecordResult
    BY <2>1 DEF LoopMove, Start, TakeResult, ResultHandled, AckResult, ResultThrows,
       ResultExhausted, TermResult, Consume, Nats!Subscribe, Nats!Take, Nats!HandlerReturns,
       Nats!Ack, Nats!HandlerThrows, Nats!HandlerThrowsLast, Nats!Term
  <2>2. CASE Crash
    BY <2>2 DEF Crash, Nats!Crash
  <2> QED BY <2>1, <2>2, StepKinds, RequestFrame, OtherFrame, QueryFrame
<1> QED BY <1>1, <1>2

\* A result in the dead-letter table was delivered for the last time.
LEMMA DeadIsOver ==
    ASSUME IInv, NEW d \in Dispatches, dlq[d] > 0
    PROVE  /\ stream[d] # "unsent"
           /\ loop.at.msg = d => loop.state \notin {"handling", "exhausting"}
<1>1. count[d] = MaxDeliver /\ (loop.state \in Nats!Busy /\ loop.at.msg = d => loop.state = "recorded")
  BY DEF IInv, Nats!IInv, Nats!DeadIsLast
<1>2. stream[d] # "unsent"
  BY <1>1, AiPipelineAssumption DEF IInv, Nats!IInv, Nats!CountsMatch
<1> QED BY <1>1, <1>2 DEF Nats!Busy

\* A result on its last await has the pipeline it names FAILED.
LEMMA RecordedFailed ==
    ASSUME IInv, [Next]_vars, SlowAi, handler'.step = "record", loop'.at.msg \in named'
    PROVE  /\ pipelines'[loop'.at.msg].status = "FAILED"
<1> DEFINE d == loop.at.msg
<1>0. handler \in HandlingResult /\ pipelines \in [Dispatches -> Pipeline]
  BY DEF IInv, TypeOK
<1>1. CASE UNCHANGED <<handler, loop>>
  <2>1. d \in Dispatches /\ stream[d] # "unsent" /\ d \in named /\ dispatch[d].step = "ended"
    BY <1>1, AtWork, NamedStays DEF IInv, DispatchesInOrder
  <2>2. pipelines[d].status = "FAILED"
    BY <1>1, <2>1 DEF IInv, FailedBeforeRecorded
  <2>3. ~CreatePipeline(d) /\ ~SaveNatsId(d)
    BY <2>1 DEF CreatePipeline, SaveNatsId
  <2>4. handler.step = "record"
    BY <1>1
  <2> HIDE DEF d
  <2> QED BY <1>1, <2>1, <2>2, <2>3, <2>4, PipelineSteps DEF d
<1>2. CASE FailPipeline
  <2>1. loop' = loop /\ d \in Dispatches /\ handler.step = "saveFailed"
        /\ handler.pipeline \in Pipeline
    BY <1>0, <1>2, QueryFrame, AtWork, HandlerType DEF Query, FailPipeline, Handling
  <2>2. [handler.pipeline EXCEPT !.status = "FAILED"].status = "FAILED"
    BY <2>1 DEF Pipeline
  <2> QED BY <1>0, <1>2, <2>1, <2>2 DEF FailPipeline
<1>3. CASE Query /\ ~FailPipeline
  <2>1. CASE InsertVersion
    BY <1>0, <2>1 DEF InsertVersion, Handling, HandlingResult
  <2>2. CASE ~InsertVersion
    BY <1>3, <2>2 DEF Query, Enrich, LoadPipeline, LoadSessionForResult, SaveResultSession,
       RejectResult, CompletePipeline, FinishResult, LoadFailedPipeline, HandlerFault
  <2> QED BY <2>1, <2>2
<1>4. CASE TakeResult \/ ResultHandled \/ ResultThrows \/ RecordResult \/ Crash
  BY <1>4 DEF TakeResult, ResultHandled, ResultThrows, RecordResult, Crash, Consume, Idle
<1>5. CASE ResultExhausted
  <2>1. d \notin named /\ named' = named /\ loop'.at = loop.at
    <3>1. loop \in [state : Nats!Busy, at : Nats!Deliveries]
      BY <1>5 DEF ResultExhausted, Consume, Nats!HandlerThrowsLast, IInv, Nats!IInv, Nats!TypeOK, Nats!Busy
    <3> QED BY <1>5, <3>1 DEF ResultExhausted, Consume, Nats!HandlerThrowsLast
  <2> QED BY <2>1
<1>6. CASE Start \/ AckResult \/ TermResult
  BY <1>6, AtWork DEF Start, AckResult, TermResult, Consume, Nats!Subscribe, Nats!Ack, Nats!Term
<1> QED BY <1>1, <1>2, <1>3, <1>4, <1>5, <1>6, StepKinds, RequestFrame, OtherFrame DEF LoopMove

LEMMA FailedStep == ASSUME IInv, TypeOK', [Next]_vars PROVE FailedBeforeRecorded'
<1> SUFFICES ASSUME SlowAi, NEW d \in named', dlq'[d] > 0
             PROVE  \/ pipelines'[d].status = "FAILED"
                    \/ pipelines'[d].status = "COMPLETED" /\ AnonymousApplied'
  BY RecordedFailed DEF FailedBeforeRecorded
<1>1. d \in Dispatches
  BY DEF TypeOK
<1>2. CASE RecordResult /\ handler.step = "record" /\ d = loop.at.msg
  <2>1. stream[d] # "unsent" /\ pipelines' = pipelines
    BY <1>2, AtWork, LoopFrame DEF LoopMove
  <2>2. d \in named
    BY <1>1, <2>1, NamedStays
  <2> QED BY <1>2, <2>1, <2>2 DEF IInv, FailedBeforeRecorded
<1>3. CASE dlq[d] > 0
  <2>1. /\ stream[d] # "unsent" /\ d \in named /\ dispatch[d].step = "ended"
        /\ loop.at.msg = d => loop.state \notin {"handling", "exhausting"}
    BY <1>1, <1>3, DeadIsOver, NamedStays DEF IInv, DispatchesInOrder
  <2>2. \/ pipelines[d].status = "FAILED"
        \/ pipelines[d].status = "COMPLETED" /\ AnonymousApplied
    BY <1>3, <2>1 DEF IInv, FailedBeforeRecorded
  <2>3. AnonymousApplied => AnonymousApplied'
    BY AnonymousStays
  <2>4. CASE CompletePipeline /\ handler.step = "savePipeline" /\ d = handler.of
             /\ pipelines'[d].status = "COMPLETED"
    <3>1. /\ loop.state = "handling" /\ loop.at.msg \in Dispatches
          /\ loop.at.msg \in named => d = loop.at.msg
          /\ versions[loop.at.msg] > 0
      BY <2>4, AtWork DEF IInv, KeysFollowPayloads, Working, Loaded, HandledMeansApplied
    <3>2. AnonymousApplied
      BY <2>1, <3>1 DEF AnonymousApplied
    <3> QED BY <2>3, <2>4, <3>2
  <2>5. ~CreatePipeline(d) /\ ~SaveNatsId(d) /\ (FailPipeline => d # loop.at.msg)
    BY <2>1, AtWork DEF CreatePipeline, SaveNatsId, FailPipeline, Handling
  <2> QED BY <1>1, <2>2, <2>3, <2>4, <2>5, PipelineSteps
<1> QED BY <1>1, <1>2, <1>3, RecordSteps

-----------------------------------------------------------------------------
(* What holds in every reachable state                                     *)

LEMMA InitIInv == ASSUME Init PROVE IInv
<1>1. TypeOK /\ Nats!IInv /\ loop.state = "down"
  BY InitTypeOK, NatsIInv DEF Init, Nats!Init
<1>2. HandlerFollowsLoop /\ DOMAIN buffer = {} /\ DOMAIN order = {}
  BY <1>1 DEF Init, Nats!Init, HandlerFollowsLoop, Working, Loaded, Idle
<1>3. /\ \A d \in Dispatches : versions[d] = 0 /\ count[d] = 0 /\ stream[d] = "unsent" /\ dlq[d] = 0
      /\ \A d \in Dispatches : pipelines[d] = NoPipeline /\ dispatch[d] = Idle
      /\ named = {} /\ handled = {} /\ tasks = {} /\ handler = Idle /\ comparing = Idle
  BY DEF Init, Nats!Init
<1>4. VersionsFollowDeliveries
  <2>1. \A d \in Dispatches : versions[d] <= count[d]
    BY <1>3
  <2> QED BY <1>2, <1>3, <2>1 DEF VersionsFollowDeliveries, Idle
<1>5. KeysFollowPayloads /\ HandledMeansApplied
  BY <1>1, <1>3 DEF KeysFollowPayloads, HandledMeansApplied, Working, Loaded, Idle, NoPipeline
<1>6. DispatchesInOrder /\ RowsExist /\ HeadIsCompared /\ FailedBeforeRecorded
  BY <1>2, <1>3 DEF DispatchesInOrder, RowsExist, HeadIsCompared, FailedBeforeRecorded, Working,
     Loaded, Idle, NoPipeline
<1> QED BY <1>1, <1>2, <1>4, <1>5, <1>6 DEF IInv

LEMMA StepIInv == ASSUME IInv, [Next]_vars PROVE IInv'
<1>1. Nats!IInv' /\ Nats!TypeOK' /\ TypeOK /\ HeadIsCompared
  BY NatsIInv DEF IInv, Nats!IInv
<1>2. TypeOK'
  <2>1. CASE \E d \in Dispatches :
                Post(d) \/ Dispatch(d) \/ AiAnswers(d) \/ DeliverResult(d) \/ ResultAckWaitExpires(d)
    BY <1>1, <2>1, DispatchTypeOK, ConsumerTypeOK
  <2>2. CASE Query \/ LoopMove
    BY <1>1, <2>2, ConsumerTypeOK DEF Query, LoopMove, ConsumeResult
  <2> QED BY <1>1, <2>1, <2>2, StepKinds, OthersTypeOK
<1> QED BY <1>1, <1>2, HandlerStep, KeysStep, VersionsFollowStep, HandledStep, DispatchesInOrderStep,
        RowsStep, HeadStep, FailedStep DEF IInv

\* The inductive invariant of the pipeline, whether results name their tasks or
\* not and however tasks overlap.
THEOREM Invariance == Spec => []IInv
<1>1. Init => IInv
  BY InitIInv
<1>2. IInv /\ [Next]_vars => IInv'
  BY StepIInv
<1> QED BY <1>1, <1>2, PTL DEF Spec

-----------------------------------------------------------------------------
(* One task at a time                                                      *)

LEMMA HistorySteps == [HistoryNext]_historyVars => [Next]_vars
BY DEF HistoryNext, historyVars

LEMMA HistoryIInv == HistorySpec => []IInv
<1>1. HistoryInit => IInv
  BY InitIInv DEF HistoryInit
<1>2. IInv /\ [HistoryNext]_historyVars => IInv'
  BY StepIInv, HistorySteps
<1> QED BY <1>1, <1>2, PTL DEF HistorySpec

\* What the history variables say of a step.
LEMMA StillUncrossed ==
    ASSUME HistoryNext, ~crossed'
    PROVE  ~crossed /\ \A d, e \in Dispatches : Open(d)' /\ Open(e)' => d = e
<1>1. ~crossed
  BY Zenon DEF HistoryNext
<1>2. \A d, e \in Dispatches : Open(d)' /\ Open(e)' => d = e
  BY Zenon DEF HistoryNext
<1> QED BY <1>1, <1>2

LEMMA FinishedSteps ==
    ASSUME HistoryNext, NEW d \in finished'
    PROVE  /\ d \in Dispatches /\ crashes' = crashes
           /\ d \in finished \/ (FinishResult /\ handler.key # Fresh /\ loop.at.msg = d)
BY DEF HistoryNext

LEMMA StillCrossed == ASSUME HistoryNext, crossed PROVE crossed'
BY Zenon DEF HistoryNext

\* The server or the process still has to do with a result.
Live(d) == stream[d] \in {"due", "waiting"} \/ Nats!Held(d)

LEMMA LiveSteps ==
    ASSUME IInv, [Next]_vars, NEW d \in Dispatches, Live(d)'
    PROVE  Live(d) \/ AiAnswers(d)
<1> USE DEF Live, Nats!Held
<1>0. /\ stream \in [Dispatches -> Nats!StreamStates] /\ buffer \in Seq(Nats!Deliveries)
      /\ Nats!TypeOK
  BY InHand, Waiting DEF IInv, Nats!IInv
<1>1. CASE UNCHANGED <<stream, buffer, loop>>
  BY <1>1
<1>2. ASSUME NEW e \in Dispatches, AiAnswers(e) PROVE Live(d) \/ AiAnswers(d)
  <2>1. CASE e # d
    BY <1>0, <1>2, <2>1 DEF AiAnswers, Nats!Publish
  <2> QED BY <1>2, <2>1
<1>3. ASSUME NEW e \in Dispatches, DeliverResult(e) PROVE Live(d)
  <2>1. /\ stream[e] = "due" /\ stream' = [stream EXCEPT ![e] = "waiting"] /\ loop' = loop
        /\ buffer' = Append(buffer, [msg |-> e, count |-> count[e] + 1])
    BY <1>3 DEF DeliverResult, Consume, Nats!Deliver
  <2>2. CASE d = e
    BY <2>1, <2>2
  <2>3. CASE d # e
    <3>1. \A i \in DOMAIN buffer' : buffer'[i].msg = d => i \in DOMAIN buffer /\ buffer[i].msg = d
      BY <1>0, <2>1, <2>3
    <3> QED BY <1>0, <2>1, <2>3, <3>1
  <2> QED BY <2>2, <2>3
<1>4. ASSUME NEW e \in Dispatches, ResultAckWaitExpires(e) PROVE Live(d)
  BY <1>0, <1>4 DEF ResultAckWaitExpires, Consume, Nats!AckWaitExpires
<1>5. ASSUME NEW e \in Dispatches, Post(e) \/ Dispatch(e) PROVE UNCHANGED <<stream, buffer, loop>>
  BY <1>5 DEF Post, Dispatch, LoadForDispatch, CreatePipeline, PublishTask, PublishFails, SaveNatsId,
     MarkProcessing, natsVars
<1>6. CASE TakeResult
  <2>1. /\ buffer # <<>> /\ buffer' = Tail(buffer) /\ loop'.at = Head(buffer) /\ stream' = stream
    BY <1>6 DEF TakeResult, Consume, Nats!Take
  <2>2. 1 \in DOMAIN buffer /\ Head(buffer) = buffer[1]
    BY <1>0, <2>1
  <2>3. \A i \in DOMAIN buffer' : i + 1 \in DOMAIN buffer /\ buffer'[i] = buffer[i + 1]
    BY <1>0, <2>1
  <2> QED BY <2>1, <2>2, <2>3
<1>7. CASE ResultHandled \/ ResultExhausted \/ RecordResult
  <2>1. /\ UNCHANGED <<stream, buffer>> /\ loop.state \in Nats!Busy
        /\ loop'.state \in Nats!Busy => loop'.at = loop.at
    BY <1>0, <1>7 DEF ResultHandled, ResultExhausted, RecordResult, Consume, Nats!HandlerReturns,
       Nats!HandlerThrowsLast, Nats!RecordFailure, Nats!TypeOK, Nats!Busy
  <2> QED BY <2>1
<1>8. CASE AckResult \/ TermResult \/ ResultThrows
  <2>1. loop.state \in Nats!Busy /\ buffer' = buffer /\ loop'.state = "idle"
    BY <1>8 DEF AckResult, TermResult, ResultThrows, Consume, Nats!Ack, Nats!Term, Nats!HandlerThrows,
       Nats!Busy
  <2>2. stream'[d] \in {"due", "waiting"} => stream[d] \in {"due", "waiting"}
    <3>1. CASE AckResult
      BY <1>0, <3>1 DEF AckResult, Consume, Nats!Ack, Nats!Settle
    <3>2. CASE TermResult
      BY <1>0, <3>2 DEF TermResult, Consume, Nats!Term, Nats!Settle
    <3>3. CASE ResultThrows
      BY <1>0, <3>3 DEF ResultThrows, Consume, Nats!HandlerThrows, Nats!Nak
    <3> QED BY <1>8, <3>1, <3>2, <3>3
  <2> QED BY <2>1, <2>2 DEF Nats!Busy
<1>9. CASE Start
  BY <1>9 DEF Start, Consume, Nats!Subscribe, Nats!Busy
<1>10. CASE Crash
  BY <1>10 DEF Crash, Nats!Crash, Nats!Busy
<1> QED BY <1>1, <1>2, <1>3, <1>4, <1>5, <1>6, <1>7, <1>8, <1>9, <1>10, StepKinds, OtherFrame,
           QueryFrame DEF LoopMove

\* A task opens when its pipeline is created, and not again.
LEMMA OpenSteps ==
    ASSUME IInv, [Next]_vars, NEW d \in Dispatches, Open(d)'
    PROVE  Open(d) \/ CreatePipeline(d)
<1> SUFFICES ASSUME ~CreatePipeline(d) PROVE Open(d)
  OBVIOUS
<1>1. pipelines[d].status # "none"
  BY PipelineSteps, RowsWritten DEF Open
<1>2. d \in tasks' => d \in tasks \/ dispatch[d].step = "created"
  <2>1. ASSUME NEW e \in Dispatches, Post(e) \/ Dispatch(e), d \in tasks'
        PROVE  d \in tasks \/ dispatch[d].step = "created"
    BY <2>1 DEF Post, Dispatch, LoadForDispatch, CreatePipeline, PublishTask, PublishFails, SaveNatsId,
       MarkProcessing
  <2>2. ASSUME NEW e \in Dispatches, AiAnswers(e) \/ DeliverResult(e) \/ ResultAckWaitExpires(e)
        PROVE  tasks' \subseteq tasks
    BY <2>2 DEF AiAnswers, DeliverResult, ResultAckWaitExpires, Consume, taskVars
  <2>3. CASE Query \/ LoopMove
    BY <2>3 DEF Query, Enrich, LoadPipeline, LoadSessionForResult, InsertVersion,
       SaveResultSession, RejectResult, CompletePipeline, FinishResult, LoadFailedPipeline,
       FailPipeline, HandlerFault, HandlerQuery, LoopMove, Start, TakeResult, ResultHandled, AckResult,
       ResultThrows, ResultExhausted, RecordResult, TermResult, Consume, taskVars
  <2>4. CASE SkipDivergence \/ LoadForDivergence \/ NeedsReconciliation \/ UNCHANGED vars \/ Crash
    BY <2>4 DEF SkipDivergence, LoadForDivergence, NeedsReconciliation, DivergenceQuery, Crash,
       taskVars, vars
  <2>5. ASSUME NEW o \in Ops, Op(o) PROVE tasks' = tasks
    BY <2>5 DEF Op, LoadForOp, UpdateMode, Finalize, Archive, ArchivePipelines, OverrideStatus,
       OpSaves, taskVars
  <2> QED BY <2>1, <2>2, <2>3, <2>4, <2>5, StepKinds
<1>3. Live(d)' => Live(d) \/ d \in tasks
  BY LiveSteps DEF AiAnswers
<1>4. dispatch'[d].step # "ended" => dispatch[d].step # "ended"
  BY DispatchSteps
<1> QED BY <1>1, <1>2, <1>3, <1>4 DEF Open, Live

\* The result in hand belongs to an open task.
LEMMA InHandOpen ==
    ASSUME IInv, handler.step # "idle"
    PROVE  loop.at.msg \in Dispatches /\ Open(loop.at.msg)
<1>1. loop.at.msg \in Dispatches /\ stream[loop.at.msg] # "unsent"
  BY AtWork
<1>2. loop.state \in Nats!Busy
  BY AtWork DEF IInv, TypeOK, HandlingResult, Nats!Busy
<1> QED BY <1>1, <1>2 DEF IInv, RowsExist, Open, Nats!Held

\* The latest pipeline is the one of the task that is open.
LEMMA LastStep ==
    ASSUME IInv, CrossInv, HistoryNext, ~crossed', NEW d \in Dispatches, Open(d)'
    PROVE  order' # <<>> /\ Last(order') = d
<1>0. order \in Seq(Dispatches) /\ [Next]_vars /\ dispatch \in [Dispatches -> Dispatching]
  BY DEF IInv, TypeOK, HistoryNext
<1>1. ~crossed /\ \A e \in Dispatches : Open(e)' => e = d
  BY StillUncrossed
<1>2. ASSUME NEW e \in Dispatches, CreatePipeline(e)
      PROVE  order' # <<>> /\ Last(order') = d
  <2>1. order' = Append(order, e) /\ order' # <<>> /\ Last(order') = e
    BY <1>0, <1>2 DEF CreatePipeline, Last
  <2>2. dispatch[e] \in [step : {"loaded", "created", "published", "saved"}, session : Session]
    BY <1>2, DispatchType DEF CreatePipeline, IInv
  <2>3. dispatch'[e].step # "ended" /\ pipelines'[e].status # "none"
    BY <1>0, <1>2, <2>2 DEF CreatePipeline, IInv, TypeOK, NoPipeline
  <2>4. e = d
    BY <1>1, <2>3 DEF Open
  <2> QED BY <2>1, <2>4
<1>3. CASE order' = order /\ \A e \in Dispatches : ~CreatePipeline(e)
  BY <1>0, <1>1, <1>3, OpenSteps DEF CrossInv, OneAtATime
<1> QED BY <1>0, <1>2, <1>3, OrderSteps

\* One task at a time, a result is taken for its own pipeline.
LEMMA WorkStep ==
    ASSUME IInv, CrossInv, HistoryNext, ~crossed'
    PROVE  /\ handler'.step \in Working => handler'.of = loop'.at.msg
           /\ handler'.step = "finish" /\ loop'.at.msg \notin named' =>
                 handler'.key \in {Fresh, MessageOf(loop'.at.msg)}
<1> DEFINE d == loop.at.msg
<1> SUFFICES ASSUME handler'.step \in Working \union {"finish"}
             PROVE  /\ handler'.step \in Working => handler'.of = loop'.at.msg
                    /\ handler'.step = "finish" /\ loop'.at.msg \notin named' =>
                          handler'.key \in {Fresh, MessageOf(loop'.at.msg)}
  OBVIOUS
<1>0. [Next]_vars /\ ~crossed
  BY StillUncrossed DEF HistoryNext
<1>1. /\ loop'.at = loop.at /\ d \in Dispatches
      /\ d \in named' <=> d \in named
  BY <1>0, WorkSteps, NamedStays
<1>2. /\ handler.step \in Working => handler.of = d
      /\ handler.step = "finish" /\ d \notin named => handler.key \in {Fresh, MessageOf(d)}
  BY <1>0 DEF CrossInv, OneAtATime
<1>3. CASE handler' = handler
  BY <1>1, <1>2, <1>3
<1>4. CASE Enrich /\ handler'.step = "loadPipeline" /\ handler'.of = PipelineOf(d)
  <2>1. Open(d)
    BY <1>4, InHandOpen DEF Enrich, Handling
  <2>2. PipelineOf(d) = d
    BY <1>0, <1>1, <2>1 DEF PipelineOf, CrossInv, OneAtATime
  <2> QED BY <1>1, <1>4, <2>2
<1>5. CASE handler.step \in Working /\ handler'.step # "finish" /\ handler'.of = handler.of
  BY <1>1, <1>2, <1>5
<1>6. CASE handler.step = "savePipeline" /\ handler'.step = "finish" /\ handler'.key = handler.key
  <2>1. handler.step \in Working /\ handler'.step \notin Working
    BY <1>6 DEF Working, Loaded
  <2>2. d \notin named => handler.key = Fresh \/ handler.key = MessageOf(handler.of)
    BY <2>1 DEF IInv, KeysFollowPayloads
  <2> QED BY <1>1, <1>2, <1>6, <2>1, <2>2
<1> QED BY <1>0, <1>3, <1>4, <1>5, <1>6, WorkSteps DEF Working, Loaded

\* One task at a time, a key in handledIds stands for a result that made a
\* version, and so does a delivery that is not to be applied.
LEMMA RememberedStep ==
    ASSUME IInv, CrossInv, HistoryNext, ~crossed'
    PROVE  /\ \A p \in Dispatches : MessageOf(p) \in handled' => versions'[p] > 0
           /\ handler'.step = "return" \/ loop'.state = "handled" => versions'[loop'.at.msg] > 0
<1> DEFINE d == loop.at.msg
<1>0. /\ [Next]_vars /\ ~crossed /\ handler \in HandlingResult /\ Nats!TypeOK
      /\ handled \subseteq Keys \ {Fresh}
  BY StillUncrossed DEF HistoryNext, IInv, TypeOK, Nats!IInv
<1>1. \A e \in Dispatches : versions[e] > 0 => versions'[e] > 0
  BY <1>0, VersionsStep
<1>2. /\ \A p \in Dispatches : MessageOf(p) \in handled => versions[p] > 0
      /\ handler.step = "return" \/ loop.state = "handled" => versions[d] > 0
      /\ \A e \in Dispatches : CorrelationOf(e) \in handled => versions[e] > 0
  BY <1>0 DEF CrossInv, OneAtATime, IInv, HandledMeansApplied
<1>3. ASSUME FinishResult
      PROVE  /\ handled' \subseteq handled \union {handler.key}
             /\ d \in Dispatches /\ versions[d] > 0 /\ loop' = loop /\ loop.state = "handling"
             /\ handler.key \in {CorrelationOf(d), Fresh, MessageOf(d)}
  BY <1>0, <1>3, AtWork, QueryFrame DEF Query, FinishResult, Handling, MarkHandled, IInv,
     HandledMeansApplied, KeysFollowPayloads, CrossInv, OneAtATime
<1>4. handled' \subseteq handled \/ FinishResult
  <2>1. CASE Query /\ ~FinishResult
    BY <2>1 DEF Query, Enrich, LoadPipeline, LoadSessionForResult, InsertVersion,
       SaveResultSession, RejectResult, CompletePipeline, LoadFailedPipeline, FailPipeline,
       HandlerFault, HandlerQuery
  <2> QED BY <1>0, <2>1, StepKinds, RequestFrame, OtherFrame, LoopFrame DEF Crash
<1>5. ASSUME NEW p \in Dispatches, MessageOf(p) \in handled' PROVE versions'[p] > 0
  <2>1. CASE MessageOf(p) \in handled
    BY <1>1, <1>2, <2>1
  <2>2. CASE MessageOf(p) \notin handled
    <3>1. FinishResult /\ handler.key = MessageOf(p)
      BY <1>3, <1>4, <1>5, <2>2
    <3>2. p = d
      BY <1>3, <3>1, AiPipelineAssumption DEF MessageOf, CorrelationOf
    <3> QED BY <1>1, <1>3, <3>1, <3>2
  <2> QED BY <2>1, <2>2
<1>6. handler'.step = "return" \/ loop'.state = "handled" => versions'[loop'.at.msg] > 0
  <2>1. CASE UNCHANGED <<handler, loop>>
    <3>1. handler.step = "return" \/ loop.state = "handled" => d \in Dispatches
      BY <1>0, AtWork DEF Nats!TypeOK, Nats!Busy, Nats!Deliveries
    <3> QED BY <1>1, <1>2, <2>1, <3>1
  <2>2. CASE Enrich
    <3>1. loop' = loop /\ loop.state = "handling" /\ d \in Dispatches /\ Open(d)
      BY <2>2, QueryFrame, AtWork, InHandOpen DEF Query, Enrich, Handling
    <3>2. ASSUME handler'.step = "return" PROVE versions[d] > 0
      <4>1. KeyOf(d) \in handled
        BY <2>2, <3>2 DEF Enrich
      <4>2. KeyOf(d) \in {CorrelationOf(d), MessageOf(d), Fresh}
        BY <1>0, <3>1 DEF KeyOf, CrossInv, OneAtATime
      <4> QED BY <1>0, <1>2, <3>1, <4>1, <4>2
    <3> QED BY <1>1, <3>1, <3>2
  <2>3. CASE FinishResult
    BY <1>1, <1>3, <2>3
  <2>4. CASE \/ LoadPipeline \/ LoadSessionForResult \/ InsertVersion \/ SaveResultSession
             \/ RejectResult \/ CompletePipeline \/ LoadFailedPipeline \/ FailPipeline \/ HandlerFault
    <3>1. loop' = loop /\ loop.state \in {"handling", "exhausting"}
      BY <2>4, QueryFrame, AtWork DEF Query, LoadPipeline, LoadSessionForResult, InsertVersion,
         SaveResultSession, RejectResult, CompletePipeline, LoadFailedPipeline, FailPipeline,
         HandlerFault, Handling
    <3>2. handler'.step # "return"
      <4>1. CASE InsertVersion
        BY <1>0, <4>1 DEF InsertVersion, Handling, HandlingResult
      <4>2. CASE ~InsertVersion
        BY <2>4, <4>2 DEF LoadPipeline, LoadSessionForResult, SaveResultSession, RejectResult,
           CompletePipeline, LoadFailedPipeline, FailPipeline, HandlerFault
      <4> QED BY <4>1, <4>2
    <3> QED BY <3>1, <3>2
  <2>5. CASE ResultHandled
    <3>1. handler.step = "return" /\ loop'.at = loop.at
      BY <1>0, <2>5, AtWork DEF ResultHandled, Consume, Handling, Nats!HandlerReturns, Nats!TypeOK,
         Nats!Busy
    <3> QED BY <1>1, <1>2, <3>1, AtWork
  <2>6. CASE TakeResult \/ ResultThrows
    BY <2>6 DEF TakeResult, ResultThrows, Consume, Nats!Take, Nats!HandlerThrows, Idle
  <2>7. CASE ResultExhausted \/ RecordResult
    <3>1. loop \in [state : Nats!Busy, at : Nats!Deliveries]
      BY <1>0, <2>7 DEF ResultExhausted, RecordResult, Consume, Nats!HandlerThrowsLast,
         Nats!RecordFailure, Nats!TypeOK, Nats!Busy
    <3> QED BY <2>7, <3>1 DEF ResultExhausted, RecordResult, Consume, Nats!HandlerThrowsLast,
               Nats!RecordFailure, Idle
  <2>8. CASE Start \/ AckResult \/ TermResult
    BY <2>8, AtWork DEF Start, AckResult, TermResult, Consume, Nats!Subscribe, Nats!Ack, Nats!Term
  <2>9. CASE Crash
    BY <2>9 DEF Crash, Nats!Crash, Idle
  <2> QED BY <1>0, <2>1, <2>2, <2>3, <2>4, <2>5, <2>6, <2>7, <2>8, <2>9, StepKinds, RequestFrame,
             OtherFrame DEF Query, LoopMove
<1> QED BY <1>5, <1>6

LEMMA OneAtATimeStep ==
    ASSUME IInv, IInv', CrossInv, HistoryNext PROVE OneAtATime'
<1> SUFFICES ASSUME ~crossed'
             PROVE  /\ \A d \in Dispatches :
                          /\ stream'[d] = "acked" => versions'[d] > 0
                          /\ pipelines'[d].status = "COMPLETED" => versions'[d] > 0
                    /\ SlowAi => \A d \in named' : dlq'[d] > 0 => pipelines'[d].status = "FAILED"
  BY LastStep, WorkStep, RememberedStep DEF OneAtATime
<1>0. [Next]_vars /\ ~crossed
  BY StillUncrossed DEF HistoryNext
<1>1. \A e \in Dispatches : versions[e] > 0 => versions'[e] > 0
  BY <1>0, VersionsStep
<1>2. ASSUME NEW d \in Dispatches, stream'[d] = "acked" PROVE versions'[d] > 0
  <2>1. versions[d] > 0
    BY <1>0, <1>2, ResultStates DEF CrossInv, OneAtATime
  <2> QED BY <1>1, <2>1
<1>3. ASSUME NEW d \in Dispatches, pipelines'[d].status = "COMPLETED" PROVE versions'[d] > 0
  <2>1. CASE pipelines[d].status = "COMPLETED"
    BY <1>0, <1>1, <2>1 DEF CrossInv, OneAtATime
  <2>2. CASE handler.step = "savePipeline" /\ d = handler.of
    <3>1. d = loop.at.msg /\ versions[loop.at.msg] > 0
      BY <1>0, <2>2 DEF CrossInv, OneAtATime, Working, Loaded, IInv, HandledMeansApplied
    <3> QED BY <1>1, <3>1
  <2> QED BY <1>0, <1>3, <2>1, <2>2, PipelineSteps
<1>4. ASSUME SlowAi, NEW d \in named', dlq'[d] > 0 PROVE pipelines'[d].status = "FAILED"
  <2>1. d \in Dispatches
    BY DEF IInv, TypeOK
  <2>2. CASE RecordResult /\ handler.step = "record" /\ d = loop.at.msg
    <3>1. stream[d] # "unsent" /\ pipelines' = pipelines
      BY <2>2, AtWork, LoopFrame DEF LoopMove
    <3>2. d \in named
      BY <1>0, <2>1, <3>1, NamedStays
    <3> QED BY <1>4, <2>2, <3>1, <3>2 DEF IInv, FailedBeforeRecorded
  <2>3. CASE dlq[d] > 0
    <3>1. /\ stream[d] # "unsent" /\ d \in named /\ dispatch[d].step = "ended"
          /\ loop.at.msg = d => loop.state \notin {"handling", "exhausting"}
      BY <1>0, <1>4, <2>1, <2>3, DeadIsOver, NamedStays DEF IInv, DispatchesInOrder
    <3>2. pipelines[d].status = "FAILED"
      BY <1>0, <1>4, <2>3, <3>1 DEF CrossInv, OneAtATime
    <3>3. ~(handler.step = "savePipeline" /\ d = handler.of)
      BY <1>0, <3>1, AtWork DEF CrossInv, OneAtATime, Working, Loaded
    <3>4. ~CreatePipeline(d) /\ ~SaveNatsId(d) /\ (FailPipeline => d # loop.at.msg)
      BY <3>1, AtWork DEF CreatePipeline, SaveNatsId, FailPipeline, Handling
    <3> QED BY <1>0, <2>1, <3>2, <3>3, <3>4, PipelineSteps
  <2> QED BY <1>0, <1>4, <2>1, <2>2, <2>3, RecordSteps
<1> QED BY <1>2, <1>3, <1>4

\* handledIds keeps what it holds until a restart, which empties `finished` too.
LEMMA HandledStays ==
    ASSUME [Next]_vars, crashes' = crashes, crashes \in Nat
    PROVE  handled \subseteq handled'
<1>1. CASE Query /\ ~FinishResult
  BY <1>1 DEF Query, Enrich, LoadPipeline, LoadSessionForResult, InsertVersion, SaveResultSession,
     RejectResult, CompletePipeline, LoadFailedPipeline, FailPipeline, HandlerFault, HandlerQuery
<1>2. CASE FinishResult
  BY <1>2 DEF FinishResult, MarkHandled
<1>3. ~Crash
  BY DEF Crash, Nats!Crash
<1> QED BY <1>1, <1>2, <1>3, StepKinds, RequestFrame, OtherFrame, LoopFrame

LEMMA FinishedStep ==
    ASSUME IInv, CrossInv, HistoryNext PROVE FinishedIsKept'
<1> DEFINE m == loop.at.msg
<1>0. /\ [Next]_vars /\ FinishedIsKept /\ handled \subseteq Keys \ {Fresh} /\ crashes \in Nat
      /\ ~crossed' => ~crossed /\ OneAtATime
      /\ pipelines \in [Dispatches -> Pipeline]
  BY StillUncrossed, AiPipelineAssumption DEF HistoryNext, CrossInv, IInv, TypeOK, Nats!IInv, Nats!TypeOK
<1>1. ASSUME FinishResult
      PROVE  /\ m \in Dispatches /\ stream[m] # "unsent" /\ pipelines' = pipelines
             /\ handler.step = "finish" /\ handled' = handled \union ({handler.key} \ {Fresh})
  BY <1>1, AtWork DEF FinishResult, Handling, MarkHandled, taskVars
<1>2. ASSUME NEW d \in finished'
      PROVE  d \in Dispatches /\ stream'[d] # "unsent" /\ (d \in named' <=> d \in named)
  <2>1. d \in Dispatches /\ stream[d] # "unsent"
    BY <1>0, <1>1, <1>2, FinishedSteps DEF FinishedIsKept
  <2> QED BY <1>0, <2>1, ResultStates, NamedStays DEF IInv
<1>3. ASSUME NEW d \in finished', d \in named' PROVE CorrelationOf(d) \in handled'
  <2>1. CASE d \in finished
    <3>1. CorrelationOf(d) \in handled
      BY <1>0, <1>2, <1>3, <2>1 DEF FinishedIsKept
    <3> QED BY <1>0, <3>1, FinishedSteps, HandledStays
  <2>2. CASE FinishResult /\ handler.key # Fresh /\ m = d
    <3>1. handler.key = CorrelationOf(d)
      BY <1>1, <1>2, <1>3, <2>2 DEF IInv, KeysFollowPayloads
    <3> QED BY <1>1, <2>2, <3>1
  <2> QED BY <2>1, <2>2, FinishedSteps
<1>4. ASSUME ~crossed', NEW d \in finished', d \notin named'
      PROVE  MessageOf(d) \in handled' /\ pipelines'[d].natsId
  <2>1. d \in Dispatches /\ d \notin named
    BY <1>2, <1>4, FinishedSteps
  <2>2. CASE d \in finished
    <3>1. MessageOf(d) \in handled /\ pipelines[d].natsId
      BY <1>0, <1>4, <2>1, <2>2 DEF FinishedIsKept
    <3>2. MessageOf(d) \in handled'
      BY <1>0, <3>1, FinishedSteps, HandledStays
    <3>3. ~(CompletePipeline /\ d = handler.of)
      <4>1. ASSUME CompletePipeline, d = handler.of PROVE FALSE
        <5>1. handler.step \in Working /\ handler.of = m
          BY <1>0, <1>4, <4>1 DEF CompletePipeline, Handling, OneAtATime, Working, Loaded
        <5> QED BY <1>0, <1>4, <2>2, <4>1, <5>1 DEF FinishedIsKept
      <4> QED BY <4>1
    <3>4. ~(FailPipeline /\ d = m)
      BY <2>1, AtWork DEF FailPipeline, Handling
    <3>5. pipelines'[d].natsId
      BY <1>0, <2>1, <3>1, <3>3, <3>4, NatsIdStays
    <3> QED BY <3>2, <3>5
  <2>3. CASE FinishResult /\ handler.key # Fresh /\ m = d
    <3>1. /\ handler.key \in {Fresh, MessageOf(d)}
          /\ handler.key = Fresh \/ \E p \in Dispatches : handler.key = MessageOf(p) /\ pipelines[p].natsId
      BY <1>0, <1>1, <1>4, <2>1, <2>3 DEF OneAtATime, IInv, KeysFollowPayloads
    <3>2. handler.key = MessageOf(d) /\ pipelines[d].natsId
      BY <2>3, <3>1 DEF MessageOf
    <3> QED BY <1>1, <2>3, <3>2
  <2> QED BY <2>2, <2>3, FinishedSteps
<1>5. ASSUME handler'.step \in Working \union {"finish"}, loop'.at.msg \in finished'
      PROVE  crossed' /\ loop'.at.msg \notin named'
  <2>1. /\ loop'.at.msg = m /\ m \in Dispatches /\ handled' = handled
    BY <1>0, <1>5, WorkSteps
  <2>2. m \in finished
    <3>1. ~FinishResult
      BY <1>5 DEF FinishResult, Working, Loaded
    <3> QED BY <1>5, <2>1, <3>1, FinishedSteps
  <2>3. m \in named' <=> m \in named
    BY <1>2, <1>5, <2>1
  <2>4. CASE handler.step \in Working \union {"finish"}
    BY <1>0, <2>1, <2>2, <2>3, <2>4, StillCrossed DEF FinishedIsKept
  <2>5. CASE Enrich /\ KeyOf(m) \notin handled
    <3>1. m \notin named
      <4>1. m \in named => CorrelationOf(m) \in handled /\ KeyOf(m) = CorrelationOf(m)
        BY <1>0, <2>2 DEF FinishedIsKept, KeyOf
      <4> QED BY <2>5, <4>1
    <3>2. crossed'
      <4>1. ASSUME ~crossed' PROVE FALSE
        <5>1. MessageOf(m) \in handled /\ pipelines[m].natsId
          BY <1>0, <2>2, <3>1, <4>1 DEF FinishedIsKept
        <5>2. Last(order) = m
          BY <1>0, <2>5, <4>1, InHandOpen DEF OneAtATime, Enrich, Handling
        <5>3. KeyOf(m) = MessageOf(m)
          BY <3>1, <5>1, <5>2 DEF KeyOf
        <5> QED BY <2>5, <5>1, <5>3
      <4> QED BY <4>1
    <3> QED BY <2>1, <2>3, <3>1, <3>2
  <2> QED BY <1>0, <1>5, <2>4, <2>5, WorkSteps DEF Working, Loaded
<1> HIDE DEF m
<1> QED BY <1>2, <1>3, <1>4, <1>5 DEF FinishedIsKept

LEMMA CrossStep ==
    ASSUME IInv, IInv', CrossInv, [HistoryNext]_historyVars PROVE CrossInv'
<1>1. CASE HistoryNext
  BY <1>1, OneAtATimeStep, FinishedStep DEF CrossInv
<1>2. CASE UNCHANGED historyVars
  <2>1. UNCHANGED <<crossed, finished, pipelines, order, dispatch, tasks, handler, handled, versions,
                    named, stream, buffer, loop, dlq>>
    BY <1>2 DEF historyVars, vars, taskVars, resultVars, natsVars
  <2>2. \A d \in Dispatches : Open(d)' <=> Open(d)
    BY <2>1 DEF Open, Nats!Held
  <2>3. FinishedIsKept'
    BY <2>1 DEF CrossInv, FinishedIsKept
  <2>4. OneAtATime'
    BY <2>1, <2>2 DEF CrossInv, OneAtATime
  <2> QED BY <2>3, <2>4 DEF CrossInv
<1> QED BY <1>1, <1>2

\* As long as tasks do not cross, a result is taken for its own pipeline under
\* a key that stands for it, with ids or without; and what was handled under a
\* key is remembered.
THEOREM CrossInvariance == HistorySpec => []CrossInv
<1>1. HistoryInit => CrossInv
  <2> SUFFICES ASSUME HistoryInit PROVE CrossInv
    OBVIOUS
  <2>1. /\ \A d \in Dispatches : pipelines[d] = NoPipeline /\ stream[d] = "unsent"
        /\ named = {} /\ handled = {} /\ finished = {} /\ handler = Idle /\ loop.state = "down"
    BY DEF HistoryInit, Init, Nats!Init
  <2>2. OneAtATime
    BY <2>1 DEF OneAtATime, Open, Working, Loaded, Idle, NoPipeline
  <2>3. FinishedIsKept
    BY <2>1 DEF FinishedIsKept, Working, Loaded, Idle
  <2> QED BY <2>2, <2>3 DEF CrossInv
<1>2. IInv /\ IInv' /\ CrossInv /\ [HistoryNext]_historyVars => CrossInv'
  BY CrossStep
<1> QED BY <1>1, <1>2, HistoryIInv, PTL DEF HistorySpec

-----------------------------------------------------------------------------
(* Results, pipelines and dead letters                                     *)

\* A result that is acknowledged was applied, whatever is redelivered, fails or
\* crashes, unless it names no task and was taken for another's.
THEOREM ResultsStayConsistent == HistorySpec => []ResultsConsistent
<1>1. IInv /\ CrossInv => ResultsConsistent
  <2> SUFFICES ASSUME IInv, CrossInv, NEW d \in Dispatches, stream[d] = "acked"
               PROVE  versions[d] > 0 \/ (crossed /\ d \notin named /\ AnonymousApplied)
    BY DEF ResultsConsistent, AcknowledgedMeansApplied, IInv
  <2> QED BY DEF CrossInv, OneAtATime, IInv, HandledMeansApplied
<1> QED BY <1>1, HistoryIInv, CrossInvariance, PTL

\* A pipeline shown as COMPLETED has a version made from its own result, unless
\* tasks crossed and an anonymous result was applied.
THEOREM CompletedIsApplied == HistorySpec => []CompletedMeansApplied
<1>1. IInv /\ CrossInv => CompletedMeansApplied
  <2> SUFFICES ASSUME IInv, CrossInv, NEW d \in Dispatches, pipelines[d].status = "COMPLETED"
               PROVE  versions[d] > 0 \/ (crossed /\ AnonymousApplied)
    BY DEF CompletedMeansApplied
  <2> QED BY DEF CrossInv, OneAtATime, IInv, HandledMeansApplied
<1> QED BY <1>1, HistoryIInv, CrossInvariance, PTL

\* If the AI answers after the dispatching request has ended, a result in the
\* dead-letter table has the pipeline it names FAILED, for good unless tasks
\* cross.
THEOREM ExhaustedIsFailed == SlowAi => (HistorySpec => []ExhaustedPipelineFails)
<1> SUFFICES ASSUME SlowAi PROVE HistorySpec => []ExhaustedPipelineFails
  OBVIOUS
<1>1. IInv /\ CrossInv => ExhaustedPipelineFails
  <2> SUFFICES ASSUME IInv, CrossInv, NEW d \in named, dlq[d] > 0
               PROVE  \/ pipelines[d].status = "FAILED"
                      \/ crossed /\ pipelines[d].status = "COMPLETED" /\ AnonymousApplied
    BY DEF ExhaustedPipelineFails
  <2> QED BY DEF CrossInv, OneAtATime, IInv, FailedBeforeRecorded
<1> QED BY <1>1, HistoryIInv, CrossInvariance, PTL

\* Between restarts, handledIds keeps every later delivery of a handled result
\* from inserting another version, unless it names no task and tasks crossed.
THEOREM HandledIsNotReapplied == HistorySpec => HandledNotReapplied
<1>1. IInv /\ CrossInv /\ [HistoryNext]_historyVars
      => [\A d \in finished : d \in named \/ ~crossed => versions'[d] = versions[d]]_vars
  <2> SUFFICES ASSUME IInv, CrossInv, [HistoryNext]_historyVars,
                      NEW d \in finished, d \in named \/ ~crossed
               PROVE  versions'[d] = versions[d]
    OBVIOUS
  <2>1. d \in Dispatches
    BY DEF CrossInv, FinishedIsKept
  <2> QED BY <2>1, HistorySteps, VersionsStep DEF CrossInv, FinishedIsKept, Working, Loaded
<1> QED BY <1>1, HistoryIInv, CrossInvariance, PTL DEF HistorySpec, HandledNotReapplied

-----------------------------------------------------------------------------
(* The consumer of results is a durable subscription, whose verdicts are   *)
(* final                                                                   *)

LEMMA SameOutcome ==
    /\ Nats!Outcome = NatsThm!Outcome /\ Nats!Outcome' = NatsThm!Outcome'
    /\ Nats!Abstract!Init <=> NatsThm!Abstract!Init
    /\ Nats!Abstract!Next <=> NatsThm!Abstract!Next
<1>1. Nats!Outcome = NatsThm!Outcome /\ Nats!Outcome' = NatsThm!Outcome'
  BY Zenon DEF Nats!Outcome, NatsThm!Outcome
<1>2. Nats!Abstract!Init <=> NatsThm!Abstract!Init
  BY <1>1 DEF Nats!Abstract!Init, NatsThm!Abstract!Init
<1>3. Nats!Abstract!Next <=> NatsThm!Abstract!Next
  BY <1>1, Zenon DEF Nats!Abstract!Next, NatsThm!Abstract!Next, Nats!Abstract!Send, NatsThm!Abstract!Send,
   Nats!Abstract!Apply, NatsThm!Abstract!Apply, Nats!Abstract!DeadLetter, NatsThm!Abstract!DeadLetter,
   Nats!Abstract!Becomes, NatsThm!Abstract!Becomes
<1> QED BY <1>1, <1>2, <1>3

\* The pipeline's consumer of results is a NatsDelivery: sessions, handlers and
\* requests add to it no step of their own.
THEOREM ConsumerIsDurable == Spec => Nats!Init /\ [][Nats!Next]_(Nats!vars)
<1>1. Init => Nats!Init
  BY DEF Init
<1>2. [Next]_vars => [Nats!Next]_(Nats!vars)
  BY NatsStep
<1> QED BY <1>1, <1>2, PTL DEF Spec

\* The pipeline implements MessageOutcome: once a result was applied or
\* dead-lettered, nothing that requests, crashes or redeliveries do changes it.
THEOREM ResultVerdictsAreFinal == Spec => Nats!VerdictIsFinal
<1>1. Init => Nats!Abstract!Init
  BY NatsThm!InitRefines, NatsAssumption, SameOutcome, SameNats DEF NatsThm!InitRefines, Init
<1>2. Nats!IInv /\ [Next]_vars => [Nats!Abstract!Next]_(Nats!Outcome)
  <2> SUFFICES ASSUME Nats!IInv, [Next]_vars PROVE [Nats!Abstract!Next]_(Nats!Outcome)
    OBVIOUS
  <2>1. [NatsThm!Next]_(NatsThm!vars) /\ NatsThm!IInv
    BY NatsStep, SameNats, SameNatsNext
  <2>2. [NatsThm!Abstract!Next]_(NatsThm!Outcome)
    BY <2>1, NatsThm!StepRefines, NatsAssumption DEF NatsThm!StepRefines
  <2> QED BY <2>2, SameOutcome
<1> QED BY <1>1, <1>2, NatsIInv, PTL DEF Spec, Nats!VerdictIsFinal, Nats!Abstract!Safety
-----------------------------------------------------------------------------
(* One request or handler at a time                                        *)

InFlight(record) == record.step \notin {"idle", "ended"}

Alone ==
    /\ \A d, e \in Dispatches : InFlight(dispatch[d]) /\ InFlight(dispatch[e]) => d = e
    /\ \A o, p \in Ops : InFlight(ops[o]) /\ InFlight(ops[p]) => o = p
    /\ \A d \in Dispatches : InFlight(dispatch[d]) =>
          /\ \A o \in Ops : ~InFlight(ops[o])
          /\ handler = Idle /\ comparing = Idle
    /\ \A o \in Ops : InFlight(ops[o]) => handler = Idle /\ comparing = Idle
    /\ handler = Idle \/ comparing = Idle

LEMMA AloneBefore == ASSUME \A a, b \in Active : a = b PROVE Alone
<1>1. \A d \in Dispatches : InFlight(dispatch[d]) => <<"dispatch", d>> \in Active
  BY DEF Active, InFlight
<1>2. \A o \in Ops : InFlight(ops[o]) => <<"op", o>> \in Active
  BY DEF Active, InFlight
<1>3. /\ handler # Idle => <<"handler", "result">> \in Active
      /\ comparing # Idle => <<"handler", "divergence">> \in Active
  BY DEF Active
<1> QED BY <1>1, <1>2, <1>3 DEF Alone

LEMMA AloneAfter == ASSUME \A a, b \in Active' : a = b PROVE Alone'
<1>1. \A d \in Dispatches : InFlight(dispatch[d])' => <<"dispatch", d>> \in Active'
  BY DEF Active, InFlight
<1>2. \A o \in Ops : InFlight(ops[o])' => <<"op", o>> \in Active'
  BY DEF Active, InFlight
<1>3. /\ handler' # Idle => <<"handler", "result">> \in Active'
      /\ comparing' # Idle => <<"handler", "divergence">> \in Active'
  BY DEF Active
<1> QED BY <1>1, <1>2, <1>3 DEF Alone

\* Who is in flight when a request or handler moves: nobody else, before or,
\* if the step is its first, after.
LEMMA OthersQuiet ==
    ASSUME IInv, Alone, Alone', [Next]_vars
    PROVE  /\ \A d \in Dispatches : Post(d) \/ Dispatch(d) =>
                 /\ \A e \in Dispatches : e # d => ~InFlight(dispatch'[e])
                 /\ \A o \in Ops : ~InFlight(ops'[o])
                 /\ handler' = Idle /\ comparing' = Idle
           /\ \A o \in Ops : Op(o) =>
                 /\ \A p \in Ops : p # o => ~InFlight(ops'[p])
                 /\ \A d \in Dispatches : ~InFlight(dispatch'[d])
                 /\ handler' = Idle /\ comparing' = Idle
           /\ Query \/ NeedsReconciliation =>
                 /\ \A d \in Dispatches : ~InFlight(dispatch'[d])
                 /\ \A o \in Ops : ~InFlight(ops'[o])
           /\ Query => comparing' = Idle
           /\ NeedsReconciliation => handler' = Idle
<1>0. dispatch \in [Dispatches -> Dispatching] /\ ops \in [Ops -> Operating]
  BY DEF IInv, TypeOK
<1>1. ASSUME NEW d \in Dispatches, Post(d) \/ Dispatch(d)
      PROVE  /\ \A e \in Dispatches : e # d => ~InFlight(dispatch'[e])
             /\ \A o \in Ops : ~InFlight(ops'[o])
             /\ handler' = Idle /\ comparing' = Idle
  <2>1. CASE Post(d)
    <3>1. InFlight(dispatch'[d])
      BY <1>0, <2>1 DEF Post, InFlight
    <3> QED BY <3>1 DEF Alone
  <2>2. CASE Dispatch(d)
    <3>1. InFlight(dispatch[d]) /\ UNCHANGED <<ops, handler, comparing>>
      BY <2>2 DEF Dispatch, LoadForDispatch, CreatePipeline, PublishTask, PublishFails, SaveNatsId,
         MarkProcessing, InFlight, resultVars, divergenceVars
    <3>2. \A e \in Dispatches : e # d => dispatch'[e] = dispatch[e]
      BY <1>0, <2>2 DEF Dispatch, LoadForDispatch, CreatePipeline, PublishTask, PublishFails,
         SaveNatsId, MarkProcessing
    <3> QED BY <3>1, <3>2 DEF Alone
  <2> QED BY <1>1, <2>1, <2>2
<1>2. ASSUME NEW o \in Ops, Op(o)
      PROVE  /\ \A p \in Ops : p # o => ~InFlight(ops'[p])
             /\ \A d \in Dispatches : ~InFlight(dispatch'[d])
             /\ handler' = Idle /\ comparing' = Idle
  <2>1. CASE LoadForOp(o)
    <3>1. InFlight(ops'[o])
      BY <1>0, <2>1 DEF LoadForOp, InFlight
    <3> QED BY <3>1 DEF Alone
  <2>2. CASE ~LoadForOp(o)
    <3>1. InFlight(ops[o]) /\ UNCHANGED <<dispatch, handler, comparing>>
      BY <1>2, <2>2 DEF Op, UpdateMode, Finalize, Archive, ArchivePipelines, OverrideStatus, OpSaves,
         InFlight, taskVars, resultVars, divergenceVars
    <3>2. \A p \in Ops : p # o => ops'[p] = ops[p]
      BY <1>0, <1>2, <2>2 DEF Op, UpdateMode, Finalize, Archive, ArchivePipelines, OverrideStatus,
         OpSaves
    <3> QED BY <3>1, <3>2 DEF Alone
  <2> QED BY <2>1, <2>2
<1>3. ASSUME Query
      PROVE  /\ \A d \in Dispatches : ~InFlight(dispatch'[d])
             /\ \A o \in Ops : ~InFlight(ops'[o])
             /\ comparing' = Idle
  <2>1. handler # Idle /\ UNCHANGED <<dispatch, ops, comparing>>
    BY <1>3 DEF Query, Enrich, LoadPipeline, LoadSessionForResult, InsertVersion, SaveResultSession,
       RejectResult, CompletePipeline, FinishResult, LoadFailedPipeline, FailPipeline, HandlerFault,
       HandlerQuery, Handling, taskVars, divergenceVars, Idle
  <2> QED BY <2>1 DEF Alone
<1>4. ASSUME NeedsReconciliation
      PROVE  /\ \A d \in Dispatches : ~InFlight(dispatch'[d])
             /\ \A o \in Ops : ~InFlight(ops'[o])
             /\ handler' = Idle
  <2>1. comparing # Idle /\ UNCHANGED <<dispatch, ops, handler>>
    BY <1>4 DEF NeedsReconciliation, DivergenceQuery, taskVars, resultVars, Idle
  <2> QED BY <2>1 DEF Alone
<1> QED BY <1>1, <1>2, <1>3, <1>4
\* What each part of CopiesAreCurrent says, so that a step can be held against
\* the copy it concerns.
DispatchCopy(d) ==
    dispatch[d].step \in {"loaded", "created", "published", "saved"} => dispatch[d].session = session
OpCopy(o) ==
    ops[o].step \in {"mode", "finalize", "archive", "override"} => ops[o].session = session
HandlerCopies ==
    /\ handler.step \in {"insert", "saveSession"} => handler.session = session
    /\ handler.step \in {"loadSession", "insert", "saveSession", "savePipeline"} =>
          handler.pipeline = pipelines[handler.of]
    /\ handler.step = "saveFailed" => handler.pipeline = pipelines[loop.at.msg]

LEMMA CopiesParts ==
    /\ CopiesAreCurrent <=>
          /\ \A a, b \in Active : a = b
          /\ \A d \in Dispatches : DispatchCopy(d)
          /\ \A o \in Ops : OpCopy(o)
          /\ comparing # Idle => comparing.session = session
          /\ HandlerCopies
    /\ CopiesAreCurrent' <=>
          /\ \A a, b \in Active' : a = b
          /\ \A d \in Dispatches : DispatchCopy(d)'
          /\ \A o \in Ops : OpCopy(o)'
          /\ comparing' # Idle => comparing'.session = session'
          /\ HandlerCopies'
BY DEF CopiesAreCurrent, DispatchCopy, OpCopy, HandlerCopies

\* One at a time, what a request or a handler has loaded stays what is stored.
LEMMA CopiesStep ==
    ASSUME IInv, CopiesAreCurrent, [Next]_vars, \A a, b \in Active' : a = b
    PROVE  CopiesAreCurrent'
<1>0. /\ dispatch \in [Dispatches -> Dispatching] /\ ops \in [Ops -> Operating]
      /\ handler \in HandlingResult /\ pipelines \in [Dispatches -> Pipeline]
  BY DEF IInv, TypeOK
<1>1. Alone /\ Alone'
  BY AloneBefore, AloneAfter DEF CopiesAreCurrent
<1>2. /\ \A d \in Dispatches : DispatchCopy(d)
      /\ \A o \in Ops : OpCopy(o)
      /\ comparing # Idle => comparing.session = session
      /\ HandlerCopies
  BY CopiesParts
<1> SUFFICES /\ \A d \in Dispatches : DispatchCopy(d)'
             /\ \A o \in Ops : OpCopy(o)'
             /\ comparing' # Idle => comparing'.session = session'
             /\ HandlerCopies'
  BY CopiesParts
<1>3. /\ \A d \in Dispatches : ~InFlight(dispatch'[d]) => DispatchCopy(d)'
      /\ \A o \in Ops : ~InFlight(ops'[o]) => OpCopy(o)'
      /\ handler' = Idle => HandlerCopies'
  BY DEF InFlight, DispatchCopy, OpCopy, HandlerCopies, Idle
<1>4. ASSUME NEW d \in Dispatches, Post(d) \/ Dispatch(d)
      PROVE  /\ \A e \in Dispatches : DispatchCopy(e)'
             /\ \A o \in Ops : OpCopy(o)'
             /\ comparing' # Idle => comparing'.session = session'
             /\ HandlerCopies'
  <2>1. DispatchCopy(d)'
    <3>1. CASE Post(d) \/ PublishFails(d) \/ MarkProcessing(d)
      BY <1>0, <3>1 DEF Post, PublishFails, MarkProcessing, DispatchCopy, Ended
    <3>2. CASE LoadForDispatch(d)
      BY <1>0, <3>2 DEF LoadForDispatch, DispatchCopy
    <3>3. CASE CreatePipeline(d) \/ PublishTask(d) \/ SaveNatsId(d)
      <4>1. /\ dispatch[d] \in [step : {"loaded", "created", "published", "saved"}, session : Session]
            /\ dispatch[d].step \in {"loaded", "created", "published", "saved"}
        BY <3>3, DispatchType DEF CreatePipeline, PublishTask, SaveNatsId, IInv
      <4>2. dispatch'[d].session = dispatch[d].session /\ session' = session
        BY <1>0, <3>3, <4>1 DEF CreatePipeline, PublishTask, SaveNatsId
      <4> QED BY <1>2, <4>1, <4>2 DEF DispatchCopy
    <3> QED BY <1>4, <3>1, <3>2, <3>3 DEF Dispatch
  <2> QED BY <1>1, <1>3, <1>4, <2>1, OthersQuiet
<1>5. ASSUME NEW o \in Ops, Op(o)
      PROVE  /\ \A d \in Dispatches : DispatchCopy(d)'
             /\ \A p \in Ops : OpCopy(p)'
             /\ comparing' # Idle => comparing'.session = session'
             /\ HandlerCopies'
  <2>1. OpCopy(o)'
    <3>1. CASE LoadForOp(o)
      BY <1>0, <3>1 DEF LoadForOp, OpCopy
    <3>2. CASE ~LoadForOp(o)
      <4>1. CASE ArchivePipelines(o)
        BY <1>0, <4>1 DEF ArchivePipelines, OpCopy, Ended
      <4>2. ASSUME NEW step, NEW saved, NEW next \in {"archiving", "ended"}, OpSaves(o, step, saved, next)
            PROVE  OpCopy(o)'
        BY <1>0, <4>2 DEF OpSaves, OpCopy
      <4>3. CASE UpdateMode(o) \/ Finalize(o) \/ Archive(o)
        BY <4>2, <4>3 DEF UpdateMode, Finalize, Archive
      <4>4. ASSUME NEW to \in Targets, NEW force \in BOOLEAN, OverrideStatus(o, to, force)
            PROVE  OpCopy(o)'
        BY <4>2, <4>4 DEF OverrideStatus
      <4> QED BY <1>5, <3>2, <4>1, <4>3, <4>4 DEF Op
    <3> QED BY <3>1, <3>2
  <2> QED BY <1>1, <1>3, <1>5, <2>1, OthersQuiet
<1>6. ASSUME Query
      PROVE  /\ \A d \in Dispatches : DispatchCopy(d)'
             /\ \A o \in Ops : OpCopy(o)'
             /\ comparing' # Idle => comparing'.session = session'
             /\ HandlerCopies'
  <2>1. HandlerCopies'
    <3>1. CASE LoadPipeline
      BY <3>1 DEF LoadPipeline, HandlerQuery, taskVars, HandlerCopies
    <3>2. CASE LoadSessionForResult \/ InsertVersion \/ SaveResultSession
      <4>1. /\ handler.step \in {"loadSession", "insert", "saveSession"}
            /\ handler'.pipeline = handler.pipeline /\ handler'.of = handler.of
            /\ pipelines' = pipelines
            /\ handler'.step \in {"insert", "saveSession", "savePipeline"}
        BY <1>0, <3>2 DEF LoadSessionForResult, InsertVersion, SaveResultSession, Handling,
           HandlingResult, HandlerQuery, taskVars
      <4>2. handler'.step \in {"insert", "saveSession"} => handler'.session = session'
        BY <1>0, <1>2, <3>2 DEF LoadSessionForResult, InsertVersion, SaveResultSession, Handling,
           HandlingResult, HandlerCopies
      <4> QED BY <1>2, <4>1, <4>2 DEF HandlerCopies
    <3>3. CASE LoadFailedPipeline
      BY <3>3 DEF LoadFailedPipeline, HandlerQuery, taskVars, natsVars, HandlerCopies
    <3>4. CASE Enrich \/ RejectResult \/ CompletePipeline \/ FinishResult \/ FailPipeline \/ HandlerFault
      BY <3>4 DEF Enrich, RejectResult, CompletePipeline, FinishResult, FailPipeline, HandlerFault,
         HandlerCopies
    <3> QED BY <1>6, <3>1, <3>2, <3>3, <3>4 DEF Query
  <2> QED BY <1>1, <1>3, <1>6, <2>1, OthersQuiet
<1>7. ASSUME UNCHANGED <<session, pipelines, dispatch, ops, comparing>>
      PROVE  /\ \A d \in Dispatches : DispatchCopy(d)'
             /\ \A o \in Ops : OpCopy(o)'
             /\ comparing' # Idle => comparing'.session = session'
  BY <1>2, <1>7 DEF DispatchCopy, OpCopy
<1>8. ASSUME LoopMove
      PROVE  HandlerCopies' /\ UNCHANGED <<session, pipelines, dispatch, ops, comparing>>
  <2>1. CASE Start \/ AckResult \/ TermResult
    <3>1. handler.step # "saveFailed"
      BY <2>1, AtWork DEF Start, AckResult, TermResult, Consume, Nats!Subscribe, Nats!Ack, Nats!Term
    <3>2. UNCHANGED <<session, pipelines, handler>>
      BY <2>1 DEF Start, AckResult, TermResult, Consume, taskVars
    <3> QED BY <1>2, <1>8, <2>1, <3>1, <3>2, LoopFrame
            DEF HandlerCopies, Start, AckResult, TermResult, Consume
  <2>2. CASE TakeResult \/ ResultHandled \/ ResultThrows \/ ResultExhausted \/ RecordResult
    BY <2>2 DEF TakeResult, ResultHandled, ResultThrows, ResultExhausted, RecordResult, Consume, Idle,
       HandlerCopies, taskVars, divergenceVars
  <2> QED BY <1>8, <2>1, <2>2 DEF LoopMove
<1>9. ASSUME NEW d \in Dispatches, AiAnswers(d) \/ DeliverResult(d) \/ ResultAckWaitExpires(d)
      PROVE  HandlerCopies' /\ UNCHANGED <<session, pipelines, dispatch, ops, comparing>>
  <2>1. UNCHANGED <<session, pipelines, dispatch, ops, comparing, handler, loop>>
    BY <1>9, RequestFrame DEF AiAnswers, DeliverResult, ResultAckWaitExpires, Consume, taskVars
  <2> QED BY <1>2, <2>1 DEF HandlerCopies
<1>10. ASSUME SkipDivergence \/ LoadForDivergence
       PROVE  /\ \A d \in Dispatches : DispatchCopy(d)'
              /\ \A o \in Ops : OpCopy(o)'
              /\ comparing' # Idle => comparing'.session = session'
              /\ HandlerCopies'
  <2>1. UNCHANGED <<session, pipelines, dispatch, ops, handler, loop>>
    BY <1>10 DEF SkipDivergence, LoadForDivergence, DivergenceQuery, taskVars, resultVars, natsVars
  <2>2. comparing' # Idle => comparing'.session = session'
    BY <1>10 DEF SkipDivergence, LoadForDivergence, Compared
  <2> QED BY <1>2, <2>1, <2>2 DEF DispatchCopy, OpCopy, HandlerCopies
<1>11. CASE NeedsReconciliation
  <2>1. comparing' = Idle
    BY <1>11 DEF NeedsReconciliation, Compared
  <2> QED BY <1>1, <1>3, <1>11, <2>1, OthersQuiet
<1>12. CASE Crash
  <2>1. /\ \A d \in Dispatches : ~InFlight(dispatch'[d])
        /\ \A o \in Ops : ~InFlight(ops'[o])
        /\ handler' = Idle /\ comparing' = Idle
    BY <1>12 DEF Crash, InFlight, Idle, Ended
  <2> QED BY <1>3, <2>1
<1>13. CASE UNCHANGED vars
  <2>1. HandlerCopies' /\ UNCHANGED <<session, pipelines, dispatch, ops, comparing>>
    BY <1>2, <1>13 DEF vars, taskVars, resultVars, divergenceVars, natsVars, HandlerCopies
  <2> QED BY <1>7, <2>1
<1> QED BY <1>4, <1>5, <1>6, <1>7, <1>8, <1>9, <1>10, <1>11, <1>12, <1>13, StepKinds
-----------------------------------------------------------------------------
(* Requests alone keep to the table                                        *)

\* What the state machine accepts is a move of the table.
LEMMA AcceptedMoves ==
    ASSUME NEW from, NEW event, NEW mode, Accepts(from, event, mode)
    PROVE  CanTransitionTo(from, TransitionSessionStatus(from, event, mode), mode)
<1>1. PICK rule \in Matching(from, event, mode) :
          TransitionSessionStatus(from, event, mode) = rule.to
  BY DEF Accepts, TransitionSessionStatus
<1> QED BY <1>1 DEF Matching, CanTransitionTo

\* The status that setting a field of a session leaves.
LEMMA StatusSet ==
    ASSUME NEW copy \in Session, NEW status, NEW archived, NEW mode
    PROVE  /\ [copy EXCEPT !.status = status].status = status
           /\ [copy EXCEPT !.status = status].mode = copy.mode
           /\ [copy EXCEPT !.status = status].archived = copy.archived
           /\ [copy EXCEPT !.status = status, !.archived = archived].status = status
           /\ [copy EXCEPT !.status = status, !.archived = archived].archived = archived
           /\ [copy EXCEPT !.mode = mode].status = copy.status
           /\ [copy EXCEPT !.mode = mode].archived = copy.archived
BY DEF Session

\* What a first dispatch and a later one make of the session.
LEMMA DispatchMoves ==
    ASSUME NEW copy \in Session
    PROVE  /\ copy.status = "CREATED" =>
                 /\ Published(FirstMessage(copy)).status = "PROCESSING"
                 /\ Published(FirstMessage(copy)).archived = copy.archived
           /\ copy.status \in {"AWAITING_INPUT", "IN_ELICITATION"} =>
                 /\ CanTransitionTo(copy.status, Published(copy).status, copy.mode)
                 /\ Published(copy).archived = copy.archived
<1>1. copy.mode \in Mode
  BY DEF Session
<1>2. ASSUME copy.status = "CREATED"
      PROVE  /\ Published(FirstMessage(copy)).status = "PROCESSING"
             /\ Published(FirstMessage(copy)).archived = copy.archived
  <2>1. FirstMessage(copy) = [copy EXCEPT !.status = "AWAITING_INPUT"]
    BY <1>1, <1>2, AcceptedTransitions, TransitionLeadsToTarget DEF FirstMessage, Target
  <2>2. /\ FirstMessage(copy) \in Session /\ FirstMessage(copy).status = "AWAITING_INPUT"
        /\ FirstMessage(copy).mode = copy.mode /\ FirstMessage(copy).archived = copy.archived
    BY <2>1 DEF Session, SessionStatus
  <2>3. TransitionSessionStatus("AWAITING_INPUT", "AI_TASK_PUBLISHED", copy.mode) = "PROCESSING"
    BY <1>1, AcceptedTransitions, TransitionLeadsToTarget DEF Target
  <2>4. Published(FirstMessage(copy)) = [FirstMessage(copy) EXCEPT !.status = "PROCESSING"]
    BY <2>2, <2>3 DEF Published
  <2> QED BY <2>2, <2>4, StatusSet
<1>3. ASSUME copy.status \in {"AWAITING_INPUT", "IN_ELICITATION"}
      PROVE  /\ CanTransitionTo(copy.status, Published(copy).status, copy.mode)
             /\ Published(copy).archived = copy.archived
  BY <1>1, <1>3, AcceptedTransitions, AcceptedMoves, StatusSet DEF Published
<1> QED BY <1>2, <1>3

LEMMA TableMove ==
    ASSUME NEW event, Accepts(session.status, event, session.mode),
           session'.status = TransitionSessionStatus(session.status, event, session.mode)
    PROVE  FsmMove
BY AcceptedMoves DEF FsmMove

\* Every save of the session, from a copy that is what is stored.
LEMMA SessionSteps ==
    ASSUME IInv, CopiesAreCurrent, [Next]_vars
    PROVE  /\ FsmMove \/ NeedsReconciliation
           /\ \/ session'.archived = session.archived
              \/ session'.archived /\ \E o \in Ops : Op(o)
<1>0. /\ session \in Session /\ handler \in HandlingResult /\ comparing \in Comparing
      /\ ops \in [Ops -> Operating]
  BY DEF IInv, TypeOK
<1>1. ASSUME session' = session
      PROVE  FsmMove
  BY <1>1 DEF FsmMove
<1>2. ASSUME NEW d \in Dispatches, MarkProcessing(d)
      PROVE  FsmMove /\ session'.archived = session.archived
  <2>1. dispatch[d].session = session
    BY <1>2 DEF MarkProcessing, CopiesAreCurrent
  <2>2. CASE session.status = "CREATED"
    <3>1. session' = Published(FirstMessage(session))
      BY <1>2, <2>1, <2>2 DEF MarkProcessing
    <3> QED BY <1>0, <2>2, <3>1, DispatchMoves DEF FsmMove
  <2>3. CASE session.status \in {"AWAITING_INPUT", "IN_ELICITATION"}
    <3>1. session' = Published(session)
      BY <1>2, <2>1, <2>3 DEF MarkProcessing
    <3> QED BY <1>0, <2>3, <3>1, DispatchMoves DEF FsmMove
  <2>4. CASE session.status \notin {"CREATED", "AWAITING_INPUT", "IN_ELICITATION"}
    <3>1. session' = session
      BY <1>2, <2>1, <2>4 DEF MarkProcessing
    <3> QED BY <1>1, <3>1
  <2> QED BY <2>2, <2>3, <2>4
<1>3. ASSUME SaveResultSession
      PROVE  FsmMove /\ session'.archived = session.archived
  <2>1. handler.session = session
    BY <1>3 DEF SaveResultSession, Handling, CopiesAreCurrent
  <2>2. /\ Accepts(session.status, "AI_RESULT_RECEIVED", session.mode)
        /\ session' = [session EXCEPT !.status =
                          TransitionSessionStatus(session.status, "AI_RESULT_RECEIVED", session.mode)]
    BY <1>0, <1>3, <2>1 DEF SaveResultSession, AcceptsResult
  <2>3. /\ session'.status = TransitionSessionStatus(session.status, "AI_RESULT_RECEIVED", session.mode)
        /\ session'.archived = session.archived
    BY <1>0, <2>2, StatusSet
  <2> QED BY <2>2, <2>3, TableMove
<1>4. ASSUME NEW o \in Ops, Op(o)
      PROVE  /\ FsmMove
             /\ session'.archived = session.archived \/ session'.archived
  <2>1. CASE LoadForOp(o) \/ ArchivePipelines(o)
    <3>1. session' = session
      BY <2>1 DEF LoadForOp, ArchivePipelines
    <3> QED BY <1>1, <3>1
  <2>2. CASE UpdateMode(o)
    <3>1. PICK mode \in Mode :
              /\ ops[o].step = "mode"
              /\ session' = IF mode = ops[o].session.mode THEN session
                            ELSE [ops[o].session EXCEPT !.mode = mode]
      BY <2>2 DEF UpdateMode, OpSaves
    <3>2. ops[o].session = session
      BY <3>1 DEF CopiesAreCurrent
    <3>3. session'.status = session.status /\ session'.archived = session.archived
      BY <1>0, <3>1, <3>2, StatusSet
    <3> QED BY <3>3 DEF FsmMove
  <2>3. CASE Finalize(o)
    <3>1. ops[o].session = session
      BY <2>3 DEF Finalize, CopiesAreCurrent
    <3>2. \/ session' = session
          \/ /\ Accepts(session.status, "USER_FINALIZES", session.mode)
             /\ session' = [session EXCEPT !.status =
                               TransitionSessionStatus(session.status, "USER_FINALIZES", session.mode)]
      BY <1>0, <2>3, <3>1 DEF Finalize, OpSaves
    <3>3. CASE session' = session
      BY <1>1, <3>3
    <3>4. CASE session' # session
      <4> DEFINE to == TransitionSessionStatus(session.status, "USER_FINALIZES", session.mode)
      <4>1. /\ Accepts(session.status, "USER_FINALIZES", session.mode)
            /\ session' = [session EXCEPT !.status = to]
        BY <3>2, <3>4
      <4>2. session'.status = to /\ session'.archived = session.archived
        BY <1>0, <4>1, StatusSet
      <4> QED BY <4>1, <4>2, TableMove
    <3> QED BY <3>3, <3>4
  <2>4. CASE Archive(o)
    <3>1. ops[o].session = session /\ session.mode \in Mode /\ session.status \in SessionStatus
      BY <1>0, <2>4 DEF Archive, CopiesAreCurrent, Session
    <3>2. session' = [session EXCEPT !.status =
                         TransitionSessionStatus(session.status, "USER_DELETES", session.mode),
                                     !.archived = TRUE]
      BY <1>0, <2>4, <3>1 DEF Archive, OpSaves
    <3>3. Accepts(session.status, "USER_DELETES", session.mode)
      BY <3>1, AcceptedTransitions
    <3>4. /\ session'.status = TransitionSessionStatus(session.status, "USER_DELETES", session.mode)
          /\ session'.archived
      BY <1>0, <3>2, StatusSet
    <3> QED BY <3>3, <3>4, TableMove
  <2>5. ASSUME NEW to \in Targets, NEW force \in BOOLEAN, OverrideStatus(o, to, force)
        PROVE  /\ FsmMove
               /\ session'.archived = session.archived \/ session'.archived
    <3>1. ops[o].session = session
      BY <2>5 DEF OverrideStatus, CopiesAreCurrent
    <3>2. CASE session' = session
      BY <1>1, <3>2
    <3>3. CASE session' # session
      <4>1. /\ force \/ CanTransitionTo(session.status, to, session.mode)
            /\ session' = [session EXCEPT !.status = to,
                                          !.archived = session.archived \/ to = "ARCHIVED"]
        BY <1>0, <2>5, <3>1, <3>3 DEF OverrideStatus, OpSaves
      <4>2. session'.status = to /\ session'.archived = (session.archived \/ to = "ARCHIVED")
        BY <1>0, <4>1, StatusSet
      <4>3. CanTransitionTo(session.status, to, session.mode) => FsmMove
        BY <4>2 DEF FsmMove
      <4>4. force = TRUE => FsmMove
        BY <2>5 DEF FsmMove
      <4>5. session'.archived = session.archived \/ session'.archived
        BY <1>0, <4>2 DEF Session
      <4> QED BY <4>1, <4>3, <4>4, <4>5
    <3> QED BY <3>2, <3>3
  <2> QED BY <1>4, <2>1, <2>2, <2>3, <2>4, <2>5 DEF Op
<1>5. ASSUME NeedsReconciliation
      PROVE  session'.archived = session.archived
  <2>1. comparing # Idle /\ comparing.session = session
    BY <1>5 DEF NeedsReconciliation, CopiesAreCurrent, Idle
  <2> QED BY <1>0, <1>5, <2>1, StatusSet DEF NeedsReconciliation
<1>6. ASSUME NEW d \in Dispatches,
             \/ Post(d) \/ Dispatch(d) \/ AiAnswers(d) \/ DeliverResult(d) \/ ResultAckWaitExpires(d),
             ~MarkProcessing(d)
      PROVE  session' = session
  BY <1>6 DEF Post, Dispatch, LoadForDispatch, CreatePipeline, PublishTask, PublishFails, SaveNatsId,
     AiAnswers, DeliverResult, ResultAckWaitExpires, Consume
<1>7. CASE Query /\ ~SaveResultSession
  <2>1. session' = session
    BY <1>7 DEF Query, Enrich, LoadPipeline, LoadSessionForResult, InsertVersion, RejectResult,
       CompletePipeline, FinishResult, LoadFailedPipeline, FailPipeline, HandlerFault
  <2> QED BY <1>1, <2>1
<1>8. CASE LoopMove \/ SkipDivergence \/ LoadForDivergence \/ Crash \/ UNCHANGED vars
  <2>1. session' = session
    BY <1>8 DEF LoopMove, Start, TakeResult, ResultHandled, AckResult, ResultThrows, ResultExhausted,
       RecordResult, TermResult, Consume, SkipDivergence, LoadForDivergence, Crash, vars
  <2> QED BY <1>1, <2>1
<1> QED BY <1>1, <1>2, <1>3, <1>4, <1>5, <1>6, <1>7, <1>8, StepKinds
-----------------------------------------------------------------------------
(* An archived session has archived pipelines                              *)

\* The three saves of a pipeline's row that keep its archived flag, and the
\* two that insert or complete the row of a dispatch.
LEMMA ArchivedSteps ==
    ASSUME IInv, CopiesAreCurrent, [Next]_vars, NEW d \in Dispatches,
           \A e \in Dispatches : ~InFlight(dispatch[e]),
           pipelines'[d].status # "none",
           pipelines[d].status # "none" => pipelines[d].archived
    PROVE  pipelines'[d].archived
<1>0. pipelines \in [Dispatches -> Pipeline] /\ handler \in HandlingResult
  BY DEF IInv, TypeOK
<1>1. CASE pipelines' = pipelines
  BY <1>1
<1>2. ASSUME NEW e \in Dispatches,
             \/ Post(e) \/ Dispatch(e) \/ AiAnswers(e) \/ DeliverResult(e) \/ ResultAckWaitExpires(e)
      PROVE  pipelines' = pipelines
  BY <1>2 DEF Post, Dispatch, LoadForDispatch, CreatePipeline, PublishTask, PublishFails,
     SaveNatsId, MarkProcessing, AiAnswers, DeliverResult, ResultAckWaitExpires, Consume, taskVars,
     InFlight
<1>3. CASE CompletePipeline
  <2>1. /\ handler.pipeline = pipelines[handler.of] /\ handler.pipeline.status # "none"
        /\ handler.of \in Dispatches
    BY <1>0, <1>3, HandlerType DEF CompletePipeline, Handling, CopiesAreCurrent, IInv, RowsExist,
       Working, Loaded
  <2>2. [handler.pipeline EXCEPT !.status = "COMPLETED"].archived = pipelines[handler.of].archived
    BY <1>0, <2>1 DEF Pipeline
  <2> QED BY <1>0, <1>3, <2>1, <2>2 DEF CompletePipeline
<1>4. CASE FailPipeline
  <2>1. /\ handler.pipeline = pipelines[loop.at.msg] /\ handler.pipeline.status # "none"
        /\ loop.at.msg \in Dispatches
    BY <1>4, AtWork DEF FailPipeline, Handling, CopiesAreCurrent, IInv, RowsExist
  <2>2. [handler.pipeline EXCEPT !.status = "FAILED"].archived = pipelines[loop.at.msg].archived
    BY <1>0, <2>1 DEF Pipeline
  <2> QED BY <1>0, <1>4, <2>1, <2>2 DEF FailPipeline
<1>5. CASE Query /\ ~CompletePipeline /\ ~FailPipeline
  BY <1>1, <1>5 DEF Query, Enrich, LoadPipeline, LoadSessionForResult, InsertVersion, SaveResultSession,
     RejectResult, FinishResult, LoadFailedPipeline, HandlerFault, HandlerQuery, taskVars
<1>6. ASSUME NEW o \in Ops, Op(o) PROVE pipelines'[d].archived
  <2>1. CASE ArchivePipelines(o)
    <3>1. [pipelines[d] EXCEPT !.archived = TRUE].archived = TRUE
      BY <1>0 DEF Pipeline
    <3>2. pipelines'[d] = IF pipelines[d] = NoPipeline THEN NoPipeline
                          ELSE [pipelines[d] EXCEPT !.archived = TRUE]
      BY <2>1 DEF ArchivePipelines
    <3> QED BY <3>1, <3>2 DEF NoPipeline
  <2>2. CASE ~ArchivePipelines(o)
    BY <1>1, <1>6, <2>2 DEF Op, LoadForOp, UpdateMode, Finalize, Archive, OverrideStatus, OpSaves, taskVars
  <2> QED BY <2>1, <2>2
<1>7. CASE SkipDivergence \/ LoadForDivergence \/ NeedsReconciliation \/ UNCHANGED vars \/ Crash
  BY <1>1, <1>7 DEF SkipDivergence, LoadForDivergence, NeedsReconciliation, DivergenceQuery, vars,
     Crash, taskVars
<1> QED BY <1>1, <1>2, <1>3, <1>4, <1>5, <1>6, <1>7, StepKinds, LoopFrame

\* DELETE /sessions/:id is between its two writes once it has archived the
\* session.
LEMMA ArchivingSteps ==
    ASSUME IInv, [Next]_vars, NEW o \in Ops, ops'[o].step = "archiving"
    PROVE  ops[o].step = "archiving" \/ Archive(o)
<1>0. ops \in [Ops -> Operating]
  BY DEF IInv, TypeOK
<1>1. ASSUME NEW p \in Ops, Op(p) PROVE ops[o].step = "archiving" \/ Archive(o)
  <2>1. CASE p = o
    <3>1. ~LoadForOp(o)
      BY <1>0 DEF LoadForOp
    <3>2. ~UpdateMode(o) /\ ~Finalize(o) /\ ~ArchivePipelines(o)
      BY <1>0 DEF UpdateMode, Finalize, OpSaves, ArchivePipelines, Ended
    <3>3. \A to \in Targets, force \in BOOLEAN : ~OverrideStatus(o, to, force)
      BY <1>0 DEF OverrideStatus, OpSaves
    <3> QED BY <1>1, <2>1, <3>1, <3>2, <3>3 DEF Op
  <2>2. CASE p # o
    BY <1>0, <1>1, <2>2 DEF Op, LoadForOp, UpdateMode, Finalize, Archive, ArchivePipelines,
       OverrideStatus, OpSaves
  <2> QED BY <2>1, <2>2
<1>2. ASSUME NEW d \in Dispatches,
             \/ Post(d) \/ Dispatch(d) \/ AiAnswers(d) \/ DeliverResult(d) \/ ResultAckWaitExpires(d)
      PROVE  ops' = ops
  BY <1>2 DEF Post, Dispatch, LoadForDispatch, CreatePipeline, PublishTask, PublishFails,
     SaveNatsId, MarkProcessing, AiAnswers, DeliverResult, ResultAckWaitExpires, Consume
<1>3. CASE Query
  BY <1>3 DEF Query, Enrich, LoadPipeline, LoadSessionForResult, InsertVersion, SaveResultSession,
     RejectResult, CompletePipeline, FinishResult, LoadFailedPipeline, FailPipeline, HandlerFault,
     HandlerQuery
<1>4. CASE LoopMove \/ SkipDivergence \/ LoadForDivergence \/ NeedsReconciliation \/ UNCHANGED vars
  BY <1>4 DEF LoopMove, Start, TakeResult, ResultHandled, AckResult, ResultThrows, ResultExhausted,
     RecordResult, TermResult, Consume, SkipDivergence, LoadForDivergence, NeedsReconciliation,
     DivergenceQuery, vars
<1>5. CASE Crash
  BY <1>5 DEF Crash, Idle, Ended
<1> QED BY <1>1, <1>2, <1>3, <1>4, <1>5, StepKinds

LEMMA PostStarts ==
    ASSUME IInv, [Next]_vars, NEW d \in Dispatches, ~InFlight(dispatch[d]), InFlight(dispatch'[d])
    PROVE  Post(d)
<1>0. dispatch \in [Dispatches -> Dispatching] /\ dispatch' # dispatch
  BY DEF IInv, TypeOK
<1>1. ASSUME NEW e \in Dispatches, Post(e) \/ Dispatch(e) PROVE Post(d)
  <2>1. ~Dispatch(d)
    BY DEF Dispatch, LoadForDispatch, CreatePipeline, PublishTask, PublishFails, SaveNatsId,
       MarkProcessing, InFlight
  <2>2. e # d => dispatch'[d] = dispatch[d]
    BY <1>0, <1>1 DEF Post, Dispatch, LoadForDispatch, CreatePipeline, PublishTask, PublishFails,
       SaveNatsId, MarkProcessing
  <2> QED BY <1>1, <2>1, <2>2
<1>2. ASSUME NEW e \in Dispatches, AiAnswers(e) \/ DeliverResult(e) \/ ResultAckWaitExpires(e)
      PROVE  dispatch' = dispatch
  BY <1>2 DEF AiAnswers, DeliverResult, ResultAckWaitExpires, Consume, taskVars
<1>3. ~Crash
  <2>1. Crash => ~InFlight(dispatch'[d])
    BY DEF Crash, InFlight, Idle, Ended
  <2> QED BY <2>1
<1> QED BY <1>0, <1>1, <1>2, <1>3, StepKinds, OtherFrame, QueryFrame, LoopFrame

\* One at a time, an archived session has no task on its way, and a deleted one
\* no pipeline that is not archived.
LEMMA ArchiveStep ==
    ASSUME IInv, CopiesAreCurrent, ArchiveIsComplete, HistoryNext, \A a, b \in Active' : a = b
    PROVE  ArchiveIsComplete'
<1>0. ops \in [Ops -> Operating] /\ session \in Session /\ [Next]_vars
  BY DEF IInv, TypeOK, HistoryNext
<1>1. Alone /\ Alone'
  BY AloneBefore, AloneAfter DEF CopiesAreCurrent
<1>2. \/ session'.archived = session.archived
      \/ session'.archived /\ \E o \in Ops : Op(o)
  BY <1>0, SessionSteps
<1>3. ASSUME NEW d \in Dispatches, InFlight(dispatch'[d]) PROVE ~session'.archived
  <2>1. ~session.archived
    <3>1. CASE InFlight(dispatch[d])
      BY <3>1 DEF ArchiveIsComplete, InFlight
    <3>2. CASE ~InFlight(dispatch[d])
      BY <1>0, <1>3, <3>2, PostStarts DEF Post
    <3> QED BY <3>1, <3>2
  <2>2. \A o \in Ops : ~Op(o)
    BY <1>0, <1>1, <1>3, OthersQuiet
  <2> QED BY <1>2, <2>1, <2>2
<1>4. ASSUME NEW o \in Ops, ops'[o].step = "archiving" PROVE session'.archived
  <2>1. CASE ops[o].step = "archiving"
    BY <1>2, <2>1 DEF ArchiveIsComplete
  <2>2. CASE Archive(o)
    <3>1. ops[o].session = session
      BY <2>2 DEF Archive, CopiesAreCurrent
    <3>2. session' = [session EXCEPT !.status =
                         TransitionSessionStatus(session.status, "USER_DELETES", session.mode),
                                     !.archived = TRUE]
      BY <1>0, <2>2, <3>1 DEF Archive, OpSaves
    <3> QED BY <1>0, <3>2, StatusSet
  <2> QED BY <1>0, <1>4, <2>1, <2>2, ArchivingSteps
<1>5. ASSUME deleted'
      PROVE  /\ session'.archived
             /\ \A d \in Dispatches : pipelines'[d].status # "none" => pipelines'[d].archived
  <2>1. ASSUME NEW o \in Ops, ArchivePipelines(o)
        PROVE  /\ session'.archived
               /\ \A d \in Dispatches : pipelines'[d].status # "none" => pipelines'[d].archived
    <3>1. session'.archived
      BY <2>1 DEF ArchivePipelines, ArchiveIsComplete
    <3>2. ASSUME NEW d \in Dispatches, pipelines'[d].status # "none" PROVE pipelines'[d].archived
      <4>1. pipelines'[d] = IF pipelines[d] = NoPipeline THEN NoPipeline
                            ELSE [pipelines[d] EXCEPT !.archived = TRUE]
        BY <2>1 DEF ArchivePipelines
      <4>2. pipelines[d] \in Pipeline
        BY DEF IInv, TypeOK
      <4> QED BY <3>2, <4>1, <4>2 DEF NoPipeline, Pipeline
    <3> QED BY <3>1, <3>2
  <2>2. CASE deleted
    <3>1. /\ session.archived
          /\ \A d \in Dispatches : pipelines[d].status # "none" => pipelines[d].archived
      BY <2>2 DEF ArchiveIsComplete
    <3>2. \A d \in Dispatches : ~InFlight(dispatch[d])
      BY <3>1 DEF ArchiveIsComplete, InFlight
    <3>3. session'.archived
      BY <1>2, <3>1
    <3> QED BY <1>0, <3>1, <3>2, <3>3, ArchivedSteps
  <2>3. deleted \/ \E o \in Ops : ArchivePipelines(o)
    BY <1>5, Zenon DEF HistoryNext
  <2> QED BY <2>1, <2>2, <2>3
<1> QED BY <1>3, <1>4, <1>5 DEF ArchiveIsComplete, InFlight

-----------------------------------------------------------------------------
(* With the history variables                                              *)

LEMMA StillAlone ==
    ASSUME HistoryNext, ~overlapped'
    PROVE  ~overlapped /\ \A a, b \in Active' : a = b
<1>1. ~overlapped
  BY Zenon DEF HistoryNext
<1>2. \A a, b \in Active' : a = b
  BY Zenon DEF HistoryNext
<1> QED BY <1>1, <1>2

LEMMA InitSerialInv == ASSUME HistoryInit PROVE SerialInv
<1>1. /\ \A d \in Dispatches : dispatch[d] = Idle
      /\ \A o \in Ops : ops[o] = Idle
      /\ handler = Idle /\ comparing = Idle /\ ~deleted
  BY DEF HistoryInit, Init
<1>2. Active = {}
  BY <1>1 DEF Active, Idle
<1>3. CopiesAreCurrent
  BY <1>1, <1>2 DEF CopiesAreCurrent, Idle
<1>4. ArchiveIsComplete
  BY <1>1 DEF ArchiveIsComplete, Idle
<1> QED BY <1>3, <1>4 DEF SerialInv

LEMMA SerialStep ==
    ASSUME IInv, SerialInv, [HistoryNext]_historyVars
    PROVE  SerialInv'
<1> SUFFICES ASSUME ~overlapped' PROVE CopiesAreCurrent' /\ ArchiveIsComplete'
  BY DEF SerialInv
<1>1. CASE HistoryNext
  <2>1. CopiesAreCurrent /\ ArchiveIsComplete /\ \A a, b \in Active' : a = b
    BY <1>1, StillAlone DEF SerialInv
  <2> QED BY <1>1, <2>1, HistorySteps, CopiesStep, ArchiveStep
<1>2. CASE UNCHANGED historyVars
  <2>1. UNCHANGED <<session, pipelines, dispatch, ops, handler, comparing, loop, overlapped, deleted>>
    BY <1>2 DEF historyVars, vars, taskVars, resultVars, divergenceVars, natsVars
  <2>2. CopiesAreCurrent /\ ArchiveIsComplete /\ Active' = Active
    BY <2>1 DEF SerialInv, Active
  <2>3. CopiesAreCurrent'
    BY <2>1, <2>2 DEF CopiesAreCurrent
  <2>4. ArchiveIsComplete'
    BY <2>1, <2>2 DEF ArchiveIsComplete
  <2> QED BY <2>3, <2>4
<1> QED BY <1>1, <1>2

\* One request or handler at a time, the copies they save are current, an
\* archived session has no task on its way, and one that DELETE went through
\* is archived with its pipelines.
THEOREM SerialInvariance == HistorySpec => []SerialInv
<1>1. HistoryInit => SerialInv
  BY InitSerialInv
<1>2. IInv /\ SerialInv /\ [HistoryNext]_historyVars => SerialInv'
  BY SerialStep
<1> QED BY <1>1, <1>2, HistoryIInv, PTL DEF HistorySpec

\* One request at a time, DELETE /sessions/:id archives the session together
\* with every pipeline for good, whatever results, failures, crashes and
\* overrides come after.
THEOREM ArchiveCovers == HistorySpec => []SerialArchiveCoversPipelines
<1>1. SerialInv => SerialArchiveCoversPipelines
  BY DEF SerialInv, ArchiveIsComplete, SerialArchiveCoversPipelines
<1> QED BY <1>1, SerialInvariance, PTL

\* One at a time, a session's status changes by the rules of session-fsm.ts
\* or by force; the handler of divergence results alone goes past them.
THEOREM TableIsKept == HistorySpec => OnlyDivergenceLeavesTheTable
<1>1. IInv /\ SerialInv /\ [HistoryNext]_historyVars
      => [overlapped \/ FsmMove \/ NeedsReconciliation]_vars
  <2> SUFFICES ASSUME IInv, SerialInv, [HistoryNext]_historyVars, ~overlapped
               PROVE  FsmMove \/ NeedsReconciliation
    OBVIOUS
  <2>1. CopiesAreCurrent
    BY Zenon DEF SerialInv
  <2> QED BY <2>1, HistorySteps, SessionSteps
<1> QED BY <1>1, HistoryIInv, SerialInvariance, PTL DEF HistorySpec, OnlyDivergenceLeavesTheTable
=============================================================================
