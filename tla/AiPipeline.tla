------------------------------ MODULE AiPipeline ----------------------------
(***************************************************************************)
(* One session and its AI work: the requests that dispatch tasks           *)
(* (SessionMessagesController.createMessage, SessionsService.              *)
(* dispatchAiTask, AIGatewayService.publishAiTask), the durable consumer   *)
(* of ai.tasks.result (NatsDelivery, enrichResultPayload,                  *)
(* GenerationCompleteHandler, RetryExhaustedHandler), the consumer of      *)
(* ai.tasks.divergence.result, and the other requests that write the       *)
(* session.                                                                *)
(*                                                                         *)
(* Every save writes back all columns of an entity loaded at an earlier    *)
(* await; the copies are kept in the steps.  The AI service is external:   *)
(* it answers a task once, after any delay, with a payload that names the  *)
(* task, as the contract of ai.tasks.result has it, or with the simplified *)
(* one that enrichResultPayload is written for, which names only the       *)
(* session.                                                                *)
(***************************************************************************)
EXTENDS Naturals, Sequences, FiniteSets, SequencesExt, SessionFsm

CONSTANTS
    Dispatches,   \* POST /sessions/:id/messages requests; also their tasks and results
    Ops,          \* other requests on the session
    Targets,      \* statuses an administrator may ask for
    SlowAi,       \* the AI answers only after the dispatching request has ended
    MaxDeliver, Prompt, MaxCrash,   \* see NatsDelivery
    MaxFaults,    \* bound on failures of a query or of a publish
    Fresh         \* an idempotency key made from the clock

ASSUME AiPipelineAssumption ==
    /\ MaxDeliver \in Nat \ {0} /\ MaxCrash \in Nat /\ MaxFaults \in Nat
    /\ {SlowAi, Prompt} \subseteq BOOLEAN
    /\ Targets \subseteq SessionStatus
    /\ Fresh \notin {"correlation", "message"} \X Dispatches

VARIABLES
    session,      \* the session row
    pipelines,    \* per dispatch: its pipeline_execution row
    order,        \* the dispatches with a row, by created_at
    dispatch,     \* per dispatch: where its request is, with its session copy
    tasks,        \* tasks the AI service has received and not answered
    handler,      \* what the handler of ai.tasks.result is doing
    handled,      \* handledIds of GenerationCompleteHandler
    versions,     \* per result: workflow versions inserted from it
    divergences,  \* divergence results still to be handled, by correlation_id
    comparing,    \* what DivergenceResultHandler is doing
    compared,     \* handledIds of DivergenceResultHandler
    ops,          \* per other request: where it is, with its session copy
    faults,       \* failures so far
    named,        \* results with their correlation_id and pipeline_execution_id
    consumer, stream, count, buffer, loop, applied, dlq, crashes

Nats == INSTANCE NatsDelivery WITH Msgs <- Dispatches, HasExhausted <- TRUE

natsVars == <<named, consumer, stream, count, buffer, loop, applied, dlq, crashes>>
taskVars == <<pipelines, order, dispatch, tasks>>
resultVars == <<handler, handled, versions>>
divergenceVars == <<divergences, comparing, compared>>
vars == <<session, taskVars, resultVars, divergenceVars, ops, faults, natsVars>>

NoPipeline == [status |-> "none", natsId |-> FALSE, archived |-> FALSE]
Idle == [step |-> "idle"]
Ended == [step |-> "ended"]

Session == [status : SessionStatus, mode : Mode, archived : BOOLEAN]
Pipeline == [status : {"none", "PENDING", "COMPLETED", "FAILED"},
             natsId : BOOLEAN, archived : BOOLEAN]

\* Idempotency keys: the correlation_id of a task, the nats_message_id of its
\* pipeline, or neither.
CorrelationOf(d) == <<"correlation", d>>
MessageOf(d) == <<"message", d>>
Keys == ({"correlation", "message"} \X Dispatches) \union {Fresh}

\* Where the request of a dispatch, the handler of results, the handler of
\* divergence results and another request may be, with what they hold.
Dispatching ==
    [step : {"idle", "posted", "ended"}]
    \union [step : {"loaded", "created", "published", "saved"}, session : Session]

HandlingResult ==
    [step : {"idle", "enrich", "return", "throw", "record", "loadFailed"}]
    \union [step : {"loadPipeline"}, of : Dispatches, key : Keys]
    \union [step : {"loadSession", "savePipeline"}, of : Dispatches, key : Keys,
            pipeline : Pipeline]
    \union [step : {"insert", "saveSession"}, of : Dispatches, key : Keys,
            pipeline : Pipeline, session : Session]
    \union [step : {"finish"}, key : Keys]
    \union [step : {"saveFailed"}, pipeline : Pipeline]

Comparing == {Idle} \union [step : {"save"}, session : Session]

Operating ==
    [step : {"idle", "archiving", "ended"}]
    \union [step : {"mode", "finalize", "archive", "override"}, session : Session]

TypeOK ==
    /\ session \in Session
    /\ pipelines \in [Dispatches -> Pipeline]
    /\ order \in Seq(Dispatches) /\ IsInjective(order)
    /\ dispatch \in [Dispatches -> Dispatching]
    /\ tasks \subseteq Dispatches
    /\ handler \in HandlingResult
    /\ handled \subseteq Keys \ {Fresh} /\ compared \subseteq Keys \ {Fresh}
    /\ versions \in [Dispatches -> 0..MaxDeliver]
    /\ divergences \in Seq(Keys)
    /\ comparing \in Comparing
    /\ ops \in [Ops -> Operating]
    /\ faults \in 0..MaxFaults
    /\ named \subseteq Dispatches
    /\ Nats!TypeOK

Init ==
    /\ session \in {[status |-> "CREATED", mode |-> m, archived |-> FALSE] : m \in Mode}
    /\ pipelines = [d \in Dispatches |-> NoPipeline]
    /\ order = <<>>
    /\ dispatch = [d \in Dispatches |-> Idle]
    /\ tasks = {}
    /\ handler = Idle /\ handled = {}
    /\ versions = [d \in Dispatches |-> 0]
    /\ divergences = <<>> /\ comparing = Idle /\ compared = {}
    /\ ops = [o \in Ops |-> Idle]
    /\ faults = 0
    /\ named = {}
    /\ Nats!Init

Up == loop.state # "down"

Fault == faults < MaxFaults /\ faults' = faults + 1
-----------------------------------------------------------------------------
(* Dispatching a task: POST /sessions/:id/messages with a user message. *)

\* createMessage: an archived session takes no message.
Post(d) ==
    /\ Up
    /\ dispatch[d].step = "idle"
    /\ ~session.archived
    /\ dispatch' = [dispatch EXCEPT ![d] = [step |-> "posted"]]
    /\ UNCHANGED <<session, pipelines, order, tasks, resultVars, divergenceVars, ops, faults, natsVars>>

\* dispatchAiTask loads the session, archived or not.
LoadForDispatch(d) ==
    /\ dispatch[d].step = "posted"
    /\ dispatch' = [dispatch EXCEPT ![d] = [step |-> "loaded", session |-> session]]
    /\ UNCHANGED <<session, pipelines, order, tasks, resultVars, divergenceVars, ops, faults, natsVars>>

CreatePipeline(d) ==
    /\ dispatch[d].step = "loaded"
    /\ dispatch' = [dispatch EXCEPT ![d].step = "created"]
    /\ pipelines' = [pipelines EXCEPT ![d] = [NoPipeline EXCEPT !.status = "PENDING"]]
    /\ order' = Append(order, d)
    /\ UNCHANGED <<session, tasks, resultVars, divergenceVars, ops, faults, natsVars>>

PublishTask(d) ==
    /\ dispatch[d].step = "created"
    /\ dispatch' = [dispatch EXCEPT ![d].step = "published"]
    /\ tasks' = tasks \union {d}
    /\ UNCHANGED <<session, pipelines, order, resultVars, divergenceVars, ops, faults, natsVars>>

\* The publish fails and the request with it; the server may have the task.
PublishFails(d) ==
    /\ dispatch[d].step = "created"
    /\ Fault
    /\ dispatch' = [dispatch EXCEPT ![d] = Ended]
    /\ tasks' \in {tasks, tasks \union {d}}
    /\ UNCHANGED <<session, pipelines, order, resultVars, divergenceVars, ops, natsVars>>

\* The entity saved is the one CreatePipeline inserted.
SaveNatsId(d) ==
    /\ dispatch[d].step = "published"
    /\ dispatch' = [dispatch EXCEPT ![d].step = "saved"]
    /\ pipelines' = [pipelines EXCEPT ![d] =
                        [status |-> "PENDING", natsId |-> TRUE, archived |-> FALSE]]
    /\ UNCHANGED <<session, order, tasks, resultVars, divergenceVars, ops, faults, natsVars>>

Published(copy) ==
    [copy EXCEPT !.status = TransitionSessionStatus(@, "AI_TASK_PUBLISHED", copy.mode)]

FirstMessage(copy) ==
    [copy EXCEPT !.status = TransitionSessionStatus(@, "FIRST_USER_MESSAGE", copy.mode)]

\* Mutant: the status is set whatever the session's status was.
MarkProcessingAlways(d) ==
    /\ dispatch[d].step = "saved"
    /\ session' = [dispatch[d].session EXCEPT !.status = "PROCESSING"]
    /\ dispatch' = [dispatch EXCEPT ![d] = Ended]
    /\ UNCHANGED <<pipelines, order, tasks, resultVars, divergenceVars, ops, faults, natsVars>>

\* What dispatchAiTask stores, from the copy it loaded before the publish.
MarkProcessing(d) ==
    LET copy == dispatch[d].session
    IN  /\ dispatch[d].step = "saved"
        /\ session' = CASE copy.status = "CREATED" -> Published(FirstMessage(copy))
                        [] copy.status \in {"AWAITING_INPUT", "IN_ELICITATION"} -> Published(copy)
                        [] OTHER -> session
        /\ dispatch' = [dispatch EXCEPT ![d] = Ended]
        /\ UNCHANGED <<pipelines, order, tasks, resultVars, divergenceVars, ops, faults, natsVars>>

Dispatch(d) ==
    \/ LoadForDispatch(d) \/ CreatePipeline(d) \/ PublishTask(d) \/ PublishFails(d)
    \/ SaveNatsId(d) \/ MarkProcessing(d)

\* The AI service publishes its result, in either form.
AiAnswers(d) ==
    /\ d \in tasks
    /\ SlowAi => dispatch[d].step = "ended"
    /\ tasks' = tasks \ {d}
    /\ named' \in {named, named \union {d}}
    /\ Nats!Publish(d)
    /\ UNCHANGED <<session, pipelines, order, dispatch, resultVars, divergenceVars, ops, faults>>
-----------------------------------------------------------------------------
(* The consumer of ai.tasks.result.  Each handler step is one await. *)

Consume(action) ==
    /\ action
    /\ UNCHANGED <<session, taskVars, handled, versions, divergenceVars, ops, faults, named>>

DeliverResult(d) == Consume(Nats!Deliver(d) /\ UNCHANGED handler)

ResultAckWaitExpires(d) == Consume(Nats!AckWaitExpires(d) /\ UNCHANGED handler)

TakeResult == Consume(Nats!Take /\ handler' = [step |-> "enrich"])

\* Mutant: a result is taken for the latest pipeline though it names its own.
PipelineOfLatest(result) == Last(order)

\* The pipeline a result is taken for: the one it names, or else the latest of
\* the session.
PipelineOf(result) == IF result \in named THEN result ELSE Last(order)

\* Mutant: the key is always taken from the latest pipeline.
KeyOfLatest(result) == MessageOf(Last(order))

\* The idempotency key that goes with it: the correlation_id of the payload, or
\* else the latest pipeline's nats_message_id, if it has been saved by now.
KeyOf(result) ==
    CASE result \in named -> CorrelationOf(result)
      [] result \notin named /\ pipelines[Last(order)].natsId -> MessageOf(Last(order))
      [] OTHER -> Fresh

Handling(step) == handler.step = step

HandlerQuery == UNCHANGED <<taskVars, handled, divergenceVars, ops, faults, natsVars>>

\* Mutant: the handler does not look into handledIds.
EnrichUnchecked ==
    LET result == loop.at.msg
    IN  /\ Handling("enrich")
        /\ handler' = [step |-> "loadPipeline", of |-> PipelineOf(result),
                       key |-> KeyOf(result)]
        /\ UNCHANGED <<session, versions>>
        /\ HandlerQuery

\* enrichResultPayload, then isAlreadyHandled.
Enrich ==
    LET result == loop.at.msg
    IN  /\ Handling("enrich")
        /\ handler' = IF KeyOf(result) \in handled
                        THEN [step |-> "return"]
                        ELSE [step |-> "loadPipeline", of |-> PipelineOf(result),
                              key |-> KeyOf(result)]
        /\ UNCHANGED <<session, versions>>
        /\ HandlerQuery

LoadPipeline ==
    /\ Handling("loadPipeline")
    /\ handler' = [step |-> "loadSession", of |-> handler.of, key |-> handler.key,
                   pipeline |-> pipelines[handler.of]]
    /\ UNCHANGED <<session, versions>>
    /\ HandlerQuery

LoadSessionForResult ==
    /\ Handling("loadSession")
    /\ handler' = [step |-> "insert", of |-> handler.of, key |-> handler.key,
                   pipeline |-> handler.pipeline, session |-> session]
    /\ UNCHANGED <<session, versions>>
    /\ HandlerQuery

\* createWorkflowVersionFromResult and the save of the workflow, whose races
\* are WorkflowVersions' subject.
InsertVersion ==
    /\ Handling("insert")
    /\ versions' = [versions EXCEPT ![loop.at.msg] = @ + 1]
    /\ handler' = [handler EXCEPT !.step = "saveSession"]
    /\ UNCHANGED session
    /\ HandlerQuery

AcceptsResult(copy) == Accepts(copy.status, "AI_RESULT_RECEIVED", copy.mode)

\* Mutant: the session is saved without its new status.
SaveResultSessionForgets ==
    /\ Handling("saveSession")
    /\ AcceptsResult(handler.session)
    /\ session' = handler.session
    /\ handler' = [step |-> "savePipeline", of |-> handler.of, key |-> handler.key,
                   pipeline |-> handler.pipeline]
    /\ UNCHANGED versions
    /\ HandlerQuery

SaveResultSession ==
    LET copy == handler.session
    IN  /\ Handling("saveSession")
        /\ AcceptsResult(copy)
        /\ session' = [copy EXCEPT !.status =
                          TransitionSessionStatus(@, "AI_RESULT_RECEIVED", copy.mode)]
        /\ handler' = [step |-> "savePipeline", of |-> handler.of, key |-> handler.key,
                       pipeline |-> handler.pipeline]
        /\ UNCHANGED versions
        /\ HandlerQuery

\* The state machine throws, after the version has been inserted.
RejectResult ==
    /\ Handling("saveSession")
    /\ ~AcceptsResult(handler.session)
    /\ handler' = [step |-> "throw"]
    /\ UNCHANGED <<session, versions>>
    /\ HandlerQuery

\* Mutant: the pipeline is saved without its new status.
CompletePipelineForgets ==
    /\ Handling("savePipeline")
    /\ pipelines' = [pipelines EXCEPT ![handler.of] = handler.pipeline]
    /\ handler' = [step |-> "finish", key |-> handler.key]
    /\ UNCHANGED <<session, order, dispatch, tasks, handled, versions, divergenceVars, ops, faults, natsVars>>

CompletePipeline ==
    /\ Handling("savePipeline")
    /\ pipelines' = [pipelines EXCEPT ![handler.of] =
                        [handler.pipeline EXCEPT !.status = "COMPLETED"]]
    /\ handler' = [step |-> "finish", key |-> handler.key]
    /\ UNCHANGED <<session, order, dispatch, tasks, handled, versions, divergenceVars, ops, faults, natsVars>>

\* The intent and generated snapshots and the report on the two; the result of
\* the divergence task published for it comes back with its correlation_id.
CompareGraphs(key) == divergences' = Append(divergences, key)

\* The bound of 10000 keys is not reached.
MarkHandled(key) == handled' = handled \union ({key} \ {Fresh})

\* After the message and the audit row.
FinishResult ==
    /\ Handling("finish")
    /\ CompareGraphs(handler.key)
    /\ MarkHandled(handler.key)
    /\ handler' = [step |-> "return"]
    /\ UNCHANGED <<session, taskVars, versions, comparing, compared, ops, faults, natsVars>>

\* A query or a publish of the handler fails.
HandlerFault ==
    /\ \E step \in {"enrich", "loadPipeline", "loadSession", "insert",
                    "saveSession", "savePipeline", "finish"} : Handling(step)
    /\ Fault
    /\ handler' = [step |-> "throw"]
    /\ UNCHANGED <<session, taskVars, handled, versions, divergenceVars, ops, natsVars>>

ResultHandled == Handling("return") /\ Consume(Nats!HandlerReturns /\ handler' = Idle)

AckResult == Consume(Nats!Ack /\ UNCHANGED handler)

ResultThrows == Handling("throw") /\ Consume(Nats!HandlerThrows /\ handler' = Idle)

\* Mutant: the exhausted result is recorded, its pipeline is not looked up.
ResultExhaustedRecordsOnly ==
    /\ Handling("throw")
    /\ Consume(Nats!HandlerThrowsLast /\ handler' = [step |-> "record"])

\* RetryExhaustedHandler fails the pipeline the payload names, if it names one.
ResultExhausted ==
    /\ Handling("throw")
    /\ Consume(/\ Nats!HandlerThrowsLast
               /\ handler' = [step |-> IF loop.at.msg \in named THEN "loadFailed" ELSE "record"])

LoadFailedPipeline ==
    /\ Handling("loadFailed")
    /\ handler' = [step |-> "saveFailed", pipeline |-> pipelines[loop.at.msg]]
    /\ UNCHANGED <<session, versions>>
    /\ HandlerQuery

FailPipeline ==
    /\ Handling("saveFailed")
    /\ pipelines' = [pipelines EXCEPT ![loop.at.msg] =
                        [handler.pipeline EXCEPT !.status = "FAILED"]]
    /\ handler' = [step |-> "record"]
    /\ UNCHANGED <<session, order, dispatch, tasks, handled, versions, divergenceVars, ops, faults, natsVars>>

RecordResult == Handling("record") /\ Consume(Nats!RecordFailure /\ handler' = Idle)

TermResult == Consume(Nats!Term /\ UNCHANGED handler)

ConsumeResult ==
    \/ TakeResult \/ Enrich \/ LoadPipeline \/ LoadSessionForResult
    \/ InsertVersion \/ SaveResultSession \/ RejectResult \/ CompletePipeline \/ FinishResult
    \/ ResultHandled \/ AckResult \/ ResultThrows \/ ResultExhausted
    \/ LoadFailedPipeline \/ FailPipeline \/ RecordResult \/ TermResult
-----------------------------------------------------------------------------
(* The consumer of ai.tasks.divergence.result, one event at a time.  An    *)
(* event stays at the head until it is handled, so a crash redelivers it.  *)

DivergenceQuery == UNCHANGED <<taskVars, resultVars, ops, faults, natsVars>>

Compared ==
    /\ compared' = compared \union ({Head(divergences)} \ {Fresh})
    /\ divergences' = Tail(divergences)
    /\ comparing' = Idle

\* The similarity reaches the threshold, or the key was handled already.
SkipDivergence ==
    /\ Up /\ comparing = Idle /\ divergences # <<>>
    /\ Compared
    /\ UNCHANGED session
    /\ DivergenceQuery

LoadForDivergence ==
    /\ Up /\ comparing = Idle /\ divergences # <<>>
    /\ Head(divergences) \notin compared
    /\ comparing' = [step |-> "save", session |-> session]
    /\ UNCHANGED <<session, divergences, compared>>
    /\ DivergenceQuery

\* The status is assigned without asking the state machine.
NeedsReconciliation ==
    /\ comparing.step = "save"
    /\ session' = [comparing.session EXCEPT !.status = "NEEDS_RECONCILIATION"]
    /\ Compared
    /\ DivergenceQuery
-----------------------------------------------------------------------------
(* Other requests: PATCH mode, POST finalize, DELETE, PATCH status. *)

LoadForOp(o) ==
    /\ Up
    /\ ops[o] = Idle
    /\ \E step \in {"mode", "finalize", "archive", "override"} :
          ops' = [ops EXCEPT ![o] = [step |-> step, session |-> session]]
    /\ UNCHANGED <<session, taskVars, resultVars, divergenceVars, faults, natsVars>>

OpSaves(o, step, saved, next) ==
    /\ ops[o].step = step
    /\ session' = saved
    /\ ops' = [ops EXCEPT ![o] = [step |-> next]]
    /\ UNCHANGED <<taskVars, resultVars, divergenceVars, faults, natsVars>>

UpdateMode(o) ==
    \E mode \in Mode :
        OpSaves(o, "mode",
                IF mode = ops[o].session.mode THEN session
                ELSE [ops[o].session EXCEPT !.mode = mode],
                "ended")

Finalize(o) ==
    /\ ops[o].step = "finalize"
    /\ LET copy == ops[o].session
       IN  OpSaves(o, "finalize",
                   IF Accepts(copy.status, "USER_FINALIZES", copy.mode)
                   THEN [copy EXCEPT !.status =
                            TransitionSessionStatus(@, "USER_FINALIZES", copy.mode)]
                   ELSE session,
                   "ended")

Archive(o) ==
    /\ ops[o].step = "archive"
    /\ LET copy == ops[o].session
       IN  OpSaves(o, "archive",
                   [copy EXCEPT !.status = TransitionSessionStatus(@, "USER_DELETES", copy.mode),
                                !.archived = TRUE],
                   "archiving")

\* Mutant: archive saves the session and leaves the pipelines alone.
ArchiveForgetsPipelines(o) ==
    /\ ops[o].step = "archiving"
    /\ ops' = [ops EXCEPT ![o] = Ended]
    /\ UNCHANGED <<session, taskVars, resultVars, divergenceVars, faults, natsVars>>

\* archive updates the pipeline rows in one statement.
ArchivePipelines(o) ==
    /\ ops[o].step = "archiving"
    /\ pipelines' = [d \in Dispatches |->
                        IF pipelines[d] = NoPipeline THEN NoPipeline
                        ELSE [pipelines[d] EXCEPT !.archived = TRUE]]
    /\ ops' = [ops EXCEPT ![o] = Ended]
    /\ UNCHANGED <<session, order, dispatch, tasks, resultVars, divergenceVars, faults, natsVars>>

OverrideStatus(o, to, force) ==
    /\ ops[o].step = "override"
    /\ LET copy == ops[o].session
       IN  OpSaves(o, "override",
                   IF force \/ CanTransitionTo(copy.status, to, copy.mode)
                   THEN [copy EXCEPT !.status = to, !.archived = @ \/ to = "ARCHIVED"]
                   ELSE session,
                   "ended")

Op(o) ==
    \/ LoadForOp(o) \/ UpdateMode(o) \/ Finalize(o) \/ Archive(o) \/ ArchivePipelines(o)
    \/ \E to \in Targets, force \in BOOLEAN : OverrideStatus(o, to, force)
-----------------------------------------------------------------------------
Start == Consume(Nats!Subscribe /\ UNCHANGED handler)

\* Everything in memory goes: requests, handlers and their handledIds.
Crash ==
    /\ Nats!Crash
    /\ dispatch' = [d \in Dispatches |-> IF dispatch[d] = Idle THEN Idle ELSE Ended]
    /\ ops' = [o \in Ops |-> IF ops[o] = Idle THEN Idle ELSE Ended]
    /\ handler' = Idle /\ handled' = {}
    /\ comparing' = Idle /\ compared' = {}
    /\ UNCHANGED <<session, pipelines, order, tasks, versions, divergences, faults, named>>

Next ==
    \/ Start
    \/ \E d \in Dispatches :
          Post(d) \/ Dispatch(d) \/ AiAnswers(d) \/ DeliverResult(d) \/ ResultAckWaitExpires(d)
    \/ ConsumeResult \/ HandlerFault
    \/ SkipDivergence \/ LoadForDivergence \/ NeedsReconciliation
    \/ \E o \in Ops : Op(o)
    \/ Crash

\* Requests, handlers and the server make progress, the process is restarted,
\* and the AI service answers every task it has; nobody has to post anything.
Fairness ==
    /\ WF_vars(Start)
    /\ WF_vars(ConsumeResult)
    /\ \A d \in Dispatches :
          /\ WF_vars(Dispatch(d)) /\ WF_vars(AiAnswers(d))
          /\ WF_vars(DeliverResult(d)) /\ WF_vars(ResultAckWaitExpires(d))

Spec == Init /\ [][Next]_vars

\* The requests and handlers in flight.
Active ==
    {<<"dispatch", d>> : d \in {c \in Dispatches : dispatch[c].step \notin {"idle", "ended"}}}
    \union {<<"op", o>> : o \in {p \in Ops : ops[p].step \notin {"idle", "ended"}}}
    \union (IF handler = Idle THEN {} ELSE {<<"handler", "result">>})
    \union (IF comparing = Idle THEN {} ELSE {<<"handler", "divergence">>})
-----------------------------------------------------------------------------
(* What the properties speak of *)

\* A result that names no task has made a version.
AnonymousApplied == \E e \in Dispatches \ named : versions[e] > 0

\* The moves of session.status that transitionSessionStatus makes or an
\* administrator forces; a first dispatch takes two rules at once.
FsmMove ==
    \/ session'.status = session.status
    \/ CanTransitionTo(session.status, session'.status, session.mode)
    \/ session.status = "CREATED" /\ session'.status = "PROCESSING"
    \/ \E o \in Ops, to \in Targets : OverrideStatus(o, to, TRUE)

-----------------------------------------------------------------------------
(* What holds in every reachable state, however tasks overlap *)

Loaded == {"loadSession", "insert", "saveSession", "savePipeline"}
Working == {"loadPipeline"} \union Loaded

\* The handler works on the delivery the loop has in hand, and on no other.
HandlerFollowsLoop ==
    /\ handler.step \in {"loadFailed", "saveFailed", "record"} <=> loop.state = "exhausting"
    /\ handler.step \in Working \union {"enrich", "finish", "return", "throw"}
          <=> loop.state = "handling"
    /\ handler.step \in {"loadFailed", "saveFailed"} => loop.at.msg \in named

\* Only a result that is out can name its task, and one that does is taken for
\* its pipeline under its correlation_id; another has the nats_message_id of
\* the pipeline it is taken for as its key, or a fresh one.
KeysFollowPayloads ==
    /\ \A d \in named : stream[d] # "unsent"
    /\ handler.step \in Working \union {"finish"} => handler.key \notin handled
    /\ handler.step \in Working \union {"finish"} /\ loop.at.msg \in named =>
          handler.key = CorrelationOf(loop.at.msg)
    /\ handler.step \in Working =>
          IF loop.at.msg \in named THEN handler.of = loop.at.msg
          ELSE handler.key = Fresh \/ (handler.key = MessageOf(handler.of) /\ pipelines[handler.of].natsId)
    /\ handler.step \in Loaded /\ loop.at.msg \notin named /\ handler.key # Fresh =>
          handler.pipeline.natsId
    /\ handler.step = "finish" /\ loop.at.msg \notin named =>
          \/ handler.key = Fresh
          \/ \E p \in Dispatches : handler.key = MessageOf(p) /\ pipelines[p].natsId

\* A delivery inserts one version at most: those still to be handled are
\* numbered above the versions of their result.
VersionsFollowDeliveries ==
    /\ \A d \in Dispatches : versions[d] <= count[d]
    /\ \A i \in DOMAIN buffer : versions[buffer[i].msg] < buffer[i].count
    /\ handler.step \in {"enrich", "loadPipeline", "loadSession", "insert"} =>
          versions[loop.at.msg] < loop.at.count

\* What was handled made a version, or stands for an anonymous result that did.
HandledMeansApplied ==
    /\ \A d \in Dispatches : CorrelationOf(d) \in handled => versions[d] > 0
    /\ \A p \in Dispatches : MessageOf(p) \in handled => AnonymousApplied
    /\ handler.step \in {"saveSession", "savePipeline", "finish"} => versions[loop.at.msg] > 0
    /\ handler.step = "return" \/ loop.state = "handled" =>
          versions[loop.at.msg] > 0 \/ (loop.at.msg \notin named /\ AnonymousApplied)
    /\ \A d \in Dispatches : stream[d] = "acked" =>
          versions[d] > 0 \/ (d \notin named /\ AnonymousApplied)
    /\ \A d \in Dispatches : pipelines[d].status = "COMPLETED" =>
          versions[d] > 0 \/ AnonymousApplied

\* A dispatch without a row is at its beginning, and one whose result has come
\* is over if the AI is slow.
DispatchesInOrder ==
    /\ \A d \in Dispatches :
          /\ dispatch[d].step \in {"idle", "posted", "loaded"} => pipelines[d] = NoPipeline
          /\ pipelines[d].status # "none" <=> \E i \in DOMAIN order : order[i] = d
    /\ SlowAi => \A d \in Dispatches : stream[d] # "unsent" => dispatch[d].step = "ended"

\* A task, its result and the handler of it have the row of the pipeline.
RowsExist ==
    /\ \A d \in Dispatches :
          \/ d \in tasks
          \/ stream[d] # "unsent"
          \/ dispatch[d].step \in {"created", "published", "saved"}
          => pipelines[d].status # "none"
    /\ handler.step \in Working => pipelines[handler.of].status # "none"
    /\ handler.step \in Loaded \union {"saveFailed"} => handler.pipeline.status # "none"

\* The divergence handler works on the event at the head.
HeadIsCompared == comparing # Idle => divergences # <<>>

\* The pipeline a result names is FAILED before the result is recorded, unless
\* an anonymous result is taken for it afterwards.
FailedBeforeRecorded ==
    SlowAi =>
        /\ handler.step = "record" /\ loop.at.msg \in named =>
              pipelines[loop.at.msg].status = "FAILED"
        /\ \A d \in named : dlq[d] > 0 =>
              \/ pipelines[d].status = "FAILED"
              \/ pipelines[d].status = "COMPLETED" /\ AnonymousApplied

IInv ==
    /\ TypeOK /\ Nats!IInv
    /\ HandlerFollowsLoop /\ KeysFollowPayloads
    /\ VersionsFollowDeliveries /\ HandledMeansApplied
    /\ DispatchesInOrder /\ RowsExist /\ HeadIsCompared /\ FailedBeforeRecorded
=============================================================================
