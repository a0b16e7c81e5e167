-------------------------- MODULE AiPipelineHistory --------------------------
(***************************************************************************)
(* AiPipeline with history variables that guard no step: what ran          *)
(* together, what was handled to the end, and whether the session was      *)
(* deleted.                                                                *)
(***************************************************************************)
EXTENDS AiPipeline

VARIABLES
    overlapped,  \* two requests or handlers were in flight together
    crossed,     \* two tasks were open together
    finished,    \* results handled to the end in this life, under a key
    deleted      \* DELETE /sessions/:id went through

historyVars == <<vars, overlapped, crossed, finished, deleted>>

\* From the row of its pipeline to the last delivery of its result.
Open(d) ==
    /\ pipelines[d].status # "none"
    /\ \/ dispatch[d].step # "ended"
       \/ d \in tasks
       \/ stream[d] \in {"due", "waiting"}
       \/ Nats!Held(d)

HistoryInit ==
    /\ Init
    /\ overlapped = FALSE /\ crossed = FALSE /\ finished = {} /\ deleted = FALSE

HistoryNext ==
    /\ Next
    /\ overlapped' = (overlapped \/ \E a, b \in Active' : a # b)
    /\ crossed' = (crossed \/ \E d, e \in Dispatches : d # e /\ Open(d)' /\ Open(e)')
    /\ finished' = {d \in Dispatches :
          /\ crashes' = crashes
          /\ d \in finished \/ (FinishResult /\ handler.key # Fresh /\ loop.at.msg = d)}
    /\ deleted' = (deleted \/ \E o \in Ops : ArchivePipelines(o))

HistorySpec == HistoryInit /\ [][HistoryNext]_historyVars

-----------------------------------------------------------------------------
(* Properties                                                              *)

\* A result that was acknowledged has been applied: the idempotency check of
\* GenerationCompleteHandler skips only what an earlier delivery of the same
\* result inserted.  Only one that names no task may be skipped for another,
\* and only if tasks of the session were open together.
AcknowledgedMeansApplied ==
    \A d \in Dispatches : stream[d] = "acked" =>
        versions[d] > 0 \/ (crossed /\ d \notin named /\ AnonymousApplied)

\* The state is well formed and no result is acknowledged unapplied.
ResultsConsistent == TypeOK /\ AcknowledgedMeansApplied

\* A pipeline shown as COMPLETED has a version made from its own result, unless
\* tasks were open together and a result that names none was taken for it.
CompletedMeansApplied ==
    \A d \in Dispatches : pipelines[d].status = "COMPLETED" =>
        versions[d] > 0 \/ (crossed /\ AnonymousApplied)

\* Once a result has been handled to the end, no later delivery of it inserts
\* another version before a restart empties handledIds: always if it names its
\* task, else as long as no two tasks were open together.  A result that comes
\* before the nats_message_id is saved has no key to be remembered by.
HandledNotReapplied ==
    [][\A d \in finished : d \in named \/ ~crossed => versions'[d] = versions[d]]_vars

\* The pipeline that a result names is FAILED when its deliveries are exhausted
\* (BE-10: on retry exhaustion, mark PipelineExecution.status = FAILED), unless
\* tasks crossed and an anonymous result has completed it.  RetryExhaustedHandler
\* does nothing for the pipeline of a result that names none.
ExhaustedPipelineFails ==
    \A d \in named : dlq[d] > 0 =>
        \/ pipelines[d].status = "FAILED"
        \/ crossed /\ pipelines[d].status = "COMPLETED" /\ AnonymousApplied

\* A published task ends with its pipeline COMPLETED or FAILED, but for an
\* anonymous result that was exhausted or crossed with another task.
TaskSettles ==
    \A d \in Dispatches :
        d \in tasks ~>
            \/ pipelines[d].status \in {"COMPLETED", "FAILED"}
            \/ stream[d] # "unsent" /\ d \notin named /\ (dlq[d] > 0 \/ crossed)

\* A session does not stay in PROCESSING with no task left to take it out,
\* unless a result was exhausted, which tells the session nothing, or an
\* anonymous one crossed with another task.
ProcessingEnds ==
    session.status = "PROCESSING" ~>
        \/ session.status # "PROCESSING"
        \/ \E d \in Dispatches : dlq[d] > 0
        \/ crossed /\ AnonymousApplied

\* As long as requests and handlers run one at a time, a session on which
\* DELETE /sessions/:id went through stays archived together with every
\* pipeline, whatever redeliveries, crashes and overrides of its status follow.
SerialArchiveCoversPipelines ==
    ~overlapped /\ deleted =>
        /\ session.archived
        /\ \A d \in Dispatches : pipelines[d].status # "none" => pipelines[d].archived

\* And requests and the handler of results then keep to the table: only the
\* handler of divergence results writes a status it does not allow.
\* Interleaved they do not, because each saves the copy it loaded.
OnlyDivergenceLeavesTheTable ==
    [][overlapped \/ FsmMove \/ NeedsReconciliation]_vars

-----------------------------------------------------------------------------
(* What makes them inductive                                               *)

\* One task at a time: an open task is the latest, so that its result, with or
\* without ids, is taken for its own pipeline, under a key that stands for it.
OneAtATime ==
    ~crossed =>
        /\ \A d \in Dispatches : Open(d) => order # <<>> /\ Last(order) = d
        /\ handler.step \in Working => handler.of = loop.at.msg
        /\ handler.step = "finish" /\ loop.at.msg \notin named =>
              handler.key \in {Fresh, MessageOf(loop.at.msg)}
        /\ \A p \in Dispatches : MessageOf(p) \in handled => versions[p] > 0
        /\ handler.step = "return" \/ loop.state = "handled" => versions[loop.at.msg] > 0
        /\ \A d \in Dispatches :
              stream[d] = "acked" \/ pipelines[d].status = "COMPLETED" => versions[d] > 0
        /\ SlowAi => \A d \in named : dlq[d] > 0 => pipelines[d].status = "FAILED"

\* What was handled to the end is remembered, and not begun again.
FinishedIsKept ==
    /\ \A d \in finished : d \in Dispatches /\ stream[d] # "unsent"
    /\ \A d \in finished \intersect named : CorrelationOf(d) \in handled
    /\ ~crossed => \A d \in finished \ named : MessageOf(d) \in handled /\ pipelines[d].natsId
    /\ handler.step \in Working \union {"finish"} /\ loop.at.msg \in finished =>
          crossed /\ loop.at.msg \notin named

CrossInv == OneAtATime /\ FinishedIsKept

\* Whoever is in flight is alone, and its copies are what is stored.
CopiesAreCurrent ==
    /\ \A a, b \in Active : a = b
    /\ \A d \in Dispatches :
          dispatch[d].step \in {"loaded", "created", "published", "saved"} =>
             dispatch[d].session = session
    /\ \A o \in Ops :
          ops[o].step \in {"mode", "finalize", "archive", "override"} => ops[o].session = session
    /\ comparing # Idle => comparing.session = session
    /\ handler.step \in {"insert", "saveSession"} => handler.session = session
    /\ handler.step \in {"loadSession", "insert", "saveSession", "savePipeline"} =>
          handler.pipeline = pipelines[handler.of]
    /\ handler.step = "saveFailed" => handler.pipeline = pipelines[loop.at.msg]

\* No task of an archived session is on its way, DELETE archives the pipelines
\* of a session that it has archived, and once it did all of them are.
ArchiveIsComplete ==
    /\ \A d \in Dispatches : dispatch[d].step \notin {"idle", "ended"} => ~session.archived
    /\ \A o \in Ops : ops[o].step = "archiving" => session.archived
    /\ deleted =>
          /\ session.archived
          /\ \A d \in Dispatches : pipelines[d].status # "none" => pipelines[d].archived

SerialInv == ~overlapped => CopiesAreCurrent /\ ArchiveIsComplete
=============================================================================
