------------------------------ MODULE SessionFsm ----------------------------
(***************************************************************************)
(* The session state machine of session-fsm.ts: the table                  *)
(* SESSION_TRANSITIONS and the two functions that read it.                 *)
(***************************************************************************)
SessionStatus ==
    {"CREATED", "AWAITING_INPUT", "PROCESSING", "DRAFT_READY",
     "NEEDS_RECONCILIATION", "IN_ELICITATION", "IN_REVIEW", "VALIDATED",
     "EXPORTED", "ARCHIVED", "ERROR"}

Mode == {"AUTO", "INTERACTIVE"}

SessionFsmEvent ==
    {"FIRST_USER_MESSAGE", "AI_TASK_PUBLISHED", "AI_RESULT_RECEIVED",
     "AI_QUESTION_RECEIVED", "USER_ANSWER_POSTED", "DIVERGENCE_DETECTED",
     "DIVERGENCE_RESOLVED", "ENTER_REVIEW", "VALIDATE", "EXPORT_COMPLETED",
     "USER_FINALIZES", "PIPELINE_ERROR", "USER_DELETES"}

\* A rule without a mode applies in both.
Rule(from, event, to) == [from |-> from, event |-> event, to |-> to, modes |-> Mode]

SESSION_TRANSITIONS ==
    { Rule("CREATED", "FIRST_USER_MESSAGE", "AWAITING_INPUT"),
      Rule("AWAITING_INPUT", "AI_TASK_PUBLISHED", "PROCESSING"),
      Rule("PROCESSING", "AI_RESULT_RECEIVED", "DRAFT_READY"),
      [from |-> "PROCESSING", event |-> "AI_QUESTION_RECEIVED",
       to |-> "IN_ELICITATION", modes |-> {"INTERACTIVE"}],
      Rule("IN_ELICITATION", "USER_ANSWER_POSTED", "PROCESSING"),
      Rule("IN_ELICITATION", "AI_TASK_PUBLISHED", "PROCESSING"),
      Rule("DRAFT_READY", "AI_TASK_PUBLISHED", "PROCESSING"),
      Rule("DRAFT_READY", "AI_RESULT_RECEIVED", "DRAFT_READY"),
      Rule("DRAFT_READY", "DIVERGENCE_DETECTED", "NEEDS_RECONCILIATION"),
      Rule("NEEDS_RECONCILIATION", "DIVERGENCE_RESOLVED", "DRAFT_READY"),
      Rule("DRAFT_READY", "ENTER_REVIEW", "IN_REVIEW"),
      Rule("IN_REVIEW", "VALIDATE", "VALIDATED"),
      Rule("VALIDATED", "EXPORT_COMPLETED", "EXPORTED") }
    \union { Rule(from, "USER_FINALIZES", "DRAFT_READY") :
               from \in SessionStatus \ {"VALIDATED", "EXPORTED", "ARCHIVED", "ERROR"} }
    \union { Rule(from, "PIPELINE_ERROR", "ERROR") : from \in SessionStatus }
    \union { Rule(from, "USER_DELETES", "ARCHIVED") : from \in SessionStatus }

Matching(from, event, mode) ==
    { rule \in SESSION_TRANSITIONS :
        rule.from = from /\ rule.event = event /\ mode \in rule.modes }

\* The code takes the first matching rule and throws when there is none; that
\* no two rules match the same arguments is theorem TransitionIsDeterministic.
Accepts(from, event, mode) == Matching(from, event, mode) # {}

TransitionSessionStatus(from, event, mode) ==
    (CHOOSE rule \in Matching(from, event, mode) : TRUE).to

CanTransitionTo(from, to, mode) ==
    \E rule \in SESSION_TRANSITIONS :
        rule.from = from /\ rule.to = to /\ mode \in rule.modes
=============================================================================
