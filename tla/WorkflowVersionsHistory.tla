----------------------- MODULE WorkflowVersionsHistory -----------------------
(***************************************************************************)
(* WorkflowVersions with a history variable that guards no step: whether   *)
(* two writers have ever been in flight together.                          *)
(***************************************************************************)
EXTENDS WorkflowVersions

VARIABLE overlapped

historyVars == <<vars, overlapped>>

InFlight ==
    {r \in Requests : request[r].step \notin Ended}
        \cup (IF ai.step = "idle" THEN {} ELSE {ai.result})
        \cup (IF creation \in {"row", "version"} THEN {Creator} ELSE {})

HistoryInit == Init /\ overlapped = FALSE

HistoryNext ==
    /\ Next
    /\ overlapped' = (overlapped \/ \E a, b \in InFlight' : a # b)

HistorySpec == HistoryInit /\ [][HistoryNext]_historyVars

-----------------------------------------------------------------------------
(* Properties                                                              *)

\* As long as one writer at a time touches the workflow, current_version names
\* the latest version again whenever nothing is in flight, unless a creation
\* or a result was cut short between the version and the row.
CurrentIsLatestAtRest ==
    /\ ~overlapped /\ AtRest
    /\ creation \in {"none", "done"}
    /\ \A res \in Results : ~Interrupted(res)
    => workflow.currentVersion = Latest

\* And update() then computes a number that is taken only after such a cut:
\* with no overlap and no failure every PATCH that makes a version succeeds.
SerialRequestsSucceed ==
    [][\A r \in Requests : ~overlapped /\ Refuses(r) =>
          \/ creation = "failed"
          \/ \E res \in Results : Interrupted(res) /\ Versions(res) # {}]_vars

-----------------------------------------------------------------------------
(* What makes them inductive                                               *)

\* A creation or a result has stopped, or may yet, between version and row.
CutShort ==
    \/ creation \in {"version", "failed"}
    \/ \E res \in Results : Interrupted(res) /\ Versions(res) # {}

\* What the only writer in flight has read is still so.
ReadsStand ==
    /\ creation \in {"none", "row"} => Latest = 0
    /\ creation = "version" => Latest = 1
    /\ \A r \in Requests :
          /\ request[r].step \in {"txRead", "txWrite", "save"} =>
                request[r].entity.currentVersion = workflow.currentVersion
          /\ request[r].step = "txWrite" => request[r].version = workflow.currentVersion + 1
    /\ ai.step = "insert" => ai.version = Latest + 1
    /\ ai.step = "save" => ai.entity.currentVersion = Latest
    /\ ai.step = "rest" => workflow.currentVersion = Latest

OneAtATime == \A a, b \in InFlight : a = b

\* The row is an older number than the latest version only after a cut.
RowIsCurrent == workflow.currentVersion = Latest \/ CutShort

\* Nothing runs on a workflow that does not exist yet.
CreatedFirst == creation = "none" => InFlight = {}

\* A result in hand is delivered and not settled; when the handler reaches the
\* save of the workflow, its version is there.
HandlingTells ==
    /\ ai.step # "idle" => Interrupted(ai.result)
    /\ ai.step = "save" => Versions(ai.result) # {}

SerialInv ==
    /\ CreatedFirst
    /\ HandlingTells
    /\ ~overlapped => OneAtATime /\ ReadsStand /\ RowIsCurrent
=============================================================================
