--------------------------- MODULE RuleBookHistory ---------------------------
(***************************************************************************)
(* RuleBook with history: whether two requests were ever on their way      *)
(* together, and which cache entries have an excuse to be stale.  The      *)
(* history guards no step.                                                 *)
(***************************************************************************)
EXTENDS RuleBook

VARIABLES
    overlapped, \* two requests were on their way together
    excused,    \* the entry of activeRuleCache may be stale
    excusedFor  \* the rules whose entry of simulationCache may be stale

rulesHistoryVars == <<rulesVars, overlapped, excused, excusedFor>>

RulesHistoryInit == RulesInit /\ overlapped = FALSE /\ excused = FALSE /\ excusedFor = {}

\* Requests that stored a change and now fail before they invalidate.
Cut == {r \in Pending : faults' > faults /\ request'[r] # request[r]}

\* An entry is excused as long as it is kept, if it was stored stale (its query
\* or simulation is older than a save), or would have been invalidated had its
\* last call not failed.
RulesHistoryNext ==
    /\ RulesNext
    /\ overlapped' = (overlapped \/ \E r, s \in Requests : r # s /\ {r, s} \subseteq InFlight')
    /\ excused' = (activeRuleCache' # NoCache
                   /\ (excused \/ (StaleCache' /\ activeRuleCache' # activeRuleCache) \/ Cut # {}))
    /\ excusedFor' = {id \in Rules :
          /\ simulationCache'[id] # NoRule
          /\ \/ id \in excusedFor
             \/ StaleSimulation(id)' /\ simulationCache'[id] # simulationCache[id]
             \/ \E r \in Cut : request[r].rule = id}

RulesHistorySpec == RulesHistoryInit /\ [][RulesHistoryNext]_rulesHistoryVars

-----------------------------------------------------------------------------
(* Properties                                                              *)

\* Every change of a rule reaches the caches: an entry differs from the table
\* only between a save and the invalidation that follows it, or when it was
\* stored from a query that began before that save, or after a failed call.
StaleHasAReason ==
    /\ StaleCache => Pending # {} \/ excused
    /\ \A id \in Rules : StaleSimulation(id) =>
          id \in excusedFor \/ \E r \in Pending : request[r].rule = id

\* The state is well formed and no cache entry is stale without one of these
\* reasons.
RulesConsistent == RulesTypeOK /\ StaleHasAReason

\* As long as requests come one at a time and no call fails, no two active
\* rules contradict each other, whichever way they became active.
SerialRulesAgree == ~overlapped /\ faults = 0 => ActiveRulesAgree

\* As long as requests come one at a time, crashes and failures included, no
\* version of a rule is overwritten without a row in rule_version.
SerialOverwritesRecorded ==
    [][\A id \in Rules : overlapped \/ OverwritesAreRecorded(id)]_rules

-----------------------------------------------------------------------------
(* What makes them inductive                                               *)

Alone == \A r, s \in InFlight : r = s

\* A request that has no company holds the row as it is, and has recorded it
\* before it saves.
CopyIsCurrent(r) ==
    request[r].step \in {"check", "snapshot", "save"} /\ request[r].rule # NoRule =>
        /\ request[r].copy = rules[request[r].rule]
        /\ request[r].step = "save" => Recorded(request[r].copy) \in history[request[r].rule]

\* What a request has found out about the active rules is still so when it
\* writes.
FindingsHold(r) ==
    /\ request[r].step \in {"snapshot", "save"} =>
          \A row \in Rivals(request[r].next, request[r].rule) : ~Contradicts(request[r].next, row)
    /\ request[r].step = "found" => request[r].found = ActiveRules
    /\ request[r].step = "saveAll" => Admits(request[r].bundle, Pool(ActiveRules))

SerialCopies == overlapped \/ (Alone /\ \A r \in Requests : CopyIsCurrent(r))

SerialFindings ==
    overlapped \/ faults # 0
    \/ /\ StaleCache => Pending # {}
       /\ ActiveRulesAgree
       /\ \A r \in Requests : FindingsHold(r)

RulesInv ==
    /\ RulesConsistent
    /\ overlapped \in BOOLEAN
    /\ SerialCopies
    /\ SerialFindings
=============================================================================
