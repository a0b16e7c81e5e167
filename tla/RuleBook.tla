------------------------------- MODULE RuleBook -----------------------------
(***************************************************************************)
(* The rules of one organization and RulesService: creation, PATCH,        *)
(* activation, deactivation, deletion and import, the rule_version         *)
(* snapshots, and the two caches the process keeps, of the active rules    *)
(* and of simulation results.                                              *)
(*                                                                         *)
(* A rule is reduced to where it applies (its type, scope, target agent    *)
(* and workflow together), what it says (condition and instruction) and    *)
(* the columns active and version.  Two rules that say different things    *)
(* stand for rules with overlapping conditions that contradict.  Each      *)
(* awaited call is a step; save writes back the entity loaded before.      *)
(***************************************************************************)
EXTENDS Naturals, Sequences, FiniteSets, SequencesExt

CONSTANTS
    Rules,        \* identifiers of rules
    Requests,     \* requests to RulesService, each served once
    Scopes,       \* where a rule may apply
    Instructions, \* what a rule may say
    Contradictable, \* the scopes whose type is in CONTRADICTABLE_RULE_TYPES
    NoRule,       \* no row, no cached result, no rule meant
    NoCache,      \* no unexpired entry in activeRuleCache
    MaxBundle,    \* bound on the rules of an import
    MaxFaults     \* bound on failures of a call

ASSUME RBAssumption ==
    /\ Contradictable \subseteq Scopes
    /\ NoRule \notin Rules
    /\ MaxFaults \in Nat /\ MaxBundle \in Nat

VARIABLES
    rules,           \* the rule table
    history,         \* per rule: its rule_version rows
    activeRuleCache, \* the active rules as some query saw them
    simulationCache, \* per rule: the row the result was made with
    request,         \* per request: step and locals
    faults           \* failures so far

rulesVars == <<rules, history, activeRuleCache, simulationCache, request, faults>>

Row == [scope : Scopes, instruction : Instructions, active : BOOLEAN, version : Nat \ {0}]
Table == [Rules -> Row \union {NoRule}]
Fact == [instruction : Instructions, active : BOOLEAN, version : Nat \ {0}]

\* What a rule_version row keeps of a rule.
Recorded(row) ==
    [instruction |-> row.instruction, active |-> row.active, version |-> row.version]

Existing == {id \in Rules : rules[id] # NoRule}
ActiveIds == {id \in Existing : rules[id].active}

\* What a query for active rules returns, a table without the others.
ActiveRules == [id \in Rules |-> IF id \in ActiveIds THEN rules[id] ELSE NoRule]

Pool(found) == {found[id] : id \in {i \in Rules : found[i] # NoRule}}

Idle == [step |-> "idle"]
Ended == [step |-> "ended"]
Creating == [step : {"check", "save"}, rule : {NoRule}, copy : {NoRule}, next : Row]
Changing == [step : {"check", "snapshot", "save"}, rule : Rules, copy : Row, next : Row]
Auditing == [step : {"audit"}, rule : Rules \union {NoRule}]
Simulating == [step : {"simulate"}, rule : Rules, with : Row]
Filling == [step : {"found"}, found : Table]
Importing == [step : {"saveAll"}, bundle : Seq(Row)]
Serving ==
    Creating \union Changing \union Auditing \union Simulating \union Filling
    \union Importing \union {[step |-> "pool"]}

RulesTypeOK ==
    /\ rules \in Table
    /\ history \in [Rules -> SUBSET Fact]
    /\ activeRuleCache \in Table \union {NoCache}
    /\ simulationCache \in Table
    /\ request \in [Requests -> {Idle, Ended} \union Serving]
    /\ faults \in 0..MaxFaults

\* ensureNoConflict against a pool: the conditions overlap, the instructions
\* differ.
Contradicts(candidate, row) ==
    /\ candidate.active /\ candidate.scope \in Contradictable
    /\ row.instruction # candidate.instruction

\* Without a pool: the other active rules that apply in the same place.
Rivals(candidate, exclude) ==
    {rules[id] : id \in {i \in ActiveIds \ {exclude} : rules[i].scope = candidate.scope}}

Agree(table) ==
    \A a, b \in table :
        a.active /\ b.active /\ a.scope = b.scope => ~Contradicts(a, b)

\* An organization whose rules were created, active, one at a time.
RulesInit ==
    /\ rules \in [Rules -> [scope : Scopes, instruction : Instructions,
                           active : {TRUE}, version : {1}] \union {NoRule}]
    /\ Agree({rules[id] : id \in Existing})
    /\ history = [id \in Rules |-> {}]
    /\ activeRuleCache = NoCache
    /\ simulationCache = [id \in Rules |-> NoRule]
    /\ request = [r \in Requests |-> Idle]
    /\ faults = 0

Goes(r, to) == request' = [request EXCEPT ![r] = to]

Begins(r, to) == request[r] = Idle /\ Goes(r, to)

Tables == <<rules, history>>
Caches == <<activeRuleCache, simulationCache>>
-----------------------------------------------------------------------------
(* Requests that write one rule. *)

Create(r) ==
    /\ \E scope \in Scopes, instruction \in Instructions :
          Begins(r, [step |-> "check", rule |-> NoRule, copy |-> NoRule,
                     next |-> [scope |-> scope, instruction |-> instruction,
                               active |-> TRUE, version |-> 1]])
    /\ UNCHANGED <<Tables, Caches, faults>>

\* The request has loaded a rule and will store it changed, one version on.
Changes(r, id, first, instruction, active) ==
    /\ Begins(r, [step |-> first, rule |-> id, copy |-> rules[id],
                  next |-> [rules[id] EXCEPT !.instruction = instruction,
                                             !.active = active,
                                             !.version = @ + 1]])
    /\ UNCHANGED <<Tables, Caches, faults>>

\* PATCH: without a change it ends here; a rule left inactive is not checked.
LoadForUpdate(r, id) ==
    \E instruction \in Instructions, active \in BOOLEAN :
        /\ <<instruction, active>> # <<rules[id].instruction, rules[id].active>>
        /\ Changes(r, id, IF active THEN "check" ELSE "snapshot", instruction, active)

LoadForActivate(r, id) ==
    /\ ~rules[id].active
    /\ Changes(r, id, "check", rules[id].instruction, TRUE)

\* deactivate, and softDelete of an active rule.
LoadForDeactivate(r, id) ==
    /\ rules[id].active
    /\ Changes(r, id, "snapshot", rules[id].instruction, FALSE)

\* softDelete of an inactive rule only writes the audit row.
LoadForDelete(r, id) ==
    /\ ~rules[id].active
    /\ Begins(r, [step |-> "audit", rule |-> id])
    /\ UNCHANGED <<Tables, Caches, faults>>

Load(r) ==
    \E id \in Existing :
        \/ LoadForUpdate(r, id) \/ LoadForActivate(r, id)
        \/ LoadForDeactivate(r, id) \/ LoadForDelete(r, id)

\* ensureNoConflict; a conflict answers 409.
Check(r) ==
    LET at == request[r]
    IN  /\ at.step = "check"
        /\ Goes(r, IF \E row \in Rivals(at.next, at.rule) : Contradicts(at.next, row)
                     THEN Ended
                     ELSE [at EXCEPT !.step = IF at.rule = NoRule THEN "save" ELSE "snapshot"])
        /\ UNCHANGED <<Tables, Caches, faults>>

\* Mutant: the snapshot is taken of the new contents.
SnapshotNext(r) ==
    LET at == request[r]
    IN  /\ at.step = "snapshot"
        /\ history' = [history EXCEPT ![at.rule] = @ \union {Recorded(at.next)}]
        /\ Goes(r, [at EXCEPT !.step = "save"])
        /\ UNCHANGED <<rules, Caches, faults>>

\* The row as it was loaded goes to rule_version.
Snapshot(r) ==
    LET at == request[r]
    IN  /\ at.step = "snapshot"
        /\ history' = [history EXCEPT ![at.rule] = @ \union {Recorded(at.copy)}]
        /\ Goes(r, [at EXCEPT !.step = "save"])
        /\ UNCHANGED <<rules, Caches, faults>>

Save(r) ==
    LET at == request[r]
    IN  /\ at.step = "save"
        /\ \E id \in IF at.rule = NoRule THEN Rules \ Existing ELSE {at.rule} :
              /\ rules' = [rules EXCEPT ![id] = at.next]
              /\ Goes(r, [step |-> "audit", rule |-> id])
        /\ UNCHANGED <<history, Caches, faults>>

\* Mutant: a single rule's request leaves activeRuleCache alone.
AuditKeepsCache(r) ==
    LET at == request[r]
    IN  /\ at.step = "audit"
        /\ activeRuleCache' = IF at.rule = NoRule THEN NoCache ELSE activeRuleCache
        /\ simulationCache' = [id \in Rules |-> IF id = at.rule THEN NoRule ELSE simulationCache[id]]
        /\ Goes(r, Ended)
        /\ UNCHANGED <<Tables, faults>>

\* The audit row, then both invalidations; an import has no simulations.
Audit(r) ==
    LET at == request[r]
    IN  /\ at.step = "audit"
        /\ activeRuleCache' = NoCache
        /\ simulationCache' = [id \in Rules |-> IF id = at.rule THEN NoRule ELSE simulationCache[id]]
        /\ Goes(r, Ended)
        /\ UNCHANGED <<Tables, faults>>
-----------------------------------------------------------------------------
(* Requests that need the active rules: import, and the context of a       *)
(* dispatch or preview.                                                    *)

Bundles ==
    SeqOf([scope : Scopes, instruction : Instructions, active : BOOLEAN, version : {1}],
          MaxBundle)

NeedActiveRules(r) ==
    /\ Begins(r, [step |-> "pool"])
    /\ UNCHANGED <<Tables, Caches, faults>>

\* Mutant: the rules of the bundle are not checked against each other.
AdmitsEach(bundle, pool) ==
    \A i \in DOMAIN bundle : \A row \in pool : ~Contradicts(bundle[i], row)

\* Every active item is checked against the pool and the items before it,
\* wherever they apply and whether or not they are active.
Admits(bundle, pool) ==
    \A i \in DOMAIN bundle :
        \A row \in pool \union {bundle[j] : j \in 1..(i - 1)} : ~Contradicts(bundle[i], row)

\* A dispatch or preview is served, an import refused, or its bundle admitted.
AfterPool(r, pool) ==
    \/ Goes(r, Ended)
    \/ \E bundle \in Bundles :
          Admits(bundle, pool) /\ Goes(r, [step |-> "saveAll", bundle |-> bundle])

CacheHit(r) ==
    /\ request[r].step = "pool"
    /\ activeRuleCache # NoCache
    /\ AfterPool(r, Pool(activeRuleCache))
    /\ UNCHANGED <<Tables, Caches, faults>>

QueryActive(r) ==
    /\ request[r].step = "pool"
    /\ activeRuleCache = NoCache
    /\ Goes(r, [step |-> "found", found |-> ActiveRules])
    /\ UNCHANGED <<Tables, Caches, faults>>

\* The continuation of the query stores what it found, however long ago.
FillCache(r) ==
    /\ request[r].step = "found"
    /\ activeRuleCache' = request[r].found
    /\ AfterPool(r, Pool(request[r].found))
    /\ UNCHANGED <<Tables, simulationCache, faults>>

SaveAll(r) ==
    LET bundle == request[r].bundle
    IN  /\ request[r].step = "saveAll"
        /\ \E ids \in Injection(DOMAIN bundle, Rules \ Existing) :
              rules' = [id \in Rules |->
                          IF \E i \in DOMAIN bundle : ids[i] = id
                          THEN bundle[CHOOSE i \in DOMAIN bundle : ids[i] = id]
                          ELSE rules[id]]
        /\ Goes(r, [step |-> "audit", rule |-> NoRule])
        /\ UNCHANGED <<history, Caches, faults>>
-----------------------------------------------------------------------------
(* testRule: a cached result answers at once. *)

LoadForTest(r) ==
    /\ \E id \in {i \in Existing : simulationCache[i] = NoRule} :
          Begins(r, [step |-> "simulate", rule |-> id, with |-> rules[id]])
    /\ UNCHANGED <<Tables, Caches, faults>>

Simulated(r) ==
    LET at == request[r]
    IN  /\ at.step = "simulate"
        /\ simulationCache' = [simulationCache EXCEPT ![at.rule] = at.with]
        /\ Goes(r, Ended)
        /\ UNCHANGED <<Tables, activeRuleCache, faults>>
-----------------------------------------------------------------------------
InFlight == {r \in Requests : request[r] \notin {Idle, Ended}}

\* A call of the request fails; what it has stored stays, and nothing that
\* comes after it happens, the invalidations included.
Fails(r) ==
    /\ r \in InFlight
    /\ faults < MaxFaults
    /\ faults' = faults + 1
    /\ Goes(r, Ended)
    /\ UNCHANGED <<Tables, Caches>>

\* The time to live of an entry is over.
Expires ==
    /\ \/ activeRuleCache # NoCache /\ activeRuleCache' = NoCache /\ UNCHANGED simulationCache
       \/ \E id \in Rules :
             /\ simulationCache[id] # NoRule
             /\ simulationCache' = [simulationCache EXCEPT ![id] = NoRule]
             /\ UNCHANGED activeRuleCache
    /\ UNCHANGED <<Tables, request, faults>>

ServiceDies ==
    /\ InFlight # {}
    /\ activeRuleCache' = NoCache
    /\ simulationCache' = [id \in Rules |-> NoRule]
    /\ request' = [r \in Requests |-> IF r \in InFlight THEN Ended ELSE request[r]]
    /\ UNCHANGED <<Tables, faults>>

Serve(r) ==
    \/ Create(r) \/ Load(r) \/ Check(r) \/ Snapshot(r) \/ Save(r) \/ Audit(r)
    \/ NeedActiveRules(r) \/ CacheHit(r) \/ QueryActive(r) \/ FillCache(r) \/ SaveAll(r)
    \/ LoadForTest(r) \/ Simulated(r)

RulesNext == (\E r \in Requests : Serve(r) \/ Fails(r)) \/ Expires \/ ServiceDies

RulesSpec == RulesInit /\ [][RulesNext]_rulesVars
-----------------------------------------------------------------------------
(* Properties *)

\* BE-19: creating or activating a conflicting rule answers 409, so no two
\* active rules contradict each other.  The check and the save are apart, and
\* two requests may each pass the check before the other saves.
ActiveRulesAgree == Agree(Pool(ActiveRules))

\* What a request overwrites in a rule is in rule_version.
OverwritesAreRecorded(id) ==
    rules'[id] # rules[id] /\ rules[id] # NoRule => Recorded(rules[id]) \in history[id]

StaleCache == activeRuleCache # NoCache /\ activeRuleCache # ActiveRules

StaleSimulation(id) == simulationCache[id] # NoRule /\ simulationCache[id] # rules[id]

\* Requests that have stored a change and not yet invalidated the caches.
Pending == {r \in Requests : request[r].step = "audit"}
=============================================================================
