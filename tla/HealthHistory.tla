---------------------------- MODULE HealthHistory ----------------------------
(***************************************************************************)
(* Health with a history variable that guards no step: the services nobody *)
(* was told about.                                                         *)
(***************************************************************************)
EXTENDS Health

VARIABLE silent \* services whose status is that of the first result, which is never alerted

alertsVars == <<healthVars, silent>>

Cached(s) == IF cache # NoResult /\ s \in DOMAIN cache.result THEN cache.result[s].status ELSE NoResult

AlertsInit == HealthInit /\ silent = {}

AlertsNext ==
    /\ HealthNext
    /\ silent' = {s \in Services : Cached(s)' \in {"degraded", "down"}
                     /\ (cache = NoResult \/ (s \in silent /\ Cached(s)' = Cached(s)))}

AlertsSpec == AlertsInit /\ [][AlertsNext]_alertsVars

-----------------------------------------------------------------------------
(* Properties                                                              *)

\* Those who only listen to the alerts know of every service that is cached
\* as degraded or down, and which of the two it is, whichever checks overlap;
\* but for what was so in the first result after the start.
AlertsTellTheCache ==
    \A s \in Services :
        Cached(s) \in {"degraded", "down"} => s \in silent \/ alerted[s] = Cached(s)
=============================================================================
