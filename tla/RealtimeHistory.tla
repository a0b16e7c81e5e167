--------------------------- MODULE RealtimeHistory ---------------------------
(***************************************************************************)
(* Realtime with history variables that guard no step: who has listened    *)
(* since a message was published, and how often its lookup failed.         *)
(***************************************************************************)
EXTENDS Realtime

VARIABLES
    watching, \* <<socket, message, route>>: in the room since the message was published
    failed    \* per message: the lookups of its document that failed

historyVars == <<vars, watching, failed>>

\* Who is in a room a new message stands for.
Audience(new) ==
    {w \in Sockets \X new \X (Event \X Joinable) : w[3] \in Routes(w[2])}

HistoryInit == Init /\ watching = {} /\ failed = [m \in Messages |-> 0]

HistoryNext ==
    /\ Next
    /\ watching' = {w \in watching \union Audience(published' \ published) :
                        w[3][2] \in rooms'[w[1]]}
    /\ failed' = [m \in Messages |->
                     IF \E i \in inbox : i.message = m /\ LookUpFails(i)
                     THEN failed[m] + 1 ELSE failed[m]]

HistorySpec == HistoryInit /\ [][HistoryNext]_historyVars

-----------------------------------------------------------------------------
(* Properties                                                              *)

\* A client that is in a room a message names, from its publication to its
\* settlement, has got every event the message stands for there, whoever else
\* joins, leaves or disconnects, however often the message is delivered, and
\* although lookups of its document fail; unless the lookup failed on every
\* one of the MaxDeliver deliveries, which ends the message.
ListenersMissNothing ==
    \A w \in watching :
        \/ w[3] \in received[w[1]]
        \/ \E i \in inbox : i.message = w[2]
        \/ failed[w[2]] >= MaxDeliver

-----------------------------------------------------------------------------
(* What makes it inductive                                                 *)

\* The listeners told of are in the rooms of what the message stands for.
ListenersListen ==
    \A w \in watching :
        /\ w[1] \in Sockets /\ w[2] \in Messages
        /\ w[3] \in Routes(w[2]) /\ w[3][2] \in rooms[w[1]]

\* For a listener who has not got an event, every delivery that was used up
\* is a lookup that failed.
OnlyLookupsFail ==
    \A w \in watching :
        \/ w[3] \in received[w[1]]
        \/ \E i \in inbox : i.message = w[2] /\ i.delivery <= failed[w[2]] + 1
        \/ failed[w[2]] >= MaxDeliver

ListenersInv == failed \in [Messages -> Nat] /\ ListenersListen /\ OnlyLookupsFail
=============================================================================
