-------------------------- MODULE MCOfflinePatrol --------------------------
(* One node under the patrol; times in units of 30 s.  The grace is that   *)
(* of a rule of 120 s, so that one round without rows fits into it; the    *)
(* flap window is scaled from 20 units to 12, the refire time from 10 to 7. *)
EXTENDS OfflinePatrol

CONSTANT MaxMissed   \* bound: rounds without rows while a node is silent

MCNext == Next /\ \A n \in Nodes : missed'[n] <= MaxMissed

MCSpec == Init /\ [][MCNext]_vars
=============================================================================
