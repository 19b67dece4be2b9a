------------------------- MODULE MCAlertTransition -------------------------
(* A small instance of AlertTransition: one metric rule and one offline    *)
(* rule on one node, two concurrent samples and the patrol.                *)
EXTENDS AlertTransition, TLC

CONSTANTS r1, r2, n1

MCDuration == (r1 :> 1) @@ (r2 :> 0)
=============================================================================
