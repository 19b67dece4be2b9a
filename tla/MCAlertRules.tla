---------------------------- MODULE MCAlertRules ----------------------------
(* A small instance of AlertRules: a metric rule that fires at once, one   *)
(* node, a sample evaluated while two handlers run.                        *)
EXTENDS AlertRules

MCDuration == [r \in Rules |-> 0]
=============================================================================
