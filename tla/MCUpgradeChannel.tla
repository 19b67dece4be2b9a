-------------------------- MODULE MCUpgradeChannel --------------------------
(* Small instances of UpgradeChannel: two nodes that share two connection  *)
(* loops, so that one node may have an old and a new connection.           *)
EXTENDS UpgradeChannel
=============================================================================
