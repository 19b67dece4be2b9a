---------------------------- MODULE Connections ----------------------------
(* What the modules about the way down to the agents share: conn_loop of   *)
(* ws_agent.rs is written once and serves triggers (UpgradeChannel) and    *)
(* the report interval (Settings) side by side.                            *)

CONSTANTS
    Nodes,
    Conns       \* connection loops the server may be running at a time
=============================================================================
