----------------------------- MODULE MCSettings -----------------------------
(* A small instance of Settings: two requests, one agent whose link may    *)
(* break and be dialled again while the old loop is still running.         *)
EXTENDS Settings
=============================================================================
