------------------------ MODULE MCNodeRegistration ------------------------
(* A small instance of NodeRegistration: two nodes, so that a batch has    *)
(* more than one to revoke, two overlapping requests, two keys, a          *)
(* connection.                                                             *)
EXTENDS NodeRegistration
=============================================================================
