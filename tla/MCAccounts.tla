---------------------------- MODULE MCAccounts ----------------------------
(* A small instance of Accounts: two accounts, two requests in flight and  *)
(* two sessions.  A behaviour uses the operations of one family only, with *)
(* logins throughout: the instance is the union of those behaviours.       *)
EXTENDS Accounts, TLC

VARIABLE offered

Families == {AdminOps \ {"delete"}, {"create", "demote", "delete"}, TwoFactorOps,
             {"create", "delete", "password"}, {"setup2fa", "enable2fa", "password"}}

MCInit == Init /\ offered \in Families

MCNext ==
    /\ Next
    /\ \A p \in Requests : req'[p].op \in offered \cup {"idle", "login"}
    /\ UNCHANGED offered

MCSpec == MCInit /\ [][MCNext]_<<vars, offered>>

Symmetry == Permutations(Users) \cup Permutations(Requests)
            \cup Permutations(Tokens) \cup Permutations(Passwords)
            \cup Permutations(Secrets) \cup Permutations(Codes)
=============================================================================
