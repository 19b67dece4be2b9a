----------------------------- MODULE SampleLog -----------------------------
(***************************************************************************)
(* What the reporting of samples promises, without connections, messages,  *)
(* time or tokens.  Samples are numbered as they are taken.  The agent     *)
(* keeps what it could not send, always the newest ones; a sample leaves   *)
(* the agent once and never comes back, reaches the database at most once, *)
(* and while older samples are kept no younger one overtakes them.         *)
(***************************************************************************)
EXTENDS Integers, FiniteSets

CONSTANT Capacity   \* samples the agent keeps

VARIABLES
    count,     \* samples taken so far
    kept,      \* samples the agent holds
    transit,   \* samples given to a connection, neither stored nor lost yet
    stored     \* samples in the database

vars == <<count, kept, transit, stored>>

Init == count = 0 /\ kept = {} /\ transit = {} /\ stored = {}

\* The newest samples of 1..n that fit beside each other.
Newest(S, n) == {s \in S : s > n - Capacity}

\* A sample is taken and kept; the oldest one kept makes room for it.
Keep ==
    /\ count' = count + 1
    /\ kept' = Newest(kept \cup {count + 1}, count + 1)
    /\ UNCHANGED <<transit, stored>>

\* A sample is taken and sent at once, which only an agent that keeps none does.
SendNow ==
    /\ kept = {}
    /\ count' = count + 1
    /\ \E sent \in {{}, {count + 1}} : transit' = transit \cup sent
    /\ UNCHANGED <<kept, stored>>

\* The oldest samples kept are sent; a dead connection swallows them.
SendKept ==
    /\ \E last \in kept :
          LET oldest == {s \in kept : s =< last}
          IN  /\ kept' = kept \ oldest
              /\ \E sent \in {{}, oldest} : transit' = transit \cup sent
    /\ UNCHANGED <<count, stored>>

\* Samples in transit are stored, others lost.
Settle ==
    /\ \E done \in SUBSET transit :
          /\ transit' = transit \ done
          /\ \E new \in SUBSET done : stored' = stored \cup new
    /\ UNCHANGED <<count, kept>>

\* The agent is started again and forgets what it kept; its connection dies.
Forget ==
    /\ kept' = {}
    /\ transit' \in SUBSET transit
    /\ UNCHANGED <<count, stored>>

Next == Keep \/ SendNow \/ SendKept \/ Settle \/ Forget

Spec == Init /\ [][Next]_vars

=============================================================================
