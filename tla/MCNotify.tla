------------------------------ MODULE MCNotify ------------------------------
(***************************************************************************)
(* A small instance of Notify: two rules on one node.  `scene', chosen at  *)
(* the start, says what a behaviour is about.  The throttle: two workers   *)
(* announce the alerts of one rule, and logins, to two channels.  Logins:  *)
(* they announce the same login again and again.  The sweep: one worker    *)
(* and the patrol serve one channel, under silences and a changing         *)
(* interval.  Outside of logins there is one call of an administrator.     *)
(***************************************************************************)
EXTENDS Notify, TLC

CONSTANTS r1, r2, n1, c1, w1, SweepTime

VARIABLE scene

MCSeverity == (r1 :> 0) @@ (r2 :> 2)

MCInit ==
    /\ Init
    /\ scene \in {"throttle", "logins", "sweep"}
    /\ \A c \in Channels : channels[c] =
         IF c = c1 THEN [status |-> "live", min |-> IF scene = "sweep" THEN 1 ELSE 0]
         ELSE NoChannel
    /\ secs = 0 <=> scene # "sweep"
    /\ \A i \in SilenceIds : silences[i] # NoSilence =>
         scene = "sweep" /\ silences[i].rule = r1 /\ silences[i].node = None

Throttling ==
    \/ \E w \in Workers :
         \/ Raise(w, r1, n1) \/ Login(w) \/ CheckSilence(w, TRUE) \/ SelectChannels(w, TRUE)
         \/ \E e \in Open : Resolve(w, e)
         \/ \E c \in job[w].todo : Offer(w, c)
    \/ \E min \in {0, 1} : CountChannels(min)
    \/ \E c \in Channels : InsertChannel(c) \/ DeleteChannel(c)
    \/ Restart(TRUE)

Repeating ==
    \E w \in Workers : \/ Login(w) \/ SelectChannels(w, TRUE)
                       \/ \E c \in job[w].todo : Offer(w, c)

Sweeping ==
    \/ \E r \in Rules : Raise(w1, r, n1)
    \/ \E e \in Open : Resolve(w1, e)
    \/ \E rows \in SUBSET Open : SweepBegins(rows)
    \/ \E ok \in BOOLEAN :
         \/ CheckSilence(w1, ok) \/ SweepStamp(ok) \/ Restart(ok)
         \/ \E e \in sweep.rows : SweepRow(e, ok)
    \/ SelectChannels(w1, TRUE)
    \/ \E ok \in BOOLEAN : SelectChannels(Patrol, ok)
    \/ \E p \in {w1, Patrol} : \E c \in job[p].todo : Offer(p, c)
    \/ \E d \in Durations : CountSilences(r1, None, d) \/ CountSilences(None, n1, d)
    \/ \E i \in SilenceIds : InsertSilence(i) \/ DeleteSilence(i)
    \/ \E s \in Intervals \cup {0} : set_renotify(s)

MCNext ==
    /\ UNCHANGED scene
    /\ \/ scene = "throttle" /\ Throttling
       \/ scene = "logins" /\ Repeating
       \/ scene = "sweep" /\ Sweeping
       \/ Drop
       \/ (scene = "sweep" => now < SweepTime) /\ Tick
    /\ scene # "logins" => calls' <= 1

MCSpec == MCInit /\ [][MCNext]_<<vars, scene>>
=============================================================================
