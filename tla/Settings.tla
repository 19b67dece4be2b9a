------------------------------ MODULE Settings ------------------------------
(***************************************************************************)
(* The settings of the panel and their copies: handlers/settings.rs writes *)
(* the table one key at a time, then NetCfg behind its lock, then the      *)
(* watch channel of the report interval, which every conn_loop of          *)
(* ws_agent.rs follows and passes on to its agent.  build_state of main.rs *)
(* fills the copies from the table when the server starts.                 *)
(*                                                                         *)
(* A value is the form it was entered in, or Default; checking the ranges  *)
(* of a form comes before its first step and changes nothing.  The other   *)
(* keys of the table (retention, backups) are read where they are used and *)
(* have no copy.                                                           *)
(***************************************************************************)
EXTENDS Connections, Naturals, Sequences

CONSTANTS
    Forms,          \* what administrators enter
    Default,        \* what config.toml and the code hold
    Requests,       \* requests in flight at once
    MaxCalls,       \* bound: forms entered
    MaxTroubles     \* bound: links cut, handlers dropped, restarts

ASSUME SettingsAssumption ==
    /\ Default \notin Forms
    /\ MaxCalls \in Nat /\ MaxTroubles \in Nat

VARIABLES
    settings,   \* the settings table
    net,        \* NetCfg: public_url and extra_origins
    watch,      \* interval_tx: its value and how often it was sent to
    req,        \* the requests in flight
    follower,   \* the connection loops, which follow the channel
    secs,       \* the interval each agent reports at
    calls, troubles,
    torn,       \* history: forms overlapped, or one was not carried through
    unheard     \* history: the last form found no connection loop

settingsVars == <<settings, net, watch, req, follower, secs, calls, troubles, torn, unheard>>
-----------------------------------------------------------------------------
\* The statements of set, in their order.  Those for the two settings of
\* the backups run with retention_days: they have no copy either.
Keys == <<"report_interval_secs", "retention_days", "public_url", "extra_origins">>

KeyNames == {Keys[i] : i \in DOMAIN Keys}

\* pc is the statement to run; after them come the lock and the channel.
Idle == [form |-> Default, pc |-> 0, alone |-> TRUE]
NetStep == Len(Keys) + 1
SendStep == Len(Keys) + 2

Busy == {p \in Requests : req[p] # Idle}

\* A connection loop: seen is the version its receiver has seen, wire what
\* the agent has not read.
Closed == [pc |-> "closed", node |-> Default, up |-> FALSE, seen |-> 0, wire |-> <<>>]

\* A new database, seeded by build_state.
SettingsInit ==
    /\ settings = [k \in KeyNames |-> Default]
    /\ net = [url |-> Default, origins |-> Default]
    /\ watch = [value |-> Default, version |-> 0]
    /\ req = [p \in Requests |-> Idle]
    /\ follower = [c \in Conns |-> Closed]
    /\ secs = [n \in Nodes |-> Default]
    /\ calls = 0 /\ troubles = 0
    /\ torn = FALSE /\ unheard = FALSE
-----------------------------------------------------------------------------
(* The handler.                                                            *)

\* A request passes its checks.  Those in flight are no longer alone.
Begin(p, f) ==
    /\ req[p] = Idle
    /\ calls < MaxCalls
    /\ calls' = calls + 1
    /\ req' = [q \in Requests |->
         IF q = p THEN [form |-> f, pc |-> 1, alone |-> Busy = {}]
         ELSE IF q \in Busy THEN [req[q] EXCEPT !.alone = FALSE]
         ELSE req[q]]
    /\ UNCHANGED <<settings, net, watch, follower, secs, troubles, torn, unheard>>

\* set_setting.
WriteKey(p) ==
    /\ req[p].pc \in DOMAIN Keys
    /\ settings' = [settings EXCEPT ![Keys[req[p].pc]] = req[p].form]
    /\ req' = [req EXCEPT ![p].pc = @ + 1]
    /\ UNCHANGED <<net, watch, follower, secs, calls, troubles, torn, unheard>>

\* Variant with a fault: the web address takes effect at the next start.
WriteOrigins(p) ==
    /\ req[p].pc = NetStep
    /\ net' = [net EXCEPT !.origins = req[p].form]
    /\ req' = [req EXCEPT ![p].pc = @ + 1]
    /\ UNCHANGED <<settings, watch, follower, secs, calls, troubles, torn, unheard>>

\* NetCfg is replaced under its lock.
WriteNet(p) ==
    /\ req[p].pc = NetStep
    /\ net' = [url |-> req[p].form, origins |-> req[p].form]
    /\ req' = [req EXCEPT ![p].pc = @ + 1]
    /\ UNCHANGED <<settings, watch, follower, secs, calls, troubles, torn, unheard>>

\* A connection loop holds its receiver from subscribe until it returns.
Receivers == {c \in Conns : follower[c].pc # "closed"}

\* interval_tx.send: receivers are woken even by the value they have; where
\* there is none, send returns an error, which is ignored, and keeps nothing.
SendInterval(p) ==
    /\ req[p].pc = SendStep
    /\ watch' = IF Receivers = {} THEN watch
                ELSE [value |-> req[p].form, version |-> watch.version + 1]
    /\ unheard' = (Receivers = {})
    /\ torn' = ~req[p].alone
    /\ req' = [req EXCEPT ![p] = Idle]
    /\ UNCHANGED <<settings, net, follower, secs, calls, troubles>>

\* A statement fails or the client goes away: what was written stays.
Drop(p) ==
    /\ req[p].pc \in DOMAIN Keys
    /\ troubles < MaxTroubles
    /\ troubles' = troubles + 1
    /\ torn' = TRUE
    /\ req' = [req EXCEPT ![p] = Idle]
    /\ UNCHANGED <<settings, net, watch, follower, secs, calls, unheard>>

\* Memory and links are gone, and build_state fills the copies.  A key that
\* cannot be read counts as missing; what it stands for then is written
\* back, unless that fails too (kept).
Restart(failed, kept) ==
    /\ troubles < MaxTroubles
    /\ troubles' = troubles + 1
    /\ LET read == [k \in KeyNames |-> IF k \in failed THEN Default ELSE settings[k]] IN
         /\ net' = [url |-> read["public_url"], origins |-> read["extra_origins"]]
         /\ watch' = [value |-> read["report_interval_secs"], version |-> 0]
         /\ settings' = [k \in KeyNames |-> IF k \in kept THEN settings[k] ELSE read[k]]
    /\ torn' = (failed \cap kept # {})
    /\ unheard' = FALSE
    /\ req' = [p \in Requests |-> Idle]
    /\ follower' = [c \in Conns |-> Closed]
    /\ UNCHANGED <<secs, calls>>
-----------------------------------------------------------------------------
(* The connection loops and the agents.                                    *)

\* An agent dials; whatever it had before, it reads no longer.  The loop
\* subscribes, which counts the present value as seen.
Subscribe(c, n) ==
    /\ follower[c] = Closed
    /\ ~\E d \in Conns : follower[d].up /\ follower[d].node = n
    /\ follower' = [follower EXCEPT ![c] =
         [pc |-> "greet", node |-> n, up |-> TRUE, seen |-> watch.version, wire |-> <<>>]]
    /\ UNCHANGED <<settings, net, watch, req, secs, calls, troubles, torn, unheard>>

\* A send reaches the agent, or is swallowed by a link that is down.
Sends(c, v) == IF follower[c].up THEN Append(follower[c].wire, v) ELSE <<>>

\* Variant with a fault: a new connection is told of changes only.
TellNothing(c) ==
    /\ follower[c].pc = "greet"
    /\ follower' = [follower EXCEPT ![c].pc = "loop"]
    /\ UNCHANGED <<settings, net, watch, req, secs, calls, troubles, torn, unheard>>

\* The present interval is sent at once.
TellInterval(c) ==
    /\ follower[c].pc = "greet"
    /\ follower' = [follower EXCEPT ![c].pc = "loop", ![c].wire = Sends(c, watch.value)]
    /\ UNCHANGED <<settings, net, watch, req, secs, calls, troubles, torn, unheard>>

\* interval_rx.changed: the latest value, however many there were.
PassOn(c) ==
    /\ follower[c].pc = "loop"
    /\ follower[c].seen # watch.version
    /\ follower' = [follower EXCEPT ![c].seen = watch.version, ![c].wire = Sends(c, watch.value)]
    /\ UNCHANGED <<settings, net, watch, req, secs, calls, troubles, torn, unheard>>

\* The agent reads UpdateConfig.
Receive(c) ==
    /\ follower[c].wire # <<>>
    /\ secs' = [secs EXCEPT ![follower[c].node] = Head(follower[c].wire)]
    /\ follower' = [follower EXCEPT ![c].wire = Tail(@)]
    /\ UNCHANGED <<settings, net, watch, req, calls, troubles, torn, unheard>>

\* The link breaks, with the agent's process or without.
Cut(c, restart) ==
    /\ follower[c].up
    /\ troubles < MaxTroubles
    /\ troubles' = troubles + 1
    /\ follower' = [follower EXCEPT ![c].up = FALSE, ![c].wire = <<>>]
    /\ secs' = IF restart THEN [secs EXCEPT ![follower[c].node] = Default] ELSE secs
    /\ UNCHANGED <<settings, net, watch, req, calls, torn, unheard>>

\* The loop notices, by a failed send or the time-out.
LoopEnds(c) ==
    /\ follower[c].pc # "closed" /\ ~follower[c].up
    /\ follower' = [follower EXCEPT ![c] = Closed]
    /\ UNCHANGED <<settings, net, watch, req, secs, calls, troubles, torn, unheard>>

Handler(p) == WriteKey(p) \/ WriteNet(p) \/ SendInterval(p)
Loop(c) == TellInterval(c) \/ PassOn(c) \/ LoopEnds(c)

SettingsNext ==
    \/ \E p \in Requests : (\E f \in Forms : Begin(p, f)) \/ Handler(p) \/ Drop(p)
    \/ \E failed \in SUBSET KeyNames : \E kept \in {{}, failed} : Restart(failed, kept)
    \/ \E c \in Conns :
         \/ \E n \in Nodes : Subscribe(c, n)
         \/ Loop(c) \/ Receive(c)
         \/ \E restart \in BOOLEAN : Cut(c, restart)

SettingsSpec == SettingsInit /\ [][SettingsNext]_settingsVars

\* The runtime polls every loop, and a link that holds delivers.
Fairness ==
    /\ \A p \in Requests : WF_settingsVars(Handler(p))
    /\ \A c \in Conns : WF_settingsVars(Loop(c)) /\ WF_settingsVars(Receive(c))

SettingsFairSpec == SettingsSpec /\ Fairness
-----------------------------------------------------------------------------
(* Properties.                                                             *)

\* settings.rs:130-145: when no form is on its way, the address and the
\* interval in use are those of the table, unless the last forms overlapped,
\* or one was dropped between its statements, or no loop heard the interval.
CopiesAgree ==
    Busy = {} /\ ~torn =>
        /\ net = [url |-> settings["public_url"], origins |-> settings["extra_origins"]]
        /\ unheard \/ watch.value = settings["report_interval_secs"]

\* ws_agent.rs:113 ("连接建立即下发当前上报间隔"): what a new connection is told is
\* the interval that was saved last, whether or not an agent was there to hear.
IntervalCurrent ==
    Busy = {} /\ ~torn => watch.value = settings["report_interval_secs"]

\* ws_agent.rs:112 and 174: every agent whose link holds ends up reporting at
\* the interval in use, though changes are coalesced and links replaced.
AgentsFollow ==
    \A c \in Conns : <>[](follower[c].up => secs[follower[c].node] = watch.value)
=============================================================================
