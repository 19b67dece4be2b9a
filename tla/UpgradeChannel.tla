--------------------------- MODULE UpgradeChannel ---------------------------
(***************************************************************************)
(* How a remote upgrade asked for by an administrator reaches an agent:    *)
(* the two maps of crates/server/src/state.rs (a sender per node, and the  *)
(* resend window of nodes that have none), the batch handler that uses     *)
(* them, and the connection loop of handlers/ws_agent.rs that registers    *)
(* and removes the sender.  An agent has one connection at a time, but the *)
(* server may still be running the loop of an earlier one whose link is    *)
(* dead: it notices by a failed send, by silence, or when the peer closes. *)
(***************************************************************************)
EXTENDS Connections, Integers, FiniteSets

CONSTANTS
    None,          \* no connection, or no connected node
    ResendSecs,    \* UPGRADE_RESEND_SECS
    MaxTime,       \* bound: the clock stops here
    MaxRequests    \* bound: upgrades asked for per node

ASSUME UpgradeAssumption ==
    /\ None \notin Conns \cup Nodes
    /\ ResendSecs \in Nat
    /\ MaxTime \in Nat
    /\ MaxRequests \in Nat

NoTime == -1

VARIABLES
    now,               \* unix_now()
    upgrade_tx,        \* node -> connection whose sender is registered, or None
    pending_upgrade,   \* node -> end of its resend window, or NoTime
    conn,              \* the connection loops: control point, node, queued triggers
    link,              \* link[c]: the socket of c still reaches the agent
    session,           \* node -> the connection its agent is using, or None
    requested,         \* history: upgrades asked for
    received           \* history: Upgrade messages that reached the agent

vars == <<now, upgrade_tx, pending_upgrade, conn, link, session, requested, received>>

\* A loop has not sent UpdateConfig yet, is about to register its sender, owes
\* a resend, serves, or has left the loop and is about to remove the sender.
Pc == {"free", "greet", "register", "resend", "serve", "leave"}
Conn == [pc : Pc, node : Nodes \cup {None}, queue : Nat]

FreeConn == [pc |-> "free", node |-> None, queue |-> 0]

TypeOK ==
    /\ now \in Nat
    /\ upgrade_tx \in [Nodes -> Conns \cup {None}]
    /\ pending_upgrade \in [Nodes -> Nat \cup {NoTime}]
    /\ conn \in [Conns -> Conn]
    /\ link \in [Conns -> BOOLEAN]
    /\ session \in [Nodes -> Conns \cup {None}]
    /\ requested \in [Nodes -> Nat]
    /\ received \in [Nodes -> Nat]

Init ==
    /\ now = 0
    /\ upgrade_tx = [n \in Nodes |-> None]
    /\ pending_upgrade = [n \in Nodes |-> NoTime]
    /\ conn = [c \in Conns |-> FreeConn]
    /\ link = [c \in Conns |-> FALSE]
    /\ session = [n \in Nodes |-> None]
    /\ requested = [n \in Nodes |-> 0]
    /\ received = [n \in Nodes |-> 0]

-----------------------------------------------------------------------------
(* The agent and the network.                                              *)

\* The agent of n opens a session; the token was checked before the upgrade.
Connect(n, c) ==
    /\ session[n] = None
    /\ conn[c].pc = "free"
    /\ session' = [session EXCEPT ![n] = c]
    /\ conn' = [conn EXCEPT ![c] = [pc |-> "greet", node |-> n, queue |-> 0]]
    /\ link' = [link EXCEPT ![c] = TRUE]
    /\ UNCHANGED <<now, upgrade_tx, pending_upgrade, requested, received>>

\* The agent gives its session up, dies or is cut off; the server is not told.
Disconnect(n) ==
    /\ session[n] # None
    /\ link' = [link EXCEPT ![session[n]] = FALSE]
    /\ session' = [session EXCEPT ![n] = None]
    /\ UNCHANGED <<now, upgrade_tx, pending_upgrade, conn, requested, received>>

-----------------------------------------------------------------------------
(* conn_loop.                                                              *)

\* The loop returns: the socket is dropped, so the agent sees the end of the
\* session if it was still using it.
Return(c) ==
    LET n == conn[c].node
    IN  /\ conn' = [conn EXCEPT ![c] = FreeConn]
        /\ link' = [link EXCEPT ![c] = FALSE]
        /\ session' = [session EXCEPT ![n] = IF @ = c THEN None ELSE @]

\* UpdateConfig is sent first; if the send fails the loop returns unregistered.
Greet(c) ==
    /\ conn[c].pc = "greet"
    /\ \/ /\ conn' = [conn EXCEPT ![c].pc = "register"]
          /\ UNCHANGED <<link, session>>
       \/ ~link[c] /\ Return(c)
    /\ UNCHANGED <<now, upgrade_tx, pending_upgrade, requested, received>>

\* Variant with a fault: the window is read and left open.
RegisterPeeksWindow(c) ==
    /\ conn[c].pc = "register"
    /\ upgrade_tx' = [upgrade_tx EXCEPT ![conn[c].node] = c]
    /\ conn' = [conn EXCEPT ![c].pc =
                   IF pending_upgrade[conn[c].node] > now THEN "resend" ELSE "serve"]
    /\ UNCHANGED <<now, pending_upgrade, link, session, requested, received>>

\* One critical section: register the sender, over one that may be there, and
\* take the resend window of the node.
Register(c) ==
    LET n == conn[c].node
    IN  /\ conn[c].pc = "register"
        /\ upgrade_tx' = [upgrade_tx EXCEPT ![n] = c]
        /\ pending_upgrade' = [pending_upgrade EXCEPT ![n] = NoTime]
        /\ conn' = [conn EXCEPT ![c].pc = IF pending_upgrade[n] > now THEN "resend" ELSE "serve"]
        /\ UNCHANGED <<now, link, session, requested, received>>

\* An Upgrade goes into the socket: it arrives while the link is up, and is
\* lost without an error while nobody has noticed that it is down.
Arrives(c) ==
    received' = IF link[c] THEN [received EXCEPT ![conn[c].node] = @ + 1] ELSE received

\* The resend that Register found due.  On a failed send the loop removes the
\* node's sender and returns.
Resend(c) ==
    /\ conn[c].pc = "resend"
    /\ \/ /\ Arrives(c)
          /\ conn' = [conn EXCEPT ![c].pc = "serve"]
          /\ UNCHANGED <<upgrade_tx, link, session>>
       \/ /\ ~link[c]
          /\ upgrade_tx' = [upgrade_tx EXCEPT ![conn[c].node] = None]
          /\ Return(c)
          /\ UNCHANGED received
    /\ UNCHANGED <<now, pending_upgrade, requested>>

\* Variants with a fault: an empty channel counts as a trigger, a trigger is
\* taken and not sent.
DeliverUnasked(c) ==
    /\ conn[c].pc = "serve"
    /\ Arrives(c)
    /\ conn' = [conn EXCEPT ![c].queue = @ - 1]
    /\ UNCHANGED <<now, upgrade_tx, pending_upgrade, link, session, requested>>
DeliverDrops(c) ==
    /\ conn[c].pc = "serve"
    /\ conn[c].queue > 0
    /\ conn' = [conn EXCEPT ![c].queue = @ - 1]
    /\ UNCHANGED <<now, upgrade_tx, pending_upgrade, link, session, requested, received>>

\* upgrade_rx.recv(): one trigger is taken and sent; a failed send ends the loop.
Deliver(c) ==
    /\ conn[c].pc = "serve"
    /\ conn[c].queue > 0
    /\ \/ /\ Arrives(c)
          /\ conn' = [conn EXCEPT ![c].queue = @ - 1]
       \/ /\ ~link[c]
          /\ conn' = [conn EXCEPT ![c].queue = @ - 1, ![c].pc = "leave"]
          /\ UNCHANGED received
    /\ UNCHANGED <<now, upgrade_tx, pending_upgrade, link, session, requested>>

\* Every other way out of the loop: silence for 120 s, a failed ping, a close,
\* the token bucket, a node that was revoked or deleted.
Leave(c) ==
    /\ conn[c].pc = "serve"
    /\ conn' = [conn EXCEPT ![c].pc = "leave"]
    /\ UNCHANGED <<now, upgrade_tx, pending_upgrade, link, session, requested, received>>

\* Variant with a fault: the sender stays in the map.
RemoveSenderForgets(c) ==
    /\ conn[c].pc = "leave"
    /\ Return(c)
    /\ UNCHANGED <<now, upgrade_tx, pending_upgrade, requested, received>>

\* The loop removes the sender under the node's id, whoever registered it.
RemoveSender(c) ==
    /\ conn[c].pc = "leave"
    /\ upgrade_tx' = [upgrade_tx EXCEPT ![conn[c].node] = None]
    /\ Return(c)
    /\ UNCHANGED <<now, pending_upgrade, requested, received>>

-----------------------------------------------------------------------------
(* POST /api/nodes/batch, action "upgrade", for one node of the list: send *)
(* to the registered sender, or open the resend window after dropping the  *)
(* windows that have passed.                                               *)

\* Variant with a fault: the window is opened beside the sender, to be safe.
UpgradeTwice(n) ==
    /\ requested[n] < MaxRequests
    /\ requested' = [requested EXCEPT ![n] = @ + 1]
    /\ pending_upgrade' = [pending_upgrade EXCEPT ![n] = now + ResendSecs]
    /\ conn' = IF upgrade_tx[n] = None THEN conn
               ELSE [conn EXCEPT ![upgrade_tx[n]].queue = @ + 1]
    /\ UNCHANGED <<now, upgrade_tx, link, session, received>>

\* The critical section of the handler for node n.
Upgrade(n) ==
    /\ requested[n] < MaxRequests
    /\ requested' = [requested EXCEPT ![n] = @ + 1]
    /\ IF upgrade_tx[n] # None
       THEN /\ conn' = [conn EXCEPT ![upgrade_tx[n]].queue = @ + 1]
            /\ UNCHANGED pending_upgrade
       ELSE /\ pending_upgrade' =
                  [m \in Nodes |->
                      IF m = n THEN now + ResendSecs
                      ELSE IF pending_upgrade[m] > now THEN pending_upgrade[m] ELSE NoTime]
            /\ UNCHANGED conn
    /\ UNCHANGED <<now, upgrade_tx, link, session, received>>

Tick ==
    /\ now < MaxTime
    /\ now' = now + 1
    /\ UNCHANGED <<upgrade_tx, pending_upgrade, conn, link, session, requested, received>>

Next ==
    \/ \E n \in Nodes, c \in Conns : Connect(n, c)
    \/ \E n \in Nodes : Disconnect(n) \/ Upgrade(n)
    \/ \E c \in Conns :
          \/ Greet(c) \/ Register(c) \/ Resend(c)
          \/ Deliver(c) \/ Leave(c) \/ RemoveSender(c)
    \/ Tick

Spec == Init /\ [][Next]_vars

\* tokio polls every loop; a trigger in the channel or a resend due is sent.
FairSpec ==
    Spec /\ \A c \in Conns :
        WF_vars(Greet(c)) /\ WF_vars(Register(c)) /\ WF_vars(Resend(c)) /\ WF_vars(Deliver(c))

-----------------------------------------------------------------------------
(* Properties.                                                             *)

\* The channel a trigger is sent into is read by a loop of that node, which has
\* registered and not returned, so the send of the batch handler cannot fail.
SenderHasLoop ==
    \A n \in Nodes : upgrade_tx[n] # None =>
        /\ conn[upgrade_tx[n]].node = n
        /\ conn[upgrade_tx[n]].pc \in {"resend", "serve", "leave"}

\* What the common critical section is for: no node has both a sender and an
\* open resend window, which would leave the trigger waiting for the next
\* reconnect although a connection is there to take it.
WindowOnlyWithoutSender ==
    \A n \in Nodes : upgrade_tx[n] # None => pending_upgrade[n] = NoTime

\* What loop c has still to send: the triggers in its channel, numbered from 1,
\* and 0 for the resend it owes.
Triggers(c) == (1..conn[c].queue) \cup (IF conn[c].pc = "resend" THEN {0} ELSE {})

\* What node n has coming from its loops, and from its window.
Coming(n) == UNION {{c} \X Triggers(c) : c \in {d \in Conns : conn[d].node = n}}
InWindow(n) == IF pending_upgrade[n] = NoTime THEN 0 ELSE 1

\* No upgrade is sent twice: what arrived and what is still to come never
\* exceeds what was asked for, across reconnects, resends and replaced senders.
NoDoubleUpgrade ==
    \A n \in Nodes : received[n] + Cardinality(Coming(n)) + InWindow(n) <= requested[n]

\* "当前有活跃连接的节点立即下发": a node whose agent is connected and being
\* served has that connection's sender registered.  It takes loops of one node
\* that do not overlap.
LiveConnectionHasSender ==
    \A n \in Nodes :
        session[n] # None /\ conn[session[n]].pc \in {"resend", "serve"}
            => upgrade_tx[n] = session[n]

\* A trigger in the channel of a connection whose link is up reaches the agent,
\* unless the link or the loop goes first: a resend in front of it, new triggers
\* behind it and a sender replaced meanwhile do not hold it back.
TriggerArrives ==
    \A n \in Nodes, c \in Conns, i \in 0..(MaxRequests - 1) :
        (conn[c].node = n /\ conn[c].queue > 0 /\ link[c] /\ received[n] = i) ~>
            (received[n] > i \/ ~link[c] \/ conn[c].pc = "leave")

=============================================================================
