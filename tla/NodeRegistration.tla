-------------------------- MODULE NodeRegistration --------------------------
(***************************************************************************)
(* How a node comes to have a token and loses it: handlers/nodes.rs        *)
(* (create, revoke, regen_key, batch, delete), handlers/agent_api.rs       *)
(* (register) and the checks that upgrade and conn_loop make of it.        *)
(*                                                                         *)
(* An administrator's handler and a registration are requests that run one *)
(* SQL statement per step, with those of other requests in between; they   *)
(* are dropped where they stand when the client goes away or a statement   *)
(* fails.  Keys are model values, and the token that a registration mints  *)
(* is named by the key it was given for.                                   *)
(***************************************************************************)
EXTENDS Naturals, FiniteSets

CONSTANTS
    Nodes,      \* node ids, which AUTOINCREMENT never uses twice
    Keys,       \* registration keys, and the tokens obtained with them
    Requests,   \* requests in flight at once
    Conns,      \* WebSocket connections of agents
    None

ASSUME RegistrationAssumption == None \notin Nodes /\ None \notin Keys

VARIABLES
    node,       \* the nodes table: status, token_hash, revoked
    key,        \* register_keys: node_id is UNIQUE, so at most one row a node
    req,        \* the requests in flight
    conn,       \* the connections: the node each one authenticated as
    grant,      \* history: the key a node's last administrator gave it, None
                \* from the moment its token is revoked
    excused     \* history: nodes activated by a registration that overlapped
                \* a revocation, or left half revoked

vars == <<node, key, req, conn, grant, excused>>
-----------------------------------------------------------------------------
NodeRow == [status : {"new", "live", "gone"}, token : Keys \cup {None},
            revoked : BOOLEAN]

KeyRow == [key : Keys \cup {None}, state : {"none", "valid", "used", "expired"}]

NoKey == [key |-> None, state |-> "none"]

\* What a request is doing: the statement it will run next, for which nodes.
Request == [op : {"idle", "create", "regen", "revoke", "delete", "register"},
            pc : {"update", "wipe", "insert", "select", "mark", "activate"},
            todo : SUBSET Nodes, at : Nodes \cup {None},
            key : Keys \cup {None}, late : BOOLEAN]

Idle == [op |-> "idle", pc |-> "update", todo |-> {}, at |-> None,
         key |-> None, late |-> FALSE]

Live == {n \in Nodes : node[n].status = "live"}

Active(n) == n \in Live /\ ~node[n].revoked /\ node[n].token # None

Ends(p) == req' = [req EXCEPT ![p] = Idle]

\* Where a registration stands whose key is spent and whose token is not yet
\* in the row.
Activating(r, n) == r.op = "register" /\ r.pc = "activate" /\ r.at = n

\* A revocation of n has set revoked and not yet deleted the key.
Revoking(q, n) == req[q].pc = "wipe" /\ req[q].at = n

TokensInUse ==
    {node[n].token : n \in Nodes} \cup {key[n].key : n \in Nodes}
    \cup {grant[n] : n \in Nodes} \cup {req[p].key : p \in Requests}
    \cup {conn[c].token : c \in Conns}

-----------------------------------------------------------------------------
(* The administrator's side.                                               *)

\* create: the row is inserted; then its key is issued.
CreateNode(p, n) ==
    /\ req[p] = Idle
    /\ node[n].status = "new"
    /\ node' = [node EXCEPT ![n].status = "live"]
    /\ req' = [req EXCEPT ![p] = [Idle EXCEPT !.op = "create", !.pc = "wipe", !.at = n]]
    /\ UNCHANGED <<key, conn, grant, excused>>

\* revoke and regen_key name one node, batch a list of them.
BeginRevoke(p, op, S) ==
    /\ req[p] = Idle
    /\ S # {}
    /\ op = "regen" => Cardinality(S) = 1
    /\ req' = [req EXCEPT ![p] = [Idle EXCEPT !.op = op, !.todo = S]]
    /\ UNCHANGED <<node, key, conn, grant, excused>>

\* UPDATE nodes SET revoked = 1.  A node that is not there is passed over.
RevokeUpdate(p, n) ==
    /\ req[p].op \in {"revoke", "regen"} /\ req[p].pc = "update"
    /\ n \in req[p].todo
    /\ LET rest == req[p].todo \ {n} IN
         IF n \in Live
         THEN /\ node' = [node EXCEPT ![n].revoked = TRUE]
              /\ grant' = [grant EXCEPT ![n] = None]
              /\ excused' = excused \ {n}
              /\ req' = [q \in Requests |->
                   IF q = p
                   THEN [req[p] EXCEPT !.pc = "wipe", !.at = n, !.todo = rest]
                   ELSE [req[q] EXCEPT !.late = @ \/ Activating(req[q], n)]]
         ELSE /\ req' = [req EXCEPT ![p] =
                   IF rest = {} THEN Idle ELSE [req[p] EXCEPT !.todo = rest]]
              /\ UNCHANGED <<node, grant, excused>>
    /\ UNCHANGED <<key, conn>>

\* Variant with a fault: a revocation leaves an unspent key alone.
WipeKeyOfRegen(p) ==
    /\ req[p].pc = "wipe"
    /\ key' = [key EXCEPT ![req[p].at] = IF req[p].op = "revoke" THEN @ ELSE NoKey]
    /\ req' = [req EXCEPT ![p] =
         IF req[p].op # "revoke" THEN [req[p] EXCEPT !.pc = "insert"]
         ELSE IF req[p].todo = {} THEN Idle
         ELSE [req[p] EXCEPT !.pc = "update", !.at = None]]
    /\ UNCHANGED <<node, conn, grant, excused>>

\* DELETE FROM register_keys.  A revocation goes on to its next node;
\* issue_register_key goes on to insert the new key.
WipeKey(p) ==
    /\ req[p].pc = "wipe"
    /\ key' = [key EXCEPT ![req[p].at] = NoKey]
    /\ req' = [req EXCEPT ![p] =
         IF req[p].op # "revoke" THEN [req[p] EXCEPT !.pc = "insert"]
         ELSE IF req[p].todo = {} THEN Idle
         ELSE [req[p] EXCEPT !.pc = "update", !.at = None]]
    /\ UNCHANGED <<node, conn, grant, excused>>

\* INSERT INTO register_keys: refused when another handler's key has come in
\* between (UNIQUE), or the node has gone (foreign key).
InsertKey(p) ==
    /\ req[p].pc = "insert"
    /\ LET n == req[p].at IN
         IF key[n] = NoKey /\ n \in Live
         THEN \E k \in Keys \ TokensInUse :
                /\ key' = [key EXCEPT ![n] = [key |-> k, state |-> "valid"]]
                /\ grant' = [grant EXCEPT ![n] = k]
         ELSE UNCHANGED <<key, grant>>
    /\ Ends(p)
    /\ UNCHANGED <<node, conn, excused>>

\* delete and batch delete: one statement a node, which cascades to its key.
DeleteNode(n) ==
    /\ n \in Live
    /\ node' = [node EXCEPT ![n] = [status |-> "gone", token |-> None, revoked |-> FALSE]]
    /\ key' = [key EXCEPT ![n] = NoKey]
    /\ grant' = [grant EXCEPT ![n] = None]
    /\ excused' = excused \ {n}
    /\ UNCHANGED <<req, conn>>

\* A handler is dropped between two statements, or one fails: the batch
\* ignores a failed DELETE of the key, the others answer with an error.
Drop(p) ==
    /\ req[p] # Idle
    /\ excused' = excused \cup (IF req[p].pc = "wipe" THEN {req[p].at} ELSE {})
    /\ Ends(p)
    /\ UNCHANGED <<node, key, conn, grant>>

\* The thirty minutes of a key pass.
KeyExpires(n) ==
    /\ key[n].state = "valid"
    /\ key' = [key EXCEPT ![n].state = "expired"]
    /\ UNCHANGED <<node, req, conn, grant, excused>>

-----------------------------------------------------------------------------
(* The agent's side.                                                       *)

\* register: the SELECT, and the tests of what it found.
RegisterSelect(p, n) ==
    /\ req[p] = Idle
    /\ key[n].state = "valid"
    /\ req' = [req EXCEPT ![p] = [Idle EXCEPT !.op = "register", !.pc = "mark",
                                              !.at = n, !.key = key[n].key]]
    /\ UNCHANGED <<node, key, conn, grant, excused>>

\* Variant with a fault: the key is marked without the tests of the UPDATE.
RegisterMarkBlindly(p) ==
    /\ req[p].pc = "mark"
    /\ LET n == req[p].at IN
         IF key[n].key = req[p].key
         THEN /\ key' = [key EXCEPT ![n].state = "used"]
              /\ req' = [req EXCEPT ![p].pc = "activate",
                                    ![p].late = \E q \in Requests : Revoking(q, n)]
         ELSE Ends(p) /\ UNCHANGED key
    /\ UNCHANGED <<node, conn, grant, excused>>

\* UPDATE register_keys SET used_at ... WHERE used_at IS NULL AND not expired.
RegisterMark(p) ==
    /\ req[p].pc = "mark"
    /\ LET n == req[p].at IN
         IF key[n] = [key |-> req[p].key, state |-> "valid"]
         THEN /\ key' = [key EXCEPT ![n].state = "used"]
              /\ req' = [req EXCEPT ![p].pc = "activate",
                                    ![p].late = \E q \in Requests : Revoking(q, n)]
         ELSE Ends(p) /\ UNCHANGED key
    /\ UNCHANGED <<node, conn, grant, excused>>

\* UPDATE nodes SET token_hash, revoked = 0; the agent is answered with the
\* token whether or not the node was still there.
RegisterActivate(p) ==
    /\ req[p].pc = "activate"
    /\ LET n == req[p].at IN
         /\ node' = [node EXCEPT ![n] =
              IF n \in Live THEN [@ EXCEPT !.token = req[p].key, !.revoked = FALSE] ELSE @]
         /\ excused' = IF req[p].late /\ n \in Live THEN excused \cup {n} ELSE excused
    /\ Ends(p)
    /\ UNCHANGED <<key, conn, grant>>

\* upgrade: the bearer token is that of a node whose token is not revoked.
Connect(c, n) ==
    /\ conn[c].node = None
    /\ Active(n)
    /\ conn' = [conn EXCEPT ![c] = [node |-> n, token |-> node[n].token]]
    /\ UNCHANGED <<node, key, req, grant, excused>>

\* Variant with a fault: a report is taken for the connection's sake.
HearAnyway(c) ==
    /\ conn[c].node # None
    /\ conn' = [conn EXCEPT ![c] =
         IF conn[c].node \in Live THEN @ ELSE [node |-> None, token |-> None]]
    /\ UNCHANGED <<node, key, req, grant, excused>>

\* conn_loop on a Hello or a report: UPDATE ... WHERE id AND revoked = 0; the
\* loop ends when that finds no row.
Hear(c) ==
    /\ conn[c].node # None
    /\ LET n == conn[c].node IN
         conn' = [conn EXCEPT ![c] =
           IF n \in Live /\ ~node[n].revoked THEN @ ELSE [node |-> None, token |-> None]]
    /\ UNCHANGED <<node, key, req, grant, excused>>

\* The link ends.
Disconnect(c) ==
    /\ conn[c].node # None
    /\ conn' = [conn EXCEPT ![c] = [node |-> None, token |-> None]]
    /\ UNCHANGED <<node, key, req, grant, excused>>

-----------------------------------------------------------------------------
Init ==
    /\ node = [n \in Nodes |-> [status |-> "new", token |-> None, revoked |-> FALSE]]
    /\ key = [n \in Nodes |-> NoKey]
    /\ req = [p \in Requests |-> Idle]
    /\ conn = [c \in Conns |-> [node |-> None, token |-> None]]
    /\ grant = [n \in Nodes |-> None]
    /\ excused = {}

Step(p) ==
    \/ \E n \in Nodes : CreateNode(p, n) \/ RevokeUpdate(p, n) \/ RegisterSelect(p, n)
    \/ \E op \in {"revoke", "regen"}, S \in SUBSET Nodes : BeginRevoke(p, op, S)
    \/ WipeKey(p) \/ InsertKey(p) \/ Drop(p)
    \/ RegisterMark(p) \/ RegisterActivate(p)

Next ==
    \/ \E p \in Requests : Step(p)
    \/ \E n \in Nodes : DeleteNode(n) \/ KeyExpires(n)
    \/ \E c \in Conns : Hear(c) \/ Disconnect(c) \/ \E n \in Nodes : Connect(c, n)

\* An agent that is connected reports once an interval.
Spec == Init /\ [][Next]_vars /\ \A c \in Conns : WF_vars(Hear(c))
-----------------------------------------------------------------------------
(* Properties.                                                             *)

\* The state has its shape; a key row belongs to a node that exists (the
\* cascade), and no two nodes share a key or a token.
TypeOK ==
    /\ node \in [Nodes -> NodeRow]
    /\ key \in [Nodes -> KeyRow]
    /\ req \in [Requests -> Request]
    /\ conn \in [Conns -> [node : Nodes \cup {None}, token : Keys \cup {None}]]
    /\ grant \in [Nodes -> Keys \cup {None}]
    /\ excused \subseteq Nodes
    /\ \A n \in Nodes : key[n] # NoKey => n \in Live
    /\ \A m, n \in Nodes : m # n /\ key[m] # NoKey => key[m].key # key[n].key

\* "原子标记已用,防并发双花": a key buys one token.  No two registrations have
\* spent the same key, and none is about to for a token already in a row.
KeySpentOnce ==
    \A p \in Requests, n \in Nodes :
        Activating(req[p], n) =>
            /\ node[n].token # req[p].key
            /\ \A q \in Requests \ {p} :
                 req[q].pc = "activate" => req[q].key # req[p].key

\* "吊销 token(即时生效)": a node that may report got its token with the key
\* it was given last, and not before its last revocation, unless a
\* registration overlapped the revocation's two statements, or the second of
\* them never ran.
ActiveByCurrentKey ==
    \A n \in Nodes \ excused : Active(n) => node[n].token = grant[n]

\* A connected agent whose node is revoked or deleted is cut off at a report,
\* unless the node becomes active again first.
RevokedCutOff ==
    \A c \in Conns, n \in Nodes :
        (conn[c].node = n /\ ~Active(n)) ~> (conn[c].node # n \/ Active(n))
=============================================================================
