----------------------- MODULE NodeRegistrationProofs -----------------------
(* Proofs that a registration key is spent once and that a node reports    *)
(* with the key it was given last.                                         *)
EXTENDS NodeRegistration, TLAPS

\* Which fields a request has set, and what a row holds.
Shape ==
    /\ \A p \in Requests :
         /\ req[p].pc \in {"mark", "activate"} =>
              /\ req[p].op = "register" /\ req[p].at \in Nodes /\ req[p].key \in Keys
              /\ node[req[p].at].status # "new"
         /\ req[p].pc \in {"wipe", "insert"} => req[p].at \in Nodes
    /\ \A n \in Nodes :
         /\ node[n].status = "new" => node[n].token = None
         /\ key[n] # NoKey => key[n].key \in Keys /\ key[n].state # "none"

\* A key that is still valid has bought nothing.
ValidUnspent ==
    \A n \in Nodes : key[n].state = "valid" =>
        /\ \A m \in Nodes : node[m].token # key[n].key
        /\ \A p \in Requests : req[p].pc = "activate" => req[p].key # key[n].key

\* A key that has been marked buys the token of one registration.
SpentOnce ==
    \A p \in Requests : req[p].pc = "activate" =>
        /\ \A m \in Nodes : node[m].token # req[p].key
        /\ \A q \in Requests \ {p} : req[q].pc = "activate" => req[q].key # req[p].key

SpendingInv == TypeOK /\ Shape /\ ValidUnspent /\ SpentOnce

Revoked(n) == \E q \in Requests : Revoking(q, n)

\* Who overlaps a revocation knows.
LateKnown ==
    \A p \in Requests, n \in Nodes :
        Activating(req[p], n) /\ Revoked(n) => req[p].late

\* A valid key is the one granted, until a revocation that will delete it.
ValidGranted ==
    \A n \in Nodes \ excused :
        key[n].state = "valid" /\ ~Revoked(n) => grant[n] = key[n].key

\* A registration that overlapped none has the key that was granted.
SpentGranted ==
    \A p \in Requests, n \in Nodes \ excused :
        Activating(req[p], n) /\ ~req[p].late /\ n \in Live =>
            /\ key[n] = [key |-> req[p].key, state |-> "used"]
            /\ grant[n] = req[p].key

\* An active node has its key row, and nobody is about to delete that.
ActiveHasKey ==
    \A n \in Nodes \ excused : Active(n) => key[n] # NoKey /\ ~Revoked(n)

GrantInv ==
    /\ SpendingInv
    /\ LateKnown /\ ValidGranted /\ SpentGranted /\ ActiveHasKey
    /\ ActiveByCurrentKey
-----------------------------------------------------------------------------
(* What a step of one request leaves of the others.                        *)

RequestShape(r) ==
    /\ r \in Request
    /\ r.pc \in {"mark", "activate"} =>
         /\ r.op = "register" /\ r.at \in Nodes /\ r.key \in Keys
         /\ node[r.at].status # "new"
    /\ r.pc \in {"wipe", "insert"} => r.at \in Nodes

LEMMA ShapeOfRequests ==
    ASSUME TypeOK, Shape
    PROVE  \A p \in Requests : RequestShape(req[p])
BY DEF TypeOK, Shape, RequestShape

LEMMA IdleRequest == Idle \in Request /\ Idle.pc = "update" /\ Idle.op = "idle"
BY DEF Idle, Request

\* Request p becomes r.
LEMMA OneRequest ==
    ASSUME TypeOK, NEW p \in Requests, NEW r \in Request, req' = [req EXCEPT ![p] = r]
    PROVE  /\ req' \in [Requests -> Request]
           /\ req'[p] = r
           /\ \A q \in Requests \ {p} : req'[q] = req[q]
BY DEF TypeOK

\* The rows as they were: a request that revokes nothing and spends nothing.
LEMMA QuietStep ==
    ASSUME GrantInv, NEW p \in Requests, NEW r, RequestShape(r),
           req' = [req EXCEPT ![p] = r], UNCHANGED <<node, key, conn, grant, excused>>,
           req[p].pc # "wipe", r.pc \notin {"wipe", "activate"}
    PROVE  GrantInv'
<1> USE DEF GrantInv, SpendingInv
<1>1. /\ req' \in [Requests -> Request]
      /\ req'[p] = r
      /\ \A q \in Requests \ {p} : req'[q] = req[q]
  BY OneRequest DEF RequestShape
<1>2. TypeOK'
  BY <1>1 DEF TypeOK, Live
<1>3. Shape'
  BY <1>1, ShapeOfRequests DEF Shape, RequestShape
<1>4. ValidUnspent' /\ SpentOnce'
  BY <1>1 DEF ValidUnspent, SpentOnce
<1>5. \A n \in Nodes : Revoked(n)' <=> Revoked(n)
  BY <1>1 DEF Revoked, Revoking
<1>6. LateKnown' /\ ValidGranted'
  BY <1>1, <1>5 DEF LateKnown, ValidGranted, Activating
<1>7. SpentGranted' /\ ActiveHasKey' /\ ActiveByCurrentKey'
  BY <1>1, <1>5 DEF SpentGranted, ActiveHasKey, ActiveByCurrentKey, Activating, Active, Live
<1> QED
  BY <1>2, <1>3, <1>4, <1>6, <1>7

LEMMA BeginRevokeStep ==
    ASSUME GrantInv, NEW p \in Requests, NEW op \in {"revoke", "regen"},
           NEW S \in SUBSET Nodes, BeginRevoke(p, op, S)
    PROVE  GrantInv'
<1> DEFINE r == [Idle EXCEPT !.op = op, !.todo = S]
<1>1. RequestShape(r) /\ r.pc = "update"
  BY DEF RequestShape, Idle, Request
<1>2. req[p].pc # "wipe" /\ req' = [req EXCEPT ![p] = r]
  BY IdleRequest DEF BeginRevoke
<1>3. UNCHANGED <<node, key, conn, grant, excused>>
  BY DEF BeginRevoke
<1> HIDE DEF r
<1> QED
  BY <1>1, <1>2, <1>3, QuietStep

LEMMA RegisterSelectStep ==
    ASSUME GrantInv, NEW p \in Requests, NEW n \in Nodes, RegisterSelect(p, n)
    PROVE  GrantInv'
<1> DEFINE r == [Idle EXCEPT !.op = "register", !.pc = "mark", !.at = n, !.key = key[n].key]
<1>1. key[n] # NoKey /\ key[n].key \in Keys /\ node[n].status = "live"
  BY DEF RegisterSelect, GrantInv, SpendingInv, TypeOK, Shape, NoKey, Live
<1>2. RequestShape(r) /\ r.pc = "mark"
  BY <1>1 DEF RequestShape, Idle, Request
<1>3. req[p].pc # "wipe" /\ req' = [req EXCEPT ![p] = r]
  BY IdleRequest DEF RegisterSelect
<1>4. UNCHANGED <<node, key, conn, grant, excused>>
  BY DEF RegisterSelect
<1> HIDE DEF r
<1> QED
  BY <1>2, <1>3, <1>4, QuietStep

LEMMA DropStep ==
    ASSUME GrantInv, NEW p \in Requests, Drop(p)
    PROVE  GrantInv'
<1> USE DEF GrantInv, SpendingInv
<1>1. RequestShape(Idle) /\ Idle.pc = "update" /\ req' = [req EXCEPT ![p] = Idle]
  BY IdleRequest DEF RequestShape, Drop, Ends
<1>2. CASE req[p].pc # "wipe"
  <2>1. UNCHANGED <<node, key, conn, grant, excused>>
    BY <1>2 DEF Drop
  <2> HIDE DEF GrantInv, SpendingInv
  <2> QED
    BY <1>1, <1>2, <2>1, QuietStep
<1>3. CASE req[p].pc = "wipe"
  <2>1. UNCHANGED <<node, key, conn, grant>> /\ excused' = excused \cup {req[p].at}
    BY <1>3 DEF Drop
  <2>2. req[p].at \in Nodes
    BY <1>3 DEF Shape
  <2>3. /\ req' \in [Requests -> Request]
        /\ req'[p] = Idle
        /\ \A q \in Requests \ {p} : req'[q] = req[q]
    BY <1>1, IdleRequest, OneRequest
  <2>4. TypeOK'
    BY <2>1, <2>2, <2>3 DEF TypeOK, Live
  <2>5. Shape'
    BY <1>1, <2>1, <2>3, ShapeOfRequests DEF Shape, RequestShape
  <2>6. ValidUnspent' /\ SpentOnce'
    BY <1>1, <2>1, <2>3 DEF ValidUnspent, SpentOnce
  <2>7. \A n \in Nodes : /\ Revoked(n)' => Revoked(n)
                         /\ n \notin excused' => (Revoked(n)' <=> Revoked(n))
    BY <1>1, <2>1, <2>3 DEF Revoked, Revoking
  <2>8. LateKnown' /\ ValidGranted'
    BY <1>1, <2>1, <2>3, <2>7 DEF LateKnown, ValidGranted, Activating
  <2>9. SpentGranted' /\ ActiveHasKey' /\ ActiveByCurrentKey'
    BY <1>1, <2>1, <2>3, <2>7
    DEF SpentGranted, ActiveHasKey, ActiveByCurrentKey, Activating, Active, Live
  <2> QED
    BY <2>4, <2>5, <2>6, <2>8, <2>9
<1> QED
  BY <1>2, <1>3
-----------------------------------------------------------------------------
(* The administrator's statements.                                         *)

LEMMA CreateNodeStep ==
    ASSUME GrantInv, NEW p \in Requests, NEW n \in Nodes, CreateNode(p, n)
    PROVE  GrantInv'
<1> USE DEF GrantInv, SpendingInv
<1> DEFINE r == [Idle EXCEPT !.op = "create", !.pc = "wipe", !.at = n]
<1>1. r \in Request /\ r.pc = "wipe" /\ r.at = n
  BY DEF Idle, Request
<1>2. req[p] = Idle /\ req' = [req EXCEPT ![p] = r] /\ UNCHANGED <<key, conn, grant, excused>>
  BY DEF CreateNode
<1>3. /\ req' \in [Requests -> Request]
      /\ req'[p] = r
      /\ \A q \in Requests \ {p} : req'[q] = req[q]
  <2> HIDE DEF r
  <2> QED
    BY <1>1, <1>2, OneRequest
<1> HIDE DEF r
<1>4. /\ node[n].status = "new" /\ node[n].token = None /\ key[n] = NoKey
      /\ node' \in [Nodes -> NodeRow] /\ node'[n].token = None /\ node'[n].status = "live"
      /\ \A m \in Nodes \ {n} : node'[m] = node[m]
  <2>1. node[n].status = "new" /\ node' = [node EXCEPT ![n].status = "live"]
    BY DEF CreateNode
  <2>2. node[n].token = None /\ key[n] = NoKey
    BY <2>1 DEF Shape, TypeOK, Live
  <2> QED
    BY <2>1, <2>2 DEF TypeOK, NodeRow
<1>5. \A q \in Requests : ~Activating(req[q], n)
  BY <1>4 DEF Activating, Shape
<1>6. \A m \in Nodes : /\ m \in Live' <=> m = n \/ m \in Live
                       /\ Active(m)' <=> m # n /\ Active(m)
                       /\ node'[m].token = node[m].token
  BY <1>4 DEF Live, Active
<1>7. TypeOK'
  BY <1>2, <1>3, <1>4, <1>6 DEF TypeOK
<1>8. Shape'
  BY <1>1, <1>2, <1>3, <1>4 DEF Shape
<1>9. ValidUnspent' /\ SpentOnce'
  BY <1>1, <1>2, <1>3, <1>6 DEF ValidUnspent, SpentOnce
<1>10. \A m \in Nodes \ {n} : Revoked(m)' <=> Revoked(m)
  BY <1>1, <1>2, <1>3, IdleRequest DEF Revoked, Revoking
<1>11. \A q \in Requests, m \in Nodes : Activating(req'[q], m) => m # n /\ req'[q] = req[q]
  BY <1>1, <1>3, <1>5 DEF Activating
<1>12. LateKnown' /\ ValidGranted'
  BY <1>2, <1>4, <1>10, <1>11 DEF LateKnown, ValidGranted, NoKey
<1>13. SpentGranted' /\ ActiveHasKey' /\ ActiveByCurrentKey'
  BY <1>2, <1>6, <1>10, <1>11 DEF SpentGranted, ActiveHasKey, ActiveByCurrentKey
<1> QED
  BY <1>7, <1>8, <1>9, <1>12, <1>13

LEMMA RevokeUpdateStep ==
    ASSUME GrantInv, NEW p \in Requests, NEW n \in Nodes, RevokeUpdate(p, n)
    PROVE  GrantInv'
<1> USE DEF GrantInv, SpendingInv
<1> DEFINE rest == req[p].todo \ {n}
<1>0. req[p] \in Request /\ req[p].pc = "update" /\ rest \in SUBSET Nodes
  BY DEF RevokeUpdate, TypeOK, Request
<1>1. CASE n \notin Live
  <2> DEFINE r == IF rest = {} THEN Idle ELSE [req[p] EXCEPT !.todo = rest]
  <2>1. req' = [req EXCEPT ![p] = r] /\ UNCHANGED <<node, key, conn, grant, excused>>
    BY <1>1 DEF RevokeUpdate
  <2>2. RequestShape(r) /\ r.pc = "update"
    BY <1>0, IdleRequest DEF RequestShape, Request
  <2> HIDE DEF r, GrantInv, SpendingInv
  <2> QED
    BY <1>0, <2>1, <2>2, QuietStep
<1>2. CASE n \in Live
  <2> DEFINE r == [req[p] EXCEPT !.pc = "wipe", !.at = n, !.todo = rest]
  <2>1. /\ node' = [node EXCEPT ![n].revoked = TRUE]
        /\ grant' = [grant EXCEPT ![n] = None]
        /\ excused' = excused \ {n}
        /\ req' = [q \in Requests |->
             IF q = p THEN r ELSE [req[q] EXCEPT !.late = @ \/ Activating(req[q], n)]]
        /\ UNCHANGED <<key, conn>>
    BY <1>2 DEF RevokeUpdate
  <2>2. r \in Request /\ r.pc = "wipe" /\ r.at = n
    BY <1>0 DEF Request
  <2> HIDE DEF r
  <2>3. req'[p] = r
    BY <2>1
  <2>4. ASSUME NEW q \in Requests \ {p}
        PROVE  /\ req'[q] \in Request
               /\ req'[q].op = req[q].op /\ req'[q].pc = req[q].pc
               /\ req'[q].at = req[q].at /\ req'[q].key = req[q].key
               /\ req'[q].late <=> req[q].late \/ Activating(req[q], n)
    <3> DEFINE late == req[q].late \/ Activating(req[q], n)
    <3>1. late \in BOOLEAN
      OBVIOUS
    <3>2. req'[q] = [req[q] EXCEPT !.late = late]
      BY <2>1
    <3>3. req[q] \in Request
      BY DEF TypeOK
    <3> HIDE DEF late
    <3>4. req'[q].late = late
      BY <3>2, <3>3 DEF Request
    <3>5. /\ req'[q] \in Request
          /\ req'[q].op = req[q].op /\ req'[q].pc = req[q].pc
          /\ req'[q].at = req[q].at /\ req'[q].key = req[q].key
      BY <3>1, <3>2, <3>3 DEF Request
    <3> USE DEF late
    <3> QED
      BY <3>4, <3>5, Zenon
  <2>5. /\ node' \in [Nodes -> NodeRow] /\ node'[n].revoked
        /\ \A m \in Nodes : node'[m].token = node[m].token /\ node'[m].status = node[m].status
        /\ \A m \in Nodes \ {n} : node'[m] = node[m]
    BY <2>1 DEF TypeOK, NodeRow
  <2>6. /\ grant' \in [Nodes -> Keys \cup {None}]
        /\ \A m \in Nodes \ {n} : grant'[m] = grant[m]
    BY <2>1 DEF TypeOK
  <2>7. Live' = Live /\ ~Active(n)' /\ \A m \in Nodes \ {n} : Active(m)' <=> Active(m)
    BY <2>5 DEF Live, Active
  <2>8. TypeOK'
    <3>1. req' \in [Requests -> Request]
      BY <2>1, <2>2, <2>3, <2>4
    <3>2. excused' \subseteq Nodes
      BY <2>1 DEF TypeOK
    <3> QED
      BY <2>1, <2>5, <2>6, <2>7, <3>1, <3>2 DEF TypeOK
  <2>9. Shape'
    BY <2>1, <2>2, <2>3, <2>4, <2>5 DEF Shape
  <2>10. ValidUnspent' /\ SpentOnce'
    BY <2>1, <2>2, <2>3, <2>4, <2>5 DEF ValidUnspent, SpentOnce
  <2>11. Revoked(n)' /\ \A m \in Nodes \ {n} : Revoked(m)' <=> Revoked(m)
    BY <1>0, <2>2, <2>3, <2>4 DEF Revoked, Revoking
  <2>12. \A q \in Requests, m \in Nodes : Activating(req'[q], m) =>
            /\ q # p /\ Activating(req[q], m) /\ req'[q].key = req[q].key
            /\ m = n => req'[q].late
            /\ req'[q].late <=> req[q].late \/ Activating(req[q], n)
    BY <2>2, <2>3, <2>4 DEF Activating
  <2>13. LateKnown'
    BY <2>11, <2>12 DEF LateKnown
  <2>14. ValidGranted'
    BY <2>1, <2>6, <2>11 DEF ValidGranted
  <2>15. SpentGranted'
    <3> SUFFICES ASSUME NEW q \in Requests, NEW m \in Nodes, m \notin excused',
                        Activating(req'[q], m), ~req'[q].late, m \in Live
                 PROVE  /\ key[m] = [key |-> req'[q].key, state |-> "used"]
                        /\ grant'[m] = req'[q].key
      BY <2>1, <2>7 DEF SpentGranted
    <3>1. m # n /\ m \notin excused /\ Activating(req[q], m) /\ ~req[q].late
          /\ req'[q].key = req[q].key
      BY <2>1, <2>12
    <3> QED
      BY <2>6, <3>1 DEF SpentGranted
  <2>16. ActiveHasKey' /\ ActiveByCurrentKey'
    BY <2>1, <2>5, <2>6, <2>7, <2>11 DEF ActiveHasKey, ActiveByCurrentKey
  <2> QED
    BY <2>8, <2>9, <2>10, <2>13, <2>14, <2>15, <2>16
<1> QED
  BY <1>1, <1>2

LEMMA WipeKeyStep ==
    ASSUME GrantInv, NEW p \in Requests, WipeKey(p)
    PROVE  GrantInv'
<1> USE DEF GrantInv, SpendingInv
<1> DEFINE n == req[p].at
           r == IF req[p].op # "revoke" THEN [req[p] EXCEPT !.pc = "insert"]
                ELSE IF req[p].todo = {} THEN Idle
                ELSE [req[p] EXCEPT !.pc = "update", !.at = None]
<1>1. req[p].pc = "wipe" /\ n \in Nodes /\ req[p] \in Request
  BY DEF WipeKey, Shape, TypeOK
<1>2. /\ r \in Request /\ r.pc \in {"insert", "update"}
      /\ r.pc = "insert" => r.at \in Nodes
  BY <1>1, IdleRequest DEF Request
<1>3. req' = [req EXCEPT ![p] = r]
  BY DEF WipeKey
<1>4. key' = [key EXCEPT ![n] = NoKey] /\ UNCHANGED <<node, conn, grant, excused>>
  BY DEF WipeKey
<1> HIDE DEF r
<1>5. /\ req' \in [Requests -> Request]
      /\ req'[p] = r
      /\ \A q \in Requests \ {p} : req'[q] = req[q]
  BY <1>2, <1>3, OneRequest
<1> HIDE DEF n
<1>6. /\ key' \in [Nodes -> KeyRow] /\ key'[n] = NoKey
      /\ \A m \in Nodes \ {n} : key'[m] = key[m]
  BY <1>1, <1>4 DEF TypeOK, KeyRow, NoKey
<1>7. TypeOK'
  <2>1. \A m, o \in Nodes : m # o /\ key'[m] # NoKey => key'[m].key # key'[o].key
    BY <1>6, RegistrationAssumption DEF TypeOK, Shape, NoKey
  <2> QED
    BY <1>1, <1>4, <1>5, <1>6, <2>1 DEF TypeOK, Live
<1>8. Shape'
  BY <1>1, <1>2, <1>4, <1>5, <1>6 DEF Shape
<1>9. ValidUnspent' /\ SpentOnce'
  BY <1>2, <1>4, <1>5, <1>6 DEF ValidUnspent, SpentOnce, NoKey
<1>10. /\ \A m \in Nodes \ {n} : Revoked(m)' <=> Revoked(m)
       /\ Revoked(n) /\ (Revoked(n)' => Revoked(n))
  BY <1>1, <1>2, <1>5 DEF Revoked, Revoking, n
<1>11. \A q \in Requests, m \in Nodes : Activating(req'[q], m) =>
          q # p /\ req'[q] = req[q]
  BY <1>2, <1>5 DEF Activating
<1>12. ~Active(n) \/ n \in excused
  BY <1>1, <1>10 DEF ActiveHasKey
<1>13. LateKnown' /\ ValidGranted'
  BY <1>4, <1>6, <1>10, <1>11 DEF LateKnown, ValidGranted, NoKey
<1>14. SpentGranted'
  <2> SUFFICES ASSUME NEW q \in Requests, NEW m \in Nodes, m \notin excused,
                      Activating(req[q], m), ~req[q].late, m \in Live
               PROVE  /\ key'[m] = [key |-> req[q].key, state |-> "used"]
                      /\ grant[m] = req[q].key
    BY <1>4, <1>11 DEF SpentGranted, Live
  <2>1. m # n
    BY <1>10 DEF LateKnown
  <2> QED
    BY <1>6, <2>1 DEF SpentGranted
<1>15. ActiveHasKey' /\ ActiveByCurrentKey'
  BY <1>4, <1>6, <1>10, <1>12 DEF ActiveHasKey, ActiveByCurrentKey, Active, Live
<1> QED
  BY <1>7, <1>8, <1>9, <1>13, <1>14, <1>15

LEMMA InsertKeyStep ==
    ASSUME GrantInv, NEW p \in Requests, InsertKey(p)
    PROVE  GrantInv'
<1> USE DEF GrantInv, SpendingInv
<1> DEFINE n == req[p].at
<1>1. /\ req[p].pc = "insert" /\ n \in Nodes
      /\ req' = [req EXCEPT ![p] = Idle] /\ UNCHANGED <<node, conn, excused>>
  BY DEF InsertKey, Ends, Shape
<1>2. RequestShape(Idle) /\ Idle.pc = "update"
  BY IdleRequest DEF RequestShape
<1>3. CASE ~(key[n] = NoKey /\ n \in Live)
  <2>1. UNCHANGED <<node, key, conn, grant, excused>>
    BY <1>1, <1>3 DEF InsertKey
  <2> HIDE DEF GrantInv, SpendingInv
  <2> QED
    BY <1>1, <1>2, <2>1, QuietStep
<1>4. CASE key[n] = NoKey /\ n \in Live
  <2>1. PICK k \in Keys \ TokensInUse :
          /\ key' = [key EXCEPT ![n] = [key |-> k, state |-> "valid"]]
          /\ grant' = [grant EXCEPT ![n] = k]
    BY <1>4 DEF InsertKey
  <2>2. /\ req' \in [Requests -> Request]
        /\ req'[p] = Idle
        /\ \A q \in Requests \ {p} : req'[q] = req[q]
    BY <1>1, IdleRequest, OneRequest
  <2> HIDE DEF n
  <2>3. /\ key' \in [Nodes -> KeyRow] /\ key'[n].key = k /\ key'[n].state = "valid"
        /\ key'[n] # NoKey
        /\ \A m \in Nodes \ {n} : key'[m] = key[m]
    BY <1>1, <2>1 DEF TypeOK, KeyRow, NoKey
  <2>4. /\ grant' \in [Nodes -> Keys \cup {None}] /\ grant'[n] = k
        /\ \A m \in Nodes \ {n} : grant'[m] = grant[m]
    BY <1>1, <2>1 DEF TypeOK
  <2>5. /\ \A m \in Nodes : node[m].token # k /\ key[m].key # k
        /\ \A q \in Requests : req[q].key # k
    BY <2>1 DEF TokensInUse
  <2>6. TypeOK'
    <3>1. \A m \in Nodes : key'[m] # NoKey => m \in Live'
      BY <1>1, <1>4, <2>3 DEF TypeOK, Live
    <3>2. \A m, o \in Nodes : m # o /\ key'[m] # NoKey => key'[m].key # key'[o].key
      BY <1>1, <2>3, <2>5 DEF TypeOK
    <3> QED
      BY <1>1, <2>2, <2>3, <2>4, <3>1, <3>2 DEF TypeOK
  <2>7. Shape'
    BY <1>1, <1>2, <2>1, <2>2, <2>3 DEF Shape
  <2>8. ValidUnspent' /\ SpentOnce'
    BY <1>1, <1>2, <2>2, <2>3, <2>5 DEF ValidUnspent, SpentOnce
  <2>9. \A m \in Nodes : Revoked(m)' <=> Revoked(m)
    BY <1>1, <1>2, <2>2 DEF Revoked, Revoking
  <2>10. \A q \in Requests, m \in Nodes : Activating(req'[q], m) =>
            q # p /\ req'[q] = req[q]
    BY <1>2, <2>2 DEF Activating
  <2>11. LateKnown' /\ ValidGranted'
    BY <1>1, <2>3, <2>4, <2>9, <2>10 DEF LateKnown, ValidGranted
  <2>12. SpentGranted'
    <3> SUFFICES ASSUME NEW q \in Requests, NEW m \in Nodes, m \notin excused,
                        Activating(req[q], m), ~req[q].late, m \in Live
                 PROVE  /\ key'[m] = [key |-> req[q].key, state |-> "used"]
                        /\ grant'[m] = req[q].key
      BY <1>1, <2>10 DEF SpentGranted, Live
    <3>1. key[m] = [key |-> req[q].key, state |-> "used"] /\ grant[m] = req[q].key
      BY DEF SpentGranted
    <3>2. m # n
      BY <1>4, <3>1 DEF NoKey
    <3> QED
      BY <2>3, <2>4, <3>1, <3>2
  <2>13. ActiveHasKey' /\ ActiveByCurrentKey'
    BY <1>1, <1>4, <2>3, <2>4, <2>9 DEF ActiveHasKey, ActiveByCurrentKey, Active, Live
  <2> QED
    BY <2>6, <2>7, <2>8, <2>11, <2>12, <2>13
<1> QED
  BY <1>3, <1>4

LEMMA DeleteNodeStep ==
    ASSUME GrantInv, NEW n \in Nodes, DeleteNode(n)
    PROVE  GrantInv'
<1> USE DEF GrantInv, SpendingInv
<1>1. /\ key' = [key EXCEPT ![n] = NoKey] /\ grant' = [grant EXCEPT ![n] = None]
      /\ excused' = excused \ {n} /\ UNCHANGED <<req, conn>>
  BY DEF DeleteNode
<1>2. /\ key' \in [Nodes -> KeyRow] /\ key'[n] = NoKey
      /\ \A m \in Nodes \ {n} : key'[m] = key[m]
  BY <1>1 DEF TypeOK, KeyRow, NoKey
<1>3. /\ grant' \in [Nodes -> Keys \cup {None}]
      /\ \A m \in Nodes \ {n} : grant'[m] = grant[m]
  BY <1>1 DEF TypeOK
<1>4. /\ node' \in [Nodes -> NodeRow] /\ node'[n].status = "gone" /\ node'[n].token = None
      /\ \A m \in Nodes \ {n} : node'[m] = node[m]
  <2>1. [status |-> "gone", token |-> None, revoked |-> FALSE] \in NodeRow
    BY DEF NodeRow
  <2> QED
    BY <2>1 DEF DeleteNode, TypeOK
<1>5. \A m \in Nodes : (m \in Live' <=> m # n /\ m \in Live) /\ (Active(m)' <=> m # n /\ Active(m))
  BY <1>4 DEF Live, Active
<1>6. TypeOK'
  <2>1. excused' \subseteq Nodes
    BY <1>1 DEF TypeOK
  <2>2. \A m \in Nodes : key'[m] # NoKey => m \in Live'
    BY <1>2, <1>5 DEF TypeOK
  <2>3. \A m, o \in Nodes : m # o /\ key'[m] # NoKey => key'[m].key # key'[o].key
    BY <1>2, RegistrationAssumption DEF TypeOK, NoKey, Shape
  <2> QED
    BY <1>1, <1>2, <1>3, <1>4, <2>1, <2>2, <2>3 DEF TypeOK
<1>7. Shape'
  BY <1>1, <1>2, <1>4 DEF Shape
<1>8. ValidUnspent' /\ SpentOnce'
  <2>1. \A q \in Requests : req[q].pc = "activate" => req[q].key \in Keys
    BY DEF Shape
  <2>2. \A m \in Nodes : key'[m].state = "valid" => m # n /\ key[m].key \in Keys
    BY <1>2 DEF Shape, NoKey
  <2> QED
    BY <1>1, <1>2, <1>4, <2>1, <2>2, RegistrationAssumption DEF ValidUnspent, SpentOnce
<1>9. \A m \in Nodes : Revoked(m)' <=> Revoked(m)
  BY <1>1 DEF Revoked, Revoking
<1>10. LateKnown' /\ ValidGranted'
  BY <1>1, <1>2, <1>3, <1>9 DEF LateKnown, ValidGranted, NoKey
<1>11. SpentGranted' /\ ActiveHasKey' /\ ActiveByCurrentKey'
  BY <1>1, <1>2, <1>3, <1>4, <1>5, <1>9 DEF SpentGranted, ActiveHasKey, ActiveByCurrentKey
<1> QED
  BY <1>6, <1>7, <1>8, <1>10, <1>11

LEMMA KeyExpiresStep ==
    ASSUME GrantInv, NEW n \in Nodes, KeyExpires(n)
    PROVE  GrantInv'
<1> USE DEF GrantInv, SpendingInv
<1>1. /\ key[n].state = "valid" /\ key' = [key EXCEPT ![n].state = "expired"]
      /\ UNCHANGED <<node, req, conn, grant, excused>>
  BY DEF KeyExpires
<1>2. /\ key' \in [Nodes -> KeyRow]
      /\ key[n] # NoKey /\ key'[n] # NoKey
      /\ key'[n].state = "expired" /\ key'[n].key = key[n].key
      /\ \A m \in Nodes \ {n} : key'[m] = key[m]
  BY <1>1 DEF TypeOK, KeyRow, NoKey
<1>3. TypeOK'
  BY <1>1, <1>2 DEF TypeOK, Live
<1>4. Shape' /\ ValidUnspent' /\ SpentOnce'
  BY <1>1, <1>2 DEF Shape, ValidUnspent, SpentOnce
<1>5. \A m \in Nodes : Revoked(m)' <=> Revoked(m)
  BY <1>1 DEF Revoked, Revoking
<1>6. LateKnown' /\ ValidGranted'
  BY <1>1, <1>2, <1>5 DEF LateKnown, ValidGranted
<1>7. SpentGranted'
  BY <1>1, <1>2 DEF SpentGranted, Live
<1>8. ActiveHasKey' /\ ActiveByCurrentKey'
  BY <1>1, <1>2, <1>5 DEF ActiveHasKey, ActiveByCurrentKey, Active, Live
<1> QED
  BY <1>3, <1>4, <1>6, <1>7, <1>8
-----------------------------------------------------------------------------
(* The agent's statements.                                                 *)

LEMMA RegisterMarkStep ==
    ASSUME GrantInv, NEW p \in Requests, RegisterMark(p)
    PROVE  GrantInv'
<1> USE DEF GrantInv, SpendingInv
<1> DEFINE n == req[p].at
           k == req[p].key
<1>1. /\ req[p].pc = "mark" /\ req[p].op = "register" /\ n \in Nodes /\ k \in Keys
      /\ node[n].status # "new" /\ req[p] \in Request
      /\ UNCHANGED <<node, conn, grant, excused>>
  BY DEF RegisterMark, Shape, TypeOK
<1>2. CASE key[n] # [key |-> k, state |-> "valid"]
  <2>1. req' = [req EXCEPT ![p] = Idle] /\ UNCHANGED <<node, key, conn, grant, excused>>
    BY <1>1, <1>2 DEF RegisterMark, Ends
  <2>2. RequestShape(Idle) /\ Idle.pc = "update"
    BY IdleRequest DEF RequestShape
  <2> HIDE DEF GrantInv, SpendingInv
  <2> QED
    BY <1>1, <2>1, <2>2, QuietStep
<1>3. CASE key[n] = [key |-> k, state |-> "valid"]
  <2> DEFINE late == Revoked(n)
             r == [req[p] EXCEPT !.pc = "activate", !.late = late]
  <2>1. req' = [req EXCEPT ![p] = r] /\ key' = [key EXCEPT ![n].state = "used"]
    BY <1>3 DEF RegisterMark, Revoked
  <2>2. late \in BOOLEAN
    BY DEF Revoked
  <2> HIDE DEF late
  <2>3. /\ r \in Request /\ r.pc = "activate" /\ r.late = late
        /\ r.op = "register" /\ r.at = n /\ r.key = k
    BY <1>1, <2>2 DEF Request
  <2> HIDE DEF r
  <2>4. /\ req' \in [Requests -> Request]
        /\ req'[p] = r
        /\ \A q \in Requests \ {p} : req'[q] = req[q]
    BY <2>1, <2>3, OneRequest
  <2>5. r.late <=> Revoked(n)
    BY <2>3, Zenon DEF late
  <2> HIDE DEF n, k
  <2>6. /\ key' \in [Nodes -> KeyRow] /\ key'[n] = [key |-> k, state |-> "used"]
        /\ key[n].key = k /\ key[n] # NoKey /\ key'[n] # NoKey
        /\ key'[n].key = k /\ key'[n].state = "used" /\ key[n].state = "valid"
        /\ \A m \in Nodes \ {n} : key'[m] = key[m]
    BY <1>1, <1>3, <2>1 DEF TypeOK, KeyRow, NoKey
  <2>7. TypeOK'
    <3>1. \A m, o \in Nodes : m # o /\ key'[m] # NoKey => key'[m].key # key'[o].key
      BY <2>6 DEF TypeOK
    <3> QED
      BY <1>1, <2>4, <2>6, <3>1 DEF TypeOK, Live
  <2>8. Shape'
    BY <1>1, <2>3, <2>4, <2>6 DEF Shape
  <2>9. ValidUnspent'
    <3>1. \A m \in Nodes \ {n} : key[m] # NoKey => key[m].key # k
      BY <1>1, <2>6 DEF TypeOK
    <3>2. \A m \in Nodes : key'[m].state = "valid" =>
             m # n /\ key'[m] = key[m] /\ key[m].key # k
      BY <2>6, <3>1 DEF NoKey
    <3> QED
      BY <1>1, <2>3, <2>4, <3>2 DEF ValidUnspent
  <2>10. SpentOnce'
    <3>1. /\ \A m \in Nodes : node[m].token # k
          /\ \A q \in Requests : req[q].pc = "activate" => req[q].key # k
      BY <1>1, <2>6 DEF ValidUnspent
    <3> QED
      BY <1>1, <2>3, <2>4, <3>1 DEF SpentOnce
  <2>11. \A m \in Nodes : Revoked(m)' <=> Revoked(m)
    BY <1>1, <2>3, <2>4 DEF Revoked, Revoking
  <2>12. \A q \in Requests, m \in Nodes : Activating(req'[q], m) =>
            \/ q = p /\ m = n
            \/ q # p /\ req'[q] = req[q]
    BY <2>3, <2>4 DEF Activating
  <2>13. LateKnown'
    BY <2>4, <2>5, <2>11, <2>12 DEF LateKnown
  <2>14. ValidGranted'
    BY <1>1, <2>6, <2>11 DEF ValidGranted
  <2>15. SpentGranted'
    <3> SUFFICES ASSUME NEW q \in Requests, NEW m \in Nodes, m \notin excused,
                        Activating(req'[q], m), ~req'[q].late, m \in Live
                 PROVE  /\ key'[m] = [key |-> req'[q].key, state |-> "used"]
                        /\ grant[m] = req'[q].key
      BY <1>1 DEF SpentGranted, Live
    <3>1. CASE q = p /\ m = n
      <4>1. grant[n] = k
        BY <1>1, <2>4, <2>5, <2>6, <3>1 DEF ValidGranted
      <4> QED
        BY <2>3, <2>4, <2>6, <3>1, <4>1
    <3>2. CASE q # p /\ req'[q] = req[q]
      <4>1. key[m] = [key |-> req[q].key, state |-> "used"] /\ grant[m] = req[q].key
        BY <3>2 DEF SpentGranted
      <4> QED
        BY <2>6, <3>2, <4>1
    <3> QED
      BY <2>12, <3>1, <3>2
  <2>16. ActiveHasKey' /\ ActiveByCurrentKey'
    BY <1>1, <2>6, <2>11 DEF ActiveHasKey, ActiveByCurrentKey, Active, Live
  <2> QED
    BY <2>7, <2>8, <2>9, <2>10, <2>13, <2>14, <2>15, <2>16
<1> QED
  BY <1>2, <1>3

LEMMA RegisterActivateStep ==
    ASSUME GrantInv, NEW p \in Requests, RegisterActivate(p)
    PROVE  GrantInv'
<1> USE DEF GrantInv, SpendingInv
<1> DEFINE n == req[p].at
           k == req[p].key
<1>1. /\ req[p].pc = "activate" /\ Activating(req[p], n) /\ n \in Nodes /\ k \in Keys
      /\ node[n].status # "new"
      /\ req' = [req EXCEPT ![p] = Idle] /\ UNCHANGED <<key, conn, grant>>
  BY DEF RegisterActivate, Shape, Ends, Activating
<1>2. RequestShape(Idle) /\ Idle.pc = "update"
  BY IdleRequest DEF RequestShape
<1>3. CASE n \notin Live
  <2>1. node' = node /\ excused' = excused
    BY <1>3 DEF RegisterActivate, TypeOK
  <2> HIDE DEF GrantInv, SpendingInv
  <2> QED
    BY <1>1, <1>2, <2>1, QuietStep
<1>4. CASE n \in Live
  <2>1. /\ node' = [node EXCEPT ![n] = [@ EXCEPT !.token = k, !.revoked = FALSE]]
        /\ excused' = IF req[p].late THEN excused \cup {n} ELSE excused
    BY <1>4 DEF RegisterActivate
  <2>2. /\ req' \in [Requests -> Request]
        /\ req'[p] = Idle
        /\ \A q \in Requests \ {p} : req'[q] = req[q]
    BY <1>1, IdleRequest, OneRequest
  <2>3. /\ \A m \in Nodes : node[m].token # k /\ (key[m].state = "valid" => key[m].key # k)
        /\ \A q \in Requests \ {p} : req[q].pc = "activate" => req[q].key # k
    BY <1>1 DEF SpentOnce, ValidUnspent
  <2>4. n \notin excused' =>
          /\ key[n] = [key |-> k, state |-> "used"] /\ grant[n] = k
          /\ ~Revoked(n) /\ n \notin excused
    BY <1>1, <1>4, <2>1 DEF SpentGranted, LateKnown
  <2> HIDE DEF n, k
  <2>5. /\ node' \in [Nodes -> NodeRow]
        /\ node'[n].token = k /\ node'[n].status = node[n].status
        /\ \A m \in Nodes \ {n} : node'[m] = node[m]
    BY <1>1, <2>1 DEF TypeOK, NodeRow
  <2>6. Live' = Live /\ \A m \in Nodes \ {n} : Active(m)' <=> Active(m)
    BY <2>5 DEF Live, Active
  <2>7. TypeOK'
    <3>1. excused' \subseteq Nodes
      BY <1>1, <2>1 DEF TypeOK
    <3> QED
      BY <1>1, <2>2, <2>5, <2>6, <3>1 DEF TypeOK
  <2>8. Shape'
    BY <1>1, <1>2, <2>2, <2>5 DEF Shape
  <2>9. ValidUnspent' /\ SpentOnce'
    BY <1>1, <1>2, <2>2, <2>3, <2>5 DEF ValidUnspent, SpentOnce
  <2>10. \A m \in Nodes : Revoked(m)' <=> Revoked(m)
    BY <1>1, <1>2, <2>2 DEF Revoked, Revoking
  <2>11. \A q \in Requests, m \in Nodes : Activating(req'[q], m) =>
            q # p /\ req'[q] = req[q]
    BY <1>2, <2>2 DEF Activating
  <2>12. \A m \in Nodes : m \notin excused' => m \notin excused
    BY <2>1
  <2>13. LateKnown' /\ ValidGranted'
    BY <1>1, <2>10, <2>11, <2>12 DEF LateKnown, ValidGranted
  <2>14. SpentGranted'
    BY <1>1, <2>6, <2>11, <2>12 DEF SpentGranted
  <2>15. ActiveHasKey' /\ ActiveByCurrentKey'
    BY <1>1, <2>4, <2>5, <2>6, <2>10, <2>12 DEF ActiveHasKey, ActiveByCurrentKey, NoKey
  <2> QED
    BY <2>7, <2>8, <2>9, <2>13, <2>14, <2>15
<1> QED
  BY <1>3, <1>4

LEMMA ConnectionStep ==
    ASSUME GrantInv, NEW c \in Conns,
           Hear(c) \/ Disconnect(c) \/ \E n \in Nodes : Connect(c, n)
    PROVE  GrantInv'
<1> USE DEF GrantInv, SpendingInv
<1>1. UNCHANGED <<node, key, req, grant, excused>>
  BY DEF Hear, Disconnect, Connect
<1>2. conn' \in [Conns -> [node : Nodes \cup {None}, token : Keys \cup {None}]]
  BY DEF Hear, Disconnect, Connect, TypeOK, NodeRow
<1>3. TypeOK' /\ Shape' /\ ValidUnspent' /\ SpentOnce'
  BY <1>1, <1>2 DEF TypeOK, Live, Shape, ValidUnspent, SpentOnce
<1>4. \A m \in Nodes : Revoked(m)' <=> Revoked(m)
  BY <1>1 DEF Revoked, Revoking
<1>5. LateKnown' /\ ValidGranted' /\ SpentGranted' /\ ActiveHasKey' /\ ActiveByCurrentKey'
  BY <1>1, <1>4
  DEF LateKnown, ValidGranted, SpentGranted, ActiveHasKey, ActiveByCurrentKey, Active, Live
<1> QED
  BY <1>3, <1>5
-----------------------------------------------------------------------------
LEMMA InitGrants == Init => GrantInv
<1> SUFFICES ASSUME Init PROVE GrantInv
  OBVIOUS
<1>1. \A p \in Requests : req[p] = Idle
  BY DEF Init
<1>2. \A n \in Nodes : key[n] = NoKey /\ node[n].token = None
  BY DEF Init
<1>3. TypeOK
  BY IdleRequest DEF Init, TypeOK, NodeRow, KeyRow, NoKey
<1>4. Shape /\ ValidUnspent /\ SpentOnce
  BY <1>1, <1>2, IdleRequest DEF Shape, ValidUnspent, SpentOnce, NoKey
<1>5. LateKnown /\ ValidGranted /\ SpentGranted /\ ActiveHasKey /\ ActiveByCurrentKey
  BY <1>1, <1>2, IdleRequest
  DEF LateKnown, ValidGranted, SpentGranted, ActiveHasKey, ActiveByCurrentKey,
      Activating, Active, NoKey
<1> QED
  BY <1>3, <1>4, <1>5 DEF GrantInv, SpendingInv

LEMMA NextGrants == GrantInv /\ [Next]_vars => GrantInv'
<1> SUFFICES ASSUME GrantInv, [Next]_vars PROVE GrantInv'
  OBVIOUS
<1>1. ASSUME NEW p \in Requests, Step(p) PROVE GrantInv'
  BY <1>1, CreateNodeStep, RevokeUpdateStep, RegisterSelectStep, BeginRevokeStep,
     WipeKeyStep, InsertKeyStep, DropStep, RegisterMarkStep, RegisterActivateStep
  DEF Step
<1>2. ASSUME NEW n \in Nodes, DeleteNode(n) \/ KeyExpires(n) PROVE GrantInv'
  BY <1>2, DeleteNodeStep, KeyExpiresStep
<1>3. ASSUME NEW c \in Conns, Hear(c) \/ Disconnect(c) \/ \E n \in Nodes : Connect(c, n)
      PROVE GrantInv'
  BY <1>3, ConnectionStep
<1>4. CASE UNCHANGED vars
  <2>1. \A n \in Nodes : Revoked(n)' <=> Revoked(n)
    BY <1>4 DEF vars, Revoked, Revoking
  <2> QED
    BY <1>4, <2>1 DEF vars, GrantInv, SpendingInv, TypeOK, Live, Shape, ValidUnspent,
       SpentOnce, LateKnown, ValidGranted, SpentGranted, ActiveHasKey, ActiveByCurrentKey,
       Activating, Active
<1> QED
  BY <1>1, <1>2, <1>3, <1>4 DEF Next

THEOREM RegistrationInvariant == Spec => []GrantInv
BY InitGrants, NextGrants, PTL DEF Spec

\* Every reachable state is well typed, key rows belong to nodes that exist,
\* and no two nodes share a key.
THEOREM RegistrationTypeCorrect == Spec => []TypeOK
<1>1. GrantInv => TypeOK
  BY DEF GrantInv, SpendingInv
<1> QED
  BY RegistrationInvariant, <1>1, PTL

\* For any number of nodes, keys and overlapping requests: a registration key
\* buys one token.
THEOREM KeysAreSpentOnce == Spec => []KeySpentOnce
<1>1. GrantInv => KeySpentOnce
  BY DEF GrantInv, SpendingInv, SpentOnce, KeySpentOnce, Activating
<1> QED
  BY RegistrationInvariant, <1>1, PTL

\* A node that may report got its token with the key it was given last, unless
\* a registration overlapped the revocation or that was left half done.
THEOREM ActiveNodesHoldCurrentKey == Spec => []ActiveByCurrentKey
<1>1. GrantInv => ActiveByCurrentKey
  BY DEF GrantInv
<1> QED
  BY RegistrationInvariant, <1>1, PTL
=============================================================================
