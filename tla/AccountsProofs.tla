--------------------------- MODULE AccountsProofs ---------------------------
(* Proofs that an administrator remains, that sessions follow the account, *)
(* that 2FA is on for a secret its owner has proved, and that a recovery   *)
(* code opens one session.                                                 *)
EXTENDS Accounts, TLAPS

\* Which fields a request has set.
RequestShape(r) ==
    /\ r \in Request
    /\ r.pc # "start" => r.op # "idle"
    /\ r.op # "idle" => r.tgt \in Users
    /\ r.op \in AdminOps \cup SelfOps => r.tok \in Tokens
    /\ r.op = "login" => r.seen \in Passwords /\ r.via \in Proofs
    /\ r.op = "enable2fa" /\ r.pc = "apply" => r.seen \in Secrets
    /\ r.pc = "consume" => r.op \in {"login", "disable2fa"} /\ r.via \in Codes

Started == \E u \in Users : users[u].status # "new"

\* A request about its own account, or any request, comes after the account.
ShapeKept ==
    /\ \A p \in Requests : RequestShape(req[p])
    /\ \A p \in Requests : req[p].op \in SelfOps => users[req[p].tgt].status # "new"
    /\ \A p \in Requests : req[p].op # "idle" => Started
    /\ \A u \in Live : users[u].pass \in Passwords

ClashKnown == Clashes(req) \subseteq clash

\* A demotion or deletion that has passed its check leaves an administrator.
RoleReady(r) ==
    r.op \in RemovalOps /\ r.pc = "apply" => Admins \ {r.tgt} # {}

RolesKept ==
    "roles" \in clash \/ /\ Started => Admins # {}
                         /\ \A p \in Requests : RoleReady(req[p])

\* What setup and enable have read is still so.
SecretReady(r) ==
    r.pc = "apply" /\ r.tgt \in Live \ clash =>
        /\ r.op = "setup2fa" => users[r.tgt].totp = None
        /\ r.op = "enable2fa" => users[r.tgt].secret = r.seen

SecretsKept ==
    /\ \A p \in Requests : SecretReady(req[p])
    /\ EnabledSecretProven

\* The login r has consumed the recovery code c.
Presented(r, c) == r.op = "login" /\ r.pc = "apply" /\ r.via = c

\* A recovery code is in one place only: unused, consumed, or in a session.
CodesKept ==
    \A c \in Codes :
        /\ \A u, v \in Users : c \in codes[u] /\ c \in codes[v] => u = v
        /\ \A t \in Tokens : sessions[t].via = c =>
             /\ \A u \in Users : c \notin codes[u]
             /\ \A s \in Tokens \ {t} : sessions[s].via # c
             /\ \A p \in Requests : ~Presented(req[p], c)
        /\ \A p \in Requests : Presented(req[p], c) =>
             /\ \A u \in Users : c \notin codes[u]
             /\ \A q \in Requests \ {p} : ~Presented(req[q], c)

\* The request r is about to revoke the session t, whatever its password.
WillRevoke(r, t) ==
    r.pc = "wipe" /\ r.tgt = sessions[t].user /\ (r.op = "password" \/ r.tok # t)

\* A session that does not match its account is about to be revoked.
SessionsKept ==
    \A t \in Tokens \ excused :
        LET s == sessions[t] IN
        s # NoSession =>
            /\ s.pass # users[s.user].pass =>
                 \E p \in Requests : WillRevoke(req[p], t) /\ req[p].op = "password"
            /\ users[s.user].totp # None /\ s.via = "password" =>
                 \E p \in Requests : WillRevoke(req[p], t)

AccountsInv ==
    /\ TypeOK
    /\ ShapeKept
    /\ ClashKnown
    /\ RolesKept
    /\ SecretsKept
    /\ CodesKept
    /\ SessionsKept
-----------------------------------------------------------------------------
(* Requests and what they add to clash.                                    *)

LEMMA IdleRequest ==
    RequestShape(Idle) /\ Idle.op = "idle" /\ Idle.pc = "start"
BY DEF RequestShape, Idle, Request, Ops, AdminOps, SelfOps, TwoFactorOps

LEMMA ClashesMeaning ==
    ASSUME NEW r, NEW p \in Requests, NEW q \in Requests, p # q
    PROVE  /\ Clashes(r) \subseteq Users \cup {"roles"}
           /\ Removing(r[p]) /\ Removing(r[q]) /\ r[p].tgt # r[q].tgt => "roles" \in Clashes(r)
           /\ Verified2fa(r[p]) /\ Verified2fa(r[q]) /\ r[p].tgt = r[q].tgt /\ r[p].tgt \in Users
                => r[p].tgt \in Clashes(r)
BY DEF Clashes

LEMMA ClashesRange ==
    ASSUME NEW r
    PROVE  Clashes(r) \subseteq Users \cup {"roles"}
BY DEF Clashes

\* Request p becomes r.
LEMMA OneRequest ==
    ASSUME TypeOK, NEW p \in Requests, NEW r \in Request, Becomes(p, r)
    PROVE  /\ req' \in [Requests -> Request]
           /\ req'[p] = r
           /\ \A q \in Requests \ {p} : req'[q] = req[q]
           /\ clash \subseteq clash'
           /\ clash' \subseteq Users \cup {"roles"}
           /\ ClashKnown'
<1>1. /\ req' \in [Requests -> Request]
      /\ req'[p] = r
      /\ \A q \in Requests \ {p} : req'[q] = req[q]
  BY DEF TypeOK, Becomes
<1>2. clash' = clash \cup Clashes(req')
  BY DEF Becomes
<1>3. Clashes(req') \subseteq Users \cup {"roles"}
  BY ClashesRange
<1>4. Clashes(req)' = Clashes(req')
  BY DEF Clashes, Removing, Verified2fa
<1> QED
  BY <1>1, <1>2, <1>3, <1>4 DEF TypeOK, ClashKnown

\* Two requests that have not clashed.
LEMMA NoClash ==
    ASSUME ClashKnown, NEW p \in Requests, NEW q \in Requests, p # q
    PROVE  /\ Removing(req[p]) /\ Removing(req[q]) /\ "roles" \notin clash
                => req[p].tgt = req[q].tgt
           /\ Verified2fa(req[p]) /\ Verified2fa(req[q]) /\ req[p].tgt \in Users \ clash
                => req[p].tgt # req[q].tgt
BY ClashesMeaning DEF ClashKnown

-----------------------------------------------------------------------------
(* What keeps each part of the invariant through a step that does not aim  *)
(* at it.                                                                  *)

\* An account there is, or a request, is a beginning.
LEMMA HasStarted ==
    ASSUME AccountsInv, Live # {} \/ \E p \in Requests : req[p].op # "idle"
    PROVE  Started
BY DEF AccountsInv, ShapeKept, Started, Live

LEMMA ShapeUntouched ==
    ASSUME ShapeKept, UNCHANGED users,
           \A p \in Requests :
               \/ req'[p] = req[p]
               \/ req'[p] = Idle
               \/ /\ RequestShape(req'[p])
                  /\ req'[p].op \in SelfOps => users[req'[p].tgt].status # "new"
                  /\ Started
    PROVE  ShapeKept'
<1>1. (Started' <=> Started) /\ Live' = Live
  BY DEF Started, Live
<1>2. Idle.op \notin SelfOps
  BY IdleRequest DEF SelfOps, TwoFactorOps
<1>3. \A p \in Requests : RequestShape(req'[p]) <=> RequestShape(req[p])'
  BY DEF RequestShape
<1> QED
  BY <1>1, <1>2, <1>3, IdleRequest DEF ShapeKept

LEMMA RolesUntouched ==
    ASSUME RolesKept, clash \subseteq clash',
           \A u \in Users : /\ users'[u].status = users[u].status
                            /\ users'[u].role = users[u].role,
           \A p \in Requests : req'[p] = req[p] \/ RoleReady(req'[p]) \/ "roles" \in clash
    PROVE  RolesKept'
<1>1. Admins' = Admins /\ (Started' <=> Started)
  BY DEF Admins, Live, Started
<1> QED
  BY <1>1 DEF RolesKept, RoleReady

LEMMA SecretsUntouched ==
    ASSUME SecretsKept, clash \subseteq clash',
           \A u \in Users : /\ users'[u].status = users[u].status
                            /\ users'[u].secret = users[u].secret
                            /\ users'[u].totp = users[u].totp,
           \A p \in Requests : req'[p] = req[p] \/ SecretReady(req'[p])
    PROVE  SecretsKept'
<1>1. Live' = Live /\ Live \subseteq Users
  BY DEF Live
<1>2. EnabledSecretProven'
  BY <1>1 DEF SecretsKept, EnabledSecretProven
<1>3. ASSUME NEW p \in Requests
      PROVE  SecretReady(req[p])'
  BY <1>1 DEF SecretsKept, SecretReady
<1> QED
  BY <1>2, <1>3 DEF SecretsKept

LEMMA CodesShrink ==
    ASSUME CodesKept,
           \A u \in Users : codes'[u] \subseteq codes[u],
           \A t \in Tokens : sessions'[t].via \in Codes => sessions'[t].via = sessions[t].via,
           \A p \in Requests, c \in Codes : Presented(req'[p], c) => Presented(req[p], c)
    PROVE  CodesKept'
BY DEF CodesKept, Presented

\* The sessions left are as they were, and so is who will revoke them.
LEMMA SessionsShrink ==
    ASSUME SessionsKept,
           \A t \in Tokens : \/ sessions'[t] = NoSession
                             \/ t \in excused'
                             \/ /\ sessions'[t] = sessions[t] /\ t \notin excused
                                /\ users'[sessions[t].user].pass = users[sessions[t].user].pass
                                /\ users'[sessions[t].user].totp
                                     \in {users[sessions[t].user].totp, None}
                                /\ \A p \in Requests :
                                     WillRevoke(req[p], t) => req'[p] = req[p]
    PROVE  SessionsKept'
<1> SUFFICES ASSUME NEW t \in Tokens, t \notin excused', sessions'[t] # NoSession
             PROVE  /\ sessions'[t].pass # users'[sessions'[t].user].pass =>
                         \E p \in Requests : WillRevoke(req[p], t)' /\ req'[p].op = "password"
                    /\ users'[sessions'[t].user].totp # None /\ sessions'[t].via = "password" =>
                         \E p \in Requests : WillRevoke(req[p], t)'
  BY DEF SessionsKept
<1>1. /\ sessions'[t] = sessions[t] /\ t \notin excused
      /\ users'[sessions[t].user].pass = users[sessions[t].user].pass
      /\ users'[sessions[t].user].totp \in {users[sessions[t].user].totp, None}
      /\ \A p \in Requests : WillRevoke(req[p], t) => req'[p] = req[p]
  OBVIOUS
<1>2. \A p \in Requests : WillRevoke(req[p], t) => WillRevoke(req[p], t)'
  BY <1>1 DEF WillRevoke
<1>3. CASE sessions'[t].pass # users'[sessions'[t].user].pass
  <2>1. PICK p \in Requests : WillRevoke(req[p], t) /\ req[p].op = "password"
    BY <1>1, <1>3 DEF SessionsKept
  <2> QED
    BY <1>1, <1>2, <2>1
<1>4. CASE users'[sessions'[t].user].totp # None /\ sessions'[t].via = "password"
  <2>1. PICK p \in Requests : WillRevoke(req[p], t)
    BY <1>1, <1>4 DEF SessionsKept
  <2> QED
    BY <1>1, <1>2, <2>1, <1>3
<1> QED
  BY <1>3, <1>4

\* Request p becomes r and nothing else happens.
LEMMA QuietStep ==
    ASSUME AccountsInv, NEW p \in Requests, NEW r, Becomes(p, r),
           UNCHANGED <<users, codes, sessions, excused>>,
           RequestShape(r), r.op \in SelfOps => users[r.tgt].status # "new",
           Started \/ r = Idle, RoleReady(r) \/ "roles" \in clash, SecretReady(r),
           \A c \in Codes : ~Presented(r, c) \/ r = req[p],
           req[p].pc # "wipe"
    PROVE  AccountsInv'
<1> USE DEF AccountsInv
<1>1. /\ req' \in [Requests -> Request]
      /\ req'[p] = r
      /\ \A q \in Requests \ {p} : req'[q] = req[q]
      /\ clash \subseteq clash'
      /\ clash' \subseteq Users \cup {"roles"}
      /\ ClashKnown'
  BY OneRequest DEF RequestShape
<1>2. TypeOK'
  BY <1>1 DEF TypeOK, Live
<1>3. ShapeKept'
  BY <1>1, ShapeUntouched
<1>4. RolesKept'
  BY <1>1, RolesUntouched
<1>5. SecretsKept'
  BY <1>1, SecretsUntouched
<1>6. CodesKept'
  BY <1>1, CodesShrink
<1>7. SessionsKept'
  <2>1. \A q \in Requests, t \in Tokens : WillRevoke(req[q], t) => req'[q] = req[q]
    BY <1>1 DEF WillRevoke
  <2> QED
    BY <2>1, SessionsShrink
<1> QED
  BY <1>1, <1>2, <1>3, <1>4, <1>5, <1>6, <1>7

-----------------------------------------------------------------------------
(* Requests that begin, read or end.                                       *)

\* A request that ends where it is, before its last DELETE.
LEMMA QuietEnd ==
    ASSUME AccountsInv, NEW p \in Requests, Ends(p), req[p].pc # "wipe",
           UNCHANGED <<users, codes, sessions, excused>>
    PROVE  AccountsInv'
<1>1. RequestShape(Idle) /\ RoleReady(Idle) /\ SecretReady(Idle) /\ Idle.op \notin SelfOps
  BY IdleRequest DEF RoleReady, SecretReady, RemovalOps, SelfOps, TwoFactorOps
<1>2. \A c \in Codes : ~Presented(Idle, c)
  BY IdleRequest DEF Presented
<1>3. Becomes(p, Idle)
  BY DEF Ends
<1> QED
  BY <1>1, <1>2, <1>3, QuietStep

\* A request that goes on to its statement.
LEMMA QuietGo ==
    ASSUME AccountsInv, NEW p \in Requests, Goes(p, "apply"), req[p].pc # "wipe",
           req[p].op \notin {"idle", "login", "enable2fa"},
           req[p].op \in RemovalOps => Admins \ {req[p].tgt} # {},
           req[p].op = "setup2fa" => users[req[p].tgt].totp = None,
           UNCHANGED <<users, codes, sessions, excused>>
    PROVE  AccountsInv'
<1> DEFINE r == [req[p] EXCEPT !.pc = "apply"]
<1>1. req[p] \in Request /\ RequestShape(req[p])
      /\ (req[p].op \in SelfOps => users[req[p].tgt].status # "new")
  BY DEF AccountsInv, TypeOK, ShapeKept
<1>2. r \in Request /\ r.pc = "apply" /\ r.op = req[p].op /\ r.tgt = req[p].tgt
      /\ r.tok = req[p].tok /\ r.seen = req[p].seen /\ r.via = req[p].via
  BY <1>1 DEF Request
<1>3. Becomes(p, r)
  BY DEF Goes
<1> HIDE DEF r
<1>4. RequestShape(r)
  BY <1>1, <1>2 DEF RequestShape
<1>5. RoleReady(r) /\ SecretReady(r) /\ \A c \in Codes : ~Presented(r, c)
  BY <1>2 DEF RoleReady, SecretReady, Presented
<1> QED
  BY <1>1, <1>2, <1>3, <1>4, <1>5, HasStarted, QuietStep

LEMMA BeginStep ==
    ASSUME AccountsInv, NEW p \in Requests, NEW t \in Tokens,
           NEW op \in AdminOps \cup SelfOps, NEW x \in Users, Begin(p, t, op, x)
    PROVE  AccountsInv'
<1> DEFINE r == [Idle EXCEPT !.op = op, !.tok = t, !.tgt = x]
<1>1. Becomes(p, r) /\ req[p].pc # "wipe" /\ UNCHANGED <<users, codes, sessions, excused>>
  BY IdleRequest DEF Begin
<1>2. r \in Request /\ r.op = op /\ r.pc = "start" /\ r.tok = t /\ r.tgt = x
  BY DEF Idle, Request, Ops
<1>3. op \in SelfOps => users[x].status # "new"
  <2>1. sessions[t] # NoSession => users[sessions[t].user].status = "live"
    BY DEF AccountsInv, TypeOK, Live
  <2>2. op \in SelfOps => op \notin AdminOps
    BY DEF SelfOps, TwoFactorOps, AdminOps
  <2> QED
    BY <2>1, <2>2 DEF Begin
<1>6. Started
  BY HasStarted DEF Begin, AccountsInv, TypeOK
<1> HIDE DEF r
<1>4. RequestShape(r)
  BY <1>2 DEF RequestShape, SelfOps, TwoFactorOps, AdminOps
<1>5. RoleReady(r) /\ SecretReady(r) /\ \A c \in Codes : ~Presented(r, c)
  BY <1>2 DEF RoleReady, SecretReady, Presented
<1> QED
  BY <1>1, <1>2, <1>3, <1>4, <1>5, <1>6, QuietStep

LEMMA LoginReadStep ==
    ASSUME AccountsInv, NEW p \in Requests, NEW u \in Users, LoginRead(p, u)
    PROVE  AccountsInv'
<1>1. PICK via \in Proofs :
        /\ (users[u].totp = None) <=> (via = "password")
        /\ via = "otp" => users[u].secret # None
        /\ via \in Codes => via \in codes[u]
        /\ Becomes(p, [Idle EXCEPT !.op = "login", !.tgt = u, !.via = via,
                                   !.seen = users[u].pass,
                                   !.pc = IF via \in Codes THEN "consume" ELSE "apply"])
  BY DEF LoginRead
<1> DEFINE r == [Idle EXCEPT !.op = "login", !.tgt = u, !.via = via, !.seen = users[u].pass,
                             !.pc = IF via \in Codes THEN "consume" ELSE "apply"]
<1>2. users[u].pass \in Passwords
  BY DEF LoginRead, AccountsInv, ShapeKept
<1>3. /\ r \in Request /\ r.op = "login" /\ r.tgt = u /\ r.via = via /\ r.seen = users[u].pass
      /\ r.pc \in {"consume", "apply"} /\ (r.pc = "consume" <=> via \in Codes)
  BY <1>2 DEF Idle, Request, Ops
<1>4. Becomes(p, r) /\ req[p].pc # "wipe" /\ UNCHANGED <<users, codes, sessions, excused>>
  BY <1>1, IdleRequest DEF LoginRead
<1> HIDE DEF r
<1>5. RequestShape(r) /\ r.op \notin SelfOps
  BY <1>2, <1>3 DEF RequestShape, SelfOps, TwoFactorOps, AdminOps
<1>6. RoleReady(r) /\ SecretReady(r) /\ \A c \in Codes : ~Presented(r, c)
  BY <1>3 DEF RoleReady, SecretReady, Presented, RemovalOps
<1> QED
  BY <1>4, <1>5, <1>6, HasStarted, QuietStep DEF LoginRead

LEMMA CreateCountStep ==
    ASSUME AccountsInv, NEW p \in Requests, CreateCount(p)
    PROVE  AccountsInv'
<1>1. req[p].op = "create" /\ req[p].pc # "wipe" /\ UNCHANGED <<users, codes, sessions, excused>>
  BY DEF CreateCount, At
<1>2. req[p].op \notin {"idle", "login", "enable2fa", "setup2fa"} \cup RemovalOps
  BY <1>1 DEF RemovalOps
<1>3. Ends(p) \/ Goes(p, "apply")
  BY DEF CreateCount
<1> QED
  BY <1>1, <1>2, <1>3, QuietEnd, QuietGo

LEMMA CountAdminsStep ==
    ASSUME AccountsInv, NEW p \in Requests, CountAdmins(p)
    PROVE  AccountsInv'
<1>1. req[p].op \in {"demote", "delete"} /\ req[p].pc # "wipe"
      /\ UNCHANGED <<users, codes, sessions, excused>>
  BY DEF CountAdmins, At
<1>2. Ends(p) \/ (Goes(p, "apply") /\ Admins \ {req[p].tgt} # {})
  BY DEF CountAdmins, OtherAdmins
<1> QED
  BY <1>1, <1>2, QuietEnd, QuietGo

\* An account that administers nothing is deleted without a count.
LEMMA DeleteReadRoleStep ==
    ASSUME AccountsInv, NEW p \in Requests, DeleteReadRole(p)
    PROVE  AccountsInv'
<1> DEFINE u == req[p].tgt
<1>1. req[p].op = "delete" /\ req[p].pc = "start" /\ UNCHANGED <<users, codes, sessions, excused>>
  BY DEF DeleteReadRole, At
<1>2. CASE Ends(p)
  BY <1>1, <1>2, QuietEnd
<1>3. CASE ~Ends(p)
  <2> DEFINE pc == IF u \in Admins THEN "count" ELSE "apply"
             r == [req[p] EXCEPT !.pc = pc]
  <2>1. u \in Live /\ Goes(p, pc)
    BY <1>3 DEF DeleteReadRole
  <2>2. Becomes(p, r)
    BY <2>1 DEF Goes
  <2>3. req[p] \in Request /\ RequestShape(req[p])
    BY DEF AccountsInv, TypeOK, ShapeKept
  <2>4. r \in Request /\ r.pc = pc /\ r.op = "delete" /\ r.tgt = u
        /\ r.tok = req[p].tok /\ r.seen = req[p].seen /\ r.via = req[p].via
    BY <1>1, <2>3 DEF Request
  <2> HIDE DEF r
  <2>5. RequestShape(r) /\ r.op \notin SelfOps
    BY <1>1, <2>3, <2>4 DEF RequestShape, SelfOps, TwoFactorOps, AdminOps
  <2>6. SecretReady(r) /\ \A c \in Codes : ~Presented(r, c)
    BY <2>4 DEF SecretReady, Presented
  <2>7. CASE "roles" \notin clash \/ pc = "count"
    <3>1. Started
      BY <2>1 DEF Started, Live
    <3>2. RoleReady(r)
      BY <2>4, <2>7, <3>1 DEF RoleReady, AccountsInv, RolesKept
    <3> QED
      BY <1>1, <2>2, <2>5, <2>6, <3>2, <3>1, QuietStep
  <2>8. CASE "roles" \in clash
    BY <1>1, <2>2, <2>5, <2>6, <2>8, HasStarted, QuietStep DEF RoleReady
  <2> QED
    BY <2>7, <2>8
<1> QED
  BY <1>2, <1>3

LEMMA PasswordReadStep ==
    ASSUME AccountsInv, NEW p \in Requests, PasswordRead(p)
    PROVE  AccountsInv'
<1>1. req[p].op = "password" /\ req[p].pc # "wipe" /\ UNCHANGED <<users, codes, sessions, excused>>
  BY DEF PasswordRead, At
<1>2. req[p].op \notin {"idle", "login", "enable2fa", "setup2fa"} \cup RemovalOps
  BY <1>1 DEF RemovalOps
<1>3. Ends(p) \/ Goes(p, "apply")
  BY DEF PasswordRead
<1> QED
  BY <1>1, <1>2, <1>3, QuietEnd, QuietGo

LEMMA SetupReadStep ==
    ASSUME AccountsInv, NEW p \in Requests, SetupRead(p)
    PROVE  AccountsInv'
<1>1. req[p].op = "setup2fa" /\ req[p].pc # "wipe" /\ UNCHANGED <<users, codes, sessions, excused>>
  BY DEF SetupRead, At
<1>2. req[p].op \notin {"idle", "login", "enable2fa"} \cup RemovalOps
  BY <1>1 DEF RemovalOps
<1>3. Ends(p) \/ (Goes(p, "apply") /\ users[req[p].tgt].totp = None)
  BY DEF SetupRead
<1> QED
  BY <1>1, <1>2, <1>3, QuietEnd, QuietGo

LEMMA EnableReadStep ==
    ASSUME AccountsInv, NEW p \in Requests, EnableRead(p)
    PROVE  AccountsInv'
<1> DEFINE u == req[p].tgt
           r == [req[p] EXCEPT !.pc = "apply", !.seen = users[u].secret]
<1>1. req[p].op = "enable2fa" /\ req[p].pc = "start" /\ UNCHANGED <<users, codes, sessions, excused>>
  BY DEF EnableRead, At
<1>2. CASE Ends(p)
  BY <1>1, <1>2, QuietEnd
<1>3. CASE ~Ends(p)
  <2>1. Becomes(p, r) /\ u \in Live /\ users[u].secret # None
    BY <1>3 DEF EnableRead
  <2>2. req[p] \in Request /\ RequestShape(req[p]) /\ users[u].status = "live"
    BY <2>1 DEF AccountsInv, TypeOK, ShapeKept, Live
  <2>3. users[u].secret \in Secrets
    BY <1>1, <2>1, <2>2 DEF AccountsInv, TypeOK, UserRow, RequestShape
  <2>4. r \in Request /\ r.pc = "apply" /\ r.op = "enable2fa" /\ r.tgt = u
        /\ r.tok = req[p].tok /\ r.seen = users[u].secret /\ r.via = req[p].via
    BY <1>1, <2>2, <2>3 DEF Request
  <2> HIDE DEF r
  <2>5. RequestShape(r)
    BY <1>1, <2>2, <2>3, <2>4 DEF RequestShape
  <2>6. RoleReady(r) /\ SecretReady(r) /\ \A c \in Codes : ~Presented(r, c)
    BY <2>4 DEF RoleReady, SecretReady, Presented, RemovalOps
  <2> QED
    BY <1>1, <2>1, <2>2, <2>4, <2>5, <2>6, HasStarted, QuietStep
<1> QED
  BY <1>2, <1>3

LEMMA DisableReadStep ==
    ASSUME AccountsInv, NEW p \in Requests, DisableRead(p)
    PROVE  AccountsInv'
<1> DEFINE u == req[p].tgt
<1>1. req[p].op = "disable2fa" /\ req[p].pc = "start" /\ UNCHANGED <<users, codes, sessions, excused>>
  BY DEF DisableRead, At
<1>2. req[p].op \notin {"idle", "login", "enable2fa", "setup2fa"} \cup RemovalOps
  BY <1>1 DEF RemovalOps
<1>3. CASE Ends(p)
  BY <1>1, <1>3, QuietEnd
<1>4. CASE Goes(p, "apply")
  BY <1>1, <1>2, <1>4, QuietGo
<1>5. CASE ~Ends(p) /\ ~Goes(p, "apply")
  <2>1. PICK c \in codes[u] : Becomes(p, [req[p] EXCEPT !.pc = "consume", !.via = c])
        /\ users[u].status = "live" /\ u \in Users
    BY <1>5 DEF DisableRead, Live
  <2> DEFINE r == [req[p] EXCEPT !.pc = "consume", !.via = c]
  <2>2. c \in Codes /\ req[p] \in Request /\ RequestShape(req[p])
    BY <2>1 DEF AccountsInv, TypeOK, ShapeKept
  <2>3. r \in Request /\ r.pc = "consume" /\ r.op = "disable2fa" /\ r.tgt = u
        /\ r.tok = req[p].tok /\ r.via = c
    BY <1>1, <2>2 DEF Request, Proofs
  <2>4. Becomes(p, r)
    BY <2>1
  <2> HIDE DEF r
  <2>5. RequestShape(r)
    BY <1>1, <2>2, <2>3 DEF RequestShape
  <2>6. RoleReady(r) /\ SecretReady(r) /\ \A d \in Codes : ~Presented(r, d)
    BY <2>3 DEF RoleReady, SecretReady, Presented, RemovalOps
  <2> QED
    BY <1>1, <2>1, <2>3, <2>4, <2>5, <2>6, HasStarted, QuietStep
<1> QED
  BY <1>3, <1>4, <1>5

\* A handler dropped before its DELETE leaves sessions that are excused.
LEMMA DropStep ==
    ASSUME AccountsInv, NEW p \in Requests, Drop(p)
    PROVE  AccountsInv'
<1> DEFINE u == req[p].tgt
<1>1. Becomes(p, Idle) /\ UNCHANGED <<users, codes, sessions>>
  BY DEF Drop, Ends
<1>2. CASE req[p].pc # "wipe"
  BY <1>2, QuietEnd DEF Drop
<1>3. CASE req[p].pc = "wipe"
  <2> USE DEF AccountsInv
  <2>1. /\ req' \in [Requests -> Request]
        /\ req'[p] = Idle
        /\ \A q \in Requests \ {p} : req'[q] = req[q]
        /\ clash \subseteq clash'
        /\ clash' \subseteq Users \cup {"roles"}
        /\ ClashKnown'
    BY <1>1, IdleRequest, OneRequest DEF RequestShape
  <2>2. excused' = excused \cup SessionsOf(u)
    BY <1>3 DEF Drop
  <2>3. TypeOK'
    BY <1>1, <2>1, <2>2 DEF TypeOK, Live, SessionsOf
  <2>4. ShapeKept'
    BY <1>1, <2>1, ShapeUntouched
  <2>5. RoleReady(Idle) /\ SecretReady(Idle) /\ \A c \in Codes : ~Presented(Idle, c)
    BY IdleRequest DEF RoleReady, SecretReady, Presented, RemovalOps
  <2>6. RolesKept'
    BY <1>1, <2>1, <2>5, RolesUntouched
  <2>7. SecretsKept'
    BY <1>1, <2>1, <2>5, SecretsUntouched
  <2>8. CodesKept'
    BY <1>1, <2>1, <2>5, CodesShrink
  <2>9. SessionsKept'
    <3>1. \A t \in Tokens \ excused' : sessions[t].user # u
      BY <2>2 DEF SessionsOf
    <3>2. \A q \in Requests, t \in Tokens \ excused' :
            WillRevoke(req[q], t) => req'[q] = req[q]
      BY <2>1, <3>1 DEF WillRevoke
    <3> QED
      BY <1>1, <2>2, <3>2, SessionsShrink
  <2> QED
    BY <2>1, <2>3, <2>4, <2>6, <2>7, <2>8, <2>9
<1> QED
  BY <1>2, <1>3

-----------------------------------------------------------------------------
(* Sessions that end and logins that succeed.                              *)

\* DELETE FROM sessions, whoever asks: what remains is as it was.
LEMMA DeletedSessions ==
    ASSUME TypeOK, NEW T \in SUBSET Tokens, DeleteSessions(T)
    PROVE  /\ sessions' \in [Tokens -> Session \cup {NoSession}]
           /\ excused' = excused \ T
           /\ \A t \in T : sessions'[t] = NoSession
           /\ \A t \in Tokens \ T : sessions'[t] = sessions[t]
           /\ NoSession.via \notin Codes
BY AccountsAssumption DEF DeleteSessions, TypeOK, NoSession

LEMMA DeleteSessionsStep ==
    ASSUME AccountsInv, NEW T \in SUBSET Tokens, DeleteSessions(T),
           UNCHANGED <<users, codes, req, clash>>
    PROVE  AccountsInv'
<1> USE DEF AccountsInv
<1>1. /\ sessions' \in [Tokens -> Session \cup {NoSession}]
      /\ excused' = excused \ T
      /\ \A t \in T : sessions'[t] = NoSession
      /\ \A t \in Tokens \ T : sessions'[t] = sessions[t]
      /\ NoSession.via \notin Codes
  BY DeletedSessions
<1>2. TypeOK'
  BY <1>1 DEF TypeOK, Live
<1>3. ShapeKept' /\ ClashKnown'
  BY ShapeUntouched DEF ClashKnown, Clashes, Removing, Verified2fa
<1>4. RolesKept' /\ SecretsKept'
  BY RolesUntouched, SecretsUntouched
<1>5. CodesKept'
  BY <1>1, CodesShrink
<1>6. SessionsKept'
  BY <1>1, SessionsShrink
<1> QED
  BY <1>2, <1>3, <1>4, <1>5, <1>6

LEMMA WipeSessionsStep ==
    ASSUME AccountsInv, NEW p \in Requests, WipeSessions(p)
    PROVE  AccountsInv'
<1> USE DEF AccountsInv
<1> DEFINE T == {t \in SessionsOf(req[p].tgt) : req[p].op = "password" \/ t # req[p].tok}
<1>1. /\ req' \in [Requests -> Request]
      /\ req'[p] = Idle
      /\ \A q \in Requests \ {p} : req'[q] = req[q]
      /\ clash \subseteq clash'
      /\ clash' \subseteq Users \cup {"roles"}
      /\ ClashKnown'
  BY IdleRequest, OneRequest DEF RequestShape, WipeSessions, Ends
<1>2. T \in SUBSET Tokens /\ UNCHANGED <<users, codes>> /\ req[p].pc = "wipe"
  BY DEF SessionsOf, WipeSessions
<1>3. DeleteSessions(T)
  BY DEF WipeSessions
<1>4. \A t \in Tokens \ T : ~WillRevoke(req[p], t)
  BY <1>2 DEF WillRevoke, SessionsOf
<1> HIDE DEF T
<1>5. /\ sessions' \in [Tokens -> Session \cup {NoSession}]
      /\ excused' = excused \ T
      /\ \A t \in T : sessions'[t] = NoSession
      /\ \A t \in Tokens \ T : sessions'[t] = sessions[t]
      /\ NoSession.via \notin Codes
  BY <1>2, <1>3, DeletedSessions
<1>6. TypeOK'
  BY <1>1, <1>2, <1>5 DEF TypeOK, Live
<1>7. ShapeKept'
  BY <1>1, <1>2, ShapeUntouched
<1>8. RoleReady(Idle) /\ SecretReady(Idle) /\ \A c \in Codes : ~Presented(Idle, c)
  BY IdleRequest DEF RoleReady, SecretReady, Presented, RemovalOps
<1>9. RolesKept' /\ SecretsKept'
  BY <1>1, <1>2, <1>8, RolesUntouched, SecretsUntouched
<1>10. CodesKept'
  BY <1>1, <1>2, <1>5, <1>8, CodesShrink
<1>11. SessionsKept'
  <2>1. \A t \in Tokens \ T, q \in Requests : WillRevoke(req[q], t) => req'[q] = req[q]
    BY <1>1, <1>4
  <2> QED
    BY <1>2, <1>5, <2>1, SessionsShrink
<1> QED
  BY <1>1, <1>6, <1>7, <1>9, <1>10, <1>11

\* A code that was still unused is now held by the request that used it.
LEMMA ConsumeRecoveryStep ==
    ASSUME AccountsInv, NEW p \in Requests, ConsumeRecovery(p)
    PROVE  AccountsInv'
<1> DEFINE u == req[p].tgt
           c == req[p].via
           r == [req[p] EXCEPT !.pc = "apply"]
<1>1. req[p].pc = "consume" /\ UNCHANGED <<users, sessions, excused>>
  BY DEF ConsumeRecovery
<1>2. /\ req[p] \in Request /\ RequestShape(req[p]) /\ c \in Codes /\ u \in Users
      /\ req[p].op \in {"login", "disable2fa"}
      /\ (req[p].op \in SelfOps => users[u].status # "new")
  BY <1>1 DEF AccountsInv, TypeOK, ShapeKept, RequestShape
<1>3. CASE c \notin codes[u]
  BY <1>1, <1>3, QuietEnd DEF ConsumeRecovery
<1>4. CASE c \in codes[u]
  <2> USE DEF AccountsInv
  <2>1. codes' = [codes EXCEPT ![u] = @ \ {c}] /\ Becomes(p, r)
    BY <1>4 DEF ConsumeRecovery, Goes
  <2>2. r \in Request /\ r.pc = "apply" /\ r.op = req[p].op /\ r.tgt = u
        /\ r.tok = req[p].tok /\ r.seen = req[p].seen /\ r.via = c
    BY <1>2 DEF Request
  <2> HIDE DEF r
  <2>3. /\ req' \in [Requests -> Request]
        /\ req'[p] = r
        /\ \A q \in Requests \ {p} : req'[q] = req[q]
        /\ clash \subseteq clash'
        /\ clash' \subseteq Users \cup {"roles"}
        /\ ClashKnown'
    BY <2>1, <2>2, OneRequest
  <2> HIDE DEF c, u
  <2>4. /\ codes' \in [Users -> SUBSET Codes]
        /\ \A v \in Users : codes'[v] \subseteq codes[v] /\ c \notin codes'[u]
    BY <1>2, <2>1 DEF TypeOK
  <2>5. TypeOK'
    BY <1>1, <2>3, <2>4 DEF TypeOK, Live
  <2>6. ShapeKept'
    <3>1. RequestShape(r)
      BY <1>2, <2>2 DEF RequestShape, Proofs, c, u
    <3> QED
      BY <1>1, <1>2, <2>2, <2>3, <3>1, HasStarted, ShapeUntouched DEF u
  <2>7. RoleReady(r) /\ SecretReady(r)
    BY <1>2, <2>2 DEF RoleReady, SecretReady, RemovalOps
  <2>8. RolesKept' /\ SecretsKept'
    BY <1>1, <2>3, <2>7, RolesUntouched, SecretsUntouched
  <2>9. CodesKept'
    <3>1. \A v \in Users : c \notin codes'[v]
      BY <1>2, <1>4, <2>4, u \in Users DEF CodesKept
    <3>2. /\ \A q \in Requests : ~Presented(req[q], c)
          /\ \A t \in Tokens : sessions[t].via # c
      BY <1>2, <1>4 DEF CodesKept
    <3>3. \A q \in Requests, d \in Codes :
            Presented(req'[q], d) => (q = p /\ d = c) \/ (q # p /\ Presented(req[q], d))
      BY <2>2, <2>3 DEF Presented
    <3> QED
      BY <1>1, <2>4, <3>1, <3>2, <3>3 DEF CodesKept
  <2>10. SessionsKept'
    <3>1. \A q \in Requests, t \in Tokens : WillRevoke(req[q], t) => req'[q] = req[q]
      BY <1>1, <2>3 DEF WillRevoke
    <3> QED
      BY <1>1, <3>1, SessionsShrink
  <2> QED
    BY <2>3, <2>5, <2>6, <2>8, <2>9, <2>10
<1> QED
  BY <1>3, <1>4

LEMMA CreateSessionStep ==
    ASSUME AccountsInv, NEW p \in Requests, NEW t \in Tokens, CreateSession(p, t)
    PROVE  AccountsInv'
<1> DEFINE u == req[p].tgt
           late == \/ users[u].pass # req[p].seen
                   \/ users[u].totp # None /\ req[p].via = "password"
<1>1. /\ req[p].op = "login" /\ req[p].pc = "apply"
      /\ Becomes(p, Idle) /\ Ends(p) /\ UNCHANGED <<users, codes>>
  BY DEF CreateSession, At, Ends
<1>2. CASE u \notin Live
  BY <1>1, <1>2, QuietEnd DEF CreateSession
<1>3. CASE u \in Live
  <2> USE DEF AccountsInv
  <2> DEFINE s == [user |-> u, pass |-> req[p].seen, via |-> req[p].via]
  <2>1. /\ req' \in [Requests -> Request]
        /\ req'[p] = Idle
        /\ \A q \in Requests \ {p} : req'[q] = req[q]
        /\ clash \subseteq clash'
        /\ clash' \subseteq Users \cup {"roles"}
        /\ ClashKnown'
    BY <1>1, IdleRequest, OneRequest DEF RequestShape
  <2>2. /\ sessions' = [sessions EXCEPT ![t] = s]
        /\ excused' = IF late THEN excused \cup {t} ELSE excused
    BY <1>3 DEF CreateSession
  <2>3. s \in Session /\ s.user = u /\ s.pass = req[p].seen /\ s.via = req[p].via
    BY <1>1, <1>3 DEF ShapeKept, RequestShape, Session, Live
  <2> HIDE DEF s
  <2>4. /\ sessions' \in [Tokens -> Session \cup {NoSession}]
        /\ sessions'[t] = s
        /\ \A k \in Tokens \ {t} : sessions'[k] = sessions[k]
    BY <2>2, <2>3 DEF TypeOK
  <2>5. TypeOK'
    BY <1>1, <1>3, <2>1, <2>2, <2>3, <2>4 DEF TypeOK, Live
  <2>6. ShapeKept'
    BY <1>1, <2>1, ShapeUntouched
  <2>7. RoleReady(Idle) /\ SecretReady(Idle) /\ \A c \in Codes : ~Presented(Idle, c)
    BY IdleRequest DEF RoleReady, SecretReady, Presented, RemovalOps
  <2>8. RolesKept' /\ SecretsKept'
    BY <1>1, <2>1, <2>7, RolesUntouched, SecretsUntouched
  <2>9. CodesKept'
    <3>1. \A c \in Codes : s.via = c => Presented(req[p], c)
      BY <1>1, <2>3 DEF Presented
    <3>2. \A q \in Requests, c \in Codes :
            Presented(req'[q], c) => q # p /\ Presented(req[q], c)
      BY <2>1, <2>7 DEF Presented
    <3> QED
      BY <1>1, <2>4, <3>1, <3>2 DEF CodesKept
  <2>10. SessionsKept'
    <3>1. \A q \in Requests, k \in Tokens \ {t} :
            WillRevoke(req[q], k) => req'[q] = req[q] /\ WillRevoke(req[q], k)'
      BY <1>1, <2>1, <2>4 DEF WillRevoke
    <3>2. ASSUME NEW k \in Tokens \ excused', k # t, sessions'[k] # NoSession
          PROVE  /\ sessions'[k].pass # users'[sessions'[k].user].pass =>
                      \E q \in Requests : WillRevoke(req[q], k)' /\ req'[q].op = "password"
                 /\ users'[sessions'[k].user].totp # None /\ sessions'[k].via = "password" =>
                      \E q \in Requests : WillRevoke(req[q], k)'
      <4>1. k \in Tokens \ excused /\ sessions'[k] = sessions[k]
        BY <2>2, <2>4, <3>2
      <4>2. CASE sessions[k].pass # users[sessions[k].user].pass
        <5>1. PICK q \in Requests : WillRevoke(req[q], k) /\ req[q].op = "password"
          BY <3>2, <4>1, <4>2 DEF SessionsKept
        <5> QED
          BY <3>1, <3>2, <5>1
      <4>3. CASE users[sessions[k].user].totp # None /\ sessions[k].via = "password"
        <5>1. PICK q \in Requests : WillRevoke(req[q], k)
          BY <3>2, <4>1, <4>3 DEF SessionsKept
        <5> QED
          BY <1>1, <3>1, <3>2, <4>1, <4>2, <5>1
      <4> QED
        BY <1>1, <4>1, <4>2, <4>3
    <3>3. t \notin excused' => ~late
      BY <2>2
    <3>4. t \notin excused' => /\ s.pass = users'[s.user].pass
                               /\ ~(users'[s.user].totp # None /\ s.via = "password")
      BY <1>1, <2>3, <3>3
    <3> QED
      BY <2>4, <3>2, <3>4 DEF SessionsKept
  <2> QED
    BY <2>1, <2>5, <2>6, <2>8, <2>9, <2>10
<1> QED
  BY <1>2, <1>3

-----------------------------------------------------------------------------
(* Accounts that appear.                                                   *)

\* Account u is inserted; requests stay or end.
LEMMA NewAccount ==
    ASSUME AccountsInv, NEW u \in Users, users[u].status = "new",
           NEW w \in Passwords, NEW role \in Roles,
           users' = [users EXCEPT ![u] = NewUser(w, role)],
           role = "admin" \/ Started,
           UNCHANGED <<codes, sessions, excused>>,
           req' \in [Requests -> Request], ClashKnown',
           clash \subseteq clash', clash' \subseteq Users \cup {"roles"},
           \A q \in Requests : req'[q] = req[q] \/ (req'[q] = Idle /\ req[q].pc # "wipe")
    PROVE  AccountsInv'
<1> USE DEF AccountsInv
<1>1. /\ users' \in [Users -> UserRow]
      /\ users'[u].status = "live" /\ users'[u].pass = w /\ users'[u].role = role
      /\ users'[u].totp = None
      /\ \A v \in Users \ {u} : users'[v] = users[v]
  BY DEF TypeOK, UserRow, NewUser
<1>2. /\ Live' = Live \cup {u} /\ u \notin Live
      /\ Admins \subseteq Admins' /\ (role = "admin" => Admins' # {})
  BY <1>1 DEF Live, Admins
<1>3. TypeOK'
  BY <1>1, <1>2 DEF TypeOK
<1>4. /\ Idle.op \notin SelfOps /\ RoleReady(Idle)' /\ SecretReady(Idle)'
      /\ \A c \in Codes : ~Presented(Idle, c)
  BY IdleRequest DEF RoleReady, SecretReady, Presented, RemovalOps, SelfOps, TwoFactorOps
<1>5. ShapeKept'
  <2>1. Started'
    BY <1>1 DEF Started
  <2>2. \A v \in Live' : users'[v].pass \in Passwords
    BY <1>1, <1>2 DEF ShapeKept
  <2>3. \A q \in Requests : RequestShape(req'[q])
    BY IdleRequest DEF ShapeKept
  <2>4. ASSUME NEW q \in Requests, req'[q].op \in SelfOps
        PROVE  users'[req'[q].tgt].status # "new"
    <3>1. req'[q] = req[q] /\ RequestShape(req[q]) /\ users[req[q].tgt].status # "new"
      BY <1>4, <2>4 DEF ShapeKept
    <3>2. req[q].tgt \in Users
      BY <2>4, <3>1 DEF RequestShape, SelfOps, TwoFactorOps
    <3> QED
      BY <1>1, <3>1, <3>2
  <2> QED
    BY <2>1, <2>2, <2>3, <2>4 DEF ShapeKept, RequestShape
<1>6. RolesKept'
  BY <1>2, <1>4 DEF RolesKept, RoleReady
<1>7. SecretsKept'
  <2>1. EnabledSecretProven'
    BY <1>1, <1>2 DEF SecretsKept, EnabledSecretProven, Live
  <2>2. ASSUME NEW q \in Requests
        PROVE  SecretReady(req[q])'
    <3>1. CASE req'[q] = Idle
      BY <1>4, <3>1 DEF SecretReady
    <3>2. CASE req'[q] = req[q] /\ req[q].tgt # u
      BY <1>1, <1>2, <3>2 DEF SecretsKept, SecretReady, Live
    <3>3. CASE req'[q] = req[q] /\ req[q].tgt = u
      BY <3>3 DEF SecretReady, ShapeKept, SelfOps, TwoFactorOps
    <3> QED
      BY <3>1, <3>2, <3>3
  <2> QED
    BY <2>1, <2>2 DEF SecretsKept
<1>8. CodesKept'
  BY <1>4, CodesShrink
<1>9. SessionsKept'
  <2>1. \A t \in Tokens : sessions[t] # NoSession => sessions[t].user # u
    BY <1>2 DEF TypeOK
  <2>2. \A q \in Requests, t \in Tokens : WillRevoke(req[q], t) => req'[q] = req[q]
    BY DEF WillRevoke
  <2>3. \A t \in Tokens : sessions[t] # NoSession => sessions[t].user \in Users \ {u}
    BY <2>1 DEF TypeOK, Live
  <2>4. \A t \in Tokens : sessions'[t] = sessions[t]
    OBVIOUS
  <2> QED
    BY <1>1, <2>2, <2>3, <2>4, SessionsShrink
<1> QED
  BY <1>3, <1>5, <1>6, <1>7, <1>8, <1>9

LEMMA SetupStep ==
    ASSUME AccountsInv, NEW u \in Users, Setup(u)
    PROVE  AccountsInv'
<1>1. PICK w \in Passwords :
        users' = [users EXCEPT ![u] = NewUser(w, "admin")]
  BY DEF Setup
<1>2. /\ req' \in [Requests -> Request] /\ clash' \subseteq Users \cup {"roles"}
      /\ ClashKnown' /\ req' = req /\ clash' = clash
  BY DEF Setup, AccountsInv, TypeOK, ClashKnown, Clashes, Removing, Verified2fa
<1>3. users[u].status = "new" /\ "admin" \in Roles /\ UNCHANGED <<codes, sessions, excused>>
  BY DEF Setup, Roles
<1> QED
  BY <1>1, <1>2, <1>3, NewAccount

LEMMA CreateInsertStep ==
    ASSUME AccountsInv, NEW p \in Requests, CreateInsert(p)
    PROVE  AccountsInv'
<1> DEFINE u == req[p].tgt
<1>1. /\ req[p].op = "create" /\ req[p].pc = "apply" /\ Becomes(p, Idle) /\ Ends(p)
      /\ UNCHANGED <<codes, sessions, excused>>
  BY DEF CreateInsert, At, Ends
<1>2. CASE users[u].status # "new"
  BY <1>1, <1>2, QuietEnd DEF CreateInsert
<1>3. CASE users[u].status = "new"
  <2>1. PICK w \in Passwords, role \in Roles :
          users' = [users EXCEPT ![u] = NewUser(w, role)]
    BY <1>3 DEF CreateInsert
  <2>2. /\ req' \in [Requests -> Request]
        /\ \A q \in Requests : req'[q] = req[q] \/ (req'[q] = Idle /\ req[q].pc # "wipe")
        /\ clash \subseteq clash'
        /\ clash' \subseteq Users \cup {"roles"}
        /\ ClashKnown'
    BY <1>1, IdleRequest, OneRequest DEF RequestShape, AccountsInv
  <2>3. u \in Users /\ Started
    BY <1>1, HasStarted DEF AccountsInv, ShapeKept, RequestShape
  <2> HIDE DEF u
  <2> QED
    BY <1>1, <1>3, <2>1, <2>2, <2>3, NewAccount
<1> QED
  BY <1>2, <1>3

-----------------------------------------------------------------------------
(* Accounts that change.                                                   *)

\* A statement done, the request p goes on to its DELETE.
LEMMA GoesToWipe ==
    ASSUME AccountsInv, NEW p \in Requests, Goes(p, "wipe"), req[p].op \notin {"idle", "login"}
    PROVE  /\ req' \in [Requests -> Request]
           /\ req'[p].pc = "wipe" /\ req'[p].op = req[p].op
           /\ req'[p].tgt = req[p].tgt /\ req'[p].tok = req[p].tok
           /\ RequestShape(req'[p])
           /\ \A q \in Requests \ {p} : req'[q] = req[q]
           /\ clash \subseteq clash'
           /\ clash' \subseteq Users \cup {"roles"}
           /\ ClashKnown'
<1> DEFINE r == [req[p] EXCEPT !.pc = "wipe"]
<1>1. req[p] \in Request /\ RequestShape(req[p])
  BY DEF AccountsInv, TypeOK, ShapeKept
<1>2. r \in Request /\ r.pc = "wipe" /\ r.op = req[p].op /\ r.tgt = req[p].tgt
      /\ r.tok = req[p].tok /\ r.seen = req[p].seen /\ r.via = req[p].via
  BY <1>1 DEF Request
<1>3. Becomes(p, r)
  BY DEF Goes
<1> HIDE DEF r
<1>4. RequestShape(r)
  BY <1>1, <1>2 DEF RequestShape
<1> QED
  BY <1>2, <1>3, <1>4, OneRequest DEF AccountsInv

\* An account changes and stays what it was, in the columns a part ignores.
LEMMA AccountChanged ==
    ASSUME AccountsInv, NEW u \in Users, u \in Live,
           users' \in [Users -> UserRow],
           \A v \in Users \ {u} : users'[v] = users[v],
           users'[u].status = "live", users'[u].pass \in Passwords,
           \A q \in Requests : req'[q] = req[q] \/ req'[q] = Idle
                               \/ (RequestShape(req'[q]) /\ req'[q].tgt = u)
    PROVE  /\ Live' = Live
           /\ ShapeKept'
<1>1. Live' = Live
  BY DEF Live
<1>2. Started' /\ \A v \in Users : users'[v].status = users[v].status
  BY DEF Started, Live
<1>3. \A v \in Live' : users'[v].pass \in Passwords
  BY <1>1 DEF AccountsInv, ShapeKept, Live
<1>4. ASSUME NEW q \in Requests
      PROVE  /\ RequestShape(req'[q])
             /\ req'[q].op \in SelfOps => users'[req'[q].tgt].status # "new"
  <2>1. CASE req'[q] = req[q]
    <3>1. RequestShape(req[q]) /\ (req[q].op \in SelfOps => req[q].tgt \in Users)
      BY DEF AccountsInv, ShapeKept, RequestShape, SelfOps, TwoFactorOps
    <3> QED
      BY <1>2, <2>1, <3>1 DEF AccountsInv, ShapeKept
  <2>2. CASE req'[q] = Idle
    BY <2>2, IdleRequest DEF SelfOps, TwoFactorOps
  <2>3. CASE RequestShape(req'[q]) /\ req'[q].tgt = u
    BY <2>3
  <2> QED
    BY <2>1, <2>2, <2>3
<1>5. \A q \in Requests : RequestShape(req[q])' <=> RequestShape(req'[q])
  BY DEF RequestShape
<1> QED
  BY <1>1, <1>2, <1>3, <1>4, <1>5 DEF ShapeKept

\* Nobody else demotes or deletes another account, and this one was counted.
LEMMA SetRoleStep ==
    ASSUME AccountsInv, NEW p \in Requests, SetRole(p)
    PROVE  AccountsInv'
<1> DEFINE u == req[p].tgt
           role == IF req[p].op = "demote" THEN "viewer" ELSE "admin"
<1>1. /\ (req[p].op = "demote" /\ req[p].pc = "apply") \/ (req[p].op = "promote" /\ req[p].pc = "start")
      /\ UNCHANGED <<codes, sessions, excused>>
  BY DEF SetRole, At
<1>2. CASE u \notin Live
  BY <1>1, <1>2, QuietEnd DEF SetRole
<1>3. CASE u \in Live
  <2> USE DEF AccountsInv
  <2>1. users' = [users EXCEPT ![u].role = role] /\ Goes(p, "wipe") /\ u \in Users
    BY <1>3 DEF SetRole, Live
  <2>2. /\ req' \in [Requests -> Request]
        /\ req'[p].pc = "wipe" /\ req'[p].op = req[p].op
        /\ req'[p].tgt = req[p].tgt /\ req'[p].tok = req[p].tok
        /\ RequestShape(req'[p])
        /\ \A q \in Requests \ {p} : req'[q] = req[q]
        /\ clash \subseteq clash'
        /\ clash' \subseteq Users \cup {"roles"}
        /\ ClashKnown'
    BY <1>1, <2>1, GoesToWipe
  <2>3. /\ users' \in [Users -> UserRow] /\ users'[u].role = role
        /\ users'[u].status = users[u].status /\ users'[u].pass = users[u].pass
        /\ users'[u].secret = users[u].secret /\ users'[u].totp = users[u].totp
        /\ \A v \in Users \ {u} : users'[v] = users[v]
    BY <2>1 DEF TypeOK, UserRow, Roles
  <2>4. Live' = Live /\ ShapeKept'
    <3>1. users'[u].status = "live" /\ users'[u].pass \in Passwords
      BY <1>3, <2>3 DEF ShapeKept, Live
    <3> QED
      BY <1>3, <2>1, <2>2, <2>3, <3>1, AccountChanged
  <2>5. TypeOK'
    BY <1>1, <2>2, <2>3, <2>4 DEF TypeOK
  <2>6. RolesKept'
    <3> SUFFICES ASSUME "roles" \notin clash'
                 PROVE  Admins' # {} /\ \A q \in Requests : RoleReady(req[q])'
      BY DEF RolesKept
    <3>1. Admins # {} /\ \A q \in Requests : RoleReady(req[q])
      BY <1>3, <2>2, HasStarted DEF RolesKept
    <3>2. CASE req[p].op = "promote"
      <4>1. Admins \subseteq Admins' /\ u \in Admins'
        BY <1>3, <2>3, <2>4, <3>2 DEF Admins, Live
      <4>2. ASSUME NEW q \in Requests, req'[q].op \in RemovalOps, req'[q].pc = "apply"
            PROVE  Admins' \ {req'[q].tgt} # {}
        BY <2>2, <3>1, <4>1, <4>2 DEF RoleReady
      <4> QED
        BY <4>1, <4>2 DEF RoleReady
    <3>3. CASE req[p].op = "demote"
      <4>1. Admins' = Admins \ {u}
        BY <2>3, <2>4, <3>3 DEF Admins, Live
      <4>2. Admins \ {u} # {}
        BY <1>1, <3>1, <3>3 DEF RoleReady, RemovalOps
      <4>3. ASSUME NEW q \in Requests, req'[q].op \in RemovalOps, req'[q].pc = "apply"
            PROVE  Admins' \ {req'[q].tgt} # {}
        <5>1. q # p /\ req'[q] = req[q]
          BY <2>2, <4>3
        <5>2. Removing(req[p]) /\ Removing(req[q])
          BY <1>1, <3>3, <4>3, <5>1 DEF Removing, RemovalOps
        <5>3. req[q].tgt = u
          BY <2>2, <5>1, <5>2, NoClash
        <5> QED
          BY <4>1, <4>2, <5>1, <5>3
      <4> QED
        BY <4>1, <4>2, <4>3 DEF RoleReady
    <3> QED
      BY <1>1, <3>2, <3>3
  <2>7. SecretsKept'
    BY <2>2, <2>3, SecretsUntouched DEF SecretReady
  <2>8. CodesKept'
    BY <1>1, <2>2, CodesShrink DEF Presented
  <2>9. SessionsKept'
    <3>1. \A q \in Requests, t \in Tokens : WillRevoke(req[q], t) => req'[q] = req[q]
      BY <1>1, <2>2 DEF WillRevoke
    <3>2. \A t \in Tokens : sessions[t] # NoSession => sessions[t].user \in Users
      BY DEF TypeOK, Live
    <3> QED
      BY <1>1, <2>3, <3>1, <3>2, SessionsShrink
  <2> QED
    BY <2>2, <2>4, <2>5, <2>6, <2>7, <2>8, <2>9
<1> QED
  BY <1>2, <1>3

LEMMA DeleteUserStep ==
    ASSUME AccountsInv, NEW p \in Requests, DeleteUser(p)
    PROVE  AccountsInv'
<1> USE DEF AccountsInv
<1> DEFINE u == req[p].tgt
           T == SessionsOf(u)
<1>1. /\ req[p].op = "delete" /\ req[p].pc = "apply" /\ Becomes(p, Idle) /\ u \in Users
      /\ Started
  BY HasStarted DEF DeleteUser, At, Ends, ShapeKept, RequestShape
<1>2. /\ req' \in [Requests -> Request]
      /\ req'[p] = Idle
      /\ \A q \in Requests \ {p} : req'[q] = req[q]
      /\ clash \subseteq clash'
      /\ clash' \subseteq Users \cup {"roles"}
      /\ ClashKnown'
  BY <1>1, IdleRequest, OneRequest DEF RequestShape
<1>3. T \in SUBSET Tokens /\ \A t \in Tokens \ T : sessions[t].user # u
  BY DEF SessionsOf
<1>4. DeleteSessions(T)
  BY DEF DeleteUser
<1> HIDE DEF T
<1>5. /\ sessions' \in [Tokens -> Session \cup {NoSession}]
      /\ excused' = excused \ T
      /\ \A t \in T : sessions'[t] = NoSession
      /\ \A t \in Tokens \ T : sessions'[t] = sessions[t]
      /\ NoSession.via \notin Codes
  BY <1>3, <1>4, DeletedSessions
<1>6. codes' = [codes EXCEPT ![u] = {}]
      /\ users' = IF u \in Live THEN [users EXCEPT ![u] = NoUser("gone")] ELSE users
  BY DEF DeleteUser
<1> HIDE DEF u
<1>7. NoUser("gone") \in UserRow /\ NoUser("gone").status = "gone"
  BY DEF NoUser, UserRow, Roles
<1>8. /\ users' \in [Users -> UserRow]
      /\ users'[u].status # "live"
      /\ users'[u].status # "new" \/ users'[u] = users[u]
      /\ \A v \in Users \ {u} : users'[v] = users[v]
      /\ codes' \in [Users -> SUBSET Codes] /\ codes'[u] = {}
      /\ \A v \in Users \ {u} : codes'[v] = codes[v]
  BY <1>1, <1>6, <1>7 DEF TypeOK, Live
<1>9. Live' = Live \ {u} /\ Admins' = Admins \ {u} /\ Started'
  <2>1. Live' = Live \ {u}
    BY <1>1, <1>8 DEF Live
  <2>2. Admins' = Admins \ {u}
    BY <1>8, <2>1 DEF Admins, Live
  <2>3. Started'
    BY <1>1, <1>6, <1>7, <1>8 DEF Started
  <2> QED
    BY <2>1, <2>2, <2>3
<1>10. TypeOK'
  BY <1>2, <1>3, <1>5, <1>8, <1>9 DEF TypeOK
<1>11. /\ RoleReady(Idle)' /\ SecretReady(Idle)' /\ Idle.op \notin SelfOps
       /\ \A c \in Codes : ~Presented(Idle, c)
  BY IdleRequest DEF RoleReady, SecretReady, Presented, RemovalOps, SelfOps, TwoFactorOps
<1>12. ShapeKept'
  <2>1. \A q \in Requests : RequestShape(req'[q])
    BY <1>2, IdleRequest DEF ShapeKept
  <2>2. \A v \in Live' : users'[v].pass \in Passwords
    BY <1>8, <1>9 DEF ShapeKept, Live
  <2>3. ASSUME NEW q \in Requests, req'[q].op \in SelfOps
        PROVE  users'[req'[q].tgt].status # "new"
    <3>1. req'[q] = req[q] /\ RequestShape(req[q]) /\ users[req[q].tgt].status # "new"
      BY <1>2, <1>11, <2>3 DEF ShapeKept
    <3>2. req[q].tgt \in Users
      BY <2>3, <3>1 DEF RequestShape, SelfOps, TwoFactorOps
    <3> QED
      BY <1>8, <3>1, <3>2
  <2> QED
    BY <1>9, <2>1, <2>2, <2>3 DEF ShapeKept, RequestShape
<1>13. RolesKept'
  <2> SUFFICES ASSUME "roles" \notin clash'
               PROVE  Admins' # {} /\ \A q \in Requests : RoleReady(req[q])'
    BY DEF RolesKept
  <2>1. Admins \ {u} # {}
    BY <1>1, <1>2 DEF RolesKept, RoleReady, RemovalOps, u
  <2>2. ASSUME NEW q \in Requests, req'[q].op \in RemovalOps, req'[q].pc = "apply"
        PROVE  Admins' \ {req'[q].tgt} # {}
    <3>1. q # p /\ req'[q] = req[q]
      BY <1>2, <2>2, IdleRequest
    <3>2. Removing(req[p]) /\ Removing(req[q])
      BY <1>1, <2>2, <3>1 DEF Removing, RemovalOps
    <3>3. req[q].tgt = u
      BY <1>2, <3>1, <3>2, NoClash DEF u
    <3> QED
      BY <1>9, <2>1, <3>1, <3>3
  <2> QED
    BY <1>9, <2>1, <2>2 DEF RoleReady
<1>14. SecretsKept'
  <2>1. EnabledSecretProven'
    BY <1>2, <1>8, <1>9 DEF SecretsKept, EnabledSecretProven, Live
  <2>2. \A q \in Requests : SecretReady(req[q])'
    BY <1>2, <1>8, <1>9, <1>11 DEF SecretsKept, SecretReady, Live
  <2> QED
    BY <2>1, <2>2 DEF SecretsKept
<1>15. CodesKept'
  <2>1. \A v \in Users : codes'[v] \subseteq codes[v]
    BY <1>8
  <2> QED
    BY <1>2, <1>5, <1>11, <2>1, CodesShrink
<1>16. SessionsKept'
  <2>1. \A q \in Requests, t \in Tokens : WillRevoke(req[q], t) => req'[q] = req[q]
    BY <1>1, <1>2 DEF WillRevoke
  <2>2. \A t \in Tokens \ T : sessions[t] # NoSession => sessions[t].user \in Users \ {u}
    BY <1>3 DEF TypeOK, Live
  <2> QED
    BY <1>5, <1>8, <2>1, <2>2, SessionsShrink
<1> QED
  BY <1>2, <1>10, <1>12, <1>13, <1>14, <1>15, <1>16

\* The account has a new password, and its sessions are about to go.
LEMMA PasswordUpdateStep ==
    ASSUME AccountsInv, NEW p \in Requests, PasswordUpdate(p)
    PROVE  AccountsInv'
<1> USE DEF AccountsInv
<1> DEFINE u == req[p].tgt
<1>1. /\ req[p].op = "password" /\ req[p].pc = "apply" /\ Goes(p, "wipe")
      /\ UNCHANGED <<codes, sessions, excused>>
  BY DEF PasswordUpdate, At
<1>2. /\ req' \in [Requests -> Request]
      /\ req'[p].pc = "wipe" /\ req'[p].op = req[p].op
      /\ req'[p].tgt = u /\ req'[p].tok = req[p].tok
      /\ RequestShape(req'[p])
      /\ \A q \in Requests \ {p} : req'[q] = req[q]
      /\ clash \subseteq clash'
      /\ clash' \subseteq Users \cup {"roles"}
      /\ ClashKnown'
  BY <1>1, GoesToWipe
<1>3. u \in Users /\ users[u].status # "new"
  BY <1>1 DEF ShapeKept, RequestShape, SelfOps
<1>4. PICK w \in Passwords :
        users' = [users EXCEPT ![u].pass = IF u \in Live THEN w ELSE @]
  BY DEF PasswordUpdate
<1> HIDE DEF u
<1>5. /\ users' \in [Users -> UserRow]
      /\ u \in Live => users'[u].pass \in Passwords
      /\ users'[u].status = users[u].status /\ users'[u].role = users[u].role
      /\ users'[u].secret = users[u].secret /\ users'[u].totp = users[u].totp
      /\ \A v \in Users \ {u} : users'[v] = users[v]
  BY <1>3, <1>4 DEF TypeOK, UserRow
<1>6. Live' = Live
  BY <1>5 DEF Live
<1>7. TypeOK'
  BY <1>1, <1>2, <1>5, <1>6 DEF TypeOK
<1>8. ShapeKept'
  <2>1. \A v \in Live' : users'[v].pass \in Passwords
    BY <1>5, <1>6 DEF ShapeKept, Live
  <2>2. Started'
    BY <1>3, <1>5 DEF Started
  <2>3. ASSUME NEW q \in Requests
        PROVE  /\ RequestShape(req'[q])
               /\ req'[q].op \in SelfOps => users'[req'[q].tgt].status # "new"
    <3>1. CASE q = p
      BY <1>2, <1>3, <1>5, <3>1
    <3>2. CASE q # p
      <4>1. RequestShape(req[q]) /\ (req[q].op \in SelfOps => req[q].tgt \in Users)
        BY DEF ShapeKept, RequestShape, SelfOps, TwoFactorOps
      <4> QED
        BY <1>2, <1>5, <3>2, <4>1 DEF ShapeKept
    <3> QED
      BY <3>1, <3>2
  <2> QED
    BY <2>1, <2>2, <2>3 DEF ShapeKept, RequestShape
<1>9. RolesKept' /\ SecretsKept'
  BY <1>2, <1>5, RolesUntouched, SecretsUntouched DEF RoleReady, SecretReady
<1>10. CodesKept'
  BY <1>1, <1>2, CodesShrink DEF Presented
<1>11. SessionsKept'
  <2> SUFFICES ASSUME NEW t \in Tokens \ excused, sessions[t] # NoSession
               PROVE  /\ sessions[t].pass # users'[sessions[t].user].pass =>
                           \E q \in Requests : WillRevoke(req[q], t)' /\ req'[q].op = "password"
                      /\ users'[sessions[t].user].totp # None /\ sessions[t].via = "password" =>
                           \E q \in Requests : WillRevoke(req[q], t)'
    BY <1>1 DEF SessionsKept
  <2>1. CASE sessions[t].user = u
    BY <1>1, <1>2, <2>1 DEF WillRevoke
  <2>2. CASE sessions[t].user # u
    <3>1. sessions[t].user \in Users /\ users'[sessions[t].user] = users[sessions[t].user]
      BY <1>5, <2>2 DEF TypeOK, Live
    <3>2. \A q \in Requests :
            WillRevoke(req[q], t) => WillRevoke(req[q], t)' /\ req'[q] = req[q]
      BY <1>1, <1>2 DEF WillRevoke
    <3> QED
      BY <3>1, <3>2 DEF SessionsKept
  <2> QED
    BY <2>1, <2>2
<1> QED
  BY <1>2, <1>7, <1>8, <1>9, <1>10, <1>11

LEMMA SetupWriteStep ==
    ASSUME AccountsInv, NEW p \in Requests, SetupWrite(p)
    PROVE  AccountsInv'
<1> USE DEF AccountsInv
<1> DEFINE u == req[p].tgt
<1>1. /\ req[p].op = "setup2fa" /\ req[p].pc = "apply" /\ Ends(p) /\ Becomes(p, Idle)
      /\ UNCHANGED <<codes, sessions, excused>>
  BY DEF SetupWrite, At, Ends
<1>2. PICK s \in Secrets : users' = [users EXCEPT ![u].secret = IF u \in Live THEN s ELSE @]
  BY DEF SetupWrite
<1>3. u \in Users
  BY <1>1 DEF ShapeKept, RequestShape
<1>4. CASE u \notin Live
  <2>1. users' = users
    BY <1>2, <1>3, <1>4 DEF TypeOK, UserRow
  <2> QED
    BY <1>1, <2>1, QuietEnd
<1>5. CASE u \in Live
  <2>1. /\ req' \in [Requests -> Request]
        /\ req'[p] = Idle
        /\ \A q \in Requests \ {p} : req'[q] = req[q]
        /\ clash \subseteq clash'
        /\ clash' \subseteq Users \cup {"roles"}
        /\ ClashKnown'
    BY <1>1, IdleRequest, OneRequest DEF RequestShape
  <2>2. /\ users' \in [Users -> UserRow]
        /\ users'[u].status = users[u].status /\ users'[u].role = users[u].role
        /\ users'[u].pass = users[u].pass /\ users'[u].totp = users[u].totp
        /\ \A v \in Users \ {u} : users'[v] = users[v]
    BY <1>2, <1>3 DEF TypeOK, UserRow
  <2>3. Live' = Live /\ ShapeKept'
    <3>1. users'[u].status = "live" /\ users'[u].pass \in Passwords
      BY <1>5, <2>2 DEF ShapeKept, Live
    <3> QED
      BY <1>3, <1>5, <2>1, <2>2, <3>1, AccountChanged
  <2>4. TypeOK'
    BY <1>1, <2>1, <2>2, <2>3 DEF TypeOK
  <2>5. RoleReady(Idle) /\ SecretReady(Idle)' /\ \A c \in Codes : ~Presented(Idle, c)
    BY IdleRequest DEF RoleReady, SecretReady, Presented, RemovalOps
  <2>6. RolesKept'
    BY <2>1, <2>2, <2>5, RolesUntouched
  <2>7. SecretsKept'
    <3>1. u \notin clash => users[u].totp = None
      BY <1>1, <1>5 DEF SecretsKept, SecretReady
    <3>2. EnabledSecretProven'
      BY <2>1, <2>2, <2>3, <3>1 DEF SecretsKept, EnabledSecretProven, Live
    <3>3. ASSUME NEW q \in Requests, q # p, req[q].pc = "apply", req[q].tgt \in Live \ clash'
          PROVE  /\ req[q].op = "setup2fa" => users'[req[q].tgt].totp = None
                 /\ req[q].op = "enable2fa" => users'[req[q].tgt].secret = req[q].seen
      <4>1. SecretReady(req[q]) /\ req[q].tgt \in Users \ clash
        BY <2>1, <3>3 DEF SecretsKept, Live
      <4>2. Verified2fa(req[p]) /\ (req[q].op \in TwoFactorOps => Verified2fa(req[q]))
        BY <1>1, <3>3 DEF Verified2fa, TwoFactorOps
      <4>3. req[q].op \in TwoFactorOps => req[q].tgt # u
        BY <3>3, <4>1, <4>2, NoClash
      <4> QED
        BY <2>1, <2>2, <3>3, <4>1, <4>3 DEF SecretReady, TwoFactorOps
    <3> QED
      BY <2>1, <2>3, <2>5, <3>2, <3>3 DEF SecretsKept, SecretReady
  <2>8. CodesKept'
    BY <1>1, <2>1, <2>5, CodesShrink
  <2>9. SessionsKept'
    <3>1. \A q \in Requests, t \in Tokens : WillRevoke(req[q], t) => req'[q] = req[q]
      BY <1>1, <2>1 DEF WillRevoke
    <3>2. \A t \in Tokens : sessions[t] # NoSession => sessions[t].user \in Users
      BY DEF TypeOK, Live
    <3> QED
      BY <1>1, <2>2, <3>1, <3>2, SessionsShrink
  <2> QED
    BY <2>1, <2>3, <2>4, <2>6, <2>7, <2>8, <2>9
<1> QED
  BY <1>4, <1>5

LEMMA DisableCommitStep ==
    ASSUME AccountsInv, NEW p \in Requests, DisableCommit(p)
    PROVE  AccountsInv'
<1> USE DEF AccountsInv
<1> DEFINE u == req[p].tgt
<1>1. /\ req[p].op = "disable2fa" /\ req[p].pc = "apply" /\ Goes(p, "wipe")
      /\ UNCHANGED <<sessions, excused>>
  BY DEF DisableCommit, At
<1>2. /\ req' \in [Requests -> Request]
      /\ req'[p].pc = "wipe" /\ req'[p].op = req[p].op
      /\ req'[p].tgt = u /\ req'[p].tok = req[p].tok
      /\ RequestShape(req'[p])
      /\ \A q \in Requests \ {p} : req'[q] = req[q]
      /\ clash \subseteq clash'
      /\ clash' \subseteq Users \cup {"roles"}
      /\ ClashKnown'
  BY <1>1, GoesToWipe
<1>3. u \in Users /\ users[u].status # "new"
  BY <1>1 DEF ShapeKept, RequestShape, SelfOps, TwoFactorOps
<1> DEFINE row == [users[u] EXCEPT !.totp = None, !.secret = None]
<1>4. /\ users' = IF u \in Live THEN [users EXCEPT ![u] = row] ELSE users
      /\ codes' = [codes EXCEPT ![u] = {}]
  BY DEF DisableCommit
<1> HIDE DEF u
<1>5. /\ row \in UserRow /\ row.totp = None /\ row.status = users[u].status
      /\ row.role = users[u].role /\ row.pass = users[u].pass
  <2>1. users[u] \in UserRow
    BY <1>3 DEF TypeOK
  <2> HIDE DEF AccountsInv
  <2> QED
    BY <2>1 DEF UserRow
<1> HIDE DEF row
<1>6. /\ users' \in [Users -> UserRow]
      /\ users'[u].status = users[u].status /\ users'[u].role = users[u].role
      /\ users'[u].pass = users[u].pass
      /\ u \in Live => users'[u].totp = None
      /\ u \notin Live => users'[u].totp = users[u].totp
      /\ \A v \in Users \ {u} : users'[v] = users[v]
      /\ codes' \in [Users -> SUBSET Codes] /\ codes'[u] = {}
      /\ \A v \in Users \ {u} : codes'[v] = codes[v]
  BY <1>3, <1>4, <1>5 DEF TypeOK
<1>7. Live' = Live
  BY <1>6 DEF Live
<1>8. TypeOK'
  BY <1>1, <1>2, <1>6, <1>7 DEF TypeOK
<1>9. ShapeKept'
  <2>1. \A v \in Live' : users'[v].pass \in Passwords
    BY <1>6, <1>7 DEF ShapeKept, Live
  <2>2. Started'
    BY <1>3, <1>6 DEF Started
  <2>3. ASSUME NEW q \in Requests
        PROVE  /\ RequestShape(req'[q])
               /\ req'[q].op \in SelfOps => users'[req'[q].tgt].status # "new"
    <3>1. CASE q = p
      BY <1>2, <1>3, <1>6, <3>1
    <3>2. CASE q # p
      <4>1. RequestShape(req[q]) /\ (req[q].op \in SelfOps => req[q].tgt \in Users)
        BY DEF ShapeKept, RequestShape, SelfOps, TwoFactorOps
      <4> QED
        BY <1>2, <1>6, <3>2, <4>1 DEF ShapeKept
    <3> QED
      BY <3>1, <3>2
  <2> QED
    BY <2>1, <2>2, <2>3 DEF ShapeKept, RequestShape
<1>10. RolesKept'
  BY <1>2, <1>6, RolesUntouched DEF RoleReady
<1>11. SecretsKept'
  <2>1. EnabledSecretProven'
    BY <1>2, <1>6, <1>7 DEF SecretsKept, EnabledSecretProven, Live
  <2>2. ASSUME NEW q \in Requests, q # p, req[q].pc = "apply", req[q].tgt \in Live \ clash'
        PROVE  /\ req[q].op = "setup2fa" => users'[req[q].tgt].totp = None
               /\ req[q].op = "enable2fa" => users'[req[q].tgt].secret = req[q].seen
    <3>1. SecretReady(req[q]) /\ req[q].tgt \in Users \ clash
      BY <1>2, <2>2 DEF SecretsKept, Live
    <3>2. Verified2fa(req[p]) /\ (req[q].op \in TwoFactorOps => Verified2fa(req[q]))
      BY <1>1, <2>2 DEF Verified2fa, TwoFactorOps
    <3>3. req[q].op \in TwoFactorOps => req[q].tgt # u
      BY <2>2, <3>1, <3>2, NoClash DEF u
    <3> QED
      BY <1>2, <1>6, <2>2, <3>1, <3>3 DEF SecretReady, TwoFactorOps
  <2> QED
    BY <1>2, <1>7, <2>1, <2>2 DEF SecretsKept, SecretReady
<1>12. CodesKept'
  <2>1. \A v \in Users : codes'[v] \subseteq codes[v]
    BY <1>6
  <2> QED
    BY <1>1, <1>2, <2>1, CodesShrink DEF Presented
<1>13. SessionsKept'
  <2>1. \A q \in Requests, t \in Tokens : WillRevoke(req[q], t) => req'[q] = req[q]
    BY <1>1, <1>2 DEF WillRevoke
  <2>2. \A t \in Tokens : sessions[t] # NoSession => sessions[t].user \in Users
    BY DEF TypeOK, Live
  <2> QED
    BY <1>1, <1>6, <2>1, <2>2, SessionsShrink
<1> QED
  BY <1>2, <1>8, <1>9, <1>10, <1>11, <1>12, <1>13

\* 2FA is on for the secret that was read, the caller's session counts as one
\* that showed a code, and the other sessions are about to go.
LEMMA EnableCommitStep ==
    ASSUME AccountsInv, NEW p \in Requests, EnableCommit(p)
    PROVE  AccountsInv'
<1> DEFINE u == req[p].tgt
           t == req[p].tok
<1>1. req[p].op = "enable2fa" /\ req[p].pc = "apply" /\ UNCHANGED excused
  BY DEF EnableCommit, At
<1>2. CASE u \notin Live
  BY <1>1, <1>2, QuietEnd DEF EnableCommit
<1>3. CASE u \in Live
  <2> USE DEF AccountsInv
  <2>1. /\ users' = [users EXCEPT ![u].totp = req[p].seen] /\ Goes(p, "wipe")
        /\ sessions' = IF sessions[t].via = "password"
                       THEN [sessions EXCEPT ![t].via = "otp"] ELSE sessions
    BY <1>3 DEF EnableCommit
  <2>2. PICK c \in Codes :
          /\ \A v \in Users : c \notin codes[v]
          /\ \A k \in Tokens : sessions[k].via # c
          /\ \A q \in Requests : req[q].via # c
          /\ codes' = [codes EXCEPT ![u] = {c}]
    BY <1>3 DEF EnableCommit
  <2>3. /\ req' \in [Requests -> Request]
        /\ req'[p].pc = "wipe" /\ req'[p].op = req[p].op
        /\ req'[p].tgt = u /\ req'[p].tok = t
        /\ RequestShape(req'[p])
        /\ \A q \in Requests \ {p} : req'[q] = req[q]
        /\ clash \subseteq clash'
        /\ clash' \subseteq Users \cup {"roles"}
        /\ ClashKnown'
    BY <1>1, <2>1, GoesToWipe
  <2>4. u \in Users /\ t \in Tokens /\ req[p].seen \in Secrets
    BY <1>1 DEF ShapeKept, RequestShape, SelfOps, TwoFactorOps
  <2>5. /\ users' \in [Users -> UserRow]
        /\ users'[u].status = users[u].status /\ users'[u].role = users[u].role
        /\ users'[u].pass = users[u].pass /\ users'[u].secret = users[u].secret
        /\ users'[u].totp = req[p].seen
        /\ \A v \in Users \ {u} : users'[v] = users[v]
    BY <2>1, <2>4 DEF TypeOK, UserRow
  <2>6. /\ codes' \in [Users -> SUBSET Codes]
        /\ codes'[u] = {c} /\ \A v \in Users \ {u} : codes'[v] = codes[v]
    BY <2>2, <2>4 DEF TypeOK
  <2>7. /\ sessions' \in [Tokens -> Session \cup {NoSession}]
        /\ sessions'[t].via # "password"
        /\ sessions'[t].via \in Codes => sessions'[t].via = sessions[t].via
        /\ sessions'[t].user = sessions[t].user /\ sessions'[t].pass = sessions[t].pass
        /\ (sessions'[t] = NoSession) <=> (sessions[t] = NoSession)
        /\ \A k \in Tokens \ {t} : sessions'[k] = sessions[k]
    <3>1. CASE sessions[t].via # "password"
      BY <2>1, <3>1 DEF TypeOK
    <3>2. CASE sessions[t].via = "password"
      <4> DEFINE s == [sessions[t] EXCEPT !.via = "otp"]
      <4>1. sessions[t] \in Session /\ sessions[t] # NoSession
        BY <2>4, <3>2, AccountsAssumption DEF TypeOK, NoSession
      <4>2. s \in Session /\ s.via = "otp" /\ s.user = sessions[t].user
            /\ s.pass = sessions[t].pass /\ s.user \in Users
        BY <4>1 DEF Session, Proofs
      <4>3. sessions' = [sessions EXCEPT ![t] = s]
        BY <2>1, <3>2
      <4> HIDE DEF s
      <4>4. s # NoSession
        BY <4>2, AccountsAssumption DEF NoSession
      <4> QED
        BY <2>4, <4>1, <4>2, <4>3, <4>4, AccountsAssumption DEF TypeOK
    <3> QED
      BY <3>1, <3>2
  <2>8. Live' = Live /\ ShapeKept'
    <3>1. users'[u].status = "live" /\ users'[u].pass \in Passwords
      BY <1>3, <2>5 DEF ShapeKept, Live
    <3> QED
      BY <1>3, <2>3, <2>4, <2>5, <3>1, AccountChanged
  <2>9. TypeOK'
    BY <1>1, <1>3, <2>3, <2>5, <2>6, <2>7, <2>8 DEF TypeOK
  <2>10. RolesKept'
    BY <2>3, <2>5, RolesUntouched DEF RoleReady
  <2>11. SecretsKept'
    <3>1. u \notin clash => users[u].secret = req[p].seen
      BY <1>1, <1>3 DEF SecretsKept, SecretReady
    <3>2. EnabledSecretProven'
      BY <2>3, <2>5, <2>8, <3>1 DEF SecretsKept, EnabledSecretProven, Live
    <3>3. ASSUME NEW q \in Requests, q # p, req[q].pc = "apply", req[q].tgt \in Live \ clash'
          PROVE  /\ req[q].op = "setup2fa" => users'[req[q].tgt].totp = None
                 /\ req[q].op = "enable2fa" => users'[req[q].tgt].secret = req[q].seen
      <4>1. SecretReady(req[q]) /\ req[q].tgt \in Users \ clash
        BY <2>3, <3>3 DEF SecretsKept, Live
      <4>2. Verified2fa(req[p]) /\ (req[q].op \in TwoFactorOps => Verified2fa(req[q]))
        BY <1>1, <3>3 DEF Verified2fa, TwoFactorOps
      <4>3. req[q].op \in TwoFactorOps => req[q].tgt # u
        BY <3>3, <4>1, <4>2, NoClash
      <4> QED
        BY <2>3, <2>5, <3>3, <4>1, <4>3 DEF SecretReady, TwoFactorOps
    <3> QED
      BY <2>3, <2>8, <3>2, <3>3 DEF SecretsKept, SecretReady
  <2>12. CodesKept'
    <3>1. \A q \in Requests, d \in Codes :
            Presented(req'[q], d) => q # p /\ Presented(req[q], d) /\ d # c
      BY <2>2, <2>3 DEF Presented
    <3>2. \A k \in Tokens : sessions'[k].via \in Codes =>
            sessions'[k].via = sessions[k].via /\ sessions[k].via # c
      BY <2>2, <2>7
    <3> HIDE DEF u, t
    <3>3. \A v \in Users, d \in Codes : d \in codes'[v] => (d = c /\ v = u) \/ (d # c /\ d \in codes[v])
      BY <2>2, <2>6
    <3> QED
      BY <3>1, <3>2, <3>3 DEF CodesKept
  <2>13. SessionsKept'
    <3> SUFFICES ASSUME NEW k \in Tokens \ excused, sessions'[k] # NoSession
                 PROVE  /\ sessions'[k].pass # users'[sessions'[k].user].pass =>
                             \E q \in Requests : WillRevoke(req[q], k)' /\ req'[q].op = "password"
                        /\ users'[sessions'[k].user].totp # None /\ sessions'[k].via = "password" =>
                             \E q \in Requests : WillRevoke(req[q], k)'
      BY <1>1 DEF SessionsKept
    <3>1. /\ sessions[k] # NoSession /\ sessions'[k].user = sessions[k].user
          /\ sessions'[k].pass = sessions[k].pass /\ sessions[k].user \in Users
      BY <2>7 DEF TypeOK, Live
    <3>2. users'[sessions[k].user].pass = users[sessions[k].user].pass
      BY <2>5, <3>1
    <3>3. \A q \in Requests :
            WillRevoke(req[q], k) => WillRevoke(req[q], k)' /\ req'[q] = req[q]
      BY <1>1, <2>3, <3>1 DEF WillRevoke
    <3>4. CASE sessions'[k].pass # users'[sessions'[k].user].pass
      <4>1. PICK q \in Requests : WillRevoke(req[q], k) /\ req[q].op = "password"
        BY <3>1, <3>2, <3>4 DEF SessionsKept
      <4> QED
        BY <3>3, <4>1
    <3>5. CASE users'[sessions'[k].user].totp # None /\ sessions'[k].via = "password"
      <4>1. k # t /\ sessions'[k] = sessions[k]
        BY <2>7, <3>5
      <4>2. CASE sessions[k].user = u
        <5>1. WillRevoke(req[p], k)'
          BY <2>3, <3>1, <4>1, <4>2 DEF WillRevoke
        <5> QED
          BY <3>3, <3>4, <5>1
      <4>3. CASE sessions[k].user # u
        <5>1. PICK q \in Requests : WillRevoke(req[q], k)
          BY <2>5, <3>1, <3>5, <4>1, <4>3 DEF SessionsKept
        <5> QED
          BY <3>3, <3>4, <5>1
      <4> QED
        BY <4>2, <4>3
    <3> QED
      BY <3>4, <3>5
  <2> QED
    BY <2>3, <2>8, <2>9, <2>10, <2>11, <2>12, <2>13
<1> QED
  BY <1>2, <1>3

-----------------------------------------------------------------------------
(* The invariant.                                                          *)

LEMMA InitInv ==
    ASSUME Init
    PROVE  AccountsInv
<1> USE DEF Init
<1>1. NoUser("new") \in UserRow /\ NoUser("new").status = "new"
  BY DEF NoUser, UserRow, Roles
<1>2. users \in [Users -> UserRow] /\ Live = {} /\ ~Started
  BY <1>1 DEF Live, Started
<1>3. \A p \in Requests : req[p] = Idle
  OBVIOUS
<1>4. TypeOK
  BY <1>2, IdleRequest DEF TypeOK, RequestShape
<1>5. ShapeKept
  BY <1>2, <1>3, IdleRequest DEF ShapeKept, SelfOps, TwoFactorOps
<1>6. ClashKnown
  BY <1>3, IdleRequest
  DEF ClashKnown, Clashes, Removing, Verified2fa, RemovalOps, TwoFactorOps
<1>7. RolesKept /\ SecretsKept
  BY <1>2, <1>3, IdleRequest
  DEF RolesKept, RoleReady, RemovalOps, SecretsKept, SecretReady, EnabledSecretProven
<1>8. CodesKept
  BY <1>3, IdleRequest, AccountsAssumption DEF CodesKept, Presented, NoSession
<1>9. SessionsKept
  BY DEF SessionsKept
<1> QED
  BY <1>4, <1>5, <1>6, <1>7, <1>8, <1>9 DEF AccountsInv

LEMMA StepInv ==
    ASSUME AccountsInv, NEW p \in Requests, Step(p)
    PROVE  AccountsInv'
BY LoginReadStep, ConsumeRecoveryStep, CreateSessionStep, BeginStep, DropStep,
   WipeSessionsStep, CreateCountStep, CreateInsertStep, CountAdminsStep, SetRoleStep,
   DeleteReadRoleStep, DeleteUserStep, PasswordReadStep, PasswordUpdateStep,
   SetupReadStep, SetupWriteStep, EnableReadStep, EnableCommitStep, DisableReadStep,
   DisableCommitStep
DEF Step

LEMMA NextInv ==
    ASSUME AccountsInv, [Next]_vars
    PROVE  AccountsInv'
<1>1. ASSUME NEW u \in Users, LogoutAll(u)
      PROVE  AccountsInv'
  <2>1. SessionsOf(u) \in SUBSET Tokens
    BY DEF SessionsOf
  <2> QED
    BY <1>1, <2>1, DeleteSessionsStep DEF LogoutAll
<1>2. ASSUME NEW t \in Tokens, EndSession(t)
      PROVE  AccountsInv'
  BY <1>2, DeleteSessionsStep DEF EndSession
<1>3. CASE UNCHANGED vars
  <2>1. /\ TypeOK' <=> TypeOK
        /\ ShapeKept' /\ ClashKnown' /\ RolesKept' /\ SecretsKept' /\ CodesKept' /\ SessionsKept'
    <3> USE DEF vars, AccountsInv
    <3>1. TypeOK' /\ ShapeKept' /\ ClashKnown'
      BY <1>3, ShapeUntouched DEF TypeOK, Live, ClashKnown, Clashes, Removing, Verified2fa
    <3>2. RolesKept' /\ SecretsKept' /\ CodesKept'
      BY <1>3, RolesUntouched, SecretsUntouched, CodesShrink
    <3>3. SessionsKept'
      BY <1>3 DEF SessionsKept, WillRevoke
    <3> QED
      BY <3>1, <3>2, <3>3
  <2> QED
    BY <2>1 DEF AccountsInv
<1> QED
  BY <1>1, <1>2, <1>3, SetupStep, StepInv DEF Next

\* The inductive invariant: every request in flight still has what it has
\* checked, as far as the requests beside it allow.
THEOREM AccountsInvariant == Spec => []AccountsInv
<1>1. Init => AccountsInv
  BY InitInv
<1>2. AccountsInv /\ [Next]_vars => AccountsInv'
  BY NextInv
<1> QED
  BY <1>1, <1>2, PTL DEF Spec

\* The state has its shape, and no session or recovery code outlives its
\* account.
THEOREM AccountsTypeCorrect == Spec => []TypeOK
<1>1. AccountsInv => TypeOK
  BY DEF AccountsInv
<1> QED
  BY <1>1, AccountsInvariant, PTL

\* set_role and delete leave an administrator, however many accounts and
\* requests there are, unless two of them on different accounts overlap.
THEOREM AdministratorRemains == Spec => []AdminRemains
<1>1. AccountsInv => AdminRemains
  BY DEF AccountsInv, RolesKept, AdminRemains, Started
<1> QED
  BY <1>1, AccountsInvariant, PTL

\* After a change of password or second factor the sessions from before are
\* revoked, or about to be, or excused.
THEOREM SessionsFollowAccount == Spec => []SessionMatchesAccount
<1>1. AccountsInv => SessionMatchesAccount
  BY DEF AccountsInv, SessionsKept, SessionMatchesAccount, WillRevoke
<1> QED
  BY <1>1, AccountsInvariant, PTL

\* The secret that logins are verified against is one its owner has proved.
THEOREM OwnersHaveTheSecret == Spec => []EnabledSecretProven
<1>1. AccountsInv => EnabledSecretProven
  BY DEF AccountsInv, SecretsKept
<1> QED
  BY <1>1, AccountsInvariant, PTL

\* Of the logins that present one recovery code, one opens a session.
THEOREM RecoveryCodesAreSpentOnce == Spec => []RecoveryCodeOnce
<1>1. AccountsInv => RecoveryCodeOnce
  BY DEF AccountsInv, CodesKept, RecoveryCodeOnce
<1> QED
  BY <1>1, AccountsInvariant, PTL

=============================================================================
