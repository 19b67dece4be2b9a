------------------------------ MODULE Accounts ------------------------------
(***************************************************************************)
(* Accounts, sessions and two-step verification of the panel:              *)
(* handlers/auth.rs, users.rs, twofa.rs, account.rs and session.rs.        *)
(*                                                                         *)
(* Every handler is a request that runs its SQL statements one at a time;  *)
(* between two of them every other request may run.  One step below is one *)
(* statement (or one transaction), and the verdict of a request on what it *)
(* has read is carried in its record.  A handler is dropped where it       *)
(* stands when its client goes away or a statement fails.                  *)
(*                                                                         *)
(* Passwords, TOTP secrets, recovery codes and session tokens are model    *)
(* values: only their identity counts.  A wrong password or code ends a    *)
(* request without touching this state, so only the right ones are given.  *)
(***************************************************************************)
EXTENDS Naturals, FiniteSets

CONSTANTS
    Users,      \* account ids, which AUTOINCREMENT never uses twice
    Requests,   \* requests in flight at once
    Tokens,     \* session tokens
    Passwords,
    Secrets,    \* TOTP secrets
    Codes,      \* recovery codes, one of which is issued at a time
    None,
    MaxUsers    \* MAX_USERS of users.rs

ASSUME AccountsAssumption ==
    /\ MaxUsers \in Nat
    /\ None \notin Users /\ None \notin Tokens /\ None \notin Passwords
    /\ None \notin Secrets /\ None \notin Codes
    /\ "roles" \notin Users
    /\ "password" \notin Codes /\ "otp" \notin Codes /\ None # "password"

VARIABLES
    users,      \* the users table
    codes,      \* unused rows of recovery_codes, by user
    sessions,   \* the sessions table, by token
    req,        \* the requests in flight
    clash,      \* history: users with two 2FA requests past their reads at
                \* once; "roles" for two demotions or deletions past theirs
    excused     \* history: sessions a late login opened, or a dropped wipe
                \* left

vars == <<users, codes, sessions, req, clash, excused>>
-----------------------------------------------------------------------------
Roles == {"admin", "viewer"}

\* A row of users.  The column totp_enabled is totp # None; the value kept
\* with it is the secret whose code enable verified.
UserRow == [status : {"new", "live", "gone"}, pass : Passwords \cup {None}, role : Roles,
            secret : Secrets \cup {None}, totp : Secrets \cup {None}]

\* An id without a row, before its account or after it.
NoUser(status) == [status |-> status, pass |-> None, role |-> "viewer",
                   secret |-> None, totp |-> None]

\* The row that an INSERT makes.
NewUser(pass, role) == [status |-> "live", pass |-> pass, role |-> role,
                        secret |-> None, totp |-> None]

\* How a login proved itself: by its password alone, a TOTP code, or a
\* recovery code.
Proofs == {"password", "otp"} \cup Codes

Session == [user : Users, pass : Passwords, via : Proofs]

NoSession == [user |-> None, pass |-> None, via |-> None]

AdminOps == {"create", "promote", "demote", "delete"}
RemovalOps == {"demote", "delete"}
TwoFactorOps == {"setup2fa", "enable2fa", "disable2fa"}
SelfOps == TwoFactorOps \cup {"password"}
Ops == AdminOps \cup SelfOps \cup {"login"}

\* who asks, with which session, about which account; what it has read.
Request == [op : Ops \cup {"idle"},
            pc : {"start", "count", "consume", "apply", "wipe"},
            tok : Tokens \cup {None}, tgt : Users \cup {None},
            seen : Passwords \cup Secrets \cup {None},
            via : Proofs \cup {None}]

Idle == [op |-> "idle", pc |-> "start", tok |-> None, tgt |-> None,
         seen |-> None, via |-> None]

Live == {u \in Users : users[u].status = "live"}

Admins == {u \in Live : users[u].role = "admin"}

SessionsOf(u) == {t \in Tokens : sessions[t].user = u}

At(p, op, pc) == req[p].op = op /\ req[p].pc = pc

\* Requests whose check is done and whose statement is still to come.
Removing(r) == r.op \in RemovalOps /\ r.pc \in {"count", "apply"}
Verified2fa(r) == r.op \in TwoFactorOps /\ r.pc \in {"consume", "apply"}

\* What the requests r (a new value of req) add to clash.
Clashes(r) ==
    {u \in Users : \E p, q \in Requests :
        /\ p # q /\ r[p].tgt = u /\ r[q].tgt = u
        /\ Verified2fa(r[p]) /\ Verified2fa(r[q])}
    \cup
    {x \in {"roles"} : \E p, q \in Requests :
        Removing(r[p]) /\ Removing(r[q]) /\ r[p].tgt # r[q].tgt}

\* The request p is replaced by r, and two that now overlap are remembered.
Becomes(p, r) ==
    /\ req' = [req EXCEPT ![p] = r]
    /\ clash' = clash \cup Clashes(req')

Goes(p, pc) == Becomes(p, [req[p] EXCEPT !.pc = pc])

Ends(p) == Becomes(p, Idle)

\* DELETE FROM sessions, for the rows T.
DeleteSessions(T) ==
    /\ sessions' = [t \in Tokens |-> IF t \in T THEN NoSession ELSE sessions[t]]
    /\ excused' = excused \ T
-----------------------------------------------------------------------------
(* The first administrator, and the start of a request.                    *)

\* setup and create_admin: one INSERT ... WHERE NOT EXISTS over the table.
Setup(u) ==
    /\ Live = {}
    /\ users[u].status = "new"
    /\ \E w \in Passwords : users' = [users EXCEPT ![u] = NewUser(w, "admin")]
    /\ UNCHANGED <<codes, sessions, req, clash, excused>>

\* The extractors: the session is found, and for an administrator's
\* endpoint the role its account has at that moment.
Begin(p, t, op, x) ==
    /\ req[p] = Idle
    /\ sessions[t] # NoSession
    /\ LET who == sessions[t].user IN
         IF op \in AdminOps
         THEN who \in Admins /\ (op = "delete" => x # who)
         ELSE x = who
    /\ Becomes(p, [Idle EXCEPT !.op = op, !.tok = t, !.tgt = x])
    /\ UNCHANGED <<users, codes, sessions, excused>>

\* A request is dropped where it stands: its client has gone, or a statement
\* fails.  A transaction leaves nothing; the statements before it stay.
Drop(p) ==
    /\ req[p] # Idle
    /\ excused' = excused \cup
         IF req[p].pc = "wipe" THEN SessionsOf(req[p].tgt) ELSE {}
    /\ Ends(p)
    /\ UNCHANGED <<users, codes, sessions>>

-----------------------------------------------------------------------------
(* Login.                                                                  *)

\* The row is read and the password verified against it; with 2FA on a code
\* comes too, either for the secret in the row or a recovery code.
LoginRead(p, u) ==
    /\ req[p] = Idle
    /\ u \in Live
    /\ \E via \in Proofs :
         /\ (users[u].totp = None) <=> (via = "password")
         /\ via = "otp" => users[u].secret # None
         /\ via \in Codes => via \in codes[u]
         /\ Becomes(p, [Idle EXCEPT !.op = "login", !.tgt = u, !.via = via,
                                    !.seen = users[u].pass,
                                    !.pc = IF via \in Codes THEN "consume"
                                                            ELSE "apply"])
    /\ UNCHANGED <<users, codes, sessions, excused>>

\* Variant with a fault: the code found at the login's read is trusted.
ConsumeRecoveryBlindly(p) ==
    /\ req[p].pc = "consume"
    /\ codes' = [codes EXCEPT ![req[p].tgt] = @ \ {req[p].via}]
    /\ Goes(p, "apply")
    /\ UNCHANGED <<users, sessions, excused>>

\* consume_recovery: UPDATE ... WHERE used_at IS NULL, and whether it found
\* the row, in one statement.
ConsumeRecovery(p) ==
    /\ req[p].pc = "consume"
    /\ LET u == req[p].tgt IN
         IF req[p].via \in codes[u]
         THEN /\ codes' = [codes EXCEPT ![u] = @ \ {req[p].via}]
              /\ Goes(p, "apply")
         ELSE Ends(p) /\ UNCHANGED codes
    /\ UNCHANGED <<users, sessions, excused>>

\* create_session.  The foreign key refuses the row of a deleted account.
CreateSession(p, t) ==
    /\ At(p, "login", "apply")
    /\ LET u == req[p].tgt
           late == \/ users[u].pass # req[p].seen
                   \/ users[u].totp # None /\ req[p].via = "password"
       IN IF u \in Live
          THEN /\ sessions[t] = NoSession
               /\ \A q \in Requests : req[q].tok # t
               /\ sessions' = [sessions EXCEPT ![t] =
                    [user |-> u, pass |-> req[p].seen, via |-> req[p].via]]
               /\ excused' = IF late THEN excused \cup {t} ELSE excused
          ELSE UNCHANGED <<sessions, excused>>
    /\ Ends(p)
    /\ UNCHANGED <<users, codes>>

-----------------------------------------------------------------------------
(* Ending sessions.  The extractor and the single statement of these are   *)
(* one step.                                                               *)

\* logout, revoke_session, and try_session on a session that has expired.
EndSession(t) ==
    /\ sessions[t] # NoSession
    /\ DeleteSessions({t})
    /\ UNCHANGED <<users, codes, req, clash>>

LogoutAll(u) ==
    /\ SessionsOf(u) # {}
    /\ DeleteSessions(SessionsOf(u))
    /\ UNCHANGED <<users, codes, req, clash>>

\* Variant with a fault: a new password spares the caller's session too.
WipeOtherSessions(p) ==
    /\ req[p].pc = "wipe"
    /\ DeleteSessions({t \in SessionsOf(req[p].tgt) : t # req[p].tok})
    /\ Ends(p)
    /\ UNCHANGED <<users, codes>>

\* The DELETE that closes a security change: the other sessions of the
\* account, and after a new password the caller's own as well.
WipeSessions(p) ==
    /\ req[p].pc = "wipe"
    /\ DeleteSessions(
         {t \in SessionsOf(req[p].tgt) : req[p].op = "password" \/ t # req[p].tok})
    /\ Ends(p)
    /\ UNCHANGED <<users, codes>>

-----------------------------------------------------------------------------
(* Administration of the accounts (users.rs).                              *)

\* create counts the accounts first ...
CreateCount(p) ==
    /\ At(p, "create", "start")
    /\ IF Cardinality(Live) >= MaxUsers THEN Ends(p) ELSE Goes(p, "apply")
    /\ UNCHANGED <<users, codes, sessions, excused>>

\* ... and inserts afterwards; a name already taken is refused.
CreateInsert(p) ==
    /\ At(p, "create", "apply")
    /\ LET u == req[p].tgt IN
         IF users[u].status = "new"
         THEN \E w \in Passwords, r \in Roles :
                users' = [users EXCEPT ![u] = NewUser(w, r)]
         ELSE UNCHANGED users
    /\ Ends(p)
    /\ UNCHANGED <<codes, sessions, excused>>

\* Variant with a fault: the COUNT without "id != ?1".
AllAdmins(u) == Admins

OtherAdmins(u) == Admins \ {u}

\* set_role to viewer and delete of an administrator: the COUNT.
CountAdmins(p) ==
    /\ At(p, "demote", "start") \/ At(p, "delete", "count")
    /\ IF OtherAdmins(req[p].tgt) = {} THEN Ends(p) ELSE Goes(p, "apply")
    /\ UNCHANGED <<users, codes, sessions, excused>>

\* set_role: the UPDATE, which finds no row when the account has gone.
SetRole(p) ==
    /\ At(p, "demote", "apply") \/ At(p, "promote", "start")
    /\ LET u == req[p].tgt
           role == IF req[p].op = "demote" THEN "viewer" ELSE "admin"
       IN IF u \in Live
          THEN users' = [users EXCEPT ![u].role = role] /\ Goes(p, "wipe")
          ELSE Ends(p) /\ UNCHANGED users
    /\ UNCHANGED <<codes, sessions, excused>>

\* delete reads the role of its target: only an administrator is counted.
DeleteReadRole(p) ==
    /\ At(p, "delete", "start")
    /\ LET u == req[p].tgt IN
         IF u \in Live THEN Goes(p, IF u \in Admins THEN "count" ELSE "apply")
                       ELSE Ends(p)
    /\ UNCHANGED <<users, codes, sessions, excused>>

\* The DELETE cascades to the account's sessions and recovery codes.
DeleteUser(p) ==
    /\ At(p, "delete", "apply")
    /\ LET u == req[p].tgt IN
         /\ users' = IF u \in Live THEN [users EXCEPT ![u] = NoUser("gone")] ELSE users
         /\ codes' = [codes EXCEPT ![u] = {}]
         /\ DeleteSessions(SessionsOf(u))
    /\ Ends(p)

-----------------------------------------------------------------------------
(* A new password (change_password).                                       *)

PasswordRead(p) ==
    /\ At(p, "password", "start")
    /\ IF req[p].tgt \in Live THEN Goes(p, "apply") ELSE Ends(p)
    /\ UNCHANGED <<users, codes, sessions, excused>>

PasswordUpdate(p) ==
    /\ At(p, "password", "apply")
    /\ \E w \in Passwords :
         users' = [users EXCEPT ![req[p].tgt].pass =
                     IF req[p].tgt \in Live THEN w ELSE @]
    /\ Goes(p, "wipe")
    /\ UNCHANGED <<codes, sessions, excused>>

-----------------------------------------------------------------------------
(* Two-step verification (twofa.rs).                                       *)

\* Variant with a fault: a secret may be set up while 2FA is on.
SetupReadAlways(p) ==
    /\ At(p, "setup2fa", "start")
    /\ IF req[p].tgt \in Live THEN Goes(p, "apply") ELSE Ends(p)
    /\ UNCHANGED <<users, codes, sessions, excused>>

\* setup: refused while 2FA is on ...
SetupRead(p) ==
    /\ At(p, "setup2fa", "start")
    /\ LET u == req[p].tgt IN
         IF u \in Live /\ users[u].totp = None THEN Goes(p, "apply") ELSE Ends(p)
    /\ UNCHANGED <<users, codes, sessions, excused>>

\* ... then a fresh secret is written, whatever has happened since.
SetupWrite(p) ==
    /\ At(p, "setup2fa", "apply")
    /\ LET u == req[p].tgt IN
         \E s \in Secrets :
            /\ s \notin {users[u].secret, users[u].totp}
            /\ \A q \in Requests : req[q].seen # s
            /\ users' = [users EXCEPT ![u].secret = IF u \in Live THEN s ELSE @]
    /\ Ends(p)
    /\ UNCHANGED <<codes, sessions, excused>>

\* enable: the secret is read, and the code verified against it.
EnableRead(p) ==
    /\ At(p, "enable2fa", "start")
    /\ LET u == req[p].tgt IN
         IF u \in Live /\ users[u].totp = None /\ users[u].secret # None
         THEN Becomes(p, [req[p] EXCEPT !.pc = "apply", !.seen = users[u].secret])
         ELSE Ends(p)
    /\ UNCHANGED <<users, codes, sessions, excused>>

\* The transaction turns 2FA on, whatever secret the row has by now, and
\* replaces the recovery codes.  The caller has shown a code: its session
\* is as good as one that logged in with one.
EnableCommit(p) ==
    /\ At(p, "enable2fa", "apply")
    /\ LET u == req[p].tgt
           t == req[p].tok
       IN IF u \in Live
          THEN /\ users' = [users EXCEPT ![u].totp = req[p].seen]
               /\ \E c \in Codes :
                    /\ \A v \in Users : c \notin codes[v]
                    /\ \A k \in Tokens : sessions[k].via # c
                    /\ \A q \in Requests : req[q].via # c
                    /\ codes' = [codes EXCEPT ![u] = {c}]
               /\ sessions' = IF sessions[t].via = "password"
                              THEN [sessions EXCEPT ![t].via = "otp"]
                              ELSE sessions
               /\ Goes(p, "wipe")
          ELSE Ends(p) /\ UNCHANGED <<users, codes, sessions>>
    /\ UNCHANGED excused

\* disable: the row is read, the password and a TOTP code or a recovery code
\* are verified.
DisableRead(p) ==
    /\ At(p, "disable2fa", "start")
    /\ LET u == req[p].tgt IN
         IF u \in Live /\ users[u].totp # None
         THEN \/ users[u].secret # None /\ Goes(p, "apply")
              \/ \E c \in codes[u] :
                   Becomes(p, [req[p] EXCEPT !.pc = "consume", !.via = c])
         ELSE Ends(p)
    /\ UNCHANGED <<users, codes, sessions, excused>>

DisableCommit(p) ==
    /\ At(p, "disable2fa", "apply")
    /\ LET u == req[p].tgt IN
         /\ users' = IF u \in Live
                     THEN [users EXCEPT ![u] = [@ EXCEPT !.totp = None, !.secret = None]]
                     ELSE users
         /\ codes' = [codes EXCEPT ![u] = {}]
    /\ Goes(p, "wipe")
    /\ UNCHANGED <<sessions, excused>>

-----------------------------------------------------------------------------
Init ==
    /\ users = [u \in Users |-> NoUser("new")]
    /\ codes = [u \in Users |-> {}]
    /\ sessions = [t \in Tokens |-> NoSession]
    /\ req = [p \in Requests |-> Idle]
    /\ clash = {}
    /\ excused = {}

Step(p) ==
    \/ \E u \in Users : LoginRead(p, u)
    \/ ConsumeRecovery(p)
    \/ \E t \in Tokens : CreateSession(p, t)
    \/ \E t \in Tokens, op \in AdminOps \cup SelfOps, x \in Users : Begin(p, t, op, x)
    \/ Drop(p)
    \/ WipeSessions(p)
    \/ CreateCount(p) \/ CreateInsert(p)
    \/ CountAdmins(p) \/ SetRole(p) \/ DeleteReadRole(p) \/ DeleteUser(p)
    \/ PasswordRead(p) \/ PasswordUpdate(p)
    \/ SetupRead(p) \/ SetupWrite(p)
    \/ EnableRead(p) \/ EnableCommit(p)
    \/ DisableRead(p) \/ DisableCommit(p)

Next ==
    \/ \E u \in Users : Setup(u) \/ LogoutAll(u)
    \/ \E t \in Tokens : EndSession(t)
    \/ \E p \in Requests : Step(p)

Spec == Init /\ [][Next]_vars
-----------------------------------------------------------------------------
(* Properties.                                                             *)

\* The state has its shape, and the rows of recovery_codes and sessions
\* belong to accounts that exist (the foreign keys, with their cascades).
TypeOK ==
    /\ users \in [Users -> UserRow]
    /\ codes \in [Users -> SUBSET Codes]
    /\ sessions \in [Tokens -> Session \cup {NoSession}]
    /\ req \in [Requests -> Request]
    /\ clash \subseteq Users \cup {"roles"}
    /\ excused \subseteq Tokens
    /\ \A u \in Users : codes[u] # {} => u \in Live
    /\ \A t \in Tokens : sessions[t] # NoSession => sessions[t].user \in Live

\* The administrators do not vanish ("至少保留一个管理员账号", users.rs): once
\* the panel is set up an account that may administer it remains, through any
\* sequence of demotions and deletions, as long as no two of them on different
\* accounts were past their COUNT together.
AdminRemains ==
    \/ "roles" \in clash
    \/ \A u \in Users : users[u].status = "new"
    \/ Admins # {}

\* "改密后所有会话失效" and its like for 2FA: a session stands on the password
\* the account has now, and on a second factor if the account has one, unless
\* the statement that revokes it is still to come, or it is a session that a
\* login finished after the change or that a dropped handler left.
SessionMatchesAccount ==
    \A t \in Tokens :
        LET s == sessions[t] IN
        s # NoSession =>
            \/ t \in excused
            \/ \E p \in Requests : req[p].pc = "wipe" /\ req[p].tgt = s.user
            \/ /\ s.pass = users[s.user].pass
               /\ users[s.user].totp # None => s.via # "password"

\* enable turns 2FA on for a secret its owner has shown a code for: unless
\* two 2FA requests of the account overlapped, the secret that logins are
\* verified against is that one, so that the owner is not locked out.
EnabledSecretProven ==
    \A u \in Live :
        users[u].totp # None =>
            u \in clash \/ users[u].secret = users[u].totp

\* A recovery code opens one session, however many logins present it at once.
RecoveryCodeOnce ==
    \A s, t \in Tokens :
        s # t /\ sessions[s].via \in Codes => sessions[s].via # sessions[t].via
=============================================================================
