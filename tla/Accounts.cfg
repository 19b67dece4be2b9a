SPECIFICATION MCSpec
CONSTANTS
    Users = {u1, u2}
    Requests = {p1, p2}
    Tokens = {t1, t2}
    Passwords = {w1, w2}
    Secrets = {s1, s2}
    Codes = {c1, c2}
    None = None
    MaxUsers = 2
SYMMETRY Symmetry
INVARIANTS
    AdminRemains
    SessionMatchesAccount
    EnabledSecretProven
    RecoveryCodeOnce
CHECK_DEADLOCK FALSE
