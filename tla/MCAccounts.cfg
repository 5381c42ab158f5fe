CONSTANTS
    Users = {u1, u2}
    Emails = {e1, e2}
    Sessions = {s1, s2}
    Tokens = {t1, t2}
    Requests = {r1, r2}
    Nobody = Nobody
SPECIFICATION Spec
SYMMETRY Symmetry
INVARIANTS EmailsUnique OneValidLink OldSessionsRevoked
PROPERTIES UsedLinksAreDead EmailChangeVerified
