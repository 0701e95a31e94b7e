SPECIFICATION Spec
CONSTANTS
    Sess = {s1, s2}
    Reqs = {r1, r2}
    ResetTokens = {t1}
    Goals = {"logout", "changePassword"}
    None = None
    MaxVersion = 2
CHECK_DEADLOCK FALSE
SYMMETRY Symmetry
INVARIANTS TypeOK CacheNeverAhead LoggedOutRejected ResetOnce
