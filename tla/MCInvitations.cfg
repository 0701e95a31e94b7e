SPECIFICATION Spec
CONSTANTS
    Reqs = {r1, r2}
    Users = {u1, u2}
    Known = {u1}
    Invites = {i1, i2}
    Links = {l1, l2}
    Offers = {"MEMBER", "ADMIN"}
    Apart = TRUE
    Failures = TRUE
    None = None
CHECK_DEADLOCK FALSE
SYMMETRY Symmetry
INVARIANTS TypeOK OneJoinPerInvite OneLivePerEmail DecisionsAgree RolesWereOffered
