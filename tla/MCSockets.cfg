SPECIFICATION GatewaySpec
CONSTANTS
    SocketIds = {s1, s2}
    Accounts = {u1, u2}
    Sessions = {d1, d2}
    Reqs = {r1, r2}
    Failures = TRUE
    Absent = Absent
SYMMETRY Symmetry
INVARIANTS GatewayTypeOK OutsidersHearNothing LoggedOutHearNothing
PROPERTY KicksHitTheirTarget
