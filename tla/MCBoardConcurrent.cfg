SPECIFICATION Spec
CONSTANTS
    Users = {u1, u2}
    Cards = {c1}
    Reqs = {r1, r2}
    Methods = {"updateMemberRole", "removeMember", "transferOwnership", "join"}
    GivenRoles = {"ADMIN", "OWNER"}
    JoinRoles = {"MEMBER"}
    Failures = TRUE
    None = None
CHECK_DEADLOCK FALSE
SYMMETRY Symmetry
INVARIANTS TypeOK AdmittedHadRole OwnerRowsWereOwners
