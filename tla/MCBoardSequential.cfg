SPECIFICATION Spec
CONSTANTS
    Users = {u1, u2, u3}
    Cards = {c1}
    Reqs = {r1}
    Methods = {"addMember", "updateMemberRole", "removeMember", "leaveBoard",
               "transferOwnership", "remove", "assignMember", "unassignMember", "join"}
    GivenRoles = {"MEMBER", "ADMIN"}
    JoinRoles = {"VIEWER"}
    Failures = FALSE
    None = None
CHECK_DEADLOCK FALSE
SYMMETRY Symmetry
INVARIANTS  AssigneesAreMembers
