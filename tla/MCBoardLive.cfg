SPECIFICATION FairSpec
CONSTANTS
    Users = {u1, u2}
    Cards = {c1}
    Reqs = {r1, r2}
    Methods = {"remove", "assignMember", "join"}
    GivenRoles = {"MEMBER"}
    JoinRoles = {"MEMBER"}
    Failures = TRUE
    None = None
CHECK_DEADLOCK FALSE
INVARIANT DeletedBoardIsEmpty
 
