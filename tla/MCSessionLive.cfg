SPECIFICATION FairSpec
CONSTANTS
    Sess = {s1, s2}
    Reqs = {r1, r2}
    ResetTokens = {}
    Goals = {"logoutAll"}
    None = None
    MaxVersion = 1
CHECK_DEADLOCK FALSE
PROPERTIES  RequestsFinish
