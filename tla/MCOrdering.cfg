SPECIFICATION Spec
CONSTANTS
    Items = {i1, i2, i3}
    Shelves = {s1, s2}
    Reqs = {r1, r2}
    Kinds = {"card", "list"}
    Step = 2
    MaxOrder = 2
    Narrow = TRUE
    None = None
CHECK_DEADLOCK FALSE
SYMMETRY Symmetry
INVARIANTS TypeOK OrdersDistinct
PROPERTY ArrangedAsAsked
