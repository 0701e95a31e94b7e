SPECIFICATION Spec
CONSTANTS
    b1 = b1  b2 = b2  u1 = u1  l1 = l1  l2 = l2  c1 = c1  c2 = c2  c3 = c3
    g1 = g1  g2 = g2  g3 = g3  k1 = k1  m1 = m1  a1 = a1  o1 = o1
    Boards = {b1, b2}
    Users = {u1}
    Lists = {l1, l2}
    Cards = {c1, c2, c3}
    Labels = {g1, g2, g3}
    Checklists = {k1}
    Items = {m1}
    Attachments = {a1}
    Comments = {o1}
    Reqs = {r1, r2}
    Focuses <- FiveFocuses
    Narrow = TRUE
    None = None
CHECK_DEADLOCK FALSE
SYMMETRY Symmetry
INVARIANTS TypeOK WritesStayOnBoard LinksAtHome
PROPERTY PublicFrozen
