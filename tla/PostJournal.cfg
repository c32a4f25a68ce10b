SPECIFICATION Spec
CONSTANTS
    p1 = p1
    p2 = p2
    c1 = c1
    c2 = c2
    NoPost = NoPost
    Posts = {p1, p2}
    Clients = {c1, c2}
    MaxWrites = 3
    MaxLogged = 4
    MaxFaults = 1
SYMMETRY MCSymmetry
INVARIANTS StaleExplained
PROPERTY NoGoingBack
