SPECIFICATION Spec
CONSTANTS
    p1 = p1
    p2 = p2
    p3 = p3
    s1 = s1
    s2 = s2
    u1 = u1
    u2 = u2
    NoRun = NoRun
    Runs = {p1, p2, p3}
    Users = {u1, u2}
    UserOf <- MCUserOf
    Slots = {s1, s2}
    TOP_K = 2
    MaxRows = 3
    MaxDeliveries = 5
    MaxErasures = 1
SYMMETRY Symmetric
INVARIANTS AttributionIsScoped CountsCoverUse ErasureHolds
