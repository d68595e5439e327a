SPECIFICATION Spec
CONSTANTS
    f1 = f1
    v1 = v1
    v2 = v2
    a1 = a1
    s1 = s1
    p1 = p1
    p2 = p2
    Files = {f1}
    Contents = {v1, v2}
    Length <- MCLength
    MaxLine = 2
    Ranges <- MCOverlap
    Agents = {a1}
    Stores = {s1}
    StoreOf <- MCOne
    WatermarkOf <- MCOne
    Calls = {p1, p2}
    TicksPerSecond = 1
    MaxClock = 0
    Env = {"edit", "abort"}
SYMMETRY MCCallSymmetry
INVARIANT IInv
INVARIANT ClaimsAreHeld
PROPERTY KeepsPromise
