SPECIFICATION PanelSpec
CONSTANTS
    k1 = k1
    k2 = k2
    k3 = k3
    a1 = a1
    a2 = a2
    a3 = a3
    f1 = f1
    f2 = f2
    i1 = i1
    i2 = i2
    o1 = o1
    None = None
    AdminKeys = {k1, k2, k3}
    AgentKeys = {a1, a2, a3}
    PostQuantum = {k3, a3}
    Files = {f1, f2}
    Limits <- PanelLimits
    Identities = {i1, i2}
    Owners = {o1}
    MaxClicks = 3
INVARIANTS
    RowOfSession
CHECK_DEADLOCK FALSE
