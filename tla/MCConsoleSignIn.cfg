SPECIFICATION FairSpec
CONSTANTS
    k1 = k1
    k2 = k2
    k3 = k3
    a1 = a1
    a2 = a2
    a3 = a3
    f1 = f1
    f2 = f2
    None = None
    AdminKeys = {k1, k2, k3}
    AgentKeys = {a1, a3}
    PostQuantum = {k3, a3}
    Files = {f1}
    Limits <- SignInLimits
INVARIANTS
    TypeOK
    SessionIsAdmins
    LatestChoice
PROPERTIES
    ImplementsSession
    SignInSettles
CHECK_DEADLOCK FALSE
