\* Every version and kind of key, two registrations, mixed pieces.
SPECIFICATION Spec
CONSTANTS
    admin = admin  agent = agent  issuer = issuer  weak = weak
    mladmin = mladmin  mlagent = mlagent  mlissuer = mlissuer
    iff = iff  old = old
    Keys = {admin, weak, mladmin}
    MLKeys = {mladmin}
    WeakKeys = {weak}
    Issuers = {iff, old}
    LegacyIssuers = {old}
    Skew = 1
    CertificateLife = 3
    GrantMax = 3
    MaxValidity = 3
    GrantLife = 2
    Protocols = {"0.1", "0.2", "0.3"}
    Admins = {admin, weak, mladmin}
    Agents = {admin, mladmin}
    Signers = {admin, mladmin}
    AgentIDs = {id1, id2}
    Artifacts = {f1}
    Validities = {3}
    Visibilities = {"private", "public"}
    Drift = 0
    SignTimes = {1}
    MaxClock = 2
    MaxEnvelopes = 5
INVARIANTS
    IssuedBundlesVerify
    PiecesStayTogether
CHECK_DEADLOCK FALSE
