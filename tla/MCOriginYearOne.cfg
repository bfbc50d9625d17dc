\* A certificate dated 0001-01-01T00:00:00Z.
SPECIFICATION Spec
CONSTANTS
    admin = admin  agent = agent  issuer = issuer  weak = weak
    mladmin = mladmin  mlagent = mlagent  mlissuer = mlissuer
    iff = iff  old = old
    Keys = {admin, agent, issuer}
    MLKeys = {}
    WeakKeys = {}
    Issuers = {iff}
    LegacyIssuers = {}
    Skew = 1
    CertificateLife = 3
    GrantMax = 3
    MaxValidity = 3
    GrantLife = 2
    Protocols = {"0.1"}
    Admins = {admin}
    Agents = {agent}
    Signers = {issuer}
    AgentIDs = {id1}
    Artifacts = {f1}
    Validities = {}
    Visibilities = {"private", "public"}
    Drift = 0
    SignTimes = {0, 1, 3}
    MaxClock = 1
    MaxEnvelopes = 4
INVARIANTS
    DelegationActiveAtIssue
CHECK_DEADLOCK FALSE
