\* One registration and the statements, grants and certificates for it, by either
\* library, at every clock reading.
SPECIFICATION SpecJS
CONSTANTS
    admin = admin  agent = agent  issuer = issuer  weak = weak
    mladmin = mladmin  mlagent = mlagent  mlissuer = mlissuer
    iff = iff  old = old
    Keys = {admin, agent, issuer, weak, mladmin}
    MLKeys = {mladmin}
    WeakKeys = {weak}
    Issuers = {iff}
    LegacyIssuers = {}
    Skew = 1
    CertificateLife = 3
    GrantMax = 2
    MaxValidity = 3
    GrantLife = 2
    Protocols = {"0.1"}
    Admins = {admin, agent}
    Agents = {admin, agent}
    Signers = {issuer}
    AgentIDs = {id1}
    Artifacts = {f1}
    Validities = {0, 2}
    Visibilities = {"private"}
    Drift = 1
    SignTimes = {}
    MaxClock = 2
    MaxEnvelopes = 5
INVARIANTS
    IssuedByEitherVerify
    BrowserSourcesIssuable
    SourcesIssuable
    GrantsAccepted
    BrowserGrantsAccepted
CHECK_DEADLOCK FALSE
SYMMETRY EitherParty
