\* Payloads of other software with arbitrary times, in every version and with
\* every kind of key, next to the creators of both libraries.
SPECIFICATION SpecJS
CONSTANTS
    admin = admin  agent = agent  issuer = issuer  weak = weak
    mladmin = mladmin  mlagent = mlagent  mlissuer = mlissuer
    iff = iff  old = old
    Keys = {weak, issuer, mladmin}
    MLKeys = {mladmin}
    WeakKeys = {weak}
    Issuers = {iff}
    LegacyIssuers = {}
    Skew = 1
    CertificateLife = 3
    GrantMax = 2
    MaxValidity = 3
    GrantLife = 2
    Protocols = {"0.1", "0.2", "0.3"}
    Admins = {weak}
    Agents = {weak, mladmin}
    Signers = {issuer}
    AgentIDs = {id1}
    Artifacts = {f1}
    Validities = {1}
    Visibilities = {"private", "public"}
    Drift = 0
    SignTimes = {1, 3}
    MaxClock = 1
    MaxEnvelopes = 4
INVARIANTS
    CertificateInsideDelegation
    MixturesRejected
    AuthorityChain
    SameVerdict
CHECK_DEADLOCK FALSE
