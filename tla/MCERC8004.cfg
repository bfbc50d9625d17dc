\* Registrations, requests and snapshots by the parties and by other software,
\* at every clock reading, in every version that has a binding profile.
SPECIFICATION SpecERC
CONSTANTS
    admin = admin  agent = agent  issuer = issuer  weak = weak  mladmin = mladmin
    iff = iff  old = old  wallet = wallet 
    Keys = {admin, agent, mladmin}
    MLKeys = {mladmin}
    WeakKeys = {}
    Issuers = {iff}
    LegacyIssuers = {}
    Skew = 1
    CertificateLife = 3
    GrantMax = 3
    MaxValidity = 4
    GrantLife = 2
    Protocols = {"0.1", "0.3"}
    Admins = {admin, mladmin}
    Agents = {agent, mladmin}
    Signers = {admin, mladmin}
    AgentIDs = {id1}
    Artifacts = {}
    Validities = {3}
    Visibilities = {"private", "public"}
    Drift = 1
    SignTimes = {3, 5}
    MaxClock = 4
    MaxEnvelopes = 4
    Wallets = {wallet}
    RequestLife = 2
    BindingLife = 2
    BlockAge = 2
    BlockTimes = {1}
INVARIANTS
    IssuedBindingsVerify
    RetriesAccepted
    RequestsIssuable
    BindingInsideDelegation
    SameBindingVerdict
    ConsentChain
CHECK_DEADLOCK FALSE
