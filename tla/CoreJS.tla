-------------------------------- MODULE CoreJS -------------------------------
(***************************************************************************)
(* The verification rules in JavaScript (web/apostille-core.mjs and its    *)
(* profiles), over the documents of ApostilleCore: a second list of checks *)
(* in another order.  An evaluation time that may be null is a set of at   *)
(* most one time; no time stands for null.                                 *)
(***************************************************************************)
EXTENDS ApostilleCore

UsableKeyJS(protocol, key) ==
    /\ key \in Keys
    /\ CASE protocol = "0.1" -> key \notin MLKeys
         [] protocol = "0.2" -> key \notin MLKeys \cup WeakKeys
         [] protocol = "0.3" -> key \in MLKeys

KeyNamed(p) == p.issuer = KeyIdentity(p.issuerKey)

DelegationRule(protocol, p) ==
    /\ ValidIssuer(protocol, p.audience)
    /\ KeyNamed(p)
    /\ UsableKeyJS(protocol, p.agentKey)
    /\ p.expiresAt > p.notBefore

GrantRule(protocol, p) ==
    /\ p.statement # NoDigest
    /\ p.delegation # NoDigest
    /\ ValidIssuer(protocol, p.audience)
    /\ p.visibility \in {"private", "public"}
    /\ KeyNamed(p)
    /\ p.expiresAt > p.issuedAt

CertificateRule(p) ==
    /\ p.statement # NoDigest
    /\ p.agentBinding \in {"admin_key_delegation", "not_provided"}
    /\ (p.agentBinding = "admin_key_delegation") = (p.delegation # NoDigest)
    /\ p.expiresAt > p.issuedAt

ValidPayloadJS(protocol, kind, p) ==
    /\ p.protocol = protocol
    /\ p.kind = kind
    /\ ValidIssuer(protocol, p.issuer)
    /\ \/ kind = "statement"
       \/ kind = "delegation" /\ DelegationRule(protocol, p)
       \/ kind = "acceptance" /\ p.delegation # NoDigest /\ KeyNamed(p)
       \/ kind = "grant" /\ GrantRule(protocol, p)
       \/ kind = "certificate" /\ CertificateRule(p)

VerifyEnvelopeJS(e, kind) ==
    /\ e.protocol \in KnownProtocols
    /\ e.kind = kind
    /\ UsableKeyJS(e.protocol, e.publicKey)
    /\ e.signature = SignatureBy(e.publicKey, SigningInput(e.protocol, e.kind, e.payload))
    /\ ValidPayloadJS(e.protocol, e.kind, e.payload)
    /\ e.payload.issuerKey = e.publicKey

\* Mutant: the delegation's own date is not compared.
ActiveJSAnyIssueDate(d, a, n) ==
    /\ n >= d.payload.notBefore
    /\ n < d.payload.expiresAt
    /\ a.payload.issuedAt <= n + Skew
    /\ a.payload.issuedAt >= d.payload.notBefore

ActiveJS(d, a, n) ==
    /\ n >= d.payload.notBefore
    /\ n < d.payload.expiresAt
    /\ d.payload.issuedAt <= n + Skew
    /\ a.payload.issuedAt <= n + Skew
    /\ a.payload.issuedAt >= d.payload.notBefore

RegistrationJS(d, a, audience, at) ==
    /\ d.protocol = a.protocol
    /\ VerifyEnvelopeJS(d, "delegation")
    /\ VerifyEnvelopeJS(a, "acceptance")
    /\ a.payload.delegation = Digest(d)
    /\ a.payload.agentID = d.payload.agentID
    /\ a.payload.issuerKey = d.payload.agentKey
    /\ a.publicKey = d.payload.agentKey
    /\ \A name \in audience : d.payload.audience = name
    /\ \A n \in at : ActiveJS(d, a, n)

VerifySourceJS(b) ==
    LET s == b.statement.payload IN
    /\ b.protocol \in KnownProtocols
    /\ \A e \in Parts(b) : e.protocol = b.protocol
    /\ VerifyEnvelopeJS(b.statement, "statement")
    /\ KeyNamed(s)
    /\ (b.delegation = {}) = (b.acceptance = {})
    /\ b.delegation = {} => s.delegation = NoDigest
    /\ \A d \in b.delegation, a \in b.acceptance :
          /\ RegistrationJS(d, a, {}, {})
          /\ s.delegation = Digest(d)
          /\ s.agentID = d.payload.agentID
          /\ s.issuerKey = d.payload.agentKey
          /\ b.statement.publicKey = d.payload.agentKey

CertificateOKJS(b, c) ==
    LET s == b.statement.payload
        p == c.payload IN
    /\ VerifyEnvelopeJS(c, "certificate")
    /\ p.statement = Digest(b.statement)
    /\ p.delegation = s.delegation
    /\ p.sourceKey = s.issuerKey
    /\ p.agentBinding = AgentBinding(b)
    /\ s.issuedAt <= p.issuedAt + Skew
    /\ \A d \in b.delegation, a \in b.acceptance :
          /\ RegistrationJS(d, a, {p.issuer}, {p.issuedAt})
          /\ s.issuedAt >= d.payload.notBefore
          /\ p.expiresAt <= d.payload.expiresAt

VerifyBundleJS(b) ==
    /\ VerifySourceJS(b)
    /\ \A c \in b.certificate : CertificateOKJS(b, c)

FreshnessJS(c, at) ==
    IF at < c.payload.issuedAt THEN "not_yet_valid"
    ELSE IF at >= c.payload.expiresAt THEN "expired" ELSE "valid_at_evaluation_time"

\* sign validates the payload and verifies its own signature.
CanSignJS(key, protocol, kind, p) ==
    /\ UsableKeyJS(protocol, key)
    /\ ValidPayloadJS(protocol, kind, p)
    /\ p.issuerKey = key
=============================================================================
