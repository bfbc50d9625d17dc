---------------------------- MODULE ApostilleCore ----------------------------
(***************************************************************************)
(* The verification rules of the Apostille core library (apostille/*.go):  *)
(* what an envelope is, when it verifies, and when a registration, a       *)
(* source bundle, a publication grant and a certified bundle are accepted. *)
(* Everything here is a pure predicate; OriginProtocol.tla holds the       *)
(* parties that sign.                                                      *)
(*                                                                         *)
(* Cryptography is symbolic.  A signature is the record of who signed      *)
(* what, so it exists only if the key's holder made it; SHA-256 is         *)
(* injective, so the digest of an envelope is the singleton set of that    *)
(* envelope and the empty digest string is the empty set.  A Go pointer    *)
(* that may be nil is likewise a set of at most one envelope.              *)
(*                                                                         *)
(* Time is a number of whole seconds and 0 is Go's zero time.Time, whose   *)
(* text form 0001-01-01T00:00:00Z is a well-formed timestamp.  A caller's  *)
(* clock may carry a fraction of a second, but every comparison in the     *)
(* code is between such a reading and a whole-second timestamp, so it      *)
(* depends only on the reading's whole seconds.                            *)
(***************************************************************************)
EXTENDS Integers, FiniteSets

CONSTANTS
    Keys,             \* public keys (equivalently key IDs: fingerprints)
    MLKeys,           \* the ML-DSA-65 ones; the others are Ed25519
    WeakKeys,         \* Ed25519 keys that the strict check of 0.2 refuses
    Issuers,          \* service names that ValidIssuer (0.1) accepts
    LegacyIssuers,    \* ... of which ValidIssuer02 refuses these
    Skew,             \* accepted clock difference: 2 minutes in the code
    CertificateLife,  \* 24 hours
    GrantMax          \* longest grant a service accepts: 15 minutes

ASSUME CoreAssumption ==
    /\ MLKeys \subseteq Keys
    /\ WeakKeys \subseteq Keys \ MLKeys
    /\ LegacyIssuers \subseteq Issuers
    /\ Skew \in Nat
    /\ CertificateLife \in Nat \ {0}
    /\ GrantMax \in Nat

ZeroTime == 0

(***************************************************************************)
(* Profiles (profile.go)                                                   *)
(***************************************************************************)
KnownProtocols == {"0.1", "0.2", "0.3"}

Algorithm(protocol) == IF protocol = "0.3" THEN "ML-DSA-65" ELSE "Ed25519"
KeyAlgorithm(key)   == IF key \in MLKeys THEN "ML-DSA-65" ELSE "Ed25519"

NaturalProtocol(key) == IF key \in MLKeys THEN "0.3" ELSE "0.1"

\* decodePublicKey (size) and checkKey of the profile.
UsableKey(protocol, key) ==
    /\ key \in Keys
    /\ KeyAlgorithm(key) = Algorithm(protocol)
    /\ protocol = "0.2" => key \notin WeakKeys

KeyIdentity(key) == <<"urn:apostille:key", key>>

ValidIssuer(protocol, name) ==
    \/ name \in {KeyIdentity(k) : k \in Keys}
    \/ name \in Issuers /\ (protocol # "0.1" => name \notin LegacyIssuers)

(***************************************************************************)
(* Payloads and envelopes (types.go, verify.go, crypto.go).  Agent IDs,    *)
(* artifacts and key IDs stand for themselves; nonces, certificate IDs and *)
(* the constant assertion fields carry no state and are left out.          *)
(***************************************************************************)
Digest(envelope) == {envelope}
NoDigest         == {}

Statement(protocol, key, id, delegation, artifact, at) ==
    [protocol |-> protocol, kind |-> "statement",
     issuer |-> KeyIdentity(key), issuerKey |-> key, issuedAt |-> at,
     agentID |-> id, delegation |-> delegation, artifact |-> artifact]

Delegation(protocol, admin, id, agent, audience, at, start, end) ==
    [protocol |-> protocol, kind |-> "delegation",
     issuer |-> KeyIdentity(admin), issuerKey |-> admin, issuedAt |-> at,
     agentID |-> id, agentKey |-> agent, audience |-> audience,
     notBefore |-> start, expiresAt |-> end]

Acceptance(protocol, key, id, delegation, at) ==
    [protocol |-> protocol, kind |-> "acceptance",
     issuer |-> KeyIdentity(key), issuerKey |-> key, issuedAt |-> at,
     agentID |-> id, delegation |-> delegation]

Grant(protocol, admin, statement, delegation, audience, visibility, at, end) ==
    [protocol |-> protocol, kind |-> "grant",
     issuer |-> KeyIdentity(admin), issuerKey |-> admin, issuedAt |-> at,
     statement |-> statement, delegation |-> delegation,
     audience |-> audience, visibility |-> visibility, expiresAt |-> end]

Certificate(protocol, key, issuer, statement, delegation, source, binding, at, end) ==
    [protocol |-> protocol, kind |-> "certificate",
     issuer |-> issuer, issuerKey |-> key, issuedAt |-> at,
     statement |-> statement, delegation |-> delegation,
     sourceKey |-> source, agentBinding |-> binding, expiresAt |-> end]

\* The header fields every payload record carries.
HeaderOK(protocol, kind, p) ==
    /\ p.protocol = protocol
    /\ p.kind = kind
    /\ ValidIssuer(protocol, p.issuer)

Interval(start, end) == end > start

SelfIssued(p) == p.issuer = KeyIdentity(p.issuerKey)

ValidPayload(protocol, kind, p) ==
    /\ HeaderOK(protocol, kind, p)
    /\ \/ kind = "statement"
       \/ /\ kind = "delegation"
          /\ UsableKey(protocol, p.agentKey)
          /\ ValidIssuer(protocol, p.audience)
          /\ Interval(p.notBefore, p.expiresAt)
          /\ SelfIssued(p)
       \/ /\ kind = "acceptance"
          /\ p.delegation # NoDigest
          /\ SelfIssued(p)
       \/ /\ kind = "grant"
          /\ p.statement # NoDigest
          /\ p.delegation # NoDigest
          /\ ValidIssuer(protocol, p.audience)
          /\ p.visibility \in {"private", "public"}
          /\ SelfIssued(p)
          /\ Interval(p.issuedAt, p.expiresAt)
       \/ /\ kind = "certificate"
          /\ p.statement # NoDigest
          /\ p.agentBinding \in {"admin_key_delegation", "not_provided"}
          /\ (p.agentBinding = "admin_key_delegation") = (p.delegation # NoDigest)
          /\ Interval(p.issuedAt, p.expiresAt)

\* Mutant: the digest of the payload is left out of the signed bytes.
SigningInputWithoutPayload(protocol, kind, p) == <<protocol, kind>>

\* The signed bytes are prefixed with the kind and the version's domain.
SigningInput(protocol, kind, p) == <<protocol, kind, p>>
SignatureBy(key, input)         == [by |-> key, over |-> input]

\* The envelope SignFor returns.
Seal(key, protocol, kind, p) ==
    [protocol |-> protocol, kind |-> kind, payload |-> p, publicKey |-> key,
     signature |-> SignatureBy(key, SigningInput(protocol, kind, p))]

\* What SignFor requires of the signer and the payload.
CanSign(key, protocol, kind, p) ==
    /\ protocol \in KnownProtocols
    /\ UsableKey(protocol, key)
    /\ ValidPayload(protocol, kind, p)
    /\ p.issuerKey = key

VerifyEnvelope(e) ==
    /\ e.protocol \in KnownProtocols
    /\ UsableKey(e.protocol, e.publicKey)
    /\ e.signature = SignatureBy(e.publicKey, SigningInput(e.protocol, e.kind, e.payload))
    /\ ValidPayload(e.protocol, e.kind, e.payload)
    /\ e.payload.issuerKey = e.publicKey

Decodes(e, kind) == e.kind = kind /\ VerifyEnvelope(e)

(***************************************************************************)
(* Registration: administrator delegation and agent acceptance.            *)
(***************************************************************************)
ActiveAt(d, a, now) ==
    /\ d.payload.notBefore <= now
    /\ now < d.payload.expiresAt
    /\ d.payload.issuedAt <= now + Skew
    /\ a.payload.issuedAt <= now + Skew
    /\ a.payload.issuedAt >= d.payload.notBefore

\* audience is a set of at most one name: "" in the code is the empty set.
\* now = ZeroTime switches the activity test off, as now.IsZero() does.
VerifyRegistration(d, a, audience, now) ==
    /\ d.protocol = a.protocol
    /\ Decodes(d, "delegation")
    /\ Decodes(a, "acceptance")
    /\ a.payload.delegation = Digest(d)
    /\ a.payload.agentID = d.payload.agentID
    /\ a.payload.issuerKey = d.payload.agentKey
    /\ \A name \in audience : d.payload.audience = name
    /\ now # ZeroTime => ActiveAt(d, a, now)

(***************************************************************************)
(* Bundles.  statement is an envelope; delegation, acceptance and          *)
(* certificate are sets of at most one envelope.                           *)
(***************************************************************************)
Bundle(protocol, s, delegation, acceptance, certificate) ==
    [protocol |-> protocol, statement |-> s, delegation |-> delegation,
     acceptance |-> acceptance, certificate |-> certificate]

Parts(b) == {b.statement} \cup b.delegation \cup b.acceptance \cup b.certificate

OneVersion(b) ==
    /\ b.protocol \in KnownProtocols
    /\ \A e \in Parts(b) : e.protocol = b.protocol

\* Mutant: the statement's delegation digest is not compared.
VerifySourceWithoutDigest(b) ==
    LET s == b.statement.payload IN
    /\ OneVersion(b)
    /\ Decodes(b.statement, "statement")
    /\ SelfIssued(s)
    /\ (b.delegation = {}) = (b.acceptance = {})
    /\ \A d \in b.delegation, a \in b.acceptance :
          /\ VerifyRegistration(d, a, {}, ZeroTime)
          /\ s.agentID = d.payload.agentID
          /\ s.issuerKey = d.payload.agentKey

\* Mutant: the statement's key is not compared with the delegated one.
VerifySourceAnyKey(b) ==
    LET s == b.statement.payload IN
    /\ OneVersion(b)
    /\ Decodes(b.statement, "statement")
    /\ SelfIssued(s)
    /\ (b.delegation = {}) = (b.acceptance = {})
    /\ s.delegation = b.delegation
    /\ \A d \in b.delegation, a \in b.acceptance :
          /\ VerifyRegistration(d, a, {}, ZeroTime)
          /\ s.agentID = d.payload.agentID

VerifySource(b) ==
    LET s == b.statement.payload IN
    /\ OneVersion(b)
    /\ Decodes(b.statement, "statement")
    /\ SelfIssued(s)
    /\ (b.delegation = {}) = (b.acceptance = {})
    /\ s.delegation = b.delegation
    /\ \A d \in b.delegation, a \in b.acceptance :
          /\ VerifyRegistration(d, a, {}, ZeroTime)
          /\ s.agentID = d.payload.agentID
          /\ s.issuerKey = d.payload.agentKey

AgentBinding(b) ==
    IF b.delegation = {} THEN "not_provided" ELSE "admin_key_delegation"

\* Mutant: the certificate's expiry is not compared with the delegation's.
CertificateOKAnyExpiry(b, c) ==
    LET s == b.statement.payload
        p == c.payload IN
    /\ Decodes(c, "certificate")
    /\ p.statement = Digest(b.statement)
    /\ p.delegation = s.delegation
    /\ p.sourceKey = s.issuerKey
    /\ p.agentBinding = AgentBinding(b)
    /\ s.issuedAt <= p.issuedAt + Skew
    /\ \A d \in b.delegation, a \in b.acceptance :
          /\ VerifyRegistration(d, a, {p.issuer}, p.issuedAt)
          /\ s.issuedAt >= d.payload.notBefore

CertificateOK(b, c) ==
    LET s == b.statement.payload
        p == c.payload IN
    /\ Decodes(c, "certificate")
    /\ p.statement = Digest(b.statement)
    /\ p.delegation = s.delegation
    /\ p.sourceKey = s.issuerKey
    /\ p.agentBinding = AgentBinding(b)
    /\ s.issuedAt <= p.issuedAt + Skew
    /\ \A d \in b.delegation, a \in b.acceptance :
          /\ VerifyRegistration(d, a, {p.issuer}, p.issuedAt)
          /\ s.issuedAt >= d.payload.notBefore
          /\ p.expiresAt <= d.payload.expiresAt

\* VerifyBundle returns no error (under a policy that accepts the version).
VerifyBundle(b) ==
    /\ VerifySource(b)
    /\ \A c \in b.certificate : CertificateOK(b, c)

Certified(b) == b.certificate # {} /\ VerifyBundle(b)

\* The freshness verdict of VerifyBundle at the receiver's clock.
Freshness(c, now) ==
    IF now = ZeroTime THEN "unknown"
    ELSE IF now < c.payload.issuedAt THEN "not_yet_valid"
    ELSE IF now >= c.payload.expiresAt THEN "expired" ELSE "valid_at_evaluation_time"

(***************************************************************************)
(* Publication grant check of the service.                                 *)
(***************************************************************************)
\* Mutant: no allowance for the administrator's clock.
ValidateGrantWithoutSkew(g, s, d, adminKey, audience, now) ==
    /\ g.protocol = s.protocol
    /\ g.protocol = d.protocol
    /\ Decodes(g, "grant")
    /\ g.payload.issuerKey = adminKey
    /\ g.payload.audience = audience
    /\ g.payload.statement = Digest(s)
    /\ g.payload.delegation = Digest(d)
    /\ now # ZeroTime
    /\ g.payload.issuedAt <= now
    /\ now < g.payload.expiresAt
    /\ g.payload.expiresAt - g.payload.issuedAt <= GrantMax

ValidateGrant(g, s, d, adminKey, audience, now) ==
    /\ g.protocol = s.protocol
    /\ g.protocol = d.protocol
    /\ Decodes(g, "grant")
    /\ g.payload.issuerKey = adminKey
    /\ g.payload.audience = audience
    /\ g.payload.statement = Digest(s)
    /\ g.payload.delegation = Digest(d)
    /\ now # ZeroTime
    /\ g.payload.issuedAt <= now + Skew
    /\ now < g.payload.expiresAt
    /\ g.payload.expiresAt - g.payload.issuedAt <= GrantMax
=============================================================================
