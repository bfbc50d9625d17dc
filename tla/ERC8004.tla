------------------------------- MODULE ERC8004 -------------------------------
(***************************************************************************)
(* The ERC-8004 binding profile (apostille/erc8004.go, the JavaScript      *)
(* web/apostille-erc8004.mjs and the checks of the Go client): the         *)
(* administrator of a registration asks for a link to a registry token,    *)
(* the token's owner consents with a wallet, the issuer signs a snapshot   *)
(* of what it observed, and anybody verifies the document offline.         *)
(*                                                                         *)
(* A request names its token by the owner's address alone: the other       *)
(* identity fields are copied and compared nowhere else.  The nonce only   *)
(* tells requests of one second apart; here they are one.  Envelopes of    *)
(* this profile live next to the core's, under labels of their own.        *)
(***************************************************************************)
EXTENDS OriginProtocol, CoreJS

CONSTANTS
    Wallets,     \* owner addresses
    RequestLife, \* ERC8004RequestTTL, 5 minutes
    BindingLife, \* ERC8004BindingTTL, 1 hour
    BlockAge,    \* oldest block a snapshot may rest on, 1 hour
    BlockTimes   \* timestamps of observed blocks

ASSUME BindingAssumption ==
    /\ RequestLife \in Nat \ {0}
    /\ BindingLife \in Nat \ {0}
    /\ BlockAge \in Nat
    /\ BlockTimes \subseteq Nat

VARIABLES
    consents,   \* [request, signature]: texts that wallets signed
    asked,      \* [request, delegation, acceptance, at]: administrators' requests
    documents   \* every document IssueERC8004Binding returned

bindingVars == <<consents, asked, documents>>
varsERC     == <<vars, bindingVars>>

(***************************************************************************)
(* Profiles: each binds registrations of one core version.                 *)
(***************************************************************************)
Profiles == {"erc8004-binding/0.1", "erc8004-binding/0.3"}

CoreOf(profile) == IF profile = "erc8004-binding/0.1" THEN "0.1" ELSE "0.3"

\* The profile of a core version, if any: there is none for 0.2.
ProfilesFor(core) == {profile \in Profiles : CoreOf(profile) = core}

Request(profile, admin, d, audience, owner, at, end) ==
    [protocol |-> profile, kind |-> "request",
     issuer |-> KeyIdentity(admin), issuerKey |-> admin, issuedAt |-> at,
     agentID |-> d.payload.agentID, agentKey |-> d.payload.agentKey,
     delegation |-> Digest(d), audience |-> audience, owner |-> owner,
     expiresAt |-> end]

Snapshot(profile, key, issuer, request, ownerSignature, block, at, end) ==
    [protocol |-> profile, kind |-> "binding",
     issuer |-> issuer, issuerKey |-> key, issuedAt |-> at,
     request |-> request, ownerSignature |-> ownerSignature,
     block |-> block, expiresAt |-> end]

Document(profile, binding, d, a) ==
    [protocol |-> profile, binding |-> binding, delegation |-> d, acceptance |-> a]

\* The text the wallet signs ends in the digest of the complete request.
OwnerMessage(request) == <<"owner", request.protocol, Digest(request)>>

(***************************************************************************)
(* Verification in Go.  A registration that may be absent is a set of at   *)
(* most one pair.                                                          *)
(***************************************************************************)
DecodesERC(e, kind) ==
    /\ e.protocol \in Profiles
    /\ e.kind = kind
    /\ UsableKey(CoreOf(e.protocol), e.publicKey)
    /\ e.payload.issuerKey = e.publicKey
    /\ e.payload.protocol = e.protocol
    /\ e.payload.kind = kind
    /\ ValidIssuer(CoreOf(e.protocol), e.payload.issuer)
    /\ e.signature = SignatureBy(e.publicKey, SigningInput(e.protocol, e.kind, e.payload))

\* Mutant: no allowance for the administrator's clock.
ValidRequestWithoutSkew(profile, p, now) ==
    /\ p.protocol = profile
    /\ p.kind = "request"
    /\ SelfIssued(p)
    /\ ValidIssuer(CoreOf(profile), p.audience)
    /\ p.delegation # NoDigest
    /\ Interval(p.issuedAt, p.expiresAt)
    /\ p.expiresAt - p.issuedAt <= RequestLife
    /\ now # ZeroTime => p.issuedAt <= now /\ now < p.expiresAt

ValidRequest(profile, p, now) ==
    /\ p.protocol = profile
    /\ p.kind = "request"
    /\ SelfIssued(p)
    /\ ValidIssuer(CoreOf(profile), p.audience)
    /\ p.delegation # NoDigest
    /\ Interval(p.issuedAt, p.expiresAt)
    /\ p.expiresAt - p.issuedAt <= RequestLife
    /\ now # ZeroTime => p.issuedAt <= now + Skew /\ now < p.expiresAt

\* Mutant: whoever signed the request, it may name this registration.
VerifyRequestAnyAdministrator(e, registration, now) ==
    LET p == e.payload IN
    /\ DecodesERC(e, "request")
    /\ ValidRequest(e.protocol, p, now)
    /\ \A r \in registration :
          /\ r.delegation.protocol = CoreOf(e.protocol)
          /\ r.acceptance.protocol = CoreOf(e.protocol)
          /\ VerifyRegistration(r.delegation, r.acceptance, {p.audience}, now)
          /\ p.delegation = Digest(r.delegation)
          /\ r.delegation.payload.agentID = p.agentID
          /\ r.delegation.payload.agentKey = p.agentKey

VerifyRequest(e, registration, now) ==
    LET p == e.payload IN
    /\ DecodesERC(e, "request")
    /\ ValidRequest(e.protocol, p, now)
    /\ \A r \in registration :
          /\ r.delegation.protocol = CoreOf(e.protocol)
          /\ r.acceptance.protocol = CoreOf(e.protocol)
          /\ VerifyRegistration(r.delegation, r.acceptance, {p.audience}, now)
          /\ p.delegation = Digest(r.delegation)
          /\ r.delegation.payload.issuerKey = p.issuerKey
          /\ r.delegation.payload.agentID = p.agentID
          /\ r.delegation.payload.agentKey = p.agentKey

Registered(d, a) == {[delegation |-> d, acceptance |-> a]}

ValidSnapshot(p) ==
    /\ Interval(p.issuedAt, p.expiresAt)
    /\ p.expiresAt - p.issuedAt <= BindingLife
    /\ p.block <= p.issuedAt + Skew
    /\ p.issuedAt - p.block <= BlockAge

\* Mutant: the snapshot's expiry is not compared with the delegation's.
VerifyBindingAnyExpiry(doc) ==
    LET p == doc.binding.payload IN
    /\ doc.protocol \in Profiles
    /\ doc.binding.protocol = doc.protocol
    /\ DecodesERC(doc.binding, "binding")
    /\ ValidSnapshot(p)
    /\ VerifyRequest(p.request, Registered(doc.delegation, doc.acceptance), p.issuedAt)
    /\ p.request.protocol = doc.protocol
    /\ p.request.payload.audience = p.issuer

VerifyBinding(doc) ==
    LET p == doc.binding.payload IN
    /\ doc.protocol \in Profiles
    /\ doc.binding.protocol = doc.protocol
    /\ DecodesERC(doc.binding, "binding")
    /\ ValidSnapshot(p)
    /\ VerifyRequest(p.request, Registered(doc.delegation, doc.acceptance), p.issuedAt)
    /\ p.request.protocol = doc.protocol
    /\ p.request.payload.audience = p.issuer
    /\ p.expiresAt <= doc.delegation.payload.expiresAt

FreshnessERC(p, now) ==
    IF now = ZeroTime THEN "not_checked"
    ELSE IF now < p.issuedAt THEN "not_yet_valid"
    ELSE IF now >= p.expiresAt THEN "expired" ELSE "within_validity"

(***************************************************************************)
(* Verification in JavaScript.                                             *)
(***************************************************************************)
RequestRuleJS(profile, p) ==
    /\ KeyNamed(p)
    /\ p.delegation # NoDigest
    /\ ValidIssuer(CoreOf(profile), p.audience)
    /\ p.expiresAt > p.issuedAt
    /\ p.expiresAt - p.issuedAt <= RequestLife

SnapshotRuleJS(profile, p) ==
    /\ ValidIssuer(CoreOf(profile), p.issuer)
    /\ p.expiresAt > p.issuedAt
    /\ p.expiresAt - p.issuedAt <= BindingLife
    /\ p.block <= p.issuedAt + Skew
    /\ p.issuedAt - p.block <= BlockAge

VerifyProfileEnvelopeJS(e, kind) ==
    /\ e.protocol \in Profiles
    /\ e.kind = kind
    /\ UsableKeyJS(CoreOf(e.protocol), e.publicKey)
    /\ e.signature = SignatureBy(e.publicKey, SigningInput(e.protocol, e.kind, e.payload))
    /\ e.payload.issuerKey = e.publicKey
    /\ e.payload.protocol = e.protocol
    /\ e.payload.kind = kind
    /\ \/ kind = "request" /\ RequestRuleJS(e.protocol, e.payload)
       \/ kind = "binding" /\ SnapshotRuleJS(e.protocol, e.payload)

\* Mutant: the request only has to be active now and then, not at the snapshot.
VerifyBindingJSAnyRequestTime(doc) ==
    LET p == doc.binding.payload
        r == p.request.payload
        d == doc.delegation.payload IN
    /\ doc.protocol \in Profiles
    /\ VerifyProfileEnvelopeJS(doc.binding, "binding")
    /\ doc.binding.protocol = doc.protocol
    /\ VerifyProfileEnvelopeJS(p.request, "request")
    /\ p.request.protocol = doc.protocol
    /\ doc.delegation.protocol = CoreOf(doc.protocol)
    /\ doc.acceptance.protocol = CoreOf(doc.protocol)
    /\ p.issuer = r.audience
    /\ RegistrationJS(doc.delegation, doc.acceptance, {p.issuer}, {p.issuedAt})
    /\ r.agentID = d.agentID
    /\ r.agentKey = d.agentKey
    /\ r.delegation = Digest(doc.delegation)
    /\ r.issuerKey = doc.delegation.publicKey
    /\ KeyNamed(r)
    /\ r.issuedAt <= p.issuedAt + Skew
    /\ p.expiresAt <= d.expiresAt

VerifyBindingJS(doc) ==
    LET p == doc.binding.payload
        r == p.request.payload
        d == doc.delegation.payload IN
    /\ doc.protocol \in Profiles
    /\ VerifyProfileEnvelopeJS(doc.binding, "binding")
    /\ doc.binding.protocol = doc.protocol
    /\ VerifyProfileEnvelopeJS(p.request, "request")
    /\ p.request.protocol = doc.protocol
    /\ doc.delegation.protocol = CoreOf(doc.protocol)
    /\ doc.acceptance.protocol = CoreOf(doc.protocol)
    /\ p.issuer = r.audience
    /\ RegistrationJS(doc.delegation, doc.acceptance, {p.issuer}, {p.issuedAt})
    /\ r.agentID = d.agentID
    /\ r.agentKey = d.agentKey
    /\ r.delegation = Digest(doc.delegation)
    /\ r.issuerKey = doc.delegation.publicKey
    /\ KeyNamed(r)
    /\ r.issuedAt <= p.issuedAt + Skew
    /\ r.expiresAt > p.issuedAt
    /\ p.expiresAt <= d.expiresAt

(***************************************************************************)
(* The API client (client/erc8004.go): what it sends and what it takes     *)
(* for an answer to it.                                                    *)
(***************************************************************************)
\* Mutant: an expired request is not sent (again).
SendableUnexpired(request, agentID, audience) ==
    /\ VerifyRequest(request, {}, ZeroTime)
    /\ clock < request.payload.expiresAt
    /\ request.payload.agentID = agentID
    /\ request.payload.audience = audience

\* At no time: the service may answer a retry of an expired request.
Sendable(request, agentID, audience) ==
    /\ VerifyRequest(request, {}, ZeroTime)
    /\ request.payload.agentID = agentID
    /\ request.payload.audience = audience

AcceptedAnswer(doc, agentID, request, ownerSignature, audience, pinned) ==
    /\ VerifyBinding(doc)
    /\ doc.binding.payload.issuer = audience
    /\ pinned # {} => doc.binding.payload.issuerKey \in pinned
    /\ doc.binding.payload.request.payload.agentID = agentID
    /\ doc.binding.payload.request = request
    /\ doc.binding.payload.ownerSignature = ownerSignature

(***************************************************************************)
(* Actions.                                                                *)
(***************************************************************************)
\* createERC8004Request, in both languages.
CreateERC8004Request(d, a, admin, audience, owner, now) ==
    \E profile \in ProfilesFor(d.protocol) :
        LET e == Seal(admin, profile, "request",
                      Request(profile, admin, d, audience, owner, now, now + RequestLife)) IN
        /\ now # ZeroTime
        /\ UsableKey(CoreOf(profile), admin)
        /\ a.protocol = CoreOf(profile)
        /\ VerifyRegistration(d, a, {audience}, now)
        /\ d.payload.issuerKey = admin
        /\ ValidRequest(profile, e.payload, now)
        /\ Room(1)
        /\ envelopes' = envelopes \cup {e}
        /\ asked' = asked \cup
             {[request |-> e, delegation |-> d, acceptance |-> a, at |-> now]}
        /\ UNCHANGED <<clock, sources, grants, bundles, consents, documents>>

\* erc8004OwnerMessage and the wallet's personal_sign.
OwnerConsents(wallet, request) ==
    /\ VerifyRequest(request, {}, ZeroTime)
    /\ consents' = consents \cup
         {[request |-> request, signature |-> SignatureBy(wallet, OwnerMessage(request))]}
    /\ UNCHANGED <<vars, asked, documents>>

\* What the service has to check before it calls IssueERC8004Binding.
OwnerSigned(request, ownerSignature) ==
    ownerSignature = SignatureBy(request.payload.owner, OwnerMessage(request))

\* Mutant: a full hour, whenever the delegation ends.
SnapshotEndUncapped(d, now) == now + BindingLife

SnapshotEnd(d, now) ==
    IF d.payload.expiresAt < now + BindingLife THEN d.payload.expiresAt
    ELSE now + BindingLife

IssueERC8004Binding(d, a, request, ownerSignature, block, key, issuer, now) ==
    LET core == CoreOf(request.protocol)
        p    == Snapshot(request.protocol, key, issuer, request, ownerSignature,
                         block, now, SnapshotEnd(d, now))
        e    == Seal(key, request.protocol, "binding", p) IN
    /\ now # ZeroTime
    /\ VerifyRequest(request, Registered(d, a), now)
    /\ ValidIssuer(core, issuer)
    /\ UsableKey(core, key)
    /\ request.payload.audience = issuer
    /\ ValidSnapshot(p)
    /\ Room(1)
    /\ envelopes' = envelopes \cup {e}
    /\ documents' = documents \cup {Document(request.protocol, e, d, a)}
    /\ UNCHANGED <<clock, sources, grants, bundles, consents, asked>>

\* What other software may sign under this profile's labels.
OtherBindingPayloads(profile, key) ==
    {Request(profile, key, d, audience, owner, at, end) :
        d \in Of("delegation"), audience \in Issuers, owner \in Wallets,
        at \in SignTimes, end \in SignTimes}
    \cup {Snapshot(profile, key, issuer, request, c.signature, block, at, end) :
        issuer \in Issuers, request \in Of("request"), c \in consents,
        block \in BlockTimes, at \in SignTimes, end \in SignTimes}

SignERC(key, profile, p) ==
    /\ UsableKey(CoreOf(profile), key)
    /\ Room(1)
    /\ envelopes' = envelopes \cup {Seal(key, profile, p.kind, p)}
    /\ UNCHANGED <<clock, sources, grants, bundles, bindingVars>>

InitERC == Init /\ consents = {} /\ asked = {} /\ documents = {}

NextERC ==
    \/ Next /\ UNCHANGED bindingVars
    \/ \E d \in Of("delegation"), a \in Of("acceptance"), now \in Readings :
        \/ \E admin \in Admins, audience \in Issuers, owner \in Wallets :
              CreateERC8004Request(d, a, admin, audience, owner, now)
        \/ \E request \in Of("request"), c \in consents, block \in BlockTimes,
              key \in Signers, issuer \in Issuers :
              /\ OwnerSigned(request, c.signature)
              /\ IssueERC8004Binding(d, a, request, c.signature, block, key, issuer, now)
    \/ \E wallet \in Wallets, request \in Of("request") : OwnerConsents(wallet, request)
    \/ \E profile \in Profiles, key \in Keys :
          \E p \in OtherBindingPayloads(profile, key) : SignERC(key, profile, p)

SpecERC == InitERC /\ [][NextERC]_varsERC

-----------------------------------------------------------------------------

\* Every document a holder can put together.
AllDocuments ==
    {Document(b.protocol, b, d, a) :
        b \in Of("binding"), d \in Of("delegation"), a \in Of("acceptance")}

AcceptedDocuments == {doc \in AllDocuments : VerifyBinding(doc)}

\* IssueERC8004Binding checks the request at its own clock and the verifier at
\* the snapshot's date: what is issued verifies, in both languages, and stays
\* in the delegation's and the profile's hour.
IssuedBindingsVerify ==
    \A doc \in documents :
        /\ VerifyBinding(doc) /\ VerifyBindingJS(doc)
        /\ doc.binding.payload.expiresAt <= doc.binding.payload.issuedAt + BindingLife

\* A client that lost the answer may ask again at any later time, the request
\* long expired: it sends the same request, and takes the snapshot made for it.
RetriesAccepted ==
    \A doc \in documents :
        LET p == doc.binding.payload
            r == p.request.payload IN
        /\ Sendable(p.request, r.agentID, p.issuer)
        /\ AcceptedAnswer(doc, r.agentID, p.request, p.ownerSignature, p.issuer,
                          {p.issuerKey})

\* A request the administrator signed is refused by an issuer whose clock is
\* behind by no more than the skew only when it has expired or the delegation
\* is not active by the issuer's clock.
RequestsIssuable ==
    \A q \in asked :
        \A now \in {t \in Horizon : q.at <= t + Skew /\ t < q.at + RequestLife} :
            ActiveAt(q.delegation, q.acceptance, now)
                => VerifyRequest(q.request, Registered(q.delegation, q.acceptance), now)

\* A document said to be within its validity is never shown outside the
\* interval of the delegation it comes with, whoever signed the snapshot, and
\* its request was made and had not expired when the snapshot was.
BindingInsideDelegation ==
    \A doc \in AcceptedDocuments :
        LET p == doc.binding.payload
            d == doc.delegation.payload IN
        /\ \A now \in {t \in Horizon : FreshnessERC(p, t) = "within_validity"} :
              d.notBefore <= now /\ now < d.expiresAt
        /\ p.request.payload.issuedAt <= p.issuedAt + Skew
        /\ p.issuedAt < p.request.payload.expiresAt

\* The Go and the JavaScript verifier accept the same documents.
SameBindingVerdict ==
    \A doc \in AllDocuments : VerifyBinding(doc) = VerifyBindingJS(doc)

\* Three parties agreed to what a service's accepted document says: the
\* administrator of this very delegation asked for it, the delegated agent had
\* accepted the delegation, and the owner the request names consented to this
\* request and no other.  The delegation cannot be exchanged afterwards.
ConsentChain ==
    \A doc \in AcceptedDocuments :
        LET request == doc.binding.payload.request IN
        /\ request.signature.by = doc.delegation.payload.issuerKey
        /\ doc.delegation.signature.by = doc.delegation.payload.issuerKey
        /\ doc.acceptance.signature.by = request.payload.agentKey
        /\ \A issued \in {x \in documents : x.binding = doc.binding} :
              /\ doc.delegation = issued.delegation
              /\ \E c \in consents :
                    /\ c.request = request
                    /\ c.signature = doc.binding.payload.ownerSignature
                    /\ c.signature.by = request.payload.owner
=============================================================================
