---------------------------- MODULE ERC8004Proofs ----------------------------
(***************************************************************************)
(* Theorems about the ERC-8004 binding, for any keys, owners, lifetimes    *)
(* and skew.  The two verifiers agree on every document, and a document    *)
(* lies inside its delegation: the invariant this needs is about times     *)
(* only, every envelope's are numbers, zero only where other software      *)
(* signed it.  What the service issues verifies, answers retries and was   *)
(* consented to: the invariant for this, Records, says what is known of    *)
(* every request, consent and document on record.                          *)
(***************************************************************************)
EXTENDS ERC8004, OriginProofs

TimedERC ==
    /\ clock \in Nat
    /\ Timed
    /\ \A e \in Of("binding") : e.payload.expiresAt \in Nat

-----------------------------------------------------------------------------
(* The invariant.                                                          *)

\* The core's creators make no snapshots.
LEMMA CoreKinds ==
    ASSUME [Next]_vars
    PROVE  Of("binding")' \subseteq Of("binding")
  <1>1. ASSUME NEW k, NEW v, NEW kind, NEW p, kind # "binding",
               envelopes' = envelopes \cup {Seal(k, v, kind, p)}
        PROVE  Of("binding")' \subseteq Of("binding")
    BY <1>1, SealFields DEF Of
  <1>2. CASE Tick \/ UNCHANGED vars
    BY <1>2 DEF Tick, vars, Of
  <1>3. ASSUME NEW protocol, NEW admin, NEW agent, NEW audience, NEW id,
               NEW validFor, NEW carry, NEW now,
               CreateRegistration(protocol, admin, agent, audience, id, validFor, carry, now)
        PROVE  Of("binding")' \subseteq Of("binding")
    BY <1>3, SealFields DEF CreateRegistration, Of
  <1>4. ASSUME NEW protocol, NEW agent, NEW d, NEW a, NEW artifact, NEW now,
               CreateStatement(protocol, agent, d, a, artifact, now)
        PROVE  Of("binding")' \subseteq Of("binding")
    BY <1>1, <1>4 DEF CreateStatement
  <1>5. ASSUME NEW protocol, NEW agent, NEW id, NEW artifact, NEW now,
               CreateProducerStatement(protocol, agent, id, artifact, now)
        PROVE  Of("binding")' \subseteq Of("binding")
    BY <1>1, <1>5 DEF CreateProducerStatement
  <1>6. ASSUME NEW protocol, NEW s, NEW d, NEW a, NEW admin, NEW audience,
               NEW visibility, NEW now,
               CreateGrant(protocol, s, d, a, admin, audience, visibility, now)
        PROVE  Of("binding")' \subseteq Of("binding")
    BY <1>1, <1>6 DEF CreateGrant
  <1>7. ASSUME NEW b, NEW key, NEW issuer, NEW now, Issue(b, key, issuer, now)
        PROVE  Of("binding")' \subseteq Of("binding")
    BY <1>1, <1>7 DEF Issue
  <1>8. ASSUME NEW protocol, NEW key, NEW p \in OtherPayloads(protocol, key),
               SignFor(key, protocol, p.kind, p)
        PROVE  Of("binding")' \subseteq Of("binding")
    <2>1. p.kind # "binding"
      BY DEF OtherPayloads, Delegation, Acceptance, Statement, Certificate
    <2>2. QED
      BY <1>1, <1>8, <2>1 DEF SignFor
  <1>9. QED
    BY <1>2, <1>3, <1>4, <1>5, <1>6, <1>7, <1>8 DEF Next

\* An envelope of this profile with times in Nat can be added without harm.
LEMMA TimedAddERC ==
    ASSUME TimedERC, UNCHANGED clock, NEW k, NEW v, NEW kind \in {"request", "binding"},
           NEW p, p.issuedAt \in Stamps, kind = "binding" => p.expiresAt \in Nat,
           envelopes' = envelopes \cup {Seal(k, v, kind, p)}
    PROVE  TimedERC'
  <1>1. Timed'
    BY TimedAdd DEF TimedERC
  <1>2. \A e \in Of("binding")' : e.payload.expiresAt \in Nat
    BY SealFields DEF TimedERC, Of
  <1>3. QED
    BY <1>1, <1>2 DEF TimedERC

LEMMA OtherBindingTimes ==
    ASSUME NEW profile, NEW key, NEW p \in OtherBindingPayloads(profile, key)
    PROVE  /\ p.issuedAt \in Stamps
           /\ p.kind \in {"request", "binding"}
           /\ p.kind = "binding" => p.expiresAt \in Nat
  <1>1. SignTimes \subseteq Nat /\ SignTimes \subseteq Stamps
    BY ProtocolAssumption DEF Stamps
  <1>2. /\ p.issuedAt \in SignTimes
        /\ p.kind \in {"request", "binding"}
        /\ p.expiresAt \in SignTimes
    BY DEF OtherBindingPayloads, Request, Snapshot
  <1>3. QED
    BY <1>1, <1>2

LEMMA TimedStepERC == TimedERC /\ [NextERC]_varsERC => TimedERC'
  <1> SUFFICES ASSUME TimedERC, [NextERC]_varsERC PROVE TimedERC'
    OBVIOUS
  <1>1. CASE [Next]_vars
    <2>1. clock' \in Nat /\ Timed'
      BY <1>1, ClockStep, TimedStep DEF TimedERC
    <2>2. QED
      BY <1>1, <2>1, CoreKinds DEF TimedERC
  <1>2. ASSUME NEW d, NEW a, NEW admin, NEW audience, NEW owner, NEW now \in Readings,
               CreateERC8004Request(d, a, admin, audience, owner, now)
        PROVE  TimedERC'
    <2>1. PICK profile \in ProfilesFor(d.protocol) :
             envelopes' = envelopes \cup
                 {Seal(admin, profile, "request",
                       Request(profile, admin, d, audience, owner, now, now + RequestLife))}
      BY <1>2 DEF CreateERC8004Request
    <2>2. UNCHANGED clock
      BY <1>2 DEF CreateERC8004Request
    <2>3. Request(profile, admin, d, audience, owner, now, now + RequestLife).issuedAt \in Stamps
      BY ReadingsAreTimes DEF Request, TimedERC
    <2>4. QED
      BY <2>1, <2>2, <2>3, TimedAddERC
  <1>3. ASSUME NEW d \in Of("delegation"), NEW a, NEW request, NEW signature,
               NEW block, NEW key, NEW issuer, NEW now \in Readings,
               IssueERC8004Binding(d, a, request, signature, block, key, issuer, now)
        PROVE  TimedERC'
    <2> DEFINE p == Snapshot(request.protocol, key, issuer, request, signature,
                             block, now, SnapshotEnd(d, now))
    <2>1. /\ envelopes' = envelopes \cup {Seal(key, request.protocol, "binding", p)}
          /\ UNCHANGED clock
      BY <1>3 DEF IssueERC8004Binding
    <2>2. now \in Nat /\ now \in Stamps /\ d.payload.expiresAt \in Nat
      BY ReadingsAreTimes DEF TimedERC, Timed, Of
    <2>3. SnapshotEnd(d, now) \in Nat
      BY <2>2, BindingAssumption DEF SnapshotEnd
    <2>4. p.issuedAt \in Stamps /\ p.expiresAt \in Nat
      BY <2>2, <2>3 DEF Snapshot
    <2> HIDE DEF p
    <2>5. QED
      BY <2>1, <2>4, TimedAddERC
  <1>4. ASSUME NEW wallet, NEW request, OwnerConsents(wallet, request)
        PROVE  [Next]_vars
    BY <1>4 DEF OwnerConsents
  <1>5. ASSUME NEW key, NEW profile, NEW p \in OtherBindingPayloads(profile, key),
               SignERC(key, profile, p)
        PROVE  TimedERC'
    BY <1>5, OtherBindingTimes, TimedAddERC DEF SignERC
  <1>6. UNCHANGED varsERC => [Next]_vars
    BY DEF varsERC
  <1>7. QED
    BY <1>1, <1>2, <1>3, <1>4, <1>5, <1>6 DEF NextERC

LEMMA TimedERCAlways == SpecERC => []TimedERC
  <1>1. InitERC => TimedERC
    BY DEF InitERC, Init, TimedERC, Timed, Of
  <1>2. QED
    BY <1>1, TimedStepERC, PTL DEF SpecERC

-----------------------------------------------------------------------------
(* Documents.                                                              *)

LEMMA DocumentParts ==
    ASSUME TimedERC, NEW doc \in AllDocuments
    PROVE  /\ doc.binding.payload.issuedAt \in Stamps
           /\ doc.binding.payload.expiresAt \in Nat
           /\ doc.delegation.payload.notBefore \in Nat
           /\ doc.delegation.payload.expiresAt \in Nat
  <1>1. /\ doc.binding \in Of("binding")
        /\ doc.delegation \in Of("delegation")
    BY DEF AllDocuments, Document
  <1>2. QED
    BY <1>1 DEF TimedERC, Timed, Of

LEMMA CoreOfKnown ==
    ASSUME NEW profile \in Profiles
    PROVE  CoreOf(profile) \in KnownProtocols
  BY DEF Profiles, CoreOf, KnownProtocols

\* Request and snapshot, JavaScript's checks against Go's.  A request is
\* always checked at the snapshot's date, which is a time.
LEMMA SameRequest ==
    ASSUME NEW e, NEW now, now # ZeroTime
    PROVE  DecodesERC(e, "request") /\ ValidRequest(e.protocol, e.payload, now)
             <=> /\ VerifyProfileEnvelopeJS(e, "request")
                 /\ e.payload.issuedAt <= now + Skew
                 /\ now < e.payload.expiresAt
  <1>1. ASSUME e.protocol \in Profiles
        PROVE  UsableKey(CoreOf(e.protocol), e.publicKey)
                 <=> UsableKeyJS(CoreOf(e.protocol), e.publicKey)
    BY <1>1, CoreOfKnown, SameUsable
  <1>2. SelfIssued(e.payload) <=> KeyNamed(e.payload)
    BY DEF SelfIssued, KeyNamed
  <1>3. ASSUME KeyNamed(e.payload), e.payload.issuerKey \in Keys
        PROVE  ValidIssuer(CoreOf(e.protocol), e.payload.issuer)
    BY <1>3 DEF KeyNamed, ValidIssuer
  <1>4. UsableKey(CoreOf(e.protocol), e.publicKey) => e.publicKey \in Keys
    BY DEF UsableKey
  <1>5. QED
    BY <1>1, <1>2, <1>3, <1>4
       DEF DecodesERC, ValidRequest, VerifyProfileEnvelopeJS, RequestRuleJS, Interval

LEMMA SameSnapshot ==
    ASSUME NEW e
    PROVE  DecodesERC(e, "binding") /\ ValidSnapshot(e.payload)
             <=> VerifyProfileEnvelopeJS(e, "binding")
  <1>1. ASSUME e.protocol \in Profiles
        PROVE  UsableKey(CoreOf(e.protocol), e.publicKey)
                 <=> UsableKeyJS(CoreOf(e.protocol), e.publicKey)
    BY <1>1, CoreOfKnown, SameUsable
  <1>2. QED
    BY <1>1 DEF DecodesERC, ValidSnapshot, VerifyProfileEnvelopeJS, SnapshotRuleJS, Interval

LEMMA SameDocument ==
    ASSUME NEW doc, doc.binding.payload.issuedAt # ZeroTime
    PROVE  VerifyBinding(doc) <=> VerifyBindingJS(doc)
  <1> DEFINE p == doc.binding.payload
             d == doc.delegation
             a == doc.acceptance
             r == p.request
  <1>1. DecodesERC(doc.binding, "binding") /\ ValidSnapshot(p)
          <=> VerifyProfileEnvelopeJS(doc.binding, "binding")
    BY SameSnapshot
  <1>2. DecodesERC(r, "request") /\ ValidRequest(r.protocol, r.payload, p.issuedAt)
          <=> /\ VerifyProfileEnvelopeJS(r, "request")
              /\ r.payload.issuedAt <= p.issuedAt + Skew
              /\ p.issuedAt < r.payload.expiresAt
    BY SameRequest
  <1>3. \A name : VerifyRegistration(d, a, {name}, p.issuedAt)
                    <=> RegistrationJS(d, a, {name}, {p.issuedAt})
    BY SameRegistration
  <1>4. \A name, at : RegistrationJS(d, a, {name}, {at})
                        => d.publicKey = d.payload.issuerKey
    BY DEF RegistrationJS, VerifyEnvelopeJS
  <1>5. VerifyProfileEnvelopeJS(r, "request") => KeyNamed(r.payload)
    BY DEF VerifyProfileEnvelopeJS, RequestRuleJS
  <1>6. VerifyBinding(doc) <=>
          /\ doc.protocol \in Profiles
          /\ doc.binding.protocol = doc.protocol
          /\ DecodesERC(doc.binding, "binding") /\ ValidSnapshot(p)
          /\ DecodesERC(r, "request") /\ ValidRequest(r.protocol, r.payload, p.issuedAt)
          /\ d.protocol = CoreOf(r.protocol)
          /\ a.protocol = CoreOf(r.protocol)
          /\ VerifyRegistration(d, a, {r.payload.audience}, p.issuedAt)
          /\ r.payload.delegation = Digest(d)
          /\ d.payload.issuerKey = r.payload.issuerKey
          /\ d.payload.agentID = r.payload.agentID
          /\ d.payload.agentKey = r.payload.agentKey
          /\ r.protocol = doc.protocol
          /\ r.payload.audience = p.issuer
          /\ p.expiresAt <= d.payload.expiresAt
    BY DEF VerifyBinding, VerifyRequest, Registered
  <1>7. VerifyBindingJS(doc) <=>
          /\ doc.protocol \in Profiles
          /\ VerifyProfileEnvelopeJS(doc.binding, "binding")
          /\ doc.binding.protocol = doc.protocol
          /\ VerifyProfileEnvelopeJS(r, "request")
          /\ r.protocol = doc.protocol
          /\ d.protocol = CoreOf(doc.protocol)
          /\ a.protocol = CoreOf(doc.protocol)
          /\ p.issuer = r.payload.audience
          /\ RegistrationJS(d, a, {p.issuer}, {p.issuedAt})
          /\ r.payload.agentID = d.payload.agentID
          /\ r.payload.agentKey = d.payload.agentKey
          /\ r.payload.delegation = Digest(d)
          /\ r.payload.issuerKey = d.publicKey
          /\ KeyNamed(r.payload)
          /\ r.payload.issuedAt <= p.issuedAt + Skew
          /\ p.issuedAt < r.payload.expiresAt
          /\ p.expiresAt <= d.payload.expiresAt
    BY DEF VerifyBindingJS
  <1> HIDE DEF p, d, a, r
  <1>8. QED
    BY <1>1, <1>2, <1>3, <1>4, <1>5, <1>6, <1>7

\* Go and JavaScript accept the same binding documents, if nobody dates a
\* payload with the zero time.
THEOREM OneBindingVerdict ==
    ASSUME ZeroTime \notin SignTimes
    PROVE  SpecERC => []SameBindingVerdict
  <1>1. TimedERC => SameBindingVerdict
    <2> SUFFICES ASSUME TimedERC, NEW doc \in AllDocuments
                 PROVE  VerifyBinding(doc) = VerifyBindingJS(doc)
      BY DEF SameBindingVerdict
    <2>1. doc.binding.payload.issuedAt # ZeroTime
      BY DocumentParts DEF Stamps
    <2>2. VerifyBinding(doc) <=> VerifyBindingJS(doc)
      BY <2>1, SameDocument
    <2>3. VerifyBinding(doc) \in BOOLEAN /\ VerifyBindingJS(doc) \in BOOLEAN
      BY DEF VerifyBinding, VerifyBindingJS
    <2>4. QED
      BY <2>2, <2>3
  <1>2. QED
    BY <1>1, TimedERCAlways, PTL

\* A document within its validity lies inside the delegation it comes with,
\* and its snapshot was taken while the request was alive.
THEOREM BindingInside ==
    ASSUME ZeroTime \notin SignTimes
    PROVE  SpecERC => []BindingInsideDelegation
  <1>1. TimedERC => BindingInsideDelegation
    <2> SUFFICES ASSUME TimedERC, NEW doc \in AllDocuments, VerifyBinding(doc)
                 PROVE  LET p == doc.binding.payload
                            d == doc.delegation.payload IN
                        /\ \A now \in {t \in Horizon : FreshnessERC(p, t) = "within_validity"} :
                              d.notBefore <= now /\ now < d.expiresAt
                        /\ p.request.payload.issuedAt <= p.issuedAt + Skew
                        /\ p.issuedAt < p.request.payload.expiresAt
      BY DEF BindingInsideDelegation, AcceptedDocuments
    <2> DEFINE p == doc.binding.payload
               d == doc.delegation.payload
    <2>1. /\ p.issuedAt \in Nat \ {ZeroTime}
          /\ p.expiresAt \in Nat
          /\ d.notBefore \in Nat
          /\ d.expiresAt \in Nat
      BY DocumentParts, ProtocolAssumption DEF Stamps
    <2>2. /\ ValidRequest(p.request.protocol, p.request.payload, p.issuedAt)
          /\ VerifyRegistration(doc.delegation, doc.acceptance,
                                {p.request.payload.audience}, p.issuedAt)
          /\ p.expiresAt <= d.expiresAt
      BY DEF VerifyBinding, VerifyRequest, Registered
    <2>3. d.notBefore <= p.issuedAt
      BY <2>1, <2>2 DEF VerifyRegistration, ActiveAt
    <2>4. /\ p.request.payload.issuedAt <= p.issuedAt + Skew
          /\ p.issuedAt < p.request.payload.expiresAt
      BY <2>1, <2>2 DEF ValidRequest
    <2>5. ASSUME NEW now \in Horizon, FreshnessERC(p, now) = "within_validity"
          PROVE  d.notBefore <= now /\ now < d.expiresAt
      <3> HIDE DEF p, d
      <3>1. now \in Nat
        BY HorizonTimes
      <3>2. ~(now < p.issuedAt) /\ ~(now >= p.expiresAt)
        BY <2>5 DEF FreshnessERC
      <3>3. QED
        BY <2>1, <2>2, <2>3, <3>1, <3>2
    <2>6. QED
      BY <2>4, <2>5
  <1>2. QED
    BY <1>1, TimedERCAlways, PTL

-----------------------------------------------------------------------------
(* The service and its clients.  What has been recorded of every request,  *)
(* consent and document is enough for the properties; the records are only *)
(* ever added to.                                                          *)

\* The end of a snapshot is the earlier of an hour and the delegation's.
LEMMA SnapshotEnds ==
    ASSUME NEW d, d.payload.expiresAt \in Nat, NEW now \in Nat
    PROVE  /\ SnapshotEnd(d, now) <= now + BindingLife
           /\ SnapshotEnd(d, now) <= d.payload.expiresAt
  BY BindingAssumption DEF SnapshotEnd

\* What IssueERC8004Binding signs and returns.
LEMMA IssuedDocument ==
    ASSUME NEW d, NEW a, NEW request, NEW signature, NEW block, NEW key, NEW issuer, NEW now,
           IssueERC8004Binding(d, a, request, signature, block, key, issuer, now)
    PROVE  \E doc, p :
             /\ documents' = documents \cup {doc}
             /\ p = Snapshot(request.protocol, key, issuer, request, signature,
                             block, now, SnapshotEnd(d, now))
             /\ doc.binding = Seal(key, request.protocol, "binding", p)
             /\ doc.protocol = request.protocol /\ doc.delegation = d /\ doc.acceptance = a
             /\ p.issuedAt = now /\ p.expiresAt = SnapshotEnd(d, now)
             /\ p.issuerKey = key /\ p.issuer = issuer
             /\ p.protocol = request.protocol /\ p.kind = "binding"
             /\ p.request = request /\ p.ownerSignature = signature
             /\ ValidSnapshot(p)
  <1> DEFINE p == Snapshot(request.protocol, key, issuer, request, signature,
                           block, now, SnapshotEnd(d, now))
             e == Seal(key, request.protocol, "binding", p)
             doc == Document(request.protocol, e, d, a)
  <1>1. documents' = documents \cup {doc} /\ ValidSnapshot(p)
    BY DEF IssueERC8004Binding
  <1>2. /\ p.issuedAt = now /\ p.expiresAt = SnapshotEnd(d, now)
        /\ p.issuerKey = key /\ p.issuer = issuer
        /\ p.protocol = request.protocol /\ p.kind = "binding"
        /\ p.request = request /\ p.ownerSignature = signature
    BY DEF Snapshot
  <1>3. /\ doc.binding = e /\ doc.protocol = request.protocol
        /\ doc.delegation = d /\ doc.acceptance = a
    BY DEF Document
  <1>4. p = Snapshot(request.protocol, key, issuer, request, signature,
                     block, now, SnapshotEnd(d, now))
    OBVIOUS
  <1>5. e = Seal(key, request.protocol, "binding", p)
    OBVIOUS
  <1> HIDE DEF p, e, doc
  <1>6. QED
    BY <1>1, <1>2, <1>3, <1>4, <1>5

\* A document of the service verifies in both languages, within the hour.
Verified(doc) ==
    /\ VerifyBinding(doc) /\ VerifyBindingJS(doc)
    /\ doc.binding.payload.expiresAt <= doc.binding.payload.issuedAt + BindingLife

\* The owner named in its request signed the text for this very request.
Consented(doc) ==
    LET p == doc.binding.payload IN
    \E c \in consents :
        /\ c.request = p.request
        /\ c.signature = p.ownerSignature
        /\ c.signature.by = p.request.payload.owner

\* Every consent is a wallet's signature over the text of its request.
Texts ==
    \A c \in consents : \E wallet \in Wallets :
        c.signature = SignatureBy(wallet, OwnerMessage(c.request))

\* The text ends in the digest of the request, so it fits no other request.
LEMMA TextNamesRequest ==
    ASSUME Texts, NEW c \in consents, NEW request, OwnerSigned(request, c.signature)
    PROVE  c.request = request /\ c.signature.by = request.payload.owner
  <1>1. PICK wallet \in Wallets : c.signature = SignatureBy(wallet, OwnerMessage(c.request))
    BY DEF Texts
  <1>2. c.signature = SignatureBy(request.payload.owner, OwnerMessage(request))
    BY DEF OwnerSigned
  <1>3. /\ OwnerMessage(c.request) = OwnerMessage(request)
        /\ c.signature.by = request.payload.owner
    BY <1>1, <1>2 DEF SignatureBy
  <1>4. {c.request} = {request}
    BY <1>3 DEF OwnerMessage, Digest
  <1>5. QED
    BY <1>3, <1>4

LEMMA IssueIsGood ==
    ASSUME TimedERC, Texts, NEW d \in Of("delegation"), NEW a, NEW request,
           NEW c \in consents, NEW block, NEW key, NEW issuer, NEW now \in Readings,
           OwnerSigned(request, c.signature),
           IssueERC8004Binding(d, a, request, c.signature, block, key, issuer, now)
    PROVE  \E doc : documents' = documents \cup {doc} /\ Verified(doc) /\ Consented(doc)
  <1>1. PICK doc, p :
             /\ documents' = documents \cup {doc}
             /\ doc.binding = Seal(key, request.protocol, "binding", p)
             /\ doc.protocol = request.protocol /\ doc.delegation = d /\ doc.acceptance = a
             /\ p.issuedAt = now /\ p.expiresAt = SnapshotEnd(d, now)
             /\ p.issuerKey = key /\ p.issuer = issuer
             /\ p.protocol = request.protocol /\ p.kind = "binding"
             /\ p.request = request /\ p.ownerSignature = c.signature
             /\ ValidSnapshot(p)
    BY IssuedDocument
  <1>2. /\ doc.binding.payload = p
        /\ doc.binding.protocol = request.protocol
        /\ doc.binding.kind = "binding"
        /\ doc.binding.publicKey = key
        /\ doc.binding.signature = SignatureBy(key, SigningInput(request.protocol, "binding", p))
    BY <1>1, SealFields
  <1>3. now \in Nat /\ now # ZeroTime /\ d.payload.expiresAt \in Nat
    BY ReadingsAreTimes DEF TimedERC, Timed, Of
  <1>4. /\ VerifyRequest(request, Registered(d, a), now)
        /\ ValidIssuer(CoreOf(request.protocol), issuer)
        /\ UsableKey(CoreOf(request.protocol), key)
        /\ request.payload.audience = issuer
    BY DEF IssueERC8004Binding
  <1>5. request.protocol \in Profiles
    BY <1>4 DEF VerifyRequest, DecodesERC
  <1>6. DecodesERC(doc.binding, "binding")
    BY <1>1, <1>2, <1>4, <1>5 DEF DecodesERC
  <1>7. p.expiresAt <= now + BindingLife /\ p.expiresAt <= d.payload.expiresAt
    BY <1>1, <1>3, SnapshotEnds
  <1>8. VerifyBinding(doc)
    BY <1>1, <1>2, <1>4, <1>5, <1>6, <1>7 DEF VerifyBinding
  <1>9. Verified(doc)
    BY <1>1, <1>2, <1>3, <1>7, <1>8, SameDocument DEF Verified
  <1>10. Consented(doc)
    BY <1>1, <1>2, TextNamesRequest DEF Consented
  <1>11. QED
    BY <1>1, <1>9, <1>10

\* What CreateERC8004Request recorded.
Requested(q) ==
    LET e == q.request
        p == e.payload IN
    /\ q.at \in Nat
    /\ DecodesERC(e, "request") /\ SelfIssued(p)
    /\ p.protocol = e.protocol /\ p.kind = "request"
    /\ ValidIssuer(CoreOf(e.protocol), p.audience)
    /\ p.issuedAt = q.at /\ p.expiresAt = q.at + RequestLife
    /\ p.delegation = Digest(q.delegation)
    /\ q.delegation.protocol = CoreOf(e.protocol)
    /\ q.acceptance.protocol = CoreOf(e.protocol)
    /\ VerifyRegistration(q.delegation, q.acceptance, {}, ZeroTime)
    /\ q.delegation.payload.audience = p.audience
    /\ q.delegation.payload.issuerKey = p.issuerKey
    /\ q.delegation.payload.agentID = p.agentID
    /\ q.delegation.payload.agentKey = p.agentKey

LEMMA RequestIsGood ==
    ASSUME clock \in Nat, NEW d, NEW a, NEW admin, NEW audience, NEW owner,
           NEW now \in Readings,
           CreateERC8004Request(d, a, admin, audience, owner, now)
    PROVE  \E q : asked' = asked \cup {q} /\ Requested(q)
  <1>1. PICK profile \in ProfilesFor(d.protocol) :
          LET e == Seal(admin, profile, "request",
                        Request(profile, admin, d, audience, owner, now, now + RequestLife)) IN
          /\ UsableKey(CoreOf(profile), admin)
          /\ a.protocol = CoreOf(profile)
          /\ VerifyRegistration(d, a, {audience}, now)
          /\ d.payload.issuerKey = admin
          /\ ValidRequest(profile, e.payload, now)
          /\ asked' = asked \cup
               {[request |-> e, delegation |-> d, acceptance |-> a, at |-> now]}
    BY DEF CreateERC8004Request
  <1> DEFINE p == Request(profile, admin, d, audience, owner, now, now + RequestLife)
             e == Seal(admin, profile, "request", p)
             q == [request |-> e, delegation |-> d, acceptance |-> a, at |-> now]
  <1>2. /\ p.protocol = profile /\ p.kind = "request"
        /\ p.issuer = KeyIdentity(admin) /\ p.issuerKey = admin /\ p.issuedAt = now
        /\ p.agentID = d.payload.agentID /\ p.agentKey = d.payload.agentKey
        /\ p.delegation = Digest(d) /\ p.audience = audience
        /\ p.expiresAt = now + RequestLife
    BY DEF Request
  <1>3. /\ e.payload = p /\ e.protocol = profile /\ e.kind = "request" /\ e.publicKey = admin
        /\ e.signature = SignatureBy(admin, SigningInput(profile, "request", p))
    BY SealFields
  <1>4. q.request = e /\ q.delegation = d /\ q.acceptance = a /\ q.at = now
    OBVIOUS
  <1>5. asked' = asked \cup {q} /\ ValidRequest(profile, e.payload, now)
    BY <1>1
  <1> HIDE DEF p, e, q
  <1>6. now \in Nat
    BY ReadingsAreTimes
  <1>7. profile \in Profiles /\ CoreOf(profile) = d.protocol
    BY DEF ProfilesFor
  <1>8. ValidIssuer(CoreOf(profile), p.audience)
    BY <1>3, <1>5 DEF ValidRequest
  <1>9. ValidIssuer(CoreOf(profile), KeyIdentity(admin))
    BY <1>1 DEF ValidIssuer, UsableKey
  <1>10. DecodesERC(e, "request") /\ SelfIssued(p)
    BY <1>1, <1>2, <1>3, <1>7, <1>9 DEF DecodesERC, SelfIssued
  <1>11. /\ VerifyRegistration(d, a, {}, ZeroTime)
         /\ d.payload.audience = audience
    BY <1>1, RegistrationParts
  <1>12. Requested(q)
    BY <1>1, <1>2, <1>3, <1>4, <1>6, <1>7, <1>8, <1>10, <1>11 DEF Requested
  <1>13. QED
    BY <1>5, <1>12

\* The three records.
Records ==
    /\ Texts
    /\ \A q \in asked : Requested(q)
    /\ \A doc \in documents : Verified(doc) /\ Consented(doc)

LEMMA RecordsStep == TimedERC /\ Records /\ [NextERC]_varsERC => Records'
  <1> SUFFICES ASSUME TimedERC, Records, [NextERC]_varsERC PROVE Records'
    OBVIOUS
  <1>1. CASE UNCHANGED bindingVars
    BY <1>1 DEF bindingVars, Records, Texts, Consented
  <1>2. ASSUME NEW d, NEW a, NEW admin, NEW audience, NEW owner, NEW now \in Readings,
               CreateERC8004Request(d, a, admin, audience, owner, now)
        PROVE  Records'
    <2>1. UNCHANGED <<consents, documents>>
      BY <1>2 DEF CreateERC8004Request
    <2>2. PICK q : asked' = asked \cup {q} /\ Requested(q)
      BY <1>2, RequestIsGood DEF TimedERC
    <2>3. QED
      BY <2>1, <2>2 DEF Records, Texts, Consented
  <1>3. ASSUME NEW d \in Of("delegation"), NEW a, NEW request, NEW c \in consents,
               NEW block, NEW key, NEW issuer, NEW now \in Readings,
               OwnerSigned(request, c.signature),
               IssueERC8004Binding(d, a, request, c.signature, block, key, issuer, now)
        PROVE  Records'
    <2>1. UNCHANGED <<consents, asked>>
      BY <1>3 DEF IssueERC8004Binding
    <2>2. PICK doc : documents' = documents \cup {doc} /\ Verified(doc) /\ Consented(doc)
      BY <1>3, IssueIsGood DEF Records
    <2>3. QED
      BY <2>1, <2>2 DEF Records, Texts, Consented
  <1>4. ASSUME NEW wallet \in Wallets, NEW request, OwnerConsents(wallet, request)
        PROVE  Records'
    <2>1. PICK c : /\ consents' = consents \cup {c}
                   /\ c = [request |-> request,
                           signature |-> SignatureBy(wallet, OwnerMessage(request))]
      BY <1>4 DEF OwnerConsents
    <2>2. c.signature = SignatureBy(wallet, OwnerMessage(c.request))
      BY <2>1
    <2>3. UNCHANGED <<asked, documents>>
      BY <1>4 DEF OwnerConsents
    <2>4. QED
      BY <2>1, <2>2, <2>3 DEF Records, Texts, Consented
  <1>5. ASSUME NEW key, NEW profile, NEW p, SignERC(key, profile, p)
        PROVE  UNCHANGED bindingVars
    BY <1>5 DEF SignERC
  <1>6. UNCHANGED varsERC => UNCHANGED bindingVars
    BY DEF varsERC
  <1>7. QED
    BY <1>1, <1>2, <1>3, <1>4, <1>5, <1>6 DEF NextERC

LEMMA RecordsAlways == SpecERC => []Records
  <1>1. InitERC => Records
    BY DEF InitERC, Records, Texts
  <1>2. QED
    BY <1>1, RecordsStep, TimedERCAlways, PTL DEF SpecERC

\* What the service issues verifies, in both languages, however the clocks of
\* administrator, service and verifier differ (IssueERC8004Binding).
THEOREM ServiceDocumentsVerify == SpecERC => []IssuedBindingsVerify
  <1>1. Records => IssuedBindingsVerify
    BY DEF Records, Verified, IssuedBindingsVerify
  <1>2. QED
    BY <1>1, RecordsAlways, PTL

\* A request that has been verified at some time is still one that may be sent.
LEMMA VerifiedSendable ==
    ASSUME NEW request, NEW registration, NEW now, VerifyRequest(request, registration, now)
    PROVE  VerifyRequest(request, {}, ZeroTime)
  BY DEF VerifyRequest, ValidRequest

\* A client that lost the answer may retry at any later time and accepts the
\* snapshot that had been made for its request (client/erc8004.go).
THEOREM RetriesAnswered == SpecERC => []RetriesAccepted
  <1>1. Records => RetriesAccepted
    <2> SUFFICES ASSUME Records, NEW doc \in documents
                 PROVE  LET p == doc.binding.payload
                            r == p.request.payload IN
                        /\ Sendable(p.request, r.agentID, p.issuer)
                        /\ AcceptedAnswer(doc, r.agentID, p.request, p.ownerSignature,
                                          p.issuer, {p.issuerKey})
      BY DEF RetriesAccepted
    <2>1. VerifyBinding(doc)
      BY DEF Records, Verified
    <2>2. /\ VerifyRequest(doc.binding.payload.request,
                           Registered(doc.delegation, doc.acceptance),
                           doc.binding.payload.issuedAt)
          /\ doc.binding.payload.request.payload.audience = doc.binding.payload.issuer
      BY <2>1 DEF VerifyBinding
    <2>3. VerifyRequest(doc.binding.payload.request, {}, ZeroTime)
      BY <2>2, VerifiedSendable
    <2>4. QED
      BY <2>1, <2>2, <2>3 DEF Sendable, AcceptedAnswer
  <1>2. QED
    BY <1>1, RecordsAlways, PTL

\* An issuer whose clock lags the administrator's by no more than the skew can
\* refuse a request only because it has expired or the delegation is inactive.
THEOREM RequestsAnswered == SpecERC => []RequestsIssuable
  <1>1. Records => RequestsIssuable
    <2> SUFFICES ASSUME Records, NEW q \in asked, NEW now \in Horizon,
                        q.at <= now + Skew, now < q.at + RequestLife,
                        ActiveAt(q.delegation, q.acceptance, now)
                 PROVE  VerifyRequest(q.request, Registered(q.delegation, q.acceptance), now)
      BY DEF RequestsIssuable
    <2>1. Requested(q)
      BY DEF Records
    <2>2. now \in Nat /\ now # ZeroTime
      BY HorizonTimes
    <2>3. VerifyRegistration(q.delegation, q.acceptance, {q.request.payload.audience}, now)
      BY <2>1, RegistrationParts DEF Requested
    <2>4. ValidRequest(q.request.protocol, q.request.payload, now)
      <3>1. q.request.payload.delegation # NoDigest
        BY <2>1 DEF Requested, Digest, NoDigest
      <3>2. q.at + RequestLife > q.at /\ (q.at + RequestLife) - q.at <= RequestLife
        BY <2>1, BindingAssumption DEF Requested
      <3>3. QED
        BY <2>1, <3>1, <3>2 DEF Requested, ValidRequest, Interval
    <2>5. QED
      BY <2>1, <2>3, <2>4 DEF Requested, VerifyRequest, Registered
  <1>2. QED
    BY <1>1, RecordsAlways, PTL

\* Administrator, agent and owner each agreed to what an accepted document of
\* the service says, and the delegation cannot be exchanged afterwards.
THEOREM Consents == SpecERC => []ConsentChain
  <1>1. Records => ConsentChain
    <2> SUFFICES ASSUME Records, NEW doc \in AcceptedDocuments
                 PROVE  LET request == doc.binding.payload.request IN
                        /\ request.signature.by = doc.delegation.payload.issuerKey
                        /\ doc.delegation.signature.by = doc.delegation.payload.issuerKey
                        /\ doc.acceptance.signature.by = request.payload.agentKey
                        /\ \A issued \in {x \in documents : x.binding = doc.binding} :
                              /\ doc.delegation = issued.delegation
                              /\ \E c \in consents :
                                    /\ c.request = request
                                    /\ c.signature = doc.binding.payload.ownerSignature
                                    /\ c.signature.by = request.payload.owner
      BY DEF ConsentChain
    <2> DEFINE request == doc.binding.payload.request
    <2>1. \A x : VerifyBinding(x) =>
             /\ DecodesERC(x.binding.payload.request, "request")
             /\ VerifyRegistration(x.delegation, x.acceptance,
                    {x.binding.payload.request.payload.audience}, x.binding.payload.issuedAt)
             /\ x.binding.payload.request.payload.delegation = Digest(x.delegation)
             /\ x.delegation.payload.issuerKey = x.binding.payload.request.payload.issuerKey
             /\ x.delegation.payload.agentKey = x.binding.payload.request.payload.agentKey
      BY DEF VerifyBinding, VerifyRequest, Registered
    <2>2. VerifyBinding(doc)
      BY DEF AcceptedDocuments
    <2>3. request.signature.by = doc.delegation.payload.issuerKey
      <3>1. DecodesERC(request, "request")
        BY <2>1, <2>2
      <3>2. request.signature.by = request.payload.issuerKey
        BY <3>1 DEF DecodesERC, SignatureBy
      <3>3. QED
        BY <2>1, <2>2, <3>2
    <2>4. /\ doc.delegation.signature.by = doc.delegation.payload.issuerKey
          /\ doc.acceptance.signature.by = doc.delegation.payload.agentKey
      <3>1. \A e : VerifyEnvelope(e) => e.signature.by = e.payload.issuerKey
        BY DEF VerifyEnvelope, SignatureBy
      <3>2. /\ VerifyEnvelope(doc.delegation)
            /\ VerifyEnvelope(doc.acceptance)
            /\ doc.acceptance.payload.issuerKey = doc.delegation.payload.agentKey
        BY <2>1, <2>2 DEF VerifyRegistration, Decodes
      <3>3. QED
        BY <3>1, <3>2
    <2>5. ASSUME NEW issued \in documents, issued.binding = doc.binding
          PROVE  doc.delegation = issued.delegation /\ Consented(issued)
      <3>1. VerifyBinding(issued) /\ Consented(issued)
        BY DEF Records, Verified
      <3>2. {issued.delegation} = {doc.delegation}
        BY <2>1, <2>2, <2>5, <3>1 DEF Digest
      <3>3. QED
        BY <3>1, <3>2
    <2>6. QED
      BY <2>1, <2>2, <2>3, <2>4, <2>5 DEF Consented
  <1>2. QED
    BY <1>1, RecordsAlways, PTL
=============================================================================
