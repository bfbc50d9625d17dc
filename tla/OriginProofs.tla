---------------------------- MODULE OriginProofs -----------------------------
(***************************************************************************)
(* Theorems about OriginProtocol, for any keys, service names, versions,   *)
(* lifetimes, skew and clock drift.  The inductive invariant has one part  *)
(* per history variable; Sealed is what all the others rest on.  At the    *)
(* end, lemmas that compare Go's verification rules with JavaScript's.     *)
(***************************************************************************)
EXTENDS OriginProtocol, CoreJS, TLAPS

\* Every envelope around is exactly what SignFor makes, and verifies.
Sealed ==
    \A e \in envelopes :
        /\ e = Seal(e.publicKey, e.protocol, e.kind, e.payload)
        /\ CanSign(e.publicKey, e.protocol, e.kind, e.payload)

\* The fields of what SignFor returns.
LEMMA SealFields ==
    ASSUME NEW k, NEW v, NEW kind, NEW p
    PROVE  /\ Seal(k, v, kind, p).kind = kind
           /\ Seal(k, v, kind, p).protocol = v
           /\ Seal(k, v, kind, p).payload = p
           /\ Seal(k, v, kind, p).publicKey = k
           /\ Seal(k, v, kind, p).signature = SignatureBy(k, SigningInput(v, kind, p))
  BY DEF Seal

\* What SignFor returns verifies, whatever the payload.
LEMMA SealVerifies ==
    ASSUME NEW k, NEW v, NEW kind, NEW p, CanSign(k, v, kind, p)
    PROVE  VerifyEnvelope(Seal(k, v, kind, p))
  BY SealFields DEF CanSign, VerifyEnvelope

LEMMA SealIsSealed ==
    ASSUME NEW k, NEW v, NEW kind, NEW p,
           CanSign(k, v, kind, Seal(k, v, kind, p).payload),
           NEW e, e = Seal(k, v, kind, p)
    PROVE  /\ e = Seal(e.publicKey, e.protocol, e.kind, e.payload)
           /\ CanSign(e.publicKey, e.protocol, e.kind, e.payload)
  BY SealFields

\* Every step adds only sealed envelopes.
LEMMA SealedStep == Sealed /\ [Next]_vars => Sealed'
  <1> SUFFICES ASSUME Sealed, [Next]_vars PROVE Sealed'
    OBVIOUS
  <1>1. CASE UNCHANGED vars
    BY <1>1 DEF Sealed, vars
  <1>2. CASE Tick
    BY <1>2 DEF Sealed, Tick
  <1>3. ASSUME NEW protocol, NEW admin, NEW agent, NEW audience, NEW id,
               NEW validFor, NEW carry, NEW now,
               CreateRegistration(protocol, admin, agent, audience, id, validFor, carry, now)
        PROVE  Sealed'
    <2> DEFINE d == Seal(admin, protocol, "delegation",
                         Delegation(protocol, admin, id, agent, audience,
                                    now, now, now + validFor + carry))
               a == Seal(agent, protocol, "acceptance",
                         Acceptance(protocol, agent, id, Digest(d), now))
    <2>1. /\ CanSign(admin, protocol, "delegation", d.payload)
          /\ CanSign(agent, protocol, "acceptance", a.payload)
          /\ envelopes' = envelopes \cup {d, a}
      BY <1>3 DEF CreateRegistration
    <2> HIDE DEF d, a
    <2>2. \A e \in {d, a} : /\ e = Seal(e.publicKey, e.protocol, e.kind, e.payload)
                            /\ CanSign(e.publicKey, e.protocol, e.kind, e.payload)
      BY <2>1, SealIsSealed DEF d, a
    <2>3. QED
      BY <2>1, <2>2 DEF Sealed
  <1>4. ASSUME NEW protocol, NEW agent, NEW d, NEW a, NEW artifact, NEW now,
               CreateStatement(protocol, agent, d, a, artifact, now)
        PROVE  Sealed'
    BY <1>4, SealIsSealed DEF Sealed, CreateStatement
  <1>5. ASSUME NEW protocol, NEW agent, NEW id, NEW artifact, NEW now,
               CreateProducerStatement(protocol, agent, id, artifact, now)
        PROVE  Sealed'
    BY <1>5, SealIsSealed DEF Sealed, CreateProducerStatement
  <1>6. ASSUME NEW protocol, NEW s, NEW d, NEW a, NEW admin, NEW audience,
               NEW visibility, NEW now,
               CreateGrant(protocol, s, d, a, admin, audience, visibility, now)
        PROVE  Sealed'
    BY <1>6, SealIsSealed DEF Sealed, CreateGrant
  <1>7. ASSUME NEW b, NEW key, NEW issuer, NEW now, Issue(b, key, issuer, now)
        PROVE  Sealed'
    BY <1>7, SealIsSealed, SealFields DEF Sealed, Issue, IssueAccepts
  <1>8. ASSUME NEW key, NEW protocol, NEW kind, NEW p,
               SignFor(key, protocol, kind, p)
        PROVE  Sealed'
    BY <1>8, SealIsSealed, SealFields DEF Sealed, SignFor
  <1>9. QED
    BY <1>1, <1>2, <1>3, <1>4, <1>5, <1>6, <1>7, <1>8 DEF Next

\* In every state every envelope carries its own key's signature over its own
\* fields.
THEOREM SealedAlways == Spec => []Sealed
  <1>1. Init => Sealed
    BY DEF Init, Sealed
  <1>2. QED
    BY <1>1, SealedStep, PTL DEF Spec

-----------------------------------------------------------------------------
(* Consequences of Sealed alone: what can be shown as an envelope.         *)

\* A signature determines the envelope it stands in, so a mixture of fields
\* that verifies is an envelope some key holder made.
THEOREM Mixtures == Spec => []MixturesRejected
  <1>1. Sealed => MixturesRejected
    <2> SUFFICES ASSUME Sealed,
                        NEW x \in envelopes, NEW y \in envelopes, NEW z \in envelopes,
                        NEW key \in Keys, NEW protocol \in Protocols,
                        NEW p, NEW e,
                        e = [protocol |-> protocol, kind |-> x.kind,
                             payload |-> p, publicKey |-> key,
                             signature |-> z.signature],
                        VerifyEnvelope(e)
                 PROVE  e \in envelopes
      BY DEF MixturesRejected
    <2>1. z.signature = SignatureBy(z.publicKey, SigningInput(z.protocol, z.kind, z.payload))
      BY SealFields DEF Sealed
    <2>2. z.signature = SignatureBy(key, SigningInput(protocol, x.kind, p))
      BY DEF VerifyEnvelope
    <2>3. /\ key = z.publicKey
          /\ <<protocol, x.kind, p>> = <<z.protocol, z.kind, z.payload>>
      BY <2>1, <2>2 DEF SignatureBy, SigningInput
    <2>4. z = [protocol |-> z.protocol, kind |-> z.kind, payload |-> z.payload,
               publicKey |-> z.publicKey, signature |-> z.signature]
      BY <2>1 DEF Sealed, Seal
    <2>5. e = z
      BY <2>3, <2>4
    <2>6. QED
      BY <2>5
  <1>2. QED
    BY <1>1, SealedAlways, PTL

\* The pieces of an assembled bundle are envelopes somebody made.
LEMMA AssembledParts ==
    ASSUME NEW b \in Accepted
    PROVE  /\ b.statement \in Of("statement")
           /\ b.delegation \in Optional(Of("delegation"))
           /\ b.acceptance \in Optional(Of("acceptance"))
           /\ b.certificate \in Optional(Of("certificate"))
           /\ Parts(b) \subseteq envelopes
           /\ VerifyBundle(b)
  <1>1. b \in Assembled(Optional(Of("certificate"))) /\ VerifyBundle(b)
    BY DEF Accepted
  <1>2. PICK v \in {s.protocol : s \in Of("statement")}, s \in Of("statement"),
             d \in Optional(Of("delegation")), a \in Optional(Of("acceptance")),
             c \in Optional(Of("certificate")) : b = Bundle(v, s, d, a, c)
    BY <1>1 DEF Assembled
  <1>3. /\ b.statement = s
        /\ b.delegation = d
        /\ b.acceptance = a
        /\ b.certificate = c
    BY <1>2 DEF Bundle
  <1>4. \A S : \A X \in Optional(S) : X \subseteq S
    BY DEF Optional
  <1>5. Parts(b) \subseteq envelopes
    BY <1>3, <1>4 DEF Parts, Of
  <1>6. QED
    BY <1>1, <1>3, <1>5

\* A statement fixes the delegation, a certificate fixes the statement.
THEOREM Pieces == Spec => []PiecesStayTogether
  <1>1. PiecesStayTogether
    <2> SUFFICES ASSUME NEW b \in Accepted, NEW c \in Accepted
                 PROVE  /\ b.statement = c.statement => b.delegation = c.delegation
                        /\ b.certificate = c.certificate /\ b.certificate # {}
                              => b.statement = c.statement
      BY DEF PiecesStayTogether
    <2>1. VerifyBundle(b) /\ VerifyBundle(c)
      BY AssembledParts
    <2>2. b.statement = c.statement => b.delegation = c.delegation
      BY <2>1 DEF VerifyBundle, VerifySource
    <2>3. ASSUME b.certificate = c.certificate, NEW e \in b.certificate
          PROVE  b.statement = c.statement
      <3>1. CertificateOK(b, e) /\ CertificateOK(c, e)
        BY <2>1, <2>3 DEF VerifyBundle
      <3>2. {b.statement} = {c.statement}
        BY <3>1 DEF CertificateOK, Digest
      <3>3. QED
        BY <3>2
    <2>4. QED
      BY <2>2, <2>3
  <1>2. QED
    BY <1>1, PTL

\* Every signature behind an accepted delegated bundle is by the right holder.
THEOREM Authority == Spec => []AuthorityChain
  <1>1. Sealed => AuthorityChain
    <2> SUFFICES ASSUME Sealed, NEW b \in Accepted,
                        NEW d \in b.delegation, NEW a \in b.acceptance
                 PROVE  /\ Parts(b) \subseteq envelopes
                        /\ b.statement.signature.by = d.payload.agentKey
                        /\ a.signature.by = d.payload.agentKey
                        /\ d.signature.by = d.payload.issuerKey
                        /\ a.payload.delegation = Digest(d)
                        /\ \A c \in b.certificate : c.payload.issuer = d.payload.audience
      BY DEF AuthorityChain
    <2>1. Parts(b) \subseteq envelopes /\ VerifyBundle(b)
      BY AssembledParts
    <2>2. /\ Decodes(b.statement, "statement")
          /\ VerifyRegistration(d, a, {}, ZeroTime)
          /\ b.statement.payload.issuerKey = d.payload.agentKey
      BY <2>1 DEF VerifyBundle, VerifySource
    <2>3. \A e : VerifyEnvelope(e) => e.signature.by = e.payload.issuerKey
      BY DEF VerifyEnvelope, SignatureBy
    <2>4. /\ VerifyEnvelope(b.statement)
          /\ VerifyEnvelope(d)
          /\ VerifyEnvelope(a)
          /\ a.payload.issuerKey = d.payload.agentKey
          /\ a.payload.delegation = Digest(d)
      BY <2>2 DEF VerifyRegistration, Decodes
    <2>5. ASSUME NEW c \in b.certificate
          PROVE  c.payload.issuer = d.payload.audience
      BY <2>1 DEF VerifyBundle, CertificateOK, VerifyRegistration
    <2>6. QED
      BY <2>1, <2>2, <2>3, <2>4, <2>5
  <1>2. QED
    BY <1>1, SealedAlways, PTL
-----------------------------------------------------------------------------
(* Times.                                                                  *)

\* What a payload may carry as its issue time: a clock reading, or what other
\* software put there.
Stamps == (Nat \ {ZeroTime}) \cup SignTimes

LEMMA StampsAreTimes == Stamps \subseteq Nat
  BY ProtocolAssumption DEF Stamps

\* The times in every envelope are numbers, and zero only if so signed.
Timed ==
    \A e \in envelopes :
        /\ e.payload.issuedAt \in Stamps
        /\ e.kind = "delegation" => e.payload.notBefore \in Nat
        /\ e.kind \in {"delegation", "certificate"} => e.payload.expiresAt \in Nat

IInv == Sealed /\ clock \in Nat /\ Timed

LEMMA ReadingsAreTimes ==
    ASSUME clock \in Nat
    PROVE  Readings \subseteq Nat \ {ZeroTime} /\ Readings \subseteq Stamps
  BY ProtocolAssumption DEF Readings, ZeroTime, Stamps

LEMMA HorizonTimes == Horizon \subseteq Nat \ {ZeroTime}
  BY ProtocolAssumption DEF Horizon, ZeroTime

\* An envelope sealed over a payload with a time in Nat, and if it is a
\* delegation with an interval in Nat, can be added without harm.
LEMMA TimedAdd ==
    ASSUME Timed, NEW k, NEW v, NEW kind, NEW p, p.issuedAt \in Stamps,
           kind = "delegation" => p.notBefore \in Nat,
           kind \in {"delegation", "certificate"} => p.expiresAt \in Nat,
           envelopes' = envelopes \cup {Seal(k, v, kind, p)}
    PROVE  Timed'
  <1>1. ASSUME NEW e, e = Seal(k, v, kind, p)
        PROVE  /\ e.payload.issuedAt \in Stamps
               /\ e.kind = "delegation" => e.payload.notBefore \in Nat
               /\ e.kind \in {"delegation", "certificate"} => e.payload.expiresAt \in Nat
    BY <1>1, SealFields
  <1>2. QED
    BY <1>1 DEF Timed

\* The payloads of other software carry times of SignTimes.
LEMMA OtherPayloadTimes ==
    ASSUME NEW protocol, NEW key, NEW p \in OtherPayloads(protocol, key)
    PROVE  /\ p.issuedAt \in SignTimes
           /\ p.kind = "delegation" => p.notBefore \in SignTimes
           /\ p.kind \in {"delegation", "certificate"} => p.expiresAt \in SignTimes
  BY DEF OtherPayloads, Delegation, Acceptance, Statement, Certificate

\* The expiry Issue chooses is the earlier of 24 hours and the delegation's.
LEMMA IssuedExpiry ==
    ASSUME NEW b, NEW key, NEW issuer, NEW now \in Nat, NEW S,
           b.delegation \in Optional(S),
           \A d \in b.delegation : d.payload.expiresAt \in Nat
    PROVE  LET end == IssuedCertificate(b, key, issuer, now).expiresAt IN
           /\ end \in Nat
           /\ end <= now + CertificateLife
           /\ \A d \in b.delegation : end <= d.payload.expiresAt
           /\ \/ end = now + CertificateLife
              \/ \E d \in b.delegation : end = d.payload.expiresAt
  <1> DEFINE ends == {now + CertificateLife} \cup
                     {d.payload.expiresAt : d \in b.delegation}
             end == CHOOSE t \in ends : \A u \in ends : t <= u
  <1>1. IssuedCertificate(b, key, issuer, now).expiresAt = end
    BY DEF IssuedCertificate, Certificate
  <1>2. now + CertificateLife \in Nat
    BY CoreAssumption
  <1>3. ends \subseteq Nat
    BY <1>2
  <1>4. \E t \in ends : \A u \in ends : t <= u
    <2>1. CASE b.delegation = {}
      <3>1. ends = {now + CertificateLife}
        BY <2>1
      <3> HIDE DEF ends
      <3>2. QED
        BY <3>1, <1>2
    <2>2. ASSUME NEW d, b.delegation = {d}
          PROVE  \E t \in ends : \A u \in ends : t <= u
      <3>1. ends = {now + CertificateLife, d.payload.expiresAt}
        BY <2>2
      <3>2. d.payload.expiresAt \in Nat
        BY <2>2
      <3> HIDE DEF ends
      <3>3. CASE now + CertificateLife <= d.payload.expiresAt
        BY <3>1, <3>2, <3>3, <1>2
      <3>4. CASE d.payload.expiresAt < now + CertificateLife
        BY <3>1, <3>2, <3>4, <1>2
      <3>5. QED
        BY <3>2, <3>3, <3>4, <1>2
    <2>3. QED
      BY <2>1, <2>2 DEF Optional
  <1>5. end \in ends /\ \A u \in ends : end <= u
    BY <1>4
  <1> HIDE DEF end
  <1>6. QED
    BY <1>1, <1>2, <1>3, <1>5

\* Attaching a certificate leaves the rest of a bundle alone.
LEMMA Attached ==
    ASSUME NEW b \in Assembled({{}}), NEW c,
           NEW e, e = [b EXCEPT !.certificate = {c}]
    PROVE  /\ b.delegation \in Optional(Of("delegation"))
           /\ e.protocol = b.protocol
           /\ e.statement = b.statement
           /\ e.delegation = b.delegation
           /\ e.acceptance = b.acceptance
           /\ e.certificate = {c}
  BY DEF Assembled, Bundle

LEMMA TimedStep == clock \in Nat /\ Timed /\ [Next]_vars => Timed'
  <1> SUFFICES ASSUME clock \in Nat, Timed, [Next]_vars PROVE Timed'
    OBVIOUS
  <1>1. CASE UNCHANGED vars
    BY <1>1 DEF Timed, vars
  <1>2. CASE Tick
    BY <1>2 DEF Timed, Tick
  <1>3. ASSUME NEW protocol, NEW admin, NEW agent, NEW audience, NEW id,
               NEW validFor \in Validities, NEW carry \in {0, 1}, NEW now \in Readings,
               CreateRegistration(protocol, admin, agent, audience, id, validFor, carry, now)
        PROVE  Timed'
    <2> DEFINE d == Seal(admin, protocol, "delegation",
                         Delegation(protocol, admin, id, agent, audience,
                                    now, now, now + validFor + carry))
               a == Seal(agent, protocol, "acceptance",
                         Acceptance(protocol, agent, id, Digest(d), now))
    <2>1. envelopes' = envelopes \cup {d, a}
      BY <1>3 DEF CreateRegistration
    <2>2. now \in Nat /\ now \in Stamps /\ now + validFor + carry \in Nat
      BY ReadingsAreTimes, ProtocolAssumption
    <2>3. /\ d.payload.issuedAt = now
          /\ d.payload.notBefore = now
          /\ d.payload.expiresAt = now + validFor + carry
      BY SealFields DEF Delegation
    <2>4. a.kind = "acceptance" /\ a.payload.issuedAt = now
      BY SealFields DEF Acceptance
    <2> HIDE DEF d, a
    <2>5. QED
      BY <2>1, <2>2, <2>3, <2>4 DEF Timed
  <1>4. ASSUME NEW protocol, NEW agent, NEW d, NEW a, NEW artifact, NEW now \in Readings,
               CreateStatement(protocol, agent, d, a, artifact, now)
        PROVE  Timed'
    <2>1. Statement(protocol, agent, d.payload.agentID, Digest(d), artifact, now).issuedAt \in Stamps
      BY ReadingsAreTimes DEF Statement
    <2>2. QED
      BY <1>4, <2>1, TimedAdd DEF CreateStatement
  <1>5. ASSUME NEW protocol, NEW agent, NEW id, NEW artifact, NEW now \in Readings,
               CreateProducerStatement(protocol, agent, id, artifact, now)
        PROVE  Timed'
    <2>1. Statement(protocol, agent, id, NoDigest, artifact, now).issuedAt \in Stamps
      BY ReadingsAreTimes DEF Statement
    <2>2. QED
      BY <1>5, <2>1, TimedAdd DEF CreateProducerStatement
  <1>6. ASSUME NEW protocol, NEW s, NEW d, NEW a, NEW admin, NEW audience,
               NEW visibility, NEW now \in Readings,
               CreateGrant(protocol, s, d, a, admin, audience, visibility, now)
        PROVE  Timed'
    <2>1. Grant(protocol, admin, Digest(s), Digest(d), audience, visibility,
                now, now + GrantLife).issuedAt \in Stamps
      BY ReadingsAreTimes DEF Grant
    <2>2. QED
      BY <1>6, <2>1, TimedAdd DEF CreateGrant
  <1>7. ASSUME NEW b \in Assembled({{}}), NEW key, NEW issuer, NEW now \in Readings,
               Issue(b, key, issuer, now)
        PROVE  Timed'
    <2>1. IssuedCertificate(b, key, issuer, now).issuedAt \in Stamps /\ now \in Nat
      BY ReadingsAreTimes DEF IssuedCertificate, Certificate
    <2>2. b.delegation \in Optional(Of("delegation"))
      BY Attached
    <2>3. \A d \in b.delegation : d.payload.expiresAt \in Nat
      BY <2>2 DEF Timed, Optional, Of
    <2>4. IssuedCertificate(b, key, issuer, now).expiresAt \in Nat
      BY <2>1, <2>2, <2>3, IssuedExpiry
    <2>5. QED
      BY <1>7, <2>1, <2>4, TimedAdd DEF Issue
  <1>8. ASSUME NEW protocol, NEW key, NEW p \in OtherPayloads(protocol, key),
               SignFor(key, protocol, p.kind, p)
        PROVE  Timed'
    <2>1. SignTimes \subseteq Nat /\ SignTimes \subseteq Stamps
      BY ProtocolAssumption DEF Stamps
    <2>2. QED
      BY <1>8, <2>1, OtherPayloadTimes, TimedAdd DEF SignFor
  <1>9. QED
    BY <1>1, <1>2, <1>3, <1>4, <1>5, <1>6, <1>7, <1>8 DEF Next

\* Only Tick moves the clock, only Issue adds to bundles.
LEMMA StepKinds ==
    ASSUME [Next]_vars
    PROVE  /\ Tick \/ UNCHANGED clock
           /\ \/ UNCHANGED bundles
              \/ \E b \in Assembled({{}}), key \in Signers, issuer \in Issuers,
                    now \in Readings : Issue(b, key, issuer, now)
  <1>1. ASSUME NEW protocol, NEW admin, NEW agent, NEW audience, NEW id,
               NEW validFor, NEW carry, NEW now
        PROVE  CreateRegistration(protocol, admin, agent, audience, id, validFor, carry, now)
                  => UNCHANGED <<clock, bundles>>
    BY DEF CreateRegistration
  <1>2. ASSUME NEW protocol, NEW agent, NEW d, NEW a, NEW artifact, NEW now
        PROVE  CreateStatement(protocol, agent, d, a, artifact, now)
                  => UNCHANGED <<clock, bundles>>
    BY DEF CreateStatement
  <1>3. ASSUME NEW protocol, NEW agent, NEW id, NEW artifact, NEW now
        PROVE  CreateProducerStatement(protocol, agent, id, artifact, now)
                  => UNCHANGED <<clock, bundles>>
    BY DEF CreateProducerStatement
  <1>4. ASSUME NEW protocol, NEW s, NEW d, NEW a, NEW admin, NEW audience,
               NEW visibility, NEW now
        PROVE  CreateGrant(protocol, s, d, a, admin, audience, visibility, now)
                  => UNCHANGED <<clock, bundles>>
    BY DEF CreateGrant
  <1>5. ASSUME NEW b, NEW key, NEW issuer, NEW now
        PROVE  Issue(b, key, issuer, now) => UNCHANGED clock
    BY DEF Issue
  <1>6. ASSUME NEW key, NEW protocol, NEW kind, NEW p
        PROVE  SignFor(key, protocol, kind, p) => UNCHANGED <<clock, bundles>>
    BY DEF SignFor
  <1>7. Tick => UNCHANGED bundles
    BY DEF Tick
  <1>8. QED
    BY <1>1, <1>2, <1>3, <1>4, <1>5, <1>6, <1>7 DEF Next, vars

LEMMA ClockStep == clock \in Nat /\ [Next]_vars => clock' \in Nat
  <1> SUFFICES ASSUME clock \in Nat, [Next]_vars PROVE clock' \in Nat
    OBVIOUS
  <1>1. CASE Tick
    BY <1>1 DEF Tick
  <1>2. CASE UNCHANGED clock
    BY <1>2
  <1>3. Tick \/ UNCHANGED clock
    BY StepKinds
  <1>4. QED
    BY <1>1, <1>2, <1>3

\* The inductive invariant of the protocol holds in every state.
THEOREM IInvAlways == Spec => []IInv
  <1>1. Init => IInv
    BY DEF Init, IInv, Sealed, Timed
  <1>2. IInv /\ [Next]_vars => IInv'
    BY SealedStep, TimedStep, ClockStep DEF IInv
  <1>3. QED
    BY <1>1, <1>2, PTL DEF Spec
-----------------------------------------------------------------------------
(* What Issue certifies verifies.                                          *)

LEMMA IssueVerifies ==
    ASSUME IInv, NEW b \in Assembled({{}}), NEW key, NEW issuer, NEW now \in Readings,
           Issue(b, key, issuer, now)
    PROVE  LET c == Seal(key, b.protocol, "certificate",
                         IssuedCertificate(b, key, issuer, now))
               e == [b EXCEPT !.certificate = {c}] IN
           Certified(e) /\ c.payload.expiresAt <= c.payload.issuedAt + CertificateLife
  <1> DEFINE p == IssuedCertificate(b, key, issuer, now)
             c == Seal(key, b.protocol, "certificate", p)
             e == [b EXCEPT !.certificate = {c}]
  <1>1. IssueAccepts(b, key, issuer, now)
    BY DEF Issue
  <1>2. /\ p.issuedAt = now
        /\ p.issuer = issuer
        /\ p.statement = Digest(b.statement)
        /\ p.delegation = b.statement.payload.delegation
        /\ p.sourceKey = b.statement.payload.issuerKey
        /\ p.agentBinding = AgentBinding(b)
    BY DEF IssuedCertificate, Certificate
  <1>3. /\ c.payload = p
        /\ c.protocol = b.protocol
        /\ Decodes(c, "certificate")
    BY <1>1, SealFields, SealVerifies DEF IssueAccepts, Decodes
  <1>4. now \in Nat /\ now # ZeroTime
    BY ReadingsAreTimes DEF IInv, ZeroTime
  <1> HIDE DEF p, c
  <1>5. /\ b.delegation \in Optional(Of("delegation"))
        /\ e.protocol = b.protocol
        /\ e.statement = b.statement
        /\ e.delegation = b.delegation
        /\ e.acceptance = b.acceptance
        /\ e.certificate = {c}
    BY Attached
  <1> HIDE DEF e
  <1>6. /\ p.expiresAt <= now + CertificateLife
        /\ \A d \in b.delegation : p.expiresAt <= d.payload.expiresAt
    <2>1. \A d \in b.delegation : d.payload.expiresAt \in Nat
      BY <1>5 DEF IInv, Timed, Optional, Of
    <2>2. QED
      BY <1>4, <1>5, <2>1, IssuedExpiry DEF p
  <1>7. VerifySource(e)
    <2>1. VerifySource(b) /\ b.certificate = {}
      BY <1>1 DEF IssueAccepts
    <2>2. Parts(e) = Parts(b) \cup {c}
      BY <1>5, <2>1 DEF Parts
    <2>3. OneVersion(e)
      BY <1>3, <1>5, <2>1, <2>2 DEF VerifySource, OneVersion
    <2>4. QED
      BY <1>5, <2>1, <2>3 DEF VerifySource
  <1>8. CertificateOK(e, c)
    <2>1. /\ b.statement.payload.issuedAt <= now + Skew
          /\ \A d \in b.delegation, a \in b.acceptance :
                /\ VerifyRegistration(d, a, {issuer}, now)
                /\ b.statement.payload.issuedAt >= d.payload.notBefore
      BY <1>1 DEF IssueAccepts
    <2>2. AgentBinding(e) = AgentBinding(b)
      BY <1>5 DEF AgentBinding
    <2>3. QED
      BY <1>2, <1>3, <1>5, <1>6, <2>1, <2>2 DEF CertificateOK
  <1>9. QED
    BY <1>2, <1>3, <1>5, <1>6, <1>7, <1>8 DEF Certified, VerifyBundle, e, c, p

\* The two lists of checks agree: VerifyBundle accepts all that Issue returns.
THEOREM IssueImpliesVerify == Spec => []IssuedBundlesVerify
  <1>1. Init => IssuedBundlesVerify
    BY DEF Init, IssuedBundlesVerify
  <1>2. IInv /\ IssuedBundlesVerify /\ [Next]_vars => IssuedBundlesVerify'
    <2> SUFFICES ASSUME IInv, IssuedBundlesVerify, [Next]_vars
                 PROVE  IssuedBundlesVerify'
      OBVIOUS
    <2>1. CASE UNCHANGED bundles
      BY <2>1 DEF IssuedBundlesVerify
    <2>2. ASSUME NEW b \in Assembled({{}}), NEW key, NEW issuer, NEW now \in Readings,
                 Issue(b, key, issuer, now)
          PROVE  IssuedBundlesVerify'
      <3> DEFINE c == Seal(key, b.protocol, "certificate",
                           IssuedCertificate(b, key, issuer, now))
                 e == [b EXCEPT !.certificate = {c}]
      <3>1. bundles' = bundles \cup {e}
        BY <2>2 DEF Issue
      <3>2. Certified(e) /\ c.payload.expiresAt <= c.payload.issuedAt + CertificateLife
        BY <2>2, IssueVerifies
      <3>3. e.certificate = {c}
        BY Attached
      <3> HIDE DEF c, e
      <3>4. QED
        BY <3>1, <3>2, <3>3 DEF IssuedBundlesVerify
    <2>3. QED
      BY <2>1, <2>2, StepKinds
  <1>3. QED
    BY <1>1, <1>2, IInvAlways, PTL DEF Spec

-----------------------------------------------------------------------------
(* Signed statements are certifiable, signed grants are accepted.          *)

\* Activity is the only part of VerifyRegistration that depends on the clock,
\* the audience the only one that depends on the service.
LEMMA RegistrationParts ==
    ASSUME NEW d, NEW a, NEW name, NEW now
    PROVE  /\ VerifyRegistration(d, a, {}, now) => VerifyRegistration(d, a, {}, ZeroTime)
           /\ VerifyRegistration(d, a, {name}, now) => VerifyRegistration(d, a, {}, now)
           /\ VerifyRegistration(d, a, {name}, now) => d.payload.audience = name
           /\ VerifyRegistration(d, a, {}, now) /\ now # ZeroTime => ActiveAt(d, a, now)
           /\ VerifyRegistration(d, a, {}, ZeroTime)
                 /\ d.payload.audience = name /\ ActiveAt(d, a, now)
                 => VerifyRegistration(d, a, {name}, now)
  BY DEF VerifyRegistration

\* The conditions under which a service certifies an uncertified source.
LEMMA Certifiable ==
    ASSUME NEW b, NEW key, NEW issuer, NEW now \in Nat, NEW S,
           now # ZeroTime, VerifySource(b), b.certificate = {},
           b.delegation \in Optional(S),
           \A d \in b.delegation : d.payload.expiresAt \in Nat,
           UsableKey(b.protocol, key), ValidIssuer(b.protocol, issuer),
           b.statement.payload.issuedAt <= now + Skew,
           \A d \in b.delegation, a \in b.acceptance :
              /\ d.payload.audience = issuer
              /\ ActiveAt(d, a, now)
              /\ b.statement.payload.issuedAt >= d.payload.notBefore
    PROVE  IssueAccepts(b, key, issuer, now)
  <1> DEFINE p == IssuedCertificate(b, key, issuer, now)
  <1>1. /\ OneVersion(b)
        /\ (b.delegation = {}) = (b.acceptance = {})
        /\ b.statement.payload.delegation = b.delegation
        /\ \A d \in b.delegation, a \in b.acceptance :
              VerifyRegistration(d, a, {}, ZeroTime)
    BY DEF VerifySource
  <1>2. /\ p.protocol = b.protocol
        /\ p.kind = "certificate"
        /\ p.issuer = issuer
        /\ p.issuerKey = key
        /\ p.issuedAt = now
        /\ p.statement = Digest(b.statement)
        /\ p.delegation = b.delegation
        /\ p.agentBinding = AgentBinding(b)
    BY <1>1 DEF IssuedCertificate, Certificate
  <1>3. /\ p.expiresAt \in Nat
        /\ \/ p.expiresAt = now + CertificateLife
           \/ \E d \in b.delegation : p.expiresAt = d.payload.expiresAt
    BY IssuedExpiry
  <1> HIDE DEF p
  <1>4. \A d \in b.delegation : now < d.payload.expiresAt
    BY <1>1 DEF ActiveAt
  <1>5. p.expiresAt > now
    BY <1>3, <1>4, CoreAssumption
  <1>6. /\ p.agentBinding \in {"admin_key_delegation", "not_provided"}
        /\ (p.agentBinding = "admin_key_delegation") = (p.delegation # NoDigest)
    BY <1>2 DEF AgentBinding, NoDigest
  <1>7. p.statement # NoDigest
    BY <1>2 DEF Digest, NoDigest
  <1>8. ValidPayload(b.protocol, "certificate", p)
    BY <1>2, <1>5, <1>6, <1>7 DEF ValidPayload, HeaderOK, Interval
  <1>9. CanSign(key, b.protocol, "certificate", p)
    BY <1>1, <1>2, <1>8 DEF CanSign, OneVersion
  <1>10. \A d \in b.delegation, a \in b.acceptance : VerifyRegistration(d, a, {issuer}, now)
    BY <1>1, RegistrationParts
  <1>11. QED
    BY <1>9, <1>10 DEF IssueAccepts, p

\* What a recorded source is: a verified, uncertified bundle whose statement
\* carries the signer's clock and does not predate the delegation.
GoodSource(src) ==
    LET b == src.bundle IN
    /\ src.at \in Nat
    /\ VerifySource(b)
    /\ b.certificate = {}
    /\ b.statement.payload.issuedAt = src.at
    /\ \E S : b.delegation \in Optional(S)
    /\ \A d \in b.delegation : d.payload.expiresAt \in Nat
    /\ \A d \in b.delegation, a \in b.acceptance : src.at >= d.payload.notBefore

LEMMA StatementIsGood ==
    ASSUME IInv, NEW protocol, NEW agent, NEW d \in Of("delegation"), NEW a,
           NEW artifact, NEW now \in Readings,
           CreateStatement(protocol, agent, d, a, artifact, now)
    PROVE  \E src : GoodSource(src) /\ sources' = sources \cup {src}
  <1> DEFINE p == Statement(protocol, agent, d.payload.agentID, Digest(d), artifact, now)
             s == Seal(agent, protocol, "statement", p)
             b == Bundle(protocol, s, {d}, {a}, {})
             src == [bundle |-> b, at |-> now]
  <1>1. /\ d.protocol = protocol
        /\ VerifyRegistration(d, a, {}, now)
        /\ d.payload.agentKey = agent
        /\ CanSign(agent, protocol, "statement", s.payload)
        /\ sources' = sources \cup {src}
    BY DEF CreateStatement
  <1>2. /\ p.issuer = KeyIdentity(agent)
        /\ p.issuerKey = agent
        /\ p.issuedAt = now
        /\ p.agentID = d.payload.agentID
        /\ p.delegation = {d}
    BY DEF Statement, Digest
  <1> HIDE DEF p
  <1>3. s.payload = p /\ s.protocol = protocol /\ Decodes(s, "statement")
    BY <1>1, SealFields, SealVerifies DEF Decodes
  <1> HIDE DEF s
  <1>4. /\ b.protocol = protocol
        /\ b.statement = s
        /\ b.delegation = {d}
        /\ b.acceptance = {a}
        /\ b.certificate = {}
    BY DEF Bundle
  <1> HIDE DEF b
  <1>5. now \in Nat /\ now # ZeroTime
    BY ReadingsAreTimes DEF IInv, ZeroTime
  <1>6. d.payload.expiresAt \in Nat /\ d.payload.notBefore \in Nat
    BY DEF IInv, Timed, Of
  <1>7. VerifyRegistration(d, a, {}, ZeroTime) /\ ActiveAt(d, a, now)
    BY <1>1, <1>5, RegistrationParts
  <1>8. OneVersion(b)
    <2>1. a.protocol = protocol
      BY <1>1 DEF VerifyRegistration
    <2>2. QED
      BY <1>1, <1>3, <1>4, <2>1 DEF OneVersion, Parts, CanSign
  <1>9. VerifySource(b)
    BY <1>1, <1>2, <1>3, <1>4, <1>7, <1>8 DEF VerifySource, SelfIssued
  <1>10. now >= d.payload.notBefore
    BY <1>5, <1>6, <1>7 DEF ActiveAt
  <1>11. src.bundle = b /\ src.at = now
    OBVIOUS
  <1>12. b.delegation \in Optional({d})
    BY <1>4 DEF Optional
  <1>13. GoodSource(src)
    BY <1>2, <1>3, <1>4, <1>5, <1>6, <1>9, <1>10, <1>11, <1>12 DEF GoodSource
  <1>14. QED
    BY <1>1, <1>13

LEMMA ProducerStatementIsGood ==
    ASSUME IInv, NEW protocol, NEW agent, NEW id, NEW artifact, NEW now \in Readings,
           CreateProducerStatement(protocol, agent, id, artifact, now)
    PROVE  \E src : GoodSource(src) /\ sources' = sources \cup {src}
  <1> DEFINE p == Statement(protocol, agent, id, NoDigest, artifact, now)
             s == Seal(agent, protocol, "statement", p)
             b == Bundle(protocol, s, {}, {}, {})
             src == [bundle |-> b, at |-> now]
  <1>1. /\ CanSign(agent, protocol, "statement", s.payload)
        /\ sources' = sources \cup {src}
    BY DEF CreateProducerStatement
  <1>2. /\ p.issuer = KeyIdentity(agent)
        /\ p.issuerKey = agent
        /\ p.issuedAt = now
        /\ p.delegation = {}
    BY DEF Statement, NoDigest
  <1> HIDE DEF p
  <1>3. s.payload = p /\ s.protocol = protocol /\ Decodes(s, "statement")
    BY <1>1, SealFields, SealVerifies DEF Decodes
  <1> HIDE DEF s
  <1>4. /\ b.protocol = protocol
        /\ b.statement = s
        /\ b.delegation = {}
        /\ b.acceptance = {}
        /\ b.certificate = {}
    BY DEF Bundle
  <1> HIDE DEF b
  <1>5. now \in Nat
    BY ReadingsAreTimes DEF IInv
  <1>6. OneVersion(b)
    BY <1>1, <1>3, <1>4 DEF OneVersion, Parts, CanSign
  <1>7. VerifySource(b)
    BY <1>2, <1>3, <1>4, <1>6 DEF VerifySource, SelfIssued
  <1>8. src.bundle = b /\ src.at = now
    OBVIOUS
  <1>9. b.delegation \in Optional({})
    BY <1>4 DEF Optional
  <1>10. GoodSource(src)
    BY <1>2, <1>3, <1>4, <1>5, <1>7, <1>8, <1>9 DEF GoodSource
  <1>11. QED
    BY <1>1, <1>10

\* Only the two CreateStatement actions add to sources.
LEMMA SourceKinds ==
    ASSUME IInv, [Next]_vars
    PROVE  \/ UNCHANGED sources
           \/ \E src : GoodSource(src) /\ sources' = sources \cup {src}
  <1>1. ASSUME NEW protocol, NEW admin, NEW agent, NEW audience, NEW id,
               NEW validFor, NEW carry, NEW now
        PROVE  CreateRegistration(protocol, admin, agent, audience, id, validFor, carry, now)
                  => UNCHANGED sources
    BY DEF CreateRegistration
  <1>2. ASSUME NEW protocol, NEW s, NEW d, NEW a, NEW admin, NEW audience,
               NEW visibility, NEW now
        PROVE  CreateGrant(protocol, s, d, a, admin, audience, visibility, now)
                  => UNCHANGED sources
    BY DEF CreateGrant
  <1>3. ASSUME NEW b, NEW key, NEW issuer, NEW now
        PROVE  Issue(b, key, issuer, now) => UNCHANGED sources
    BY DEF Issue
  <1>4. ASSUME NEW key, NEW protocol, NEW kind, NEW p
        PROVE  SignFor(key, protocol, kind, p) => UNCHANGED sources
    BY DEF SignFor
  <1>5. Tick => UNCHANGED sources
    BY DEF Tick
  <1>6. QED
    BY <1>1, <1>2, <1>3, <1>4, <1>5, StatementIsGood, ProducerStatementIsGood DEF Next, vars

\* Whatever CreateStatementFor returned, a service whose clock lags by at most
\* the skew certifies it while the delegation is active.
THEOREM StatementsCertifiable == Spec => []SourcesIssuable
  <1> DEFINE Good == \A src \in sources : GoodSource(src)
  <1>1. Init => Good
    BY DEF Init
  <1>2. IInv /\ Good /\ [Next]_vars => Good'
    BY SourceKinds
  <1>3. Good => SourcesIssuable
    <2> SUFFICES ASSUME Good, NEW src \in sources, NEW key \in Signers, NEW issuer \in Issuers,
                        NEW now \in Horizon, src.at <= now + Skew,
                        UsableKey(src.bundle.protocol, key),
                        ValidIssuer(src.bundle.protocol, issuer),
                        \A d \in src.bundle.delegation, a \in src.bundle.acceptance :
                           d.payload.audience = issuer /\ ActiveAt(d, a, now)
                 PROVE  IssueAccepts(src.bundle, key, issuer, now)
      BY DEF SourcesIssuable
    <2>1. GoodSource(src)
      OBVIOUS
    <2>2. now \in Nat /\ now # ZeroTime
      BY HorizonTimes
    <2>3. PICK S : src.bundle.delegation \in Optional(S)
      BY <2>1 DEF GoodSource
    <2>4. QED
      BY <2>1, <2>2, <2>3, Certifiable DEF GoodSource
  <1> HIDE DEF Good
  <1>4. QED
    BY <1>1, <1>2, <1>3, IInvAlways, PTL DEF Spec

LEMMA GrantIsGood ==
    ASSUME IInv, NEW protocol, NEW s, NEW d, NEW a, NEW admin, NEW audience,
           NEW visibility, NEW now \in Readings,
           CreateGrant(protocol, s, d, a, admin, audience, visibility, now)
    PROVE  GrantsAccepted => GrantsAccepted'
  <1> DEFINE p == Grant(protocol, admin, Digest(s), Digest(d), audience,
                        visibility, now, now + GrantLife)
             g == Seal(admin, protocol, "grant", p)
             r == [envelope |-> g, statement |-> s, delegation |-> d,
                   acceptance |-> a, at |-> now]
             b == Bundle(protocol, s, {d}, {a}, {})
  <1>1. /\ s.protocol = protocol
        /\ d.protocol = protocol
        /\ VerifyRegistration(d, a, {audience}, now)
        /\ d.payload.issuerKey = admin
        /\ VerifySource(b)
        /\ CanSign(admin, protocol, "grant", g.payload)
        /\ grants' = grants \cup {r}
    BY DEF CreateGrant, VerifyBundle
  <1>2. /\ p.issuerKey = admin
        /\ p.statement = Digest(s)
        /\ p.delegation = Digest(d)
        /\ p.audience = audience
        /\ p.issuedAt = now
        /\ p.expiresAt = now + GrantLife
    BY DEF Grant
  <1>3. g.payload = p /\ g.protocol = protocol /\ Decodes(g, "grant")
    BY <1>1, SealFields, SealVerifies DEF Decodes
  <1>4. /\ r.envelope = g
        /\ r.statement = s
        /\ r.delegation = d
        /\ r.acceptance = a
        /\ r.at = now
    OBVIOUS
  <1>5. d.payload.audience = audience
    BY <1>1, RegistrationParts
  <1>6. now \in Nat
    BY ReadingsAreTimes DEF IInv
  <1> HIDE DEF p, g, r
  <1>7. ASSUME NEW t \in Horizon, now <= t + Skew, t < now + GrantLife
        PROVE  ValidateGrant(g, s, d, d.payload.issuerKey, d.payload.audience, t)
    <2>1. /\ t # ZeroTime
          /\ p.issuedAt <= t + Skew
          /\ t < p.expiresAt
          /\ p.expiresAt - p.issuedAt <= GrantMax
      BY <1>2, <1>6, <1>7, HorizonTimes, CoreAssumption, ProtocolAssumption
    <2>2. QED
      BY <1>1, <1>2, <1>3, <1>5, <2>1 DEF ValidateGrant
  <1>8. QED
    BY <1>1, <1>3, <1>4, <1>7 DEF GrantsAccepted

\* Only CreateGrant adds to grants.
LEMMA GrantKinds ==
    ASSUME [Next]_vars
    PROVE  \/ UNCHANGED grants
           \/ \E protocol, s, d, a, admin, audience, visibility, now :
                 /\ now \in Readings
                 /\ CreateGrant(protocol, s, d, a, admin, audience, visibility, now)
  <1>1. ASSUME NEW protocol, NEW admin, NEW agent, NEW audience, NEW id,
               NEW validFor, NEW carry, NEW now
        PROVE  CreateRegistration(protocol, admin, agent, audience, id, validFor, carry, now)
                  => UNCHANGED grants
    BY DEF CreateRegistration
  <1>2. ASSUME NEW protocol, NEW agent, NEW d, NEW a, NEW artifact, NEW now
        PROVE  CreateStatement(protocol, agent, d, a, artifact, now) => UNCHANGED grants
    BY DEF CreateStatement
  <1>3. ASSUME NEW protocol, NEW agent, NEW id, NEW artifact, NEW now
        PROVE  CreateProducerStatement(protocol, agent, id, artifact, now) => UNCHANGED grants
    BY DEF CreateProducerStatement
  <1>4. ASSUME NEW b, NEW key, NEW issuer, NEW now
        PROVE  Issue(b, key, issuer, now) => UNCHANGED grants
    BY DEF Issue
  <1>5. ASSUME NEW key, NEW protocol, NEW kind, NEW p
        PROVE  SignFor(key, protocol, kind, p) => UNCHANGED grants
    BY DEF SignFor
  <1>6. Tick => UNCHANGED grants
    BY DEF Tick
  <1>7. QED
    BY <1>1, <1>2, <1>3, <1>4, <1>5, <1>6 DEF Next, vars

\* Whatever CreateGrantFor returned, ValidateGrant accepts in time.
THEOREM GrantsUsable == Spec => []GrantsAccepted
  <1>1. Init => GrantsAccepted
    BY DEF Init, GrantsAccepted
  <1>2. IInv /\ GrantsAccepted /\ [Next]_vars => GrantsAccepted'
    <2> SUFFICES ASSUME IInv, GrantsAccepted, [Next]_vars PROVE GrantsAccepted'
      OBVIOUS
    <2>1. CASE UNCHANGED grants
      BY <2>1 DEF GrantsAccepted
    <2>2. QED
      BY <2>1, GrantKinds, GrantIsGood
  <1>3. QED
    BY <1>1, <1>2, IInvAlways, PTL DEF Spec

-----------------------------------------------------------------------------
(* The delegation's interval.                                              *)

\* In an accepted bundle a certificate that does not bear the zero time was
\* issued while the delegation was active, and expires no later than it.
LEMMA ActiveUnlessZero ==
    ASSUME NEW b, VerifyBundle(b), NEW c \in b.certificate,
           NEW d \in b.delegation, NEW a \in b.acceptance
    PROVE  /\ c.payload.issuedAt # ZeroTime => ActiveAt(d, a, c.payload.issuedAt)
           /\ c.payload.expiresAt <= d.payload.expiresAt
  BY DEF VerifyBundle, CertificateOK, VerifyRegistration

\* The rule of bundle verification step 4 holds for every accepted bundle,
\* provided no payload was ever signed with the zero time, Go's sentinel.
THEOREM ActiveAtIssue ==
    ASSUME ZeroTime \notin SignTimes
    PROVE  Spec => []DelegationActiveAtIssue
  <1>1. IInv => DelegationActiveAtIssue
    <2> SUFFICES ASSUME IInv, NEW b \in Accepted, NEW c \in b.certificate,
                        NEW d \in b.delegation, NEW a \in b.acceptance
                 PROVE  ActiveAt(d, a, c.payload.issuedAt)
      BY DEF DelegationActiveAtIssue
    <2>1. VerifyBundle(b) /\ c \in envelopes
      BY AssembledParts DEF Parts
    <2>2. c.payload.issuedAt # ZeroTime
      BY <2>1 DEF IInv, Timed, Stamps
    <2>3. QED
      BY <2>1, <2>2, ActiveUnlessZero
  <1>2. QED
    BY <1>1, IInvAlways, PTL

\* Under the same proviso an accepted certificate's validity lies inside the
\* delegation's.
THEOREM CertificateInside ==
    ASSUME ZeroTime \notin SignTimes
    PROVE  Spec => []CertificateInsideDelegation
  <1>1. IInv /\ DelegationActiveAtIssue => CertificateInsideDelegation
    <2> SUFFICES ASSUME IInv, DelegationActiveAtIssue, NEW b \in Accepted,
                        NEW c \in b.certificate, NEW d \in b.delegation, NEW now \in Horizon,
                        Freshness(c, now) = "valid_at_evaluation_time"
                 PROVE  d.payload.notBefore <= now /\ now < d.payload.expiresAt
      BY DEF CertificateInsideDelegation
    <2>1. VerifyBundle(b) /\ d \in envelopes /\ c \in envelopes
      BY AssembledParts DEF Parts
    <2>2. PICK a : a \in b.acceptance
      BY <2>1 DEF VerifyBundle, VerifySource
    <2>3. /\ ActiveAt(d, a, c.payload.issuedAt)
          /\ c.payload.expiresAt <= d.payload.expiresAt
      BY <2>1, <2>2, ActiveUnlessZero DEF DelegationActiveAtIssue
    <2>4. now \in Nat /\ ~(now < c.payload.issuedAt) /\ ~(now >= c.payload.expiresAt)
      BY HorizonTimes DEF Freshness
    <2>5. /\ d.kind = "delegation"
          /\ c.kind = "certificate"
      BY <2>1, <2>2 DEF VerifyBundle, VerifySource, VerifyRegistration, CertificateOK, Decodes
    <2>6. /\ d.payload.notBefore \in Nat
          /\ d.payload.expiresAt \in Nat
          /\ c.payload.issuedAt \in Nat
          /\ c.payload.expiresAt \in Nat
      BY <2>1, <2>5, StampsAreTimes DEF IInv, Timed
    <2>7. QED
      BY <2>3, <2>4, <2>6 DEF ActiveAt
  <1>2. QED
    BY <1>1, ActiveAtIssue, IInvAlways, PTL

-----------------------------------------------------------------------------
(* Types.                                                                  *)

\* Every recorded time is a number, every issued bundle has its certificate.
THEOREM TypeCorrect == Spec => []TypeOK
  <1> DEFINE Stamped == /\ \A src \in sources : src.at \in Nat
                        /\ \A g \in grants : g.at \in Nat
  <1>1. Init => Stamped
    BY DEF Init
  <1>2. IInv /\ Stamped /\ [Next]_vars => Stamped'
    <2> SUFFICES ASSUME IInv, Stamped, [Next]_vars PROVE Stamped'
      OBVIOUS
    <2>1. \A src \in sources' : src.at \in Nat
      BY SourceKinds DEF GoodSource
    <2>2. \A g \in grants' : g.at \in Nat
      <3>1. CASE UNCHANGED grants
        BY <3>1
      <3>2. ASSUME NEW protocol, NEW s, NEW d, NEW a, NEW admin, NEW audience,
                   NEW visibility, NEW now \in Readings,
                   CreateGrant(protocol, s, d, a, admin, audience, visibility, now)
            PROVE  \A g \in grants' : g.at \in Nat
        <4>1. now \in Nat
          BY ReadingsAreTimes DEF IInv
        <4>2. QED
          BY <3>2, <4>1 DEF CreateGrant
      <3>3. QED
        BY <3>1, <3>2, GrantKinds
    <2>3. QED
      BY <2>1, <2>2
  <1>3. IInv /\ IssuedBundlesVerify /\ Stamped => TypeOK
    BY StampsAreTimes DEF TypeOK, IInv, Timed, IssuedBundlesVerify, Certified
  <1> HIDE DEF Stamped
  <1>4. QED
    BY <1>1, <1>2, <1>3, IInvAlways, IssueImpliesVerify, PTL DEF Spec

-----------------------------------------------------------------------------
(* The verification rules of web/apostille-core.mjs and of                 *)
(* apostille/verify.go agree, but for a certificate dated with Go's zero   *)
(* time.  One lemma per pair of functions, innermost first.                *)

LEMMA SameUsable ==
    ASSUME NEW protocol \in KnownProtocols, NEW key
    PROVE  UsableKey(protocol, key) <=> UsableKeyJS(protocol, key)
  <1>1. MLKeys \cap WeakKeys = {}
    BY CoreAssumption
  <1>2. CASE protocol = "0.1"
    BY <1>2 DEF UsableKey, UsableKeyJS, KeyAlgorithm, Algorithm
  <1>3. CASE protocol = "0.2"
    BY <1>3 DEF UsableKey, UsableKeyJS, KeyAlgorithm, Algorithm
  <1>4. CASE protocol = "0.3"
    BY <1>4 DEF UsableKey, UsableKeyJS, KeyAlgorithm, Algorithm
  <1>5. QED
    BY <1>2, <1>3, <1>4 DEF KnownProtocols

LEMMA SamePayload ==
    ASSUME NEW protocol \in KnownProtocols, NEW kind, NEW p
    PROVE  ValidPayload(protocol, kind, p) <=> ValidPayloadJS(protocol, kind, p)
  <1>1. UsableKey(protocol, p.agentKey) <=> UsableKeyJS(protocol, p.agentKey)
    BY SameUsable
  <1>2. SelfIssued(p) <=> KeyNamed(p)
    BY DEF SelfIssued, KeyNamed
  <1>3. ASSUME NEW start, NEW end
        PROVE  Interval(start, end) <=> end > start
    BY DEF Interval
  <1>4. QED
    BY <1>1, <1>2, <1>3
       DEF ValidPayload, HeaderOK, ValidPayloadJS, DelegationRule, GrantRule, CertificateRule

LEMMA SameEnvelope ==
    ASSUME NEW e, NEW kind
    PROVE  Decodes(e, kind) <=> VerifyEnvelopeJS(e, kind)
  <1>1. CASE e.protocol \in KnownProtocols
    <2>1. UsableKey(e.protocol, e.publicKey) <=> UsableKeyJS(e.protocol, e.publicKey)
      BY <1>1, SameUsable
    <2>2. ValidPayload(e.protocol, e.kind, e.payload)
            <=> ValidPayloadJS(e.protocol, e.kind, e.payload)
      BY <1>1, SamePayload
    <2>3. QED
      BY <2>1, <2>2 DEF Decodes, VerifyEnvelope, VerifyEnvelopeJS
  <1>2. CASE e.protocol \notin KnownProtocols
    BY <1>2 DEF Decodes, VerifyEnvelope, VerifyEnvelopeJS
  <1>3. QED
    BY <1>1, <1>2

\* Go asks for an acceptance whose own key is the delegated one; JavaScript
\* also compares the envelope's key, which a verified envelope makes the same.
LEMMA SameRegistration ==
    ASSUME NEW d, NEW a, NEW audience, NEW at
    PROVE  /\ VerifyRegistration(d, a, audience, ZeroTime)
                <=> RegistrationJS(d, a, audience, {})
           /\ at # ZeroTime =>
                (VerifyRegistration(d, a, audience, at)
                    <=> RegistrationJS(d, a, audience, {at}))
  <1>1. /\ Decodes(d, "delegation") <=> VerifyEnvelopeJS(d, "delegation")
        /\ Decodes(a, "acceptance") <=> VerifyEnvelopeJS(a, "acceptance")
    BY SameEnvelope
  <1>2. VerifyEnvelopeJS(a, "acceptance") => a.publicKey = a.payload.issuerKey
    BY DEF VerifyEnvelopeJS
  <1>3. ActiveAt(d, a, at) <=> ActiveJS(d, a, at)
    BY SMT DEF ActiveAt, ActiveJS
  <1>4. QED
    BY <1>1, <1>2, <1>3 DEF VerifyRegistration, RegistrationJS

LEMMA SameSource ==
    ASSUME NEW b, b.delegation = {} \/ \E d : b.delegation = {d}
    PROVE  VerifySource(b) <=> VerifySourceJS(b)
  <1> DEFINE s == b.statement.payload
  <1>1. Decodes(b.statement, "statement") <=> VerifyEnvelopeJS(b.statement, "statement")
    BY SameEnvelope
  <1>2. VerifyEnvelopeJS(b.statement, "statement") => b.statement.publicKey = s.issuerKey
    BY DEF VerifyEnvelopeJS
  <1>3. \A d, a : VerifyRegistration(d, a, {}, ZeroTime) <=> RegistrationJS(d, a, {}, {})
    BY SameRegistration
  <1>4. SelfIssued(s) <=> KeyNamed(s)
    BY DEF SelfIssued, KeyNamed
  <1>5. CASE b.delegation = {}
    BY <1>1, <1>4, <1>5 DEF VerifySource, VerifySourceJS, OneVersion, NoDigest
  <1>6. CASE b.delegation # {}
    <2>1. PICK d : b.delegation = {d}
      BY <1>6
    <2>2. CASE b.acceptance = {}
      BY <1>6, <2>2 DEF VerifySource, VerifySourceJS
    <2>3. CASE b.acceptance # {}
      BY <1>1, <1>2, <1>3, <1>4, <2>1, <2>3
         DEF VerifySource, VerifySourceJS, OneVersion, Digest
    <2>4. QED
      BY <2>2, <2>3
  <1>7. QED
    BY <1>5, <1>6

LEMMA SameCertificate ==
    ASSUME NEW b, NEW c, c.payload.issuedAt # ZeroTime
    PROVE  CertificateOK(b, c) <=> CertificateOKJS(b, c)
  <1>1. Decodes(c, "certificate") <=> VerifyEnvelopeJS(c, "certificate")
    BY SameEnvelope
  <1>2. \A d, a : VerifyRegistration(d, a, {c.payload.issuer}, c.payload.issuedAt)
           <=> RegistrationJS(d, a, {c.payload.issuer}, {c.payload.issuedAt})
    BY SameRegistration
  <1>3. QED
    BY <1>1, <1>2 DEF CertificateOK, CertificateOKJS

LEMMA SameBundle ==
    ASSUME NEW b, b.delegation = {} \/ \E d : b.delegation = {d},
           \A c \in b.certificate : c.payload.issuedAt # ZeroTime
    PROVE  VerifyBundle(b) <=> VerifyBundleJS(b)
  BY SameSource, SameCertificate DEF VerifyBundle, VerifyBundleJS
=============================================================================
