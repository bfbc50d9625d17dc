--------------------------- MODULE OriginJSProofs ----------------------------
(***************************************************************************)
(* Theorems about the two libraries side by side, for any keys, versions,  *)
(* lifetimes and clocks.  The verifiers agree on every bundle, as long as  *)
(* nobody dates a payload with Go's zero time: OriginProofs compares the   *)
(* rules, and the invariant here is that no envelope carries that date.    *)
(* What either library signs or issues the other accepts: for this, the    *)
(* invariant of OriginProofs is shown of both libraries, next to what is   *)
(* known of every statement and grant that JavaScript's creators signed.   *)
(***************************************************************************)
EXTENDS OriginJS, OriginProofs

-----------------------------------------------------------------------------
(* No party's clock shows the zero time, so only other software could sign *)
(* it into a payload.                                                      *)

Dated ==
    /\ clock \in Nat
    /\ \A e \in envelopes : e.payload.issuedAt # ZeroTime

LEMMA ReadingsDated ==
    ASSUME clock \in Nat
    PROVE  ZeroTime \notin Readings
  BY ProtocolAssumption DEF Readings, ZeroTime

\* Every action seals payloads dated with its clock reading, or SignTimes.
LEMMA SealDated ==
    ASSUME NEW k, NEW v, NEW kind, NEW p, p.issuedAt # ZeroTime
    PROVE  Seal(k, v, kind, p).payload.issuedAt # ZeroTime
  BY DEF Seal

LEMMA PayloadsDated ==
    ASSUME NEW at, at # ZeroTime
    PROVE  /\ \A v, k, id, d, f : Statement(v, k, id, d, f, at).issuedAt # ZeroTime
           /\ \A v, k, id, g, n, s, x : Delegation(v, k, id, g, n, at, s, x).issuedAt # ZeroTime
           /\ \A v, k, id, d : Acceptance(v, k, id, d, at).issuedAt # ZeroTime
           /\ \A v, k, s, d, n, w, x : Grant(v, k, s, d, n, w, at, x).issuedAt # ZeroTime
           /\ \A v, k, n, s, d, r, g, x :
                 Certificate(v, k, n, s, d, r, g, at, x).issuedAt # ZeroTime
  BY DEF Statement, Delegation, Acceptance, Grant, Certificate

LEMMA DatedAdd ==
    ASSUME Dated, UNCHANGED clock, NEW k, NEW v, NEW kind, NEW p, p.issuedAt # ZeroTime,
           envelopes' = envelopes \cup {Seal(k, v, kind, p)}
    PROVE  Dated'
  BY SealDated DEF Dated

LEMMA DatedStep ==
    ASSUME ZeroTime \notin SignTimes, Dated, [NextJS]_varsJS
    PROVE  Dated'
  <1>1. ZeroTime \notin Readings
    BY ReadingsDated DEF Dated
  <1>2. CASE UNCHANGED varsJS
    BY <1>2 DEF Dated, varsJS, vars
  <1>3. CASE Tick
    BY <1>3 DEF Dated, Tick
  <1>4. ASSUME NEW protocol, NEW admin, NEW agent, NEW audience, NEW id,
               NEW validFor, NEW carry, NEW now \in Readings,
               CreateRegistration(protocol, admin, agent, audience, id, validFor, carry, now)
        PROVE  Dated'
    BY <1>1, <1>4, SealDated, PayloadsDated DEF CreateRegistration, Dated
  <1>5. ASSUME NEW protocol, NEW agent, NEW d, NEW a, NEW artifact, NEW now \in Readings,
               CreateStatement(protocol, agent, d, a, artifact, now)
        PROVE  Dated'
    <2> DEFINE p == Statement(protocol, agent, d.payload.agentID, Digest(d), artifact, now)
    <2>1. /\ envelopes' = envelopes \cup {Seal(agent, protocol, "statement", p)}
          /\ UNCHANGED clock
      BY <1>5 DEF CreateStatement
    <2>2. p.issuedAt # ZeroTime
      BY <1>1, PayloadsDated
    <2> HIDE DEF p
    <2>3. QED
      BY <2>1, <2>2, DatedAdd
  <1>6. ASSUME NEW protocol, NEW agent, NEW artifact, NEW id, NEW now \in Readings,
               CreateProducerStatement(protocol, agent, id, artifact, now)
        PROVE  Dated'
    BY <1>1, <1>6, SealDated, PayloadsDated DEF CreateProducerStatement, Dated
  <1>7. ASSUME NEW protocol, NEW s, NEW d, NEW a, NEW admin, NEW audience,
               NEW visibility, NEW now \in Readings,
               CreateGrant(protocol, s, d, a, admin, audience, visibility, now)
        PROVE  Dated'
    BY <1>1, <1>7, SealDated, PayloadsDated DEF CreateGrant, Dated
  <1>8. ASSUME NEW b, NEW key, NEW issuer, NEW now \in Readings,
               Issue(b, key, issuer, now) \/ IssueJS(b, key, issuer, now)
        PROVE  Dated'
    <2> DEFINE p == IssuedCertificate(b, key, issuer, now)
    <2>1. /\ envelopes' = envelopes \cup {Seal(key, b.protocol, "certificate", p)}
          /\ UNCHANGED clock
      BY <1>8 DEF Issue, IssueJS
    <2>2. p.issuedAt # ZeroTime
      BY <1>1, PayloadsDated DEF IssuedCertificate
    <2> HIDE DEF p
    <2>3. QED
      BY <2>1, <2>2, DatedAdd
  <1>9. ASSUME NEW protocol, NEW key, NEW p \in OtherPayloads(protocol, key),
               SignFor(key, protocol, p.kind, p)
        PROVE  Dated'
    <2>1. p.issuedAt \in SignTimes
      BY DEF OtherPayloads, Delegation, Acceptance, Statement, Certificate
    <2>2. QED
      BY <1>9, <2>1, SealDated DEF SignFor, Dated
  <1>10. ASSUME NEW protocol, NEW admin, NEW agent, NEW audience, NEW id,
                NEW lifetime, NEW now \in Readings,
                CreateRegistrationJS(protocol, admin, agent, audience, id, lifetime, now)
         PROVE  Dated'
    BY <1>1, <1>10, SealDated, PayloadsDated DEF CreateRegistrationJS, Dated
  <1>11. ASSUME NEW protocol, NEW agent, NEW artifact, NEW id, NEW now \in Readings,
                CreateProducerStatementJS(protocol, agent, id, artifact, now)
         PROVE  Dated'
    BY <1>1, <1>11, SealDated, PayloadsDated DEF CreateProducerStatementJS, Dated
  <1>12. ASSUME NEW agent, NEW d, NEW a, NEW artifact, NEW now \in Readings,
                CreateStatementJS(agent, d, a, artifact, now)
         PROVE  Dated'
    BY <1>1, <1>12, SealDated, PayloadsDated DEF CreateStatementJS, Dated
  <1>13. ASSUME NEW s, NEW d, NEW a, NEW admin, NEW audience, NEW visibility,
                NEW now \in Readings,
                CreateGrantJS(s, d, a, admin, audience, visibility, now)
         PROVE  Dated'
    BY <1>1, <1>13, SealDated, PayloadsDated DEF CreateGrantJS, Dated
  <1>14. CASE Next /\ UNCHANGED scripted
    BY <1>3, <1>4, <1>5, <1>6, <1>7, <1>8, <1>9, <1>14 DEF Next
  <1>15. QED
    BY <1>2, <1>8, <1>10, <1>11, <1>12, <1>13, <1>14 DEF NextJS

\* Both verifiers give the same verdict, and the same freshness, on every
\* bundle anybody can put together, if no payload is dated with the zero time.
THEOREM OneVerdict ==
    ASSUME ZeroTime \notin SignTimes
    PROVE  SpecJS => []SameVerdict
  <1>1. InitJS => Dated
    BY DEF InitJS, Init, Dated
  <1>2. Dated /\ [NextJS]_varsJS => Dated'
    BY DatedStep
  <1>3. Dated => SameVerdict
    <2> SUFFICES ASSUME Dated, NEW b \in Assembled(Optional(Of("certificate")))
                 PROVE  /\ VerifyBundle(b) = VerifyBundleJS(b)
                        /\ \A c \in b.certificate, t \in Horizon :
                              Freshness(c, t) = FreshnessJS(c, t)
      BY DEF SameVerdict
    <2>1. /\ b.delegation \in Optional(Of("delegation"))
          /\ b.certificate \in Optional(Of("certificate"))
      BY DEF Assembled, Bundle
    <2>2. \A c \in b.certificate : c.payload.issuedAt # ZeroTime
      BY <2>1 DEF Dated, Optional, Of
    <2>3. VerifyBundle(b) <=> VerifyBundleJS(b)
      BY <2>1, <2>2, SameBundle DEF Optional
    <2>4. VerifyBundle(b) \in BOOLEAN /\ VerifyBundleJS(b) \in BOOLEAN
      BY DEF VerifyBundle, VerifyBundleJS
    <2>5. \A t \in Horizon : t # ZeroTime
      BY ProtocolAssumption DEF Horizon, ZeroTime
    <2>6. ASSUME NEW c \in b.certificate, NEW t \in Horizon
          PROVE  Freshness(c, t) = FreshnessJS(c, t)
      BY <2>5 DEF Freshness, FreshnessJS
    <2>7. QED
      BY <2>3, <2>4, <2>6
  <1>4. QED
    BY <1>1, <1>2, <1>3, PTL DEF SpecJS

-----------------------------------------------------------------------------
(* What the JavaScript creators sign is what Go's SignFor would have       *)
(* signed, so the invariant of OriginProofs holds of both libraries.       *)

LEMMA SameSign ==
    ASSUME NEW key, NEW protocol \in KnownProtocols, NEW kind, NEW p
    PROVE  CanSign(key, protocol, kind, p) <=> CanSignJS(key, protocol, kind, p)
  BY SameUsable, SamePayload DEF CanSign, CanSignJS

\* A bundle that JavaScript certifies is one that Go certifies in the same way.
LEMMA IssueIsGo ==
    ASSUME IInv, NEW b \in Assembled({{}}), NEW key, NEW issuer, NEW now \in Readings,
           IssueJS(b, key, issuer, now)
    PROVE  Issue(b, key, issuer, now)
  <1>1. /\ b.certificate = {} /\ VerifyBundleJS(b)
        /\ b.statement.payload.issuedAt <= now + Skew
        /\ \A d \in b.delegation, a \in b.acceptance :
              /\ RegistrationJS(d, a, {issuer}, {now})
              /\ b.statement.payload.issuedAt >= d.payload.notBefore
        /\ CanSignJS(key, b.protocol, "certificate", IssuedCertificate(b, key, issuer, now))
    <2> DEFINE p == IssuedCertificate(b, key, issuer, now)
               c == Seal(key, b.protocol, "certificate", p)
    <2>1. CanSignJS(key, b.protocol, "certificate", c.payload)
      BY DEF IssueJS
    <2>2. c.payload = p
      BY SealFields
    <2>3. CanSignJS(key, b.protocol, "certificate", p)
      BY <2>1, <2>2
    <2> HIDE DEF p, c
    <2>4. QED
      BY <2>3 DEF IssueJS, p
  <1>2. now # ZeroTime
    BY ReadingsAreTimes DEF IInv, ZeroTime
  <1>3. b.delegation = {} \/ \E d : b.delegation = {d}
    BY Attached DEF Optional
  <1>4. VerifySource(b) /\ b.protocol \in KnownProtocols
    BY <1>1, <1>3, SameSource DEF VerifyBundleJS, VerifySourceJS
  <1>5. \A d, a : RegistrationJS(d, a, {issuer}, {now}) => VerifyRegistration(d, a, {issuer}, now)
    BY <1>2, SameRegistration
  <1>6. IssueAccepts(b, key, issuer, now)
    BY <1>1, <1>2, <1>4, <1>5, SameSign DEF IssueAccepts
  <1>7. QED
    BY <1>6 DEF IssueJS, Issue

\* An envelope sealed over a payload that JavaScript signs, with a time of a
\* clock, can be added without harm.
LEMMA AddJS ==
    ASSUME IInv, UNCHANGED clock, NEW k, NEW v \in KnownProtocols, NEW kind, NEW p,
           CanSignJS(k, v, kind, p), p.issuedAt \in Stamps,
           kind \notin {"delegation", "certificate"},
           envelopes' = envelopes \cup {Seal(k, v, kind, p)}
    PROVE  IInv'
  <1>1. CanSign(k, v, kind, p)
    BY SameSign
  <1>2. Sealed'
    BY <1>1, SealIsSealed, SealFields DEF IInv, Sealed
  <1>3. Timed'
    BY TimedAdd DEF IInv
  <1>4. QED
    BY <1>2, <1>3 DEF IInv

LEMMA RegistrationAddJS ==
    ASSUME IInv, NEW protocol \in Protocols, NEW admin, NEW agent, NEW audience, NEW id,
           NEW lifetime \in Validities, NEW now \in Readings,
           CreateRegistrationJS(protocol, admin, agent, audience, id, lifetime, now)
    PROVE  IInv'
  <1> DEFINE d == Seal(admin, protocol, "delegation",
                       Delegation(protocol, admin, id, agent, audience,
                                  now, now, now + lifetime))
             a == Seal(agent, protocol, "acceptance",
                       Acceptance(protocol, agent, id, Digest(d), now))
  <1>1. /\ CanSignJS(admin, protocol, "delegation", d.payload)
        /\ CanSignJS(agent, protocol, "acceptance", a.payload)
        /\ envelopes' = envelopes \cup {d, a}
        /\ UNCHANGED clock
    BY DEF CreateRegistrationJS
  <1>2. now \in Nat /\ now \in Stamps /\ now + lifetime \in Nat
    BY ReadingsAreTimes, ProtocolAssumption DEF IInv
  <1>3. /\ d.payload.issuedAt = now
        /\ d.payload.notBefore = now
        /\ d.payload.expiresAt = now + lifetime
    BY SealFields DEF Delegation
  <1>4. a.kind = "acceptance" /\ a.payload.issuedAt = now
    BY SealFields DEF Acceptance
  <1>5. protocol \in KnownProtocols
    BY ProtocolAssumption
  <1> HIDE DEF d, a
  <1>6. \A e \in {d, a} : /\ e = Seal(e.publicKey, e.protocol, e.kind, e.payload)
                          /\ CanSign(e.publicKey, e.protocol, e.kind, e.payload)
    BY <1>1, <1>5, SameSign, SealIsSealed DEF d, a
  <1>7. Sealed'
    BY <1>1, <1>6 DEF IInv, Sealed
  <1>8. Timed'
    BY <1>1, <1>2, <1>3, <1>4 DEF IInv, Timed
  <1>9. QED
    BY <1>1, <1>7, <1>8 DEF IInv

\* What a recorded source of createStatement is: GoodSource, but for a
\* delegation that need not have started.
SignedSource(src) ==
    LET b == src.bundle IN
    /\ src.at \in Nat
    /\ VerifySource(b)
    /\ b.certificate = {}
    /\ b.statement.payload.issuedAt = src.at
    /\ \E S : b.delegation \in Optional(S)
    /\ \A d \in b.delegation : d.payload.expiresAt \in Nat

LEMMA StatementJS ==
    ASSUME IInv, NEW agent, NEW d \in Of("delegation"), NEW a, NEW artifact,
           NEW now \in Readings, CreateStatementJS(agent, d, a, artifact, now)
    PROVE  /\ IInv'
           /\ \E src : SignedSource(src) /\ sourcesJS' = sourcesJS \cup {src}
  <1> DEFINE p == Statement(d.protocol, agent, d.payload.agentID, Digest(d), artifact, now)
             s == Seal(agent, d.protocol, "statement", p)
             b == Bundle(d.protocol, s, {d}, {a}, {})
             src == [bundle |-> b, at |-> now]
  <1>1. /\ d.protocol = a.protocol
        /\ RegistrationJS(d, a, {}, {})
        /\ d.payload.agentKey = agent
        /\ CanSignJS(agent, d.protocol, "statement", s.payload)
        /\ envelopes' = envelopes \cup {s}
        /\ sourcesJS' = sourcesJS \cup {src}
        /\ UNCHANGED clock
    BY DEF CreateStatementJS
  <1>2. /\ p.issuer = KeyIdentity(agent)
        /\ p.issuerKey = agent
        /\ p.issuedAt = now
        /\ p.agentID = d.payload.agentID
        /\ p.delegation = {d}
    BY DEF Statement, Digest
  <1> HIDE DEF p
  <1>3. VerifyRegistration(d, a, {}, ZeroTime) /\ d.protocol \in KnownProtocols
    BY <1>1, SameRegistration DEF RegistrationJS, VerifyEnvelopeJS
  <1>4. s.payload = p /\ s.protocol = d.protocol
    BY SealFields
  <1>5. CanSign(agent, d.protocol, "statement", p)
    BY <1>1, <1>3, <1>4, SameSign
  <1>6. Decodes(s, "statement")
    BY <1>5, SealFields, SealVerifies DEF Decodes
  <1>7. now \in Nat /\ now \in Stamps
    BY ReadingsAreTimes DEF IInv
  <1>8. IInv'
    BY <1>1, <1>2, <1>3, <1>4, <1>7, AddJS
  <1> HIDE DEF s
  <1>9. /\ b.protocol = d.protocol
        /\ b.statement = s
        /\ b.delegation = {d}
        /\ b.acceptance = {a}
        /\ b.certificate = {}
    BY DEF Bundle
  <1>10. src.bundle = b /\ src.at = now
    OBVIOUS
  <1> HIDE DEF b, src
  <1>11. d.payload.expiresAt \in Nat
    BY DEF IInv, Timed, Of
  <1>12. OneVersion(b)
    BY <1>1, <1>3, <1>4, <1>9 DEF OneVersion, Parts
  <1>13. VerifySource(b)
    BY <1>1, <1>2, <1>3, <1>4, <1>6, <1>9, <1>12 DEF VerifySource, SelfIssued
  <1>14. b.delegation \in Optional({d})
    BY <1>9 DEF Optional
  <1>15. SignedSource(src)
    BY <1>2, <1>4, <1>7, <1>9, <1>10, <1>11, <1>13, <1>14 DEF SignedSource
  <1>16. QED
    BY <1>1, <1>8, <1>15

LEMMA ProducerStatementJS ==
    ASSUME IInv, NEW protocol \in Protocols, NEW agent, NEW id, NEW artifact,
           NEW now \in Readings,
           CreateProducerStatementJS(protocol, agent, id, artifact, now)
    PROVE  /\ IInv'
           /\ \E src : SignedSource(src) /\ sourcesJS' = sourcesJS \cup {src}
  <1> DEFINE p == Statement(protocol, agent, id, NoDigest, artifact, now)
             s == Seal(agent, protocol, "statement", p)
             b == Bundle(protocol, s, {}, {}, {})
             src == [bundle |-> b, at |-> now]
  <1>1. /\ CanSignJS(agent, protocol, "statement", s.payload)
        /\ envelopes' = envelopes \cup {s}
        /\ sourcesJS' = sourcesJS \cup {src}
        /\ UNCHANGED clock
    BY DEF CreateProducerStatementJS
  <1>2. /\ p.issuer = KeyIdentity(agent)
        /\ p.issuerKey = agent
        /\ p.issuedAt = now
        /\ p.delegation = {}
    BY DEF Statement, NoDigest
  <1> HIDE DEF p
  <1>3. protocol \in KnownProtocols
    BY ProtocolAssumption
  <1>4. s.payload = p /\ s.protocol = protocol
    BY SealFields
  <1>5. CanSign(agent, protocol, "statement", p)
    BY <1>1, <1>3, <1>4, SameSign
  <1>6. Decodes(s, "statement")
    BY <1>5, SealFields, SealVerifies DEF Decodes
  <1>7. now \in Nat /\ now \in Stamps
    BY ReadingsAreTimes DEF IInv
  <1>8. IInv'
    BY <1>1, <1>2, <1>3, <1>4, <1>7, AddJS
  <1> HIDE DEF s
  <1>9. /\ b.protocol = protocol
        /\ b.statement = s
        /\ b.delegation = {}
        /\ b.acceptance = {}
        /\ b.certificate = {}
    BY DEF Bundle
  <1>10. src.bundle = b /\ src.at = now
    OBVIOUS
  <1> HIDE DEF b, src
  <1>11. OneVersion(b)
    BY <1>3, <1>4, <1>9 DEF OneVersion, Parts
  <1>12. VerifySource(b)
    BY <1>2, <1>4, <1>6, <1>9, <1>11 DEF VerifySource, SelfIssued
  <1>13. b.delegation \in Optional({})
    BY <1>9 DEF Optional
  <1>14. SignedSource(src)
    BY <1>2, <1>4, <1>7, <1>9, <1>10, <1>12, <1>13 DEF SignedSource
  <1>15. QED
    BY <1>1, <1>8, <1>14

\* What a recorded grant of createGrant is: an envelope that verifies, for the
\* statement and delegation it was given, and a lifetime of GrantLife.
SignedGrant(g) ==
    LET e == g.envelope
        s == g.source.statement IN
    /\ g.at \in Nat
    /\ e.protocol = s.protocol
    /\ Decodes(e, "grant")
    /\ e.payload.statement = Digest(s)
    /\ e.payload.issuedAt = g.at
    /\ e.payload.expiresAt = g.at + GrantLife
    /\ \E d : /\ g.source.delegation = {d}
              /\ e.protocol = d.protocol /\ e.payload.delegation = Digest(d)

LEMMA GrantJS ==
    ASSUME IInv, NEW s \in envelopes, NEW d, NEW a, NEW admin, NEW audience, NEW visibility,
           NEW now \in Readings, CreateGrantJS(s, d, a, admin, audience, visibility, now)
    PROVE  /\ IInv'
           /\ \E g : SignedGrant(g) /\ grantsJS' = grantsJS \cup {g}
  <1> DEFINE p == Grant(s.protocol, admin, Digest(s), Digest(d), audience,
                        visibility, now, now + GrantLife)
             e == Seal(admin, s.protocol, "grant", p)
             b == Bundle(s.protocol, s, {d}, {a}, {})
             g == [envelope |-> e, source |-> b, at |-> now]
  <1>1. /\ s.protocol = d.protocol
        /\ CanSignJS(admin, s.protocol, "grant", e.payload)
        /\ envelopes' = envelopes \cup {e}
        /\ grantsJS' = grantsJS \cup {g}
        /\ UNCHANGED clock
    BY DEF CreateGrantJS
  <1>2. /\ p.issuedAt = now
        /\ p.statement = Digest(s)
        /\ p.delegation = Digest(d)
        /\ p.expiresAt = now + GrantLife
    BY DEF Grant
  <1> HIDE DEF p
  <1>3. s.protocol \in KnownProtocols
    BY DEF IInv, Sealed, CanSign
  <1>4. e.payload = p /\ e.protocol = s.protocol
    BY SealFields
  <1>5. CanSign(admin, s.protocol, "grant", p)
    BY <1>1, <1>3, <1>4, SameSign
  <1>6. Decodes(e, "grant")
    BY <1>5, SealFields, SealVerifies DEF Decodes
  <1>7. now \in Nat /\ now \in Stamps
    BY ReadingsAreTimes DEF IInv
  <1>8. IInv'
    BY <1>1, <1>2, <1>3, <1>4, <1>7, AddJS
  <1> HIDE DEF e
  <1>9. b.statement = s /\ b.delegation = {d}
    BY DEF Bundle
  <1>10. g.envelope = e /\ g.source = b /\ g.at = now
    OBVIOUS
  <1> HIDE DEF b, g
  <1>11. SignedGrant(g)
    BY <1>1, <1>2, <1>4, <1>6, <1>7, <1>9, <1>10 DEF SignedGrant
  <1>12. QED
    BY <1>1, <1>8, <1>11

-----------------------------------------------------------------------------
(* The inductive invariant of both libraries.                              *)

Signed ==
    /\ IInv
    /\ \A src \in sourcesJS : SignedSource(src)
    /\ \A g \in grantsJS : SignedGrant(g)

\* One step of either library: Go's, or one of JavaScript's creators.
LEMMA SignedStep == Signed /\ [NextJS]_varsJS => Signed'
  <1> SUFFICES ASSUME Signed, [NextJS]_varsJS PROVE Signed'
    OBVIOUS
  <1>1. CASE [Next]_vars /\ UNCHANGED scripted
    <2>1. IInv'
      BY <1>1, SealedStep, TimedStep, ClockStep DEF Signed, IInv
    <2>2. QED
      BY <1>1, <2>1 DEF Signed, scripted
  <1>2. ASSUME NEW protocol \in Protocols, NEW admin, NEW agent, NEW audience, NEW id,
               NEW lifetime \in Validities, NEW now \in Readings,
               CreateRegistrationJS(protocol, admin, agent, audience, id, lifetime, now)
        PROVE  Signed'
    <2>1. IInv'
      BY <1>2, RegistrationAddJS DEF Signed
    <2>2. QED
      BY <1>2, <2>1 DEF CreateRegistrationJS, scripted, Signed
  <1>3. ASSUME NEW protocol \in Protocols, NEW agent, NEW artifact, NEW id, NEW now \in Readings,
               CreateProducerStatementJS(protocol, agent, id, artifact, now)
        PROVE  Signed'
    <2>1. IInv' /\ \E src : SignedSource(src) /\ sourcesJS' = sourcesJS \cup {src}
      BY <1>3, ProducerStatementJS DEF Signed
    <2>2. QED
      BY <1>3, <2>1 DEF CreateProducerStatementJS, Signed
  <1>4. ASSUME NEW agent, NEW d \in Of("delegation"), NEW a, NEW artifact, NEW now \in Readings,
               CreateStatementJS(agent, d, a, artifact, now)
        PROVE  Signed'
    <2>1. IInv' /\ \E src : SignedSource(src) /\ sourcesJS' = sourcesJS \cup {src}
      BY <1>4, StatementJS DEF Signed
    <2>2. QED
      BY <1>4, <2>1 DEF CreateStatementJS, Signed
  <1>5. ASSUME NEW s \in Of("statement"), NEW d, NEW a, NEW admin, NEW audience,
               NEW visibility, NEW now \in Readings,
               CreateGrantJS(s, d, a, admin, audience, visibility, now)
        PROVE  Signed'
    <2>1. IInv' /\ \E g : SignedGrant(g) /\ grantsJS' = grantsJS \cup {g}
      BY <1>5, GrantJS DEF Signed, Of
    <2>2. QED
      BY <1>5, <2>1 DEF CreateGrantJS, Signed
  <1>6. ASSUME NEW b \in Assembled({{}}), NEW key \in Signers, NEW issuer \in Issuers,
               NEW now \in Readings, IssueJS(b, key, issuer, now)
        PROVE  [Next]_vars /\ UNCHANGED scripted
    <2>1. Issue(b, key, issuer, now)
      BY <1>6, IssueIsGo DEF Signed
    <2>2. QED
      BY <1>6, <2>1 DEF IssueJS, Next
  <1>7. CASE UNCHANGED varsJS
    BY <1>1, <1>7 DEF varsJS
  <1>8. QED
    BY <1>1, <1>2, <1>3, <1>4, <1>5, <1>6, <1>7 DEF NextJS

\* Every envelope that either library signed is Go's for the same payload.
LEMMA SignedAlways == SpecJS => []Signed
  <1>1. InitJS => Signed
    BY DEF InitJS, Init, Signed, IInv, Sealed, Timed
  <1>2. QED
    BY <1>1, SignedStep, PTL DEF SpecJS

\* createStatement asks less than CreateStatementFor, but what it signs is a
\* source that verifies and that Go certifies under the conditions named.
THEOREM BrowserStatementsCertifiable == SpecJS => []BrowserSourcesIssuable
  <1>1. Signed => BrowserSourcesIssuable
    <2> SUFFICES ASSUME Signed, NEW src \in sourcesJS
                 PROVE  /\ VerifySource(src.bundle)
                        /\ \A key \in Signers, issuer \in Issuers :
                              \A now \in {t \in Horizon : src.at <= t + Skew} :
                                 /\ UsableKey(src.bundle.protocol, key)
                                 /\ ValidIssuer(src.bundle.protocol, issuer)
                                 /\ \A d \in src.bundle.delegation, a \in src.bundle.acceptance :
                                       /\ d.payload.audience = issuer
                                       /\ ActiveAt(d, a, now)
                                       /\ d.payload.notBefore <= src.at
                                 => IssueAccepts(src.bundle, key, issuer, now)
      BY DEF BrowserSourcesIssuable
    <2>1. SignedSource(src)
      BY DEF Signed
    <2>2. ASSUME NEW key \in Signers, NEW issuer \in Issuers, NEW now \in Horizon,
                 src.at <= now + Skew,
                 UsableKey(src.bundle.protocol, key),
                 ValidIssuer(src.bundle.protocol, issuer),
                 \A d \in src.bundle.delegation, a \in src.bundle.acceptance :
                    /\ d.payload.audience = issuer
                    /\ ActiveAt(d, a, now)
                    /\ src.at >= d.payload.notBefore
          PROVE  IssueAccepts(src.bundle, key, issuer, now)
      <3>1. now \in Nat /\ now # ZeroTime
        BY HorizonTimes
      <3>2. PICK S : src.bundle.delegation \in Optional(S)
        BY <2>1 DEF SignedSource
      <3>3. QED
        BY <2>1, <2>2, <3>1, <3>2, Certifiable DEF SignedSource
    <2>3. QED
      BY <2>1, <2>2 DEF SignedSource
  <1>2. QED
    BY <1>1, SignedAlways, PTL

\* A source taken under a grant of createGrant is the one the grant was made
\* for: digests are of one envelope each, and the source verifies.
LEMMA TakenIsGranted ==
    ASSUME NEW g, SignedGrant(g), NEW now, NEW S, NEW b, b.delegation \in Optional(S),
           TakenUnder(g.envelope, b, now)
    PROVE  /\ g.at <= now + Skew /\ now < g.at + GrantLife
           /\ b.statement = g.source.statement /\ b.delegation = g.source.delegation
           /\ \A d \in g.source.delegation :
                 /\ g.envelope.payload.issuerKey = d.payload.issuerKey
                 /\ g.envelope.payload.audience = d.payload.audience
                 /\ g.source.statement.payload.delegation = Digest(d)
                 /\ g.source.statement.signature.by = d.payload.agentKey
  <1>1. PICK x : b.delegation = {x}
    BY DEF TakenUnder, Optional
  <1>2. PICK d : g.source.delegation = {d} /\ g.envelope.payload.delegation = Digest(d)
    BY DEF SignedGrant
  <1>3. ValidateGrant(g.envelope, b.statement, x, x.payload.issuerKey, x.payload.audience, now)
    BY <1>1 DEF TakenUnder
  <1>4. /\ x = d /\ b.statement = g.source.statement
        /\ g.at <= now + Skew /\ now < g.at + GrantLife
    BY <1>2, <1>3 DEF ValidateGrant, SignedGrant, Digest
  <1>5. VerifySource(b)
    BY DEF TakenUnder
  <1>6. b.statement.signature.by = b.statement.payload.issuerKey
    BY <1>5 DEF VerifySource, Decodes, VerifyEnvelope, SignatureBy
  <1>7. PICK a : a \in b.acceptance
    BY <1>1, <1>5 DEF VerifySource
  <1>8. b.statement.payload.delegation = Digest(x) /\ b.statement.payload.issuerKey = x.payload.agentKey
    BY <1>1, <1>5, <1>7 DEF VerifySource, Digest
  <1>9. QED
    BY <1>1, <1>2, <1>3, <1>4, <1>6, <1>8 DEF ValidateGrant

\* createGrant verifies nothing, and need not: a service takes the source of its
\* grant for the grant's lifetime if that verifies and names the same
\* administrator and audience, and under the grant it never takes another.
THEOREM BrowserGrantsUsable == SpecJS => []BrowserGrantsAccepted
  <1>1. Signed => BrowserGrantsAccepted
    <2> SUFFICES ASSUME Signed, NEW g \in grantsJS, NEW now \in Horizon
                 PROVE  LET own == \A d \in g.source.delegation :
                                      /\ g.envelope.payload.issuerKey = d.payload.issuerKey
                                      /\ g.envelope.payload.audience = d.payload.audience IN
                        /\ /\ own /\ VerifySource(g.source)
                           /\ g.at <= now + Skew /\ now < g.at + GrantLife
                           => TakenUnder(g.envelope, g.source, now)
                        /\ \A b \in Assembled({{}}) : TakenUnder(g.envelope, b, now) =>
                              /\ own /\ g.at <= now + Skew /\ now < g.at + GrantLife
                              /\ b.statement = g.source.statement
                              /\ b.delegation = g.source.delegation
                              /\ \A d \in g.source.delegation :
                                    /\ g.source.statement.payload.delegation = Digest(d)
                                    /\ g.source.statement.signature.by = d.payload.agentKey
      BY DEF BrowserGrantsAccepted
    <2>1. SignedGrant(g)
      BY DEF Signed
    <2>2. ASSUME VerifySource(g.source), g.at <= now + Skew, now < g.at + GrantLife,
                 NEW d \in g.source.delegation,
                 g.envelope.payload.issuerKey = d.payload.issuerKey,
                 g.envelope.payload.audience = d.payload.audience
          PROVE  ValidateGrant(g.envelope, g.source.statement, d,
                               d.payload.issuerKey, d.payload.audience, now)
      <3>1. now # ZeroTime
        BY HorizonTimes
      <3>2. (g.at + GrantLife) - g.at <= GrantMax
        BY <2>1, ProtocolAssumption, CoreAssumption DEF SignedGrant
      <3>3. QED
        BY <2>1, <2>2, <3>1, <3>2 DEF SignedGrant, ValidateGrant
    <2>3. g.source.delegation # {}
      BY <2>1 DEF SignedGrant
    <2>4. ASSUME NEW b \in Assembled({{}})
          PROVE  b.delegation \in Optional(Of("delegation"))
      BY DEF Assembled, Bundle
    <2> DEFINE own == \A d \in g.source.delegation :
                        /\ g.envelope.payload.issuerKey = d.payload.issuerKey
                        /\ g.envelope.payload.audience = d.payload.audience
    <2>5. ASSUME own, VerifySource(g.source), g.at <= now + Skew, now < g.at + GrantLife
          PROVE  TakenUnder(g.envelope, g.source, now)
      BY <2>2, <2>3, <2>5 DEF TakenUnder
    <2>6. ASSUME NEW b \in Assembled({{}}), TakenUnder(g.envelope, b, now)
          PROVE  /\ own /\ g.at <= now + Skew /\ now < g.at + GrantLife
                 /\ b.statement = g.source.statement
                 /\ b.delegation = g.source.delegation
                 /\ \A d \in g.source.delegation :
                       /\ g.source.statement.payload.delegation = Digest(d)
                       /\ g.source.statement.signature.by = d.payload.agentKey
      <3>1. b.delegation \in Optional(Of("delegation"))
        BY <2>4
      <3>2. /\ g.at <= now + Skew /\ now < g.at + GrantLife
            /\ b.statement = g.source.statement /\ b.delegation = g.source.delegation
            /\ \A d \in g.source.delegation :
                  /\ g.envelope.payload.issuerKey = d.payload.issuerKey
                  /\ g.envelope.payload.audience = d.payload.audience
                  /\ g.source.statement.payload.delegation = Digest(d)
                  /\ g.source.statement.signature.by = d.payload.agentKey
        BY <2>1, <2>6, <3>1, TakenIsGranted, Zenon
      <3>3. QED
        BY <3>2
    <2>7. QED
      BY <2>5, <2>6
  <1>2. QED
    BY <1>1, SignedAlways, PTL

\* Only Issue, in either library, adds to bundles.
LEMMA BundleKinds ==
    ASSUME Signed, [NextJS]_varsJS
    PROVE  \/ UNCHANGED bundles
           \/ \E b \in Assembled({{}}), key \in Signers, issuer \in Issuers,
                 now \in Readings : Issue(b, key, issuer, now)
  <1>1. ASSUME NEW b \in Assembled({{}}), NEW key \in Signers, NEW issuer \in Issuers,
               NEW now \in Readings, IssueJS(b, key, issuer, now)
        PROVE  Issue(b, key, issuer, now)
    BY <1>1, IssueIsGo DEF Signed
  <1>2. UNCHANGED varsJS => [Next]_vars
    BY DEF varsJS
  <1>3. [Next]_vars =>
           \/ UNCHANGED bundles
           \/ \E b \in Assembled({{}}), key \in Signers, issuer \in Issuers,
                 now \in Readings : Issue(b, key, issuer, now)
    BY StepKinds
  <1>4. ASSUME NEW protocol, NEW admin, NEW agent, NEW audience, NEW id, NEW lifetime, NEW now,
               CreateRegistrationJS(protocol, admin, agent, audience, id, lifetime, now)
        PROVE  UNCHANGED bundles
    BY <1>4 DEF CreateRegistrationJS
  <1>5. ASSUME NEW protocol, NEW agent, NEW id, NEW artifact, NEW now,
               CreateProducerStatementJS(protocol, agent, id, artifact, now)
        PROVE  UNCHANGED bundles
    BY <1>5 DEF CreateProducerStatementJS
  <1>6. ASSUME NEW agent, NEW d, NEW a, NEW artifact, NEW now,
               CreateStatementJS(agent, d, a, artifact, now)
        PROVE  UNCHANGED bundles
    BY <1>6 DEF CreateStatementJS
  <1>7. ASSUME NEW s, NEW d, NEW a, NEW admin, NEW audience, NEW visibility, NEW now,
               CreateGrantJS(s, d, a, admin, audience, visibility, now)
        PROVE  UNCHANGED bundles
    BY <1>7 DEF CreateGrantJS
  <1>8. QED
    BY <1>1, <1>2, <1>3, <1>4, <1>5, <1>6, <1>7 DEF NextJS

\* A certificate of either library, over pieces made by both, is accepted by
\* both, whatever other software dates its payloads with.
THEOREM EitherVerifies == SpecJS => []IssuedByEitherVerify
  <1> DEFINE Kept == /\ \A b \in bundles :
                          /\ Certified(b)
                          /\ b.delegation = {} \/ \E d : b.delegation = {d}
                          /\ \A c \in b.certificate :
                               /\ c.payload.issuedAt # ZeroTime
                               /\ c.payload.expiresAt <= c.payload.issuedAt + CertificateLife
  <1>1. InitJS => Kept
    BY DEF InitJS, Init
  <1>2. Signed /\ Kept /\ [NextJS]_varsJS => Kept'
    <2> SUFFICES ASSUME Signed, Kept, [NextJS]_varsJS PROVE Kept'
      OBVIOUS
    <2>1. CASE UNCHANGED bundles
      BY <2>1
    <2>2. ASSUME NEW b \in Assembled({{}}), NEW key, NEW issuer, NEW now \in Readings,
                 Issue(b, key, issuer, now)
          PROVE  Kept'
      <3> DEFINE c == Seal(key, b.protocol, "certificate",
                           IssuedCertificate(b, key, issuer, now))
                 e == [b EXCEPT !.certificate = {c}]
      <3>1. bundles' = bundles \cup {e}
        BY <2>2 DEF Issue
      <3>2. Certified(e) /\ c.payload.expiresAt <= c.payload.issuedAt + CertificateLife
        BY <2>2, IssueVerifies DEF Signed
      <3>3. c.payload.issuedAt = now
        BY SealFields DEF IssuedCertificate, Certificate
      <3> HIDE DEF c
      <3>4. /\ e.certificate = {c}
            /\ e.delegation = b.delegation
            /\ b.delegation \in Optional(Of("delegation"))
        <4>1. e.certificate = {c} /\ e.delegation = b.delegation
          BY Attached
        <4>2. b.delegation \in Optional(Of("delegation"))
          BY Attached
        <4>3. QED
          BY <4>1, <4>2
      <3>5. now # ZeroTime
        BY ReadingsAreTimes DEF Signed, IInv, ZeroTime
      <3> HIDE DEF e
      <3>6. e.delegation = {} \/ \E d : e.delegation = {d}
        BY <3>4 DEF Optional
      <3>7. QED
        BY <3>1, <3>2, <3>3, <3>4, <3>5, <3>6
    <2>3. QED
      BY <2>1, <2>2, BundleKinds
  <1>3. Kept => IssuedByEitherVerify
    BY SameBundle DEF IssuedByEitherVerify, Certified
  <1> HIDE DEF Kept
  <1>4. QED
    BY <1>1, <1>2, <1>3, SignedAlways, PTL DEF SpecJS
=============================================================================
