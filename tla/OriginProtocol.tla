--------------------------- MODULE OriginProtocol ----------------------------
(***************************************************************************)
(* The parties of the Apostille core protocol and what the library lets    *)
(* them do: an administrator and an agent create a registration, the agent *)
(* signs statements, the administrator signs publication grants, an issuer *)
(* certifies a source bundle, and any key holder may sign any other valid  *)
(* payload through SignFor.  Envelopes are never consumed: whoever holds   *)
(* one may present it again, next to envelopes of other registrations.     *)
(*                                                                         *)
(* Every party reads its own clock, at most Drift seconds away from real   *)
(* time.  Bounds, for model checking only: MaxClock and MaxEnvelopes.      *)
(***************************************************************************)
EXTENDS ApostilleCore

CONSTANTS
    Protocols,                \* versions in use, of KnownProtocols
    Admins, Agents, Signers,  \* keys that act as administrator, agent, issuer
    AgentIDs,      \* what NewID returns; an ID is never returned twice
    Artifacts,     \* artifact contents, as their SHA-256
    Validities,    \* requested delegation lifetimes, in whole seconds
    Visibilities,  \* what administrators may ask for: "private", "public"
    MaxValidity,   \* 365 days
    GrantLife,     \* 5 minutes
    Drift,         \* largest distance of a party's clock from real time
    SignTimes,     \* timestamps other software puts into payloads it signs
    MaxClock, MaxEnvelopes

ASSUME ProtocolAssumption ==
    /\ Protocols \subseteq KnownProtocols
    /\ Admins \cup Agents \cup Signers \subseteq Keys
    /\ Validities \subseteq Nat
    /\ MaxValidity \in Nat
    /\ GrantLife \in Nat \ {0}
    /\ GrantLife <= GrantMax
    /\ Drift \in Nat
    /\ SignTimes \subseteq Nat
    /\ MaxClock \in Nat

VARIABLES
    clock,      \* real time
    envelopes,  \* every envelope a key holder has signed
    sources,    \* [bundle, at]: statements signed by CreateStatement, with
                \* their registration, and the signer's clock at the time
    grants,     \* [envelope, statement, delegation, acceptance, at]: what
                \* CreateGrant returned and for what
    bundles     \* every certified bundle that Issue returned

vars == <<clock, envelopes, sources, grants, bundles>>

Of(kind) == {e \in envelopes : e.kind = kind}

\* What a party's clock may show now.  No clock shows the year 1.
Readings == {t \in 1..(clock + Drift) : clock - Drift <= t}

Room(n) == Cardinality(envelopes) + n <= MaxEnvelopes

Init ==
    /\ clock = 1
    /\ envelopes = {}
    /\ sources = {}
    /\ grants = {}
    /\ bundles = {}

Tick ==
    /\ clock < MaxClock
    /\ clock' = clock + 1
    /\ UNCHANGED <<envelopes, sources, grants, bundles>>

\* validFor may have a fraction, which together with the clock's own fraction
\* may carry into the whole seconds of the expiry.
CreateRegistration(protocol, admin, agent, audience, id, validFor, carry, now) ==
    LET d == Seal(admin, protocol, "delegation",
                  Delegation(protocol, admin, id, agent, audience,
                             now, now, now + validFor + carry))
        a == Seal(agent, protocol, "acceptance",
                  Acceptance(protocol, agent, id, Digest(d), now)) IN
    /\ validFor >= 1
    /\ validFor + carry <= MaxValidity
    /\ \A e \in Of("delegation") : e.payload.agentID # id
    /\ CanSign(admin, protocol, "delegation", d.payload)
    /\ CanSign(agent, protocol, "acceptance", a.payload)
    /\ Room(2)
    /\ envelopes' = envelopes \cup {d, a}
    /\ UNCHANGED <<clock, sources, grants, bundles>>

\* CreateStatementFor with a registration.
CreateStatement(protocol, agent, d, a, artifact, now) ==
    LET s == Seal(agent, protocol, "statement",
                  Statement(protocol, agent, d.payload.agentID, Digest(d),
                            artifact, now)) IN
    /\ d.protocol = protocol
    /\ VerifyRegistration(d, a, {}, now)
    /\ d.payload.agentKey = agent
    /\ CanSign(agent, protocol, "statement", s.payload)
    /\ Room(1)
    /\ envelopes' = envelopes \cup {s}
    /\ sources' = sources \cup
         {[bundle |-> Bundle(protocol, s, {d}, {a}, {}), at |-> now]}
    /\ UNCHANGED <<clock, grants, bundles>>

\* CreateStatementFor with a bare agent ID: a producer-only statement.
CreateProducerStatement(protocol, agent, id, artifact, now) ==
    LET s == Seal(agent, protocol, "statement",
                  Statement(protocol, agent, id, NoDigest, artifact, now)) IN
    /\ CanSign(agent, protocol, "statement", s.payload)
    /\ Room(1)
    /\ envelopes' = envelopes \cup {s}
    /\ sources' = sources \cup
         {[bundle |-> Bundle(protocol, s, {}, {}, {}), at |-> now]}
    /\ UNCHANGED <<clock, grants, bundles>>

CreateGrant(protocol, s, d, a, admin, audience, visibility, now) ==
    LET g == Seal(admin, protocol, "grant",
                  Grant(protocol, admin, Digest(s), Digest(d), audience,
                        visibility, now, now + GrantLife)) IN
    /\ s.protocol = protocol
    /\ d.protocol = protocol
    /\ VerifyRegistration(d, a, {audience}, now)
    /\ d.payload.issuerKey = admin
    /\ VerifyBundle(Bundle(protocol, s, {d}, {a}, {}))
    /\ CanSign(admin, protocol, "grant", g.payload)
    /\ Room(1)
    /\ envelopes' = envelopes \cup {g}
    /\ grants' = grants \cup
         {[envelope |-> g, statement |-> s, delegation |-> d,
           acceptance |-> a, at |-> now]}
    /\ UNCHANGED <<clock, sources, bundles>>

\* Mutant: the certificate lives for the full 24 hours.
IssuedCertificateUncapped(b, key, issuer, now) ==
    LET s == b.statement.payload IN
    Certificate(b.protocol, key, issuer, Digest(b.statement), s.delegation,
                s.issuerKey, AgentBinding(b), now, now + CertificateLife)

\* The certificate Issue puts on an uncertified bundle.
IssuedCertificate(b, key, issuer, now) ==
    LET s    == b.statement.payload
        ends == {now + CertificateLife} \cup
                {d.payload.expiresAt : d \in b.delegation}
        end  == CHOOSE t \in ends : \A u \in ends : t <= u
    IN Certificate(b.protocol, key, issuer, Digest(b.statement), s.delegation,
                   s.issuerKey, AgentBinding(b), now, end)

\* Mutant: no allowance for the signer's clock.
IssueAcceptsWithoutSkew(b, key, issuer, now) ==
    LET s == b.statement.payload IN
    /\ now # ZeroTime
    /\ b.certificate = {}
    /\ VerifySource(b)
    /\ s.issuedAt <= now
    /\ \A d \in b.delegation, a \in b.acceptance :
          /\ VerifyRegistration(d, a, {issuer}, now)
          /\ s.issuedAt >= d.payload.notBefore
    /\ CanSign(key, b.protocol, "certificate", IssuedCertificate(b, key, issuer, now))

IssueAccepts(b, key, issuer, now) ==
    LET s == b.statement.payload IN
    /\ now # ZeroTime
    /\ b.certificate = {}
    /\ VerifySource(b)
    /\ s.issuedAt <= now + Skew
    /\ \A d \in b.delegation, a \in b.acceptance :
          /\ VerifyRegistration(d, a, {issuer}, now)
          /\ s.issuedAt >= d.payload.notBefore
    /\ CanSign(key, b.protocol, "certificate", IssuedCertificate(b, key, issuer, now))

\* Mutant: the certificate takes the issuer key's natural version.
IssueNaturalVersion(b, key, issuer, now) ==
    LET own == [b EXCEPT !.protocol = NaturalProtocol(key)]
        c   == Seal(key, own.protocol, "certificate",
                    IssuedCertificate(own, key, issuer, now)) IN
    /\ IssueAccepts(b, key, issuer, now)
    /\ Room(1)
    /\ envelopes' = envelopes \cup {c}
    /\ bundles' = bundles \cup {[b EXCEPT !.certificate = {c}]}
    /\ UNCHANGED <<clock, sources, grants>>

Issue(b, key, issuer, now) ==
    LET c == Seal(key, b.protocol, "certificate",
                  IssuedCertificate(b, key, issuer, now)) IN
    /\ IssueAccepts(b, key, issuer, now)
    /\ Room(1)
    /\ envelopes' = envelopes \cup {c}
    /\ bundles' = bundles \cup {[b EXCEPT !.certificate = {c}]}
    /\ UNCHANGED <<clock, sources, grants>>

\* Other software signs a payload of its own making through SignFor.
SignFor(key, protocol, kind, p) ==
    /\ CanSign(key, protocol, kind, p)
    /\ Room(1)
    /\ envelopes' = envelopes \cup {Seal(key, protocol, kind, p)}
    /\ UNCHANGED <<clock, sources, grants, bundles>>

Optional(S) == {{}} \cup {{x} : x \in S}

\* Every bundle somebody can put together from the envelopes around.
Assembled(certificates) ==
    {Bundle(p, s, d, a, c) :
        p \in {s.protocol : s \in Of("statement")}, s \in Of("statement"),
        d \in Optional(Of("delegation")), a \in Optional(Of("acceptance")),
        c \in certificates}

\* The payloads that other software may have signed with key.
OtherPayloads(protocol, key) ==
    {Delegation(protocol, key, id, agent, audience, at, start, end) :
        id \in AgentIDs, agent \in Agents, audience \in Issuers,
        at \in SignTimes, start \in SignTimes, end \in SignTimes}
    \cup {Acceptance(protocol, key, d.payload.agentID, Digest(d), at) :
        d \in Of("delegation"), at \in SignTimes}
    \cup {Statement(protocol, key, d.payload.agentID, Digest(d), artifact, at) :
        d \in Of("delegation"), artifact \in Artifacts, at \in SignTimes}
    \cup {Certificate(protocol, key, issuer, Digest(s), s.payload.delegation,
                      s.payload.issuerKey, binding, at, end) :
        issuer \in Issuers, s \in Of("statement"),
        binding \in {"admin_key_delegation", "not_provided"},
        at \in SignTimes, end \in SignTimes}

Next ==
    \/ Tick
    \/ \E protocol \in Protocols, now \in Readings :
        \/ \E admin \in Admins, agent \in Agents, audience \in Issuers,
              id \in AgentIDs, validFor \in Validities, carry \in {0, 1} :
              CreateRegistration(protocol, admin, agent, audience, id, validFor, carry, now)
        \/ \E agent \in Agents, artifact \in Artifacts,
              d \in Of("delegation"), a \in Of("acceptance") :
              CreateStatement(protocol, agent, d, a, artifact, now)
        \/ \E agent \in Agents, artifact \in Artifacts, id \in AgentIDs :
              CreateProducerStatement(protocol, agent, id, artifact, now)
        \/ \E s \in Of("statement"), d \in Of("delegation"), a \in Of("acceptance"),
              admin \in Admins, audience \in Issuers, visibility \in Visibilities :
              CreateGrant(protocol, s, d, a, admin, audience, visibility, now)
    \/ \E b \in Assembled({{}}), key \in Signers, issuer \in Issuers, now \in Readings :
          Issue(b, key, issuer, now)
    \/ \E protocol \in Protocols, key \in Keys :
          \E p \in OtherPayloads(protocol, key) : SignFor(key, protocol, p.kind, p)

Spec == Init /\ [][Next]_vars

-----------------------------------------------------------------------------

\* Type invariant: a clock, and records whose times are numbers.
TypeOK ==
    /\ clock \in Nat
    /\ \A e \in envelopes : e.payload.issuedAt \in Nat
    /\ \A s \in sources : s.at \in Nat
    /\ \A g \in grants : g.at \in Nat
    /\ \A b \in bundles : b.certificate # {}

\* The clock readings a property looks at.
Horizon == 1..(MaxClock + MaxValidity)

\* Every bundle a holder can put together that VerifyBundle accepts.
Accepted == {b \in Assembled(Optional(Of("certificate"))) : VerifyBundle(b)}

\* Issue (verify.go) and VerifyBundle are two separate lists of checks.  What
\* the first one certifies, at whatever clock reading, the second accepts, and
\* it is certified for no longer than a certificate lives.
IssuedBundlesVerify ==
    \A b \in bundles :
        /\ Certified(b)
        /\ \A c \in b.certificate :
              c.payload.expiresAt <= c.payload.issuedAt + CertificateLife

\* A statement that CreateStatementFor signed is certifiable: a service whose
\* clock lags the signer's by no more than the skew can refuse it only because
\* the delegation is not active, or is for another service, by its own clock.
SourcesIssuable ==
    \A src \in sources, key \in Signers, issuer \in Issuers :
        \A now \in {t \in Horizon : src.at <= t + Skew} :
            /\ UsableKey(src.bundle.protocol, key)
            /\ ValidIssuer(src.bundle.protocol, issuer)
            /\ \A d \in src.bundle.delegation, a \in src.bundle.acceptance :
                  d.payload.audience = issuer /\ ActiveAt(d, a, now)
            => IssueAccepts(src.bundle, key, issuer, now)

\* A grant that CreateGrantFor signed is accepted by a service that lags the
\* administrator's clock by up to the skew, until the five minutes are over,
\* and what it names is a source the service can verify.
GrantsAccepted ==
    \A g \in grants :
        LET d == g.delegation IN
        /\ VerifySource(Bundle(g.envelope.protocol, g.statement, {d}, {g.acceptance}, {}))
        /\ \A now \in {t \in Horizon :
                            g.at <= t + Skew /\ t < g.at + GrantLife} :
              ValidateGrant(g.envelope, g.statement, d, d.payload.issuerKey,
                            d.payload.audience, now)

\* Pieces of different bundles never combine into an accepted one: a statement
\* fixes the delegation it is shown with (so no one can drop or exchange it),
\* and a certificate fixes the statement.
PiecesStayTogether ==
    \A b, c \in Accepted :
        /\ b.statement = c.statement => b.delegation = c.delegation
        /\ b.certificate = c.certificate /\ b.certificate # {}
              => b.statement = c.statement

\* A receiver that is told a delegated certificate is valid now is never
\* outside the delegation's interval, whoever signed the certificate.
CertificateInsideDelegation ==
    \A b \in Accepted : \A c \in b.certificate, d \in b.delegation :
        \A now \in {t \in Horizon : Freshness(c, t) = "valid_at_evaluation_time"} :
            d.payload.notBefore <= now /\ now < d.payload.expiresAt

\* The rule of core-0.1.md, bundle verification step 4, for every accepted
\* bundle: the delegation is active at the certificate's issue time and neither
\* registration envelope was issued later than the skew after it.
DelegationActiveAtIssue ==
    \A b \in Accepted :
        \A c \in b.certificate, d \in b.delegation, a \in b.acceptance :
            ActiveAt(d, a, c.payload.issuedAt)

\* An envelope put together from the fields of others, with the payload's date
\* changed or not, verifies only if some key holder made exactly that envelope:
\* no field can be exchanged, neither the kind or version label nor the key.
MixturesRejected ==
    \A x, y, z \in envelopes, key \in Keys, protocol \in Protocols :
        \A at \in SignTimes \cup {y.payload.issuedAt} :
            LET e == [protocol |-> protocol, kind |-> x.kind,
                      payload |-> [y.payload EXCEPT !.issuedAt = at],
                      publicKey |-> key, signature |-> z.signature] IN
            VerifyEnvelope(e) => e \in envelopes

\* The authority behind an accepted delegated bundle: the statement was signed
\* by the key that the administrator named in the delegation, that key's
\* holder accepted this very delegation, and all of it under one version and
\* for the service that issued the certificate.
AuthorityChain ==
    \A b \in Accepted : \A d \in b.delegation, a \in b.acceptance :
        /\ Parts(b) \subseteq envelopes
        /\ b.statement.signature.by = d.payload.agentKey
        /\ a.signature.by = d.payload.agentKey
        /\ d.signature.by = d.payload.issuerKey
        /\ a.payload.delegation = Digest(d)
        /\ \A c \in b.certificate : c.payload.issuer = d.payload.audience
=============================================================================
