------------------------------ MODULE OriginJS -------------------------------
(***************************************************************************)
(* The core library in JavaScript (web/apostille-core.mjs and its          *)
(* profiles), which the browser and the SDK use, next to the one in Go:    *)
(* the same documents, a second list of checks, and creators that check    *)
(* less.  Envelopes of either travel to the other.                         *)
(*                                                                         *)
(* Names that only one of the two URL parsers accepts are not in Issuers;  *)
(* docs/apostille/CONFORMANCE.md lists them.                               *)
(***************************************************************************)
EXTENDS OriginProtocol, CoreJS

VARIABLES
    sourcesJS,  \* [bundle, at]: what createStatement signed, and when
    grantsJS    \* [envelope, source, at]: what createGrant signed, and for what

scripted == <<sourcesJS, grantsJS>>
varsJS   == <<vars, scripted>>

(***************************************************************************)
(* The creators.  sign validates the payload and verifies its own          *)
(* signature; the rest each creator asks for itself.                       *)
(***************************************************************************)
\* days may be any number; the payload rule alone refuses an empty interval.
CreateRegistrationJS(protocol, admin, agent, audience, id, lifetime, now) ==
    LET d == Seal(admin, protocol, "delegation",
                  Delegation(protocol, admin, id, agent, audience,
                             now, now, now + lifetime))
        a == Seal(agent, protocol, "acceptance",
                  Acceptance(protocol, agent, id, Digest(d), now)) IN
    /\ \A e \in Of("delegation") : e.payload.agentID # id
    /\ CanSignJS(admin, protocol, "delegation", d.payload)
    /\ CanSignJS(agent, protocol, "acceptance", a.payload)
    /\ Room(2)
    /\ envelopes' = envelopes \cup {d, a}
    /\ UNCHANGED <<clock, sources, grants, bundles, scripted>>

\* Mutant: the loaded key is not compared with the delegated one.
CreateStatementJSAnyKey(agent, d, a, artifact, now) ==
    LET s == Seal(agent, d.protocol, "statement",
                  Statement(d.protocol, agent, d.payload.agentID, Digest(d),
                            artifact, now)) IN
    /\ d.protocol = a.protocol
    /\ RegistrationJS(d, a, {}, {})
    /\ CanSignJS(agent, d.protocol, "statement", s.payload)
    /\ Room(1)
    /\ envelopes' = envelopes \cup {s}
    /\ sourcesJS' = sourcesJS \cup
         {[bundle |-> Bundle(d.protocol, s, {d}, {a}, {}), at |-> now]}
    /\ UNCHANGED <<clock, sources, grants, bundles, grantsJS>>

\* Unlike Go's, it does not ask whether the delegation is active.
CreateStatementJS(agent, d, a, artifact, now) ==
    LET s == Seal(agent, d.protocol, "statement",
                  Statement(d.protocol, agent, d.payload.agentID, Digest(d),
                            artifact, now)) IN
    /\ d.protocol = a.protocol
    /\ RegistrationJS(d, a, {}, {})
    /\ d.payload.agentKey = agent
    /\ CanSignJS(agent, d.protocol, "statement", s.payload)
    /\ Room(1)
    /\ envelopes' = envelopes \cup {s}
    /\ sourcesJS' = sourcesJS \cup
         {[bundle |-> Bundle(d.protocol, s, {d}, {a}, {}), at |-> now]}
    /\ UNCHANGED <<clock, sources, grants, bundles, grantsJS>>

CreateProducerStatementJS(protocol, agent, id, artifact, now) ==
    LET s == Seal(agent, protocol, "statement",
                  Statement(protocol, agent, id, NoDigest, artifact, now)) IN
    /\ CanSignJS(agent, protocol, "statement", s.payload)
    /\ Room(1)
    /\ envelopes' = envelopes \cup {s}
    /\ sourcesJS' = sourcesJS \cup
         {[bundle |-> Bundle(protocol, s, {}, {}, {}), at |-> now]}
    /\ UNCHANGED <<clock, sources, grants, bundles, grantsJS>>

\* It verifies nothing but that the three versions are one.
CreateGrantJS(s, d, a, admin, audience, visibility, now) ==
    LET g == Seal(admin, s.protocol, "grant",
                  Grant(s.protocol, admin, Digest(s), Digest(d), audience,
                        visibility, now, now + GrantLife)) IN
    /\ s.protocol = d.protocol /\ d.protocol = a.protocol
    /\ CanSignJS(admin, s.protocol, "grant", g.payload)
    /\ Room(1)
    /\ envelopes' = envelopes \cup {g}
    /\ grantsJS' = grantsJS \cup
         {[envelope |-> g, source |-> Bundle(s.protocol, s, {d}, {a}, {}), at |-> now]}
    /\ UNCHANGED <<clock, sources, grants, bundles, sourcesJS>>

\* Mutant: the registration is not checked for the issuer at the issue time.
IssueJSAnyTime(b, key, issuer, now) ==
    LET s == b.statement.payload
        c == Seal(key, b.protocol, "certificate", IssuedCertificate(b, key, issuer, now)) IN
    /\ b.certificate = {}
    /\ VerifyBundleJS(b)
    /\ s.issuedAt <= now + Skew
    /\ CanSignJS(key, b.protocol, "certificate", c.payload)
    /\ Room(1)
    /\ envelopes' = envelopes \cup {c}
    /\ bundles' = bundles \cup {[b EXCEPT !.certificate = {c}]}
    /\ UNCHANGED <<clock, sources, grants, scripted>>

\* issueBundle; its certificate is computed as Issue's.
IssueJS(b, key, issuer, now) ==
    LET s == b.statement.payload
        c == Seal(key, b.protocol, "certificate", IssuedCertificate(b, key, issuer, now)) IN
    /\ b.certificate = {}
    /\ VerifyBundleJS(b)
    /\ s.issuedAt <= now + Skew
    /\ \A d \in b.delegation, a \in b.acceptance :
          /\ RegistrationJS(d, a, {issuer}, {now})
          /\ s.issuedAt >= d.payload.notBefore
    /\ CanSignJS(key, b.protocol, "certificate", c.payload)
    /\ Room(1)
    /\ envelopes' = envelopes \cup {c}
    /\ bundles' = bundles \cup {[b EXCEPT !.certificate = {c}]}
    /\ UNCHANGED <<clock, sources, grants, scripted>>

InitJS == Init /\ sourcesJS = {} /\ grantsJS = {}

NextJS ==
    \/ Next /\ UNCHANGED scripted
    \/ \E protocol \in Protocols, now \in Readings :
        \/ \E admin \in Admins, agent \in Agents, audience \in Issuers,
              id \in AgentIDs, lifetime \in Validities :
              CreateRegistrationJS(protocol, admin, agent, audience, id, lifetime, now)
        \/ \E agent \in Agents, artifact \in Artifacts, id \in AgentIDs :
              CreateProducerStatementJS(protocol, agent, id, artifact, now)
    \/ \E d \in Of("delegation"), a \in Of("acceptance"), now \in Readings :
        \/ \E agent \in Agents, artifact \in Artifacts :
              CreateStatementJS(agent, d, a, artifact, now)
        \/ \E s \in Of("statement"), admin \in Admins, audience \in Issuers,
              visibility \in Visibilities :
              CreateGrantJS(s, d, a, admin, audience, visibility, now)
    \/ \E b \in Assembled({{}}), key \in Signers, issuer \in Issuers, now \in Readings :
          IssueJS(b, key, issuer, now)

SpecJS == InitJS /\ [][NextJS]_varsJS

-----------------------------------------------------------------------------

\* CONFORMANCE.md: Go and the browser implementation "return the same verdict"
\* on every bundle, whoever signed its pieces, and the same freshness.
SameVerdict ==
    \A b \in Assembled(Optional(Of("certificate"))) :
        /\ VerifyBundle(b) = VerifyBundleJS(b)
        /\ VerifyBundle(b) =>
              \A c \in b.certificate, t \in Horizon : Freshness(c, t) = FreshnessJS(c, t)

\* A certificate issued by either library, over pieces made by both, is
\* accepted by both and lives no longer than a certificate may.
IssuedByEitherVerify ==
    \A b \in bundles :
        /\ Certified(b) /\ VerifyBundleJS(b)
        /\ \A c \in b.certificate :
              c.payload.expiresAt <= c.payload.issuedAt + CertificateLife

\* createStatement asks less than CreateStatementFor: what it signed is still a
\* source that verifies, and the Go service can refuse it only for an inactive
\* delegation, another audience, a clock ahead by more than the skew, or a date
\* before the delegation's start.
BrowserSourcesIssuable ==
    \A src \in sourcesJS :
        /\ VerifySource(src.bundle)
        /\ \A key \in Signers, issuer \in Issuers :
              \A now \in {t \in Horizon : src.at <= t + Skew} :
                 /\ UsableKey(src.bundle.protocol, key)
                 /\ ValidIssuer(src.bundle.protocol, issuer)
                 /\ \A d \in src.bundle.delegation, a \in src.bundle.acceptance :
                       /\ d.payload.audience = issuer
                       /\ ActiveAt(d, a, now)
                       /\ d.payload.notBefore <= src.at
                 => IssueAccepts(src.bundle, key, issuer, now)

\* A service takes a source under a grant: the statement and its registration
\* verify, and the grant is the registration's own administrator's for them, as
\* the command line also checks before it signs one.
TakenUnder(g, b, now) ==
    /\ b.delegation # {}
    /\ VerifySource(b)
    /\ \A d \in b.delegation :
          ValidateGrant(g, b.statement, d, d.payload.issuerKey, d.payload.audience, now)

\* createGrant verifies nothing.  If what it was given is a source that
\* verifies, with the administrator and audience of its delegation, the service
\* takes that source for the grant's whole lifetime.  Whatever source anybody
\* submits with the grant is taken only within that time, and only if it is the
\* statement and delegation the grant was made for, by that administrator and
\* for that audience, and the two belong together: a grant over a statement of
\* another agent, or under another delegation, is of no use.
BrowserGrantsAccepted ==
    \A g \in grantsJS, now \in Horizon :
        LET own == \A d \in g.source.delegation :
                      /\ g.envelope.payload.issuerKey = d.payload.issuerKey
                      /\ g.envelope.payload.audience = d.payload.audience IN
        /\ /\ own /\ VerifySource(g.source)
           /\ g.at <= now + Skew /\ now < g.at + GrantLife
           => TakenUnder(g.envelope, g.source, now)
        /\ \A b \in Assembled({{}}) : TakenUnder(g.envelope, b, now) =>
              /\ own /\ g.at <= now + Skew /\ now < g.at + GrantLife
              /\ b.statement = g.source.statement /\ b.delegation = g.source.delegation
              /\ \A d \in g.source.delegation :
                    /\ g.source.statement.payload.delegation = Digest(d)
                    /\ g.source.statement.signature.by = d.payload.agentKey
=============================================================================
