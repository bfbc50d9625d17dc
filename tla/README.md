# A formal model of Apostille

This directory specifies the Apostille core protocol, its API clients, the pages
of its hosted console and the SDK's hosted example in TLA+, checks them with TLC
on small instances and proves the most important properties with TLAPS for every
value of the constants.

    tlc -workers 2 -config MCOriginLifecycle.cfg MCOriginJS.tla
    tlapm OriginProofs.tla

`PROJECT.json` lists every run, maps every definition to the source lines it
stands for, and names the hazards that the properties are about.

## 1. The system

An *administrator* key delegates to an *agent* key (a registration: delegation
and acceptance). The agent signs *statements* about original files. The
administrator signs a *publication grant* for a statement. An *issuer* (the
hosted service, or anybody with a key) certifies statement and registration.
A receiver verifies the resulting *bundle* offline.

| component | state | operations |
|---|---|---|
| Core in Go, `apostille/{types,profile,crypto,verify,verifier}.go` | none; `Verifier` caches within one operation | `SignFor`, `VerifyEnvelope`, `VerifyRegistration`, `ValidateGrant`, `VerifyBundle` |
| Creators and issuer, `apostille/{create,sign_version}.go`, `verify.go` | none; the signed envelopes are the state of the world | `CreateRegistrationFor`, `CreateStatementFor`, `CreateGrantFor`, `Issue` |
| API client, `apostille/client/client.go` | `token`, `revision` under a mutex | `Login`, `SetAccessToken`, `ClearSession`, requests |
| Console, `web/apostille-page.mjs` | keys, token, workspace, agents, registration, draft, four revision counters | about twenty event handlers, most with awaits |
| ERC-8004 panel of the console, same file | inputs, record, revision, busy flag, the row on show | make and load a binding; seven awaits, three on the wallet |
| Verification form, same file | fields, result, status | submit, re-render in another language |
| Public pages, same file, and API transport (`requestAPI`, the SDK's `#request`) | one request; what the page shows | fetch, read, cancel, time out; verify and show |
| ERC-8004 binding, `apostille/erc8004.go`, `client/erc8004.go`, `web/apostille-erc8004.mjs` | none | request, wallet proof, binding, verification |
| Core in JavaScript, `web/apostille-{core,profile}.mjs` | none | as in Go |
| JavaScript SDK client, `sdk/apostille-js/src/client.mjs` | token, revision | as in Go |
| Hosted example, `sdk/apostille-js/examples/hosted.mjs` | a state directory and one directory per attempt | one script: keys, registration, statement, sign-in, grant, submission, download |
| Strict JSON and canonical form, `web/apostille-json.mjs`, Go's `crypto.go`, `surrogates.go` | none | parse, serialise |
| Identifiers, Ed25519 and ML-DSA, key files | none | parsing, conversion, arithmetic |
| Command line, `cmd/apostille` | files | every operation once, exclusive output files |
| ZK budget profile, `apostille/zkbudget` | parameters on disk | setup, sign a snapshot, prove, verify |
| Safe HTTP, `util` | none | address checks, redirects, deadline |
| Hosted service | registrations, certificates, bindings, sessions | not in the repository |

Interactions. The client and the console talk to the service over HTTP; an
answer is computed at one moment and delivered at a later one, or never. The
console's handlers share one page object and give it up at every `await`; the
ERC-8004 panel shares the session and the agents with them. Runs of the hosted
example share a directory and, if they use one issuer, the service's list of
agents. The
creators, the issuer and the verifier share no memory: they meet in the
envelopes, which anyone may copy and recombine.

Hard behaviours: two goroutines or handlers in an order nobody tested; an answer
for an older session; an input changed while a signature is being computed;
requests that fail after the service acted; a process killed between creating
a file and writing it; a body that stops arriving; clocks of different parties; half
open intervals, the skew, the zero time; pieces of different bundles, versions
or keys put together. Each has its line in `PROJECT.json`, "hazards".

What makes each component correct:

* Core: what is accepted was signed by whom it says, for this delegation, in
  this version, and lies inside the delegation's time.
* Creators and issuer: what they produce, the service and the verifier accept,
  across clocks that differ by no more than the skew.
* Client session: the application's latest word stands, and a late answer ends
  no newer session.
* Console: what is shown, drafted and sent belongs to the inputs and the
  session on the page; every sign-in comes to an end.
* JavaScript core: both languages give one verdict, and what either library
  creates the service accepts.
* ERC-8004: administrator, agent, owner and issuer all agreed to a document,
  it lies inside its delegation, and a lost answer can be asked for again.
* ERC-8004 panel: a flow that goes on is about what is on show, the panel is
  locked only while a flow waits, and its record is the session's own.
* Transport and public pages: a caller gets one whole answer or an error, in
  bounded memory and time; a certificate is on show only if it verified.
* Verification form: what is shown belongs to one submission, the last to end.
* Hosted example: one agent per state directory, with saved keys; every
  certificate can be traced to an attempt; what is kept is the attempt's own.
* Strict JSON: one value, one canonical text; one text, one value.
* CLI, ZK profile: see section 6.

## 2. Modules

    ApostilleCore <- CoreJS, OriginProtocol
    OriginProtocol <- MCOrigin
    OriginProtocol, CoreJS <- OriginProofs
                           <- OriginJS <- OriginJSProofs (with OriginProofs)
                                       <- MCOriginJS
                           <- ERC8004  <- ERC8004Proofs (with OriginProofs)
                                       <- MCERC8004
    Session (abstract) <- SessionClient <- SessionClientJS <- SessionProofs
                                                           <- MCSession
                       <- Console
    Console <- ConsoleProofs
            <- MCConsole
            <- ConsoleBinding <- ConsoleBindingProofs (with ConsoleProofs)
                              <- MCWork (with MCConsole)
    HostedRun <- HostedRunProofs
              <- MCHosted
    Transport <- PublicPage
    PublicPage, VerifyPage <- PagesProofs
    PublicPage, VerifyPage, StrictJSON <- MCPages

**ApostilleCore** holds the pure rules, one operator per Go function. A
signature is the record of who signed what, a digest is injective (the digest
of an envelope is the singleton set of it, the empty string the empty set), and
time is whole seconds: a clock's fraction is only ever compared with whole
seconds. A payload is a record with the fields some rule looks at.

**OriginProtocol** has one action per creator: `CreateRegistration`,
`CreateStatement`, `CreateProducerStatement`, `CreateGrant`, `Issue`, and
`SignFor` for payloads that other software makes up. Each party reads a clock
within `Drift` of real time. Envelopes are never consumed, so the actions may
combine any pieces of any registration.

**CoreJS** is the verifier of `web/apostille-core.mjs`: the same documents, a
second list of checks in another order, `null` where Go has the zero time.
**OriginJS** adds its creators next to Go's. They check less: `createGrant`
verifies nothing but that the versions are one, `createStatement` does not ask
whether the delegation is active. Envelopes of either library go to the other.

**ERC8004** adds the binding profile: `CreateERC8004Request` (administrator),
`OwnerConsents` (wallet), `IssueERC8004Binding` (issuer), the verifiers of both
languages, and what the API client sends and accepts. The envelopes live next
to the core's under labels of their own; `SignERC` signs requests and snapshots
that other software makes up. The wallet signature is opaque to the library, as
in the code: `OwnerSigned` is what the service has to check, and
`ConsentChain` shows what follows if it does.

**Session** is what a client promises: one token, one login that may still
complete, the set of requests whose refusal still counts, and a number for the
application's latest word. A completed login may go on to use its token, so its
call may be among the requests. **SessionClient**
is `client.go`, one action per critical section; `call[c]` is what goroutine
`c` holds between two of them (captured revision and token). The refinement
mapping reads the abstract sets off the revisions: a call counts iff its
revision is the current one, and the ghost `asked` numbers the words.
**SessionClientJS** is the JavaScript SDK: the same actions between its awaits,
but for one more comparison of the revision after the challenge is signed.

**Console** has the page as one record and every waiting handler as a task with
what the handler captured before its `await`. A click is the handler up to the
first `await`; a continuation is the code from one `await` to the next,
`Discard` is the early return of a stale revision, and `Fail` the `catch`. The
service is modelled as the console observes it: it stores registrations,
revocations, certificates and hidden certificates, and refuses what API.md says
it refuses. `Register` to `RegistrationSigned` keeps the code's order: the draft
is cancelled at the click, the registration replaced when it is signed. A
request carries the token the page holds when it is sent, which after an `await`
need not be the one of the click. `Promised` is the console as an instance of
`Session`: a sign-in that waits for its challenge, signature or token may still
complete, the requests by which it loads the workspace are those whose failure
ends the session, and the words are the choices of a key and the sign-ins.

**ConsoleBinding** extends it with the ERC-8004 panel. A `flow` is one run of
`erc8004-create` or `erc8004-load`, one action per `await`; the configuration,
the rendered options, the record and the row in the document are kept apart, as
in the code. Every step of `Console` stays possible (`PageSteps`,
`WorkspaceLoads`) and does to the panel what the code does: a session that ends
clears the record and raises the revision, a workspace that arrives rebuilds the
select without a change event.

**HostedRun** is the example script: per run a stage, a step within it and what
it holds; per file whether it is complete, and who is writing it. `Create` is
the exclusive open, `Write` the rest of `writeFile`; `Stop` may happen at any
point in between (a failure, a signal). The service may answer a submission or
a download with any other certificate it has.

**Transport** is one request, from fetch to outcome: headers, chunks, the cap on
announced and received length, cancellation, the deadline. The page and the SDK
differ only in which reason they report; a redirect is rejected by a browser's
fetch, or returned by a fetch given to the SDK and refused there. **PublicPage**
adds the pages that load one published thing and show it or an error.
**VerifyPage** is the verification form: each submission reads the file it
found, takes the policy when the file has been read and the original when the
bundle has been verified, and none cancels another. **StrictJSON** is the parser
as a machine over tokens, its recursion a stack, with the canonical form and, as
the reference, the grammar of the accepted texts with their values.

A definition whose comment begins with *Mutant* or *A slip* is a plausible bug
of the code; it is used only to show that the properties notice it.

## 3. What the runs check

| run | what it shows | distinct states |
|---|---|---|
| `origin_lifecycle` | one registration at every clock reading, made, used and certified by Go and JavaScript in any mixture: what the creators sign the service accepts, under a grant it takes no source but the one the grant was made for, what either certifies both verify | 142 k |
| `origin_versions` | versions 0.1, 0.2, 0.3 with Ed25519, weak and ML-DSA keys: pieces of two bundles never combine | 80 k |
| `origin_foreign` | payloads of other software with arbitrary times: the verifiers alone keep certificates inside delegations, mixtures out, the authority chain whole, and agree with one another | 34 k |
| `origin_year_one` | *violated*: see section 5 | - |
| `erc8004` | request, consent and snapshot by the parties and by other software: what is issued verifies in both languages, retries are answered even when the request has expired, nothing outlives its delegation, and all parties agreed | 173 k |
| `session` | two goroutines, or two promises of the SDK, two administrators, three tokens: either client implements `Session`, the latest word stands, honoured sessions are kept | 1.7 M |
| `console_sign_in` | three administrator keys and two sign-ins overlapping, and three short visits in which the pages' remaining handlers run: the console implements `Session`; under fairness every sign-in ends | 82 k |
| `console_work` | a signed-in console in seven scenarios: inputs change while statements and grants are signed; submissions answered late, revocation, expiry, hiding; agents generated, imported, registered twice, taken up; the ERC-8004 panel while its inputs, the administrator or the session change, and the agent list that a session leaves behind; every request carries its tenant's token | 1.3 M |
| `hosted` | three runs of the example on one state directory, the third for another issuer, in every interleaving and ended anywhere | 1.1 M |
| `pages` | a published page over an unreliable service; the verification form submitted twice while it changes; the strict parser on every text up to nine tokens; under fairness everything ends | 1.0 M |
| `console_register_race` | *violated*: see section 5 | - |
| `console_record_left` | *violated*: see section 5 | - |

Bounds. In `OriginProtocol` the durations keep the code's order (skew below the
lifetimes, five-minute grant below the longest one accepted) in units of a few
seconds, so every boundary of every half-open interval is reached;
`MaxEnvelopes` leaves room for one complete bundle plus pieces of a second one.
In `origin_lifecycle` that is a registration with two statements and a grant: a
grant can name a statement without delegation or of another agent's key, and
another statement than the one it was made for can be submitted with it; that
the pieces of a second registration fare no better rests on the theorem
`BrowserGrantsUsable`. The run's two parties may each be administrator or agent,
so they are interchangeable (`EitherParty`), and its grants are private, since
no check of a grant depends on its visibility.
In `ERC8004` four envelopes are one registration, one request and one snapshot,
each by its party or by other software, in both profiles and the two versions
they belong to (version 0.2 has none); the request's life is
shorter than a delegation, so a snapshot can come late, and a snapshot signed
elsewhere can end after the delegation. The clock runs to 4 and requests signed
at its first reading end at 3, so a lost answer is asked for again after the
request has expired. Four envelopes hold no second delegation: that a document's
delegation cannot be exchanged (the last clause of `ConsentChain`) rests on the
theorem `Consents`.
In `SessionClient` five revisions allow a login overtaken by another and by a
word of the application, each finishing. In `Console`, `Limits` is a set of
scenarios, each of which bounds how often every control is used; a behaviour
stays within one of them, and each lets the interesting control happen once more
than its hazard needs. The draft, issue, agent and register scenarios start from
`ReadyPage`, a signed-in console with a registered agent and an original. That
page is reached from `Init` by the five clicks named at `ReadyUsed`: with
`Limits = {ReadyUsed}`, TLC refutes the invariant `page # ReadyPage`. The panel
scenarios start after the sign-in, with two agents of the administrator and a
binding of another one; `MaxClicks` bounds what the user does in the panel:
two clicks reach an input changed during a flow, and a second flow. In
`HostedRun`, two runs reach every race of two writers of one file; the third
one meets what they left. In `Transport` the cap is three units, announced or
unannounced bodies are shorter, as long and longer, and a chunk is one or two
units, so a chunk can end at the cap or cross it. `MaxChanges` is two: both
the policy and the original can change under a submission. Nine tokens hold an
object with two members and an object nested in an array; `MaxDepth` is two, so
the depth limit is met and exceeded.

Deadlock is not checked: an application or a user may stop at any time, and
bounded models run out of clicks.

Fairness. `Console!Fairness` is weak fairness of every waiting task: a local
read or a signature finishes, and a request is answered or fails, because
`requestAPI` aborts it after ten seconds. Nobody is assumed to click.
`PublicPage!PageFairness` assumes the page's own steps and its timer, and that a
cancelled stream ends, but nothing of the server; `VerifyPage!VerifyFairness`
that files are read and verification ends. There is no liveness of the ERC-8004
panel: no deadline bounds a wallet that does not answer, and while it does not
the panel stays locked.

## 4. What is proved

`OriginProofs`, `OriginJSProofs`, `ERC8004Proofs`, `SessionProofs`,
`HostedRunProofs`, `ConsoleProofs`, `ConsoleBindingProofs` and `PagesProofs`
state every safety property of section 3 but the strict parser's, for any number
of keys, agents, tokens, goroutines, files, clicks and runs of the example, any
lengths and chunks, and for every clock, lifetime and skew that the assumptions
allow. No assumption goes beyond those named in the modules (`CoreAssumption`,
`ProtocolAssumption`, `BindingAssumption`, `ClientAssumption`,
`HostedAssumption`, `ConsoleAssumption`, `TransportAssumption`), which TLC
evaluates in every run of the module.
The type invariants of `OriginProtocol` and `SessionClient` are proved
(`TypeCorrect`), so no run repeats them.

*Origin.* The inductive invariant says that every envelope in the world is
sealed (its signature is its own key's over its own fields, and its signer was
entitled to sign it), that sources, grants and bundles consist of envelopes in
the world, and that each carries what its creator checked. `Seal` being
injective gives `Mixtures` and `Authority`; `Pieces` follows from the digests.
`StatementsCertifiable`, `GrantsUsable` and `IssueImpliesVerify` carry the
creators' time checks over to the service's and the receiver's clock by
arithmetic on the skew. `CertificateInside` and `ActiveAtIssue` hold under the
extra hypothesis that no payload is dated with the zero time: the finding of
section 5 is the only way around them.

*Two languages.* The last part of `OriginProofs` compares the two lists of
checks function by function, innermost first: keys, payloads, envelopes,
registrations, sources, certificates. They agree in every state but for one
thing, a certificate dated with the zero time. `OneVerdict` closes that gap with
the invariant `Dated`: no clock shows the zero time, so no creator signs it, and
the hypothesis keeps it out of the payloads of other software. The creators of
the two languages differ more, so `Signed` takes the invariant of Origin over to
steps of both (what JavaScript signs, Go's `SignFor` would have signed; a bundle
JavaScript issues, Go would have issued, `IssueIsGo`) and adds what the laxer
JavaScript creators still guarantee of a statement and a grant. From it follow
`EitherVerifies`, which needs no hypothesis about the zero time, since both
issuers date certificates by their own clock, `BrowserStatementsCertifiable` and
`BrowserGrantsUsable`. The last rests on `TakenIsGranted`: a grant that
`createGrant` signed over pieces that do not belong together names them by their
digests, a service takes only a source of those very pieces, and such a source
does not verify.

*ERC-8004.* `OneBindingVerdict` continues the comparison with requests,
snapshots and documents; `BindingInside` is the chain of inequalities from the
delegation's start over the snapshot's date to its end. Both rest on
`TimedERC`: every time in an envelope is a number, and zero only if other
software signed it. For the rest, `Records` says of every request on record what
its creation checked, of every consent that it is a wallet's signature over the
text of its request, and of every document that it verifies and that the owner
in its request consented. A document's consent is found again because the text
determines the request (`TextNamesRequest`). `ServiceDocumentsVerify`,
`RetriesAnswered`, `RequestsAnswered` and `Consents` follow without a hypothesis
on dates.

*Session.* The inductive invariant relates every waiting call to the revision:
no call is ahead of the client; a login of the current revision means there is
no token; a request of the current revision carries the current token; and the
ghost `asked` agrees with both (`Spoken`: no word is numbered beyond the
revision). `Refinement` maps every step of the client to a
step of `Session` or a stutter. `EitherIsGo` maps every step of the SDK to one
of the Go client's, so that all of this holds of it as well.

*Console.* None of the properties is inductive: what a continuation writes into
the page was captured before an `await`, and the code relies on a revision
number being unchanged to conclude that the capture is still true. `IInv` says
why it is. `Numbered` and `Alone`: tasks are told apart by their number, one
sign-in per session and one signature per draft. `Holding`: a task has the
fields its step reads, and its revision is not ahead of the page's counter.
`InSession`, `Drafts` and `Reads`, one per counter: *if* a task's revision is
current, then the administrator key, token, agent key, original, draft or choice
it captured is the one on the page. `SignedOut`, `Enabled`,
`ListOfSession` and `Stored` are what the buttons, the list and the service add.
Every action then either raises a counter, and the implications of the tasks
behind it become void, or leaves the fields it stands for alone (`DraftsGoOn`,
`SessionGoesOn`, `ReadsGoOn`).
`SessionKept`, `RegistrationKept`, `DraftKept`, `LatestKept` and the action
property `OtherDraftKept` follow. Every conjunct was checked by TLC on the
console runs before it was proved. `GrantBindsDelegation`, the finding of
section 5, is where this argument breaks: no part of `Drafts` can speak of the
registration, because `RegistrationSigned` replaces it and the draft's counter
stays as it was.

*Whose requests.* `api` takes `state.token` at the moment of sending, and the
object of a request was chosen earlier: from the rendered agent list, from the
draft, from a certificate on the page. `RequestsKept` says that the two always
belong together. It needs more than `IInv`: a submission's grant and statement
are one tenant's only because the statement was signed under that tenant's
delegation, several handlers before. `Tenancy` adds that attribution to the
statement and the tasks that sign one (`Signed`) and to the certificates on the
page or on their way to it (`Certified`). Most handlers keep it because session
and draft stay as they are (`WorkStays`); those that end a session void it; and
the four that send a request (`RegistrationSignedTenancy`, `RevokeTenancy`,
`HideTenancy`, `SubmitTenancy`) read it off the page. The rendered list is the
delicate one: it stays in the document when a session ends, and only the closed
panels keep its buttons from being used with the next tenant's token.

*The console's session.* `ConsoleImplements` proves the console a client in the
sense of `Session`, as `Refinement` does for the Go client and `EitherRefines`
for the SDK. There is at most one live sign-in (`OneSignIn`, from `Alone`); it
can complete while it is between its challenge and its token, and from then on
it is the session's only request. `AdminKeyMaps`, `LoginMaps`,
`LoginVerifiedMaps`, `LoadWorkspaceMaps` and `FailMaps` take the handlers that
speak of the session to `Set`, `BeginLogin`, `Complete`, `End` and `Refuse`; all
others leave it alone (`OtherClicks`, `OtherHandlers`). `SignInsKnown` bounds
their numbers, so that they are calls of the instance.

*The ERC-8004 panel.* `PanelLeavesPage` is a refinement by restriction: seen from
the page, a step of `ConsoleBinding` is a step of `Console` or none, so all that
is shown of the page holds beside the panel (`RequestsBesidePanel`,
`SessionBesidePanel`). `PanelInv` adds for the panel what
`IInv` has for the page, with two revisions: a flow whose panel revision and
session are both current is about the administrator and the identity on the
page, and a flow that has sent its request sent it with the token of its agent's
administrator, retired or not (`FlowHolds`); the panel is busy exactly while there is one flow
(`OneFlow`), and a record means a session (`Recorded`).

*Hosted example.* `RegisteredIsSaved` is not inductive. `Exclusive` says that a
file being written has one writer, who created it, and is not complete: so a
complete file never changes (`FilesStay`), what a run holds after loading or
saving a file is what the file says (`Holding`), the registration on disk names
the keys on disk (`Saved`), and the service learns only of that one (`Known`).
For the attempts, `Traced` adds that the run a certificate names is past both
files, or has ended, and so never writes them again.

*Pages.* What has been kept of a body is all that has been read until the cap is
exceeded, only a body still being read can become data, and no deadline has
passed while one is. On the verification form the card, the stored verification
and the answer of the submission that ended last are one value, and a submission
that waits for the original has a bundle that verified under its own policy
(`CardInv`).

Only model-checked: the strict parser (`CanonicalForm`), whose reference is
recursive, so that the statement for every text would need an induction the
provers cannot instantiate; and liveness (`SignInSettles`, `PagesSettle`), which
with ENABLED is beyond the prover. The theorems are about `Spec` and
`BindingSpec`, which start with an empty page; the scenarios of `console_work`
that start signed in begin in states reachable from there (section 3).

## 5. Where code and text disagree

* **Zero time** (`apostille/verify.go:155`). A certificate dated
  `0001-01-01T00:00:00Z` makes `VerifyBundle` pass Go's zero time to
  `VerifyRegistration`, where zero means "no time given" and skips the
  active-delegation test that `docs/apostille/spec/core-0.1.md:144-147`
  requires. The JavaScript verifier performs it (`web/apostille-core.mjs:117`),
  so the two give different verdicts on such a bundle. An ERC-8004 snapshot with
  that date would skip the same test, and its request's
  (`apostille/erc8004.go:253`), for the same reason. Run `origin_year_one`.
* **Registering while signing** (`web/apostille-page.mjs:634`). The registration
  is replaced when its signatures are ready, without cancelling the draft again:
  a statement signed in between under the earlier registration stays on the page
  and is granted under the new delegation. The comment at line 311 says that
  cancellation must survive an asynchronous signer; the service refuses such a
  submission. Run `console_register_race`.
* **The record of another administrator** (`web/apostille-page.mjs:289`). When a
  session ends, `clearAuthenticatedState` forgets the ERC-8004 record and hides
  the panels, but the row rendered for it, with its Download button, stays in
  the document. When the next administrator signs in on the page the panels open
  again and the row is on show, until an input of the panel changes.
  `docs/apostille/API.md:78` calls it the "own private binding snapshot" that
  other tenants do not get. Run `console_record_left`.

## 6. Not modelled, and the plan

Out of reach: curve and lattice arithmetic, Groth16, identifier grammar and
escapes character by character, wording and layout, vendored code, scripts.

Not modelled because a model would say nothing that could fail: the `Verifier`
cache, a map from the complete envelope to the answer of a pure function; the
comparisons around a ZK proof, one sequence without state; key files; address
classes of the safe HTTP client. The command line runs one operation of the core
per process; its exclusive output files follow the protocol that `HostedRun`
checks, with a name chosen by the user instead of a state directory.

Open: the hazards of the console and the command line listed in
`PROJECT.json` without a property; each says there why. Go's scanner for strict
JSON against the JavaScript parser would be the next comparison of two
languages.
