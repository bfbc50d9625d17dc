------------------------- MODULE ConsoleBindingProofs -------------------------
(***************************************************************************)
(* Theorems about ConsoleBinding.  The panel leaves the rest of the page   *)
(* alone, so what ConsoleProofs shows of the page holds next to the panel, *)
(* too; and a revision and a session that are both current stand for the   *)
(* administrator and the identity the handler started with.                *)
(***************************************************************************)
EXTENDS ConsoleBinding, ConsoleProofs, FiniteSetTheorems

(***************************************************************************)
(* The panel beside the page                                               *)
(***************************************************************************)

LEMMA PageOrNothing ==
    ASSUME BindingNext
    PROVE  Next \/ UNCHANGED vars
  <1>1. CASE WorkspaceLoads
    BY <1>1 DEF WorkspaceLoads, Next, Continue
  <1>2. CASE PageSteps
    BY <1>2 DEF PageSteps, Next, Continue
  <1>3. CASE PanelClick
    BY <1>3 DEF PanelClick, LoadERC8004Config, SelectAgent, EnterIdentity, CreateBinding,
                CreateExpired, LoadBinding, Begin
  <1>4. ASSUME NEW f \in flows, FlowStep(f)
        PROVE  UNCHANGED vars
    BY <1>4 DEF FlowStep, AccountsAnswered, ChainAnswered, RequestReady, OwnerSigned,
                ServeBinding, BindingAnswered, ShowRecord, Stop, Proceed
  <1> QED
    BY <1>1, <1>2, <1>3, <1>4 DEF BindingNext

\* The page beside the panel is the page of Console: no handler of the panel
\* changes anything outside it, so every theorem about Console holds here.
THEOREM PanelLeavesPage == BindingSpec => Spec
  <1>1. BindingInit => Init
    BY DEF BindingInit
  <1>2. [BindingNext]_bindingVars => [Next]_vars
    BY PageOrNothing DEF bindingVars
  <1> QED
    BY <1>1, <1>2, PTL DEF BindingSpec, Spec

(***************************************************************************)
(* Who is signed in                                                        *)
(***************************************************************************)

Who == {"session", "token", "adminKey"}

\* The pages p and q are of the same session of the same administrator.
Same(p, q) == DOMAIN q = DOMAIN p /\ \A f \in Who : q[f] = p[f]

LEMMA SameAfter ==
    ASSUME NEW p, Who \subseteq DOMAIN p
    PROVE  /\ Same(p, UpdateSignerButtons(p)) /\ Same(p, InvalidateGrant(p))
           /\ Same(p, ClearSignedDraft(p)) /\ Same(p, RenderAgents(p))
  <1> USE DEF Who, Same
  <1>1. ASSUME NEW q, Who \subseteq DOMAIN q
        PROVE  Same(q, UpdateSignerButtons(q)) /\ Who \subseteq DOMAIN UpdateSignerButtons(q)
    BY <1>1 DEF UpdateSignerButtons
  <1>2. ASSUME NEW q, Who \subseteq DOMAIN q
        PROVE  Same(q, InvalidateGrant(q)) /\ Who \subseteq DOMAIN InvalidateGrant(q)
    <2>1. PICK r : r = [q EXCEPT !.draft = @ + 1, !.grant = None, !.grantVisibility = None]
      OBVIOUS
    <2>2. Same(q, r) /\ Who \subseteq DOMAIN r
      BY <1>2, <2>1
    <2> QED
      BY <2>1, <2>2, <1>1 DEF InvalidateGrant
  <1>3. Same(p, ClearSignedDraft(p))
    <2>1. PICK r : r = [p EXCEPT !.statement = None]
      OBVIOUS
    <2>2. Same(p, r) /\ Who \subseteq DOMAIN r
      BY <2>1
    <2> QED
      BY <2>1, <2>2, <1>2 DEF ClearSignedDraft
  <1>4. Same(p, RenderAgents(p))
    BY <1>1 DEF RenderAgents
  <1> QED
    BY <1>1, <1>2, <1>3, <1>4

\* Within a session nobody replaces a token or the key it belongs to.
LEMMA SessionSteps ==
    ASSUME IInv, Next
    PROVE  \/ page'.session = page.session + 1
           \/ /\ page'.session = page.session
              /\ page.token # None =>
                   page'.token = page.token /\ page'.adminKey = page.adminKey
  <1> DEFINE Over == page'.session = page.session + 1
             Kept == Same(page, page')
  <1>1. page \in PageType /\ Who \subseteq DOMAIN page
    BY DEF IInv, PageTyped, PageType, Who
  <1>2. SUFFICES \/ Over \/ Kept
                 \/ page.token = None /\ page'.session = page.session
    BY DEF Same, Who
  <1> DEFINE c == ClearSignedDraft(page)
  <1>3. Same(page, c) /\ Who \subseteq DOMAIN c
    BY <1>1, SameAfter DEF Same
  <1>4. CASE User
    <2>1. ASSUME NEW k \in AdminKeys, ReplaceAdminKey(k)
          PROVE  Over
      <3>1. LET q == ClearAuthenticatedState(page) IN
            q \in PageType /\ q.session = page.session + 1
        BY <1>1, AdminGone
      <3> QED
        BY <2>1, <3>1 DEF ReplaceAdminKey, PageType
    <2>2. CASE Login
      BY <1>1, <2>2, SessionGone DEF Login
    <2>3. CASE Register \/ CreateStatement
      BY <1>3, <2>3 DEF Register, CreateStatement
    <2>4. CASE CreateGrant
      BY <1>1, <2>4, SameAfter DEF CreateGrant
    <2>5. ASSUME NEW v \in Visibilities, ChooseVisibility(v)
          PROVE  Kept
      <3>1. PICK r : r = [page EXCEPT !.visibility = v]
        OBVIOUS
      <3>2. Same(page, r) /\ Who \subseteq DOMAIN r
        BY <1>1, <3>1 DEF Same, Who
      <3> QED
        BY <2>5, <3>1, <3>2, SameAfter DEF ChooseVisibility, Same
    <2>6. ASSUME NEW f \in Files \cup {None}, ChooseArtifact(f)
          PROVE  Kept
      <3>1. PICK r : r = [c EXCEPT !.artifactRead = @ + 1, !.artifact = None]
        OBVIOUS
      <3>2. Same(c, r) /\ Who \subseteq DOMAIN r
        BY <1>3, <3>1 DEF Same, Who
      <3> QED
        BY <1>3, <2>6, <3>1, <3>2, SameAfter DEF ChooseArtifact, Same
    <2>7. ASSUME NEW row \in page.list, UseAgent(row)
          PROVE  Kept
      <3>1. PICK r : r = [c EXCEPT !.registration =
                            [delegation |-> row.agent.delegation, id |-> Id("use"),
                             at |-> "click"]]
        OBVIOUS
      <3>2. Same(c, r) /\ Who \subseteq DOMAIN r
        BY <1>3, <3>1 DEF Same, Who
      <3> QED
        BY <1>3, <2>7, <3>1, <3>2, SameAfter DEF UseAgent, Same
    <2>8. CASE UNCHANGED page
      BY <2>8 DEF Same
    <2> QED
      BY <1>4, <2>1, <2>2, <2>3, <2>4, <2>5, <2>6, <2>7, <2>8
         DEF User, SaveProfile, ChooseAgentKey, Revoke, Submit, HideCertificate
  <1>5. ASSUME NEW t \in tasks, LoadWorkspace(t)
        PROVE  Kept
    <2>1. PICK q : q = [page EXCEPT !.workspace = t.workspace, !.agents = t.agents,
                                    !.certificates = t.certificates,
                                    !.panels = TRUE, !.profile = TRUE]
      OBVIOUS
    <2>2. Same(page, q) /\ Who \subseteq DOMAIN q
      BY <1>1, <2>1 DEF Same, Who
    <2>3. ASSUME NEW p, NEW r, Same(page, p), Who \subseteq DOMAIN p,
                 page' = RenderAgents([p EXCEPT !.registration = r])
          PROVE  Kept
      <3>1. PICK m : m = [p EXCEPT !.registration = r]
        OBVIOUS
      <3>2. Same(page, m) /\ Who \subseteq DOMAIN m
        BY <2>3, <3>1 DEF Same, Who
      <3> QED
        BY <2>3, <3>1, <3>2, SameAfter DEF Same
    <2>4. Same(page, ClearSignedDraft(q)) /\ Who \subseteq DOMAIN ClearSignedDraft(q)
      BY <2>2, SameAfter DEF Same
    <2>5. CASE page' = RenderAgents(q)
      BY <2>2, <2>5, SameAfter DEF Same
    <2>6. \/ page' = RenderAgents(q)
          \/ page' = RenderAgents([ClearSignedDraft(q) EXCEPT !.registration = None])
          \/ \E a \in ActiveAgents(q) :
               page' = RenderAgents([q EXCEPT !.registration =
                                       [delegation |-> a.delegation, id |-> t.id,
                                        at |-> t.step]])
      BY <1>5, <2>1 DEF LoadWorkspace, PagesShowing
    <2> QED
      BY <2>2, <2>3, <2>4, <2>5, <2>6
  <1>6. ASSUME NEW t \in tasks, Handle(t)
        PROVE  Over \/ Kept \/ (page.token = None /\ page'.session = page.session)
    <2>1. CASE AdminKeyRead(t)
      <3>1. page.adminKey = None
        BY <2>1 DEF AdminKeyRead, Live, IInv, Reads
      <3>2. page.token = None
        BY <3>1 DEF IInv, SessionIsAdmins
      <3>3. page'.session = page.session
        BY <1>1, <2>1 DEF AdminKeyRead, PageType
      <3> QED
        BY <3>2, <3>3
    <2>2. CASE LoginVerified(t)
      <3>1. Kind(t) = "login" /\ t.session = page.session
        BY <2>2 DEF LoginVerified, Live, IInv, Holding, Holds, Loaders
      <3>2. page.token = None
        BY <2>2, <3>1 DEF LoginVerified, IInv, InSession, Attending, OfSession
      <3>3. page'.session = page.session
        BY <1>1, <2>2 DEF LoginVerified, PageType
      <3> QED
        BY <3>2, <3>3
    <2>3. CASE ProfileSaved(t) \/ RegistrationSigned(t)
      BY <1>1, <2>3 DEF ProfileSaved, RegistrationSigned, Same, Who
    <2>4. CASE AgentKeyGenerated(t) \/ AgentKeyImported(t)
      <3>1. PICK r : page' = RenderAgents([c EXCEPT !.agentKey = [key |-> t.key, id |-> t.id],
                                                    !.registration = r])
        BY <2>4 DEF AgentKeyGenerated, AgentKeyImported
      <3>2. PICK m : m = [c EXCEPT !.agentKey = [key |-> t.key, id |-> t.id],
                                   !.registration = r]
        OBVIOUS
      <3>3. Same(c, m) /\ Who \subseteq DOMAIN m
        BY <1>3, <3>2 DEF Same, Who
      <3> QED
        BY <1>3, <3>1, <3>2, <3>3, SameAfter DEF Same
    <2>5. CASE ArtifactRead(t) \/ StatementSigned(t) \/ GrantSigned(t)
      <3>1. PICK m : Same(page, m) /\ page' = UpdateSignerButtons(m)
        <4>1. CASE ArtifactRead(t)
          <5>1. Same(page, [page EXCEPT !.artifact = [file |-> t.file, id |-> t.id]])
            BY <1>1 DEF Same, Who
          <5> QED
            BY <4>1, <5>1 DEF ArtifactRead
        <4>2. CASE StatementSigned(t)
          <5>1. Same(page, [page EXCEPT !.statement =
                              [agentKey |-> t.agentKey, artifact |-> t.artifact,
                               delegation |-> t.delegation, id |-> t.id]])
            BY <1>1 DEF Same, Who
          <5> QED
            BY <4>2, <5>1 DEF StatementSigned
        <4>3. CASE GrantSigned(t)
          <5>1. Same(page, [page EXCEPT !.grant = [statement |-> t.statement,
                                                   delegation |-> t.registration.delegation,
                                                   admin |-> t.adminKey.key,
                                                   visibility |-> t.visibility],
                                        !.grantVisibility = t.visibility])
            BY <1>1 DEF Same, Who
          <5> QED
            BY <4>3, <5>1 DEF GrantSigned
        <4> QED
          BY <2>5, <4>1, <4>2, <4>3
      <3>2. Who \subseteq DOMAIN m
        BY <1>1, <3>1 DEF Same
      <3> QED
        BY <3>1, <3>2, SameAfter DEF Same
    <2>6. CASE SubmissionAnswered(t)
      BY <1>3, <2>6 DEF SubmissionAnswered, Same
    <2>7. CASE Fail(t)
      <3>1. CASE Kind(t) = "login"
        BY <1>1, <2>7, <3>1, SessionGone DEF Fail
      <3>2. CASE Kind(t) = "artifact"
        <4>1. PICK r : r = [page EXCEPT !.artifact = None]
          OBVIOUS
        <4>2. Same(page, r) /\ Who \subseteq DOMAIN r
          BY <1>1, <4>1 DEF Same, Who
        <4> QED
          BY <2>7, <3>2, <4>1, <4>2, SameAfter DEF Fail, Same
      <3>3. CASE Kind(t) \notin {"login", "artifact"}
        BY <2>7, <3>3 DEF Fail, Same
      <3> QED
        BY <3>1, <3>2, <3>3
    <2>8. CASE UNCHANGED page
      BY <2>8 DEF Same
    <2> QED
      BY <1>6, <2>1, <2>2, <2>3, <2>4, <2>5, <2>6, <2>7, <2>8
         DEF Handle, LoginContinues, ChangeAnswered, Discard
  <1>7. ASSUME NEW t \in tasks, Serve(t)
        PROVE  Kept
    BY <1>7 DEF Serve, ServeWorkspace, ServeRegistration, ServeRevocation, ServeSubmission,
                ServeHide, Same
  <1>8. ASSUME NEW d \in registered, Expire(d)
        PROVE  Kept
    BY <1>8 DEF Expire, Same
  <1> QED
    BY <1>4, <1>5, <1>6, <1>7, <1>8 DEF Next, Continue

(***************************************************************************)
(* The inductive invariant                                                 *)
(***************************************************************************)

PanelFields ==
    {"config", "options", "agent", "identity", "revision", "busy", "record", "row"}
FlowFields ==
    {"kind", "step", "revision", "session", "agent", "admin", "token", "owner", "request",
     "answer"}

PanelShape == DOMAIN panel = PanelFields /\ panel.revision \in Nat

\* At most one handler waits, and the panel knows of it.
OneFlow ==
    \/ panel.busy = TRUE /\ \E f \in flows : flows = {f}
    \/ panel.busy = FALSE /\ flows = {}

\* Neither of its two revisions is still to come.
FlowShape(f) ==
    /\ DOMAIN f = FlowFields
    /\ f.revision \in Nat /\ f.revision <= panel.revision
    /\ f.session \in Nat /\ f.session <= page.session
    /\ f.step \in {"answered", "verify"} => f.answer \in bindings

\* What the two revisions stand for; the token was taken under them.
FlowHolds(f) ==
    /\ Current(f) =>
         /\ page.adminKey = f.admin /\ page.token = f.agent.admin /\ page.token # None
         /\ f.request # None => f.request.identity = panel.identity
    /\ f.token # None => f.token = f.agent.admin

Flows == \A f \in flows : FlowShape(f) /\ FlowHolds(f)

Recorded == RecordOfSession /\ (panel.record # None => page.token # None)

PanelInv == PanelShape /\ OneFlow /\ Flows /\ Recorded

BInv == IInv /\ PanelInv

\* A revision spent: whatever waits has lost the panel.
LEMMA RevisionSpent ==
    ASSUME NEW f, FlowShape(f), FlowHolds(f), page' = page, panel.revision < panel'.revision,
           panel.revision \in Nat, panel'.revision \in Nat, bindings' = bindings
    PROVE  FlowShape(f)' /\ FlowHolds(f)'
  BY DEF FlowShape, FlowHolds, Current

\* One handler in the place of another, with the panel as it was.
LEMMA FlowMoves ==
    ASSUME PanelInv, NEW f \in flows, NEW n, flows' = (flows \ {f}) \cup {n},
           UNCHANGED <<page, panel>>, bindings \subseteq bindings',
           FlowShape(n)', FlowHolds(n)'
    PROVE  PanelInv'
  <1>1. PanelShape' /\ Recorded'
    BY DEF PanelInv, PanelShape, Recorded, RecordOfSession
  <1>2. OneFlow' /\ Flows'
    <2>1. flows = {f} /\ panel.busy = TRUE
      BY DEF PanelInv, OneFlow
    <2>2. flows' = {n}
      BY <2>1
    <2> QED
      BY <2>1, <2>2 DEF OneFlow, Flows
  <1> QED
    BY <1>1, <1>2 DEF PanelInv

LEMMA PageStepsPanel ==
    ASSUME BInv, PageSteps
    PROVE  PanelInv'
  <1>1. /\ page.session \in Nat /\ panel.revision \in Nat /\ DOMAIN panel = PanelFields
        /\ flows' = flows /\ bindings' = bindings
        /\ panel' = IF page'.session = page.session THEN panel
                    ELSE SessionCleared(panel, page'.session - page.session)
    BY DEF PageSteps, BInv, PanelInv, PanelShape, IInv, PageTyped, PageType
  <1>2. \/ page'.session = page.session + 1
        \/ /\ page'.session = page.session
           /\ page.token # None => page'.token = page.token /\ page'.adminKey = page.adminKey
    <2>1. Next
      BY DEF PageSteps, Next, Continue
    <2> QED
      BY <2>1, SessionSteps DEF BInv
  <1>3. CASE page'.session = page.session + 1
    <2>1. panel' = SessionCleared(panel, 1)
      BY <1>1, <1>3
    <2>2. /\ DOMAIN panel' = PanelFields /\ panel'.revision = panel.revision + 1
          /\ panel'.record = None /\ panel'.busy = panel.busy
      BY <1>1, <2>1 DEF SessionCleared, PanelFields
    <2>3. PanelShape' /\ OneFlow' /\ Recorded'
      BY <1>1, <2>2 DEF BInv, PanelInv, PanelShape, OneFlow, Recorded, RecordOfSession
    <2>4. Flows'
      BY <1>1, <1>3, <2>2 DEF BInv, PanelInv, Flows, FlowShape, FlowHolds, Current
    <2> QED
      BY <2>3, <2>4 DEF PanelInv
  <1>4. CASE /\ page'.session = page.session
             /\ page.token # None => page'.token = page.token /\ page'.adminKey = page.adminKey
    <2>1. panel' = panel
      BY <1>1, <1>4
    <2>2. PanelShape' /\ OneFlow' /\ Recorded'
      BY <1>1, <1>4, <2>1 DEF BInv, PanelInv, PanelShape, OneFlow, Recorded, RecordOfSession
    <2>3. Flows'
      BY <1>1, <1>4, <2>1 DEF BInv, PanelInv, Flows, FlowShape, FlowHolds, Current
    <2> QED
      BY <2>2, <2>3 DEF PanelInv
  <1> QED
    BY <1>2, <1>3, <1>4

\* The options and the selected one change without a revision: no handler
\* looks at them again.
LEMMA RenderedPanel ==
    ASSUME NEW p, DOMAIN p = PanelFields, NEW agents, NEW q \in RenderERC8004Agents(p, agents)
    PROVE  /\ DOMAIN q = PanelFields
           /\ q.identity = p.identity /\ q.revision = p.revision /\ q.busy = p.busy
           /\ q.record = p.record /\ q.row = p.row
  <1>1. PICK o, a : q = [p EXCEPT !.options = o, !.agent = a]
    BY DEF RenderERC8004Agents
  <1> QED
    BY <1>1 DEF PanelFields

LEMMA WorkspaceLoadsPanel ==
    ASSUME BInv, WorkspaceLoads
    PROVE  PanelInv'
  <1>1. PICK t \in tasks : LoadWorkspace(t)
    BY DEF WorkspaceLoads
  <1>2. Holds(t) /\ Attending(t) /\ t.id \in Ids /\ t.step = "workspace"
    BY <1>1 DEF LoadWorkspace, BInv, IInv, Holding, InSession, Numbered
  <1>3. /\ page.session = page'.session /\ page.token = page'.token
        /\ page.adminKey = page'.adminKey
    <2>1. /\ t.workspace \in AdminKeys /\ t.agents \subseteq Listed
          /\ t.certificates \subseteq [certificate : Certificates, public : BOOLEAN]
      BY <1>2 DEF Holds, Loaders, BInv, IInv, Stored, Served
    <2>2. Differs(page, page', WorkspaceFields)
      BY <1>1, <1>2, <2>1, Shown DEF LoadWorkspace, BInv, IInv, PageTyped
    <2> QED
      BY <2>2 DEF Differs, PageFields, WorkspaceFields, ShownFields, DraftFields, GrantFields
  <1>4. /\ DOMAIN panel' = PanelFields
        /\ panel'.identity = panel.identity /\ panel'.revision = panel.revision
        /\ panel'.busy = panel.busy /\ panel'.record = panel.record /\ panel'.row = panel.row
    BY RenderedPanel DEF WorkspaceLoads, BInv, PanelInv, PanelShape
  <1>5. flows' = flows /\ bindings' = bindings
    BY DEF WorkspaceLoads
  <1>6. PanelShape' /\ OneFlow' /\ Recorded'
    BY <1>3, <1>4, <1>5 DEF BInv, PanelInv, PanelShape, OneFlow, Recorded, RecordOfSession
  <1>7. Flows'
    BY <1>3, <1>4, <1>5 DEF BInv, PanelInv, Flows, FlowShape, FlowHolds, Current
  <1> QED
    BY <1>6, <1>7 DEF PanelInv

LEMMA PanelClickPanel ==
    ASSUME BInv, PanelClick
    PROVE  PanelInv'
  <1> USE DEF PanelFields
  <1>1. /\ DOMAIN panel = PanelFields /\ panel.revision \in Nat /\ page.session \in Nat
        /\ panel.revision + 1 \in Nat
    BY DEF BInv, PanelInv, PanelShape, IInv, PageTyped, PageType
  <1>2. CASE LoadERC8004Config
    <2>1. PICK c : panel' \in RenderERC8004Agents([panel EXCEPT !.config = c], page.agents)
      BY <1>2 DEF LoadERC8004Config
    <2>2. PICK p : p = [panel EXCEPT !.config = c]
      OBVIOUS
    <2>3. /\ DOMAIN p = PanelFields /\ p.identity = panel.identity
          /\ p.revision = panel.revision /\ p.busy = panel.busy
          /\ p.record = panel.record /\ p.row = panel.row
      BY <1>1, <2>2
    <2>4. /\ DOMAIN panel' = PanelFields
          /\ panel'.identity = panel.identity /\ panel'.revision = panel.revision
          /\ panel'.busy = panel.busy /\ panel'.record = panel.record /\ panel'.row = panel.row
      BY <2>1, <2>2, <2>3, RenderedPanel
    <2>5. UNCHANGED <<page, flows, bindings>>
      BY <1>2 DEF LoadERC8004Config, vars
    <2>6. PanelShape' /\ OneFlow' /\ Recorded'
      BY <2>4, <2>5 DEF BInv, PanelInv, PanelShape, OneFlow, Recorded, RecordOfSession
    <2>7. Flows'
      BY <2>4, <2>5 DEF BInv, PanelInv, Flows, FlowShape, FlowHolds, Current
    <2> QED
      BY <2>6, <2>7 DEF PanelInv
  <1>3. ASSUME UNCHANGED <<page, flows, bindings>>, DOMAIN panel' = PanelFields,
               panel'.revision = panel.revision + 1, panel'.busy = panel.busy,
               \/ panel'.record = None
               \/ panel'.record = panel.record /\ panel'.row = panel.row
        PROVE  PanelInv'
    <2>1. PanelShape' /\ OneFlow' /\ Recorded'
      BY <1>1, <1>3 DEF BInv, PanelInv, PanelShape, OneFlow, Recorded, RecordOfSession
    <2>2. Flows'
      BY <1>1, <1>3, RevisionSpent DEF BInv, PanelInv, Flows
    <2> QED
      BY <2>1, <2>2 DEF PanelInv
  <1>4. CASE \/ \E a \in panel.options : SelectAgent(a)
             \/ \E i \in Identities \cup {None} : EnterIdentity(i)
             \/ CreateExpired
    <2>1. /\ DOMAIN panel' = PanelFields /\ panel'.revision = panel.revision + 1
          /\ panel'.busy = panel.busy
          /\ \/ panel'.record = None
             \/ panel'.record = panel.record /\ panel'.row = panel.row
      BY <1>1, <1>4 DEF SelectAgent, EnterIdentity, CreateExpired, Changed
    <2> QED
      BY <1>3, <1>4, <2>1 DEF SelectAgent, EnterIdentity, CreateExpired, vars
  <1>5. ASSUME NEW n, Begin(n), ~panel.busy, page.token # None, SelectedAgent(panel) # {},
               DOMAIN n = FlowFields, n.revision = panel.revision + 1,
               n.session = page.session, n.agent = panel.agent, n.admin = page.adminKey,
               n.request = None, n.step \in {"accounts", "post"}, n.token \in {None, page.token}
        PROVE  PanelInv'
    <2>1. flows = {} /\ flows' = {n} /\ UNCHANGED <<page, bindings>>
      BY <1>5 DEF Begin, BInv, PanelInv, OneFlow, vars
    <2>2. /\ DOMAIN panel' = PanelFields /\ panel'.revision = panel.revision + 1
          /\ panel'.busy = TRUE /\ panel'.record = panel.record /\ panel'.row = panel.row
      BY <1>1, <1>5 DEF Begin
    <2>3. page.token = n.agent.admin
      BY <1>5 DEF SelectedAgent, BInv, IInv, SessionIsAdmins
    <2>4. FlowShape(n)' /\ FlowHolds(n)'
      BY <1>1, <1>5, <2>1, <2>2, <2>3 DEF FlowShape, FlowHolds, Current
    <2>5. PanelShape' /\ OneFlow' /\ Recorded'
      BY <1>1, <2>1, <2>2 DEF BInv, PanelInv, PanelShape, OneFlow, Recorded, RecordOfSession
    <2> QED
      BY <2>1, <2>4, <2>5 DEF PanelInv, Flows
  <1>6. CASE CreateBinding
    <2>1. PICK n : n = Flow("create", "accounts")
      OBVIOUS
    <2>2. /\ DOMAIN n = FlowFields /\ n.revision = panel.revision + 1
          /\ n.session = page.session /\ n.agent = panel.agent /\ n.admin = page.adminKey
          /\ n.request = None /\ n.step = "accounts" /\ n.token = None
      BY <2>1 DEF Flow, FlowFields
    <2> QED
      BY <1>5, <1>6, <2>1, <2>2 DEF CreateBinding, CanCreate
  <1>7. CASE LoadBinding
    <2>1. PICK m : m = Flow("load", "post")
      OBVIOUS
    <2>2. PICK n : n = [m EXCEPT !.token = page.token]
      OBVIOUS
    <2>3. /\ DOMAIN n = FlowFields /\ n.revision = panel.revision + 1
          /\ n.session = page.session /\ n.agent = panel.agent /\ n.admin = page.adminKey
          /\ n.request = None /\ n.step = "post" /\ n.token = page.token
      BY <2>1, <2>2 DEF Flow, FlowFields
    <2> QED
      BY <1>5, <1>7, <2>1, <2>2, <2>3 DEF LoadBinding, CanLoad
  <1> QED
    BY <1>2, <1>4, <1>6, <1>7 DEF PanelClick

LEMMA FlowStepPanel ==
    ASSUME BInv, NEW f \in flows, FlowStep(f)
    PROVE  PanelInv'
  <1>1. /\ PanelInv /\ FlowShape(f) /\ FlowHolds(f) /\ page' = page
        /\ DOMAIN panel = PanelFields /\ panel.revision \in Nat
    <2>1. page' = page
      BY DEF FlowStep, AccountsAnswered, ChainAnswered, RequestReady, OwnerSigned,
             ServeBinding, BindingAnswered, ShowRecord, Stop, Proceed, vars
    <2> QED
      BY <2>1 DEF BInv, PanelInv, Flows, PanelShape
  <1> USE DEF FlowFields
  <1>2. ASSUME NEW n, Proceed(f, n), DOMAIN n = FlowFields,
               n.revision = f.revision, n.session = f.session, n.agent = f.agent,
               n.admin = f.admin,
               n.request = f.request \/ n.request.identity = panel.identity,
               n.answer = f.answer, n.token = f.token \/ n.token = f.agent.admin,
               n.step \in {"answered", "verify"} => f.step \in {"answered", "verify"}
        PROVE  PanelInv'
    <2>1. UNCHANGED <<page, panel, bindings>> /\ flows' = (flows \ {f}) \cup {n}
      BY <1>2 DEF Proceed, vars
    <2>2. FlowShape(n)' /\ FlowHolds(n)'
      BY <1>1, <1>2, <2>1 DEF FlowShape, FlowHolds, Current
    <2> QED
      BY <1>1, <2>1, <2>2, FlowMoves
  <1>3. DOMAIN f = FlowFields
    BY <1>1 DEF FlowShape
  <1>4. CASE AccountsAnswered(f)
    <2>1. PICK o \in Owners : Proceed(f, [f EXCEPT !.step = "chain", !.owner = o])
      BY <1>4 DEF AccountsAnswered
    <2>2. PICK n : n = [f EXCEPT !.step = "chain", !.owner = o]
      OBVIOUS
    <2> QED
      BY <1>2, <1>3, <2>1, <2>2
  <1>5. CASE ChainAnswered(f)
    <2>1. PICK r : r = [agent |-> f.agent, identity |-> panel.identity,
                        owner |-> f.owner, nonce |-> f.revision]
      OBVIOUS
    <2>2. PICK n : n = [f EXCEPT !.step = "request", !.request = r]
      OBVIOUS
    <2>3. Proceed(f, n)
      BY <1>5, <2>1, <2>2 DEF ChainAnswered
    <2>4. r.identity = panel.identity
      BY <2>1
    <2> QED
      BY <1>2, <1>3, <2>2, <2>3, <2>4
  <1>6. CASE RequestReady(f)
    <2>1. PICK s : /\ s \in {"message", "consent"}
                   /\ Proceed(f, [f EXCEPT !.step = s])
      BY <1>6 DEF RequestReady
    <2>2. PICK n : n = [f EXCEPT !.step = s]
      OBVIOUS
    <2> QED
      BY <1>2, <1>3, <2>1, <2>2
  <1>7. CASE OwnerSigned(f)
    <2>1. PICK n : n = [f EXCEPT !.step = "post", !.token = page.token]
      OBVIOUS
    <2>2. page.token = f.agent.admin
      BY <1>1, <1>7 DEF OwnerSigned, FlowHolds
    <2> QED
      BY <1>2, <1>3, <1>7, <2>1, <2>2 DEF OwnerSigned
  <1>8. CASE ServeBinding(f)
    <2>1. bindings \subseteq bindings' /\ UNCHANGED <<page, panel>>
      BY <1>8 DEF ServeBinding, vars
    <2>2. PICK b \in bindings' :
            flows' = (flows \ {f}) \cup {[f EXCEPT !.step = "answered", !.answer = b]}
      BY <1>8 DEF ServeBinding
    <2>3. PICK n : n = [f EXCEPT !.step = "answered", !.answer = b]
      OBVIOUS
    <2>4. /\ DOMAIN n = FlowFields /\ n.revision = f.revision /\ n.session = f.session
          /\ n.agent = f.agent /\ n.admin = f.admin /\ n.request = f.request
          /\ n.token = f.token /\ n.answer \in bindings'
      BY <1>3, <2>3
    <2>5. FlowShape(n)' /\ FlowHolds(n)'
      BY <1>1, <2>1, <2>4 DEF FlowShape, FlowHolds, Current
    <2> QED
      BY <1>1, <2>1, <2>2, <2>3, <2>5, FlowMoves
  <1>9. CASE BindingAnswered(f)
    <2>1. PICK n : n = [f EXCEPT !.step = "verify"]
      OBVIOUS
    <2> QED
      BY <1>2, <1>3, <1>9, <2>1 DEF BindingAnswered
  <1>10. ASSUME flows' = flows \ {f}, bindings' = bindings, DOMAIN panel' = PanelFields,
                panel'.revision = panel.revision, panel'.busy = FALSE, Recorded'
         PROVE  PanelInv'
    <2>1. flows' = {}
      BY <1>1, <1>10 DEF PanelInv, OneFlow
    <2> QED
      BY <1>1, <1>10, <2>1 DEF PanelInv, PanelShape, OneFlow, Flows
  <1>11. CASE ShowRecord(f)
    <2>1. /\ panel' = [panel EXCEPT !.busy = FALSE, !.record = f.answer, !.row = f.answer]
          /\ flows' = flows \ {f} /\ bindings' = bindings
          /\ f.step = "verify" /\ Current(f) /\ f.answer.agent = f.agent
      BY <1>11 DEF ShowRecord, AnswerBelongs
    <2>2. /\ DOMAIN panel' = PanelFields /\ panel'.revision = panel.revision
          /\ panel'.busy = FALSE /\ panel'.record = f.answer /\ panel'.row = f.answer
      BY <1>1, <2>1 DEF PanelFields
    <2>3. Recorded'
      BY <1>1, <2>1, <2>2 DEF FlowShape, FlowHolds, Recorded, RecordOfSession
    <2> QED
      BY <1>10, <2>1, <2>2, <2>3
  <1>12. CASE Stop(f)
    <2>1. /\ panel' = [panel EXCEPT !.busy = FALSE]
          /\ flows' = flows \ {f} /\ bindings' = bindings
      BY <1>12 DEF Stop
    <2>2. /\ DOMAIN panel' = PanelFields /\ panel'.revision = panel.revision
          /\ panel'.busy = FALSE /\ panel'.record = panel.record /\ panel'.row = panel.row
      BY <1>1, <2>1 DEF PanelFields
    <2>3. Recorded'
      BY <1>1, <2>1, <2>2 DEF PanelInv, Recorded, RecordOfSession
    <2> QED
      BY <1>10, <2>1, <2>2, <2>3
  <1> QED
    BY <1>4, <1>5, <1>6, <1>7, <1>8, <1>9, <1>11, <1>12 DEF FlowStep

(***************************************************************************)
(* The invariant, and what follows from it                                 *)
(***************************************************************************)

LEMMA InitBInv ==
    ASSUME BindingInit
    PROVE  BInv
  <1>1. IInv
    BY InitIInv DEF BindingInit
  <1>2. PanelInv
    BY DEF BindingInit, BlankPanel, PanelInv, PanelShape, PanelFields, OneFlow, Flows,
           Recorded, RecordOfSession
  <1> QED
    BY <1>1, <1>2 DEF BInv

LEMMA NextBInv ==
    ASSUME BInv, [BindingNext]_bindingVars
    PROVE  BInv'
  <1>1. IInv'
    BY PageOrNothing, NextIInv, StutterIInv DEF BInv, bindingVars
  <1>2. PanelInv'
    <2>1. CASE BindingNext
      BY <2>1, WorkspaceLoadsPanel, PageStepsPanel, PanelClickPanel, FlowStepPanel
         DEF BindingNext
    <2>2. CASE UNCHANGED bindingVars
      BY <2>2 DEF bindingVars, vars, BInv, PanelInv, PanelShape, OneFlow, Flows, FlowShape,
                  FlowHolds, Current, Recorded, RecordOfSession
    <2> QED
      BY <2>1, <2>2
  <1> QED
    BY <1>1, <1>2 DEF BInv

\* The inductive invariant of page and panel together holds in every state.
THEOREM PanelInductive == BindingSpec => []BInv
  <1>1. BindingInit => BInv
    BY InitBInv
  <1>2. BInv /\ [BindingNext]_bindingVars => BInv'
    BY NextBInv
  <1> QED
    BY <1>1, <1>2, PTL DEF BindingSpec

\* The panel is busy exactly while one of its handlers waits, whatever ended
\* the one before.
THEOREM BusyKept == BindingSpec => []BusyWhileFlow
  <1>1. BInv => BusyWhileFlow
    <2>1. Cardinality({}) = 0 /\ \A f : Cardinality({f}) = 1
      BY FS_EmptySet, FS_Singleton
    <2> QED
      BY <2>1 DEF BInv, PanelInv, OneFlow, BusyWhileFlow
  <1> QED
    BY <1>1, PanelInductive, PTL

\* A handler that goes on is about the administrator, session and identity the
\* page shows: signing in again, as the same or as another administrator, and
\* changing an input each retire it.  Its request carries the token of its
\* agent's administrator even when it is retired.
THEOREM FlowKept == BindingSpec => []FlowOfPanel
  <1>1. BInv => FlowOfPanel
    BY DEF BInv, PanelInv, Flows, FlowHolds, FlowOfPanel
  <1> QED
    BY <1>1, PanelInductive, PTL

\* A record the page keeps is on show, the service's, and of the administrator
\* signed in.
THEOREM RecordKept == BindingSpec => []RecordOfSession
  <1>1. BInv => RecordOfSession
    BY DEF BInv, PanelInv, Recorded
  <1> QED
    BY <1>1, PanelInductive, PTL

(***************************************************************************)
(* The page beside the panel                                               *)
(***************************************************************************)

\* With the panel at work, too, every request of the page carries the token of
\* the tenant whose object it is about.
THEOREM RequestsBesidePanel == BindingSpec => []RequestsOfTenant
  BY PanelLeavesPage, RequestsKept, PTL

\* With the panel at work, too, the page keeps the session's promise: no handler
\* of the panel ends, replaces or completes a sign-in.
THEOREM SessionBesidePanel == BindingSpec => ImplementsSession
  BY PanelLeavesPage, ConsoleImplements, PTL
=============================================================================
