------------------------------- MODULE Console -------------------------------
(***************************************************************************)
(* The hosted console of web/apostille-page.mjs.  Handlers run one at a    *)
(* time but give up the page at every await: what a handler captured       *)
(* before it waited is a task, and the page may be anything when the task  *)
(* resumes.  Each handler is two kinds of action, the click up to its      *)
(* first await and the continuations after each one.  The hosted service   *)
(* is not in the repository; it is modelled by what the console asks of it *)
(* and docs/apostille/API.md says it answers.                              *)
(***************************************************************************)
EXTENDS Integers, FiniteSets

CONSTANTS AdminKeys,    \* administrator keys
          AgentKeys,    \* agent keys
          PostQuantum,  \* the keys among them that are ML-DSA-65 keys
          Files,        \* original files
          None,
          Limits        \* how often each control may be used: any one of these

Controls == {"admin", "login", "profile", "generate", "import", "register", "use",
             "revoke", "hide", "artifact", "statement", "grant", "visibility",
             "submit", "expire"}

\* A signer, a registration or a statement is an object: two reads of one key
\* file are two signers.  The control, its count and the step name the object.
Ids == Controls \X Nat
Visibilities == {"private", "public"}
Signers == [key : AdminKeys \cup AgentKeys, id : Ids]
Delegations == [agent : AgentKeys, admin : AdminKeys, id : Ids]
Registrations == [delegation : Delegations, id : Ids,
                  at : {"sign", "workspace", "read", "click"}]
Artifacts == [file : Files, id : Ids]
Statements == [agentKey : Signers, artifact : Artifacts,
               delegation : Delegations \cup {None}, id : Ids]
Grants == [statement : Statements, delegation : Delegations, admin : AdminKeys,
           visibility : Visibilities]
Certificates == [statement : Statements, grant : Grants]

ASSUME ConsoleAssumption ==
    /\ Limits # {} /\ Limits \subseteq [Controls -> Nat]
    /\ PostQuantum \subseteq AdminKeys \cup AgentKeys
    /\ None \notin AdminKeys \cup AgentKeys \cup Files \cup Visibilities
    /\ None \notin Signers \cup Delegations \cup Registrations \cup Artifacts
    /\ None \notin Statements \cup Grants

VARIABLES page,        \* the page's state object, counters and visible controls
          tasks,       \* handlers that wait
          used,        \* how often each control has been used
          registered,  \* the service's registrations
          revoked,
          expired,     \* registrations whose delegation has run out
          issued,      \* the service's certificates: the submissions it accepted
          hidden       \* certificates it no longer serves publicly

service == <<registered, revoked, expired, issued, hidden>>
vars == <<page, tasks, used, service>>

(***************************************************************************)
(* The page                                                                *)
(***************************************************************************)

BlankPage ==
    [adminKey |-> None, token |-> None, workspace |-> None, agents |-> {},
     list |-> {}, certificates |-> {}, registration |-> None, agentKey |-> None,
     artifact |-> None, statement |-> None, grant |-> None, grantVisibility |-> None,
     visibility |-> "private", panels |-> FALSE, profile |-> TRUE, canSign |-> FALSE,
     session |-> 0, draft |-> 0, adminRead |-> 0, artifactRead |-> 0]

IsPostQuantum(signer) == signer # None /\ signer.key \in PostQuantum

Hosted(p) == ~IsPostQuantum(p.adminKey) /\ ~IsPostQuantum(p.agentKey)

\* updateSignerButtons.  Only the statement button can be out of date: a
\* registration just signed enables it no sooner than the next update.
UpdateSignerButtons(p) ==
    [p EXCEPT !.canSign = /\ p.agentKey # None
                          /\ p.artifact # None
                          /\ IsPostQuantum(p.agentKey) \/ p.registration # None]

InvalidateGrant(p) ==
    UpdateSignerButtons(
        [p EXCEPT !.draft = @ + 1, !.grant = None, !.grantVisibility = None])

ClearSignedDraft(p) == InvalidateGrant([p EXCEPT !.statement = None])

\* A slip: the counters start again with each session.
EndSessionResetCounters(p) ==
    [ClearSignedDraft([p EXCEPT !.token = None, !.workspace = None, !.agents = {},
                                !.certificates = {}, !.registration = None,
                                !.panels = FALSE])
     EXCEPT !.session = 0, !.draft = 0]

\* A slip: the panels stay open over the list of the session before.
EndSessionKeepsPanels(p) ==
    ClearSignedDraft([p EXCEPT !.session = @ + 1, !.token = None, !.workspace = None,
                               !.agents = {}, !.certificates = {}, !.registration = None])

\* clearAuthenticatedState({preserveInputs: true}).  The rendered agent list
\* stays in the document, out of sight.
EndSession(p) ==
    ClearSignedDraft([p EXCEPT !.session = @ + 1, !.token = None, !.workspace = None,
                               !.agents = {}, !.certificates = {},
                               !.registration = None, !.panels = FALSE])

\* clearAuthenticatedState()
ClearAuthenticatedState(p) ==
    UpdateSignerButtons(
        [EndSession(p) EXCEPT !.agentKey = None, !.artifactRead = @ + 1, !.artifact = None])

\* renderAgents and the update of the buttons after it.  A row's button
\* remembers whether it matched the agent key when it was rendered.
RenderAgents(p) ==
    [UpdateSignerButtons(p) EXCEPT !.list =
        {[agent |-> a, matching |-> p.agentKey # None /\ p.agentKey.key = a.delegation.agent] :
         a \in p.agents}]

CanGrant(p) ==
    /\ p.panels
    /\ p.statement # None
    /\ p.adminKey # None
    /\ p.registration # None
    /\ Hosted(p)

CanSubmit(p) ==
    /\ p.panels
    /\ Hosted(p)
    /\ p.statement # None
    /\ p.grant # None
    /\ p.token # None
    /\ p.grantVisibility = p.visibility

(***************************************************************************)
(* Tasks                                                                   *)
(***************************************************************************)

Count(c) == used' = [used EXCEPT ![c] = @ + 1]
Click(c) == Count(c) /\ \E limit \in Limits : \A d \in Controls : used'[d] <= limit[d]
Id(c) == <<c, used[c] + 1>>
Kind(t) == t.id[1]

Start(task) == tasks' = tasks \cup {task}
Finish(t) == tasks' = tasks \ {t}
Resume(t, next) == tasks' = (tasks \ {t}) \cup {next}

\* The revision test a task makes when it resumes.
Live(t) ==
    CASE Kind(t) = "admin" -> t.read = page.adminRead
      [] Kind(t) = "artifact" -> t.read = page.artifactRead
      [] Kind(t) = "statement" -> t.draft = page.draft
      [] Kind(t) = "grant" -> /\ t.draft = page.draft
                              /\ t.visibility = page.visibility
                              /\ t.statement = page.statement
                              /\ t.registration = page.registration
                              /\ t.adminKey = page.adminKey
      [] Kind(t) = "register" /\ t.step = "sign" -> /\ t.session = page.session
                                                    /\ t.agentKey = page.agentKey
      [] OTHER -> t.session = page.session

\* The task asks for the workspace: loadWorkspace up to its request.
AskWorkspace(t, p) ==
    [id |-> t.id, step |-> "me", session |-> t.session, token |-> p.token]

(***************************************************************************)
(* Administrator key and sign-in                                           *)
(***************************************************************************)

\* Generating and importing both go through replaceAdminKey.
ReplaceAdminKey(k) ==
    /\ Click("admin")
    /\ page' = [ClearAuthenticatedState(page) EXCEPT !.adminRead = @ + 1, !.adminKey = None]
    /\ Start([id |-> Id("admin"), step |-> "read", read |-> page.adminRead + 1, key |-> k])
    /\ UNCHANGED service

\* A slip: no revision test after the file has been read.
AdminKeyReadAnyOrder(t) ==
    /\ t.step = "read" /\ Kind(t) = "admin"
    /\ page' = [page EXCEPT !.adminKey = [key |-> t.key, id |-> t.id]]
    /\ Finish(t)
    /\ UNCHANGED <<used, service>>

\* Without hosted sign-in the signing panels open at once.
AdminKeyRead(t) ==
    /\ t.step = "read" /\ Kind(t) = "admin" /\ Live(t)
    /\ LET signer == [key |-> t.key, id |-> t.id]
           p == [page EXCEPT !.adminKey = signer]
       IN  page' = IF IsPostQuantum(signer)
                   THEN [p EXCEPT !.panels = TRUE, !.profile = FALSE]
                   ELSE p
    /\ Finish(t)
    /\ UNCHANGED <<used, service>>

Login ==
    /\ page.adminKey # None /\ ~IsPostQuantum(page.adminKey)
    /\ Click("login")
    /\ page' = EndSession(page)
    /\ Start([id |-> Id("login"), step |-> "challenge", session |-> page.session + 1,
              key |-> page.adminKey.key])
    /\ UNCHANGED service

\* The challenge arrives, then the signature over it is ready: each time the
\* login goes on only in its own session.
LoginContinues(t) ==
    /\ t.step \in {"challenge", "signing"} /\ Live(t)
    /\ Resume(t, [t EXCEPT !.step = IF @ = "challenge" THEN "signing" ELSE "verify"])
    /\ UNCHANGED <<page, used, service>>

\* A slip: the token is taken whatever session it arrives in.
LoginVerifiedAnySession(t) ==
    /\ t.step = "verify"
    /\ page' = [page EXCEPT !.token = t.key]
    /\ Resume(t, AskWorkspace(t, page'))
    /\ UNCHANGED <<used, service>>

LoginVerified(t) ==
    /\ t.step = "verify" /\ Live(t)
    /\ page' = [page EXCEPT !.token = t.key]
    /\ Resume(t, AskWorkspace(t, page'))
    /\ UNCHANGED <<used, service>>

(***************************************************************************)
(* The workspace                                                           *)
(***************************************************************************)

\* The service answers GET /me with what it holds at that moment.
ServeWorkspace(t) ==
    /\ t.step = "me"
    /\ Resume(t, [id |-> t.id, step |-> "workspace", session |-> t.session,
                  workspace |-> t.token,
                  agents |-> {[delegation |-> d, revoked |-> d \in revoked] :
                              d \in {r \in registered : r.admin = t.token}},
                  certificates |-> {[certificate |-> c,
                                     public |-> c.grant.visibility = "public" /\ c \notin hidden] :
                                    c \in {i \in issued : i.grant.admin = t.token}}])
    /\ UNCHANGED <<page, used, service>>

ActiveAgents(p) ==
    {a \in p.agents : /\ a.delegation.agent = p.agentKey.key
                      /\ ~a.revoked
                      /\ a.delegation \notin expired}

\* What a received workspace can make of the page.  The draft survives if the
\* agent key has an active registration; the first one listed is taken up.
PagesShowing(t, p) ==
    LET q == [p EXCEPT !.workspace = t.workspace, !.agents = t.agents,
                       !.certificates = t.certificates,
                       !.panels = TRUE, !.profile = TRUE]
    IN  IF p.agentKey = None THEN {RenderAgents(q)}
        ELSE IF ActiveAgents(q) = {}
        THEN {RenderAgents([ClearSignedDraft(q) EXCEPT !.registration = None])}
        ELSE {RenderAgents([q EXCEPT !.registration =
                                         [delegation |-> a.delegation, id |-> t.id,
                                          at |-> t.step]]) :
              a \in ActiveAgents(q)}

LoadWorkspace(t) ==
    /\ t.step = "workspace" /\ Live(t)
    /\ page' \in PagesShowing(t, page)
    /\ Finish(t)
    /\ UNCHANGED <<used, service>>

SaveProfile ==
    /\ page.panels /\ page.profile
    /\ Click("profile")
    /\ Start([id |-> Id("profile"), step |-> "put", session |-> page.session,
              token |-> page.token])
    /\ UNCHANGED <<page, service>>

ProfileSaved(t) ==
    /\ t.step = "put" /\ Live(t)
    /\ page' = [page EXCEPT !.workspace = t.token]
    /\ Finish(t)
    /\ UNCHANGED <<used, service>>

(***************************************************************************)
(* The agent key and its registration                                      *)
(***************************************************************************)

\* A generated key is a new one; an imported key may be any.
ChooseAgentKey(c, k) ==
    /\ page.panels
    /\ c = "generate" => \A d \in registered : d.agent # k
    /\ Click(c)
    /\ Start([id |-> Id(c), step |-> "read", session |-> page.session, key |-> k])
    /\ UNCHANGED <<page, service>>

AgentKeyGenerated(t) ==
    /\ t.step = "read" /\ Kind(t) = "generate" /\ Live(t)
    /\ page' = RenderAgents([ClearSignedDraft(page) EXCEPT
                                 !.agentKey = [key |-> t.key, id |-> t.id],
                                 !.registration = None])
    /\ Finish(t)
    /\ UNCHANGED <<used, service>>

\* A slip: the registration of the key before stays.
AgentKeyImportedOnly(t) ==
    /\ t.step = "read" /\ Kind(t) = "import" /\ Live(t)
    /\ page' = RenderAgents([ClearSignedDraft(page) EXCEPT
                                 !.agentKey = [key |-> t.key, id |-> t.id]])
    /\ Finish(t)
    /\ UNCHANGED <<used, service>>

\* loadAgentFile takes up a listed registration that is not revoked; unlike
\* loadWorkspace it does not look at its expiry.
AgentKeyImported(t) ==
    /\ t.step = "read" /\ Kind(t) = "import" /\ Live(t)
    /\ LET listed == {a \in page.agents : a.delegation.agent = t.key /\ ~a.revoked}
           found == {[delegation |-> a.delegation, id |-> t.id, at |-> t.step] : a \in listed}
       IN  \E r \in IF listed = {} THEN {None} ELSE found :
             page' = RenderAgents([ClearSignedDraft(page) EXCEPT
                                       !.agentKey = [key |-> t.key, id |-> t.id],
                                       !.registration = r])
    /\ Finish(t)
    /\ UNCHANGED <<used, service>>

Register ==
    /\ page.panels /\ Hosted(page)
    /\ page.adminKey # None /\ page.agentKey # None /\ page.token # None
    /\ Click("register")
    /\ page' = ClearSignedDraft(page)
    /\ Start([id |-> Id("register"), step |-> "sign", session |-> page.session,
              agentKey |-> page.agentKey, admin |-> page.adminKey.key])
    /\ UNCHANGED service

\* Delegation and acceptance are signed: the page uses them before the service
\* has them.
RegistrationSigned(t) ==
    /\ Kind(t) = "register" /\ t.step = "sign" /\ Live(t)
    /\ LET d == [agent |-> t.agentKey.key, admin |-> t.admin, id |-> t.id]
       IN  /\ page' = [page EXCEPT !.registration =
                          [delegation |-> d, id |-> t.id, at |-> t.step]]
           /\ Resume(t, [id |-> t.id, step |-> "post", session |-> t.session,
                         token |-> page.token, delegation |-> d])
    /\ UNCHANGED <<used, service>>

Answered(t) == Resume(t, [t EXCEPT !.step = "posted"])

ServeRegistration(t) ==
    /\ Kind(t) = "register" /\ t.step = "post"
    /\ registered' = registered \cup {t.delegation}
    /\ Answered(t)
    /\ UNCHANGED <<page, used, revoked, expired, issued, hidden>>

\* "Use agent" in a rendered row: no await, so the click is the whole handler.
UseAgent(row) ==
    /\ page.panels /\ row.matching /\ ~row.agent.revoked
    /\ Click("use")
    /\ page' = RenderAgents([ClearSignedDraft(page) EXCEPT
                                 !.registration = [delegation |-> row.agent.delegation,
                                                   id |-> Id("use"), at |-> "click"]])
    /\ UNCHANGED <<tasks, service>>

\* "Revoke" in a rendered row.  Without a token the request fails at once.
Revoke(row) ==
    /\ page.panels /\ page.token # None /\ ~row.agent.revoked
    /\ Click("revoke")
    /\ Start([id |-> Id("revoke"), step |-> "post", session |-> page.session,
              token |-> page.token, delegation |-> row.agent.delegation])
    /\ UNCHANGED <<page, service>>

ServeRevocation(t) ==
    /\ Kind(t) = "revoke" /\ t.step = "post"
    /\ t.delegation \in registered /\ t.delegation.admin = t.token
    /\ revoked' = revoked \cup {t.delegation}
    /\ Answered(t)
    /\ UNCHANGED <<page, used, registered, expired, issued, hidden>>

(***************************************************************************)
(* The draft: original file, statement, grant, submission                  *)
(***************************************************************************)

\* Choosing no file only clears what was there.
ChooseArtifact(f) ==
    /\ page.panels
    /\ Click("artifact")
    /\ page' = UpdateSignerButtons([ClearSignedDraft(page) EXCEPT
                                        !.artifactRead = @ + 1, !.artifact = None])
    /\ IF f = None THEN UNCHANGED tasks
       ELSE Start([id |-> Id("artifact"), step |-> "read", read |-> page.artifactRead + 1,
                   file |-> f])
    /\ UNCHANGED service

ArtifactRead(t) ==
    /\ t.step = "read" /\ Kind(t) = "artifact" /\ Live(t)
    /\ page' = UpdateSignerButtons([page EXCEPT !.artifact = [file |-> t.file, id |-> t.id]])
    /\ Finish(t)
    /\ UNCHANGED <<used, service>>

\* An ML-DSA-65 agent key signs a producer statement, without registration.
CreateStatement ==
    /\ page.panels /\ page.canSign
    /\ Click("statement")
    /\ page' = ClearSignedDraft(page)
    /\ Start([id |-> Id("statement"), step |-> "sign", draft |-> page.draft + 1,
              agentKey |-> page.agentKey, artifact |-> page.artifact,
              delegation |-> IF IsPostQuantum(page.agentKey) THEN None
                             ELSE page.registration.delegation])
    /\ UNCHANGED service

\* A slip: a signature is shown though its draft was cancelled.
StatementSignedAnyDraft(t) ==
    /\ Kind(t) = "statement"
    /\ page' = UpdateSignerButtons([page EXCEPT !.statement =
                    [agentKey |-> t.agentKey, artifact |-> t.artifact,
                     delegation |-> t.delegation, id |-> t.id]])
    /\ Finish(t)
    /\ UNCHANGED <<used, service>>

StatementSigned(t) ==
    /\ Kind(t) = "statement" /\ Live(t)
    /\ page' = UpdateSignerButtons([page EXCEPT !.statement =
                    [agentKey |-> t.agentKey, artifact |-> t.artifact,
                     delegation |-> t.delegation, id |-> t.id]])
    /\ Finish(t)
    /\ UNCHANGED <<used, service>>

CreateGrant ==
    /\ CanGrant(page)
    /\ Click("grant")
    /\ page' = InvalidateGrant(page)
    /\ Start([id |-> Id("grant"), step |-> "sign", draft |-> page.draft + 1,
              visibility |-> page.visibility, statement |-> page.statement,
              registration |-> page.registration, adminKey |-> page.adminKey])
    /\ UNCHANGED service

GrantSigned(t) ==
    /\ Kind(t) = "grant" /\ Live(t)
    /\ page' = UpdateSignerButtons([page EXCEPT
                    !.grant = [statement |-> t.statement,
                               delegation |-> t.registration.delegation,
                               admin |-> t.adminKey.key,
                               visibility |-> t.visibility],
                    !.grantVisibility = t.visibility])
    /\ Finish(t)
    /\ UNCHANGED <<used, service>>

ChooseVisibility(v) ==
    /\ page.panels /\ v # page.visibility
    /\ Click("visibility")
    /\ page' = InvalidateGrant([page EXCEPT !.visibility = v])
    /\ UNCHANGED <<tasks, service>>

Submit ==
    /\ CanSubmit(page)
    /\ Click("submit")
    /\ Start([id |-> Id("submit"), step |-> "post", session |-> page.session,
              draft |-> page.draft, token |-> page.token,
              statement |-> page.statement, grant |-> page.grant])
    /\ UNCHANGED <<page, service>>

\* The service resolves the agent among its registrations and checks the
\* grant's administrator and digests; a replay finds the stored certificate.
ServeSubmission(t) ==
    /\ Kind(t) = "submit" /\ t.step = "post"
    /\ t.grant.statement = t.statement
    /\ t.grant.delegation = t.statement.delegation
    /\ t.grant.admin = t.token
    /\ t.statement.delegation \in registered \ (revoked \cup expired)
    /\ issued' = issued \cup {[statement |-> t.statement, grant |-> t.grant]}
    /\ Answered(t)
    /\ UNCHANGED <<page, used, registered, revoked, expired, hidden>>

\* A slip: an issued certificate clears whatever draft there is.
SubmissionAnsweredClears(t) ==
    /\ Kind(t) = "submit" /\ t.step = "posted" /\ Live(t)
    /\ page' = ClearSignedDraft(page)
    /\ Resume(t, AskWorkspace(t, page))
    /\ UNCHANGED <<used, service>>

\* An issued certificate uses up the draft it was made from and no other.
SubmissionAnswered(t) ==
    /\ Kind(t) = "submit" /\ t.step = "posted" /\ Live(t)
    /\ page' = IF t.draft = page.draft THEN ClearSignedDraft(page) ELSE page
    /\ Resume(t, AskWorkspace(t, page))
    /\ UNCHANGED <<used, service>>

HideCertificate(c) ==
    /\ page.panels /\ page.token # None /\ c.public
    /\ Click("hide")
    /\ Start([id |-> Id("hide"), step |-> "post", session |-> page.session,
              token |-> page.token, certificate |-> c.certificate])
    /\ UNCHANGED <<page, service>>

ServeHide(t) ==
    /\ Kind(t) = "hide" /\ t.step = "post"
    /\ hidden' = hidden \cup {t.certificate}
    /\ Answered(t)
    /\ UNCHANGED <<page, used, registered, revoked, expired, issued>>

\* Registering, revoking and hiding end by loading the workspace.
ChangeAnswered(t) ==
    /\ Kind(t) # "submit" /\ t.step = "posted" /\ Live(t)
    /\ Resume(t, AskWorkspace(t, page))
    /\ UNCHANGED <<page, used, service>>

(***************************************************************************)
(* What can go wrong                                                       *)
(***************************************************************************)

\* A task that finds its revision gone stops, whatever the answer was.
Discard(t) ==
    /\ ~Live(t)
    /\ Finish(t)
    /\ UNCHANGED <<page, used, service>>

\* A slip: a failed sign-in leaves the session as it is.
FailOnly(t) ==
    /\ Live(t)
    /\ Finish(t)
    /\ UNCHANGED <<page, used, service>>

\* A slip: whatever a failed sign-in finds is ended.
FailEndsAnySession(t) ==
    /\ Kind(t) = "login"
    /\ page' = EndSession(page)
    /\ Finish(t)
    /\ UNCHANGED <<used, service>>

\* Any read, signature, request or answer can fail, a request after the
\* service has acted on it, too.
Fail(t) ==
    /\ Live(t)
    /\ page' = CASE Kind(t) = "login" -> EndSession(page)
                 [] Kind(t) = "artifact" -> ClearSignedDraft([page EXCEPT !.artifact = None])
                 [] OTHER -> page
    /\ Finish(t)
    /\ UNCHANGED <<used, service>>

Expire(d) ==
    /\ d \notin expired
    /\ Click("expire")
    /\ expired' = expired \cup {d}
    /\ UNCHANGED <<page, tasks, registered, revoked, issued, hidden>>

(***************************************************************************)
(* The specification                                                       *)
(***************************************************************************)

Init ==
    /\ page = BlankPage
    /\ tasks = {}
    /\ used = [c \in Controls |-> 0]
    /\ registered = {} /\ revoked = {} /\ expired = {} /\ issued = {} /\ hidden = {}

User ==
    \/ \E k \in AdminKeys : ReplaceAdminKey(k)
    \/ Login
    \/ SaveProfile
    \/ \E c \in {"generate", "import"}, k \in AgentKeys : ChooseAgentKey(c, k)
    \/ Register
    \/ \E row \in page.list : UseAgent(row)
    \/ \E row \in page.list : Revoke(row)
    \/ \E f \in Files \cup {None} : ChooseArtifact(f)
    \/ CreateStatement
    \/ CreateGrant
    \/ \E v \in Visibilities : ChooseVisibility(v)
    \/ Submit
    \/ \E c \in page.certificates : HideCertificate(c)

Handle(t) ==
    \/ AdminKeyRead(t)
    \/ LoginContinues(t)
    \/ LoginVerified(t)
    \/ ProfileSaved(t)
    \/ AgentKeyGenerated(t)
    \/ AgentKeyImported(t)
    \/ RegistrationSigned(t)
    \/ ArtifactRead(t)
    \/ StatementSigned(t)
    \/ GrantSigned(t)
    \/ SubmissionAnswered(t)
    \/ ChangeAnswered(t)
    \/ Discard(t)
    \/ Fail(t)

Continue(t) == LoadWorkspace(t) \/ Handle(t)

Serve(t) ==
    \/ ServeWorkspace(t)
    \/ ServeRegistration(t)
    \/ ServeRevocation(t)
    \/ ServeSubmission(t)
    \/ ServeHide(t)

Next ==
    \/ User
    \/ \E t \in tasks : Continue(t) \/ Serve(t)
    \/ \E d \in registered : Expire(d)

Spec == Init /\ [][Next]_vars

\* Every await settles: reads and signatures finish, and a request is answered
\* or fails at its ten-second deadline.  Nobody has to click.
Fairness ==
    \A c \in Controls : \A n \in UNION {1..limit[c] : limit \in Limits} :
        WF_vars(\E t \in tasks : t.id = <<c, n>> /\ (Continue(t) \/ Serve(t)))

FairSpec == Spec /\ Fairness

(***************************************************************************)
(* Properties                                                              *)
(***************************************************************************)

Optional(S) == S \cup {None}

PageType ==
    [adminKey : Optional(Signers), token : Optional(AdminKeys),
     workspace : Optional(AdminKeys),
     agents : SUBSET [delegation : Delegations, revoked : BOOLEAN],
     list : SUBSET [agent : [delegation : Delegations, revoked : BOOLEAN],
                    matching : BOOLEAN],
     certificates : SUBSET [certificate : Certificates, public : BOOLEAN],
     registration : Optional(Registrations), agentKey : Optional(Signers),
     artifact : Optional(Artifacts), statement : Optional(Statements),
     grant : Optional(Grants), grantVisibility : Optional(Visibilities),
     visibility : Visibilities, panels : BOOLEAN, profile : BOOLEAN, canSign : BOOLEAN,
     session : Nat, draft : Nat, adminRead : Nat, artifactRead : Nat]

\* A task waits with a revision the page has had and never one still to come:
\* a counter that went back would bring a cancelled task to life again.
RevisionKnown(t) ==
    CASE Kind(t) = "admin" -> t.read \in 1..page.adminRead
      [] Kind(t) = "artifact" -> t.read \in 1..page.artifactRead
      [] Kind(t) \in {"statement", "grant"} -> t.draft \in 1..page.draft
      [] OTHER -> t.session \in 1..page.session

\* Type invariant: the page's fields, the counters, and what waits or is
\* stored; the service revokes, issues and hides only what it has.
TypeOK ==
    /\ page \in PageType
    /\ used \in [Controls -> Nat]
    /\ \A t \in tasks : t.id \in Ids /\ t.id[2] <= used[t.id[1]] /\ RevisionKnown(t)
    /\ registered \subseteq Delegations
    /\ revoked \subseteq registered
    /\ expired \subseteq registered
    /\ issued \subseteq Certificates
    /\ hidden \subseteq issued

\* What the console shows as signed in is the loaded administrator key's own:
\* token, workspace and agents (sessionRevision in every handler that awaits).
\* A token without a workspace is on its way to one: the sign-in that set it
\* still loads the workspace, or its failure takes the token back.  Without a
\* session nothing of a workspace is left, and the panels are open only over a
\* loaded workspace or for an ML-DSA-65 key, which has none.
SessionIsAdmins ==
    /\ page.token # None =>
         /\ page.adminKey # None
         /\ page.adminKey.key = page.token
         /\ page.token \notin PostQuantum
         /\ page.workspace \in {None, page.token}
         /\ \A a \in page.agents : a.delegation.admin = page.token
         /\ page.workspace = None =>
              \E t \in tasks : Kind(t) = "login" /\ t.step \in {"me", "workspace"} /\ Live(t)
    /\ page.token = None =>
         page.workspace = None /\ page.agents = {} /\ page.certificates = {}
    /\ page.panels => page.workspace # None \/ IsPostQuantum(page.adminKey)

\* The registration a statement would be signed under names the loaded agent
\* key and the administrator whose session it is.
RegistrationOfKeys ==
    page.agentKey # None /\ page.registration # None =>
        /\ page.registration.delegation.agent = page.agentKey.key
        /\ page.token # None => page.registration.delegation.admin = page.token

\* A statement on the page is by the agent key and about the original file on
\* the page; a grant approves that statement, by the administrator key on the
\* page, with the visibility selected.  Whatever changes in between cancels
\* the signature, finished or not.
DraftMatchesInputs ==
    /\ page.statement # None =>
         /\ page.statement.agentKey = page.agentKey
         /\ page.statement.artifact = page.artifact
    /\ page.grant # None =>
         /\ page.grant.statement = page.statement
         /\ page.grantVisibility = page.visibility
         /\ page.grant.visibility = page.visibility
         /\ page.adminKey # None
         /\ page.grant.admin = page.adminKey.key

\* A request carries the token of the tenant whose object it is about: no list,
\* draft or registration outlives the session it belongs to in a button that
\* still works.  A submission is whole: the grant is for this statement, and
\* the statement is by the agent key that its delegation names.  The service
\* has no reason to refuse it but the delegation's state, or the grant's.
RequestsOfTenant ==
    \A t \in tasks : t.step = "post" =>
        /\ Kind(t) \in {"register", "revoke"} => t.delegation.admin = t.token
        /\ Kind(t) = "hide" => t.certificate.grant.admin = t.token
        /\ Kind(t) = "submit" =>
             /\ t.grant.statement = t.statement
             /\ t.grant.admin = t.token
             /\ t.statement.delegation # None
             /\ t.statement.delegation.admin = t.token
             /\ t.statement.delegation.agent = t.statement.agentKey.key

\* The console keeps numbers; what they stand for is the session of Session:
\* one sign-in that may still complete, and the request for the workspace by
\* which it is completed.  That request's failure ends the session; all other
\* requests of the console leave it as it is.  The user's words are the choice
\* of a key and the click on sign-in.
SignIns == {<<"login", n>> : n \in UNION {1..limit["login"] : limit \in Limits}}

SigningIn(steps) ==
    {t.id : t \in {u \in tasks : Kind(u) = "login" /\ u.step \in steps /\ Live(u)}}

Promised == INSTANCE Session WITH
    Calls    <- SignIns,
    Tokens   <- AdminKeys,
    NoToken  <- None,
    token    <- page.token,
    login    <- SigningIn({"challenge", "signing", "verify"}),
    requests <- SigningIn({"me", "workspace"}),
    said     <- used["admin"] + used["login"]

\* The page's session is what an API client promises: the user's latest word
\* stands, and of overlapping sign-ins only the last completes.
ImplementsSession == Promised!Spec

\* Of several key files or originals chosen one after the other the last one
\* is loaded, however long the earlier ones took to read.
LatestChoice ==
    /\ page.adminKey # None => page.adminKey.id = <<"admin", used["admin"]>>
    /\ page.artifact # None => page.artifact.id = <<"artifact", used["artifact"]>>

\* The answer to a submission uses up the draft that was submitted; a draft
\* made while the answer was on its way stays.
SubmissionKeepsOtherDraft ==
    [][\A t \in tasks :
          SubmissionAnswered(t) =>
              \/ page'.statement = page.statement /\ page'.grant = page.grant
              \/ page.statement = t.statement /\ page.grant = t.grant]_vars

\* A grant names the delegation its statement was signed under: the service
\* "rejects a different administrator, audience or digest".
GrantBindsDelegation ==
    page.grant # None => page.grant.delegation = page.grant.statement.delegation

\* A sign-in comes to an end: the workspace is on show, or the session has
\* been given up, by the user or because the sign-in failed.
SignInSettles ==
    \A s \in UNION {1..(limit["admin"] + 2 * limit["login"]) : limit \in Limits} :
        (\E t \in tasks : Kind(t) = "login" /\ t.session = s)
            ~> (page.workspace # None \/ page.session # s)
==============================================================================
