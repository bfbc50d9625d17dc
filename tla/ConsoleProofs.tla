---------------------------- MODULE ConsoleProofs -----------------------------
(***************************************************************************)
(* Theorems about Console, for any number of keys, files and clicks.  The  *)
(* revision counters do what they are there for: a handler that resumes    *)
(* and finds its revision current finds the page it left.                  *)
(***************************************************************************)
EXTENDS Console, TLAPS

AdminSigners == [key : AdminKeys, id : Ids]
AgentSigners == [key : AgentKeys, id : Ids]
Listed == [delegation : Delegations, revoked : BOOLEAN]
Rows == [agent : Listed, matching : BOOLEAN]
Served == [certificate : issued, public : BOOLEAN]

\* The handlers that ask for the workspace in the end.
Loaders == {"login", "register", "revoke", "submit", "hide"}

Has(t, fields) == {"id", "step", "session"} \cup fields \subseteq DOMAIN t

\* What a handler holds while it waits.
Holds(t) ==
    \/ Kind(t) = "admin" /\ t.step = "read" /\ t.key \in AdminKeys
    \/ Kind(t) = "artifact" /\ t.step = "read" /\ t.file \in Files
    \/ /\ Kind(t) = "login" /\ t.step \in {"challenge", "signing", "verify"}
       /\ t.key \in AdminKeys /\ Has(t, {"key"})
    \/ Kind(t) \in {"generate", "import"} /\ t.step = "read" /\ t.key \in AgentKeys
    \/ Kind(t) = "profile" /\ t.step = "put" /\ t.token \in AdminKeys
    \/ /\ Kind(t) = "register" /\ t.step = "sign"
       /\ t.agentKey \in AgentSigners /\ t.admin \in AdminKeys
    \/ /\ Kind(t) = "statement" /\ t.step = "sign"
       /\ t.agentKey \in AgentSigners /\ t.artifact \in Artifacts
       /\ t.delegation \in Optional(Delegations)
    \/ /\ Kind(t) = "grant" /\ t.step = "sign"
       /\ t.statement \in Statements /\ t.registration \in Registrations
       /\ t.adminKey \in AdminSigners /\ t.visibility \in Visibilities
    \/ /\ Kind(t) \in {"register", "revoke"} /\ t.step \in {"post", "posted"}
       /\ t.delegation \in Delegations /\ Has(t, {"delegation"})
    \/ /\ Kind(t) = "submit" /\ t.step \in {"post", "posted"}
       /\ t.statement \in Statements /\ t.grant \in Grants
       /\ Has(t, {"draft", "statement", "grant"})
    \/ /\ Kind(t) = "hide" /\ t.step \in {"post", "posted"}
       /\ t.certificate \in issued /\ Has(t, {"certificate"})
    \/ Kind(t) \in Loaders /\ t.step = "me" /\ t.token \in AdminKeys
    \/ /\ Kind(t) \in Loaders /\ t.step = "workspace"
       /\ t.workspace \in AdminKeys /\ t.agents \subseteq Listed /\ t.certificates \subseteq Served
       /\ \A a \in t.agents : a.delegation.admin = t.workspace

Numbered ==
    /\ used \in [Controls -> Nat]
    /\ \A t \in tasks : t.id \in Ids /\ t.id[2] <= used[Kind(t)]
    /\ \A t, u \in tasks : t.id = u.id => t = u

\* A session has one sign-in, and a draft one signature at a time.
Alone ==
    \A t, u \in tasks :
        \/ Kind(t) = "login" /\ Kind(u) = "login" /\ t.session = u.session
        \/ /\ Kind(t) \in {"statement", "grant"} /\ Kind(u) \in {"statement", "grant"}
           /\ t.draft = u.draft
        => t = u

Holding == \A t \in tasks : Holds(t) /\ RevisionKnown(t)

Sessions ==
    /\ page.adminRead <= page.session
    /\ page.adminKey # None => page.session # 0

Stored ==
    /\ registered \subseteq Delegations
    /\ revoked \subseteq registered
    /\ expired \subseteq registered
    /\ issued \subseteq Certificates
    /\ hidden \subseteq issued

PageTyped ==
    /\ page \in PageType
    /\ page.adminKey # None => page.adminKey \in AdminSigners
    /\ page.agentKey # None => page.agentKey \in AgentSigners
    /\ page.certificates \subseteq Served

Signable(p) ==
    p.canSign =>
        /\ p.agentKey # None /\ p.artifact # None
        /\ p.registration = None => IsPostQuantum(p.agentKey)

Enabled == Signable(page)

\* What the revision of the session stands for.
OfSession(t) ==
    /\ t.step \in {"challenge", "signing", "verify"} =>
         /\ page.token = None
         /\ page.adminKey # None /\ ~IsPostQuantum(page.adminKey)
         /\ page.adminKey.key = t.key
    /\ t.step \in {"me", "put"} => t.token = page.token
    /\ t.step = "put" => page.workspace # None
    /\ t.step = "workspace" => t.workspace = page.token
    /\ Kind(t) \in {"register", "revoke", "submit", "hide"} => page.token # None
    /\ Kind(t) = "register" /\ t.step = "sign" => t.admin = page.token

Attending(t) ==
    /\ Kind(t) \notin {"admin", "artifact", "statement", "grant"}
    /\ t.session = page.session
    => OfSession(t)

InSession == \A t \in tasks : Attending(t)

SignedOut ==
    page.token = None =>
        /\ ~IsPostQuantum(page.adminKey) => page.registration = None
        /\ ~(page.panels /\ page.profile)

ListOfSession ==
    \A row \in page.list :
        /\ row.matching /\ page.agentKey # None =>
             row.agent.delegation.agent = page.agentKey.key
        /\ page.workspace # None => row.agent.delegation.admin = page.token

\* What the revision of the draft stands for.
OfDraft(t) ==
    /\ Kind(t) = "statement" =>
         /\ t.agentKey = page.agentKey /\ t.artifact = page.artifact
         /\ page.statement = None
    /\ Kind(t) \in {"statement", "grant"} => page.grant = None
    /\ Kind(t) = "submit" => t.statement = page.statement /\ t.grant = page.grant

Drafting(t) ==
    /\ Kind(t) = "submit" /\ t.step \in {"post", "posted"} =>
         t.draft \in Nat /\ t.draft <= page.draft
    /\ /\ Kind(t) \in {"statement", "grant", "submit"}
       /\ t.step \in {"sign", "post", "posted"}
       /\ t.draft = page.draft
       => OfDraft(t)

Drafts == \A t \in tasks : Drafting(t)

\* What the revisions of the two files stand for.
Reads ==
    \A t \in tasks :
        /\ Kind(t) = "admin" /\ t.read = page.adminRead =>
             t.id[2] = used["admin"] /\ page.adminKey = None
        /\ Kind(t) = "artifact" /\ t.read = page.artifactRead =>
             t.id[2] = used["artifact"] /\ page.artifact = None

IInv ==
    /\ Numbered /\ Alone /\ Holding /\ Sessions /\ Stored /\ PageTyped /\ Enabled
    /\ InSession /\ SignedOut /\ ListOfSession /\ Drafts /\ Reads
    /\ SessionIsAdmins /\ RegistrationOfKeys /\ DraftMatchesInputs /\ LatestChoice

-----------------------------------------------------------------------------
(* What the page's own operations change.                                  *)

PageFields ==
    {"adminKey", "token", "workspace", "agents", "list", "certificates", "registration",
     "agentKey", "artifact", "statement", "grant", "grantVisibility", "visibility",
     "panels", "profile", "canSign", "session", "draft", "adminRead", "artifactRead"}

\* Only these fields of the page can be other ones.
Differs(p, q, fields) == \A f \in PageFields \ fields : q[f] = p[f]

GrantFields == {"canSign", "draft", "grant", "grantVisibility"}
DraftFields == GrantFields \cup {"statement"}
SessionFields ==
    DraftFields \cup {"session", "token", "workspace", "agents", "certificates",
                      "registration", "panels"}
AdminFields == SessionFields \cup {"agentKey", "artifactRead", "artifact"}
AgentFields == DraftFields \cup {"agentKey", "registration", "list"}
ShownFields == {"workspace", "agents", "certificates", "panels", "profile", "list",
                "registration", "canSign"}
WorkspaceFields == DraftFields \cup ShownFields

LEMMA NoneOptional ==
    ASSUME NEW S
    PROVE  None \in Optional(S) /\ S \subseteq Optional(S)
  BY DEF Optional

\* The button is right after each update.
LEMMA Buttons ==
    ASSUME NEW p \in PageType
    PROVE  LET q == UpdateSignerButtons(p) IN
           /\ q \in PageType /\ Differs(p, q, {"canSign"}) /\ Signable(q)
  BY DEF UpdateSignerButtons, PageType, Differs, PageFields, Signable

LEMMA GrantGone ==
    ASSUME NEW p \in PageType
    PROVE  LET q == InvalidateGrant(p) IN
           /\ q \in PageType /\ Differs(p, q, GrantFields) /\ Signable(q)
           /\ q.draft = p.draft + 1 /\ q.grant = None /\ q.grantVisibility = None
  <1> DEFINE r == [p EXCEPT !.draft = @ + 1, !.grant = None, !.grantVisibility = None]
  <1>1. p.draft + 1 \in Nat
    BY DEF PageType
  <1>2. r \in PageType
    BY <1>1, NoneOptional DEF PageType
  <1>3. /\ Differs(p, r, GrantFields)
        /\ r.draft = p.draft + 1 /\ r.grant = None /\ r.grantVisibility = None
    BY DEF PageType, Differs, PageFields, GrantFields
  <1>4. InvalidateGrant(p) = UpdateSignerButtons(r)
    BY DEF InvalidateGrant
  <1> HIDE DEF r
  <1> QED
    BY <1>2, <1>3, <1>4, Buttons DEF Differs, PageFields, GrantFields

LEMMA DraftGone ==
    ASSUME NEW p \in PageType
    PROVE  LET q == ClearSignedDraft(p) IN
           /\ q \in PageType /\ Differs(p, q, DraftFields) /\ Signable(q)
           /\ q.draft = p.draft + 1
           /\ q.statement = None /\ q.grant = None /\ q.grantVisibility = None
  <1> DEFINE r == [p EXCEPT !.statement = None]
  <1>1. r \in PageType
    BY NoneOptional DEF PageType
  <1>2. Differs(p, r, {"statement"}) /\ r.statement = None
    BY DEF PageType, Differs, PageFields
  <1>3. ClearSignedDraft(p) = InvalidateGrant(r)
    BY DEF ClearSignedDraft
  <1> HIDE DEF r
  <1> QED
    BY <1>1, <1>2, <1>3, GrantGone DEF Differs, PageFields, DraftFields, GrantFields

\* Nothing of a session is left on a page.
Empty(q) ==
    /\ q.token = None /\ q.workspace = None /\ q.agents = {} /\ q.certificates = {}
    /\ q.registration = None /\ q.panels = FALSE
    /\ q.statement = None /\ q.grant = None

LEMMA SessionGone ==
    ASSUME NEW p \in PageType
    PROVE  LET q == EndSession(p) IN
           /\ q \in PageType /\ Differs(p, q, SessionFields) /\ Signable(q) /\ Empty(q)
           /\ q.session = p.session + 1 /\ q.draft = p.draft + 1
  <1> DEFINE r == [p EXCEPT !.session = @ + 1, !.token = None, !.workspace = None,
                            !.agents = {}, !.certificates = {},
                            !.registration = None, !.panels = FALSE]
  <1>1. p.session + 1 \in Nat
    BY DEF PageType
  <1>2. r \in PageType
    BY <1>1, NoneOptional DEF PageType
  <1>3. /\ Differs(p, r, SessionFields)
        /\ r.session = p.session + 1 /\ r.draft = p.draft
        /\ r.token = None /\ r.workspace = None /\ r.agents = {} /\ r.certificates = {}
        /\ r.registration = None /\ r.panels = FALSE
    BY DEF PageType, Differs, PageFields, SessionFields, DraftFields, GrantFields
  <1>4. EndSession(p) = ClearSignedDraft(r)
    BY DEF EndSession
  <1> HIDE DEF r
  <1> QED
    BY <1>2, <1>3, <1>4, DraftGone
       DEF Differs, PageFields, SessionFields, DraftFields, GrantFields, Empty


LEMMA AdminGone ==
    ASSUME NEW p \in PageType
    PROVE  LET q == ClearAuthenticatedState(p) IN
           /\ q \in PageType /\ Differs(p, q, AdminFields) /\ Signable(q) /\ Empty(q)
           /\ q.session = p.session + 1 /\ q.draft = p.draft + 1
           /\ q.artifactRead = p.artifactRead + 1 /\ q.agentKey = None /\ q.artifact = None
  <1> DEFINE s == EndSession(p)
             r == [s EXCEPT !.agentKey = None, !.artifactRead = @ + 1, !.artifact = None]
  <1>1. /\ s \in PageType /\ Differs(p, s, SessionFields) /\ Empty(s)
        /\ s.session = p.session + 1 /\ s.draft = p.draft + 1
    BY SessionGone
  <1>2. ClearAuthenticatedState(p) = UpdateSignerButtons(r)
    BY DEF ClearAuthenticatedState
  <1> HIDE DEF s
  <1>3. s.artifactRead + 1 \in Nat
    BY <1>1 DEF PageType
  <1>4. r \in PageType
    BY <1>1, <1>3, NoneOptional DEF PageType
  <1>5. /\ Differs(s, r, {"agentKey", "artifactRead", "artifact"}) /\ Empty(r)
        /\ r.artifactRead = s.artifactRead + 1 /\ r.agentKey = None /\ r.artifact = None
    BY <1>1 DEF PageType, Differs, PageFields, Empty
  <1> HIDE DEF r
  <1> QED
    BY <1>1, <1>2, <1>4, <1>5, Buttons
       DEF Differs, PageFields, AdminFields, SessionFields, DraftFields, GrantFields, Empty

\* The rows of the list are the agents of the page.
LEMMA Rendered ==
    ASSUME NEW p \in PageType
    PROVE  LET q == RenderAgents(p) IN
           /\ q \in PageType /\ Differs(p, q, {"canSign", "list"}) /\ Signable(q)
           /\ \A row \in q.list :
                /\ row.agent \in p.agents
                /\ row.matching /\ p.agentKey # None =>
                     row.agent.delegation.agent = p.agentKey.key
  <1> DEFINE b == UpdateSignerButtons(p)
             Matches(a) == p.agentKey # None /\ p.agentKey.key = a.delegation.agent
             rows == {[agent |-> a, matching |-> Matches(a)] : a \in p.agents}
             r == [b EXCEPT !.list = rows]
  <1>1. b \in PageType /\ Differs(p, b, {"canSign"}) /\ Signable(b)
    BY Buttons
  <1>2a. p.agents \subseteq Listed
    BY DEF PageType, Listed
  <1>2b. \A a : Matches(a) \in BOOLEAN
    OBVIOUS
  <1>3a. \A a : Matches(a) => a.delegation.agent = p.agentKey.key
    OBVIOUS
  <1>4. RenderAgents(p) = r
    BY DEF RenderAgents
  <1> HIDE DEF b, Matches
  <1>2. rows \in SUBSET [agent : Listed, matching : BOOLEAN]
    BY <1>2a, <1>2b
  <1>3. \A row \in rows :
          /\ row.agent \in p.agents
          /\ row.matching /\ p.agentKey # None => row.agent.delegation.agent = p.agentKey.key
    BY <1>3a
  <1> HIDE DEF rows
  <1>5. r \in PageType
    BY <1>1, <1>2 DEF PageType, Listed
  <1>6. Differs(b, r, {"list"}) /\ r.list = rows /\ Signable(r)
    BY <1>1 DEF PageType, Differs, PageFields, Signable
  <1> HIDE DEF r
  <1> QED
    BY <1>1, <1>3, <1>4, <1>5, <1>6 DEF Differs, PageFields

\* The agent key, its registration, or both replaced, and the draft cancelled.
LEMMA Represented ==
    ASSUME NEW p \in PageType, NEW k \in Optional(Signers), NEW r \in Optional(Registrations)
    PROVE  LET q == RenderAgents([ClearSignedDraft(p) EXCEPT !.agentKey = k, !.registration = r]) IN
           /\ q \in PageType /\ Differs(p, q, AgentFields) /\ Signable(q)
           /\ q.draft = p.draft + 1 /\ q.agentKey = k /\ q.registration = r
           /\ q.statement = None /\ q.grant = None
           /\ \A row \in q.list :
                /\ row.agent \in p.agents
                /\ row.matching /\ k # None => row.agent.delegation.agent = k.key
  <1> DEFINE s == ClearSignedDraft(p)
             m == [s EXCEPT !.agentKey = k, !.registration = r]
  <1>1. /\ s \in PageType /\ Differs(p, s, DraftFields) /\ s.draft = p.draft + 1
        /\ s.statement = None /\ s.grant = None
    BY DraftGone
  <1> HIDE DEF s
  <1>2. m \in PageType
    BY <1>1 DEF PageType
  <1>3. /\ Differs(s, m, {"agentKey", "registration"})
        /\ m.agentKey = k /\ m.registration = r /\ m.agents = s.agents
    BY <1>1 DEF PageType, Differs, PageFields
  <1> HIDE DEF m
  <1>4. LET q == RenderAgents(m) IN
        /\ q \in PageType /\ Differs(m, q, {"canSign", "list"}) /\ Signable(q)
        /\ \A row \in q.list :
             /\ row.agent \in m.agents
             /\ row.matching /\ m.agentKey # None => row.agent.delegation.agent = m.agentKey.key
    BY <1>2, Rendered
  <1>5. m.agents = p.agents
    BY <1>1, <1>3 DEF Differs, PageFields, DraftFields, GrantFields
  <1> USE DEF Differs, PageFields, AgentFields, DraftFields, GrantFields
  <1>6. Differs(p, RenderAgents(m), AgentFields)
    BY <1>1, <1>3, <1>4
  <1>7. LET q == RenderAgents(m) IN
        /\ q.draft = p.draft + 1 /\ q.agentKey = k /\ q.registration = r
        /\ q.statement = None /\ q.grant = None
    BY <1>1, <1>3, <1>4
  <1> QED
    BY <1>3, <1>4, <1>5, <1>6, <1>7 DEF m, s

\* A workspace shown: its agents are listed, and the registration taken up is
\* one of them; otherwise draft and registration go together.
LEMMA Shown ==
    ASSUME NEW p \in PageType, NEW t, t.id \in Ids, t.step = "workspace",
           t.workspace \in AdminKeys, t.agents \subseteq Listed,
           t.certificates \subseteq [certificate : Certificates, public : BOOLEAN],
           NEW q \in PagesShowing(t, p)
    PROVE  /\ q \in PageType /\ Differs(p, q, WorkspaceFields) /\ Signable(q)
           /\ q.workspace = t.workspace /\ q.agents = t.agents
           /\ q.certificates = t.certificates /\ q.panels = TRUE
           /\ \A row \in q.list :
                /\ row.agent \in t.agents
                /\ row.matching /\ q.agentKey # None =>
                     row.agent.delegation.agent = q.agentKey.key
           /\ \/ /\ Differs(p, q, ShownFields)
                 /\ \/ q.agentKey = None
                    \/ \E a \in t.agents : /\ q.registration.delegation = a.delegation
                                           /\ a.delegation.agent = q.agentKey.key
              \/ /\ q.draft = p.draft + 1 /\ q.registration = None
                 /\ q.statement = None /\ q.grant = None
  <1> DEFINE s == [p EXCEPT !.workspace = t.workspace, !.agents = t.agents,
                            !.certificates = t.certificates,
                            !.panels = TRUE, !.profile = TRUE]
             WithRegistration(r, x) == [r EXCEPT !.registration = x]
  <1>1. t.workspace \in Optional(AdminKeys)
    BY NoneOptional
  <1>2. s \in PageType
    BY <1>1 DEF PageType, Listed
  <1>3. /\ Differs(p, s, {"workspace", "agents", "certificates", "panels", "profile"})
        /\ s.workspace = t.workspace /\ s.agents = t.agents
        /\ s.certificates = t.certificates /\ s.panels = TRUE
    BY DEF PageType, Differs, PageFields
  <1>4. \/ p.agentKey = None /\ q = RenderAgents(s)
        \/ q = RenderAgents(WithRegistration(ClearSignedDraft(s), None))
        \/ \E a \in ActiveAgents(s) :
             q = RenderAgents(WithRegistration(s, [delegation |-> a.delegation, id |-> t.id,
                                                   at |-> t.step]))
    BY DEF PagesShowing
  <1> HIDE DEF s
  <1> USE DEF Differs, PageFields, ShownFields, WorkspaceFields, DraftFields, GrantFields
  <1>5. CASE p.agentKey = None /\ q = RenderAgents(s)
    <2>1. /\ q \in PageType /\ Differs(s, q, {"canSign", "list"}) /\ Signable(q)
          /\ \A row \in q.list :
               /\ row.agent \in s.agents
               /\ row.matching /\ s.agentKey # None =>
                    row.agent.delegation.agent = s.agentKey.key
      BY <1>2, <1>5, Rendered
    <2>2. Differs(p, q, ShownFields)
      BY <1>3, <2>1
    <2>3. Differs(p, q, WorkspaceFields)
      BY <2>2
    <2> QED
      BY <1>3, <1>5, <2>1, <2>2, <2>3
  <1>6. CASE q = RenderAgents(WithRegistration(ClearSignedDraft(s), None))
    <2> DEFINE c == ClearSignedDraft(s)
               r == WithRegistration(c, None)
    <2>1. /\ c \in PageType /\ Differs(s, c, DraftFields)
          /\ c.draft = s.draft + 1 /\ c.statement = None /\ c.grant = None
      BY <1>2, DraftGone
    <2> HIDE DEF c
    <2>2. r \in PageType /\ Differs(c, r, {"registration"}) /\ r.registration = None
      BY <2>1, NoneOptional DEF PageType
    <2>3. q = RenderAgents(r)
      BY <1>6 DEF c
    <2> HIDE DEF r
    <2> QED
      BY <1>3, <2>1, <2>2, <2>3, Rendered
  <1>7. ASSUME NEW a \in ActiveAgents(s),
               q = RenderAgents(WithRegistration(s, [delegation |-> a.delegation, id |-> t.id,
                                                     at |-> t.step]))
        PROVE  /\ q \in PageType /\ Differs(p, q, WorkspaceFields) /\ Signable(q)
               /\ q.workspace = t.workspace /\ q.agents = t.agents
               /\ q.certificates = t.certificates /\ q.panels = TRUE
               /\ \A row \in q.list :
                    /\ row.agent \in t.agents
                    /\ row.matching /\ q.agentKey # None =>
                         row.agent.delegation.agent = q.agentKey.key
               /\ Differs(p, q, ShownFields)
               /\ q.registration.delegation = a.delegation
               /\ a.delegation.agent = q.agentKey.key /\ a \in t.agents
    <2> DEFINE x == [delegation |-> a.delegation, id |-> t.id, at |-> t.step]
               r == WithRegistration(s, x)
    <2>1. a \in t.agents /\ a \in Listed /\ a.delegation.agent = p.agentKey.key
      BY <1>3 DEF ActiveAgents
    <2>2. x \in Optional(Registrations) /\ x.delegation = a.delegation
      BY <2>1, NoneOptional DEF Listed, Registrations
    <2> HIDE DEF x
    <2>3. r \in PageType /\ Differs(s, r, {"registration"}) /\ r.registration = x
      BY <1>2, <2>2 DEF PageType
    <2>4. q = RenderAgents(r)
      BY <1>7 DEF x
    <2> HIDE DEF r
    <2>5. /\ q \in PageType /\ Differs(r, q, {"canSign", "list"}) /\ Signable(q)
          /\ \A row \in q.list :
               /\ row.agent \in r.agents
               /\ row.matching /\ r.agentKey # None =>
                    row.agent.delegation.agent = r.agentKey.key
      BY <2>3, <2>4, Rendered
    <2>6. Differs(p, q, ShownFields)
      BY <1>3, <2>3, <2>5
    <2>7. Differs(p, q, WorkspaceFields)
      BY <2>6
    <2> QED
      BY <1>3, <2>1, <2>2, <2>3, <2>5, <2>6, <2>7
  <1> QED
    BY <1>4, <1>5, <1>6, <1>7
-----------------------------------------------------------------------------
(* What waits.                                                             *)

\* Revisions never go back, and certificates stay issued.
Grows ==
    /\ page \in PageType /\ page' \in PageType
    /\ page.session <= page'.session /\ page.draft <= page'.draft
    /\ page.adminRead <= page'.adminRead /\ page.artifactRead <= page'.artifactRead
    /\ issued \subseteq issued'

LEMMA StillHolds ==
    ASSUME Holding, Grows,
           \A t \in tasks' : t \in tasks \/ (Holds(t)' /\ RevisionKnown(t)')
    PROVE  Holding'
  <1> SUFFICES ASSUME NEW t \in tasks' PROVE Holds(t)' /\ RevisionKnown(t)'
    BY DEF Holding
  <1>1. CASE t \in tasks
    <2>1. Holds(t) /\ RevisionKnown(t)
      BY <1>1 DEF Holding
    <2>2. Holds(t)'
      BY <2>1 DEF Holds, Grows, Kind, Served, Has
    <2>3. RevisionKnown(t)'
      BY <2>1 DEF RevisionKnown, Grows, Kind, PageType
    <2> QED
      BY <2>2, <2>3
  <1> QED
    BY <1>1

\* A click numbers the handler it starts.
LEMMA StartNumbered ==
    ASSUME Numbered, NEW c \in Controls, NEW n, n.id = Id(c), Count(c),
           tasks' \subseteq tasks \cup {n}
    PROVE  Numbered'
  <1> DEFINE m == used[c] + 1
  <1>1. used' \in [Controls -> Nat] /\ used'[c] = m /\ m \in Nat
    BY DEF Numbered, Count
  <1>2. \A d \in Controls : used[d] <= used'[d]
    BY DEF Numbered, Count
  <1>3. n.id = <<c, m>> /\ n.id \in Ids /\ n.id[1] = c /\ n.id[2] = m
    BY <1>1 DEF Id, Ids
  <1>4. ASSUME NEW t \in tasks
        PROVE  t.id \in Ids /\ Kind(t) \in Controls /\ t.id[2] \in Nat /\ t.id[2] <= used[Kind(t)]
    BY DEF Numbered, Ids, Kind
  <1>5. ASSUME NEW t \in tasks PROVE t.id[2] <= used'[Kind(t)] /\ t.id # n.id
    <2>1. used[Kind(t)] \in Nat /\ used'[Kind(t)] \in Nat
      BY <1>1, <1>4 DEF Numbered
    <2>2. t.id[2] <= used'[Kind(t)]
      BY <1>2, <1>4, <2>1
    <2>3. t.id # n.id
      BY <1>3, <1>4, <2>1 DEF Kind
    <2> QED
      BY <2>2, <2>3
  <1> HIDE DEF m
  <1>6. \A t \in tasks' : t.id \in Ids /\ t.id[2] <= used'[Kind(t)]
    BY <1>1, <1>3, <1>4, <1>5 DEF Kind
  <1>7. \A t, u \in tasks' : t.id = u.id => t = u
    BY <1>5 DEF Numbered
  <1> QED
    BY <1>1, <1>6, <1>7 DEF Numbered, Kind

\* It keeps its number when it goes on, and nobody takes it over.
LEMMA MoveNumbered ==
    ASSUME Numbered, NEW t \in tasks, NEW n, n.id = t.id, used' = used,
           tasks' \subseteq (tasks \ {t}) \cup {n}
    PROVE  Numbered'
  BY DEF Numbered, Kind

LEMMA OthersNumbered ==
    ASSUME Numbered, tasks' \subseteq tasks, used' = used
    PROVE  Numbered'
  BY DEF Numbered, Kind

LEMMA ClickNumbered ==
    ASSUME Numbered, NEW c \in Controls, Count(c), UNCHANGED tasks
    PROVE  Numbered'
  <1>1. Numbered => \A d \in Controls : used[d] \in Nat
    BY DEF Numbered
  <1>2. used' \in [Controls -> Nat] /\ \A d \in Controls : used[d] <= used'[d]
    BY DEF Numbered, Count
  <1>3. ASSUME NEW t \in tasks
        PROVE  t.id \in Ids /\ Kind(t) \in Controls /\ t.id[2] \in Nat /\ t.id[2] <= used[Kind(t)]
    BY DEF Numbered, Ids, Kind
  <1>4. ASSUME NEW t \in tasks PROVE t.id[2] <= used'[Kind(t)]
    BY <1>2, <1>3 DEF Numbered
  <1> QED
    BY <1>2, <1>3, <1>4 DEF Numbered, Kind

\* A draft cancelled: whatever was signed for it belongs to no draft any more.
LEMMA DraftsCancelled ==
    ASSUME IInv, page' \in PageType, page'.draft = page.draft + 1,
           \A t \in tasks' : t \in tasks \/ Drafting(t)'
    PROVE  Drafts'
  <1> SUFFICES ASSUME NEW t \in tasks, t \in tasks' PROVE Drafting(t)'
    BY DEF Drafts
  <1>1. page.draft \in Nat /\ page'.draft = page.draft + 1
    BY DEF IInv, PageTyped, PageType
  <1>2. CASE Kind(t) \notin {"statement", "grant", "submit"}
    BY <1>2 DEF Drafting, Kind
  <1>3. CASE Kind(t) \in {"statement", "grant"}
    <2>1. t.draft \in 1..page.draft
      BY <1>3 DEF IInv, Holding, RevisionKnown
    <2> QED
      BY <1>1, <1>3, <2>1 DEF Drafting, Kind
  <1>4. CASE Kind(t) = "submit"
    <2>1. Holds(t) /\ Drafting(t)
      BY <1>4 DEF IInv, Holding, Drafts
    <2>2. t.step # "sign"
      BY <1>4, <2>1 DEF Holds, Loaders
    <2> QED
      BY <1>1, <1>4, <2>1, <2>2 DEF Drafting, Kind
  <1> QED
    BY <1>2, <1>3, <1>4

\* A draft going on: what its handlers hold is still what the page shows.
LEMMA DraftsGoOn ==
    ASSUME IInv, page'.draft = page.draft, page'.agentKey = page.agentKey,
           page'.artifact = page.artifact, page'.statement = page.statement,
           page'.grant = page.grant,
           \A t \in tasks' : t \in tasks \/ Drafting(t)'
    PROVE  Drafts'
  <1> SUFFICES ASSUME NEW t \in tasks, t \in tasks' PROVE Drafting(t)'
    BY DEF Drafts
  <1>1. Drafting(t)
    BY DEF IInv, Drafts
  <1> QED
    BY <1>1 DEF Drafting, OfDraft, Kind

\* A session given up: nobody attends to the new one.
LEMMA SessionOver ==
    ASSUME IInv, page' \in PageType, page'.session = page.session + 1, Empty(page'),
           page'.list = page.list, page'.agentKey \in {None, page.agentKey},
           \A t \in tasks' : t \in tasks \/ Attending(t)'
    PROVE  /\ InSession' /\ SignedOut' /\ ListOfSession' /\ SessionIsAdmins'
           /\ RegistrationOfKeys'
  <1>1. InSession'
    <2> SUFFICES ASSUME NEW t \in tasks, t \in tasks' PROVE Attending(t)'
      BY DEF InSession
    <2>1. RevisionKnown(t) /\ page.session \in Nat
      BY DEF IInv, Holding, PageTyped, PageType
    <2> QED
      BY <2>1 DEF Attending, RevisionKnown, Kind
  <1>2. SignedOut' /\ RegistrationOfKeys' /\ SessionIsAdmins'
    BY DEF Empty, SignedOut, RegistrationOfKeys, SessionIsAdmins
  <1>3. ListOfSession'
    BY DEF IInv, ListOfSession, Empty
  <1> QED
    BY <1>1, <1>2, <1>3

\* A session going on: what is signed in stays so, and its sign-in stays under
\* way until the workspace is there.
LEMMA SessionGoesOn ==
    ASSUME IInv, page'.session = page.session, page'.token = page.token,
           page'.adminKey = page.adminKey, page'.workspace = page.workspace,
           page'.agents = page.agents, page'.certificates = page.certificates,
           page'.panels = page.panels, page'.adminRead = page.adminRead,
           \A t \in tasks' : t \in tasks \/ Attending(t)',
           \A t \in tasks : Kind(t) = "login" => t \in tasks'
    PROVE  Sessions' /\ InSession' /\ SessionIsAdmins'
  <1>1. InSession'
    <2> SUFFICES ASSUME NEW t \in tasks, t \in tasks' PROVE Attending(t)'
      BY DEF InSession
    <2>1. Attending(t)
      BY DEF IInv, InSession
    <2> QED
      BY <2>1 DEF Attending, OfSession, Kind
  <1>2. SessionIsAdmins'
    BY DEF IInv, SessionIsAdmins, Live, Kind
  <1>3. Sessions'
    BY DEF IInv, Sessions
  <1> QED
    BY <1>1, <1>2, <1>3

\* The files are read as before, and none of the reads is a new one.
LEMMA ReadsGoOn ==
    ASSUME IInv, page'.adminRead = page.adminRead, page'.adminKey = page.adminKey,
           page'.artifactRead = page.artifactRead, page'.artifact = page.artifact,
           used'["admin"] = used["admin"], used'["artifact"] = used["artifact"],
           \A t \in tasks' : t \in tasks \/ Kind(t) \notin {"admin", "artifact"}
    PROVE  Reads' /\ LatestChoice'
  <1> USE DEF Kind
  <1>1. Reads'
    BY DEF IInv, Reads
  <1>2. LatestChoice'
    BY DEF IInv, LatestChoice
  <1> QED
    BY <1>1, <1>2

\* The service is left alone.
LEMMA ServiceStays ==
    ASSUME IInv, UNCHANGED service, page' \in PageType,
           page'.adminKey \in {None, page.adminKey} \/ page'.adminKey \in AdminSigners,
           page'.agentKey \in {None, page.agentKey} \/ page'.agentKey \in AgentSigners,
           page'.certificates \subseteq Served
    PROVE  Stored' /\ PageTyped'
  <1>1. Stored'
    BY DEF IInv, Stored, service
  <1>2. PageTyped'
    BY DEF IInv, PageTyped, Served, service
  <1> QED
    BY <1>1, <1>2
-----------------------------------------------------------------------------
(* Steps that leave the page alone: a handler starts, goes on or stops.    *)

LEMMA PageStays ==
    ASSUME IInv, page' = page, issued \subseteq issued'
    PROVE  /\ Sessions' /\ PageTyped' /\ Enabled' /\ SignedOut' /\ ListOfSession'
           /\ RegistrationOfKeys' /\ DraftMatchesInputs' /\ Grows
  <1>1. Sessions' /\ Enabled' /\ SignedOut' /\ ListOfSession' /\ RegistrationOfKeys'
        /\ DraftMatchesInputs'
    BY DEF IInv, Sessions, Enabled, SignedOut, ListOfSession, RegistrationOfKeys,
           DraftMatchesInputs
  <1>2. PageTyped' /\ Grows
    BY DEF IInv, PageTyped, PageType, Served, Grows
  <1> QED
    BY <1>1, <1>2

\* A handler started by a click that changes nothing yet.
LEMMA TaskStarts ==
    ASSUME IInv, UNCHANGED <<page, service>>,
           NEW c \in Controls \ {"admin", "artifact", "login", "statement", "grant"},
           NEW n, n.id = Id(c), Kind(n) = c, Count(c), Start(n),
           Holds(n), RevisionKnown(n), Attending(n), Drafting(n)
    PROVE  IInv'
  <1>1. tasks' = tasks \cup {n}
    BY DEF Start
  <1>2. Numbered'
    BY <1>1, StartNumbered DEF IInv
  <1>3. Alone'
    BY <1>1 DEF IInv, Alone, Kind
  <1>4. Stored'
    BY DEF IInv, Stored, service
  <1>5. /\ Sessions' /\ PageTyped' /\ Enabled' /\ SignedOut' /\ ListOfSession'
        /\ RegistrationOfKeys' /\ DraftMatchesInputs' /\ Grows
    BY PageStays DEF service
  <1>6. Holding'
    <2>1. Holds(n)' /\ RevisionKnown(n)'
      BY DEF Holds, RevisionKnown, Kind, Served, Has, service
    <2> QED
      BY <1>1, <1>5, <2>1, StillHolds DEF IInv
  <1>7. InSession'
    BY <1>1 DEF IInv, InSession, Attending, OfSession, Kind
  <1>8. Drafts'
    BY <1>1 DEF IInv, Drafts, Drafting, OfDraft, Kind
  <1>9. used'["admin"] = used["admin"] /\ used'["artifact"] = used["artifact"]
    BY DEF Count, IInv, Numbered, Controls
  <1>10. Reads'
    BY <1>1, <1>9 DEF IInv, Reads
  <1>11. LatestChoice'
    BY <1>9 DEF IInv, LatestChoice
  <1>12. SessionIsAdmins'
    BY <1>1 DEF IInv, SessionIsAdmins, Live, Kind
  <1> QED
    BY <1>2, <1>3, <1>4, <1>5, <1>6, <1>7, <1>8, <1>10, <1>11, <1>12 DEF IInv

\* A handler that goes on in its session, or the service answers it.
LEMMA TaskMoves ==
    ASSUME IInv, UNCHANGED <<page, used>>, Stored', issued \subseteq issued',
           NEW t \in tasks, NEW n, Resume(t, n), n.id = t.id, n.session = t.session,
           Kind(t) \notin {"admin", "artifact", "statement", "grant"},
           Kind(t) = "login" /\ t.step \in {"me", "workspace"}
             => n.step \in {"me", "workspace"},
           Holds(n)', Attending(n), Drafting(n)
    PROVE  IInv'
  <1>1. tasks' = (tasks \ {t}) \cup {n} /\ Kind(n) = Kind(t)
    BY DEF Resume, Kind
  <1>2. Numbered'
    BY <1>1, MoveNumbered DEF IInv
  <1>3. Alone'
    BY <1>1 DEF IInv, Alone, Kind
  <1>4. /\ Sessions' /\ PageTyped' /\ Enabled' /\ SignedOut' /\ ListOfSession'
        /\ RegistrationOfKeys' /\ DraftMatchesInputs' /\ Grows
    BY PageStays
  <1>5. Holding'
    <2>1. RevisionKnown(t)
      BY DEF IInv, Holding
    <2>2. RevisionKnown(n)'
      BY <1>1, <2>1 DEF RevisionKnown, Kind
    <2> QED
      BY <1>1, <1>4, <2>2, StillHolds DEF IInv
  <1>6. InSession'
    BY <1>1 DEF IInv, InSession, Attending, OfSession, Kind
  <1>7. Drafts'
    BY <1>1 DEF IInv, Drafts, Drafting, OfDraft, Kind
  <1>8. Reads' /\ LatestChoice'
    BY <1>1 DEF IInv, Reads, LatestChoice, Kind
  <1>9. SessionIsAdmins'
    <2> SUFFICES ASSUME page.token # None, page.workspace = None
                 PROVE  \E u \in tasks' : Kind(u) = "login" /\ u.step \in {"me", "workspace"}
                                            /\ u.session = page.session
      BY DEF IInv, SessionIsAdmins, Live, Kind
    <2>1. PICK u \in tasks : Kind(u) = "login" /\ u.step \in {"me", "workspace"}
                               /\ u.session = page.session
      BY DEF IInv, SessionIsAdmins, Live
    <2> QED
      BY <1>1, <2>1
  <1> QED
    BY <1>2, <1>3, <1>4, <1>5, <1>6, <1>7, <1>8, <1>9 DEF IInv

\* A handler that stops, but for a sign-in under way.
LEMMA TaskEnds ==
    ASSUME IInv, UNCHANGED <<page, used, service>>, NEW t \in tasks, Finish(t),
           ~(Kind(t) = "login" /\ t.session = page.session)
    PROVE  IInv'
  <1>1. tasks' = tasks \ {t}
    BY DEF Finish
  <1>2. Numbered'
    BY <1>1, OthersNumbered DEF IInv
  <1>3. Alone'
    BY <1>1 DEF IInv, Alone, Kind
  <1>4. /\ Sessions' /\ PageTyped' /\ Enabled' /\ SignedOut' /\ ListOfSession'
        /\ RegistrationOfKeys' /\ DraftMatchesInputs' /\ Grows
    BY PageStays DEF service
  <1>5. Holding' /\ Stored'
    BY <1>1, <1>4, StillHolds DEF IInv, Stored, service
  <1>6. InSession'
    BY <1>1 DEF IInv, InSession, Attending, OfSession, Kind
  <1>7. Drafts'
    BY <1>1 DEF IInv, Drafts, Drafting, OfDraft, Kind
  <1>8. Reads' /\ LatestChoice'
    BY <1>1 DEF IInv, Reads, LatestChoice, Kind
  <1>9. SessionIsAdmins'
    BY <1>1 DEF IInv, SessionIsAdmins, Live, Kind
  <1> QED
    BY <1>2, <1>3, <1>4, <1>5, <1>6, <1>7, <1>8, <1>9 DEF IInv


-----------------------------------------------------------------------------
(* The administrator key, sign-in and workspace.                           *)

LEMMA ReplaceAdminKeyStep ==
    ASSUME IInv, NEW k \in AdminKeys, ReplaceAdminKey(k)
    PROVE  IInv'
  <1> DEFINE c == ClearAuthenticatedState(page)
  <1>1. PICK n : n = [id |-> Id("admin"), step |-> "read", read |-> page.adminRead + 1, key |-> k]
    OBVIOUS
  <1>2. /\ n.id = Id("admin") /\ Kind(n) = "admin" /\ n.step = "read"
        /\ n.read = page.adminRead + 1 /\ n.key = k /\ n.id[2] = used["admin"] + 1
    BY <1>1 DEF Id, Kind
  <1>3. tasks' = tasks \cup {n} /\ Count("admin") /\ UNCHANGED service
    BY <1>1 DEF ReplaceAdminKey, Start, Click
  <1>4. page \in PageType /\ page' = [c EXCEPT !.adminRead = @ + 1, !.adminKey = None]
    BY DEF ReplaceAdminKey, IInv, PageTyped
  <1>5. /\ c \in PageType /\ Differs(page, c, AdminFields) /\ Signable(c) /\ Empty(c)
        /\ c.session = page.session + 1 /\ c.draft = page.draft + 1
        /\ c.artifactRead = page.artifactRead + 1 /\ c.agentKey = None /\ c.artifact = None
    BY <1>4, AdminGone
  <1> HIDE DEF c
  <1> USE DEF Differs, PageFields, AdminFields, SessionFields, DraftFields, GrantFields
  <1>6. page.adminRead \in Nat /\ page.artifactRead \in Nat /\ page.session \in Nat
        /\ page.draft \in Nat /\ c.adminRead = page.adminRead /\ c.adminRead + 1 \in Nat
    BY <1>4, <1>5 DEF PageType
  <1>7. page' \in PageType
    BY <1>4, <1>5, <1>6, NoneOptional DEF PageType
  <1>8. /\ Differs(c, page', {"adminRead", "adminKey"})
        /\ page'.adminRead = page.adminRead + 1 /\ page'.adminKey = None
    BY <1>4, <1>5, <1>6 DEF PageType
  <1>9. Empty(page') /\ Signable(page') /\ page'.list = page.list
    BY <1>5, <1>8 DEF Empty, Signable
  <1>10. /\ page'.session = page.session + 1 /\ page'.draft = page.draft + 1
         /\ page'.artifactRead = page.artifactRead + 1
         /\ page'.agentKey = None /\ page'.artifact = None
    BY <1>5, <1>8
  <1> HIDE DEF Differs
  <1>11. Numbered'
    BY <1>2, <1>3, StartNumbered DEF IInv, Controls
  <1>12. Alone'
    BY <1>2, <1>3 DEF IInv, Alone, Kind
  <1>13. Grows
    BY <1>3, <1>4, <1>6, <1>7, <1>8, <1>10 DEF Grows, service
  <1>14. Holding'
    <2>1. Holds(n)' /\ RevisionKnown(n)'
      BY <1>2, <1>6, <1>8 DEF Holds, RevisionKnown, Kind
    <2> QED
      BY <1>3, <1>13, <2>1, StillHolds DEF IInv
  <1>15. Sessions'
    BY <1>6, <1>8, <1>10 DEF IInv, Sessions
  <1>16. Stored' /\ PageTyped'
    BY <1>3, <1>7, <1>8, <1>9, <1>10, ServiceStays DEF Empty
  <1>17. InSession' /\ SignedOut' /\ ListOfSession' /\ SessionIsAdmins' /\ RegistrationOfKeys'
    <2>1. Attending(n)'
      BY <1>2 DEF Attending, Kind
    <2> QED
      BY <1>3, <1>7, <1>9, <1>10, <2>1, SessionOver
  <1>18. Drafts'
    <2>1. Drafting(n)'
      BY <1>2 DEF Drafting, Kind
    <2> QED
      BY <1>3, <1>7, <1>10, <2>1, DraftsCancelled
  <1>19. Reads'
    <2> SUFFICES ASSUME NEW t \in tasks',
                        \/ Kind(t) = "admin" /\ t.read = page'.adminRead
                        \/ Kind(t) = "artifact" /\ t.read = page'.artifactRead
                 PROVE  t = n
      BY <1>2, <1>3, <1>8, <1>10 DEF Reads, Count, IInv, Numbered, Controls, Kind
    <2> SUFFICES ASSUME t \in tasks PROVE FALSE
      BY <1>3
    <2>1. RevisionKnown(t)
      BY DEF IInv, Holding
    <2> QED
      BY <1>6, <1>8, <1>10, <2>1 DEF RevisionKnown, Kind
  <1>20. DraftMatchesInputs' /\ LatestChoice'
    BY <1>8, <1>9, <1>10 DEF Empty, DraftMatchesInputs, LatestChoice
  <1> QED
    BY <1>9, <1>11, <1>12, <1>14, <1>15, <1>16, <1>17, <1>18, <1>19, <1>20 DEF IInv, Enabled

LEMMA AdminKeyReadStep ==
    ASSUME IInv, NEW t \in tasks, AdminKeyRead(t)
    PROVE  IInv'
  <1>1. PICK s : s = [key |-> t.key, id |-> t.id]
    OBVIOUS
  <1>2. tasks' = tasks \ {t} /\ UNCHANGED <<used, service>> /\ Kind(t) = "admin"
    BY DEF AdminKeyRead, Finish
  <1>3. t.read = page.adminRead
    BY DEF AdminKeyRead, Live
  <1>4. Holds(t) /\ RevisionKnown(t) /\ t.id \in Ids /\ t.id[2] = used["admin"]
        /\ page.adminKey = None
    BY <1>2, <1>3 DEF IInv, Holding, Numbered, Reads
  <1>5. s \in AdminSigners /\ s \in Signers /\ s.id = <<"admin", used["admin"]>> /\ s # None
    <2>1. s.key = t.key /\ s.id = t.id /\ t.key \in AdminKeys
      BY <1>1, <1>2, <1>4 DEF Holds, Loaders
    <2>2. s \in AdminSigners /\ s \in Signers
      BY <1>1, <1>4, <2>1 DEF AdminSigners, Signers
    <2>3. s # None
      BY <2>2, ConsoleAssumption
    <2>4. s.id = <<"admin", used["admin"]>>
      BY <1>2, <1>4, <2>1 DEF Ids, Kind
    <2> QED
      BY <2>2, <2>3, <2>4
  <1>6. page \in PageType
    BY DEF IInv, PageTyped
  <1>7. /\ page' \in PageType /\ page'.adminKey = s
        /\ Differs(page, page', {"adminKey", "panels", "profile"})
        /\ \/ page'.panels = page.panels /\ page'.profile = page.profile
           \/ IsPostQuantum(s) /\ page'.profile = FALSE
    <2> DEFINE p == [page EXCEPT !.adminKey = s]
    <2>1. page' = IF IsPostQuantum(s) THEN [p EXCEPT !.panels = TRUE, !.profile = FALSE] ELSE p
      BY <1>1 DEF AdminKeyRead
    <2>2. p \in PageType /\ p.adminKey = s /\ Differs(page, p, {"adminKey"})
      BY <1>5, <1>6, NoneOptional DEF PageType, Differs, PageFields
    <2> HIDE DEF p
    <2> QED
      BY <2>1, <2>2 DEF PageType, Differs, PageFields
  <1> USE DEF Differs, PageFields
  <1>8. page.token = None /\ page.grant = None /\ page.registration = None
    BY <1>4 DEF IInv, SessionIsAdmins, DraftMatchesInputs, SignedOut, IsPostQuantum
  <1>9. Numbered'
    BY <1>2, OthersNumbered DEF IInv
  <1>10. Alone'
    BY <1>2 DEF IInv, Alone, Kind
  <1>11. Grows
    BY <1>2, <1>6, <1>7 DEF Grows, PageType, service
  <1>12. Holding'
    BY <1>2, <1>11, StillHolds DEF IInv
  <1>13. Sessions'
    BY <1>2, <1>3, <1>4, <1>6, <1>7 DEF IInv, Sessions, RevisionKnown, PageType
  <1>14. Stored' /\ PageTyped'
    <2>1. page'.agentKey = page.agentKey /\ page'.certificates \subseteq Served
      BY <1>7 DEF IInv, PageTyped
    <2> QED
      BY <1>2, <1>5, <1>7, <2>1, ServiceStays
  <1>15. Enabled'
    BY <1>7 DEF IInv, Enabled, Signable
  <1>16. InSession'
    <2> SUFFICES ASSUME NEW u \in tasks, Attending(u) PROVE Attending(u)'
      BY <1>2 DEF IInv, InSession
    <2> QED
      BY <1>4, <1>7 DEF Attending, OfSession, Kind
  <1>17. SignedOut' /\ RegistrationOfKeys'
    BY <1>7, <1>8 DEF IInv, SignedOut, RegistrationOfKeys
  <1>18. ListOfSession'
    BY <1>7 DEF IInv, ListOfSession
  <1>19. SessionIsAdmins'
    BY <1>4, <1>7, <1>8 DEF IInv, SessionIsAdmins, IsPostQuantum
  <1>20. Drafts'
    BY <1>2, <1>7, DraftsGoOn
  <1>21. DraftMatchesInputs'
    BY <1>7, <1>8 DEF IInv, DraftMatchesInputs
  <1>22. Reads'
    <2> SUFFICES ASSUME NEW u \in tasks, u # t
                 PROVE  /\ ~(Kind(u) = "admin" /\ u.read = page.adminRead)
                        /\ Kind(u) = "artifact" /\ u.read = page.artifactRead =>
                             u.id[2] = used["artifact"] /\ page.artifact = None
      BY <1>2, <1>7 DEF Reads
    <2>1. u.id \in Ids /\ u.id # t.id
      BY DEF IInv, Numbered
    <2> QED
      BY <1>2, <1>4, <2>1 DEF IInv, Reads, Ids, Kind
  <1>23. LatestChoice'
    BY <1>2, <1>5, <1>7 DEF IInv, LatestChoice
  <1> QED
    BY <1>9, <1>10, <1>12, <1>13, <1>14, <1>15, <1>16, <1>17, <1>18, <1>19, <1>20, <1>21,
       <1>22, <1>23 DEF IInv

LEMMA LoginStep ==
    ASSUME IInv, Login
    PROVE  IInv'
  <1>1. PICK n : n = [id |-> Id("login"), step |-> "challenge",
                      session |-> page.session + 1, key |-> page.adminKey.key]
    OBVIOUS
  <1>2. /\ n.id = Id("login") /\ n.step = "challenge" /\ n.session = page.session + 1
        /\ n.key = page.adminKey.key /\ Kind(n) = "login" /\ Has(n, {"key"})
    BY <1>1 DEF Id, Kind, Has
  <1>3. tasks' = tasks \cup {n} /\ Count("login") /\ UNCHANGED service
    BY <1>1 DEF Login, Start, Click
  <1>4. /\ page \in PageType /\ page.session \in Nat
        /\ page.adminKey # None /\ page.adminKey \in AdminSigners
    BY DEF Login, IInv, PageTyped, PageType
  <1>5. /\ page' \in PageType /\ Differs(page, page', SessionFields)
        /\ Signable(page') /\ Empty(page')
        /\ page'.session = page.session + 1 /\ page'.draft = page.draft + 1
    BY <1>4, SessionGone DEF Login
  <1> USE DEF Differs, PageFields, SessionFields, DraftFields, GrantFields
  <1>6. /\ page'.adminRead = page.adminRead /\ page'.artifactRead = page.artifactRead
        /\ page'.adminKey = page.adminKey /\ page'.agentKey = page.agentKey
        /\ page'.artifact = page.artifact /\ page'.list = page.list
    BY <1>5
  <1> HIDE DEF Differs
  <1>7. Numbered'
    BY <1>2, <1>3, StartNumbered DEF IInv, Controls
  <1>8. Alone'
    <2>1. \A t \in tasks : Kind(t) = "login" => t.session # n.session
      BY <1>2, <1>4 DEF IInv, Holding, RevisionKnown, Kind
    <2> QED
      BY <1>2, <1>3, <2>1 DEF IInv, Alone, Kind
  <1>9. Grows
    BY <1>3, <1>4, <1>5, <1>6 DEF Grows, PageType, service
  <1>10. Holding'
    <2>1. Holds(n)' /\ RevisionKnown(n)'
      BY <1>2, <1>4, <1>5 DEF Holds, RevisionKnown, Kind, AdminSigners, Has
    <2> QED
      BY <1>3, <1>9, <2>1, StillHolds DEF IInv
  <1>11. Sessions'
    BY <1>4, <1>5, <1>6 DEF IInv, Sessions, PageType
  <1>12. Stored' /\ PageTyped'
    BY <1>3, <1>5, <1>6, ServiceStays DEF Empty
  <1>13. InSession' /\ SignedOut' /\ ListOfSession' /\ SessionIsAdmins' /\ RegistrationOfKeys'
    <2>1. Attending(n)'
      BY <1>2, <1>5, <1>6 DEF Login, Attending, OfSession, Kind, Empty
    <2> QED
      BY <1>3, <1>5, <1>6, <2>1, SessionOver
  <1>14. Drafts'
    <2>1. Drafting(n)'
      BY <1>2 DEF Drafting, Kind
    <2> QED
      BY <1>3, <1>5, <2>1, DraftsCancelled
  <1>15. Reads' /\ LatestChoice'
    <2>1. used'["admin"] = used["admin"] /\ used'["artifact"] = used["artifact"]
      BY <1>3 DEF Count, IInv, Numbered, Controls
    <2> QED
      BY <1>2, <1>3, <1>6, <2>1, ReadsGoOn
  <1>16. DraftMatchesInputs'
    BY <1>5 DEF Empty, DraftMatchesInputs
  <1> QED
    BY <1>5, <1>7, <1>8, <1>10, <1>11, <1>12, <1>13, <1>14, <1>15, <1>16 DEF IInv, Enabled

LEMMA LoginVerifiedStep ==
    ASSUME IInv, NEW t \in tasks, LoginVerified(t)
    PROVE  IInv'
  <1>1. PICK n : n = AskWorkspace(t, page')
    OBVIOUS
  <1>2. /\ page \in PageType /\ page' = [page EXCEPT !.token = t.key]
        /\ tasks' = (tasks \ {t}) \cup {n} /\ UNCHANGED <<used, service>>
    BY <1>1 DEF LoginVerified, Resume, IInv, PageTyped
  <1>3. Holds(t) /\ RevisionKnown(t) /\ t.step = "verify"
    BY DEF LoginVerified, IInv, Holding
  <1>4. Kind(t) = "login" /\ t.key \in AdminKeys
    BY <1>3 DEF Holds, Loaders
  <1>5. t.session = page.session
    BY <1>4 DEF LoginVerified, Live
  <1>6. /\ page.token = None /\ page.adminKey # None /\ ~IsPostQuantum(page.adminKey)
        /\ page.adminKey.key = t.key
    BY <1>3, <1>4, <1>5 DEF IInv, InSession, Attending, OfSession
  <1>7. /\ page.workspace = None /\ page.agents = {} /\ page.certificates = {}
        /\ page.registration = None
    BY <1>6 DEF IInv, SessionIsAdmins, SignedOut
  <1>8. /\ page' \in PageType /\ Differs(page, page', {"token"}) /\ page'.token = t.key
    BY <1>2, <1>4, NoneOptional DEF PageType, Differs, PageFields
  <1>9. /\ n.id = t.id /\ n.step = "me" /\ n.session = t.session /\ n.token = t.key
        /\ Kind(n) = "login"
    BY <1>1, <1>4, <1>8 DEF AskWorkspace, Kind
  <1>10. t.key # None
    BY <1>4, ConsoleAssumption
  <1> USE DEF Differs, PageFields
  <1>11. Numbered'
    BY <1>2, <1>9, MoveNumbered DEF IInv
  <1>12. Alone'
    BY <1>2, <1>4, <1>9 DEF IInv, Alone, Kind
  <1>13. Grows
    BY <1>2, <1>8 DEF Grows, PageType, service
  <1>14. Holding'
    <2>1. Holds(n)'
      BY <1>4, <1>9 DEF Holds, Loaders, Kind
    <2>2. RevisionKnown(n)'
      BY <1>3, <1>4, <1>8, <1>9 DEF RevisionKnown, Kind
    <2> QED
      BY <1>2, <1>13, <2>1, <2>2, StillHolds DEF IInv
  <1>15. Sessions' /\ Enabled'
    BY <1>8 DEF IInv, Sessions, Enabled, Signable
  <1>16. Stored' /\ PageTyped'
    <2>1. page'.certificates \subseteq Served
      BY <1>8 DEF IInv, PageTyped
    <2> QED
      BY <1>2, <1>8, <2>1, ServiceStays
  <1>17. InSession'
    <2>1. Attending(n)'
      BY <1>8, <1>9 DEF Attending, OfSession, Kind
    <2>2. ASSUME NEW u \in tasks, u # t PROVE Attending(u)'
      <3> SUFFICES ASSUME Kind(u) \notin {"admin", "artifact", "statement", "grant"},
                          u.session = page.session
                   PROVE  OfSession(u)'
        BY <1>8 DEF Attending, Kind
      <3>1. Kind(u) # "login"
        BY <1>4, <1>5, <2>2 DEF IInv, Alone
      <3>2. Holds(u) /\ OfSession(u)
        BY DEF IInv, Holding, InSession, Attending
      <3>3. Kind(u) \in {"generate", "import"} /\ u.step = "read"
        BY <1>6, <1>7, <1>10, <3>1, <3>2, ConsoleAssumption DEF OfSession, Holds, Loaders
      <3> QED
        BY <3>3 DEF OfSession, Kind
    <2> QED
      BY <1>2, <2>1, <2>2 DEF InSession
  <1>18. SignedOut' /\ RegistrationOfKeys' /\ ListOfSession'
    BY <1>7, <1>8, <1>10 DEF IInv, SignedOut, RegistrationOfKeys, ListOfSession
  <1>19. SessionIsAdmins'
    <2>1. n \in tasks' /\ Live(n)' /\ page'.token \notin PostQuantum
      BY <1>2, <1>5, <1>6, <1>8, <1>9 DEF Live, Kind, IsPostQuantum
    <2> QED
      BY <1>6, <1>7, <1>8, <1>9, <1>10, <2>1 DEF IInv, SessionIsAdmins, Kind
  <1>20. Drafts'
    <2>1. Drafting(n)'
      BY <1>9 DEF Drafting, Kind
    <2> QED
      BY <1>2, <1>8, <2>1, DraftsGoOn
  <1>21. DraftMatchesInputs'
    BY <1>8 DEF IInv, DraftMatchesInputs
  <1>22. Reads' /\ LatestChoice'
    BY <1>2, <1>8, <1>9, ReadsGoOn
  <1> QED
    BY <1>11, <1>12, <1>14, <1>15, <1>16, <1>17, <1>18, <1>19, <1>20, <1>21, <1>22 DEF IInv

LEMMA LoadWorkspaceStep ==
    ASSUME IInv, NEW t \in tasks, LoadWorkspace(t)
    PROVE  IInv'
  <1>1. /\ page \in PageType /\ tasks' = tasks \ {t} /\ UNCHANGED <<used, service>>
        /\ t.step = "workspace" /\ t.id \in Ids
    BY DEF LoadWorkspace, Finish, IInv, PageTyped, Numbered
  <1>2. Holds(t)
    BY DEF IInv, Holding
  <1>3. /\ Kind(t) \in Loaders /\ t.workspace \in AdminKeys /\ t.agents \subseteq Listed
        /\ t.certificates \subseteq Served /\ \A a \in t.agents : a.delegation.admin = t.workspace
    BY <1>1, <1>2 DEF Holds, Loaders
  <1>4. t.session = page.session
    BY <1>1, <1>3 DEF LoadWorkspace, Live, Loaders
  <1>5. page.token = t.workspace
    BY <1>1, <1>3, <1>4 DEF IInv, InSession, Attending, OfSession, Loaders
  <1>6. page.token # None /\ t.workspace # None
    BY <1>3, <1>5, ConsoleAssumption
  <1>7. /\ page.adminKey # None /\ page.adminKey.key = page.token
        /\ page.token \notin PostQuantum
    BY <1>6 DEF IInv, SessionIsAdmins
  <1>8. t.certificates \subseteq [certificate : Certificates, public : BOOLEAN]
    BY <1>3 DEF IInv, Stored, Served
  <1>9. /\ page' \in PageType /\ Differs(page, page', WorkspaceFields) /\ Signable(page')
        /\ page'.workspace = t.workspace /\ page'.agents = t.agents
        /\ page'.certificates = t.certificates /\ page'.panels = TRUE
        /\ \A row \in page'.list :
             /\ row.agent \in t.agents
             /\ row.matching /\ page'.agentKey # None =>
                  row.agent.delegation.agent = page'.agentKey.key
        /\ \/ /\ Differs(page, page', ShownFields)
              /\ \/ page'.agentKey = None
                 \/ \E a \in t.agents : /\ page'.registration.delegation = a.delegation
                                        /\ a.delegation.agent = page'.agentKey.key
           \/ /\ page'.draft = page.draft + 1 /\ page'.registration = None
              /\ page'.statement = None /\ page'.grant = None
    BY <1>1, <1>3, <1>8, Shown DEF LoadWorkspace
  <1> USE DEF Differs, PageFields, ShownFields, WorkspaceFields, DraftFields, GrantFields
  <1>10. /\ page'.session = page.session /\ page'.token = page.token
         /\ page'.adminKey = page.adminKey /\ page'.agentKey = page.agentKey
         /\ page'.artifact = page.artifact /\ page'.adminRead = page.adminRead
         /\ page'.artifactRead = page.artifactRead /\ page'.visibility = page.visibility
    BY <1>9
  <1>11. \/ /\ page'.draft = page.draft /\ page'.statement = page.statement
            /\ page'.grant = page.grant /\ page'.grantVisibility = page.grantVisibility
         \/ /\ page'.draft = page.draft + 1 /\ page'.statement = None /\ page'.grant = None
    BY <1>9
  <1> HIDE DEF Differs
  <1>12. Numbered'
    BY <1>1, OthersNumbered DEF IInv
  <1>13. Alone'
    BY <1>1 DEF IInv, Alone, Kind
  <1>14. Grows
    BY <1>1, <1>9, <1>10, <1>11 DEF Grows, PageType, service
  <1>15. Holding'
    BY <1>1, <1>14, StillHolds DEF IInv
  <1>16. Sessions' /\ Enabled'
    BY <1>9, <1>10 DEF IInv, Sessions, Enabled
  <1>17. Stored' /\ PageTyped'
    BY <1>1, <1>3, <1>9, <1>10, ServiceStays
  <1>18. InSession'
    <2> SUFFICES ASSUME NEW u \in tasks, Attending(u) PROVE Attending(u)'
      BY <1>1 DEF IInv, InSession
    <2> QED
      BY <1>6, <1>9, <1>10 DEF Attending, OfSession, Kind
  <1>19. SignedOut'
    BY <1>6, <1>10 DEF SignedOut
  <1>20. RegistrationOfKeys'
    BY <1>3, <1>5, <1>9, <1>10 DEF RegistrationOfKeys
  <1>21. ListOfSession'
    BY <1>3, <1>5, <1>9, <1>10 DEF ListOfSession
  <1>22. SessionIsAdmins'
    BY <1>3, <1>5, <1>6, <1>7, <1>9, <1>10 DEF SessionIsAdmins
  <1>23. Drafts'
    BY <1>1, <1>9, <1>10, <1>11, DraftsGoOn, DraftsCancelled
  <1>24. DraftMatchesInputs'
    BY <1>10, <1>11 DEF IInv, DraftMatchesInputs
  <1>25. Reads' /\ LatestChoice'
    BY <1>1, <1>10, ReadsGoOn
  <1> QED
    BY <1>12, <1>13, <1>15, <1>16, <1>17, <1>18, <1>19, <1>20, <1>21, <1>22, <1>23, <1>24,
       <1>25 DEF IInv

\* The workspace is there already when its profile is saved.
LEMMA ProfileSavedStep ==
    ASSUME IInv, NEW t \in tasks, ProfileSaved(t)
    PROVE  IInv'
  <1>1. Holds(t) /\ Attending(t) /\ t.step = "put" /\ Live(t)
    BY DEF ProfileSaved, IInv, Holding, InSession
  <1>2. Kind(t) = "profile" /\ t.token \in AdminKeys
    BY <1>1 DEF Holds, Loaders
  <1>3. t.token = page.token /\ page.workspace # None
    BY <1>1, <1>2 DEF Live, Attending, OfSession
  <1>4. page.workspace = t.token
    BY <1>2, <1>3, ConsoleAssumption DEF IInv, SessionIsAdmins
  <1>5. page' = page
    BY <1>4 DEF ProfileSaved, IInv, PageTyped, PageType
  <1> QED
    BY <1>2, <1>5, TaskEnds DEF ProfileSaved

-----------------------------------------------------------------------------
(* The agent key and its registration.                                     *)

\* An agent key taken up, or a registration of it.
LEMMA AgentTaken ==
    ASSUME IInv, UNCHANGED service, Numbered', Alone',
           tasks' \subseteq tasks, \A u \in tasks : Kind(u) = "login" => u \in tasks',
           used'["admin"] = used["admin"], used'["artifact"] = used["artifact"],
           NEW k, k \in AgentSigners \/ k = page.agentKey,
           NEW r \in Optional(Registrations),
           page' = RenderAgents([ClearSignedDraft(page) EXCEPT !.agentKey = k,
                                                               !.registration = r]),
           r # None =>
               /\ page.token = None => IsPostQuantum(page.adminKey)
               /\ page.token # None => r.delegation.admin = page.token
               /\ k # None => r.delegation.agent = k.key
    PROVE  IInv'
  <1>1. page \in PageType /\ k \in Optional(Signers)
    BY NoneOptional DEF IInv, PageTyped, PageType, AgentSigners, Signers
  <1>2. /\ page' \in PageType /\ Differs(page, page', AgentFields) /\ Signable(page')
        /\ page'.draft = page.draft + 1 /\ page'.agentKey = k /\ page'.registration = r
        /\ page'.statement = None /\ page'.grant = None
        /\ \A row \in page'.list :
             /\ row.agent \in page.agents
             /\ row.matching /\ k # None => row.agent.delegation.agent = k.key
    BY <1>1, Represented
  <1> USE DEF Differs, PageFields, AgentFields, DraftFields, GrantFields
  <1>3. /\ page'.session = page.session /\ page'.token = page.token
        /\ page'.adminKey = page.adminKey /\ page'.workspace = page.workspace
        /\ page'.agents = page.agents /\ page'.certificates = page.certificates
        /\ page'.panels = page.panels /\ page'.adminRead = page.adminRead
        /\ page'.artifactRead = page.artifactRead /\ page'.artifact = page.artifact
        /\ page'.profile = page.profile
    BY <1>2
  <1> HIDE DEF Differs
  <1>4. Grows
    BY <1>1, <1>2, <1>3 DEF Grows, PageType, service
  <1>5. Holding'
    BY <1>4, StillHolds DEF IInv
  <1>6. Stored' /\ PageTyped'
    <2>1. page'.certificates \subseteq Served
      BY <1>3 DEF IInv, PageTyped
    <2> QED
      BY <1>2, <1>3, <2>1, ServiceStays
  <1>7. Sessions' /\ InSession' /\ SessionIsAdmins'
    BY <1>3, SessionGoesOn
  <1>8. SignedOut' /\ RegistrationOfKeys'
    BY <1>2, <1>3 DEF IInv, SignedOut, RegistrationOfKeys
  <1>9. ListOfSession'
    <2>1. page.agents # {} => page.token # None /\ \A a \in page.agents : a.delegation.admin = page.token
      BY DEF IInv, SessionIsAdmins
    <2> QED
      BY <1>2, <1>3, <2>1 DEF ListOfSession
  <1>10. Drafts'
    BY <1>2, DraftsCancelled
  <1>11. DraftMatchesInputs' /\ Enabled'
    BY <1>2 DEF DraftMatchesInputs, Enabled
  <1>12. Reads' /\ LatestChoice'
    BY <1>3, ReadsGoOn
  <1> QED
    BY <1>5, <1>6, <1>7, <1>8, <1>9, <1>10, <1>11, <1>12 DEF IInv

\* A key read takes up a listed registration of it, or none.
LEMMA AgentChosen ==
    ASSUME IInv, NEW t \in tasks, AgentKeyGenerated(t) \/ AgentKeyImported(t)
    PROVE  \E k \in AgentSigners, r \in Optional(Registrations) :
             /\ k.key = t.key
             /\ page' = RenderAgents([ClearSignedDraft(page) EXCEPT !.agentKey = k,
                                                                    !.registration = r])
             /\ r # None => \E a \in page.agents : /\ r.delegation = a.delegation
                                                   /\ a.delegation.agent = t.key
  <1>1. Kind(t) \in {"generate", "import"} /\ t.step = "read"
    BY DEF AgentKeyGenerated, AgentKeyImported
  <1>2. PICK k : k = [key |-> t.key, id |-> t.id]
    OBVIOUS
  <1>3. t.id \in Ids /\ t.key \in AgentKeys
    BY <1>1 DEF IInv, Holding, Holds, Loaders, Numbered
  <1>4. k \in AgentSigners /\ k.key = t.key
    BY <1>2, <1>3 DEF AgentSigners
  <1>5. CASE AgentKeyGenerated(t)
    BY <1>2, <1>4, <1>5, NoneOptional DEF AgentKeyGenerated
  <1>6. CASE AgentKeyImported(t)
    <2> DEFINE listed == {a \in page.agents : a.delegation.agent = t.key /\ ~a.revoked}
               Found(a) == [delegation |-> a.delegation, id |-> t.id, at |-> t.step]
    <2>1. PICK x \in IF listed = {} THEN {None} ELSE {Found(a) : a \in listed} :
            page' = RenderAgents([ClearSignedDraft(page) EXCEPT !.agentKey = k,
                                                                !.registration = x])
      BY <1>2, <1>6 DEF AgentKeyImported
    <2>2. CASE x = None
      BY <1>4, <2>1, <2>2, NoneOptional
    <2>3. ASSUME NEW a \in listed, x = Found(a)
          PROVE  x \in Optional(Registrations) /\ x.delegation = a.delegation
      <3>1. a.delegation \in Delegations
        BY DEF IInv, PageTyped, PageType
      <3>2. x \in Registrations
        BY <1>1, <1>3, <2>3, <3>1 DEF Registrations
      <3> QED
        BY <2>3, <3>2, NoneOptional
    <2> QED
      BY <1>4, <2>1, <2>2, <2>3
  <1> QED
    BY <1>5, <1>6

LEMMA AgentKeyStep ==
    ASSUME IInv, NEW t \in tasks, AgentKeyGenerated(t) \/ AgentKeyImported(t)
    PROVE  IInv'
  <1>1. /\ Kind(t) \in {"generate", "import"}
        /\ tasks' = tasks \ {t} /\ UNCHANGED <<used, service>>
    BY DEF AgentKeyGenerated, AgentKeyImported, Finish
  <1>2. Numbered' /\ Alone'
    BY <1>1, OthersNumbered DEF IInv, Alone, Kind
  <1>3. PICK k \in AgentSigners, r \in Optional(Registrations) :
          /\ k.key = t.key
          /\ page' = RenderAgents([ClearSignedDraft(page) EXCEPT !.agentKey = k,
                                                                 !.registration = r])
          /\ r # None => \E a \in page.agents : /\ r.delegation = a.delegation
                                                /\ a.delegation.agent = t.key
    BY AgentChosen
  <1>4. page.agents # {} => page.token # None /\ \A a \in page.agents : a.delegation.admin = page.token
    BY DEF IInv, SessionIsAdmins
  <1> QED
    BY <1>1, <1>2, <1>3, <1>4, AgentTaken

\* The registration of the row is taken up and the agent key stays.
LEMMA AgentUsed ==
    ASSUME IInv, NEW row \in page.list, UseAgent(row)
    PROVE  \E r \in Optional(Registrations) :
             /\ r.delegation = row.agent.delegation
             /\ page' = RenderAgents([ClearSignedDraft(page) EXCEPT !.agentKey = page.agentKey,
                                                                    !.registration = r])
  <1>1. row.agent.delegation \in Delegations /\ page \in PageType
    BY DEF IInv, PageTyped, PageType
  <1>2. PICK r : r = [delegation |-> row.agent.delegation, id |-> Id("use"), at |-> "click"]
    OBVIOUS
  <1>3. Id("use") \in Ids
    BY DEF Id, Ids, IInv, Numbered, Controls
  <1>4. r \in Optional(Registrations) /\ r.delegation = row.agent.delegation
    BY <1>1, <1>2, <1>3, NoneOptional DEF Registrations
  <1>5. page' = RenderAgents([ClearSignedDraft(page) EXCEPT !.agentKey = page.agentKey,
                                                            !.registration = r])
    <2>1. ClearSignedDraft(page) \in PageType
          /\ ClearSignedDraft(page).agentKey = page.agentKey
      BY <1>1, DraftGone DEF Differs, PageFields, DraftFields, GrantFields
    <2>2. page' = RenderAgents([ClearSignedDraft(page) EXCEPT !.registration = r])
      BY <1>2 DEF UseAgent
    <2>3. ASSUME NEW c \in PageType, NEW k, c.agentKey = k
          PROVE  [c EXCEPT !.registration = r] = [c EXCEPT !.agentKey = k, !.registration = r]
      BY <2>3 DEF PageType
    <2> QED
      BY <2>1, <2>2, <2>3
  <1> QED
    BY <1>4, <1>5

LEMMA UseAgentStep ==
    ASSUME IInv, NEW row \in page.list, UseAgent(row)
    PROVE  IInv'
  <1>1. page.panels /\ row.matching /\ Count("use") /\ UNCHANGED <<tasks, service>>
    BY DEF UseAgent, Click
  <1>2. PICK r \in Optional(Registrations) :
          /\ r.delegation = row.agent.delegation
          /\ page' = RenderAgents([ClearSignedDraft(page) EXCEPT !.agentKey = page.agentKey,
                                                                 !.registration = r])
    BY AgentUsed
  <1>3. Numbered'
    BY <1>1, ClickNumbered DEF IInv, Controls
  <1>4. Alone' /\ used'["admin"] = used["admin"] /\ used'["artifact"] = used["artifact"]
    BY <1>1 DEF IInv, Alone, Count, Numbered, Controls, Kind
  <1>5. page.workspace # None \/ IsPostQuantum(page.adminKey)
    BY <1>1 DEF IInv, SessionIsAdmins
  <1>6. page.token # None => page.workspace # None /\ ~IsPostQuantum(page.adminKey)
    BY <1>5 DEF IInv, SessionIsAdmins, IsPostQuantum
  <1>7. page.token = None => IsPostQuantum(page.adminKey)
    BY <1>5 DEF IInv, SessionIsAdmins
  <1>8. /\ page.agentKey # None => row.agent.delegation.agent = page.agentKey.key
        /\ page.workspace # None => row.agent.delegation.admin = page.token
    BY <1>1 DEF IInv, ListOfSession
  <1> QED
    BY <1>1, <1>2, <1>3, <1>4, <1>6, <1>7, <1>8, AgentTaken

-----------------------------------------------------------------------------
(* The draft.                                                              *)

InputFields == DraftFields \cup {"artifact", "artifactRead", "visibility"}

\* A step that touches the draft and what it is made from, and no session.
LEMMA DraftChanges ==
    ASSUME IInv, UNCHANGED service, Numbered', Alone',
           page' \in PageType, Differs(page, page', InputFields), Signable(page'),
           page.draft <= page'.draft, page.artifactRead <= page'.artifactRead,
           \A u \in tasks' : u \in tasks \/ (Holds(u)' /\ RevisionKnown(u)' /\ Attending(u)'),
           \A u \in tasks : Kind(u) = "login" => u \in tasks',
           Drafts', DraftMatchesInputs', Reads', LatestChoice'
    PROVE  IInv'
  <1> USE DEF Differs, PageFields, InputFields, DraftFields, GrantFields
  <1>1. /\ page'.session = page.session /\ page'.token = page.token
        /\ page'.adminKey = page.adminKey /\ page'.workspace = page.workspace
        /\ page'.agents = page.agents /\ page'.certificates = page.certificates
        /\ page'.panels = page.panels /\ page'.adminRead = page.adminRead
        /\ page'.agentKey = page.agentKey /\ page'.list = page.list
        /\ page'.registration = page.registration /\ page'.profile = page.profile
    OBVIOUS
  <1> HIDE DEF Differs
  <1>2. Grows
    BY <1>1 DEF IInv, PageTyped, PageType, Grows, service
  <1>3. Holding'
    BY <1>2, StillHolds DEF IInv
  <1>4. Stored' /\ PageTyped'
    <2>1. page'.certificates \subseteq Served
      BY <1>1 DEF IInv, PageTyped
    <2> QED
      BY <1>1, <2>1, ServiceStays
  <1>5. Sessions' /\ InSession' /\ SessionIsAdmins'
    BY <1>1, SessionGoesOn
  <1>6. SignedOut' /\ ListOfSession' /\ RegistrationOfKeys' /\ Enabled'
    BY <1>1 DEF IInv, SignedOut, ListOfSession, RegistrationOfKeys, Enabled
  <1> QED
    BY <1>3, <1>4, <1>5, <1>6 DEF IInv

LEMMA RegisterStep ==
    ASSUME IInv, Register
    PROVE  IInv'
  <1>1. PICK n : n = [id |-> Id("register"), step |-> "sign", session |-> page.session,
                      agentKey |-> page.agentKey, admin |-> page.adminKey.key]
    OBVIOUS
  <1>2. /\ n.id = Id("register") /\ n.step = "sign" /\ n.session = page.session
        /\ n.agentKey = page.agentKey /\ n.admin = page.adminKey.key /\ Kind(n) = "register"
    BY <1>1 DEF Id, Kind
  <1>3. tasks' = tasks \cup {n} /\ Count("register") /\ UNCHANGED service
    BY <1>1 DEF Register, Start, Click
  <1>4. /\ page \in PageType /\ page.adminKey \in AdminSigners /\ page.agentKey \in AgentSigners
        /\ page.token # None /\ page.adminKey.key = page.token /\ page.session # 0
        /\ page.session \in Nat /\ page.draft \in Nat
    BY DEF Register, IInv, PageTyped, PageType, SessionIsAdmins, Sessions
  <1>5. /\ page' \in PageType /\ Differs(page, page', DraftFields) /\ Signable(page')
        /\ page'.draft = page.draft + 1 /\ page'.statement = None /\ page'.grant = None
    BY <1>4, DraftGone DEF Register
  <1> USE DEF Differs, PageFields, DraftFields, GrantFields, InputFields
  <1>6. /\ page'.session = page.session /\ page'.token = page.token
        /\ page'.adminRead = page.adminRead /\ page'.adminKey = page.adminKey
        /\ page'.artifactRead = page.artifactRead /\ page'.artifact = page.artifact
        /\ Differs(page, page', InputFields)
    BY <1>5
  <1> HIDE DEF Differs
  <1>7. Numbered'
    BY <1>2, <1>3, StartNumbered DEF IInv, Controls
  <1>8. Alone'
    BY <1>2, <1>3 DEF IInv, Alone, Kind
  <1>9. Holds(n)' /\ RevisionKnown(n)' /\ Attending(n)' /\ Drafting(n)'
    BY <1>2, <1>4, <1>5, <1>6
       DEF Holds, RevisionKnown, Attending, OfSession, Drafting, Kind, AdminSigners
  <1>10. Drafts'
    BY <1>3, <1>5, <1>9, DraftsCancelled
  <1>11. DraftMatchesInputs'
    BY <1>5 DEF DraftMatchesInputs
  <1>12. Reads' /\ LatestChoice'
    <2>1. used'["admin"] = used["admin"] /\ used'["artifact"] = used["artifact"]
      BY <1>3 DEF Count, IInv, Numbered, Controls
    <2> QED
      BY <1>2, <1>3, <1>6, <2>1, ReadsGoOn
  <1>13. page.draft <= page'.draft /\ page.artifactRead <= page'.artifactRead
    BY <1>4, <1>5, <1>6 DEF PageType
  <1> QED
    BY <1>3, <1>5, <1>6, <1>7, <1>8, <1>9, <1>10, <1>11, <1>12, <1>13, DraftChanges

LEMMA RegistrationSignedStep ==
    ASSUME IInv, NEW t \in tasks, RegistrationSigned(t)
    PROVE  IInv'
  <1>1. PICK d : d = [agent |-> t.agentKey.key, admin |-> t.admin, id |-> t.id]
    OBVIOUS
  <1>2. PICK r : r = [delegation |-> d, id |-> t.id, at |-> t.step]
    OBVIOUS
  <1>3. PICK n : n = [id |-> t.id, step |-> "post", session |-> t.session,
                      token |-> page.token, delegation |-> d]
    OBVIOUS
  <1>4. /\ Kind(t) = "register" /\ t.step = "sign" /\ t.session = page.session
        /\ t.agentKey = page.agentKey
        /\ page' = [page EXCEPT !.registration = r] /\ page \in PageType
        /\ tasks' = (tasks \ {t}) \cup {n} /\ UNCHANGED <<used, service>>
    BY <1>1, <1>2, <1>3 DEF RegistrationSigned, Live, Resume, IInv, PageTyped
  <1>5. /\ t.agentKey \in AgentSigners /\ t.admin \in AdminKeys /\ t.id \in Ids
        /\ t.admin = page.token /\ page.token # None
        /\ RevisionKnown(t)
    BY <1>4 DEF IInv, Holding, Holds, Loaders, Numbered, InSession, Attending, OfSession
  <1>6. d \in Delegations /\ d.agent = t.agentKey.key /\ d.admin = t.admin
    BY <1>1, <1>5 DEF Delegations, AgentSigners
  <1>7. r \in Registrations /\ r # None /\ r.delegation = d
    <2>1. r \in Registrations /\ r.delegation = d
      BY <1>2, <1>4, <1>5, <1>6 DEF Registrations
    <2> QED
      BY <2>1, ConsoleAssumption
  <1>8. /\ n.id = t.id /\ n.step = "post" /\ n.session = t.session /\ n.delegation = d
        /\ Kind(n) = "register" /\ Has(n, {"delegation"})
    BY <1>3, <1>4 DEF Kind, Has
  <1>9. /\ page' \in PageType /\ Differs(page, page', {"registration"}) /\ page'.registration = r
    BY <1>4, <1>7, NoneOptional DEF PageType, Differs, PageFields
  <1> USE DEF Differs, PageFields
  <1>10. Numbered'
    BY <1>4, <1>8, MoveNumbered DEF IInv
  <1>11. Alone'
    BY <1>4, <1>8 DEF IInv, Alone, Kind
  <1>12. Grows
    BY <1>4, <1>9 DEF Grows, PageType, service
  <1>13. Holds(n)' /\ RevisionKnown(n)' /\ Attending(n)' /\ Drafting(n)'
    BY <1>4, <1>5, <1>6, <1>8, <1>9
       DEF Holds, RevisionKnown, Attending, OfSession, Drafting, Kind, Has
  <1>14. Holding'
    BY <1>4, <1>12, <1>13, StillHolds DEF IInv
  <1>15. Stored' /\ PageTyped'
    <2>1. page'.certificates \subseteq Served
      BY <1>9 DEF IInv, PageTyped
    <2> QED
      BY <1>4, <1>9, <2>1, ServiceStays
  <1>16. Sessions' /\ InSession' /\ SessionIsAdmins'
    BY <1>4, <1>8, <1>9, <1>13, SessionGoesOn
  <1>17. SignedOut' /\ RegistrationOfKeys'
    BY <1>4, <1>5, <1>6, <1>7, <1>9 DEF SignedOut, RegistrationOfKeys
  <1>18. ListOfSession' /\ Enabled' /\ DraftMatchesInputs'
    BY <1>7, <1>9 DEF IInv, ListOfSession, Enabled, Signable, DraftMatchesInputs
  <1>19. Drafts'
    BY <1>4, <1>9, <1>13, DraftsGoOn
  <1>20. Reads' /\ LatestChoice'
    BY <1>4, <1>8, <1>9, ReadsGoOn
  <1> QED
    BY <1>10, <1>11, <1>14, <1>15, <1>16, <1>17, <1>18, <1>19, <1>20 DEF IInv

LEMMA ChooseArtifactStep ==
    ASSUME IInv, NEW f \in Files \cup {None}, ChooseArtifact(f)
    PROVE  IInv'
  <1> DEFINE c == ClearSignedDraft(page)
             r == [c EXCEPT !.artifactRead = @ + 1, !.artifact = None]
  <1>1. PICK n : n = [id |-> Id("artifact"), step |-> "read", read |-> page.artifactRead + 1,
                      file |-> f]
    OBVIOUS
  <1>2. /\ n.id = Id("artifact") /\ n.step = "read" /\ n.read = page.artifactRead + 1
        /\ n.file = f /\ Kind(n) = "artifact" /\ n.id[2] = used["artifact"] + 1
    BY <1>1 DEF Id, Kind
  <1>3. /\ tasks' \subseteq tasks \cup {n} /\ tasks \subseteq tasks'
        /\ Count("artifact") /\ UNCHANGED service
        /\ n \in tasks' => f # None \/ n \in tasks
    BY <1>1 DEF ChooseArtifact, Start, Click
  <1>4. page \in PageType /\ page' = UpdateSignerButtons(r)
    BY DEF ChooseArtifact, IInv, PageTyped
  <1>5. /\ c \in PageType /\ Differs(page, c, DraftFields)
        /\ c.draft = page.draft + 1 /\ c.statement = None /\ c.grant = None
    BY <1>4, DraftGone
  <1> HIDE DEF c
  <1> USE DEF Differs, PageFields, DraftFields, GrantFields, InputFields
  <1>6. /\ c.artifactRead = page.artifactRead /\ c.artifactRead + 1 \in Nat
        /\ page.artifactRead \in Nat /\ page.draft \in Nat
    BY <1>4, <1>5 DEF PageType
  <1>7. r \in PageType
    BY <1>5, <1>6, NoneOptional DEF PageType
  <1>8. Differs(c, r, {"artifactRead", "artifact"})
        /\ r.artifactRead = page.artifactRead + 1 /\ r.artifact = None
    BY <1>5, <1>6 DEF PageType
  <1> HIDE DEF r
  <1>9. page' \in PageType /\ Differs(r, page', {"canSign"}) /\ Signable(page')
    BY <1>4, <1>7, Buttons
  <1>10. /\ page'.draft = page.draft + 1 /\ page'.statement = None /\ page'.grant = None
         /\ page'.artifactRead = page.artifactRead + 1 /\ page'.artifact = None
         /\ page'.adminRead = page.adminRead /\ page'.adminKey = page.adminKey
         /\ Differs(page, page', InputFields)
    BY <1>5, <1>8, <1>9
  <1> HIDE DEF Differs
  <1>11. Numbered'
    BY <1>2, <1>3, StartNumbered DEF IInv, Controls
  <1>12. Alone'
    BY <1>2, <1>3 DEF IInv, Alone, Kind
  <1>13. n \notin tasks /\ \A u \in tasks' : u \in tasks \/ (u = n /\ f \in Files)
    <2>1. \A u \in tasks : u.id # n.id
      BY <1>2 DEF IInv, Numbered, Ids, Kind, Controls
    <2> QED
      BY <1>3, <2>1
  <1>14. /\ f \in Files => Holds(n)'
         /\ RevisionKnown(n)' /\ Attending(n)' /\ Drafting(n)'
    BY <1>2, <1>6, <1>10 DEF Holds, RevisionKnown, Attending, Drafting, Kind
  <1>15. Drafts'
    BY <1>9, <1>10, <1>13, <1>14, DraftsCancelled
  <1>16. DraftMatchesInputs'
    BY <1>10 DEF DraftMatchesInputs
  <1>17. used'["admin"] = used["admin"] /\ used'["artifact"] = used["artifact"] + 1
    BY <1>3 DEF Count, IInv, Numbered, Controls
  <1>18. Reads'
    <2>1. ASSUME NEW u \in tasks, Kind(u) = "artifact" PROVE u.read # page'.artifactRead
      BY <1>6, <1>10, <2>1 DEF IInv, Holding, RevisionKnown, Kind
    <2>2. ASSUME NEW u \in tasks, Kind(u) = "admin", u.read = page'.adminRead
          PROVE  u.id[2] = used'["admin"] /\ page'.adminKey = None
      BY <1>10, <1>17, <2>2 DEF IInv, Reads
    <2> QED
      BY <1>2, <1>10, <1>13, <1>17, <2>1, <2>2 DEF Reads, Kind
  <1>19. LatestChoice'
    BY <1>10, <1>17 DEF IInv, LatestChoice
  <1>20. page.draft <= page'.draft /\ page.artifactRead <= page'.artifactRead
    BY <1>6, <1>10
  <1> QED
    BY <1>3, <1>9, <1>10, <1>11, <1>12, <1>13, <1>14, <1>15, <1>16, <1>18, <1>19, <1>20,
       DraftChanges

LEMMA ArtifactReadStep ==
    ASSUME IInv, NEW t \in tasks, ArtifactRead(t)
    PROVE  IInv'
  <1>1. PICK a : a = [file |-> t.file, id |-> t.id]
    OBVIOUS
  <1> DEFINE r == [page EXCEPT !.artifact = a]
  <1>2. /\ Kind(t) = "artifact" /\ t.read = page.artifactRead /\ page \in PageType
        /\ tasks' = tasks \ {t} /\ UNCHANGED <<used, service>>
        /\ page' = UpdateSignerButtons(r)
    BY <1>1 DEF ArtifactRead, Live, Finish, IInv, PageTyped
  <1>3. /\ t.file \in Files /\ t.id \in Ids /\ t.id[2] = used["artifact"]
        /\ page.artifact = None
    BY <1>2 DEF IInv, Holding, Holds, Loaders, Numbered, Reads
  <1>4. a \in Artifacts /\ a.id = <<"artifact", used["artifact"]>>
    BY <1>1, <1>2, <1>3 DEF Artifacts, Ids, Kind
  <1>5. r \in PageType /\ Differs(page, r, {"artifact"}) /\ r.artifact = a
    BY <1>2, <1>4, NoneOptional DEF PageType, Differs, PageFields
  <1> HIDE DEF r
  <1> USE DEF Differs, PageFields, DraftFields, GrantFields, InputFields
  <1>6. page' \in PageType /\ Differs(r, page', {"canSign"}) /\ Signable(page')
    BY <1>2, <1>5, Buttons
  <1>7. Differs(page, page', {"artifact", "canSign"}) /\ page'.artifact = a
    BY <1>5, <1>6
  <1>8. Numbered' /\ Alone'
    BY <1>2, OthersNumbered DEF IInv, Alone, Kind
  <1>9. Drafts'
    <2> SUFFICES ASSUME NEW u \in tasks PROVE Drafting(u)'
      BY <1>2 DEF Drafts
    <2>1. Drafting(u) /\ Holds(u)
      BY DEF IInv, Drafts, Holding
    <2>2. Kind(u) = "statement" /\ u.draft = page.draft => FALSE
      <3> SUFFICES ASSUME Kind(u) = "statement", u.draft = page.draft PROVE FALSE
        OBVIOUS
      <3>1. u.step = "sign" /\ u.artifact \in Artifacts
        BY <2>1 DEF Holds, Loaders
      <3>2. u.artifact = page.artifact
        BY <2>1, <3>1 DEF Drafting, OfDraft
      <3> QED
        BY <1>3, <3>1, <3>2, ConsoleAssumption
    <2> QED
      BY <1>7, <2>1, <2>2 DEF Drafting, OfDraft, Kind
  <1>10. DraftMatchesInputs'
    <2>1. page.statement = None
      BY <1>2, <1>3, ConsoleAssumption DEF IInv, DraftMatchesInputs, PageType, Optional, Statements
    <2> QED
      BY <1>7, <2>1 DEF IInv, DraftMatchesInputs
  <1>11. Reads' /\ LatestChoice'
    <2>1. ASSUME NEW u \in tasks, u # t, Kind(u) = "artifact" PROVE u.read # page.artifactRead
      <3>1. u.id \in Ids /\ u.id # t.id
        BY <2>1 DEF IInv, Numbered
      <3> QED
        BY <1>2, <1>3, <2>1, <3>1 DEF IInv, Reads, Ids, Kind
    <2>2. Reads'
      BY <1>2, <1>7, <2>1 DEF IInv, Reads
    <2>3. LatestChoice'
      BY <1>2, <1>4, <1>7 DEF IInv, LatestChoice
    <2> QED
      BY <2>2, <2>3
  <1>12. page.draft <= page'.draft /\ page.artifactRead <= page'.artifactRead
    BY <1>2, <1>7 DEF PageType
  <1> QED
    BY <1>2, <1>6, <1>7, <1>8, <1>9, <1>10, <1>11, <1>12, DraftChanges

LEMMA CreateStatementStep ==
    ASSUME IInv, CreateStatement
    PROVE  IInv'
  <1> DEFINE d == IF IsPostQuantum(page.agentKey) THEN None ELSE page.registration.delegation
  <1>1. PICK n : n = [id |-> Id("statement"), step |-> "sign", draft |-> page.draft + 1,
                      agentKey |-> page.agentKey, artifact |-> page.artifact,
                      delegation |-> d]
    OBVIOUS
  <1>2. /\ n.id = Id("statement") /\ n.step = "sign" /\ n.draft = page.draft + 1
        /\ n.agentKey = page.agentKey /\ n.artifact = page.artifact /\ n.delegation = d
        /\ Kind(n) = "statement"
    BY <1>1 DEF Id, Kind
  <1>3. tasks' = tasks \cup {n} /\ Count("statement") /\ UNCHANGED service
    BY <1>1 DEF CreateStatement, Start, Click
  <1>4. /\ page \in PageType /\ page.draft \in Nat
        /\ page.agentKey # None /\ page.agentKey \in AgentSigners
        /\ page.artifact # None /\ page.artifact \in Artifacts
        /\ page.registration = None => IsPostQuantum(page.agentKey)
        /\ page.registration # None => page.registration \in Registrations
    BY DEF CreateStatement, IInv, PageTyped, PageType, Enabled, Signable, Optional
  <1>5. d \in Optional(Delegations)
    BY <1>4, NoneOptional DEF Registrations
  <1> HIDE DEF d
  <1>6. /\ page' \in PageType /\ Differs(page, page', DraftFields) /\ Signable(page')
        /\ page'.draft = page.draft + 1 /\ page'.statement = None /\ page'.grant = None
    BY <1>4, DraftGone DEF CreateStatement
  <1> USE DEF Differs, PageFields, DraftFields, GrantFields, InputFields
  <1>7. /\ page'.adminRead = page.adminRead /\ page'.adminKey = page.adminKey
        /\ page'.artifactRead = page.artifactRead /\ page'.artifact = page.artifact
        /\ page'.agentKey = page.agentKey /\ Differs(page, page', InputFields)
    BY <1>6
  <1> HIDE DEF Differs
  <1>8. Numbered'
    BY <1>2, <1>3, StartNumbered DEF IInv, Controls
  <1>9. Alone'
    <2>1. \A u \in tasks : Kind(u) \in {"statement", "grant"} => u.draft # n.draft
      BY <1>2, <1>4 DEF IInv, Holding, RevisionKnown, Kind
    <2> QED
      BY <1>2, <1>3, <2>1 DEF IInv, Alone, Kind
  <1>10. Holds(n)' /\ RevisionKnown(n)' /\ Attending(n)' /\ Drafting(n)'
    BY <1>2, <1>4, <1>5, <1>6, <1>7
       DEF Holds, RevisionKnown, Attending, Drafting, OfDraft, Kind
  <1>11. Drafts'
    BY <1>3, <1>6, <1>10, DraftsCancelled
  <1>12. DraftMatchesInputs'
    BY <1>6 DEF DraftMatchesInputs
  <1>13. Reads' /\ LatestChoice'
    <2>1. used'["admin"] = used["admin"] /\ used'["artifact"] = used["artifact"]
      BY <1>3 DEF Count, IInv, Numbered, Controls
    <2> QED
      BY <1>2, <1>3, <1>7, <2>1, ReadsGoOn
  <1>14. page.draft <= page'.draft /\ page.artifactRead <= page'.artifactRead
    BY <1>4, <1>6, <1>7 DEF PageType
  <1> QED
    BY <1>3, <1>6, <1>7, <1>8, <1>9, <1>10, <1>11, <1>12, <1>13, <1>14, DraftChanges

LEMMA StatementSignedStep ==
    ASSUME IInv, NEW t \in tasks, StatementSigned(t)
    PROVE  IInv'
  <1>1. PICK s : s = [agentKey |-> t.agentKey, artifact |-> t.artifact,
                      delegation |-> t.delegation, id |-> t.id]
    OBVIOUS
  <1> DEFINE r == [page EXCEPT !.statement = s]
  <1>2. /\ Kind(t) = "statement" /\ t.draft = page.draft /\ page \in PageType
        /\ tasks' = tasks \ {t} /\ UNCHANGED <<used, service>>
        /\ page' = UpdateSignerButtons(r)
    BY <1>1 DEF StatementSigned, Live, Finish, IInv, PageTyped
  <1>3. /\ t.agentKey \in AgentSigners /\ t.artifact \in Artifacts
        /\ t.delegation \in Optional(Delegations) /\ t.id \in Ids /\ t.step = "sign"
    BY <1>2 DEF IInv, Holding, Holds, Loaders, Numbered
  <1>4. /\ t.agentKey = page.agentKey /\ t.artifact = page.artifact
        /\ page.statement = None /\ page.grant = None
    BY <1>2, <1>3 DEF IInv, Drafts, Drafting, OfDraft
  <1>5. s \in Statements /\ s.agentKey = t.agentKey /\ s.artifact = t.artifact
    BY <1>1, <1>3 DEF Statements, AgentSigners, Signers, Optional
  <1>6. r \in PageType /\ Differs(page, r, {"statement"}) /\ r.statement = s
    BY <1>2, <1>5, NoneOptional DEF PageType, Differs, PageFields
  <1> HIDE DEF r
  <1> USE DEF Differs, PageFields, DraftFields, GrantFields, InputFields
  <1>7. page' \in PageType /\ Differs(r, page', {"canSign"}) /\ Signable(page')
    BY <1>2, <1>6, Buttons
  <1>8. Differs(page, page', {"statement", "canSign"}) /\ page'.statement = s
    BY <1>6, <1>7
  <1>9. Numbered' /\ Alone'
    BY <1>2, OthersNumbered DEF IInv, Alone, Kind
  <1>10. Drafts'
    <2> SUFFICES ASSUME NEW u \in tasks, u # t PROVE Drafting(u)'
      BY <1>2 DEF Drafts
    <2>1. Drafting(u) /\ Holds(u)
      BY DEF IInv, Drafts, Holding
    <2>2. Kind(u) = "statement" => u.draft # page.draft
      BY <1>2 DEF IInv, Alone
    <2>3. Kind(u) = "submit" /\ u.step \in {"sign", "post", "posted"} => u.draft # page.draft
      <3> SUFFICES ASSUME Kind(u) = "submit", u.step \in {"sign", "post", "posted"},
                          u.draft = page.draft
                   PROVE  FALSE
        OBVIOUS
      <3>1. u.statement \in Statements
        BY <2>1 DEF Holds, Loaders
      <3>2. u.statement = page.statement
        BY <2>1 DEF Drafting, OfDraft
      <3> QED
        BY <1>4, <3>1, <3>2, ConsoleAssumption
    <2> QED
      BY <1>8, <2>1, <2>2, <2>3 DEF Drafting, OfDraft, Kind
  <1>11. DraftMatchesInputs'
    BY <1>4, <1>5, <1>8 DEF DraftMatchesInputs
  <1>12. Reads' /\ LatestChoice'
    BY <1>2, <1>8, ReadsGoOn
  <1>13. page.draft <= page'.draft /\ page.artifactRead <= page'.artifactRead
    BY <1>2, <1>8 DEF PageType
  <1> QED
    BY <1>2, <1>7, <1>8, <1>9, <1>10, <1>11, <1>12, <1>13, DraftChanges

LEMMA CreateGrantStep ==
    ASSUME IInv, CreateGrant
    PROVE  IInv'
  <1>1. PICK n : n = [id |-> Id("grant"), step |-> "sign", draft |-> page.draft + 1,
                      visibility |-> page.visibility, statement |-> page.statement,
                      registration |-> page.registration, adminKey |-> page.adminKey]
    OBVIOUS
  <1>2. /\ n.id = Id("grant") /\ n.step = "sign" /\ n.draft = page.draft + 1
        /\ n.visibility = page.visibility /\ n.statement = page.statement
        /\ n.registration = page.registration /\ n.adminKey = page.adminKey
        /\ Kind(n) = "grant"
    BY <1>1 DEF Id, Kind
  <1>3. tasks' = tasks \cup {n} /\ Count("grant") /\ UNCHANGED service
    BY <1>1 DEF CreateGrant, Start, Click
  <1>4. /\ page \in PageType /\ page.draft \in Nat /\ page.visibility \in Visibilities
        /\ page.statement \in Statements /\ page.registration \in Registrations
        /\ page.adminKey \in AdminSigners
    BY DEF CreateGrant, CanGrant, IInv, PageTyped, PageType, Optional
  <1>5. /\ page' \in PageType /\ Differs(page, page', GrantFields) /\ Signable(page')
        /\ page'.draft = page.draft + 1 /\ page'.grant = None
    BY <1>4, GrantGone DEF CreateGrant
  <1> USE DEF Differs, PageFields, DraftFields, GrantFields, InputFields
  <1>6. /\ page'.adminRead = page.adminRead /\ page'.adminKey = page.adminKey
        /\ page'.artifactRead = page.artifactRead /\ page'.artifact = page.artifact
        /\ page'.agentKey = page.agentKey /\ page'.statement = page.statement
        /\ Differs(page, page', InputFields)
    BY <1>5
  <1> HIDE DEF Differs
  <1>7. Numbered'
    BY <1>2, <1>3, StartNumbered DEF IInv, Controls
  <1>8. Alone'
    <2>1. \A u \in tasks : Kind(u) \in {"statement", "grant"} => u.draft # n.draft
      BY <1>2, <1>4 DEF IInv, Holding, RevisionKnown, Kind
    <2> QED
      BY <1>2, <1>3, <2>1 DEF IInv, Alone, Kind
  <1>9. Holds(n)' /\ RevisionKnown(n)' /\ Attending(n)' /\ Drafting(n)'
    BY <1>2, <1>4, <1>5, <1>6
       DEF Holds, RevisionKnown, Attending, Drafting, OfDraft, Kind
  <1>10. Drafts'
    BY <1>3, <1>5, <1>9, DraftsCancelled
  <1>11. DraftMatchesInputs'
    BY <1>5, <1>6 DEF IInv, DraftMatchesInputs
  <1>12. Reads' /\ LatestChoice'
    <2>1. used'["admin"] = used["admin"] /\ used'["artifact"] = used["artifact"]
      BY <1>3 DEF Count, IInv, Numbered, Controls
    <2> QED
      BY <1>2, <1>3, <1>6, <2>1, ReadsGoOn
  <1>13. page.draft <= page'.draft /\ page.artifactRead <= page'.artifactRead
    BY <1>4, <1>5, <1>6 DEF PageType
  <1> QED
    BY <1>3, <1>5, <1>6, <1>7, <1>8, <1>9, <1>10, <1>11, <1>12, <1>13, DraftChanges

LEMMA GrantSignedStep ==
    ASSUME IInv, NEW t \in tasks, GrantSigned(t)
    PROVE  IInv'
  <1>1. PICK g : g = [statement |-> t.statement, delegation |-> t.registration.delegation,
                      admin |-> t.adminKey.key, visibility |-> t.visibility]
    OBVIOUS
  <1> DEFINE r == [page EXCEPT !.grant = g, !.grantVisibility = t.visibility]
  <1>2. /\ Kind(t) = "grant" /\ t.draft = page.draft /\ page \in PageType
        /\ t.visibility = page.visibility /\ t.statement = page.statement
        /\ t.adminKey = page.adminKey
        /\ tasks' = tasks \ {t} /\ UNCHANGED <<used, service>>
        /\ page' = UpdateSignerButtons(r)
    BY <1>1 DEF GrantSigned, Live, Finish, IInv, PageTyped
  <1>3. /\ t.statement \in Statements /\ t.registration \in Registrations /\ t.step = "sign"
        /\ t.adminKey \in AdminSigners /\ t.visibility \in Visibilities
    BY <1>2 DEF IInv, Holding, Holds, Loaders
  <1>4. page.grant = None
    BY <1>2, <1>3 DEF IInv, Drafts, Drafting, OfDraft
  <1>5. /\ g \in Grants /\ g.statement = t.statement /\ g.visibility = t.visibility
        /\ g.admin = t.adminKey.key /\ t.adminKey # None
    <2>1. t.adminKey \in Signers
      BY <1>3 DEF AdminSigners, Signers
    <2> QED
      BY <1>1, <1>3, <2>1, ConsoleAssumption DEF Grants, AdminSigners, Registrations
  <1>6. /\ r \in PageType /\ Differs(page, r, {"grant", "grantVisibility"})
        /\ r.grant = g /\ r.grantVisibility = t.visibility
    BY <1>2, <1>3, <1>5, NoneOptional DEF PageType, Differs, PageFields
  <1> HIDE DEF r
  <1> USE DEF Differs, PageFields, DraftFields, GrantFields, InputFields
  <1>7. page' \in PageType /\ Differs(r, page', {"canSign"}) /\ Signable(page')
    BY <1>2, <1>6, Buttons
  <1>8. /\ Differs(page, page', {"grant", "grantVisibility", "canSign"})
        /\ page'.grant = g /\ page'.grantVisibility = t.visibility
    BY <1>6, <1>7
  <1>9. Numbered' /\ Alone'
    BY <1>2, OthersNumbered DEF IInv, Alone, Kind
  <1>10. Drafts'
    <2> SUFFICES ASSUME NEW u \in tasks, u # t PROVE Drafting(u)'
      BY <1>2 DEF Drafts
    <2>1. Drafting(u) /\ Holds(u)
      BY DEF IInv, Drafts, Holding
    <2>2. Kind(u) \in {"statement", "grant"} => u.draft # page.draft
      BY <1>2 DEF IInv, Alone
    <2>3. Kind(u) = "submit" /\ u.step \in {"sign", "post", "posted"} => u.draft # page.draft
      <3> SUFFICES ASSUME Kind(u) = "submit", u.step \in {"sign", "post", "posted"},
                          u.draft = page.draft
                   PROVE  FALSE
        OBVIOUS
      <3>1. u.grant \in Grants
        BY <2>1 DEF Holds, Loaders
      <3>2. u.grant = page.grant
        BY <2>1 DEF Drafting, OfDraft
      <3> QED
        BY <1>4, <3>1, <3>2, ConsoleAssumption
    <2> QED
      BY <1>8, <2>1, <2>2, <2>3 DEF Drafting, OfDraft, Kind
  <1>11. DraftMatchesInputs'
    BY <1>2, <1>5, <1>8 DEF IInv, DraftMatchesInputs
  <1>12. Reads' /\ LatestChoice'
    BY <1>2, <1>8, ReadsGoOn
  <1>13. page.draft <= page'.draft /\ page.artifactRead <= page'.artifactRead
    BY <1>2, <1>8 DEF PageType
  <1> QED
    BY <1>2, <1>7, <1>8, <1>9, <1>10, <1>11, <1>12, <1>13, DraftChanges

LEMMA ChooseVisibilityStep ==
    ASSUME IInv, NEW v \in Visibilities, ChooseVisibility(v)
    PROVE  IInv'
  <1> DEFINE r == [page EXCEPT !.visibility = v]
  <1>1. /\ page \in PageType /\ page' = InvalidateGrant(r)
        /\ Count("visibility") /\ UNCHANGED <<tasks, service>>
    BY DEF ChooseVisibility, Click, IInv, PageTyped
  <1>2. r \in PageType /\ Differs(page, r, {"visibility"})
    BY <1>1 DEF PageType, Differs, PageFields
  <1> HIDE DEF r
  <1> USE DEF Differs, PageFields, DraftFields, GrantFields, InputFields
  <1>3. /\ page' \in PageType /\ Differs(r, page', GrantFields) /\ Signable(page')
        /\ page'.draft = r.draft + 1 /\ page'.grant = None
    BY <1>1, <1>2, GrantGone
  <1>4. /\ Differs(page, page', InputFields) /\ page'.draft = page.draft + 1
        /\ page'.statement = page.statement /\ page'.agentKey = page.agentKey
        /\ page'.adminRead = page.adminRead /\ page'.adminKey = page.adminKey
        /\ page'.artifactRead = page.artifactRead /\ page'.artifact = page.artifact
    BY <1>2, <1>3
  <1> HIDE DEF Differs
  <1>5. Numbered' /\ Alone'
    BY <1>1, ClickNumbered DEF IInv, Controls, Alone, Kind
  <1>6. Drafts'
    BY <1>1, <1>3, <1>4, DraftsCancelled
  <1>7. DraftMatchesInputs'
    BY <1>3, <1>4 DEF IInv, DraftMatchesInputs
  <1>8. Reads' /\ LatestChoice'
    <2>1. used'["admin"] = used["admin"] /\ used'["artifact"] = used["artifact"]
      BY <1>1 DEF Count, IInv, Numbered, Controls
    <2> QED
      BY <1>1, <1>4, <2>1, ReadsGoOn
  <1>9. page.draft <= page'.draft /\ page.artifactRead <= page'.artifactRead
    BY <1>1, <1>4 DEF PageType
  <1> QED
    BY <1>1, <1>3, <1>4, <1>5, <1>6, <1>7, <1>8, <1>9, DraftChanges

LEMMA SubmissionAnsweredStep ==
    ASSUME IInv, NEW t \in tasks, SubmissionAnswered(t)
    PROVE  IInv'
  <1>1. PICK n : n = AskWorkspace(t, page)
    OBVIOUS
  <1>2. /\ Kind(t) = "submit" /\ t.step = "posted" /\ t.session = page.session
        /\ page \in PageType /\ tasks' = (tasks \ {t}) \cup {n} /\ UNCHANGED <<used, service>>
    BY <1>1 DEF SubmissionAnswered, Live, Resume, IInv, PageTyped
  <1>3. /\ n.id = t.id /\ n.step = "me" /\ n.session = t.session /\ n.token = page.token
        /\ Kind(n) = "submit"
    BY <1>1, <1>2 DEF AskWorkspace, Kind
  <1>4. RevisionKnown(t) /\ page.token # None /\ page.token \in AdminKeys
    BY <1>2 DEF IInv, Holding, InSession, Attending, OfSession, PageType, Optional
  <1> USE DEF Differs, PageFields, DraftFields, GrantFields, InputFields
  <1>5. /\ page' \in PageType /\ Differs(page, page', InputFields) /\ Signable(page')
        /\ \/ page' = page
           \/ /\ page'.draft = page.draft + 1 /\ page'.statement = None /\ page'.grant = None
    <2>1. CASE t.draft = page.draft
      BY <1>2, <2>1, DraftGone DEF SubmissionAnswered
    <2>2. CASE t.draft # page.draft
      BY <1>2, <2>2 DEF SubmissionAnswered, IInv, Enabled
    <2> QED
      BY <2>1, <2>2
  <1>6. /\ page'.session = page.session /\ page'.token = page.token
        /\ page'.adminRead = page.adminRead /\ page'.adminKey = page.adminKey
    BY <1>5
  <1>7. Numbered' /\ Alone'
    BY <1>2, <1>3, MoveNumbered DEF IInv, Alone, Kind
  <1>8. Holds(n)' /\ RevisionKnown(n)' /\ Attending(n)' /\ Drafting(n)'
    BY <1>2, <1>3, <1>4, <1>6
       DEF Holds, Loaders, RevisionKnown, Attending, OfSession, Drafting, Kind
  <1>9. Drafts'
    BY <1>2, <1>5, <1>8, DraftsCancelled, DraftsGoOn
  <1>10. DraftMatchesInputs'
    BY <1>5 DEF IInv, DraftMatchesInputs
  <1>11. page'.artifact = page.artifact /\ page'.artifactRead = page.artifactRead
    <2>1. CASE t.draft = page.draft
      BY <1>2, <2>1, DraftGone DEF SubmissionAnswered
    <2>2. CASE t.draft # page.draft
      BY <2>2 DEF SubmissionAnswered
    <2> QED
      BY <2>1, <2>2
  <1>12. Reads' /\ LatestChoice'
    BY <1>2, <1>3, <1>6, <1>11, ReadsGoOn
  <1>13. page.draft <= page'.draft /\ page.artifactRead <= page'.artifactRead
    BY <1>2, <1>5, <1>11 DEF PageType
  <1> QED
    BY <1>2, <1>5, <1>7, <1>8, <1>9, <1>10, <1>12, <1>13, DraftChanges

-----------------------------------------------------------------------------
(* Handlers that wait, the service, and what goes wrong.                   *)

LEMMA SaveProfileStep ==
    ASSUME IInv, SaveProfile
    PROVE  IInv'
  <1>1. /\ page.session \in Nat /\ page.token \in Optional(AdminKeys)
        /\ page.panels /\ page.profile
    BY DEF SaveProfile, IInv, PageTyped, PageType
  <1>2. page.token # None
    BY <1>1 DEF IInv, SignedOut
  <1>3. page.session # 0 /\ page.workspace # None
    BY <1>1, <1>2 DEF IInv, SessionIsAdmins, Sessions, IsPostQuantum
  <1>4. PICK n : n = [id |-> Id("profile"), step |-> "put", session |-> page.session,
                      token |-> page.token]
    OBVIOUS
  <1>5. /\ n.id = Id("profile") /\ n.step = "put" /\ n.session = page.session
        /\ n.token = page.token /\ Kind(n) = "profile"
    BY <1>4 DEF Id, Kind
  <1>6. Holds(n) /\ RevisionKnown(n) /\ Attending(n) /\ Drafting(n)
    BY <1>1, <1>2, <1>3, <1>5
       DEF Holds, RevisionKnown, Attending, OfSession, Drafting, Optional
  <1> QED
    BY <1>4, <1>5, <1>6, TaskStarts DEF SaveProfile, Click, Controls

LEMMA ChooseAgentKeyStep ==
    ASSUME IInv, NEW c \in {"generate", "import"}, NEW k \in AgentKeys, ChooseAgentKey(c, k)
    PROVE  IInv'
  <1>1. page.session \in Nat /\ page.panels
    BY DEF ChooseAgentKey, IInv, PageTyped, PageType
  <1>2. page.session # 0
    BY <1>1 DEF IInv, SessionIsAdmins, Sessions, IsPostQuantum
  <1>3. PICK n : n = [id |-> Id(c), step |-> "read", session |-> page.session, key |-> k]
    OBVIOUS
  <1>4. /\ n.id = Id(c) /\ n.step = "read" /\ n.session = page.session /\ n.key = k
        /\ Kind(n) = c
    BY <1>3 DEF Id, Kind
  <1>5. Holds(n) /\ RevisionKnown(n) /\ Attending(n) /\ Drafting(n)
    BY <1>1, <1>2, <1>4 DEF Holds, RevisionKnown, Attending, OfSession, Drafting
  <1> QED
    BY <1>3, <1>4, <1>5, TaskStarts DEF ChooseAgentKey, Click, Controls

LEMMA RevokeStep ==
    ASSUME IInv, NEW row \in page.list, Revoke(row)
    PROVE  IInv'
  <1>1. /\ page.session \in Nat /\ page.token # None
        /\ row.agent.delegation \in Delegations
    BY DEF Revoke, IInv, PageTyped, PageType
  <1>2. page.session # 0
    BY <1>1 DEF IInv, SessionIsAdmins, Sessions
  <1>3. PICK n : n = [id |-> Id("revoke"), step |-> "post", session |-> page.session,
                      token |-> page.token, delegation |-> row.agent.delegation]
    OBVIOUS
  <1>4. /\ n.id = Id("revoke") /\ n.step = "post" /\ n.session = page.session
        /\ n.delegation \in Delegations /\ Has(n, {"delegation"}) /\ Kind(n) = "revoke"
    BY <1>1, <1>3 DEF Id, Kind, Has
  <1>5. Holds(n) /\ RevisionKnown(n) /\ Attending(n) /\ Drafting(n)
    BY <1>1, <1>2, <1>4 DEF Holds, RevisionKnown, Attending, OfSession, Drafting
  <1> QED
    BY <1>3, <1>4, <1>5, TaskStarts DEF Revoke, Click, Controls

LEMMA SubmitStep ==
    ASSUME IInv, Submit
    PROVE  IInv'
  <1>1. /\ page.session \in Nat /\ page.draft \in Nat /\ page.token # None
        /\ page.statement \in Statements /\ page.grant \in Grants
    BY DEF Submit, CanSubmit, IInv, PageTyped, PageType, Optional
  <1>2. page.session # 0
    BY <1>1 DEF IInv, SessionIsAdmins, Sessions
  <1>3. PICK n : n = [id |-> Id("submit"), step |-> "post", session |-> page.session,
                      draft |-> page.draft, token |-> page.token,
                      statement |-> page.statement, grant |-> page.grant]
    OBVIOUS
  <1>4. /\ n.id = Id("submit") /\ n.step = "post" /\ n.session = page.session
        /\ n.draft = page.draft /\ n.statement = page.statement /\ n.grant = page.grant
        /\ Has(n, {"draft", "statement", "grant"}) /\ Kind(n) = "submit"
    BY <1>3 DEF Id, Kind, Has
  <1>5. Holds(n) /\ RevisionKnown(n) /\ Attending(n) /\ Drafting(n)
    BY <1>1, <1>2, <1>4 DEF Holds, RevisionKnown, Attending, OfSession, Drafting, OfDraft
  <1> QED
    BY <1>3, <1>4, <1>5, TaskStarts DEF Submit, Click, Controls

LEMMA HideCertificateStep ==
    ASSUME IInv, NEW c \in page.certificates, HideCertificate(c)
    PROVE  IInv'
  <1>1. page.session \in Nat /\ page.token # None /\ c.certificate \in issued
    BY DEF HideCertificate, IInv, PageTyped, PageType, Served
  <1>2. page.session # 0
    BY <1>1 DEF IInv, SessionIsAdmins, Sessions
  <1>3. PICK n : n = [id |-> Id("hide"), step |-> "post", session |-> page.session,
                      token |-> page.token, certificate |-> c.certificate]
    OBVIOUS
  <1>4. /\ n.id = Id("hide") /\ n.step = "post" /\ n.session = page.session
        /\ n.certificate \in issued /\ Has(n, {"certificate"}) /\ Kind(n) = "hide"
    BY <1>1, <1>3 DEF Id, Kind, Has
  <1>5. Holds(n) /\ RevisionKnown(n) /\ Attending(n) /\ Drafting(n)
    BY <1>1, <1>2, <1>4 DEF Holds, RevisionKnown, Attending, OfSession, Drafting
  <1> QED
    BY <1>3, <1>4, <1>5, TaskStarts DEF HideCertificate, Click, Controls

\* Only the step of a handler changes: what it holds stays.
LEMMA StepTaken ==
    ASSUME NEW t, NEW s, "step" \in DOMAIN t
    PROVE  LET n == [t EXCEPT !.step = s] IN
           /\ DOMAIN n = DOMAIN t /\ n.step = s
           /\ \A f \in DOMAIN t \ {"step"} : n[f] = t[f]
  OBVIOUS

LEMMA LoginContinuesStep ==
    ASSUME IInv, NEW t \in tasks, LoginContinues(t)
    PROVE  IInv'
  <1>1. Holds(t) /\ Attending(t) /\ t.step \in {"challenge", "signing"} /\ Stored
    BY DEF LoginContinues, IInv, Holding, InSession
  <1>2. Kind(t) = "login" /\ t.key \in AdminKeys /\ Has(t, {"key"})
    BY <1>1 DEF Holds, Loaders
  <1>3. PICK n : n = [t EXCEPT !.step = IF @ = "challenge" THEN "signing" ELSE "verify"]
    OBVIOUS
  <1>4. n = [t EXCEPT !.step = IF t.step = "challenge" THEN "signing" ELSE "verify"]
    BY <1>3
  <1>5. /\ n.step \in {"signing", "verify"} /\ Has(n, {"key"}) /\ n.id = t.id
        /\ n.session = t.session /\ n.key = t.key /\ Kind(n) = "login"
    BY <1>2, <1>4, StepTaken DEF Kind, Has
  <1>6. Holds(n)' /\ Attending(n) /\ Drafting(n)
    BY <1>1, <1>2, <1>5 DEF Holds, Has, Attending, OfSession, Drafting, Kind
  <1> QED
    BY <1>1, <1>2, <1>3, <1>5, <1>6, TaskMoves DEF LoginContinues, Stored, service

LEMMA ServeWorkspaceStep ==
    ASSUME IInv, NEW t \in tasks, ServeWorkspace(t)
    PROVE  IInv'
  <1> DEFINE Gone(d) == d \in revoked
             Public(c) == c.grant.visibility = "public" /\ c \notin hidden
             as == {[delegation |-> d, revoked |-> Gone(d)] :
                    d \in {r \in registered : r.admin = t.token}}
             cs == {[certificate |-> c, public |-> Public(c)] :
                    c \in {i \in issued : i.grant.admin = t.token}}
  <1>1. Holds(t) /\ Attending(t) /\ t.step = "me" /\ Stored /\ Stored'
    BY DEF ServeWorkspace, IInv, Holding, InSession, Stored, service
  <1>2. Kind(t) \in Loaders /\ t.token \in AdminKeys
    BY <1>1 DEF Holds, Loaders
  <1>3. PICK n : n = [id |-> t.id, step |-> "workspace", session |-> t.session,
                      workspace |-> t.token, agents |-> as, certificates |-> cs]
    OBVIOUS
  <1>4. Resume(t, n) /\ UNCHANGED <<page, used, service>>
    BY <1>3 DEF ServeWorkspace
  <1>5. (\A d : Gone(d) \in BOOLEAN) /\ (\A c : Public(c) \in BOOLEAN)
    OBVIOUS
  <1> HIDE DEF Gone, Public
  <1>6. /\ as \subseteq Listed /\ cs \subseteq Served
        /\ \A a \in as : a.delegation.admin = t.token
    BY <1>1, <1>5 DEF Listed, Served, Stored
  <1> HIDE DEF as, cs
  <1>7. /\ n.id = t.id /\ n.step = "workspace" /\ n.session = t.session
        /\ n.workspace = t.token /\ n.agents = as /\ n.certificates = cs
        /\ Kind(n) = Kind(t)
    BY <1>3 DEF Kind
  <1>8. Holds(n)'
    <2>1. cs \subseteq Served'
      BY <1>4, <1>6 DEF Served, service
    <2> QED
      BY <1>2, <1>6, <1>7, <2>1 DEF Holds, Kind
  <1>9. Attending(n) /\ Drafting(n)
    BY <1>1, <1>2, <1>7 DEF Attending, OfSession, Drafting, Loaders
  <1> QED
    BY <1>1, <1>2, <1>4, <1>7, <1>8, <1>9, TaskMoves DEF Loaders, service

\* What the service does to its own state on a request.
LEMMA ServeChangeStep ==
    ASSUME IInv, NEW t \in tasks,
           ServeRegistration(t) \/ ServeRevocation(t) \/ ServeSubmission(t) \/ ServeHide(t)
    PROVE  IInv'
  <1>1. /\ Holds(t) /\ Attending(t) /\ Drafting(t) /\ t.step = "post"
        /\ Kind(t) \in {"register", "revoke", "submit", "hide"}
        /\ Resume(t, [t EXCEPT !.step = "posted"]) /\ UNCHANGED <<page, used>>
    BY DEF ServeRegistration, ServeRevocation, ServeSubmission, ServeHide, Answered,
           IInv, Holding, InSession, Drafts
  <1>2. PICK n : n = [t EXCEPT !.step = "posted"]
    OBVIOUS
  <1>3. Stored' /\ issued \subseteq issued'
    <2>1. Stored
      BY DEF IInv
    <2>2. CASE ServeRegistration(t)
      BY <1>1, <2>1, <2>2 DEF ServeRegistration, Stored, Holds, Loaders
    <2>3. CASE ServeRevocation(t)
      BY <2>1, <2>3 DEF ServeRevocation, Stored
    <2>4. CASE ServeSubmission(t)
      BY <1>1, <2>1, <2>4 DEF ServeSubmission, Stored, Certificates, Holds, Loaders
    <2>5. CASE ServeHide(t)
      BY <1>1, <2>1, <2>5 DEF ServeHide, Stored, Holds, Loaders
    <2> QED
      BY <2>2, <2>3, <2>4, <2>5
  <1>4. CASE Kind(t) \in {"register", "revoke"}
    <2>1. t.delegation \in Delegations /\ Has(t, {"delegation"})
      BY <1>1, <1>4 DEF Holds, Loaders
    <2>2. /\ n.id = t.id /\ n.step = "posted" /\ n.session = t.session
          /\ n.delegation = t.delegation /\ Has(n, {"delegation"}) /\ Kind(n) = Kind(t)
      BY <1>2, <2>1, StepTaken DEF Kind, Has
    <2>3. Holds(n)' /\ Attending(n) /\ Drafting(n)
      BY <1>1, <1>4, <2>1, <2>2 DEF Holds, Has, Attending, OfSession, Drafting, Kind
    <2> QED
      BY <1>1, <1>2, <1>3, <1>4, <2>2, <2>3, TaskMoves
  <1>5. CASE Kind(t) = "submit"
    <2>1. /\ t.statement \in Statements /\ t.grant \in Grants
          /\ Has(t, {"draft", "statement", "grant"})
      BY <1>1, <1>5 DEF Holds, Loaders
    <2>2. /\ n.id = t.id /\ n.step = "posted" /\ n.session = t.session
          /\ n.draft = t.draft /\ n.statement = t.statement /\ n.grant = t.grant
          /\ Has(n, {"draft", "statement", "grant"}) /\ Kind(n) = "submit"
      BY <1>2, <1>5, <2>1, StepTaken DEF Kind, Has
    <2>3. Holds(n)' /\ Attending(n) /\ Drafting(n)
      BY <1>1, <1>5, <2>1, <2>2
         DEF Holds, Has, Attending, OfSession, Drafting, OfDraft, Kind
    <2> QED
      BY <1>1, <1>2, <1>3, <1>5, <2>2, <2>3, TaskMoves
  <1>6. CASE Kind(t) = "hide"
    <2>1. t.certificate \in issued /\ Has(t, {"certificate"})
      BY <1>1, <1>6 DEF Holds, Loaders
    <2>2. /\ n.id = t.id /\ n.step = "posted" /\ n.session = t.session
          /\ n.certificate = t.certificate /\ Has(n, {"certificate"}) /\ Kind(n) = "hide"
      BY <1>2, <1>6, <2>1, StepTaken DEF Kind, Has
    <2>3. Holds(n)' /\ Attending(n) /\ Drafting(n)
      BY <1>1, <1>3, <1>6, <2>1, <2>2
         DEF Holds, Has, Attending, OfSession, Drafting, Kind
    <2> QED
      BY <1>1, <1>2, <1>3, <1>6, <2>2, <2>3, TaskMoves
  <1> QED
    BY <1>1, <1>4, <1>5, <1>6

LEMMA ChangeAnsweredStep ==
    ASSUME IInv, NEW t \in tasks, ChangeAnswered(t)
    PROVE  IInv'
  <1>1. Holds(t) /\ Attending(t) /\ t.step = "posted" /\ Kind(t) # "submit" /\ Live(t) /\ Stored
    BY DEF ChangeAnswered, IInv, Holding, InSession
  <1>2. Kind(t) \in {"register", "revoke", "hide"}
    BY <1>1 DEF Holds, Loaders
  <1>3. page.token \in AdminKeys
    BY <1>1, <1>2 DEF Live, Attending, OfSession, IInv, PageTyped, PageType, Optional
  <1>4. PICK n : n = AskWorkspace(t, page)
    OBVIOUS
  <1>5. /\ n.id = t.id /\ n.step = "me" /\ n.session = t.session
        /\ n.token = page.token /\ Kind(n) = Kind(t)
    BY <1>4 DEF AskWorkspace, Kind
  <1>6. Holds(n)' /\ Attending(n) /\ Drafting(n)
    BY <1>1, <1>2, <1>3, <1>5 DEF Holds, Loaders, Attending, OfSession, Drafting, Kind, ChangeAnswered
  <1> QED
    BY <1>1, <1>2, <1>4, <1>5, <1>6, TaskMoves DEF ChangeAnswered, Stored, service

LEMMA DiscardStep ==
    ASSUME IInv, NEW t \in tasks, Discard(t)
    PROVE  IInv'
  BY TaskEnds DEF Discard, Live

LEMMA FailStep ==
    ASSUME IInv, NEW t \in tasks, Fail(t)
    PROVE  IInv'
  <1>1. /\ page \in PageType /\ page.session \in Nat /\ page.draft \in Nat
        /\ tasks' = tasks \ {t} /\ UNCHANGED <<used, service>>
    BY DEF Fail, Finish, IInv, PageTyped, PageType
  <1> USE DEF Differs, PageFields, SessionFields, DraftFields, GrantFields, InputFields
  <1>2. CASE Kind(t) = "login"
    <2>1. /\ page' \in PageType /\ Differs(page, page', SessionFields)
          /\ Signable(page') /\ Empty(page')
          /\ page'.session = page.session + 1 /\ page'.draft = page.draft + 1
      BY <1>1, <1>2, SessionGone DEF Fail
    <2>2. /\ page'.adminRead = page.adminRead /\ page'.artifactRead = page.artifactRead
          /\ page'.adminKey = page.adminKey /\ page'.agentKey = page.agentKey
          /\ page'.artifact = page.artifact /\ page'.list = page.list
      BY <2>1
    <2> HIDE DEF Differs
    <2>3. Numbered' /\ Alone'
      BY <1>1, OthersNumbered DEF IInv, Alone, Kind
    <2>4. Grows
      BY <1>1, <2>1, <2>2 DEF Grows, PageType, service
    <2>5. Holding'
      BY <1>1, <2>4, StillHolds DEF IInv
    <2>6. Sessions'
      BY <1>1, <2>1, <2>2 DEF IInv, Sessions, PageType
    <2>7. Stored' /\ PageTyped'
      BY <1>1, <2>1, <2>2, ServiceStays DEF Empty
    <2>8. InSession' /\ SignedOut' /\ ListOfSession' /\ SessionIsAdmins' /\ RegistrationOfKeys'
      BY <1>1, <2>1, <2>2, SessionOver
    <2>9. Drafts'
      BY <1>1, <2>1, DraftsCancelled
    <2>10. Reads' /\ LatestChoice'
      BY <1>1, <2>2, ReadsGoOn
    <2>11. DraftMatchesInputs' /\ Enabled'
      BY <2>1 DEF Empty, DraftMatchesInputs, Enabled
    <2> QED
      BY <2>3, <2>5, <2>6, <2>7, <2>8, <2>9, <2>10, <2>11 DEF IInv
  <1>3. CASE Kind(t) = "artifact"
    <2> DEFINE r == [page EXCEPT !.artifact = None]
    <2>1. page' = ClearSignedDraft(r)
      BY <1>3 DEF Fail
    <2>2. r \in PageType /\ Differs(page, r, {"artifact"}) /\ r.artifact = None
      BY <1>1, NoneOptional DEF PageType
    <2> HIDE DEF r
    <2>3. /\ page' \in PageType /\ Differs(r, page', DraftFields) /\ Signable(page')
          /\ page'.draft = r.draft + 1 /\ page'.statement = None /\ page'.grant = None
      BY <2>1, <2>2, DraftGone
    <2>4. /\ Differs(page, page', InputFields) /\ page'.draft = page.draft + 1
          /\ page'.artifact = None /\ page'.artifactRead = page.artifactRead
          /\ page'.adminRead = page.adminRead /\ page'.adminKey = page.adminKey
      BY <2>2, <2>3
    <2> HIDE DEF Differs
    <2>5. Numbered' /\ Alone'
      BY <1>1, OthersNumbered DEF IInv, Alone, Kind
    <2>6. Drafts'
      BY <1>1, <2>3, <2>4, DraftsCancelled
    <2>7. DraftMatchesInputs'
      BY <2>3 DEF DraftMatchesInputs
    <2>8. Reads' /\ LatestChoice'
      BY <1>1, <2>4 DEF IInv, Reads, LatestChoice
    <2>9. page.draft <= page'.draft /\ page.artifactRead <= page'.artifactRead
      BY <1>1, <2>4 DEF PageType
    <2> QED
      BY <1>1, <1>3, <2>3, <2>4, <2>5, <2>6, <2>7, <2>8, <2>9, DraftChanges
  <1>4. CASE Kind(t) \notin {"login", "artifact"}
    BY <1>4, TaskEnds DEF Fail
  <1> QED
    BY <1>2, <1>3, <1>4

LEMMA ExpireStep ==
    ASSUME IInv, NEW d \in registered, Expire(d)
    PROVE  IInv'
  <1>1. /\ UNCHANGED <<page, tasks, registered, revoked, issued, hidden>>
        /\ expired' = expired \cup {d} /\ Count("expire")
    BY DEF Expire, Click
  <1>2. Numbered' /\ Alone'
    BY <1>1, ClickNumbered DEF IInv, Controls, Alone, Kind
  <1>3. Stored'
    BY <1>1 DEF IInv, Stored
  <1>4. /\ Sessions' /\ PageTyped' /\ Enabled' /\ SignedOut' /\ ListOfSession'
        /\ RegistrationOfKeys' /\ DraftMatchesInputs' /\ Grows
    BY <1>1, PageStays
  <1>5. Holding'
    BY <1>1, <1>4, StillHolds DEF IInv
  <1>6. Sessions' /\ InSession' /\ SessionIsAdmins'
    BY <1>1, SessionGoesOn
  <1>7. Drafts'
    BY <1>1, DraftsGoOn
  <1>8. Reads' /\ LatestChoice'
    <2>1. used'["admin"] = used["admin"] /\ used'["artifact"] = used["artifact"]
      BY <1>1 DEF Count, IInv, Numbered, Controls
    <2> QED
      BY <1>1, <2>1, ReadsGoOn
  <1> QED
    BY <1>2, <1>3, <1>4, <1>5, <1>6, <1>7, <1>8 DEF IInv

-----------------------------------------------------------------------------
(* The invariant, and what follows from it.                                *)

LEMMA InitIInv ==
    ASSUME Init
    PROVE  IInv
  <1> USE DEF Init, BlankPage
  <1>1. PageTyped
    BY NoneOptional DEF PageTyped, PageType, Visibilities
  <1>2. Numbered /\ Alone /\ Holding /\ InSession /\ Drafts /\ Reads
    BY DEF Numbered, Alone, Holding, InSession, Drafts, Reads
  <1>3. Sessions /\ Stored /\ Enabled /\ SignedOut /\ ListOfSession
    BY DEF Sessions, Stored, Enabled, Signable, SignedOut, ListOfSession
  <1>4. SessionIsAdmins /\ RegistrationOfKeys /\ DraftMatchesInputs /\ LatestChoice
    BY DEF SessionIsAdmins, RegistrationOfKeys, DraftMatchesInputs, LatestChoice
  <1> QED
    BY <1>1, <1>2, <1>3, <1>4 DEF IInv

LEMMA StutterIInv ==
    ASSUME IInv, UNCHANGED vars
    PROVE  IInv'
  <1>1. UNCHANGED <<page, tasks, used, service>>
    BY DEF vars
  <1>2. Numbered' /\ Alone' /\ Stored'
    BY <1>1 DEF IInv, Numbered, Alone, Stored, service, Kind
  <1>3. /\ Sessions' /\ PageTyped' /\ Enabled' /\ SignedOut' /\ ListOfSession'
        /\ RegistrationOfKeys' /\ DraftMatchesInputs' /\ Grows
    BY <1>1, PageStays DEF service
  <1>4. Holding' /\ InSession' /\ SessionIsAdmins'
    BY <1>1, <1>3, StillHolds, SessionGoesOn DEF IInv
  <1>5. Drafts' /\ Reads' /\ LatestChoice'
    BY <1>1, DraftsGoOn, ReadsGoOn
  <1> QED
    BY <1>2, <1>3, <1>4, <1>5 DEF IInv

LEMMA NextIInv ==
    ASSUME IInv, Next
    PROVE  IInv'
  <1>1. CASE User
    BY <1>1, ReplaceAdminKeyStep, LoginStep, SaveProfileStep, ChooseAgentKeyStep,
       RegisterStep, UseAgentStep, RevokeStep, ChooseArtifactStep, CreateStatementStep,
       CreateGrantStep, ChooseVisibilityStep, SubmitStep, HideCertificateStep DEF User
  <1>2. ASSUME NEW t \in tasks, Continue(t)
        PROVE  IInv'
    BY <1>2, LoadWorkspaceStep, AdminKeyReadStep, LoginContinuesStep, LoginVerifiedStep,
       ProfileSavedStep, AgentKeyStep, RegistrationSignedStep, ArtifactReadStep,
       StatementSignedStep, GrantSignedStep, SubmissionAnsweredStep, ChangeAnsweredStep,
       DiscardStep, FailStep DEF Continue, Handle
  <1>3. ASSUME NEW t \in tasks, Serve(t)
        PROVE  IInv'
    BY <1>3, ServeWorkspaceStep, ServeChangeStep DEF Serve
  <1> QED
    BY <1>1, <1>2, <1>3, ExpireStep DEF Next

\* The inductive invariant holds in every state: what a handler that finds its
\* revision current captured is what the page still shows.
THEOREM Inductive == Spec => []IInv
  <1>1. Init => IInv
    BY InitIInv
  <1>2. IInv /\ [Next]_vars => IInv'
    BY NextIInv, StutterIInv
  <1> QED
    BY <1>1, <1>2, PTL DEF Spec

\* Type correctness: no counter goes back behind a revision a handler waits
\* with, and the service revokes, issues and hides only what it has.
THEOREM TypeCorrect == Spec => []TypeOK
  <1>1. IInv => TypeOK
    BY DEF IInv, Numbered, Holding, Stored, PageTyped, TypeOK, Kind
  <1> QED
    BY <1>1, Inductive, PTL

\* Token, workspace and agents on the page are the loaded administrator key's,
\* however many sign-ins were started, overtaken or failed.
THEOREM SessionKept == Spec => []SessionIsAdmins
  <1>1. IInv => SessionIsAdmins
    BY DEF IInv
  <1> QED
    BY <1>1, Inductive, PTL

\* The registration on the page is the agent key's, under the administrator
\* signed in.
THEOREM RegistrationKept == Spec => []RegistrationOfKeys
  <1>1. IInv => RegistrationOfKeys
    BY DEF IInv
  <1> QED
    BY <1>1, Inductive, PTL

\* Statement and grant are about the keys, file and visibility on the page: no
\* late signature survives a change of what it was made from.
THEOREM DraftKept == Spec => []DraftMatchesInputs
  <1>1. IInv => DraftMatchesInputs
    BY DEF IInv
  <1> QED
    BY <1>1, Inductive, PTL

\* The administrator key and the original on the page are the last ones chosen.
THEOREM LatestKept == Spec => []LatestChoice
  <1>1. IInv => LatestChoice
    BY DEF IInv
  <1> QED
    BY <1>1, Inductive, PTL

\* The answer to a submission clears the draft it was made from and no other.
THEOREM OtherDraftKept == Spec => SubmissionKeepsOtherDraft
  <1>1. ASSUME IInv, NEW t \in tasks, SubmissionAnswered(t)
        PROVE  \/ page'.statement = page.statement /\ page'.grant = page.grant
               \/ page.statement = t.statement /\ page.grant = t.grant
    <2>1. Kind(t) = "submit" /\ t.step = "posted" /\ Drafting(t)
      BY <1>1 DEF SubmissionAnswered, IInv, Drafts
    <2>2. CASE t.draft = page.draft
      BY <2>1, <2>2 DEF Drafting, OfDraft
    <2>3. CASE t.draft # page.draft
      BY <1>1, <2>3 DEF SubmissionAnswered
    <2> QED
      BY <2>2, <2>3
  <1>2. IInv => \A t \in tasks : SubmissionAnswered(t) =>
                    \/ page'.statement = page.statement /\ page'.grant = page.grant
                    \/ page.statement = t.statement /\ page.grant = t.grant
    BY <1>1
  <1> QED
    BY <1>2, Inductive, PTL DEF SubmissionKeepsOtherDraft

-----------------------------------------------------------------------------
(* What is sent for whom.  Each handler holds what the page showed when it *)
(* began; the lemmas below add to IInv whose it was.                       *)

\* A statement is signed under a delegation to its own key, by the
\* administrator signed in; without one, by an ML-DSA-65 key.
Attributed(signer, d) ==
    IF d = None THEN IsPostQuantum(signer)
    ELSE /\ d.agent = signer.key
         /\ ~IsPostQuantum(page.adminKey) => d.admin = page.token

Signed ==
    /\ page.statement # None =>
         Attributed(page.statement.agentKey, page.statement.delegation)
    /\ \A t \in tasks : Kind(t) = "statement" /\ t.draft = page.draft =>
         Attributed(t.agentKey, t.delegation)

\* Certificates on the page, or on their way to it, are its tenant's.
Certified ==
    /\ \A c \in page.certificates : c.certificate.grant.admin = page.token
    /\ \A t \in tasks : t.step = "workspace" =>
         \A c \in t.certificates : c.certificate.grant.admin = t.workspace

Tenancy == Signed /\ Certified /\ RequestsOfTenant

\* The session goes on, and with it the administrator key.
SessionStays ==
    page'.session = page.session /\ page'.token = page.token /\ page'.adminKey = page.adminKey

\* The statement stays, or goes.
DraftStays ==
    page'.draft \in {page.draft, page.draft + 1} /\ page'.statement \in {None, page.statement}

WorkStays == SessionStays /\ DraftStays /\ page'.certificates = page.certificates

\* The only handlers whose objects matter here wait elsewhere.
Plain(t) == Kind(t) # "statement" /\ t.step \notin {"post", "workspace"}

LEMMA NewDraft ==
    ASSUME IInv, NEW t \in tasks, Kind(t) \in {"statement", "grant"}
    PROVE  page.draft \in Nat /\ t.draft # page.draft + 1
  <1>1. page.draft \in Nat /\ t.draft \in 1..page.draft
    BY DEF IInv, PageTyped, PageType, Holding, RevisionKnown
  <1> QED
    BY <1>1

LEMMA SignedGoesOn ==
    ASSUME IInv, Signed, DraftStays,
           \A u \in tasks' : u \in tasks \/ Kind(u) # "statement",
           SessionStays \/ (page'.draft = page.draft + 1 /\ page'.statement = None)
    PROVE  Signed'
  <1>1. CASE page'.draft = page.draft + 1 /\ page'.statement = None
    BY <1>1, NewDraft DEF Signed, Kind
  <1>2. CASE SessionStays
    BY <1>2, NewDraft DEF Signed, Attributed, SessionStays, DraftStays, IsPostQuantum, Kind
  <1> QED
    BY <1>1, <1>2

\* Until somebody with a key for hosted sign-in has signed in, nothing is
\* signed under a delegation.
LEMMA SignedAtSignIn ==
    ASSUME IInv, Signed, page.token = None, ~IsPostQuantum(page.adminKey),
           page'.draft = page.draft, page'.statement = page.statement,
           \A u \in tasks' : u \in tasks \/ Kind(u) # "statement"
    PROVE  Signed'
  <1>1. \A d \in Delegations : d # None /\ d.admin # None
    BY ConsoleAssumption DEF Delegations
  <1>2. page.statement # None => page.statement.delegation \in Optional(Delegations)
    BY DEF IInv, PageTyped, PageType, Optional, Statements
  <1>3. ASSUME NEW t \in tasks, Kind(t) = "statement"
        PROVE  t.delegation \in Optional(Delegations)
    BY <1>3 DEF IInv, Holding, Holds, Loaders
  <1>4. /\ page.statement # None => page.statement.delegation = None
        /\ \A t \in tasks : Kind(t) = "statement" /\ t.draft = page.draft => t.delegation = None
    BY <1>1, <1>2, <1>3 DEF Signed, Attributed, Optional
  <1> QED
    BY <1>4 DEF Signed, Attributed, Kind

LEMMA CertifiedGoesOn ==
    ASSUME Certified, \A u \in tasks' : u \in tasks \/ u.step # "workspace",
           \/ page'.certificates = {}
           \/ page'.certificates = page.certificates /\ page'.token = page.token
    PROVE  Certified'
  BY DEF Certified

LEMMA RequestsGoOn ==
    ASSUME RequestsOfTenant, \A u \in tasks' : u \in tasks \/ u.step # "post"
    PROVE  RequestsOfTenant'
  BY DEF RequestsOfTenant, Kind

LEMMA TenancyGoesOn ==
    ASSUME IInv, Tenancy, DraftStays, \A u \in tasks' : u \in tasks \/ Plain(u),
           \/ WorkStays
           \/ /\ page'.certificates = {}
              /\ page'.draft = page.draft + 1 /\ page'.statement = None
    PROVE  Tenancy'
  <1>1. Signed'
    BY SignedGoesOn DEF Tenancy, Plain, WorkStays
  <1>2. Certified'
    BY CertifiedGoesOn DEF Tenancy, Plain, WorkStays, SessionStays
  <1>3. RequestsOfTenant'
    BY RequestsGoOn DEF Tenancy, Plain
  <1> QED
    BY <1>1, <1>2, <1>3 DEF Tenancy

\* An agent key, or the registration of one, taken up.
LEMMA AgentTakenStays ==
    ASSUME IInv, NEW k, k \in AgentSigners \/ k = page.agentKey,
           NEW r \in Optional(Registrations),
           page' = RenderAgents([ClearSignedDraft(page) EXCEPT !.agentKey = k,
                                                               !.registration = r])
    PROVE  WorkStays
  <1>1. page \in PageType /\ k \in Optional(Signers)
    BY NoneOptional DEF IInv, PageTyped, PageType, AgentSigners, Signers
  <1>2. /\ Differs(page, page', AgentFields)
        /\ page'.draft = page.draft + 1 /\ page'.statement = None
    BY <1>1, Represented
  <1> QED
    BY <1>2 DEF WorkStays, SessionStays, DraftStays, Differs, PageFields, AgentFields,
                DraftFields, GrantFields

\* The clicks that leave the session alone.
LEMMA ClickStays ==
    ASSUME IInv,
           \/ SaveProfile
           \/ \E c \in {"generate", "import"}, k \in AgentKeys : ChooseAgentKey(c, k)
           \/ Register
           \/ \E row \in page.list : UseAgent(row) \/ Revoke(row)
           \/ \E f \in Files \cup {None} : ChooseArtifact(f)
           \/ CreateStatement \/ CreateGrant
           \/ \E v \in Visibilities : ChooseVisibility(v)
           \/ Submit
           \/ \E c \in page.certificates : HideCertificate(c)
    PROVE  WorkStays
  <1> USE DEF Differs, PageFields, DraftFields, GrantFields, WorkStays, SessionStays, DraftStays
  <1>1. page \in PageType /\ page.draft \in Nat
    BY DEF IInv, PageTyped, PageType
  <1>2. CASE UNCHANGED page
    BY <1>2
  <1>3. CASE page' = ClearSignedDraft(page)
    BY <1>1, <1>3, DraftGone
  <1>4. CASE page' = InvalidateGrant(page)
    BY <1>1, <1>4, GrantGone
  <1>5. ASSUME NEW v \in Visibilities, ChooseVisibility(v)
        PROVE  WorkStays
    <2> DEFINE p == [page EXCEPT !.visibility = v]
    <2>1. p \in PageType /\ Differs(page, p, {"visibility"})
      BY <1>1 DEF PageType
    <2>2. page' = InvalidateGrant(p)
      BY <1>5 DEF ChooseVisibility
    <2> HIDE DEF p
    <2> QED
      BY <2>1, <2>2, GrantGone
  <1>6. ASSUME NEW f, ChooseArtifact(f)
        PROVE  WorkStays
    <2> DEFINE c == ClearSignedDraft(page)
               p == [c EXCEPT !.artifactRead = @ + 1, !.artifact = None]
    <2>1. /\ c \in PageType /\ Differs(page, c, DraftFields)
          /\ c.draft = page.draft + 1 /\ c.statement = None
      BY <1>1, DraftGone
    <2>2. page' = UpdateSignerButtons(p)
      BY <1>6 DEF ChooseArtifact
    <2> HIDE DEF c
    <2>3. p \in PageType /\ Differs(c, p, {"artifactRead", "artifact"})
      <3>1. c.artifactRead + 1 \in Nat
        BY <2>1 DEF PageType
      <3> QED
        BY <2>1, <3>1, NoneOptional DEF PageType
    <2> HIDE DEF p
    <2> QED
      BY <2>1, <2>2, <2>3, Buttons
  <1>7. ASSUME NEW row \in page.list, UseAgent(row)
        PROVE  WorkStays
    BY <1>7, AgentUsed, AgentTakenStays
  <1>8. CASE SaveProfile \/ Submit \/ Register \/ CreateStatement \/ CreateGrant
    BY <1>2, <1>3, <1>4, <1>8 DEF SaveProfile, Submit, Register, CreateStatement, CreateGrant
  <1>9. ASSUME NEW c, NEW k, ChooseAgentKey(c, k)
        PROVE  WorkStays
    BY <1>2, <1>9 DEF ChooseAgentKey
  <1>10. ASSUME NEW row \in page.list, Revoke(row)
         PROVE  WorkStays
    BY <1>2, <1>10 DEF Revoke
  <1>11. ASSUME NEW c \in page.certificates, HideCertificate(c)
         PROVE  WorkStays
    BY <1>2, <1>11 DEF HideCertificate
  <1> QED
    BY <1>5, <1>6, <1>7, <1>8, <1>9, <1>10, <1>11

\* The continuations that do: all but those of a sign-in, of a workspace, of
\* an administrator key and of a statement's signature.
LEMMA HandlerStays ==
    ASSUME IInv, NEW t \in tasks,
           \/ ProfileSaved(t) \/ AgentKeyGenerated(t) \/ AgentKeyImported(t)
           \/ RegistrationSigned(t) \/ ArtifactRead(t) \/ GrantSigned(t)
           \/ SubmissionAnswered(t) \/ ChangeAnswered(t) \/ LoginContinues(t)
           \/ Discard(t) \/ (Fail(t) /\ Kind(t) # "login") \/ Serve(t)
    PROVE  WorkStays
  <1> USE DEF Differs, PageFields, DraftFields, GrantFields, WorkStays, SessionStays, DraftStays
  <1>1. page \in PageType /\ page.draft \in Nat
    BY DEF IInv, PageTyped, PageType
  <1>2. CASE UNCHANGED page
    BY <1>2
  <1>3. CASE page' = ClearSignedDraft(page)
    BY <1>1, <1>3, DraftGone
  <1>4. CASE ProfileSaved(t)
    BY <1>1, <1>4 DEF ProfileSaved, PageType
  <1>5. CASE AgentKeyGenerated(t) \/ AgentKeyImported(t)
    BY <1>5, AgentChosen, AgentTakenStays
  <1>6. CASE RegistrationSigned(t)
    BY <1>1, <1>6 DEF RegistrationSigned, PageType
  <1>7. CASE ArtifactRead(t)
    <2> DEFINE p == [page EXCEPT !.artifact = [file |-> t.file, id |-> t.id]]
    <2>1. t.file \in Files /\ t.id \in Ids
      BY <1>7 DEF ArtifactRead, IInv, Holding, Holds, Loaders, Numbered
    <2>2. [file |-> t.file, id |-> t.id] \in Optional(Artifacts)
      BY <2>1, NoneOptional DEF Artifacts
    <2>3. page' = UpdateSignerButtons(p)
      BY <1>7 DEF ArtifactRead
    <2>4. p \in PageType /\ Differs(page, p, {"artifact"})
      BY <1>1, <2>2 DEF PageType
    <2> HIDE DEF p
    <2> QED
      BY <2>3, <2>4, Buttons
  <1>8. CASE GrantSigned(t)
    BY <1>1, <1>8 DEF GrantSigned, UpdateSignerButtons, PageType
  <1>9. CASE Fail(t) /\ Kind(t) # "login"
    <2>1. CASE Kind(t) = "artifact"
      <3> DEFINE p == [page EXCEPT !.artifact = None]
      <3>1. p \in PageType /\ Differs(page, p, {"artifact"})
        BY <1>1, NoneOptional DEF PageType
      <3>2. page' = ClearSignedDraft(p)
        BY <1>9, <2>1 DEF Fail
      <3> HIDE DEF p
      <3> QED
        BY <3>1, <3>2, DraftGone
    <2> QED
      BY <1>2, <1>9, <2>1 DEF Fail
  <1>10. CASE SubmissionAnswered(t)
    BY <1>2, <1>3, <1>10 DEF SubmissionAnswered
  <1>11. CASE ChangeAnswered(t) \/ LoginContinues(t) \/ Discard(t)
    BY <1>2, <1>11 DEF ChangeAnswered, LoginContinues, Discard
  <1>12. CASE Serve(t)
    BY <1>2, <1>12 DEF Serve, ServeWorkspace, ServeRegistration, ServeRevocation,
                       ServeSubmission, ServeHide
  <1> QED
    BY <1>4, <1>5, <1>6, <1>7, <1>8, <1>9, <1>10, <1>11, <1>12

\* What these steps leave waiting: nothing of interest, but for the clicks that
\* start a statement or a request.
LEMMA PlainClicks ==
    ASSUME NEW n,
           \/ SaveProfile
           \/ \E c \in {"generate", "import"}, k \in AgentKeys : ChooseAgentKey(c, k)
           \/ Register
           \/ \E row \in page.list : UseAgent(row)
           \/ \E f \in Files \cup {None} : ChooseArtifact(f)
           \/ CreateGrant
           \/ \E v \in Visibilities : ChooseVisibility(v),
           n \in tasks' \ tasks
    PROVE  Plain(n)
  <1> USE DEF Plain, Kind, Id, Start
  <1>1. CASE SaveProfile \/ Register \/ CreateGrant
    BY <1>1 DEF SaveProfile, Register, CreateGrant
  <1>2. ASSUME NEW c \in {"generate", "import"}, NEW k, ChooseAgentKey(c, k)
        PROVE  Plain(n)
    BY <1>2 DEF ChooseAgentKey
  <1>3. ASSUME NEW row, UseAgent(row)
        PROVE  FALSE
    BY <1>3 DEF UseAgent
  <1>4. ASSUME NEW f, ChooseArtifact(f)
        PROVE  Plain(n)
    BY <1>4 DEF ChooseArtifact
  <1>5. ASSUME NEW v, ChooseVisibility(v)
        PROVE  FALSE
    BY <1>5 DEF ChooseVisibility
  <1> QED
    BY <1>1, <1>2, <1>3, <1>4, <1>5

LEMMA PlainHandlers ==
    ASSUME IInv, NEW t \in tasks, NEW n,
           \/ ProfileSaved(t) \/ AgentKeyGenerated(t) \/ AgentKeyImported(t)
           \/ ArtifactRead(t) \/ GrantSigned(t)
           \/ SubmissionAnswered(t) \/ ChangeAnswered(t) \/ LoginContinues(t)
           \/ Discard(t) \/ Fail(t) \/ AdminKeyRead(t) \/ LoginVerified(t)
           \/ LoadWorkspace(t) \/ StatementSigned(t)
           \/ ServeRegistration(t) \/ ServeRevocation(t) \/ ServeSubmission(t) \/ ServeHide(t),
           n \in tasks' \ tasks
    PROVE  Plain(n)
  <1>1. Holds(t)
    BY DEF IInv, Holding
  <1>2. CASE tasks' = tasks \ {t}
    BY <1>2
  <1>3. CASE SubmissionAnswered(t) \/ ChangeAnswered(t) \/ LoginVerified(t)
    <2>1. \E p : n = AskWorkspace(t, p)
      BY <1>3 DEF SubmissionAnswered, ChangeAnswered, LoginVerified, Resume
    <2>2. n.id = t.id /\ n.step = "me"
      BY <2>1 DEF AskWorkspace
    <2>3. Kind(t) # "statement"
      BY <1>1, <1>3 DEF Holds, Loaders, SubmissionAnswered, ChangeAnswered, LoginVerified
    <2> QED
      BY <2>2, <2>3 DEF Plain, Kind
  <1>4. CASE LoginContinues(t)
    <2>1. Kind(t) = "login" /\ Has(t, {"key"})
      BY <1>1, <1>4 DEF LoginContinues, Holds, Loaders
    <2>2. PICK s \in {"signing", "verify"} : n = [t EXCEPT !.step = s]
      BY <1>4 DEF LoginContinues, Resume
    <2>3. n.id = t.id /\ n.step = s
      BY <2>1, <2>2, StepTaken DEF Has
    <2> QED
      BY <2>1, <2>3 DEF Plain, Kind
  <1>5. CASE ServeRegistration(t) \/ ServeRevocation(t) \/ ServeSubmission(t) \/ ServeHide(t)
    <2>1. /\ n = [t EXCEPT !.step = "posted"] /\ t.step = "post"
          /\ Kind(t) \in {"register", "revoke", "submit", "hide"}
      BY <1>5 DEF ServeRegistration, ServeRevocation, ServeSubmission, ServeHide, Answered, Resume
    <2>2. {"id", "step"} \subseteq DOMAIN t
      BY <1>1, <2>1 DEF Holds, Loaders, Has
    <2>3. n.id = t.id /\ n.step = "posted"
      BY <2>1, <2>2, StepTaken
    <2> QED
      BY <2>1, <2>3 DEF Plain, Kind
  <1> QED
    BY <1>2, <1>3, <1>4, <1>5 DEF ProfileSaved, AgentKeyGenerated, AgentKeyImported, ArtifactRead,
       GrantSigned, Discard, Fail, AdminKeyRead, LoadWorkspace, StatementSigned, Finish

-----------------------------------------------------------------------------
(* The steps that make whose something is.                                 *)

LEMMA CreateStatementTenancy ==
    ASSUME IInv, Tenancy, CreateStatement
    PROVE  Tenancy'
  <1>1. PICK n : n = [id |-> Id("statement"), step |-> "sign", draft |-> page.draft + 1,
                      agentKey |-> page.agentKey, artifact |-> page.artifact,
                      delegation |-> IF IsPostQuantum(page.agentKey) THEN None
                                     ELSE page.registration.delegation]
    OBVIOUS
  <1>2. /\ n.step = "sign" /\ n.draft = page.draft + 1 /\ n.agentKey = page.agentKey
        /\ n.delegation = IF IsPostQuantum(page.agentKey) THEN None
                          ELSE page.registration.delegation
    BY <1>1
  <1>3. page' = ClearSignedDraft(page) /\ tasks' = tasks \cup {n} /\ page.canSign
    BY <1>1 DEF CreateStatement, Start
  <1>4. WorkStays
    BY ClickStays
  <1>5. page'.draft = page.draft + 1 /\ page'.statement = None
    BY <1>3, DraftGone DEF IInv, PageTyped
  <1>6. Attributed(n.agentKey, n.delegation)'
    <2>1. CASE IsPostQuantum(page.agentKey)
      BY <1>2, <2>1 DEF Attributed, IsPostQuantum
    <2>2. CASE ~IsPostQuantum(page.agentKey)
      <3>1. page.agentKey # None /\ page.registration # None
        BY <1>3, <2>2 DEF IInv, Enabled, Signable
      <3>2. page.registration.delegation \in Delegations
        BY <3>1 DEF IInv, PageTyped, PageType, Optional, Registrations
      <3>3. n.delegation = page.registration.delegation /\ n.delegation # None
        BY <1>2, <2>2, <3>2, ConsoleAssumption
      <3>4. /\ n.delegation.agent = n.agentKey.key
            /\ ~IsPostQuantum(page.adminKey) => n.delegation.admin = page.token
        BY <1>2, <3>1, <3>3 DEF IInv, RegistrationOfKeys, SignedOut
      <3> QED
        BY <1>4, <3>3, <3>4 DEF Attributed, WorkStays, SessionStays, IsPostQuantum
    <2> QED
      BY <2>1, <2>2
  <1>7. Signed'
    BY <1>3, <1>5, <1>6, NewDraft DEF Signed, Kind
  <1>8. Certified' /\ RequestsOfTenant'
    BY <1>2, <1>3, <1>4, CertifiedGoesOn, RequestsGoOn DEF Tenancy, WorkStays, SessionStays
  <1> QED
    BY <1>7, <1>8 DEF Tenancy

LEMMA StatementSignedTenancy ==
    ASSUME IInv, Tenancy, NEW t \in tasks, StatementSigned(t)
    PROVE  SessionStays /\ Tenancy'
  <1>1. PICK s : s = [agentKey |-> t.agentKey, artifact |-> t.artifact,
                      delegation |-> t.delegation, id |-> t.id]
    OBVIOUS
  <1>2. s.agentKey = t.agentKey /\ s.delegation = t.delegation
    BY <1>1
  <1>3. /\ Kind(t) = "statement" /\ t.draft = page.draft
        /\ page' = UpdateSignerButtons([page EXCEPT !.statement = s])
        /\ tasks' = tasks \ {t} /\ page \in PageType
    BY <1>1 DEF StatementSigned, Live, Finish, IInv, PageTyped
  <1>4. /\ page'.statement = s /\ page'.draft = page.draft
        /\ page'.certificates = page.certificates /\ SessionStays
    BY <1>3 DEF UpdateSignerButtons, PageType, SessionStays
  <1>5. Signed'
    BY <1>2, <1>3, <1>4 DEF Tenancy, Signed, Attributed, SessionStays, IsPostQuantum, Kind
  <1>6. Certified' /\ RequestsOfTenant'
    BY <1>3, <1>4, CertifiedGoesOn, RequestsGoOn DEF Tenancy, SessionStays
  <1> QED
    BY <1>4, <1>5, <1>6 DEF Tenancy

\* The token arrives at a page that has signed and listed nothing yet.
LEMMA LoginVerifiedTenancy ==
    ASSUME IInv, Tenancy, NEW t \in tasks, LoginVerified(t)
    PROVE  Tenancy'
  <1>1. /\ t.step = "verify" /\ page' = [page EXCEPT !.token = t.key] /\ page \in PageType
        /\ Kind(t) = "login" /\ t.session = page.session
    BY DEF LoginVerified, Live, IInv, Holding, Holds, Loaders, PageTyped
  <1>2. page.token = None /\ ~IsPostQuantum(page.adminKey)
    BY <1>1 DEF IInv, InSession, Attending, OfSession
  <1>3. \A u \in tasks' : u \in tasks \/ Plain(u)
    BY PlainHandlers
  <1>4. /\ page'.draft = page.draft /\ page'.statement = page.statement
        /\ page'.certificates = page.certificates
    BY <1>1 DEF PageType
  <1>5. Signed'
    BY <1>2, <1>3, <1>4, SignedAtSignIn DEF Tenancy, Plain
  <1>6. page'.certificates = {}
    BY <1>2, <1>4 DEF IInv, SessionIsAdmins
  <1> QED
    BY <1>3, <1>5, <1>6, CertifiedGoesOn, RequestsGoOn DEF Tenancy, Plain

LEMMA AdminKeyReadTenancy ==
    ASSUME IInv, Tenancy, NEW t \in tasks, AdminKeyRead(t)
    PROVE  page'.session = page.session /\ page'.token = page.token /\ Tenancy'
  <1>1. Kind(t) = "admin" /\ t.read = page.adminRead /\ page \in PageType
    BY DEF AdminKeyRead, Live, IInv, PageTyped
  <1>2. page.adminKey = None
    BY <1>1 DEF IInv, Reads
  <1>3. page.token = None /\ ~IsPostQuantum(page.adminKey)
    BY <1>2 DEF IInv, SessionIsAdmins, IsPostQuantum
  <1>4. \A u \in tasks' : u \in tasks \/ Plain(u)
    BY PlainHandlers
  <1>5. /\ page'.draft = page.draft /\ page'.statement = page.statement
        /\ page'.certificates = page.certificates /\ page'.session = page.session
        /\ page'.token = page.token
    BY <1>1 DEF AdminKeyRead, PageType
  <1>6. Signed'
    BY <1>3, <1>4, <1>5, SignedAtSignIn DEF Tenancy, Plain
  <1> QED
    BY <1>4, <1>5, <1>6, CertifiedGoesOn, RequestsGoOn DEF Tenancy, Plain

LEMMA ServeWorkspaceTenancy ==
    ASSUME IInv, Tenancy, NEW t \in tasks, ServeWorkspace(t)
    PROVE  Tenancy'
  <1> DEFINE Public(c) == c.grant.visibility = "public" /\ c \notin hidden
             as == {[delegation |-> d, revoked |-> d \in revoked] :
                    d \in {r \in registered : r.admin = t.token}}
             cs == {[certificate |-> c, public |-> Public(c)] :
                    c \in {i \in issued : i.grant.admin = t.token}}
  <1> HIDE DEF Public
  <1>1. \A c \in cs : c.certificate.grant.admin = t.token
    OBVIOUS
  <1>2. PICK n : n = [id |-> t.id, step |-> "workspace", session |-> t.session,
                      workspace |-> t.token, agents |-> as, certificates |-> cs]
    OBVIOUS
  <1>3. tasks' = (tasks \ {t}) \cup {n} /\ UNCHANGED page /\ t.step = "me"
    BY <1>2 DEF ServeWorkspace, Resume, Public
  <1> HIDE DEF as, cs
  <1>4. n.id = t.id /\ n.step = "workspace" /\ n.workspace = t.token /\ n.certificates = cs
    BY <1>2
  <1>5. Kind(n) # "statement"
    BY <1>3, <1>4 DEF IInv, Holding, Holds, Loaders, Kind
  <1>6. Signed'
    BY <1>3, <1>5 DEF Tenancy, Signed, Attributed, Kind
  <1>7. Certified'
    BY <1>1, <1>3, <1>4 DEF Tenancy, Certified
  <1>8. RequestsOfTenant'
    BY <1>3, <1>4, RequestsGoOn DEF Tenancy
  <1> QED
    BY <1>6, <1>7, <1>8 DEF Tenancy

LEMMA LoadWorkspaceStays ==
    ASSUME IInv, NEW t \in tasks, LoadWorkspace(t)
    PROVE  /\ SessionStays /\ DraftStays
           /\ page'.certificates = t.certificates /\ t.workspace = page.token
  <1>1. /\ page \in PageType /\ page.draft \in Nat /\ t.step = "workspace" /\ t.id \in Ids
        /\ Holds(t)
    BY DEF LoadWorkspace, IInv, PageTyped, PageType, Numbered, Holding
  <1>2. /\ Kind(t) \in Loaders /\ t.workspace \in AdminKeys /\ t.agents \subseteq Listed
        /\ t.certificates \subseteq Served
    BY <1>1 DEF Holds, Loaders
  <1>3. t.certificates \subseteq [certificate : Certificates, public : BOOLEAN]
    BY <1>2 DEF IInv, Stored, Served
  <1>4. t.session = page.session
    BY <1>1, <1>2 DEF LoadWorkspace, Live, Loaders
  <1>5. t.workspace = page.token
    BY <1>1, <1>2, <1>4 DEF IInv, InSession, Attending, OfSession, Loaders
  <1>6. /\ Differs(page, page', WorkspaceFields) /\ page'.certificates = t.certificates
        /\ \/ Differs(page, page', ShownFields)
           \/ page'.draft = page.draft + 1 /\ page'.statement = None
    BY <1>1, <1>2, <1>3, Shown DEF LoadWorkspace
  <1> QED
    BY <1>5, <1>6 DEF SessionStays, DraftStays, Differs, PageFields, ShownFields, WorkspaceFields,
                      DraftFields, GrantFields

LEMMA LoadWorkspaceTenancy ==
    ASSUME IInv, Tenancy, NEW t \in tasks, LoadWorkspace(t)
    PROVE  Tenancy'
  <1>1. /\ SessionStays /\ DraftStays
        /\ page'.certificates = t.certificates /\ t.workspace = page.token
    BY LoadWorkspaceStays
  <1>2. tasks' \subseteq tasks /\ t.step = "workspace"
    BY DEF LoadWorkspace, Finish
  <1>3. Signed' /\ RequestsOfTenant'
    BY <1>1, <1>2, SignedGoesOn, RequestsGoOn DEF Tenancy
  <1>4. Certified'
    BY <1>1, <1>2 DEF Tenancy, Certified, SessionStays
  <1> QED
    BY <1>3, <1>4 DEF Tenancy

\* Nothing signed or listed outlives the session.
LEMMA SessionGivenUp ==
    ASSUME IInv, \/ \E k \in AdminKeys : ReplaceAdminKey(k)
                 \/ Login
                 \/ \E t \in tasks : Fail(t) /\ Kind(t) = "login"
    PROVE  /\ page'.session = page.session + 1 /\ page'.token = None
           /\ page'.draft = page.draft + 1 /\ page'.statement = None
           /\ page'.certificates = {}
  <1>1. page \in PageType
    BY DEF IInv, PageTyped
  <1>2. ASSUME NEW k, ReplaceAdminKey(k)
        PROVE  /\ page'.session = page.session + 1 /\ page'.token = None
               /\ page'.draft = page.draft + 1 /\ page'.statement = None
               /\ page'.certificates = {}
    <2> DEFINE c == ClearAuthenticatedState(page)
    <2>1. c \in PageType /\ Empty(c) /\ c.session = page.session + 1 /\ c.draft = page.draft + 1
      BY <1>1, AdminGone
    <2>2. page' = [c EXCEPT !.adminRead = @ + 1, !.adminKey = None]
      BY <1>2 DEF ReplaceAdminKey
    <2> HIDE DEF c
    <2> QED
      BY <2>1, <2>2 DEF PageType, Empty
  <1>3. CASE page' = EndSession(page)
    BY <1>1, <1>3, SessionGone DEF Empty
  <1> QED
    BY <1>2, <1>3 DEF Login, Fail

\* A request for the tenant whose token it carries.
ForTenant(t) ==
    /\ Kind(t) \in {"register", "revoke"} => t.delegation.admin = t.token
    /\ Kind(t) = "hide" => t.certificate.grant.admin = t.token
    /\ Kind(t) = "submit" =>
         /\ t.grant.statement = t.statement
         /\ t.grant.admin = t.token
         /\ t.statement.delegation # None
         /\ t.statement.delegation.admin = t.token
         /\ t.statement.delegation.agent = t.statement.agentKey.key

LEMMA RequestSent ==
    ASSUME IInv, Tenancy, WorkStays, NEW n, tasks' \subseteq tasks \cup {n},
           n.step = "post", Kind(n) # "statement", ForTenant(n)
    PROVE  Tenancy'
  <1>1. Signed'
    BY SignedGoesOn DEF Tenancy, WorkStays
  <1>2. Certified'
    BY CertifiedGoesOn DEF Tenancy, WorkStays, SessionStays
  <1>3. RequestsOfTenant'
    BY DEF Tenancy, RequestsOfTenant, ForTenant, Kind
  <1> QED
    BY <1>1, <1>2, <1>3 DEF Tenancy

LEMMA RegistrationSignedTenancy ==
    ASSUME IInv, Tenancy, NEW t \in tasks, RegistrationSigned(t)
    PROVE  Tenancy'
  <1>1. PICK d : d = [agent |-> t.agentKey.key, admin |-> t.admin, id |-> t.id]
    OBVIOUS
  <1>2. PICK n : n = [id |-> t.id, step |-> "post", session |-> t.session,
                      token |-> page.token, delegation |-> d]
    OBVIOUS
  <1>3. /\ Kind(t) = "register" /\ t.step = "sign" /\ t.session = page.session
        /\ tasks' = (tasks \ {t}) \cup {n}
    BY <1>1, <1>2 DEF RegistrationSigned, Live, Resume
  <1>4. t.admin = page.token
    BY <1>3 DEF IInv, InSession, Attending, OfSession
  <1>5. /\ n.step = "post" /\ Kind(n) = "register"
        /\ n.token = page.token /\ n.delegation.admin = t.admin
    BY <1>1, <1>2, <1>3 DEF Kind
  <1>6. ForTenant(n)
    BY <1>4, <1>5 DEF ForTenant
  <1> QED
    BY <1>3, <1>5, <1>6, HandlerStays, RequestSent

\* The list on show is the tenant's, though its rows stay in the document when
\* the session ends.
LEMMA RevokeTenancy ==
    ASSUME IInv, Tenancy, NEW row \in page.list, Revoke(row)
    PROVE  Tenancy'
  <1>1. PICK n : n = [id |-> Id("revoke"), step |-> "post", session |-> page.session,
                      token |-> page.token, delegation |-> row.agent.delegation]
    OBVIOUS
  <1>2. page.panels /\ page.token # None /\ tasks' = tasks \cup {n}
    BY <1>1 DEF Revoke, Start
  <1>3. page.workspace # None
    BY <1>2 DEF IInv, SessionIsAdmins, IsPostQuantum
  <1>4. row.agent.delegation.admin = page.token
    BY <1>3 DEF IInv, ListOfSession
  <1>5. /\ n.step = "post" /\ Kind(n) = "revoke"
        /\ n.token = page.token /\ n.delegation = row.agent.delegation
    BY <1>1 DEF Kind, Id
  <1>6. ForTenant(n)
    BY <1>4, <1>5 DEF ForTenant
  <1> QED
    BY <1>2, <1>5, <1>6, ClickStays, RequestSent

LEMMA HideTenancy ==
    ASSUME IInv, Tenancy, NEW c \in page.certificates, HideCertificate(c)
    PROVE  Tenancy'
  <1>1. PICK n : n = [id |-> Id("hide"), step |-> "post", session |-> page.session,
                      token |-> page.token, certificate |-> c.certificate]
    OBVIOUS
  <1>2. tasks' = tasks \cup {n}
    BY <1>1 DEF HideCertificate, Start
  <1>3. c.certificate.grant.admin = page.token
    BY DEF Tenancy, Certified
  <1>4. /\ n.step = "post" /\ Kind(n) = "hide"
        /\ n.token = page.token /\ n.certificate = c.certificate
    BY <1>1 DEF Kind, Id
  <1>5. ForTenant(n)
    BY <1>3, <1>4 DEF ForTenant
  <1> QED
    BY <1>2, <1>4, <1>5, ClickStays, RequestSent

\* The draft submitted is whole: made by the keys on the page, and the
\* administrator key is the one signed in.
LEMMA SubmitTenancy ==
    ASSUME IInv, Tenancy, Submit
    PROVE  Tenancy'
  <1>1. PICK n : n = [id |-> Id("submit"), step |-> "post", session |-> page.session,
                      draft |-> page.draft, token |-> page.token,
                      statement |-> page.statement, grant |-> page.grant]
    OBVIOUS
  <1>2. /\ tasks' = tasks \cup {n}
        /\ ~IsPostQuantum(page.adminKey) /\ ~IsPostQuantum(page.agentKey)
        /\ page.statement # None /\ page.grant # None /\ page.token # None
    BY <1>1 DEF Submit, Start, CanSubmit, Hosted
  <1>3. /\ page.statement.agentKey = page.agentKey
        /\ page.grant.statement = page.statement
        /\ page.grant.admin = page.adminKey.key
    BY <1>2 DEF IInv, DraftMatchesInputs
  <1>4. page.adminKey.key = page.token
    BY <1>2 DEF IInv, SessionIsAdmins
  <1>5. /\ page.statement.delegation # None
        /\ page.statement.delegation.agent = page.statement.agentKey.key
        /\ page.statement.delegation.admin = page.token
    BY <1>2, <1>3 DEF Tenancy, Signed, Attributed
  <1>6. /\ n.step = "post" /\ Kind(n) = "submit" /\ n.token = page.token
        /\ n.statement = page.statement /\ n.grant = page.grant
    BY <1>1 DEF Kind, Id
  <1>7. ForTenant(n)
    BY <1>3, <1>4, <1>5, <1>6 DEF ForTenant
  <1> QED
    BY <1>2, <1>6, <1>7, ClickStays, RequestSent

LEMMA TenancyStep ==
    ASSUME IInv, Tenancy, [Next]_vars
    PROVE  Tenancy'
  <1> DEFINE Added == tasks' \ tasks
  <1>1. CASE UNCHANGED vars
    BY <1>1 DEF vars, Tenancy, Signed, Attributed, Certified, RequestsOfTenant, IsPostQuantum, Kind
  <1>2. page.draft \in Nat
    BY DEF IInv, PageTyped, PageType
  <1>3. CASE \/ SaveProfile
             \/ \E c \in {"generate", "import"}, k \in AgentKeys : ChooseAgentKey(c, k)
             \/ Register
             \/ \E row \in page.list : UseAgent(row)
             \/ \E f \in Files \cup {None} : ChooseArtifact(f)
             \/ CreateGrant
             \/ \E v \in Visibilities : ChooseVisibility(v)
    <2>1. \A n \in Added : Plain(n)
      BY <1>3, PlainClicks
    <2>2. WorkStays
      BY <1>3, ClickStays
    <2> QED
      BY <2>1, <2>2, TenancyGoesOn DEF WorkStays
  <1>4. CASE (\E k \in AdminKeys : ReplaceAdminKey(k)) \/ Login
    <2>1. \A n \in Added : Plain(n)
      BY <1>4 DEF ReplaceAdminKey, Login, Start, Plain, Kind, Id
    <2> QED
      BY <1>4, <2>1, SessionGivenUp, TenancyGoesOn DEF DraftStays
  <1>5. CASE User
    BY <1>3, <1>4, <1>5, CreateStatementTenancy, RevokeTenancy, HideTenancy, SubmitTenancy DEF User
  <1>6. ASSUME NEW t \in tasks,
               \/ ProfileSaved(t) \/ AgentKeyGenerated(t) \/ AgentKeyImported(t)
               \/ ArtifactRead(t) \/ GrantSigned(t)
               \/ SubmissionAnswered(t) \/ ChangeAnswered(t) \/ LoginContinues(t)
               \/ Discard(t) \/ Fail(t)
               \/ ServeRegistration(t) \/ ServeRevocation(t) \/ ServeSubmission(t) \/ ServeHide(t)
        PROVE  Tenancy'
    <2>1. \A n \in Added : Plain(n)
      BY <1>6, PlainHandlers
    <2>2. CASE Fail(t) /\ Kind(t) = "login"
      BY <2>1, <2>2, SessionGivenUp, TenancyGoesOn DEF DraftStays
    <2>3. CASE ~(Fail(t) /\ Kind(t) = "login")
      <3>1. WorkStays
        BY <1>6, <2>3, HandlerStays DEF Serve
      <3> QED
        BY <2>1, <3>1, TenancyGoesOn DEF WorkStays
    <2> QED
      BY <2>2, <2>3
  <1>7. ASSUME NEW t \in tasks, Continue(t) \/ Serve(t)
        PROVE  Tenancy'
    BY <1>6, <1>7, LoadWorkspaceTenancy, AdminKeyReadTenancy, LoginVerifiedTenancy,
       RegistrationSignedTenancy, StatementSignedTenancy, ServeWorkspaceTenancy
       DEF Continue, Handle, Serve
  <1>8. ASSUME NEW d \in registered, Expire(d)
        PROVE  Tenancy'
    <2>1. UNCHANGED <<page, tasks>>
      BY <1>8 DEF Expire
    <2> QED
      BY <1>2, <2>1, TenancyGoesOn DEF WorkStays, SessionStays, DraftStays
  <1> QED
    BY <1>1, <1>5, <1>7, <1>8 DEF Next

\* Beside IInv: every statement, certificate and request, on the page or under
\* way, is of one tenant.
THEOREM TenancyKept == Spec => []Tenancy
  <1>1. Init => Tenancy
    BY DEF Init, BlankPage, Tenancy, Signed, Certified, RequestsOfTenant
  <1>2. IInv /\ Tenancy /\ [Next]_vars => Tenancy'
    BY TenancyStep
  <1> QED
    BY <1>1, <1>2, Inductive, PTL DEF Spec

\* Every request is about an object of the tenant whose token it carries, and
\* in a submission statement, grant and keys belong together.
THEOREM RequestsKept == Spec => []RequestsOfTenant
  <1>1. Tenancy => RequestsOfTenant
    BY DEF Tenancy
  <1> QED
    BY <1>1, TenancyKept, PTL

-----------------------------------------------------------------------------
(* The console's session implements Session: what the session counter      *)
(* stands for is the sign-in that may still complete.                      *)

Began  == {"challenge", "signing", "verify"}
Loads  == {"me", "workspace"}
Words  == used["admin"] + used["login"]
Signing == SigningIn(Began)
Loading == SigningIn(Loads)

\* A sign-in is one of those that the limits allow.
SignInsKnown == \A t \in tasks : Kind(t) = "login" => t.id \in SignIns

LEMMA SigningInIs ==
    ASSUME NEW S
    PROVE  /\ \A x : x \in SigningIn(S) <=>
                \E t \in tasks : /\ Kind(t) = "login" /\ t.step \in S
                                 /\ t.session = page.session /\ t.id = x
           /\ \A x : (x \in SigningIn(S))' <=>
                \E t \in tasks' : /\ Kind(t) = "login" /\ t.step \in S
                                  /\ t.session = page'.session /\ t.id = x
  BY DEF SigningIn, Live, Kind

\* The promised actions, in terms of the sign-ins under way.
LEMMA PromisedActions ==
    ASSUME NEW c, NEW t
    PROVE  /\ Promised!Set(t) <=> /\ Words' \in Nat /\ Words' > Words
                                  /\ page'.token = t /\ Signing' = {} /\ Loading' = {}
           /\ Promised!BeginLogin(c) <=> /\ Words' \in Nat /\ Words' > Words
                                         /\ page'.token = None
                                         /\ Signing' = {c} /\ Loading' = {}
           /\ Promised!End(c) <=> /\ Signing' = Signing \ {c} /\ Loading' = Loading \ {c}
                                  /\ page'.token = page.token /\ Words' = Words
           /\ Promised!Complete(c, t) <=> /\ Signing = {c} /\ page.token = None
                                          /\ page'.token = t /\ Signing' = {}
                                          /\ Loading' \in {{}, {c}} /\ Words' = Words
           /\ Promised!Refuse(c) <=> /\ c \in Loading /\ page'.token = None
                                     /\ Signing' = {} /\ Loading' = {} /\ Words' = Words
           /\ UNCHANGED Promised!session <=> /\ page'.token = page.token
                                             /\ Signing' = Signing /\ Loading' = Loading
                                             /\ Words' = Words
  BY DEF Promised!Set, Promised!BeginLogin, Promised!End, Promised!Complete, Promised!Refuse,
         Promised!Speak, Promised!session, Signing, Loading, Words, Began, Loads

\* The session has one sign-in at most, and its step says where.
LEMMA OneSignIn ==
    ASSUME IInv, NEW t \in tasks, Kind(t) = "login", t.session = page.session
    PROVE  /\ t.step \in Began => Signing = {t.id} /\ Loading = {}
           /\ t.step \in Loads => Signing = {} /\ Loading = {t.id}
           /\ t.step \in Began \cup Loads
           /\ \A u \in tasks : Kind(u) = "login" /\ u.session = page.session => u = t
  <1>1. t.step \in Began \cup Loads
    BY DEF IInv, Holding, Holds, Loaders, Began, Loads
  <1>2. \A u \in tasks : Kind(u) = "login" /\ u.session = page.session => u = t
    BY DEF IInv, Alone
  <1>3. \A S, x : x \in SigningIn(S) <=> t.step \in S /\ x = t.id
    BY <1>2, SigningInIs
  <1>4. \A S : SigningIn(S) = IF t.step \in S THEN {t.id} ELSE {}
    BY <1>3
  <1>5. Began \cap Loads = {}
    BY DEF Began, Loads
  <1> QED
    BY <1>1, <1>2, <1>4, <1>5 DEF Signing, Loading

\* Where the session's sign-in is after a step of its own.
LEMMA SignInMoves ==
    ASSUME IInv, NEW t \in tasks, Kind(t) = "login", t.session = page.session,
           page'.session = page.session,
           NEW n, n.id = t.id, n.session = t.session, n.step \in Began \cup Loads,
           tasks' = (tasks \ {t}) \cup {n}
    PROVE  /\ n.step \in Began => Signing' = {t.id} /\ Loading' = {}
           /\ n.step \in Loads => Signing' = {} /\ Loading' = {t.id}
  <1>1. \A u \in tasks' : Kind(u) = "login" /\ u.session = page'.session => u = n
    BY OneSignIn
  <1>2. Kind(n) = "login" /\ n \in tasks'
    BY DEF Kind
  <1>3. \A S, x : (x \in SigningIn(S))' <=> n.step \in S /\ x = t.id
    BY <1>1, <1>2, SigningInIs
  <1>4. \A x : /\ x \in Signing' <=> n.step \in Began /\ x = t.id
               /\ x \in Loading' <=> n.step \in Loads /\ x = t.id
    BY <1>3 DEF Signing, Loading
  <1>5. Began \cap Loads = {}
    BY DEF Began, Loads
  <1> QED
    BY <1>4, <1>5

\* After its last step, or in a session that has just begun, nobody signs in.
LEMMA NobodySignsIn ==
    ASSUME IInv,
           \A u \in tasks' : u \in tasks \/ Kind(u) # "login",
           \/ page'.session = page.session + 1
           \/ /\ page'.session = page.session
              /\ \E t \in tasks \ tasks' : Kind(t) = "login" /\ t.session = page.session
    PROVE  Signing' = {} /\ Loading' = {}
  <1>1. \A u \in tasks' : ~(Kind(u) = "login" /\ u.session = page'.session)
    <2> SUFFICES ASSUME NEW u \in tasks, u \in tasks', Kind(u) = "login",
                        u.session = page'.session
                 PROVE  FALSE
      OBVIOUS
    <2>1. u.session \in 1..page.session /\ page.session \in Nat
      BY DEF IInv, Holding, RevisionKnown, PageTyped, PageType
    <2>2. CASE page'.session = page.session + 1
      BY <2>1, <2>2
    <2>3. CASE page'.session = page.session
      BY <2>1, <2>3, OneSignIn
    <2> QED
      BY <2>2, <2>3
  <1>2. \A x : x \notin Signing' /\ x \notin Loading'
    BY <1>1, SigningInIs DEF Signing, Loading
  <1> QED
    BY <1>2

\* All other steps leave the promised session as it is.
LEMMA SignInStays ==
    ASSUME page'.session = page.session, page'.token = page.token,
           Words' = Words,
           \A u : Kind(u) = "login" /\ u.session = page.session => (u \in tasks' <=> u \in tasks)
    PROVE  UNCHANGED Promised!session
  <1>1. \A x : /\ x \in Signing' <=> x \in Signing
               /\ x \in Loading' <=> x \in Loading
    BY SigningInIs DEF Signing, Loading
  <1>2. Signing' = Signing /\ Loading' = Loading
    BY <1>1
  <1> QED
    BY <1>2, PromisedActions

\* The words are counted, and nothing else is.
LEMMA WordsCounted ==
    ASSUME Numbered, NEW c \in Controls, Count(c)
    PROVE  /\ c \in {"admin", "login"} => Words' \in Nat /\ Words' > Words
           /\ c \notin {"admin", "login"} => Words' = Words
  <1>1. used["admin"] \in Nat /\ used["login"] \in Nat
    BY DEF Numbered, Controls
  <1>2. \A d \in {"admin", "login"} : used'[d] = IF d = c THEN used[d] + 1 ELSE used[d]
    BY DEF Numbered, Count, Controls
  <1> QED
    BY <1>1, <1>2 DEF Words

\* Choosing an administrator key and signing in are words; so is no other click.
LEMMA AdminKeyMaps ==
    ASSUME IInv, NEW k \in AdminKeys, ReplaceAdminKey(k)
    PROVE  Promised!Set(None)
  <1>1. Count("admin") /\ \A u \in tasks' : u \in tasks \/ Kind(u) # "login"
    BY DEF ReplaceAdminKey, Click, Start, Kind, Id
  <1>2. page'.session = page.session + 1 /\ page'.token = None
    BY SessionGivenUp
  <1>3. Signing' = {} /\ Loading' = {}
    BY <1>1, <1>2, NobodySignsIn
  <1>4. Words' \in Nat /\ Words' > Words
    BY <1>1, WordsCounted DEF IInv, Controls
  <1> QED
    BY <1>2, <1>3, <1>4, PromisedActions

LEMMA LoginMaps ==
    ASSUME IInv, SignInsKnown, Login
    PROVE  /\ SignInsKnown'
           /\ Id("login") \in SignIns /\ Promised!BeginLogin(Id("login"))
  <1>1. PICK n : n = [id |-> Id("login"), step |-> "challenge", session |-> page.session + 1,
                      key |-> page.adminKey.key]
    OBVIOUS
  <1>2. /\ n.id = Id("login") /\ n.step = "challenge" /\ n.session = page.session + 1
        /\ Kind(n) = "login"
    BY <1>1 DEF Kind, Id
  <1>3. tasks' = tasks \cup {n} /\ Click("login")
    BY <1>1 DEF Login, Start
  <1>4. page'.session = page.session + 1 /\ page'.token = None
    BY SessionGivenUp
  <1>5. \A u \in tasks : ~(Kind(u) = "login" /\ u.session = page'.session)
    BY <1>4 DEF IInv, Holding, RevisionKnown, PageTyped, PageType
  <1>6. \A u \in tasks' : Kind(u) = "login" /\ u.session = page'.session <=> u = n
    BY <1>2, <1>3, <1>4, <1>5
  <1>7. \A x : /\ x \in Signing' <=> x = n.id
               /\ x \notin Loading'
    BY <1>2, <1>3, <1>6, SigningInIs DEF Signing, Loading, Began, Loads
  <1>8. Signing' = {n.id} /\ Loading' = {}
    BY <1>7
  <1>9. Words' \in Nat /\ Words' > Words
    BY <1>3, WordsCounted DEF IInv, Click, Controls
  <1>10. Id("login") \in SignIns
    <2>1. used["login"] \in Nat /\ used'["login"] = used["login"] + 1
      BY <1>3 DEF IInv, Numbered, Click, Count, Controls
    <2>2. PICK limit \in Limits : used'["login"] <= limit["login"]
      BY <1>3 DEF Click, Controls
    <2>3. limit["login"] \in Nat
      BY ConsoleAssumption DEF Controls
    <2>4. used["login"] + 1 \in 1..limit["login"]
      BY <2>1, <2>2, <2>3
    <2> QED
      BY <2>4 DEF Id, SignIns
  <1>11. SignInsKnown'
    BY <1>2, <1>3, <1>10 DEF SignInsKnown, SignIns, Kind
  <1> QED
    BY <1>2, <1>4, <1>8, <1>9, <1>10, <1>11, PromisedActions

LEMMA LoginContinuesMaps ==
    ASSUME IInv, NEW t \in tasks, LoginContinues(t)
    PROVE  UNCHANGED Promised!session
  <1>1. /\ Kind(t) = "login" /\ Has(t, {"key"}) /\ t.session = page.session
        /\ t.step \in Began /\ UNCHANGED <<page, used>>
    BY DEF LoginContinues, Live, IInv, Holding, Holds, Loaders, Began
  <1>2. PICK s \in {"signing", "verify"} : tasks' = (tasks \ {t}) \cup {[t EXCEPT !.step = s]}
    BY DEF LoginContinues, Resume
  <1>3. PICK n : n = [t EXCEPT !.step = s]
    OBVIOUS
  <1>4. n.id = t.id /\ n.session = t.session /\ n.step = s
    BY <1>1, <1>3, StepTaken DEF Has
  <1>5. Signing' = {t.id} /\ Loading' = {}
    BY <1>1, <1>2, <1>3, <1>4, SignInMoves DEF Began
  <1>6. Signing = {t.id} /\ Loading = {}
    BY <1>1, OneSignIn
  <1> QED
    BY <1>1, <1>5, <1>6, PromisedActions DEF Words

LEMMA LoginVerifiedMaps ==
    ASSUME IInv, NEW t \in tasks, LoginVerified(t)
    PROVE  t.key \in AdminKeys /\ Promised!Complete(t.id, t.key)
  <1>1. /\ Kind(t) = "login" /\ t.session = page.session /\ t.step = "verify"
        /\ t.key \in AdminKeys
    BY DEF LoginVerified, Live, IInv, Holding, Holds, Loaders
  <1>2. page.token = None
    BY <1>1 DEF IInv, InSession, Attending, OfSession
  <1>3. PICK n : n = AskWorkspace(t, page')
    OBVIOUS
  <1>4. n.id = t.id /\ n.session = t.session /\ n.step = "me"
    BY <1>3 DEF AskWorkspace
  <1>5. /\ tasks' = (tasks \ {t}) \cup {n} /\ UNCHANGED used
        /\ page'.session = page.session /\ page'.token = t.key
    BY <1>3 DEF LoginVerified, Resume, IInv, PageTyped, PageType
  <1>6. Signing' = {} /\ Loading' = {t.id}
    BY <1>1, <1>4, <1>5, SignInMoves DEF Loads
  <1>7. Signing = {t.id}
    BY <1>1, OneSignIn DEF Began
  <1> QED
    BY <1>1, <1>2, <1>5, <1>6, <1>7, PromisedActions DEF Words

LEMMA ServeWorkspaceMaps ==
    ASSUME IInv, NEW t \in tasks, ServeWorkspace(t)
    PROVE  UNCHANGED Promised!session
  <1>1. PICK n : /\ n.id = t.id /\ n.step = "workspace" /\ n.session = t.session
                 /\ tasks' = (tasks \ {t}) \cup {n}
    <2>1. PICK as, cs : tasks' = (tasks \ {t}) \cup
                          {[id |-> t.id, step |-> "workspace", session |-> t.session,
                            workspace |-> t.token, agents |-> as, certificates |-> cs]}
      BY DEF ServeWorkspace, Resume
    <2> QED
      BY <2>1
  <1>2. t.step = "me" /\ UNCHANGED <<page, used>>
    BY DEF ServeWorkspace
  <1>3. CASE Kind(t) = "login" /\ t.session = page.session
    <2>1. Signing' = {} /\ Loading' = {t.id}
      BY <1>1, <1>2, <1>3, SignInMoves DEF Loads
    <2>2. Signing = {} /\ Loading = {t.id}
      BY <1>2, <1>3, OneSignIn DEF Loads
    <2> QED
      BY <1>2, <2>1, <2>2, PromisedActions DEF Words
  <1>4. CASE ~(Kind(t) = "login" /\ t.session = page.session)
    BY <1>1, <1>2, <1>4, SignInStays DEF Words, Kind
  <1> QED
    BY <1>3, <1>4

LEMMA LoadWorkspaceMaps ==
    ASSUME IInv, NEW t \in tasks, LoadWorkspace(t)
    PROVE  \/ UNCHANGED Promised!session
           \/ Kind(t) = "login" /\ Promised!End(t.id)
  <1>1. SessionStays /\ tasks' = tasks \ {t} /\ t.step = "workspace" /\ UNCHANGED used
    BY LoadWorkspaceStays DEF LoadWorkspace, Finish
  <1>2. CASE Kind(t) = "login"
    <2>1. t.session = page.session
      BY <1>2 DEF LoadWorkspace, Live
    <2>2. Signing = {} /\ Loading = {t.id}
      BY <1>1, <1>2, <2>1, OneSignIn DEF Loads
    <2>3. Signing' = {} /\ Loading' = {}
      BY <1>1, <1>2, <2>1, NobodySignsIn DEF SessionStays
    <2> QED
      BY <1>1, <1>2, <2>2, <2>3, PromisedActions DEF SessionStays, Words
  <1>3. CASE Kind(t) # "login"
    BY <1>1, <1>3, SignInStays DEF SessionStays, Words
  <1> QED
    BY <1>2, <1>3

\* Whichever step of it fails, a sign-in ends the session it was for.
LEMMA FailMaps ==
    ASSUME IInv, NEW t \in tasks, Fail(t), Kind(t) = "login"
    PROVE  Promised!End(t.id) \/ Promised!Refuse(t.id)
  <1>1. t.session = page.session /\ tasks' = tasks \ {t} /\ UNCHANGED used
    BY DEF Fail, Live, Finish
  <1>2. page'.session = page.session + 1 /\ page'.token = None
    BY SessionGivenUp
  <1>3. Signing' = {} /\ Loading' = {}
    BY <1>1, <1>2, NobodySignsIn
  <1>4. CASE t.step \in Began
    <2>1. page.token = None
      BY <1>1, <1>4 DEF IInv, InSession, Attending, OfSession, Began
    <2>2. Signing = {t.id} /\ Loading = {}
      BY <1>1, <1>4, OneSignIn
    <2> QED
      BY <1>1, <1>2, <1>3, <2>1, <2>2, PromisedActions DEF Words
  <1>5. CASE t.step \in Loads
    <2>1. Loading = {t.id}
      BY <1>1, <1>5, OneSignIn
    <2> QED
      BY <1>1, <1>2, <1>3, <2>1, PromisedActions DEF Words
  <1> QED
    BY <1>1, <1>4, <1>5, OneSignIn

\* The other clicks are no words, and start no sign-in.
LEMMA OtherClicks ==
    ASSUME IInv,
           \/ SaveProfile
           \/ \E c \in {"generate", "import"}, k \in AgentKeys : ChooseAgentKey(c, k)
           \/ Register
           \/ \E row \in page.list : UseAgent(row) \/ Revoke(row)
           \/ \E f \in Files \cup {None} : ChooseArtifact(f)
           \/ CreateStatement \/ CreateGrant
           \/ \E v \in Visibilities : ChooseVisibility(v)
           \/ Submit
           \/ \E c \in page.certificates : HideCertificate(c)
    PROVE  /\ \A u : Kind(u) = "login" => (u \in tasks' <=> u \in tasks)
           /\ UNCHANGED Promised!session
  <1> DEFINE Other(c) == /\ Count(c)
                         /\ \/ UNCHANGED tasks
                            \/ \E n : n.id = Id(c) /\ tasks' = tasks \cup {n}
  <1>1. \E c \in Controls \ {"admin", "login"} : Other(c)
    <2> USE DEF Start, Click, Controls
    <2>1. CASE SaveProfile
      BY <2>1 DEF SaveProfile
    <2>2. CASE Register
      BY <2>2 DEF Register
    <2>3. CASE CreateStatement
      BY <2>3 DEF CreateStatement
    <2>4. CASE CreateGrant
      BY <2>4 DEF CreateGrant
    <2>5. CASE Submit
      BY <2>5 DEF Submit
    <2>6. ASSUME NEW c \in {"generate", "import"}, NEW k, ChooseAgentKey(c, k)
          PROVE  Other(c)
      BY <2>6 DEF ChooseAgentKey
    <2>7. ASSUME NEW row, UseAgent(row)
          PROVE  Other("use")
      BY <2>7 DEF UseAgent
    <2>8. ASSUME NEW row, Revoke(row)
          PROVE  Other("revoke")
      BY <2>8 DEF Revoke
    <2>9. ASSUME NEW f, ChooseArtifact(f)
          PROVE  Other("artifact")
      BY <2>9 DEF ChooseArtifact
    <2>10. ASSUME NEW v, ChooseVisibility(v)
           PROVE  Other("visibility")
      BY <2>10 DEF ChooseVisibility
    <2>11. ASSUME NEW c, HideCertificate(c)
           PROVE  Other("hide")
      BY <2>11 DEF HideCertificate
    <2> HIDE DEF Other
    <2> QED
      BY <2>1, <2>2, <2>3, <2>4, <2>5, <2>6, <2>7, <2>8, <2>9, <2>10, <2>11
  <1>2. Words' = Words
    BY <1>1, WordsCounted DEF IInv
  <1>3. \A u : Kind(u) = "login" => (u \in tasks' <=> u \in tasks)
    BY <1>1 DEF Kind, Id
  <1>4. WorkStays
    BY ClickStays
  <1> QED
    BY <1>2, <1>3, <1>4, SignInStays DEF WorkStays, SessionStays

\* Nor does any answer that is not a sign-in's own.
LEMMA OtherHandlers ==
    ASSUME IInv, NEW t \in tasks,
           \/ ProfileSaved(t) \/ AgentKeyGenerated(t) \/ AgentKeyImported(t)
           \/ RegistrationSigned(t) \/ ArtifactRead(t) \/ GrantSigned(t)
           \/ SubmissionAnswered(t) \/ ChangeAnswered(t)
           \/ Discard(t) \/ (Fail(t) /\ Kind(t) # "login")
           \/ AdminKeyRead(t) \/ StatementSigned(t)
           \/ ServeRegistration(t) \/ ServeRevocation(t) \/ ServeSubmission(t) \/ ServeHide(t)
    PROVE  UNCHANGED Promised!session
  <1>1. Holds(t)
    BY DEF IInv, Holding
  <1>2. page'.session = page.session /\ page'.token = page.token
    <2>1. CASE StatementSigned(t)
      <3>1. /\ page \in PageType
            /\ \E s : page' = UpdateSignerButtons([page EXCEPT !.statement = s])
        BY <2>1 DEF StatementSigned, IInv, PageTyped
      <3> QED
        BY <3>1 DEF UpdateSignerButtons, PageType
    <2>2. CASE AdminKeyRead(t)
      BY <2>2 DEF AdminKeyRead, IInv, PageTyped, PageType
    <2>3. CASE ~AdminKeyRead(t) /\ ~StatementSigned(t)
      BY <2>3, HandlerStays DEF WorkStays, SessionStays, Serve
    <2> QED
      BY <2>1, <2>2, <2>3
  <1>3. CASE Discard(t)
    BY <1>2, <1>3, SignInStays DEF Discard, Finish, Live, Words
  <1>4. CASE ~Discard(t)
    <2>1. Kind(t) # "login"
      BY <1>1, <1>4 DEF Holds, Loaders, ProfileSaved, AgentKeyGenerated, AgentKeyImported,
         RegistrationSigned, ArtifactRead, GrantSigned, SubmissionAnswered, ChangeAnswered,
         AdminKeyRead, StatementSigned, ServeRegistration, ServeRevocation, ServeSubmission,
         ServeHide
    <2>2. UNCHANGED used
      BY <1>4 DEF ProfileSaved, AgentKeyGenerated, AgentKeyImported, RegistrationSigned,
         ArtifactRead, GrantSigned, SubmissionAnswered, ChangeAnswered, Fail, AdminKeyRead,
         StatementSigned, ServeRegistration, ServeRevocation, ServeSubmission, ServeHide
    <2>3. \/ tasks' = tasks \ {t}
          \/ \E n : n.id = t.id /\ tasks' = (tasks \ {t}) \cup {n}
      <3>1. CASE SubmissionAnswered(t) \/ ChangeAnswered(t)
        BY <3>1 DEF SubmissionAnswered, ChangeAnswered, Resume, AskWorkspace
      <3>2. CASE RegistrationSigned(t)
        BY <3>2 DEF RegistrationSigned, Resume
      <3>3. CASE \/ ServeRegistration(t) \/ ServeRevocation(t)
                 \/ ServeSubmission(t) \/ ServeHide(t)
        <4>1. PICK n : n = [t EXCEPT !.step = "posted"] /\ tasks' = (tasks \ {t}) \cup {n}
          BY <3>3 DEF ServeRegistration, ServeRevocation, ServeSubmission, ServeHide,
                      Answered, Resume
        <4>2. {"id", "step"} \subseteq DOMAIN t
          BY <1>1, <3>3 DEF Holds, Loaders, Has, ServeRegistration, ServeRevocation,
                            ServeSubmission, ServeHide
        <4>3. n.id = t.id
          BY <4>1, <4>2, StepTaken
        <4> QED
          BY <4>1, <4>3
      <3> QED
        BY <1>4, <3>1, <3>2, <3>3 DEF ProfileSaved, AgentKeyGenerated, AgentKeyImported,
           ArtifactRead, GrantSigned, Fail, AdminKeyRead, StatementSigned, Finish
    <2>4. \A u : Kind(u) = "login" => (u \in tasks' <=> u \in tasks)
      BY <2>1, <2>3 DEF Kind
    <2> QED
      BY <1>2, <2>2, <2>4, SignInStays DEF Words
  <1> QED
    BY <1>3, <1>4

\* A sign-in keeps its number, so the next one has another.
LEMMA NumbersKept ==
    ASSUME IInv, SignInsKnown, NEW t \in tasks, Continue(t) \/ Serve(t)
    PROVE  SignInsKnown'
  <1>1. Holds(t)
    BY DEF IInv, Holding
  <1>2. ASSUME NEW n, Kind(n) = "login", n \in tasks' \ tasks
        PROVE  n.id = t.id
    <2>1. CASE ServeWorkspace(t)
      BY <1>2, <2>1 DEF ServeWorkspace, Resume
    <2>2. CASE RegistrationSigned(t)
      BY <1>2, <2>2 DEF RegistrationSigned, Resume
    <2>3. CASE SubmissionAnswered(t) \/ ChangeAnswered(t) \/ LoginVerified(t)
      BY <1>2, <2>3 DEF SubmissionAnswered, ChangeAnswered, LoginVerified, Resume, AskWorkspace
    <2>4. CASE \/ LoginContinues(t) \/ ServeRegistration(t) \/ ServeRevocation(t)
               \/ ServeSubmission(t) \/ ServeHide(t)
      <3>1. \E s : n = [t EXCEPT !.step = s]
        BY <1>2, <2>4 DEF LoginContinues, ServeRegistration, ServeRevocation, ServeSubmission,
                          ServeHide, Answered, Resume
      <3>2. {"id", "step"} \subseteq DOMAIN t
        BY <1>1, <2>4 DEF Holds, Loaders, Has, LoginContinues, ServeRegistration,
                          ServeRevocation, ServeSubmission, ServeHide
      <3> QED
        BY <3>1, <3>2, StepTaken
    <2>5. CASE tasks' = tasks \ {t}
      BY <1>2, <2>5
    <2> QED
      BY <2>1, <2>2, <2>3, <2>4, <2>5 DEF Continue, Handle, Serve, LoadWorkspace, ProfileSaved,
         AgentKeyGenerated, AgentKeyImported, ArtifactRead, GrantSigned, Discard, Fail,
         AdminKeyRead, StatementSigned, Finish
  <1>3. ASSUME NEW n \in tasks', Kind(n) = "login"
        PROVE  n.id \in SignIns
    BY <1>2, <1>3 DEF SignInsKnown, Kind
  <1> QED
    BY <1>3 DEF SignInsKnown, SignIns, Kind

LEMMA PromisedStep ==
    ASSUME IInv, SignInsKnown, [Next]_vars
    PROVE  SignInsKnown' /\ [Promised!Next]_(Promised!session)
  <1> USE DEF Promised!Next
  <1>1. CASE UNCHANGED vars
    <2>1. SignInsKnown'
      BY <1>1 DEF vars, SignInsKnown, SignIns, Kind
    <2> QED
      BY <1>1, <2>1, SignInStays DEF vars, Words
  <1>2. ASSUME NEW k \in AdminKeys, ReplaceAdminKey(k)
        PROVE  SignInsKnown' /\ Promised!Next
    <2>1. SignInsKnown'
      BY <1>2 DEF ReplaceAdminKey, Start, SignInsKnown, SignIns, Kind, Id
    <2> QED
      BY <1>2, <2>1, AdminKeyMaps
  <1>3. CASE Login
    BY <1>3, LoginMaps
  <1>4. CASE User
    <2>1. CASE ~Login /\ ~\E k \in AdminKeys : ReplaceAdminKey(k)
      <3>1. /\ \A u : Kind(u) = "login" => (u \in tasks' <=> u \in tasks)
            /\ UNCHANGED Promised!session
        BY <1>4, <2>1, OtherClicks DEF User
      <3>2. SignInsKnown'
        BY <3>1 DEF SignInsKnown, SignIns, Kind
      <3> QED
        BY <3>1, <3>2
    <2> QED
      BY <1>2, <1>3, <2>1
  <1>5. ASSUME NEW t \in tasks, Continue(t) \/ Serve(t)
        PROVE  SignInsKnown' /\ (Promised!Next \/ UNCHANGED Promised!session)
    <2>1. SignInsKnown' /\ (Kind(t) = "login" => t.id \in SignIns)
      BY <1>5, NumbersKept DEF SignInsKnown
    <2>2. CASE LoginVerified(t)
      <3>1. Kind(t) = "login"
        BY <2>2 DEF LoginVerified, IInv, Holding, Holds, Loaders
      <3> QED
        BY <2>1, <2>2, <3>1, LoginVerifiedMaps
    <2>3. CASE LoadWorkspace(t)
      BY <2>1, <2>3, LoadWorkspaceMaps
    <2>4. CASE Fail(t) /\ Kind(t) = "login"
      BY <2>1, <2>4, FailMaps
    <2>5. CASE LoginContinues(t) \/ ServeWorkspace(t)
      BY <2>1, <2>5, LoginContinuesMaps, ServeWorkspaceMaps
    <2> QED
      BY <1>5, <2>1, <2>2, <2>3, <2>4, <2>5, OtherHandlers DEF Continue, Handle, Serve
  <1>6. ASSUME NEW d \in registered, Expire(d)
        PROVE  SignInsKnown' /\ UNCHANGED Promised!session
    <2>1. UNCHANGED <<page, tasks>> /\ Count("expire")
      BY <1>6 DEF Expire, Click
    <2>2. Words' = Words
      BY <2>1, WordsCounted DEF IInv, Controls
    <2>3. SignInsKnown'
      BY <2>1 DEF SignInsKnown, SignIns, Kind
    <2> QED
      BY <2>1, <2>2, <2>3, SignInStays
  <1> HIDE DEF Promised!Next
  <1> QED
    BY <1>1, <1>4, <1>5, <1>6 DEF Next

\* The page's session is what an API client promises: only the latest sign-in
\* completes, and only its own failure, or the user, ends what it brought.
THEOREM ConsoleImplements == Spec => ImplementsSession
  <1>1. Init => SignInsKnown /\ Promised!Init
    BY DEF Init, BlankPage, SignInsKnown, Promised!Init, SigningIn, Controls
  <1>2. IInv /\ SignInsKnown /\ [Next]_vars =>
          SignInsKnown' /\ [Promised!Next]_(Promised!session)
    BY PromisedStep
  <1> QED
    BY <1>1, <1>2, Inductive, PTL DEF Spec, ImplementsSession, Promised!Spec
=============================================================================
