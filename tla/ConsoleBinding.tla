---------------------------- MODULE ConsoleBinding ----------------------------
(***************************************************************************)
(* The ERC-8004 panel of the hosted console (web/apostille-page.mjs) next  *)
(* to the rest of the page.  Making a binding is one handler with seven    *)
(* awaits, three of them on the user's wallet; while it waits the user can *)
(* change the panel's inputs, sign in again or as somebody else, and the   *)
(* workspace can be loaded again.  A flow is such a handler, busy the      *)
(* panel's own flag against a second one.                                  *)
(***************************************************************************)
EXTENDS Console

CONSTANTS Identities,   \* registry and token id, as entered
          Owners,       \* wallet accounts
          MaxClicks     \* how often the panel's inputs and buttons are used

\* What the administrator and the wallet's owner sign; the nonce tells requests
\* apart.  A binding stands for the issuer's document over the signed request.
BindingRequests == [agent : Delegations, identity : Identities, owner : Owners, nonce : Nat]

ASSUME BindingAssumption ==
    /\ MaxClicks \in Nat
    /\ None \notin Identities \cup Owners

VARIABLES panel,    \* inputs, busy flag, revision, the record kept and the row shown
          flows,    \* handlers of the panel that wait
          bindings  \* the service's bindings

bindingVars == <<vars, panel, flows, bindings>>

(***************************************************************************)
(* The panel                                                               *)
(***************************************************************************)

\* config is None until the service has answered, then what it enables: its
\* profile list may leave out the one an agent's registration needs.
BlankPanel ==
    [config |-> None, options |-> {}, agent |-> None, identity |-> None,
     revision |-> 0, busy |-> FALSE, record |-> None, row |-> None]

\* selectedERC8004Agent: looked up among the agents, not the rendered options.
SelectedAgent(p) == {a \in page.agents : a.delegation = p.agent}

\* renderERC8004Agents.  The select keeps its value if that is still an option
\* and otherwise falls to an option of the browser's choice, the first one,
\* without a change event.
RenderERC8004Agents(p, agents) ==
    LET options == {a.delegation : a \in agents}
        values == IF p.agent \in options THEN {p.agent}
                  ELSE IF options = {} THEN {None} ELSE options
    IN  {[p EXCEPT !.options = options, !.agent = a] : a \in values}

\* A slip: an old revision stays good for the new inputs.
ChangedKeepsRevision(p) == [p EXCEPT !.record = None, !.row = None]

\* The change listener of the panel's three inputs.
Changed(p) == [p EXCEPT !.revision = @ + 1, !.record = None, !.row = None]

\* clearAuthenticatedState forgets the record and leaves its row in the
\* document, where hiding the panels hides it.
SessionCleared(p, times) == [p EXCEPT !.revision = @ + times, !.record = None]

\* The revision counts the page's sessions and what the user does here.
Usable ==
    /\ page.panels /\ panel.config # None
    /\ panel.revision - page.session < MaxClicks

\* The buttons as they were last updated: a delegation that has run out since
\* does not disable them.
CanCreate ==
    /\ Usable /\ ~panel.busy
    /\ page.token # None /\ page.adminKey # None
    /\ panel.config = "offered" /\ panel.identity # None
    /\ \E a \in SelectedAgent(panel) : ~a.revoked

CanLoad == Usable /\ ~panel.busy /\ page.token # None /\ SelectedAgent(panel) # {}

(***************************************************************************)
(* The rest of the page, and what it does to the panel                     *)
(***************************************************************************)

WorkspaceLoads ==
    /\ \E t \in tasks : LoadWorkspace(t)
    /\ panel' \in RenderERC8004Agents(panel, page'.agents)
    /\ UNCHANGED <<flows, bindings>>

PageSteps ==
    /\ \/ User
       \/ \E t \in tasks : Handle(t) \/ Serve(t)
       \/ \E d \in registered : Expire(d)
    /\ panel' = IF page'.session = page.session THEN panel
                ELSE SessionCleared(panel, page'.session - page.session)
    /\ UNCHANGED <<flows, bindings>>

(***************************************************************************)
(* Inputs and clicks                                                       *)
(***************************************************************************)

LoadERC8004Config ==
    /\ panel.config = None
    /\ \E c \in {"offered", "not offered"} :
         panel' \in RenderERC8004Agents([panel EXCEPT !.config = c], page.agents)
    /\ UNCHANGED <<vars, flows, bindings>>

SelectAgent(a) ==
    /\ Usable /\ a # panel.agent
    /\ panel' = [Changed(panel) EXCEPT !.agent = a]
    /\ UNCHANGED <<vars, flows, bindings>>

\* A network is selected or a token id typed: None is a token id out of range.
EnterIdentity(i) ==
    /\ Usable /\ i # panel.identity
    /\ panel' = [Changed(panel) EXCEPT !.identity = i]
    /\ UNCHANGED <<vars, flows, bindings>>

Flow(kind, step) ==
    [kind |-> kind, step |-> step, revision |-> panel.revision + 1,
     session |-> page.session, agent |-> panel.agent, admin |-> page.adminKey,
     token |-> None, owner |-> None, request |-> None, answer |-> None]

Begin(flow) ==
    /\ panel' = [panel EXCEPT !.revision = @ + 1, !.busy = TRUE]
    /\ flows' = flows \cup {flow}
    /\ UNCHANGED <<vars, bindings>>

CreateBinding ==
    /\ CanCreate /\ panel.agent \notin expired
    /\ Begin(Flow("create", "accounts"))

\* A slip: busy is set before the early return.
CreateExpiredStaysBusy ==
    /\ CanCreate /\ panel.agent \in expired
    /\ panel' = [panel EXCEPT !.revision = @ + 1, !.busy = TRUE]
    /\ UNCHANGED <<vars, flows, bindings>>

\* The handler returns early, with the revision spent.
CreateExpired ==
    /\ CanCreate /\ panel.agent \in expired
    /\ panel' = [panel EXCEPT !.revision = @ + 1]
    /\ UNCHANGED <<vars, flows, bindings>>

LoadBinding ==
    /\ CanLoad
    /\ Begin([Flow("load", "post") EXCEPT !.token = page.token])

(***************************************************************************)
(* The flows                                                               *)
(***************************************************************************)

Current(f) == f.revision = panel.revision /\ f.session = page.session

Proceed(f, next) ==
    /\ flows' = (flows \ {f}) \cup {next}
    /\ UNCHANGED <<vars, panel, bindings>>

AccountsAnswered(f) ==
    /\ f.step = "accounts" /\ Current(f)
    /\ \E o \in Owners : Proceed(f, [f EXCEPT !.step = "chain", !.owner = o])

\* The wallet is on the selected network.  The identity is read only now, and
\* createERC8004Request takes only the administrator's own registration.
ChainAnswered(f) ==
    /\ f.step = "chain" /\ Current(f)
    /\ f.admin.key = f.agent.admin
    /\ Proceed(f, [f EXCEPT !.step = "request",
                            !.request = [agent |-> f.agent, identity |-> panel.identity,
                                         owner |-> f.owner, nonce |-> f.revision]])

\* The signed request, then the text for the owner: each time the key, too,
\* must still be the administrator's.
RequestReady(f) ==
    /\ f.step \in {"request", "message"} /\ Current(f) /\ f.admin = page.adminKey
    /\ Proceed(f, [f EXCEPT !.step = IF @ = "request" THEN "message" ELSE "consent"])

OwnerSigned(f) ==
    /\ f.step = "consent" /\ Current(f)
    /\ Proceed(f, [f EXCEPT !.step = "post", !.token = page.token])

\* The service makes the binding of a live agent of the token's workspace, or
\* answers with the latest one; it may also answer with another it has.
ServeBinding(f) ==
    /\ f.step = "post"
    /\ IF f.kind = "create"
       THEN /\ f.agent.admin = f.token
            /\ f.agent \in registered \ (revoked \cup expired)
            /\ bindings' = bindings \cup {f.request}
       ELSE UNCHANGED bindings
    /\ \E b \in bindings' :
         flows' = (flows \ {f}) \cup {[f EXCEPT !.step = "answered", !.answer = b]}
    /\ UNCHANGED <<vars, panel>>

BindingAnswered(f) ==
    /\ f.step = "answered" /\ Current(f)
    /\ Proceed(f, [f EXCEPT !.step = "verify"])

AnswerBelongs(f) ==
    /\ f.answer.agent = f.agent
    /\ f.kind = "create" => f.answer = f.request

\* A slip: any verified answer is taken.
ShowAnyRecord(f) ==
    /\ f.step = "verify" /\ Current(f)
    /\ panel' = [panel EXCEPT !.busy = FALSE, !.record = f.answer, !.row = f.answer]
    /\ flows' = flows \ {f}
    /\ UNCHANGED <<vars, bindings>>

ShowRecord(f) ==
    /\ f.step = "verify" /\ Current(f) /\ AnswerBelongs(f)
    /\ panel' = [panel EXCEPT !.busy = FALSE, !.record = f.answer, !.row = f.answer]
    /\ flows' = flows \ {f}
    /\ UNCHANGED <<vars, bindings>>

\* The revision is gone, or anything failed: the finally clause frees the panel.
Stop(f) ==
    /\ panel' = [panel EXCEPT !.busy = FALSE]
    /\ flows' = flows \ {f}
    /\ UNCHANGED <<vars, bindings>>

(***************************************************************************)
(* The specification                                                       *)
(***************************************************************************)

BindingInit ==
    /\ Init
    /\ panel = BlankPanel
    /\ flows = {} /\ bindings = {}

PanelClick ==
    \/ LoadERC8004Config
    \/ \E a \in panel.options : SelectAgent(a)
    \/ \E i \in Identities \cup {None} : EnterIdentity(i)
    \/ CreateBinding
    \/ CreateExpired
    \/ LoadBinding

FlowStep(f) ==
    \/ AccountsAnswered(f)
    \/ ChainAnswered(f)
    \/ RequestReady(f)
    \/ OwnerSigned(f)
    \/ ServeBinding(f)
    \/ BindingAnswered(f)
    \/ ShowRecord(f)
    \/ Stop(f)

BindingNext ==
    \/ WorkspaceLoads
    \/ PageSteps
    \/ PanelClick
    \/ \E f \in flows : FlowStep(f)

BindingSpec == BindingInit /\ [][BindingNext]_bindingVars

(***************************************************************************)
(* Properties                                                              *)
(***************************************************************************)

\* The panel is busy exactly while one of its handlers waits: it never waits
\* for two, and no way out of a handler leaves it locked (erc8004Busy, the
\* early returns before it is set and the finally clauses).
BusyWhileFlow == Cardinality(flows) = IF panel.busy THEN 1 ELSE 0

\* A handler that goes on is still about what the page shows: its session, its
\* administrator, and the identity the wallet's owner is asked to consent to.
\* Anything that changes one of them retires the handler.  A retired handler's
\* request may still be under way: it went out with the token of its agent's
\* administrator, never with one that came later.
FlowOfPanel ==
    \A f \in flows :
        /\ Current(f) =>
             /\ page.adminKey = f.admin /\ page.token = f.agent.admin
             /\ f.request # None => f.request.identity = panel.identity
        /\ f.token # None => f.token = f.agent.admin

\* A record the page keeps is on show, is of an agent of the administrator
\* whose session it is, and was made by the service for what its request says.
RecordOfSession ==
    panel.record # None =>
        /\ panel.row = panel.record
        /\ panel.record.agent.admin = page.token
        /\ panel.record \in bindings

\* "Latest own private binding snapshot; other tenants receive 404": what the
\* panel shows to a signed-in administrator is the administrator's own.
RowOfSession ==
    page.panels /\ page.token # None /\ panel.row # None =>
        panel.row.agent.admin = page.token
==============================================================================
