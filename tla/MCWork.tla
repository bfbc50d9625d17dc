-------------------------------- MODULE MCWork --------------------------------
(***************************************************************************)
(* Bounded instances of ConsoleBinding: a signed-in console at work.       *)
(***************************************************************************)
EXTENDS ConsoleBinding, MCConsole

CONSTANTS i1, i2, o1

\* Drafting: originals and keys change while statements are being signed.
DraftLimit ==
    More(Clicks([artifact |-> 2, statement |-> 2, grant |-> 1, import |-> 1, admin |-> 1]))

\* Approving: statement, visibility and keys change while grants are being signed.
ApproveLimit ==
    More(Clicks([artifact |-> 1, statement |-> 1, grant |-> 2, visibility |-> 1,
                 import |-> 1, admin |-> 1]))

\* Issuing: submissions answered while a new draft is made and the agent is
\* revoked.
IssueLimit ==
    More(Clicks([statement |-> 2, grant |-> 2, submit |-> 2, revoke |-> 1]))

\* Publishing: a certificate made public and hidden, its delegation revoked or
\* run out meanwhile.
PublishLimit ==
    More(Clicks([statement |-> 1, grant |-> 2, submit |-> 1, hide |-> 1, visibility |-> 1,
                 revoke |-> 1, expire |-> 1]))

\* Agents: registering a second time, importing, taking up a listed agent.
AgentLimit ==
    More(Clicks([register |-> 1, generate |-> 1, import |-> 1, use |-> 1,
                 statement |-> 1, revoke |-> 1, expire |-> 1]))

\* The panel: signing in again or as the other administrator, an agent revoked
\* or run out meanwhile.
PanelLimits ==
    {Clicks([profile |-> 1, admin |-> 2, login |-> 2, revoke |-> 1]),
     Clicks([profile |-> 1, admin |-> 1, login |-> 2, revoke |-> 1, expire |-> 1])}

WorkLimits == {DraftLimit, ApproveLimit, IssueLimit, PublishLimit, AgentLimit} \cup PanelLimits

\* The first five start from the ready page, its panel not used any more.
ReadyToDraft ==
    /\ ReadyInit
    /\ panel \in RenderERC8004Agents([BlankPanel EXCEPT !.config = "offered",
                                                       !.revision = 2 + MaxClicks],
                                     page.agents)

\* Registered on earlier visits to the page.
Earlier(a, k, n) == [agent |-> a, admin |-> k, id |-> <<"register", n>>]
Own == {Earlier(a1, k1, 0), Earlier(a2, k1, 0)}
Others == {Earlier(a2, k2, 0)}

\* The others start when an administrator has signed in and saved the profile
\* and both agents are listed; the panel's configuration has not arrived yet.
SignedInPage ==
    RenderAgents(
        [BlankPage EXCEPT
            !.adminKey = [key |-> k1, id |-> <<"admin", 1>>],
            !.token = k1, !.workspace = k1,
            !.agents = {[delegation |-> d, revoked |-> FALSE] : d \in Own},
            !.panels = TRUE, !.session = 2, !.draft = 2,
            !.adminRead = 1, !.artifactRead = 1])

SignedIn ==
    /\ page = SignedInPage
    /\ tasks = {}
    /\ used = Clicks([admin |-> 1, login |-> 1, profile |-> 1])
    /\ registered = Own \cup Others
    /\ revoked = {} /\ expired = {} /\ issued = {} /\ hidden = {}
    /\ panel \in RenderERC8004Agents([BlankPanel EXCEPT !.revision = 2,
                                                       !.agent = Earlier(a1, k1, 0)],
                                     page.agents)

\* The other administrator has made a binding before.
NoFlows ==
    /\ flows = {}
    /\ bindings = {[agent |-> Earlier(a2, k2, 0), identity |-> i2, owner |-> o1, nonce |-> 0]}

WorkInit ==
    \/ ReadyToDraft /\ NoFlows
    \/ SignedIn /\ NoFlows

WorkSpec == WorkInit /\ [][BindingNext]_bindingVars

PanelSpec == SignedIn /\ NoFlows /\ [][BindingNext]_bindingVars
==============================================================================
