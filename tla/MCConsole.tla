------------------------------ MODULE MCConsole ------------------------------
(***************************************************************************)
(* Bounded instances of Console.                                           *)
(***************************************************************************)
EXTENDS Console, TLC

CONSTANTS k1, k2, k3, a1, a2, a3, f1, f2

Clicks(f) == f @@ [c \in Controls |-> 0]

\* A console that has come as far as it can without a draft: signed in, an
\* agent generated and registered, an original chosen.  The user clicked
\* admin, login, generate, register and artifact, each answered in turn.
ReadyUsed ==
    Clicks([admin |-> 1, login |-> 1, generate |-> 1, register |-> 1, artifact |-> 1])

ReadyDelegation == [agent |-> a1, admin |-> k1, id |-> <<"register", 1>>]

ReadyPage ==
    RenderAgents(
        [BlankPage EXCEPT
            !.adminKey = [key |-> k1, id |-> <<"admin", 1>>],
            !.token = k1, !.workspace = k1,
            !.agents = {[delegation |-> ReadyDelegation, revoked |-> FALSE]},
            !.registration = [delegation |-> ReadyDelegation, id |-> <<"register", 1>>,
                                at |-> "workspace"],
            !.agentKey = [key |-> a1, id |-> <<"generate", 1>>],
            !.artifact = [file |-> f1, id |-> <<"artifact", 1>>],
            !.panels = TRUE, !.session = 2, !.draft = 5,
            !.adminRead = 1, !.artifactRead = 2])

ReadyInit ==
    /\ page = ReadyPage
    /\ tasks = {}
    /\ used = ReadyUsed
    /\ registered = {ReadyDelegation}
    /\ revoked = {} /\ expired = {} /\ issued = {} /\ hidden = {}

ReadySpec == ReadyInit /\ [][Next]_vars

More(f) == [c \in Controls |-> ReadyUsed[c] + f[c]]

\* Signing in, out and in again, with keys of both algorithms, and the agent
\* key that a new session forgets or keeps; originals chosen meanwhile; or a
\* whole visit, from the first key to a hidden certificate, an agent taken up or
\* revoked.
SignInLimits ==
    {Clicks([admin |-> 3, login |-> 2, profile |-> 1, generate |-> 1]),
     Clicks([admin |-> 1, login |-> 1, artifact |-> 3]),
     More(Clicks([statement |-> 1, grant |-> 1, visibility |-> 1, submit |-> 1, hide |-> 1])),
     More(Clicks([register |-> 1, use |-> 1])),
     More(Clicks([revoke |-> 1, expire |-> 1]))}

\* Two registrations of one agent key.
RegisterLimits ==
    {More(Clicks([register |-> 1, statement |-> 1, grant |-> 1]))}
==============================================================================
