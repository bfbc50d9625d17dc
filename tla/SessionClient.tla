---------------------------- MODULE SessionClient ----------------------------
(***************************************************************************)
(* The session of the Go client (apostille/client/client.go): a token and  *)
(* a revision under one mutex, used by any number of goroutines.  One      *)
(* action per critical section; between two of them every other goroutine  *)
(* and the service may act.  The service and the network are external: an  *)
(* answer is computed at one moment and delivered at a later one, or never *)
(* and then the call times out.                                            *)
(*                                                                         *)
(* revision is a uint64; it cannot wrap while a call is in progress, so it *)
(* is a natural number here.  MaxRevision bounds it for model checking.    *)
(***************************************************************************)
EXTENDS Integers, FiniteSets

CONSTANTS Calls, Tokens, NoToken,
          Given,       \* tokens the application may pass to SetAccessToken
          AdminKeys,   \* administrator keys that log in
          MaxRevision

ASSUME ClientAssumption ==
    /\ NoToken \notin Tokens
    /\ Given \subseteq Tokens
    /\ MaxRevision \in Nat \ {0}

VARIABLES
    token, revision,  \* the client's session
    call,             \* what each goroutine is doing
    asked,            \* ghost: what the application last asked for, and when
    issued,           \* service: who each token was issued for, and in which login
    valid             \* service: tokens it still honours

vars   == <<token, revision, call, asked, issued, valid>>
client == <<token, revision, call, asked>>

Idle     == [pc |-> "idle"]
NoAnswer == [kind |-> "none"]

\* A login in progress, with the revision and the key it began with.
Login(pc, r, key, answer) ==
    [pc |-> pc, revision |-> r, key |-> key, answer |-> answer]
\* An authenticated request in progress, with the session snapshot it carries.
Request(r, t, answer) ==
    [pc |-> "request", revision |-> r, token |-> t, answer |-> answer]

Unissued == Tokens \ (Given \cup DOMAIN issued)

Init ==
    /\ token \in Given \cup {NoToken}  \* Config.AccessToken
    /\ revision = IF token = NoToken THEN 0 ELSE 1
    /\ call = [c \in Calls |-> Idle]
    /\ asked = [what |-> "token", token |-> token, revision |-> revision]
    /\ issued = [t \in {} |-> NoAnswer]
    /\ valid \in SUBSET Given

\* Mutant: the revision stays, so what is in progress still counts.
SetAccessTokenSameRevision(t) ==
    /\ t \in Given
    /\ token' = t
    /\ asked' = [what |-> "token", token |-> t, revision |-> revision]
    /\ UNCHANGED <<revision, call, issued, valid>>

SetAccessToken(t) ==
    /\ t \in Given
    /\ revision < MaxRevision
    /\ revision' = revision + 1
    /\ token' = t
    /\ asked' = [what |-> "token", token |-> t, revision |-> revision + 1]
    /\ UNCHANGED <<call, issued, valid>>

ClearSession ==
    /\ revision < MaxRevision
    /\ revision' = revision + 1
    /\ token' = NoToken
    /\ asked' = [what |-> "token", token |-> NoToken, revision |-> revision + 1]
    /\ UNCHANGED <<call, issued, valid>>

-----------------------------------------------------------------------------
(* request() with authenticated = true; the other errors of a call (network, *)
(* timeout, size, JSON) end it in GiveUp.                                  *)

SendRequest(c) ==
    /\ call[c].pc = "idle"
    /\ token # NoToken
    /\ call' = [call EXCEPT ![c] = Request(revision, token, NoAnswer)]
    /\ UNCHANGED <<token, revision, asked, issued, valid>>

\* Service: a request is refused with 401 iff its token is not honoured now.
AnswerRequest(c) ==
    /\ call[c].pc = "request"
    /\ call[c].answer = NoAnswer
    /\ call' = [call EXCEPT ![c].answer =
                   [kind |-> IF call[c].token \in valid THEN "ok" ELSE "unauthorized"]]
    /\ UNCHANGED <<token, revision, asked, issued, valid>>

\* Mutant: any refused request clears the session.
ReceiveAlwaysClears(c) ==
    /\ call[c].pc = "request"
    /\ call[c].answer # NoAnswer
    /\ IF call[c].answer.kind = "unauthorized"
       THEN /\ revision < MaxRevision
            /\ token' = NoToken
            /\ revision' = revision + 1
       ELSE UNCHANGED <<token, revision>>
    /\ call' = [call EXCEPT ![c] = Idle]
    /\ UNCHANGED <<asked, issued, valid>>

\* A 401 clears the session only if the revision has not moved since.
Receive(c) ==
    /\ call[c].pc = "request"
    /\ call[c].answer # NoAnswer
    /\ IF call[c].answer.kind = "unauthorized" /\ call[c].revision = revision
       THEN /\ revision < MaxRevision
            /\ token' = NoToken
            /\ revision' = revision + 1
       ELSE UNCHANGED <<token, revision>>
    /\ call' = [call EXCEPT ![c] = Idle]
    /\ UNCHANGED <<asked, issued, valid>>

-----------------------------------------------------------------------------
(* Login *)

BeginLogin(c, key) ==
    /\ call[c].pc = "idle"
    /\ revision < MaxRevision
    /\ token' = NoToken
    /\ revision' = revision + 1
    /\ call' = [call EXCEPT ![c] = Login("challenge", revision + 1, key, NoAnswer)]
    /\ asked' = [what |-> "login", key |-> key, revision |-> revision + 1]
    /\ UNCHANGED <<issued, valid>>

\* The challenge has arrived and is for this key: the revision is compared.
CheckChallenge(c) ==
    /\ call[c].pc = "challenge"
    /\ call' = [call EXCEPT ![c] =
                   IF call[c].revision = revision
                   THEN [call[c] EXCEPT !.pc = "signing"] ELSE Idle]
    /\ UNCHANGED <<token, revision, asked, issued, valid>>

\* The challenge is signed and POST /auth/verify sent, with no lock held.
SendProof(c) ==
    /\ call[c].pc = "signing"
    /\ call' = [call EXCEPT ![c].pc = "verify"]
    /\ UNCHANGED <<token, revision, asked, issued, valid>>

\* Service: a new token, normally for the key that signed the challenge.
AnswerVerify(c, t, key) ==
    /\ call[c].pc = "verify"
    /\ call[c].answer = NoAnswer
    /\ t \in Unissued
    /\ call' = [call EXCEPT ![c].answer = [kind |-> "session", token |-> t, key |-> key]]
    /\ issued' = [x \in DOMAIN issued \cup {t} |->
                     IF x = t THEN [key |-> key, revision |-> call[c].revision] ELSE issued[x]]
    /\ valid' = valid \cup {t}
    /\ UNCHANGED <<token, revision, asked>>

\* Mutant: the revision is compared before the request only.
FinishLoginUnchecked(c) ==
    /\ call[c].pc = "verify"
    /\ call[c].answer # NoAnswer
    /\ IF call[c].answer.key = call[c].key
       THEN /\ revision < MaxRevision
            /\ token' = call[c].answer.token
            /\ revision' = revision + 1
       ELSE UNCHANGED <<token, revision>>
    /\ call' = [call EXCEPT ![c] = Idle]
    /\ UNCHANGED <<asked, issued, valid>>

\* The session is taken if it is the signer's and the revision has not moved.
FinishLogin(c) ==
    /\ call[c].pc = "verify"
    /\ call[c].answer # NoAnswer
    /\ IF call[c].answer.key = call[c].key /\ call[c].revision = revision
       THEN /\ revision < MaxRevision
            /\ token' = call[c].answer.token
            /\ revision' = revision + 1
       ELSE UNCHANGED <<token, revision>>
    /\ call' = [call EXCEPT ![c] = Idle]
    /\ UNCHANGED <<asked, issued, valid>>

\* A call fails before its answer has been looked at.
GiveUp(c) ==
    /\ call[c].pc # "idle"
    /\ call' = [call EXCEPT ![c] = Idle]
    /\ UNCHANGED <<token, revision, asked, issued, valid>>

\* Service: a session expires or is revoked.
Revoke(t) ==
    /\ t \in valid
    /\ valid' = valid \ {t}
    /\ UNCHANGED <<client, issued>>

Next ==
    \/ ClearSession
    \/ \E t \in Tokens : SetAccessToken(t) \/ Revoke(t)
    \/ \E c \in Calls :
        \/ SendRequest(c) \/ AnswerRequest(c) \/ Receive(c)
        \/ CheckChallenge(c) \/ SendProof(c) \/ FinishLogin(c) \/ GiveUp(c)
        \/ \E key \in AdminKeys :
            \/ BeginLogin(c, key)
            \/ \E t \in Tokens : AnswerVerify(c, t, key)

Spec == Init /\ [][Next]_vars

-----------------------------------------------------------------------------

Logins   == {c \in Calls : call[c].pc \in {"challenge", "signing", "verify"}}
Requests == {c \in Calls : call[c].pc = "request"}

LoginAnswers ==
    {NoAnswer} \cup [kind : {"session"}, token : Tokens, key : AdminKeys]
RequestAnswers == {NoAnswer} \cup [kind : {"ok", "unauthorized"}]

Calling ==
    {Idle}
    \cup [pc : {"challenge", "signing", "verify"}, revision : 0..MaxRevision,
          key : AdminKeys, answer : LoginAnswers]
    \cup [pc : {"request"}, revision : 0..MaxRevision, token : Tokens,
          answer : RequestAnswers]

\* client.go keeps only a number; what it means is the abstract session: the
\* calls whose revision is still current.  No answer that arrives late, and no
\* interleaving of logins, moves the session in another way.
Abstract == INSTANCE Session WITH
    login    <- {c \in Logins : call[c].revision = revision},
    requests <- {c \in Requests : call[c].revision = revision},
    said     <- asked.revision

ImplementsSession == Abstract!Spec

\* Type invariant.  A call never carries a revision ahead of the client's, and
\* the calls of the current revision are as the abstract session says: one
\* login at most, and then no token.
TypeOK ==
    /\ token \in Tokens \cup {NoToken}
    /\ revision \in 0..MaxRevision
    /\ call \in [Calls -> Calling]
    /\ \A c \in Logins \cup Requests : call[c].revision <= revision
    /\ DOMAIN issued \subseteq Tokens \ Given
    /\ valid \subseteq Given \cup DOMAIN issued
    /\ Abstract!TypeOK

\* The session always answers the application's latest word: after SetAccessToken
\* it is that token or none, after ClearSession none, after a Login none or the
\* token that the service issued in that very login, for that login's key.
LatestWordStands ==
    token # NoToken =>
        \/ asked.what = "token" /\ token = asked.token
        \/ /\ asked.what = "login"
           /\ token \in DOMAIN issued
           /\ issued[token] = [key |-> asked.key, revision |-> asked.revision]

\* A session the service still honours ends only when the application says so:
\* a 401 for an earlier token never takes a newer one with it.
HonouredSessionKept ==
    [][(token \in valid /\ token' = NoToken) =>
          (ClearSession \/ (\E c \in Calls, key \in AdminKeys : BeginLogin(c, key)))]_vars
=============================================================================
