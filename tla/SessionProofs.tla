---------------------------- MODULE SessionProofs ----------------------------
(***************************************************************************)
(* Theorems about SessionClient, for any number of goroutines, keys and    *)
(* tokens: the revision number implements the abstract session.  At the    *)
(* end, the JavaScript SDK does nothing that the Go client may not do, so  *)
(* what is shown of the one holds of the other.                            *)
(***************************************************************************)
EXTENDS SessionClientJS, TLAPS

Typed ==
    /\ token \in Tokens \cup {NoToken}
    /\ revision \in 0..MaxRevision
    /\ call \in [Calls -> Calling]
    /\ DOMAIN issued \subseteq Tokens \ Given
    /\ valid \subseteq Given \cup DOMAIN issued

\* Nothing is in progress from the future.
Behind == \A c \in Logins \cup Requests : call[c].revision <= revision

\* A revision belongs to at most one login, and while it is current the
\* session is empty and that login is what the application last asked for.
OneLogin ==
    /\ \A c, d \in Logins : call[c].revision = call[d].revision => c = d
    /\ \A c \in Logins : call[c].revision = revision =>
          /\ token = NoToken
          /\ asked = [what |-> "login", key |-> call[c].key, revision |-> revision]

\* The token in an answer was issued in that login.
Answered ==
    \A c \in Logins : call[c].answer # NoAnswer =>
        LET a == call[c].answer IN
        /\ a.token \in DOMAIN issued
        /\ issued[a.token] = [key |-> a.key, revision |-> call[c].revision]

\* A request of the current revision carries the current token, and a refused
\* token is never honoured again.
Carried ==
    /\ token \in Given \cup DOMAIN issued \cup {NoToken}
    /\ \A c \in Requests :
        /\ call[c].revision = revision => call[c].token = token
        /\ call[c].token \in Given \cup DOMAIN issued
        /\ call[c].answer.kind = "unauthorized" => call[c].token \notin valid

IInv == Typed /\ Behind /\ OneLogin /\ Answered /\ Carried /\ LatestWordStands

\* The two shapes of a call.
LEMMA Shapes ==
    ASSUME Typed, NEW c \in Calls
    PROVE  /\ call[c].pc = "idle" => call[c] = Idle
           /\ c \in Logins => /\ call[c].revision \in 0..MaxRevision
                              /\ call[c].key \in AdminKeys
                              /\ call[c].answer \in LoginAnswers
           /\ c \in Requests => /\ call[c].revision \in 0..MaxRevision
                                /\ call[c].token \in Tokens
                                /\ call[c].answer \in RequestAnswers
  BY DEF Typed, Calling, Logins, Requests, Idle

\* The inductive invariant holds of a new client, with or without a token.
THEOREM InitIInv == Init => IInv
  <1> SUFFICES ASSUME Init PROVE IInv
    OBVIOUS
  <1>1. Logins = {} /\ Requests = {}
    BY DEF Init, Logins, Requests, Idle
  <1>2. Typed
    <2>1. Idle \in Calling
      BY DEF Calling
    <2>2. QED
      BY <2>1, ClientAssumption DEF Init, Typed
  <1>3. LatestWordStands
    BY DEF Init, LatestWordStands
  <1>4. QED
    BY <1>1, <1>2, <1>3, ClientAssumption
       DEF IInv, Init, Behind, OneLogin, Answered, Carried

-----------------------------------------------------------------------------
(* The steps preserve IInv, one lemma per action.                          *)

LEMMA NewWord ==
    ASSUME IInv, NEW t \in Given \cup {NoToken},
           revision < MaxRevision, revision' = revision + 1, token' = t,
           asked' = [what |-> "token", token |-> t, revision |-> revision + 1],
           UNCHANGED <<call, issued, valid>>
    PROVE  IInv'
  <1>1. Typed'
    BY ClientAssumption DEF IInv, Typed
  <1>2. Logins' = Logins /\ Requests' = Requests
    BY DEF Logins, Requests
  <1>3. revision \in Nat /\ \A c \in Logins \cup Requests : call[c].revision \in Nat
    BY Shapes, ClientAssumption DEF IInv, Typed, Logins, Requests
  <1>4. \A c \in Logins \cup Requests : call[c].revision # revision'
    BY <1>3 DEF IInv, Behind
  <1>5. Behind'
    BY <1>2, <1>3 DEF IInv, Behind
  <1>6. OneLogin' /\ Answered'
    BY <1>2, <1>4 DEF IInv, OneLogin, Answered
  <1>7. Carried'
    BY <1>2, <1>4 DEF IInv, Carried
  <1>8. LatestWordStands'
    BY DEF LatestWordStands
  <1>9. QED
    BY <1>1, <1>5, <1>6, <1>7, <1>8 DEF IInv

LEMMA SendStep ==
    ASSUME IInv, NEW c \in Calls, SendRequest(c)
    PROVE  IInv'
  <1> DEFINE new == Request(revision, token, NoAnswer)
  <1>1. /\ token # NoToken /\ token \in Tokens
        /\ call' = [call EXCEPT ![c] = new]
        /\ UNCHANGED <<token, revision, asked, issued, valid>>
    BY DEF SendRequest, IInv, Typed
  <1>2. /\ new.pc = "request" /\ new.revision = revision
        /\ new.token = token /\ new.answer = NoAnswer
        /\ new \in Calling
    BY <1>1 DEF Request, Calling, RequestAnswers, IInv, Typed
  <1> HIDE DEF new
  <1>3. Typed' /\ \A x \in Calls : call'[x] = IF x = c THEN new ELSE call[x]
    BY <1>1, <1>2 DEF IInv, Typed
  <1>4. Logins' = Logins \ {c} /\ Requests' = Requests \cup {c}
    BY <1>2, <1>3 DEF Logins, Requests
  <1>5. Logins \subseteq Calls /\ Requests \subseteq Calls
    BY DEF Logins, Requests
  <1>6. Behind'
    BY <1>1, <1>2, <1>3, <1>4, <1>5, ClientAssumption DEF IInv, Behind, Typed
  <1>7. OneLogin' /\ Answered'
    BY <1>1, <1>2, <1>3, <1>4, <1>5 DEF IInv, OneLogin, Answered
  <1>8. Carried'
    BY <1>1, <1>2, <1>3, <1>4, <1>5 DEF IInv, Carried, NoAnswer
  <1>9. LatestWordStands'
    BY <1>1 DEF IInv, LatestWordStands
  <1>10. QED
    BY <1>3, <1>6, <1>7, <1>8, <1>9 DEF IInv

\* A call ends and nothing else happens.
LEMMA EndStep ==
    ASSUME IInv, NEW c \in Calls, call' = [call EXCEPT ![c] = Idle],
           UNCHANGED <<token, revision, asked, issued, valid>>
    PROVE  IInv'
  <1>1. Idle \in Calling /\ Idle.pc = "idle"
    BY DEF Calling, Idle
  <1>2. Typed' /\ \A x \in Calls : call'[x] = IF x = c THEN Idle ELSE call[x]
    BY <1>1 DEF IInv, Typed
  <1>3. Logins' = Logins \ {c} /\ Requests' = Requests \ {c}
    BY <1>1, <1>2 DEF Logins, Requests
  <1>4. Logins \subseteq Calls /\ Requests \subseteq Calls
    BY DEF Logins, Requests
  <1>5. Behind' /\ OneLogin' /\ Answered' /\ Carried'
    BY <1>2, <1>3, <1>4 DEF IInv, Behind, OneLogin, Answered, Carried
  <1>6. QED
    BY <1>2, <1>5 DEF IInv, LatestWordStands

LEMMA AnswerStep ==
    ASSUME IInv, NEW c \in Calls, AnswerRequest(c)
    PROVE  IInv'
  <1> DEFINE a   == [kind |-> IF call[c].token \in valid THEN "ok" ELSE "unauthorized"]
             new == [call[c] EXCEPT !.answer = a]
  <1>1. /\ c \in Requests /\ c \notin Logins
        /\ call' = [call EXCEPT ![c] = new]
        /\ UNCHANGED <<token, revision, asked, issued, valid>>
    BY DEF AnswerRequest, Requests, Logins
  <1>2. /\ call[c] \in [pc : {"request"}, revision : 0..MaxRevision, token : Tokens,
                        answer : RequestAnswers]
        /\ a \in RequestAnswers
    BY <1>1 DEF IInv, Typed, Calling, Requests, Idle, RequestAnswers
  <1>3. /\ new \in Calling
        /\ new.pc = "request"
        /\ new.revision = call[c].revision
        /\ new.token = call[c].token
        /\ new.answer = a
    BY <1>2 DEF Calling
  <1>4. a.kind = "unauthorized" => call[c].token \notin valid
    OBVIOUS
  <1> HIDE DEF a, new
  <1>5. Typed' /\ \A x \in Calls : call'[x] = IF x = c THEN new ELSE call[x]
    BY <1>1, <1>3 DEF IInv, Typed
  <1>6. Logins' = Logins /\ Requests' = Requests
    BY <1>1, <1>3, <1>5 DEF Logins, Requests
  <1>7. Logins \subseteq Calls /\ Requests \subseteq Calls
    BY DEF Logins, Requests
  <1>8. Behind' /\ OneLogin' /\ Answered'
    BY <1>1, <1>3, <1>5, <1>6, <1>7 DEF IInv, Behind, OneLogin, Answered
  <1>9. Carried'
    BY <1>1, <1>3, <1>4, <1>5, <1>6, <1>7 DEF IInv, Carried
  <1>10. QED
    BY <1>1, <1>5, <1>8, <1>9 DEF IInv, LatestWordStands

\* A call ends and with it the revision, and the session becomes t: what both
\* a refused request and a completed login do.
LEMMA EndWithRevision ==
    ASSUME IInv, NEW c \in Calls, NEW t \in Given \cup DOMAIN issued \cup {NoToken},
           revision < MaxRevision, revision' = revision + 1, token' = t,
           call' = [call EXCEPT ![c] = Idle],
           UNCHANGED <<asked, issued, valid>>
    PROVE  Typed' /\ Behind' /\ OneLogin' /\ Answered' /\ Carried'
  <1>1. Idle \in Calling /\ Idle.pc = "idle"
    BY DEF Calling, Idle
  <1>2. Typed' /\ \A x \in Calls : call'[x] = IF x = c THEN Idle ELSE call[x]
    BY <1>1, ClientAssumption DEF IInv, Typed
  <1>3. Logins' = Logins \ {c} /\ Requests' = Requests \ {c}
    BY <1>1, <1>2 DEF Logins, Requests
  <1>4. Logins \subseteq Calls /\ Requests \subseteq Calls
    BY DEF Logins, Requests
  <1>5. revision \in Nat /\ \A x \in Logins \cup Requests : call[x].revision \in Nat
    BY Shapes, ClientAssumption DEF IInv, Typed, Logins, Requests
  <1>6. \A x \in Logins \cup Requests : call[x].revision # revision'
    BY <1>5 DEF IInv, Behind
  <1>7. Behind'
    BY <1>2, <1>3, <1>4, <1>5 DEF IInv, Behind
  <1>8. OneLogin' /\ Answered' /\ Carried'
    BY <1>2, <1>3, <1>4, <1>6 DEF IInv, OneLogin, Answered, Carried
  <1>9. QED
    BY <1>2, <1>7, <1>8

LEMMA ReceiveStep ==
    ASSUME IInv, NEW c \in Calls, Receive(c)
    PROVE  IInv'
  <1>1. CASE call[c].answer.kind = "unauthorized" /\ call[c].revision = revision
    <2>1. Typed' /\ Behind' /\ OneLogin' /\ Answered' /\ Carried'
      BY <1>1, EndWithRevision DEF Receive
    <2>2. LatestWordStands'
      BY <1>1 DEF Receive, LatestWordStands
    <2>3. QED
      BY <2>1, <2>2 DEF IInv
  <1>2. CASE ~(call[c].answer.kind = "unauthorized" /\ call[c].revision = revision)
    BY <1>2, EndStep DEF Receive
  <1>3. QED
    BY <1>1, <1>2

LEMMA FinishStep ==
    ASSUME IInv, NEW c \in Calls, FinishLogin(c)
    PROVE  IInv'
  <1> DEFINE a == call[c].answer
  <1>1. CASE a.key = call[c].key /\ call[c].revision = revision
    <2>1. c \in Logins /\ a # NoAnswer
      BY DEF FinishLogin, Logins
    <2>2. /\ a.token \in DOMAIN issued
          /\ issued[a.token] = [key |-> call[c].key, revision |-> revision]
          /\ asked = [what |-> "login", key |-> call[c].key, revision |-> revision]
      BY <1>1, <2>1 DEF IInv, Answered, OneLogin
    <2>3. Typed' /\ Behind' /\ OneLogin' /\ Answered' /\ Carried'
      BY <1>1, <2>2, EndWithRevision DEF FinishLogin
    <2>4. LatestWordStands'
      BY <1>1, <2>2 DEF FinishLogin, LatestWordStands
    <2>5. QED
      BY <2>3, <2>4 DEF IInv
  <1>2. CASE ~(a.key = call[c].key /\ call[c].revision = revision)
    BY <1>2, EndStep DEF FinishLogin
  <1>3. QED
    BY <1>1, <1>2

LEMMA BeginStep ==
    ASSUME IInv, NEW c \in Calls, NEW key \in AdminKeys, BeginLogin(c, key)
    PROVE  IInv'
  <1> DEFINE new == Login("challenge", revision + 1, key, NoAnswer)
  <1>1. /\ revision < MaxRevision
        /\ revision' = revision + 1
        /\ token' = NoToken
        /\ call' = [call EXCEPT ![c] = new]
        /\ asked' = [what |-> "login", key |-> key, revision |-> revision + 1]
        /\ UNCHANGED <<issued, valid>>
    BY DEF BeginLogin
  <1>2. revision \in Nat /\ revision' \in 0..MaxRevision
    BY <1>1, ClientAssumption DEF IInv, Typed
  <1>3. /\ new.pc = "challenge"
        /\ new.revision = revision'
        /\ new.key = key
        /\ new.answer = NoAnswer
    BY <1>1 DEF Login
  <1>4. new \in Calling
    BY <1>1, <1>2 DEF Login, Calling, LoginAnswers
  <1> HIDE DEF new
  <1>5. Typed' /\ \A x \in Calls : call'[x] = IF x = c THEN new ELSE call[x]
    BY <1>1, <1>2, <1>4 DEF IInv, Typed
  <1>6. Logins' = Logins \cup {c} /\ Requests' = Requests \ {c}
    BY <1>3, <1>5 DEF Logins, Requests
  <1>7. Logins \subseteq Calls /\ Requests \subseteq Calls
    BY DEF Logins, Requests
  <1>8. \A x \in Logins \cup Requests : call[x].revision \in Nat
    BY <1>7, Shapes DEF IInv
  <1>9. \A x \in Logins \cup Requests : call[x].revision # revision'
    BY <1>1, <1>2, <1>8 DEF IInv, Behind
  <1>10. Behind'
    BY <1>1, <1>2, <1>3, <1>5, <1>6, <1>7, <1>8 DEF IInv, Behind
  <1>11. OneLogin'
    BY <1>1, <1>3, <1>5, <1>6, <1>7, <1>9 DEF IInv, OneLogin
  <1>12. Answered' /\ Carried'
    BY <1>1, <1>3, <1>5, <1>6, <1>7, <1>9 DEF IInv, Answered, Carried
  <1>13. LatestWordStands'
    BY <1>1 DEF LatestWordStands
  <1>14. QED
    BY <1>5, <1>10, <1>11, <1>12, <1>13 DEF IInv

\* A login moves on with the same revision, key and answer.
LEMMA AdvanceStep ==
    ASSUME IInv, NEW c \in Logins, NEW pc \in {"signing", "verify"},
           call' = [call EXCEPT ![c] = [call[c] EXCEPT !.pc = pc]],
           UNCHANGED <<token, revision, asked, issued, valid>>
    PROVE  IInv'
  <1> DEFINE new == [call[c] EXCEPT !.pc = pc]
  <1>1. c \in Calls /\ c \notin Requests
    BY DEF Logins, Requests
  <1>2. call[c] \in [pc : {"challenge", "signing", "verify"}, revision : 0..MaxRevision,
                     key : AdminKeys, answer : LoginAnswers]
    BY <1>1 DEF IInv, Typed, Calling, Logins, Idle
  <1>3. /\ new \in Calling
        /\ new.pc = pc
        /\ new.revision = call[c].revision
        /\ new.key = call[c].key
        /\ new.answer = call[c].answer
    BY <1>2 DEF Calling
  <1> HIDE DEF new
  <1>4. Typed' /\ \A x \in Calls : call'[x] = IF x = c THEN new ELSE call[x]
    BY <1>1, <1>3 DEF IInv, Typed, new
  <1>5. Logins' = Logins /\ Requests' = Requests
    BY <1>1, <1>3, <1>4 DEF Logins, Requests
  <1>6. Logins \subseteq Calls /\ Requests \subseteq Calls
    BY DEF Logins, Requests
  <1>7. Behind' /\ OneLogin' /\ Answered' /\ Carried'
    BY <1>1, <1>3, <1>4, <1>5, <1>6 DEF IInv, Behind, OneLogin, Answered, Carried
  <1>8. QED
    BY <1>4, <1>7 DEF IInv, LatestWordStands

LEMMA CheckStep ==
    ASSUME IInv, NEW c \in Calls, CheckChallenge(c)
    PROVE  IInv'
  <1>1. CASE call[c].revision = revision
    BY <1>1, AdvanceStep DEF CheckChallenge, Logins
  <1>2. CASE call[c].revision # revision
    BY <1>2, EndStep DEF CheckChallenge
  <1>3. QED
    BY <1>1, <1>2

LEMMA ProofStep ==
    ASSUME IInv, NEW c \in Calls, SendProof(c)
    PROVE  IInv'
  BY AdvanceStep DEF SendProof, Logins

LEMMA VerifyStep ==
    ASSUME IInv, NEW c \in Calls, NEW t \in Tokens, NEW key \in AdminKeys,
           AnswerVerify(c, t, key)
    PROVE  IInv'
  <1> DEFINE a   == [kind |-> "session", token |-> t, key |-> key]
             new == [call[c] EXCEPT !.answer = a]
             r   == [key |-> key, revision |-> call[c].revision]
  <1>1. /\ c \in Logins /\ c \notin Requests
        /\ t \in Tokens \ (Given \cup DOMAIN issued)
        /\ call' = [call EXCEPT ![c] = new]
        /\ issued' = [x \in DOMAIN issued \cup {t} |-> IF x = t THEN r ELSE issued[x]]
        /\ valid' = valid \cup {t}
        /\ UNCHANGED <<token, revision, asked>>
    BY DEF AnswerVerify, Logins, Requests, Unissued
  <1>2. call[c] \in [pc : {"challenge", "signing", "verify"}, revision : 0..MaxRevision,
                     key : AdminKeys, answer : LoginAnswers]
    BY <1>1 DEF IInv, Typed, Calling, Logins, Idle
  <1>3. a \in LoginAnswers /\ a.token = t /\ a.key = key
    BY DEF LoginAnswers
  <1>4. /\ new \in Calling
        /\ new.pc = call[c].pc
        /\ new.revision = call[c].revision
        /\ new.key = call[c].key
        /\ new.answer = a
    BY <1>2, <1>3 DEF Calling
  <1>5. /\ DOMAIN issued' = DOMAIN issued \cup {t}
        /\ issued'[t] = r
        /\ \A x \in DOMAIN issued : issued'[x] = issued[x]
    BY <1>1
  <1> HIDE DEF a, new
  <1>6. Typed' /\ \A x \in Calls : call'[x] = IF x = c THEN new ELSE call[x]
    BY <1>1, <1>4, <1>5 DEF IInv, Typed
  <1>7. Logins' = Logins /\ Requests' = Requests
    BY <1>1, <1>4, <1>6 DEF Logins, Requests
  <1>8. Logins \subseteq Calls /\ Requests \subseteq Calls
    BY DEF Logins, Requests
  <1>9. Behind' /\ OneLogin'
    BY <1>1, <1>4, <1>6, <1>7, <1>8 DEF IInv, Behind, OneLogin
  <1>10. Answered'
    BY <1>1, <1>3, <1>4, <1>5, <1>6, <1>7, <1>8 DEF IInv, Answered
  <1>11. Carried'
    BY <1>1, <1>5, <1>6, <1>7, <1>8 DEF IInv, Carried
  <1>12. LatestWordStands'
    BY <1>1, <1>5 DEF IInv, LatestWordStands
  <1>13. QED
    BY <1>6, <1>9, <1>10, <1>11, <1>12 DEF IInv

LEMMA RevokeStep ==
    ASSUME IInv, NEW t, Revoke(t)
    PROVE  IInv'
  BY DEF Revoke, client, IInv, Typed, Behind, OneLogin, Answered, Carried,
         LatestWordStands, Logins, Requests

LEMMA StepIInv == IInv /\ [Next]_vars => IInv'
  <1> SUFFICES ASSUME IInv, [Next]_vars PROVE IInv'
    OBVIOUS
  <1>1. CASE UNCHANGED vars
    BY <1>1 DEF vars, IInv, Typed, Behind, OneLogin, Answered, Carried,
                LatestWordStands, Logins, Requests
  <1>2. CASE ClearSession
    BY <1>2, NewWord DEF ClearSession
  <1>3. ASSUME NEW t \in Tokens, SetAccessToken(t)
        PROVE  IInv'
    BY <1>3, NewWord DEF SetAccessToken
  <1>4. ASSUME NEW c \in Calls, GiveUp(c)
        PROVE  IInv'
    BY <1>4, EndStep DEF GiveUp
  <1>5. QED
    BY <1>1, <1>2, <1>3, <1>4, RevokeStep, SendStep, AnswerStep, ReceiveStep, CheckStep,
       ProofStep, FinishStep, BeginStep, VerifyStep DEF Next

\* What the waiting calls know of the client's revision, in every state.
THEOREM IInvAlways == Spec => []IInv
  BY InitIInv, StepIInv, PTL DEF Spec

\* The application has not yet spoken of a revision to come.
Spoken == asked.revision \in Nat /\ asked.revision <= revision

LEMMA StepSpoken == IInv /\ Spoken /\ [Next]_vars => Spoken'
  <1> SUFFICES ASSUME IInv, Spoken, [Next]_vars PROVE Spoken'
    OBVIOUS
  <1>1. revision \in Nat
    BY ClientAssumption DEF IInv, Typed
  <1>2. \/ revision' \in {revision, revision + 1} /\ UNCHANGED asked
        \/ revision' = revision + 1 /\ asked'.revision = revision + 1
    <2>1. CASE UNCHANGED vars
      BY <2>1 DEF vars
    <2>2. CASE ClearSession \/ \E t \in Tokens : SetAccessToken(t) \/ Revoke(t)
      BY <2>2 DEF ClearSession, SetAccessToken, Revoke, client
    <2>3. ASSUME NEW c \in Calls,
                 \/ SendRequest(c) \/ AnswerRequest(c) \/ Receive(c)
                 \/ CheckChallenge(c) \/ SendProof(c) \/ FinishLogin(c) \/ GiveUp(c)
          PROVE  revision' \in {revision, revision + 1} /\ UNCHANGED asked
      BY <2>3 DEF SendRequest, AnswerRequest, Receive, CheckChallenge, SendProof,
                  FinishLogin, GiveUp
    <2>4. ASSUME NEW c \in Calls, NEW key \in AdminKeys, BeginLogin(c, key)
          PROVE  revision' = revision + 1 /\ asked'.revision = revision + 1
      BY <2>4 DEF BeginLogin
    <2>5. ASSUME NEW c \in Calls, NEW key \in AdminKeys, NEW t \in Tokens,
                 AnswerVerify(c, t, key)
          PROVE  UNCHANGED <<revision, asked>>
      BY <2>5 DEF AnswerVerify
    <2>6. QED
      BY <2>1, <2>2, <2>3, <2>4, <2>5 DEF Next
  <1>3. QED
    BY <1>1, <1>2 DEF Spoken

\* In every state the application has spoken of the current revision, or of an
\* earlier one.
THEOREM SpokenAlways == Spec => []Spoken
  <1>1. Init => Spoken
    BY DEF Init, Spoken
  <1>2. QED
    BY <1>1, StepSpoken, IInvAlways, PTL DEF Spec

-----------------------------------------------------------------------------
(* Consequences.                                                           *)

\* The calls that still have a say.
LiveLogin    == {c \in Logins : call[c].revision = revision}
LiveRequests == {c \in Requests : call[c].revision = revision}

\* At most one login can complete, and only into an empty session.
THEOREM TypeCorrect == Spec => []TypeOK
  <1>1. IInv /\ Spoken => TypeOK
    <2> SUFFICES ASSUME IInv, Spoken PROVE TypeOK
      OBVIOUS
    <2>1. Abstract!TypeOK
      <3>1. LiveLogin \subseteq Calls /\ LiveRequests \subseteq Calls
        BY DEF LiveLogin, LiveRequests, Logins, Requests
      <3>2. \A c \in LiveRequests : call[c].token = token /\ call[c].token \in Tokens
        BY <3>1, Shapes DEF IInv, Carried, LiveRequests
      <3>3. token = NoToken => LiveRequests = {}
        BY <3>2, ClientAssumption
      <3>4. /\ \A c, d \in LiveLogin : c = d
            /\ LiveLogin # {} => token = NoToken
        BY DEF IInv, OneLogin, LiveLogin
      <3>5. token \in Tokens \cup {NoToken}
        BY DEF IInv, Typed
      <3>6. QED
        BY <3>1, <3>3, <3>4, <3>5 DEF Abstract!TypeOK, LiveLogin, LiveRequests, Spoken
    <2>2. QED
      BY <2>1 DEF TypeOK, IInv, Typed, Behind
  <1>2. QED
    BY <1>1, IInvAlways, SpokenAlways, PTL

\* The session is always what the application last asked for, or empty.
THEOREM LatestWord == Spec => []LatestWordStands
  <1>1. IInv => LatestWordStands
    BY DEF IInv
  <1>2. QED
    BY <1>1, IInvAlways, PTL

\* A 401 ends only a session that the service no longer honours.
THEOREM KeptWhileHonoured == Spec => HonouredSessionKept
  <1> DEFINE Ends == \/ ClearSession
                     \/ \E c \in Calls, key \in AdminKeys : BeginLogin(c, key)
  <1>1. IInv /\ [Next]_vars => ((token \in valid /\ token' = NoToken) => Ends)
    <2> SUFFICES ASSUME IInv, [Next]_vars, token \in valid, token' = NoToken PROVE Ends
      OBVIOUS
    <2>1. token # NoToken
      BY ClientAssumption DEF IInv, Typed
    <2>2. CASE UNCHANGED token
      BY <2>1, <2>2
    <2>3. ASSUME NEW t \in Tokens, SetAccessToken(t)
          PROVE  FALSE
      BY <2>3, ClientAssumption DEF SetAccessToken
    <2>4. ASSUME NEW c \in Calls, Receive(c)
          PROVE  FALSE
      <3>1. c \in Requests
        BY <2>4 DEF Receive, Requests
      <3>2. call[c].answer.kind = "unauthorized" /\ call[c].revision = revision
        BY <2>1, <2>4 DEF Receive
      <3>3. QED
        BY <3>1, <3>2 DEF IInv, Carried
    <2>5. ASSUME NEW c \in Calls, FinishLogin(c)
          PROVE  FALSE
      <3>1. c \in Logins
        BY <2>5 DEF FinishLogin, Logins
      <3>2. call[c].revision = revision
        BY <2>1, <2>5 DEF FinishLogin
      <3>3. QED
        BY <2>1, <3>1, <3>2 DEF IInv, OneLogin
    <2>6. ASSUME NEW c \in Calls,
                 SendRequest(c) \/ AnswerRequest(c) \/ CheckChallenge(c) \/ SendProof(c) \/ GiveUp(c)
          PROVE  UNCHANGED token
      BY <2>6 DEF SendRequest, AnswerRequest, CheckChallenge, SendProof, GiveUp
    <2>7. ASSUME NEW c \in Calls, NEW t \in Tokens, NEW key \in AdminKeys,
                 AnswerVerify(c, t, key)
          PROVE  UNCHANGED token
      BY <2>7 DEF AnswerVerify
    <2>8. ASSUME NEW t \in Tokens, Revoke(t)
          PROVE  UNCHANGED token
      BY <2>8 DEF Revoke, client
    <2>9. CASE Next
      BY <2>1, <2>3, <2>4, <2>5, <2>6, <2>7, <2>8, <2>9 DEF Next
    <2>10. CASE UNCHANGED vars
      BY <2>2, <2>10 DEF vars
    <2>11. QED
      BY <2>9, <2>10
  <1>2. QED
    BY <1>1, IInvAlways, PTL DEF Spec, HonouredSessionKept

-----------------------------------------------------------------------------
(* SessionClient implements Session.                                       *)

\* A new revision leaves no call with a say.
LEMMA NoneLive ==
    ASSUME IInv, revision' = revision + 1,
           NEW E \in SUBSET Calls, \A x \in E : call'[x] = Idle,
           \A x \in Calls \ E : call'[x] = call[x]
    PROVE  LiveLogin' = {} /\ LiveRequests' = {}
  <1>1. \A x \in Logins' \cup Requests' : x \in Calls \ E
    BY DEF Logins, Requests, Idle
  <1>2. \A x \in Logins' \cup Requests' : x \in Logins \cup Requests /\ call'[x] = call[x]
    BY <1>1 DEF Logins, Requests
  <1>3. revision \in Nat
    BY ClientAssumption DEF IInv, Typed
  <1>4. \A x \in Logins \cup Requests : call[x].revision \in Nat /\ call[x].revision <= revision
    BY Shapes DEF IInv, Behind, Logins, Requests
  <1>5. \A x \in Logins' \cup Requests' : call'[x].revision # revision'
    BY <1>2, <1>3, <1>4
  <1>6. QED
    BY <1>5 DEF LiveLogin, LiveRequests

\* With the revision unchanged, a call that ends leaves, one that moves on stays.
LEMMA OneEnds ==
    ASSUME IInv, NEW c \in Calls, call' = [call EXCEPT ![c] = Idle], UNCHANGED revision
    PROVE  LiveLogin' = LiveLogin \ {c} /\ LiveRequests' = LiveRequests \ {c}
  <1>1. \A x \in Calls : call'[x] = IF x = c THEN Idle ELSE call[x]
    BY DEF IInv, Typed
  <1>2. QED
    BY <1>1 DEF LiveLogin, LiveRequests, Logins, Requests, Idle

LEMMA OneMovesOn ==
    ASSUME IInv, NEW c \in Calls, NEW new, call' = [call EXCEPT ![c] = new], UNCHANGED revision,
           \/ c \in Logins /\ new.pc \in {"challenge", "signing", "verify"}
           \/ c \in Requests /\ new.pc = "request",
           new.revision = call[c].revision
    PROVE  LiveLogin' = LiveLogin /\ LiveRequests' = LiveRequests
  <1>1. \A x \in Calls : call'[x] = IF x = c THEN new ELSE call[x]
    BY DEF IInv, Typed
  <1>2. QED
    BY <1>1 DEF LiveLogin, LiveRequests, Logins, Requests

\* The abstract actions, in terms of the live calls.
LEMMA AbstractActions ==
    ASSUME NEW c, NEW t
    PROVE  /\ Abstract!Set(t) <=>
                 /\ asked'.revision \in Nat /\ asked'.revision > asked.revision
                 /\ token' = t /\ LiveLogin' = {} /\ LiveRequests' = {}
           /\ Abstract!BeginLogin(c) <=>
                 /\ asked'.revision \in Nat /\ asked'.revision > asked.revision
                 /\ token' = NoToken /\ LiveLogin' = {c} /\ LiveRequests' = {}
           /\ Abstract!Send(c) <=> /\ token # NoToken
                                   /\ LiveRequests' = LiveRequests \cup {c}
                                   /\ token' = token /\ LiveLogin' = LiveLogin
                                   /\ asked'.revision = asked.revision
           /\ Abstract!End(c) <=> /\ LiveLogin' = LiveLogin \ {c}
                                  /\ LiveRequests' = LiveRequests \ {c}
                                  /\ token' = token
                                  /\ asked'.revision = asked.revision
           /\ Abstract!Complete(c, t) <=> /\ LiveLogin = {c} /\ token = NoToken
                                          /\ token' = t /\ LiveLogin' = {}
                                          /\ LiveRequests' \in {{}, {c}}
                                          /\ asked'.revision = asked.revision
           /\ Abstract!Refuse(c) <=> /\ c \in LiveRequests /\ token' = NoToken
                                     /\ LiveLogin' = {} /\ LiveRequests' = {}
                                     /\ asked'.revision = asked.revision
           /\ UNCHANGED Abstract!session <=> /\ token' = token /\ LiveLogin' = LiveLogin
                                             /\ LiveRequests' = LiveRequests
                                             /\ asked'.revision = asked.revision
  BY DEF Abstract!Set, Abstract!BeginLogin, Abstract!Send, Abstract!End, Abstract!Complete,
         Abstract!Refuse, Abstract!Speak, Abstract!session, LiveLogin, LiveRequests

LEMMA BeginMaps ==
    ASSUME IInv, Spoken, NEW c \in Calls, NEW key, BeginLogin(c, key)
    PROVE  Abstract!BeginLogin(c)
  <1> DEFINE new == Login("challenge", revision + 1, key, NoAnswer)
  <1>1. /\ revision' = revision + 1
        /\ token' = NoToken
        /\ asked'.revision = revision + 1
        /\ \A x \in Calls : call'[x] = IF x = c THEN new ELSE call[x]
    BY DEF BeginLogin, IInv, Typed
  <1>2. new.pc = "challenge" /\ new.revision = revision'
    BY <1>1 DEF Login
  <1> HIDE DEF new
  <1>3. revision \in Nat
    BY ClientAssumption DEF IInv, Typed
  <1>4. \A x \in Logins \cup Requests : call[x].revision \in Nat /\ call[x].revision <= revision
    BY Shapes DEF IInv, Behind, Logins, Requests
  <1>5. \A x \in Logins \cup Requests : call[x].revision # revision'
    BY <1>1, <1>3, <1>4
  <1>6. LiveLogin' = {c} /\ LiveRequests' = {}
    BY <1>1, <1>2, <1>5 DEF LiveLogin, LiveRequests, Logins, Requests
  <1>7. asked'.revision \in Nat /\ asked'.revision > asked.revision
    BY <1>1, <1>3 DEF Spoken
  <1>8. QED
    BY <1>1, <1>6, <1>7, AbstractActions

LEMMA ReceiveMaps ==
    ASSUME IInv, NEW c \in Calls, Receive(c)
    PROVE  Abstract!Refuse(c) \/ Abstract!End(c)
  <1>1. CASE call[c].answer.kind = "unauthorized" /\ call[c].revision = revision
    <2>1. c \in LiveRequests
      BY <1>1 DEF Receive, LiveRequests, Requests
    <2>2. /\ revision' = revision + 1
          /\ token' = NoToken
          /\ UNCHANGED asked
          /\ \A x \in Calls : call'[x] = IF x = c THEN Idle ELSE call[x]
      BY <1>1 DEF Receive, IInv, Typed
    <2>3. LiveLogin' = {} /\ LiveRequests' = {}
      <3>1. {c} \in SUBSET Calls
        OBVIOUS
      <3>2. QED
        BY <2>2, <3>1, NoneLive
    <2>4. QED
      BY <2>1, <2>2, <2>3, AbstractActions
  <1>2. CASE ~(call[c].answer.kind = "unauthorized" /\ call[c].revision = revision)
    BY <1>2, OneEnds, AbstractActions DEF Receive
  <1>3. QED
    BY <1>1, <1>2

LEMMA FinishMaps ==
    ASSUME IInv, NEW c \in Calls, FinishLogin(c)
    PROVE  (\E t \in Tokens : Abstract!Complete(c, t)) \/ Abstract!End(c)
  <1> DEFINE a == call[c].answer
  <1>1. CASE a.key = call[c].key /\ call[c].revision = revision
    <2>1. c \in LiveLogin /\ a # NoAnswer
      BY <1>1 DEF FinishLogin, LiveLogin, Logins
    <2>2. LiveLogin = {c} /\ token = NoToken
      BY <2>1 DEF IInv, OneLogin, LiveLogin
    <2>3. a.token \in Tokens
      BY <2>1 DEF IInv, Typed, Answered, LiveLogin
    <2>4. /\ revision' = revision + 1
          /\ token' = a.token
          /\ UNCHANGED asked
          /\ \A x \in Calls : call'[x] = IF x = c THEN Idle ELSE call[x]
      BY <1>1 DEF FinishLogin, IInv, Typed
    <2>5. LiveLogin' = {} /\ LiveRequests' = {}
      <3>1. {c} \in SUBSET Calls
        OBVIOUS
      <3>2. QED
        BY <2>4, <3>1, NoneLive
    <2>6. QED
      BY <2>2, <2>3, <2>4, <2>5, AbstractActions
  <1>2. CASE ~(a.key = call[c].key /\ call[c].revision = revision)
    BY <1>2, OneEnds, AbstractActions DEF FinishLogin
  <1>3. QED
    BY <1>1, <1>2

LEMMA WordMaps ==
    ASSUME IInv, Spoken, NEW t, token' = t, revision' = revision + 1, UNCHANGED call,
           asked'.revision = revision + 1
    PROVE  Abstract!Set(t)
  <1>1. {} \in SUBSET Calls
    OBVIOUS
  <1>2. LiveLogin' = {} /\ LiveRequests' = {}
    BY <1>1, NoneLive
  <1>3. asked'.revision \in Nat /\ asked'.revision > asked.revision
    BY ClientAssumption DEF Spoken, IInv, Typed
  <1>4. QED
    BY <1>2, <1>3, AbstractActions

LEMMA SendMaps ==
    ASSUME IInv, NEW c \in Calls, SendRequest(c)
    PROVE  Abstract!Send(c)
  <1> DEFINE new == Request(revision, token, NoAnswer)
  <1>1. \A x \in Calls : call'[x] = IF x = c THEN new ELSE call[x]
    BY DEF SendRequest, IInv, Typed
  <1>2. new.pc = "request" /\ new.revision = revision
    BY DEF Request
  <1>3. call[c] = Idle /\ Idle.pc = "idle"
    BY Shapes DEF SendRequest, IInv, Idle
  <1> HIDE DEF new
  <1>4. /\ LiveLogin' = LiveLogin
        /\ LiveRequests' = LiveRequests \cup {c}
    BY <1>1, <1>2, <1>3 DEF SendRequest, LiveLogin, LiveRequests, Logins, Requests
  <1>5. QED
    BY <1>4, AbstractActions DEF SendRequest

\* The steps the abstract session does not see.
LEMMA OthersStutter ==
    ASSUME IInv, NEW c \in Calls, NEW t, NEW key,
           \/ AnswerRequest(c)
           \/ SendProof(c)
           \/ AnswerVerify(c, t, key)
           \/ CheckChallenge(c) /\ call[c].revision = revision
           \/ Revoke(t)
    PROVE  UNCHANGED Abstract!session
  <1>1. CASE AnswerRequest(c)
    <2> DEFINE new == [call[c] EXCEPT !.answer =
                 [kind |-> IF call[c].token \in valid THEN "ok" ELSE "unauthorized"]]
    <2>1. c \in Requests /\ call' = [call EXCEPT ![c] = new] /\ UNCHANGED <<token, revision, asked>>
      BY <1>1 DEF AnswerRequest, Requests
    <2>2. call[c] \in [pc : {"request"}, revision : 0..MaxRevision, token : Tokens,
                       answer : RequestAnswers]
      BY <2>1 DEF IInv, Typed, Calling, Requests, Idle
    <2>3. new.pc = "request" /\ new.revision = call[c].revision
      BY <2>2
    <2> HIDE DEF new
    <2>4. QED
      BY <2>1, <2>3, OneMovesOn, AbstractActions
  <1>2. ASSUME NEW pc \in {"signing", "verify"}, c \in Logins,
               call' = [call EXCEPT ![c] = [call[c] EXCEPT !.pc = pc]],
               UNCHANGED <<token, revision, asked>>
        PROVE  UNCHANGED Abstract!session
    <2> DEFINE new == [call[c] EXCEPT !.pc = pc]
    <2>1. call[c] \in [pc : {"challenge", "signing", "verify"}, revision : 0..MaxRevision,
                       key : AdminKeys, answer : LoginAnswers]
      BY <1>2 DEF IInv, Typed, Calling, Logins, Idle
    <2>2. new.pc = pc /\ new.revision = call[c].revision
      BY <2>1
    <2>3. call' = [call EXCEPT ![c] = new]
      BY <1>2
    <2> HIDE DEF new
    <2>4. QED
      BY <1>2, <2>2, <2>3, OneMovesOn, AbstractActions
  <1>3. CASE SendProof(c)
    BY <1>2, <1>3 DEF SendProof, Logins
  <1>4. CASE CheckChallenge(c) /\ call[c].revision = revision
    BY <1>2, <1>4 DEF CheckChallenge, Logins
  <1>5. CASE AnswerVerify(c, t, key)
    <2> DEFINE new == [call[c] EXCEPT !.answer =
                          [kind |-> "session", token |-> t, key |-> key]]
    <2>1. c \in Logins /\ call' = [call EXCEPT ![c] = new] /\ UNCHANGED <<token, revision, asked>>
      BY <1>5 DEF AnswerVerify, Logins
    <2>2. call[c] \in [pc : {"challenge", "signing", "verify"}, revision : 0..MaxRevision,
                       key : AdminKeys, answer : LoginAnswers]
      BY <2>1 DEF IInv, Typed, Calling, Logins, Idle
    <2>3. new.pc = call[c].pc /\ new.revision = call[c].revision
      BY <2>2
    <2> HIDE DEF new
    <2>4. QED
      BY <2>1, <2>2, <2>3, OneMovesOn, AbstractActions
  <1>6. CASE Revoke(t)
    BY <1>6, AbstractActions DEF Revoke, client, LiveLogin, LiveRequests, Logins, Requests
  <1>7. QED
    BY <1>1, <1>3, <1>4, <1>5, <1>6

LEMMA StepMaps == IInv /\ Spoken /\ [Next]_vars => [Abstract!Next]_(Abstract!session)
  <1> SUFFICES ASSUME IInv, Spoken, [Next]_vars
               PROVE  Abstract!Next \/ UNCHANGED Abstract!session
    BY DEF Abstract!session
  <1> USE DEF Abstract!Next
  <1>1. CASE UNCHANGED vars
    BY <1>1, AbstractActions DEF vars, LiveLogin, LiveRequests, Logins, Requests
  <1>2. CASE ClearSession
    BY <1>2, WordMaps DEF ClearSession
  <1>3. ASSUME NEW t \in Tokens, SetAccessToken(t) PROVE Abstract!Next
    BY <1>3, WordMaps DEF SetAccessToken
  <1>4. ASSUME NEW c \in Calls, SendRequest(c) PROVE Abstract!Next
    BY <1>4, SendMaps
  <1>5. ASSUME NEW c \in Calls, Receive(c) PROVE Abstract!Next
    BY <1>5, ReceiveMaps
  <1>6. ASSUME NEW c \in Calls, FinishLogin(c) PROVE Abstract!Next
    BY <1>6, FinishMaps
  <1>7. ASSUME NEW c \in Calls, GiveUp(c) PROVE Abstract!Next
    BY <1>7, OneEnds, AbstractActions DEF GiveUp
  <1>8. ASSUME NEW c \in Calls, NEW key \in AdminKeys, BeginLogin(c, key)
        PROVE  Abstract!Next
    BY <1>8, BeginMaps
  <1>9. ASSUME NEW t \in Tokens, Revoke(t)
        PROVE  UNCHANGED Abstract!session
    BY <1>9, AbstractActions DEF Revoke, client, LiveLogin, LiveRequests, Logins, Requests
  <1>10. ASSUME NEW c \in Calls, AnswerRequest(c) \/ SendProof(c)
         PROVE  UNCHANGED Abstract!session
    BY <1>10, OthersStutter
  <1>11. ASSUME NEW c \in Calls, NEW t \in Tokens, NEW key \in AdminKeys, AnswerVerify(c, t, key)
         PROVE  UNCHANGED Abstract!session
    BY <1>11, OthersStutter
  <1>12. ASSUME NEW c \in Calls, CheckChallenge(c)
         PROVE  Abstract!Next \/ UNCHANGED Abstract!session
    <2>1. CASE call[c].revision = revision
      BY <1>12, <2>1, OthersStutter
    <2>2. CASE call[c].revision # revision
      BY <1>12, <2>2, OneEnds, AbstractActions DEF CheckChallenge
    <2>3. QED
      BY <2>1, <2>2
  <1> HIDE DEF Abstract!Next
  <1>13. CASE Next
    BY <1>2, <1>3, <1>4, <1>5, <1>6, <1>7, <1>8, <1>9, <1>10, <1>11, <1>12, <1>13 DEF Next
  <1>14. QED
    BY <1>1, <1>13

\* Whatever the interleaving of calls and answers, the revision number gives
\* the abstract session.
THEOREM Refinement == Spec => ImplementsSession
  <1>1. Init => Abstract!Init
    BY ClientAssumption DEF Init, Abstract!Init, Logins, Requests, Idle
  <1>2. QED
    BY <1>1, StepMaps, IInvAlways, SpokenAlways, PTL DEF Spec, ImplementsSession, Abstract!Spec

-----------------------------------------------------------------------------
(* The JavaScript SDK.                                                     *)

\* What the SDK adds is Go's step or a call given up.
LEMMA CheckIsGo ==
    ASSUME NEW c, CheckSignature(c)
    PROVE  SendProof(c) \/ GiveUp(c)
  <1>1. call[c].pc = "signing"
    BY DEF CheckSignature
  <1>2. CASE call[c].revision = revision
    <2>1. call' = [call EXCEPT ![c].pc = "verify"]
      BY <1>2 DEF CheckSignature
    <2>2. QED
      BY <1>1, <2>1 DEF CheckSignature, SendProof
  <1>3. CASE call[c].revision # revision
    <2>1. call' = [call EXCEPT ![c] = Idle]
      BY <1>3 DEF CheckSignature
    <2>2. QED
      BY <1>1, <2>1 DEF CheckSignature, GiveUp
  <1>4. QED
    BY <1>2, <1>3

LEMMA EitherStep == [NextEither]_<<vars, library>> => [Next]_vars
  <1>1. NextJS => Next
    BY CheckIsGo DEF Next, NextJS
  <1>2. QED
    BY <1>1 DEF NextEither

\* Whichever library is in use, the session is a session of the Go client.
THEOREM EitherIsGo == SpecEither => Spec
  <1>1. InitEither => Init
    BY DEF InitEither
  <1>2. QED
    BY <1>1, EitherStep, PTL DEF SpecEither, Spec

\* Both clients implement the abstract session of Session.tla.
THEOREM EitherRefines == SpecEither => ImplementsSession
  BY EitherIsGo, Refinement, PTL

\* Both clients' session always answers the application's latest word.
THEOREM EitherLatestWord == SpecEither => []LatestWordStands
  BY EitherIsGo, LatestWord, PTL

\* Of the SDK's steps, only CheckSignature takes a call from signing on to
\* verifying, and it compares the revision first.
LEMMA OnlyChecked ==
    ASSUME Typed, NextJS, NEW c \in Calls,
           call[c].pc = "signing", call'[c].pc = "verify"
    PROVE  call[c].revision = revision
  <1>1. call \in [Calls -> Calling]
    BY DEF Typed
  <1>2. call' # call
    OBVIOUS
  <1>3. ASSUME NEW x \in Calls, NEW new, call[x].pc # "signing" \/ new.pc # "verify",
               call' = [call EXCEPT ![x] = new]
        PROVE  FALSE
    BY <1>1, <1>3
  <1>4. ASSUME NEW x \in Calls, CheckSignature(x)
        PROVE  call[c].revision = revision
    <2>1. CASE x = c /\ call[c].revision # revision
      <3>1. call' = [call EXCEPT ![x] = Idle]
        BY <1>4, <2>1 DEF CheckSignature
      <3>2. QED
        BY <1>3, <3>1 DEF Idle
    <2>2. CASE x # c
      BY <1>1, <1>4, <2>2 DEF CheckSignature
    <2>3. QED
      BY <2>1, <2>2
  <1>5. ASSUME NEW x \in Calls,
               \/ SendRequest(x) \/ AnswerRequest(x) \/ Receive(x)
               \/ CheckChallenge(x) \/ FinishLogin(x) \/ GiveUp(x)
               \/ \E key \in AdminKeys :
                    \/ BeginLogin(x, key)
                    \/ \E t \in Tokens : AnswerVerify(x, t, key)
        PROVE  FALSE
    <2>1. CASE call[x].pc = "signing"
      BY <1>3, <1>5, <2>1 DEF SendRequest, AnswerRequest, Receive, CheckChallenge,
           FinishLogin, GiveUp, BeginLogin, AnswerVerify, Idle
    <2>2. CASE call[x].pc # "signing"
      <3>1. PICK new : call' = [call EXCEPT ![x] = new]
        BY <1>5 DEF SendRequest, AnswerRequest, Receive, CheckChallenge,
             FinishLogin, GiveUp, BeginLogin, AnswerVerify
      <3>2. QED
        BY <1>3, <2>2, <3>1
    <2>3. QED
      BY <2>1, <2>2
  <1>6. ~ClearSession /\ \A t \in Tokens : ~SetAccessToken(t) /\ ~Revoke(t)
    BY <1>2 DEF ClearSession, SetAccessToken, Revoke, client
  <1>7. QED
    BY <1>4, <1>5, <1>6 DEF NextJS

\* The SDK sends a proof only for the login that was asked for last.
THEOREM LatestProof == SpecEither => ProofForLatestLogin
  <1>1. ASSUME IInv, [NextEither]_<<vars, library>>, NEW c \in Calls,
               library = "js", call[c].pc = "signing", call'[c].pc = "verify"
        PROVE  asked = [what |-> "login", key |-> call[c].key, revision |-> call[c].revision]
    <2>1. call[c].revision = revision
      <3>1. NextJS
        BY <1>1 DEF NextEither, vars
      <3>2. QED
        BY <1>1, <3>1, OnlyChecked DEF IInv
    <2>2. c \in Logins
      BY <1>1 DEF Logins
    <2>3. QED
      BY <1>1, <2>1, <2>2 DEF IInv, OneLogin
  <1>2. IInv /\ [NextEither]_<<vars, library>> =>
          (\A c \in Calls :
              library = "js" /\ call[c].pc = "signing" /\ call'[c].pc = "verify" =>
                 asked = [what |-> "login", key |-> call[c].key, revision |-> call[c].revision])
    BY <1>1
  <1>3. QED
    BY <1>2, EitherIsGo, IInvAlways, PTL DEF SpecEither, ProofForLatestLogin
=============================================================================
