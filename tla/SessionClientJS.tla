---------------------------- MODULE SessionClientJS ---------------------------
(***************************************************************************)
(* The session of the JavaScript SDK (sdk/apostille-js/src/client.mjs),    *)
(* next to the Go client's.  A promise between two awaits is what a        *)
(* goroutine is between two critical sections, and the fields #token and   *)
(* #sessionRevision are Go's token and revision; every action but one is   *)
(* the same.  After signing a challenge the SDK compares the revision once *)
(* more, so that a login overtaken meanwhile asks the service for nothing. *)
(***************************************************************************)
EXTENDS SessionClient

VARIABLE library  \* the client in use, "go" or "js"

\* Mutant: the revision is not compared again after signing.
CheckSignatureNever(c) ==
    /\ call[c].pc = "signing"
    /\ call' = [call EXCEPT ![c].pc = "verify"]
    /\ UNCHANGED <<token, revision, asked, issued, valid>>

\* The signature is ready; the proof is sent if the revision has not moved.
CheckSignature(c) ==
    /\ call[c].pc = "signing"
    /\ call' = [call EXCEPT ![c] =
                   IF call[c].revision = revision
                   THEN [call[c] EXCEPT !.pc = "verify"] ELSE Idle]
    /\ UNCHANGED <<token, revision, asked, issued, valid>>

NextJS ==
    \/ ClearSession
    \/ \E t \in Tokens : SetAccessToken(t) \/ Revoke(t)
    \/ \E c \in Calls :
        \/ SendRequest(c) \/ AnswerRequest(c) \/ Receive(c)
        \/ CheckChallenge(c) \/ CheckSignature(c) \/ FinishLogin(c) \/ GiveUp(c)
        \/ \E key \in AdminKeys :
            \/ BeginLogin(c, key)
            \/ \E t \in Tokens : AnswerVerify(c, t, key)

InitEither == Init /\ library \in {"go", "js"}

NextEither ==
    /\ UNCHANGED library
    /\ \/ library = "go" /\ Next
       \/ library = "js" /\ NextJS

SpecEither == InitEither /\ [][NextEither]_<<vars, library>>

-----------------------------------------------------------------------------

\* The SDK proves possession of a key to the service only for the login that
\* the application asked for last: the service never issues a session to a
\* login that was overtaken while it waited for its challenge or signature.
ProofForLatestLogin ==
    [][\A c \in Calls :
          library = "js" /\ call[c].pc = "signing" /\ call'[c].pc = "verify" =>
             asked = [what |-> "login", key |-> call[c].key, revision |-> call[c].revision]
      ]_<<vars, library>>
=============================================================================
