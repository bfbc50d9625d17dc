------------------------------- MODULE Session -------------------------------
(***************************************************************************)
(* What an API client promises about its session, without saying how it    *)
(* keeps track: the application's latest word stands, a login counts only  *)
(* if the application has said nothing else since it began, and a refused  *)
(* request ends the session only if it carried the session's own token.    *)
(***************************************************************************)
EXTENDS Naturals

CONSTANTS Calls,   \* calls in progress (goroutines, promises)
          Tokens,  \* access tokens
          NoToken

VARIABLES token,    \* the session's token, or NoToken
          login,    \* the login that may still complete: at most one call
          requests, \* the requests that carry the session's token
          said      \* numbers the application's words, the latest highest

session == <<token, login, requests, said>>

\* Type invariant: at most one login can complete, and only into an empty
\* session; without a session no request has a say.
TypeOK ==
    /\ token \in Tokens \cup {NoToken}
    /\ login \subseteq Calls
    /\ \A c, d \in login : c = d
    /\ requests \subseteq Calls
    /\ said \in Nat
    /\ token = NoToken => requests = {}
    /\ login # {} => token = NoToken

Init ==
    /\ token \in Tokens \cup {NoToken}
    /\ login = {}
    /\ requests = {}
    /\ said \in Nat

Speak == said' \in Nat /\ said' > said

\* The application sets a token, clears the session, or starts a login: all
\* that was in progress has lost its say.
Set(t) == Speak /\ token' = t /\ login' = {} /\ requests' = {}

BeginLogin(c) == Speak /\ token' = NoToken /\ login' = {c} /\ requests' = {}

Send(c) ==
    /\ token # NoToken
    /\ requests' = requests \cup {c}
    /\ UNCHANGED <<token, login, said>>

\* A call ends without a word about the session.
End(c) ==
    /\ login' = login \ {c}
    /\ requests' = requests \ {c}
    /\ UNCHANGED <<token, said>>

\* The login's token is the session's; the call may go on to use it.
Complete(c, t) ==
    /\ login = {c}
    /\ token = NoToken
    /\ token' = t
    /\ login' = {}
    /\ requests' \in {{}, {c}}
    /\ UNCHANGED said

Refuse(c) ==
    /\ c \in requests
    /\ token' = NoToken
    /\ login' = {}
    /\ requests' = {}
    /\ UNCHANGED said

Next ==
    \/ \E t \in Tokens \cup {NoToken} : Set(t)
    \/ \E c \in Calls :
        \/ BeginLogin(c)
        \/ Send(c)
        \/ End(c)
        \/ Refuse(c)
        \/ \E t \in Tokens : Complete(c, t)

Spec == Init /\ [][Next]_session
=============================================================================
