------------------------------- MODULE MCPages -------------------------------
(***************************************************************************)
(* Bounded instances of the public pages, the verification form and the    *)
(* strict parser.  They share no state: a behaviour is one of a published  *)
(* page that loads, of a form that is filled in and submitted, or of a     *)
(* text that is parsed, and Init chooses which.                            *)
(***************************************************************************)
EXTENDS PublicPage, VerifyPage, StrictJSON

CONSTANTS i1, i2, k1, k2, x, y

VARIABLE scene

vars == <<scene, pageVars, verifyVars, jsonVars>>

\* Pins: the issuer of most documents with the right and a wrong key, another
\* issuer, a receiver who accepts version 0.3 only, and half a pin.
Pin(issuer, key) == [issuer |-> issuer, key |-> key]
AllVersions == {"0.1", "0.2", "0.3"}
Policy(pin, versions) == [complete |-> TRUE, pin |-> pin, versions |-> versions]

PagePolicies ==
    {Policy(Blank, AllVersions), Policy(Pin(i1, k1), AllVersions), Policy(Pin(i1, k1), {"0.3"}),
     Policy(Pin(i2, k2), AllVersions),
     [complete |-> FALSE, pin |-> Pin(i1, k1), versions |-> AllVersions]}

Document(erc8004, version, valid, signer, fresh) ==
    [readable |-> TRUE, erc8004 |-> erc8004, version |-> version, valid |-> valid,
     signer |-> signer, fresh |-> fresh, original |-> IF erc8004 THEN Blank ELSE x]

\* Certified, expired, altered and producer-only bundles, a binding document,
\* and a file that does not parse.
PageDocuments ==
    {Document(FALSE, "0.3", TRUE, Pin(i1, k1), TRUE), Document(FALSE, "0.1", TRUE, Pin(i1, k1), FALSE),
     Document(FALSE, "0.1", FALSE, Pin(i1, k1), TRUE), Document(FALSE, "0.2", TRUE, Blank, TRUE),
     Document(TRUE, "0.1", TRUE, Pin(i1, k1), TRUE),
     [Document(FALSE, "0.1", TRUE, Blank, TRUE) EXCEPT !.readable = FALSE]}

PageOriginals == {[file |-> x, large |-> FALSE], [file |-> y, large |-> FALSE],
                  [file |-> y, large |-> TRUE]}

\* A key, the same key with an escape, another key, and half a surrogate pair.
Meanings == "a" :> "a" @@ "\\u0061" :> "a" @@ "b" :> "b" @@ "\\ud800" :> Undefined

Keys == <<"a", "b">>

Init ==
    \/ scene = "page" /\ PageInit /\ JSONInit
       /\ VerifyInit /\ form.document = Blank /\ form.original = Blank /\ ~form.policy.complete
    \/ scene = "form" /\ VerifyInit /\ JSONInit
       /\ exchange = NewExchange("page")
       /\ content = [mode |-> "verify", offline |-> TRUE, answer |-> None, shown |-> "waiting"]
    \/ scene = "text" /\ JSONInit
       /\ VerifyInit /\ form.document = Blank /\ form.original = Blank /\ ~form.policy.complete
       /\ exchange = NewExchange("page")
       /\ content = [mode |-> "verify", offline |-> TRUE, answer |-> None, shown |-> "waiting"]

Next ==
    \/ scene = "page" /\ PageNext /\ UNCHANGED <<scene, verifyVars, jsonVars>>
    \/ scene = "form" /\ VerifyNext /\ UNCHANGED <<scene, pageVars, jsonVars>>
    \/ scene = "text" /\ JSONNext /\ UNCHANGED <<scene, pageVars, verifyVars>>

\* Fair are the browser's own steps: timers, reads of files, verification.
Spec == Init /\ [][Next]_vars /\ PageFairness /\ VerifyFairness

\* Whatever the server does or fails to do, a page that loads something ends
\* with the content or the notice, a certificate's only if its bundle verifies,
\* and every submission of the form comes to an end.
PagesSettle ==
    /\ ShouldFetch(content.mode, content.offline) ~>
         /\ content.shown \in {"content", "failed"}
         /\ content.shown = "content" /\ content.mode = "certificate" =>
              content.answer = "genuine"
    /\ \A s \in Submissions : submissions[s].stage = "reading" ~> submissions[s].stage = "ended"
==============================================================================
