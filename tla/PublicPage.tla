------------------------------ MODULE PublicPage ------------------------------
(***************************************************************************)
(* A page that shows what the service publishes (web/apostille-page.mjs:   *)
(* loadKeys, loadPublicCertificate, loadPublicOrganization and the service *)
(* strip, from the end of initialize), or the SDK's calls for the same: a  *)
(* request as it loads, for a certificate the verification of its bundle,  *)
(* then the content or the notice that it could not be loaded.             *)
(***************************************************************************)
EXTENDS Transport

Modes == {"home", "verify", "keys", "certificate", "organization"}

VARIABLE content    \* [mode, offline, answer, shown] of the page

pageVars == <<exchange, content>>

ShouldFetch(mode, offline) == ~offline /\ mode # "verify"

PageInit ==
    /\ \E client \in {"page", "sdk"} : exchange = NewExchange(client)
    /\ \E mode \in Modes, offline \in BOOLEAN :
         content = [mode |-> mode, offline |-> offline, answer |-> None, shown |-> "waiting"]

Load ==
    /\ ShouldFetch(content.mode, content.offline)
    /\ Send
    /\ UNCHANGED content

Show(what) == content' = [content EXCEPT !.shown = what]

\* What was delivered: the record asked for or, though an object, not that.
Delivered ==
    /\ exchange.outcome = "data" /\ content.answer = None /\ content.shown = "waiting"
    /\ \E answer \in {"genuine", "forged", "malformed"} :
         content' = [content EXCEPT
           !.answer = answer,
           !.shown = CASE answer = "malformed" -> "failed"
                       [] answer # "malformed" /\ content.mode = "certificate" -> "waiting"
                       [] OTHER -> "content"]
    /\ UNCHANGED exchange

Verified ==
    /\ content.mode = "certificate" /\ content.answer \in {"genuine", "forged"}
    /\ content.shown = "waiting"
    /\ Show(IF content.answer = "genuine" THEN "content" ELSE "failed")
    /\ UNCHANGED exchange

NotDelivered ==
    /\ exchange.phase = "settled" /\ exchange.outcome # "data" /\ content.shown = "waiting"
    /\ Show("failed")
    /\ UNCHANGED exchange

PageNext ==
    \/ Load
    \/ TransportNext /\ UNCHANGED content
    \/ Delivered
    \/ Verified
    \/ NotDelivered

\* The timer runs, a cancelled stream ends and so does a verification; nothing
\* is assumed of the server.
PageFairness ==
    /\ WF_pageVars(Load) /\ WF_pageVars(Delivered)
    /\ WF_pageVars(Verified) /\ WF_pageVars(NotDelivered)
    /\ WF_pageVars(DeadlinePasses /\ UNCHANGED content)
    /\ WF_pageVars(BodyCancelled /\ UNCHANGED content)
==============================================================================
