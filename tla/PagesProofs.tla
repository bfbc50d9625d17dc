------------------------------ MODULE PagesProofs ------------------------------
(***************************************************************************)
(* Theorems about the console's pages and their requests.  First           *)
(* DeliveredWhole for any cap, any lengths and any chunking, of a page     *)
(* that loads what the service publishes: what has been kept of a body is  *)
(* all that has been read of it until the cap is exceeded, and only a body *)
(* that is still being read can become data.  Then the verification form.  *)
(***************************************************************************)
EXTENDS PublicPage, VerifyPage, TLAPS

\* The request is a record of these fields.
Shape ==
    DOMAIN exchange = {"client", "phase", "response", "read", "kept", "expired", "outcome"}

Counted ==
    /\ exchange.kept \in Nat /\ exchange.kept <= Cap
    /\ exchange.phase \in {"idle", "fetching", "reading"} =>
         exchange.kept = exchange.read /\ ~exchange.expired
    /\ exchange.phase = "reading" =>
         /\ exchange.response.size \in Nat
         /\ exchange.response.status \in {"ok", "error"}
         /\ exchange.response.body \in {"object", "other", "garbled"}

Whole ==
    exchange.outcome = "data" =>
        /\ exchange.phase = "settled"
        /\ exchange.response.status = "ok" /\ exchange.response.body = "object"
        /\ exchange.kept = exchange.response.size
        /\ ~exchange.expired

Inv == Shape /\ Counted /\ Whole

LEMMA InvInit == PageInit => Inv
  <1> SUFFICES ASSUME NEW client, exchange = NewExchange(client) PROVE Inv
    BY DEF PageInit
  <1> QED
    BY TransportAssumption DEF NewExchange, Inv, Shape, Counted, Whole

\* The end of a request changes nothing but phase and outcome.
LEMMA SettledFields ==
    ASSUME NEW e, NEW reason,
           DOMAIN e = {"client", "phase", "response", "read", "kept", "expired", "outcome"}
    PROVE  /\ DOMAIN Settled(e, reason) = DOMAIN e
           /\ Settled(e, reason).phase = "settled"
           /\ Settled(e, reason).response = e.response
           /\ Settled(e, reason).kept = e.kept
           /\ Settled(e, reason).expired = e.expired
           /\ Settled(e, reason).outcome = "data" => reason = "data"
  BY DEF Settled

\* A request that ends without data keeps the invariant.
LEMMA EndsWithout ==
    ASSUME NEW e, NEW reason, reason # "data", exchange' = Settled(e, reason),
           DOMAIN e = {"client", "phase", "response", "read", "kept", "expired", "outcome"},
           e.kept \in Nat, e.kept <= Cap
    PROVE  Inv'
  BY SettledFields DEF Inv, Shape, Counted, Whole

LEMMA HeadersStep ==
    ASSUME Inv, HeadersArrive
    PROVE  Inv'
  <1>1. PICK response \in Responses, refusal \in RedirectReasons(exchange.client) :
          LET e == [exchange EXCEPT !.response = response]
          IN  exchange' =
                CASE response.status = "redirect" -> Settled(e, refusal)
                  [] response.status # "redirect" /\ response.announcedBeyond ->
                       [e EXCEPT !.phase = "cancelling"]
                  [] response.status # "redirect" /\ ~response.announcedBeyond ->
                       IF response.size = None THEN Settled(e, "invalid_response")
                       ELSE [e EXCEPT !.phase = "reading"]
    BY DEF HeadersArrive
  <1> DEFINE e == [exchange EXCEPT !.response = response]
  <1>2. /\ DOMAIN e = {"client", "phase", "response", "read", "kept", "expired", "outcome"}
        /\ e.kept \in Nat /\ e.kept <= Cap
    BY DEF Inv, Shape, Counted
  <1>3. CASE response.status = "redirect"
    <2>1. exchange' = Settled(e, refusal)
      BY <1>1, <1>3
    <2>2. refusal # "data"
      BY DEF RedirectReasons
    <2> QED
      BY <1>2, <2>1, <2>2, EndsWithout
  <1>4. CASE response.status # "redirect" /\ response.announcedBeyond
    <2>1. exchange' = [exchange EXCEPT !.response = response, !.phase = "cancelling"]
      BY <1>1, <1>4
    <2> QED
      BY <2>1 DEF HeadersArrive, Inv, Shape, Counted, Whole
  <1>5. CASE response.status # "redirect" /\ ~response.announcedBeyond
    <2>1. CASE response.size = None
      <3>1. exchange' = Settled(e, "invalid_response")
        BY <1>1, <1>5, <2>1
      <3> QED
        BY <1>2, <3>1, EndsWithout
    <2>2. CASE response.size # None
      <3>1. exchange' = [exchange EXCEPT !.response = response, !.phase = "reading"]
        BY <1>1, <1>5, <2>2
      <3>2. /\ response.size \in Nat /\ response.status \in {"ok", "error"}
            /\ response.body \in {"object", "other", "garbled"}
        BY <1>1, <1>5, <2>2, TransportAssumption DEF Responses
      <3> QED
        BY <3>1, <3>2 DEF HeadersArrive, Inv, Shape, Counted, Whole
    <2> QED
      BY <2>1, <2>2
  <1> QED
    BY <1>1, <1>3, <1>4, <1>5 DEF Responses

LEMMA ChunkStep ==
    ASSUME Inv, ChunkArrives
    PROVE  Inv'
  <1>1. PICK n \in Chunks :
          /\ exchange.read + n <= exchange.response.size
          /\ exchange' = IF exchange.read + n > Cap
                         THEN [exchange EXCEPT !.read = exchange.read + n, !.phase = "cancelling"]
                         ELSE [exchange EXCEPT !.read = exchange.read + n,
                                               !.kept = exchange.read + n]
    BY DEF ChunkArrives
  <1>2. /\ exchange.phase = "reading" /\ exchange.kept \in Nat /\ exchange.read = exchange.kept
        /\ exchange.response.size \in Nat /\ n \in Nat /\ exchange.outcome # "data"
    BY <1>1, TransportAssumption DEF ChunkArrives, Inv, Counted, Whole
  <1>3. CASE exchange.read + n > Cap
    BY <1>1, <1>2, <1>3 DEF Inv, Shape, Counted, Whole
  <1>4. CASE ~(exchange.read + n > Cap)
    BY <1>1, <1>2, <1>4, TransportAssumption DEF Inv, Shape, Counted, Whole
  <1> QED
    BY <1>3, <1>4

LEMMA BodyStep ==
    ASSUME Inv, BodyEnds
    PROVE  Inv'
  <1>1. /\ DOMAIN exchange = {"client", "phase", "response", "read", "kept", "expired", "outcome"}
        /\ exchange.kept \in Nat /\ exchange.kept <= Cap
        /\ exchange.kept = exchange.response.size /\ ~exchange.expired
    BY DEF Inv, Shape, Counted, BodyEnds
  <1>2. CASE exchange.response.body = "object" /\ exchange.response.status = "ok"
    <2>1. exchange' = Settled(exchange, "data")
      BY <1>2 DEF BodyEnds
    <2> QED
      BY <1>1, <1>2, <2>1, SettledFields DEF Inv, Shape, Counted, Whole
  <1>3. CASE ~(exchange.response.body = "object" /\ exchange.response.status = "ok")
    <2>1. \/ exchange' = Settled(exchange, "invalid_response")
          \/ exchange' = Settled(exchange, "api_error")
      BY <1>3 DEF BodyEnds, Inv, Counted
    <2> QED
      BY <1>1, <2>1, EndsWithout
  <1> QED
    BY <1>2, <1>3

LEMMA DeadlineStep ==
    ASSUME Inv, DeadlinePasses
    PROVE  Inv'
  <1> DEFINE e == [exchange EXCEPT !.expired = TRUE]
  <1>1. /\ DOMAIN e = {"client", "phase", "response", "read", "kept", "expired", "outcome"}
        /\ e.kept \in Nat /\ e.kept <= Cap
    BY DEF Inv, Shape, Counted
  <1>2. CASE exchange.phase = "cancelling"
    <2>1. exchange' = e
      BY <1>2 DEF DeadlinePasses, Inv, Shape
    <2> QED
      BY <1>2, <2>1 DEF Inv, Shape, Counted, Whole
  <1>3. CASE exchange.phase # "cancelling"
    <2>1. exchange' = Settled(e, "network_error")
      BY <1>3 DEF DeadlinePasses, Inv, Shape
    <2> QED
      BY <1>1, <2>1, EndsWithout
  <1> QED
    BY <1>2, <1>3

LEMMA InvStep == Inv /\ [PageNext]_pageVars => Inv'
  <1> SUFFICES ASSUME Inv, [PageNext]_pageVars PROVE Inv'
    OBVIOUS
  <1>1. /\ DOMAIN exchange = {"client", "phase", "response", "read", "kept", "expired", "outcome"}
        /\ exchange.kept \in Nat /\ exchange.kept <= Cap
    BY DEF Inv, Shape, Counted
  <1>2. CASE UNCHANGED exchange
    BY <1>2 DEF Inv, Shape, Counted, Whole
  <1>3. CASE Load
    BY <1>3 DEF Load, Send, Inv, Shape, Counted, Whole
  <1>4. CASE HeadersArrive
    BY <1>4, HeadersStep
  <1>5. CASE ChunkArrives
    BY <1>5, ChunkStep
  <1>6. CASE BodyEnds
    BY <1>6, BodyStep
  <1>7. CASE BodyCancelled
    BY <1>1, <1>7, EndsWithout DEF BodyCancelled
  <1>8. CASE ConnectionBreaks
    BY <1>1, <1>8, EndsWithout DEF ConnectionBreaks
  <1>9. CASE DeadlinePasses
    BY <1>9, DeadlineStep
  <1> QED
    BY <1>2, <1>3, <1>4, <1>5, <1>6, <1>7, <1>8, <1>9
       DEF PageNext, TransportNext, Delivered, Verified, NotDelivered, pageVars

\* A page, or a caller of the SDK, is handed one whole object of a successful
\* response within the cap and the deadline, and never holds more than the cap,
\* whatever the server announces, sends or leaves out (requestAPI, readResponse).
THEOREM WholeDeliveries == PageInit /\ [][PageNext]_pageVars => []DeliveredWhole
  <1>1. PageInit => Inv
    BY InvInit
  <1>2. Inv /\ [PageNext]_pageVars => Inv'
    BY InvStep
  <1>3. Inv => DeliveredWhole
    BY DEF Inv, Counted, Whole, DeliveredWhole
  <1> QED
    BY <1>1, <1>2, <1>3, PTL

-----------------------------------------------------------------------------
(* The verification form, for any number of submissions.  What the card    *)
(* shows, what a change of language would render and what the last         *)
(* submission said are one answer, and a submission that waits for the     *)
(* original has a bundle that verified.                                    *)

SubmissionFields == {"stage", "document", "policy", "original"}

Submitted ==
    /\ DOMAIN submissions = Submissions
    /\ \A s \in Submissions :
         /\ DOMAIN submissions[s] = SubmissionFields
         /\ submissions[s].stage = "comparing" =>
              Verifies(submissions[s].document, submissions[s].policy)

\* What an answer promises is true of the bundle, policy and original it names.
Promises(answer) ==
    /\ Verifies(answer.document, answer.policy)
    /\ answer.headline = "pinned" =>
         /\ answer.policy.pin = answer.document.signer /\ answer.document.fresh
         /\ answer.original # Blank => answer.original.file = answer.document.original

OneAnswer ==
    /\ shown = last /\ verification = last
    /\ status # "" => last = Blank
    /\ last # Blank => Promises(last)

CardInv == Submitted /\ OneAnswer

\* What Move leaves of the submissions.
LEMMA Moved ==
    ASSUME Submitted, NEW s \in Submissions, NEW stage, Move(s, stage),
           stage = "comparing" => Verifies(submissions[s].document, submissions[s].policy)
    PROVE  Submitted'
  <1>1. submissions' = [submissions EXCEPT ![s].stage = stage]
    BY DEF Move
  <1>2. \A x \in Submissions :
           /\ DOMAIN submissions'[x] = SubmissionFields
           /\ submissions'[x].stage = (IF x = s THEN stage ELSE submissions[x].stage)
           /\ submissions'[x].document = submissions[x].document
           /\ submissions'[x].policy = submissions[x].policy
    BY <1>1 DEF Submitted, SubmissionFields
  <1>3. DOMAIN submissions' = Submissions
    BY <1>1 DEF Submitted
  <1>4. QED
    BY <1>2, <1>3 DEF Submitted

LEMMA Failed ==
    ASSUME CardInv, NEW s \in Submissions, Fail(s)
    PROVE  CardInv'
  <1>1. Submitted'
    BY Moved DEF Fail, CardInv
  <1>2. OneAnswer'
    BY DEF Fail, OneAnswer
  <1>3. QED
    BY <1>1, <1>2 DEF CardInv

\* Render keeps the promises, if the bundle has verified and the original, if
\* there is one, is the bundle's whenever it is said to match.
LEMMA Rendered ==
    ASSUME CardInv, NEW s \in Submissions, NEW original, NEW match \in BOOLEAN,
           Render(s, original, match),
           Verifies(submissions[s].document, submissions[s].policy),
           match /\ original # Blank => original.file = submissions[s].document.original
    PROVE  CardInv'
  <1> DEFINE document == submissions[s].document
             policy == submissions[s].policy
  <1>1. PICK answer :
           /\ answer = [by |-> s, document |-> document, policy |-> policy,
                        original |-> original, headline |-> Headline(document, policy, match)]
           /\ verification' = answer /\ shown' = answer /\ status' = "" /\ last' = answer
    BY DEF Render
  <1>2. answer.headline = "pinned" => match /\ document.fresh /\ policy.pin = document.signer
    BY <1>1 DEF Headline, Trust
  <1>3. /\ answer.document = document
        /\ answer.policy = policy
        /\ answer.original = original
    BY <1>1
  <1> HIDE DEF document, policy
  <1>4. Promises(answer)
    BY <1>2, <1>3 DEF Promises, document, policy
  <1>5. OneAnswer'
    BY <1>1, <1>4 DEF OneAnswer, Promises, Verifies
  <1>6. Submitted'
    BY Moved DEF Render, CardInv
  <1>7. QED
    BY <1>5, <1>6 DEF CardInv

\* A submission takes something from the form and waits on; only one whose
\* bundle has verified goes on to compare.
LEMMA TakesOn ==
    ASSUME CardInv, NEW s \in Submissions, NEW new,
           submissions' = [submissions EXCEPT ![s] = new],
           DOMAIN new = SubmissionFields,
           new.stage = "comparing" => Verifies(new.document, new.policy),
           UNCHANGED <<verification, shown, status, last>>
    PROVE  CardInv'
  <1>1. OneAnswer'
    BY DEF CardInv, OneAnswer, Promises, Verifies
  <1>2. \A x \in Submissions : submissions'[x] = IF x = s THEN new ELSE submissions[x]
    BY DEF CardInv, Submitted
  <1>3. DOMAIN submissions' = Submissions
    BY DEF CardInv, Submitted
  <1>4. QED
    BY <1>1, <1>2, <1>3 DEF CardInv, Submitted

LEMMA BundleVerifiedStep ==
    ASSUME CardInv, NEW s \in Submissions, BundleVerified(s)
    PROVE  CardInv'
  <1> DEFINE document == submissions[s].document
             original == form.original
  <1>1. CASE Fail(s)
    BY <1>1, Failed
  <1>2. CASE /\ Verifies(document, submissions[s].policy)
             /\ Render(s, Blank, TRUE)
    BY <1>2, Rendered
  <1>3. CASE /\ Verifies(document, submissions[s].policy)
             /\ submissions' = [submissions EXCEPT ![s].stage = "comparing",
                                                   ![s].original = original]
             /\ UNCHANGED <<verification, shown, status, last>>
    <2>1. PICK new : /\ new = [submissions[s] EXCEPT !.stage = "comparing",
                                                     !.original = original]
                     /\ submissions' = [submissions EXCEPT ![s] = new]
      BY <1>3 DEF CardInv, Submitted
    <2>2. DOMAIN new = SubmissionFields /\ new.stage = "comparing"
      BY <2>1 DEF CardInv, Submitted, SubmissionFields
    <2>3. new.document = document /\ new.policy = submissions[s].policy
      BY <2>1 DEF CardInv, Submitted, SubmissionFields
    <2> HIDE DEF document, original
    <2>4. QED
      BY <1>3, <2>1, <2>2, <2>3, TakesOn
  <1>4. QED
    BY <1>1, <1>2, <1>3 DEF BundleVerified

LEMMA CardStep == CardInv /\ [VerifyNext]_verifyVars => CardInv'
  <1> SUFFICES ASSUME CardInv, [VerifyNext]_verifyVars PROVE CardInv'
    OBVIOUS
  <1>1. CASE UNCHANGED verifyVars \/ ChangeForm
    BY <1>1 DEF verifyVars, ChangeForm, CardInv, Submitted, OneAnswer, Promises, Verifies
  <1>2. ASSUME NEW s \in Submissions, SubmitBlank(s)
        PROVE  CardInv'
    <2>1. Submitted'
      BY <1>2, Moved DEF SubmitBlank, CardInv
    <2>2. QED
      BY <1>2, <2>1 DEF SubmitBlank, CardInv, OneAnswer
  <1>3. ASSUME NEW s \in Submissions, Submit(s)
        PROVE  CardInv'
    <2>1. PICK new : /\ new = [submissions[s] EXCEPT !.stage = "reading",
                                                     !.document = form.document]
                     /\ submissions' = [submissions EXCEPT ![s] = new]
      BY <1>3 DEF Submit, CardInv, Submitted
    <2>2. DOMAIN new = SubmissionFields /\ new.stage = "reading"
      BY <2>1 DEF CardInv, Submitted, SubmissionFields
    <2>3. QED
      BY <1>3, <2>1, <2>2, TakesOn DEF Submit
  <1>4. ASSUME NEW s \in Submissions, BundleRead(s)
        PROVE  CardInv'
    <2>1. CASE Fail(s)
      BY <2>1, Failed
    <2>2. CASE /\ submissions' = [submissions EXCEPT ![s].stage = "verifying",
                                                     ![s].policy = form.policy]
               /\ UNCHANGED <<verification, shown, status, last>>
      <3>1. PICK new : /\ new = [submissions[s] EXCEPT !.stage = "verifying",
                                                       !.policy = form.policy]
                       /\ submissions' = [submissions EXCEPT ![s] = new]
        BY <2>2 DEF CardInv, Submitted
      <3>2. DOMAIN new = SubmissionFields /\ new.stage = "verifying"
        BY <3>1 DEF CardInv, Submitted, SubmissionFields
      <3>3. QED
        BY <2>2, <3>1, <3>2, TakesOn
    <2>3. QED
      BY <1>4, <2>1, <2>2 DEF BundleRead
  <1>5. ASSUME NEW s \in Submissions, OriginalRead(s)
        PROVE  CardInv'
    <2>1. Verifies(submissions[s].document, submissions[s].policy)
      BY <1>5 DEF OriginalRead, CardInv, Submitted
    <2>2. PICK match \in BOOLEAN :
             match = (submissions[s].original.file = submissions[s].document.original)
      OBVIOUS
    <2>3. QED
      BY <1>5, <2>1, <2>2, Failed, Rendered DEF OriginalRead
  <1>6. CASE ChangeLocale
    BY <1>6 DEF ChangeLocale, CardInv, Submitted, OneAnswer, Promises, Verifies
  <1>7. QED
    BY <1>1, <1>2, <1>3, <1>4, <1>5, <1>6, BundleVerifiedStep DEF VerifyNext

\* However many submissions overlap and the form changes under them, the card
\* shows what the last one said, promised of one bundle, policy and original
\* (verify-form of web/apostille-page.mjs).
THEOREM LastAnswer == VerifyInit /\ [][VerifyNext]_verifyVars => []ResultOfLastAnswer
  <1>1. VerifyInit => CardInv
    <2> SUFFICES ASSUME VerifyInit PROVE CardInv
      OBVIOUS
    <2>1. Submitted
      BY DEF VerifyInit, Submitted, SubmissionFields
    <2>2. QED
      BY <2>1 DEF VerifyInit, CardInv, OneAnswer
  <1>2. CardInv => ResultOfLastAnswer
    BY DEF CardInv, OneAnswer, Promises, ResultOfLastAnswer
  <1> QED
    BY <1>1, <1>2, CardStep, PTL
==============================================================================
