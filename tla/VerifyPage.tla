------------------------------ MODULE VerifyPage ------------------------------
(***************************************************************************)
(* The verification form (web/apostille-page.mjs, verify-form), online or  *)
(* in the offline verifier.  A submission takes the bundle file from the   *)
(* form, the policy (pins, evaluation time, versions) once that file has   *)
(* been read, and the original once the bundle has been verified; the form *)
(* may change meanwhile, and be submitted again before the first           *)
(* submission has ended: none is cancelled.                                *)
(***************************************************************************)
EXTENDS Integers

CONSTANTS Submissions,   \* bounds how often the form is submitted
          Documents,     \* bundle files: [readable, erc8004, version, valid, signer, fresh, original]
          Policies,      \* [complete, pin, versions]
          Originals,     \* [file, large]
          MaxChanges,    \* bounds changes of the form
          Blank          \* no file, nothing shown, no answer

VARIABLES form,          \* what the fields hold
          changes,
          submissions,   \* each one: stage and what it has taken from the form
          verification,  \* state.verification
          shown,         \* what the result card shows
          status,        \* the line below the form
          last           \* what the submission that ended last had to say

verifyVars == <<form, changes, submissions, verification, shown, status, last>>

Busy(s) == submissions[s].stage \in {"reading", "verifying", "comparing"}

Move(s, stage) == submissions' = [submissions EXCEPT ![s].stage = stage]

\* The fields' files and texts, as the user last left them.
ChangeForm ==
    /\ changes < MaxChanges /\ changes' = changes + 1
    /\ \/ \E document \in Documents \cup {Blank} : form' = [form EXCEPT !.document = document]
       \/ \E policy \in Policies : form' = [form EXCEPT !.policy = policy]
       \/ \E original \in Originals \cup {Blank} : form' = [form EXCEPT !.original = original]
    /\ form' # form
    /\ UNCHANGED <<submissions, verification, shown, status, last>>

\* A submission without a bundle clears what is shown.
SubmitBlank(s) ==
    /\ submissions[s].stage = "unused" /\ form.document = Blank
    /\ Move(s, "ended")
    /\ verification' = Blank /\ shown' = Blank /\ status' = "" /\ last' = Blank
    /\ UNCHANGED <<form, changes>>

Submit(s) ==
    /\ submissions[s].stage = "unused" /\ form.document # Blank
    /\ submissions' = [submissions EXCEPT ![s].stage = "reading",
                                          ![s].document = form.document]
    /\ UNCHANGED <<form, changes, verification, shown, status, last>>

\* A slip: the older result is only hidden.
FailHides(s) ==
    /\ Move(s, "ended")
    /\ shown' = Blank /\ status' = "verifyFail" /\ last' = Blank
    /\ UNCHANGED <<form, changes, verification>>

\* The error takes the result of an older submission away.
Fail(s) ==
    /\ Move(s, "ended")
    /\ verification' = Blank /\ shown' = Blank /\ status' = "verifyFail" /\ last' = Blank
    /\ UNCHANGED <<form, changes>>

\* The binding profile is held against acceptedProtocols before verification.
AcceptsProfile(document, policy) ==
    document.erc8004 => document.version \in policy.versions

BundleRead(s) ==
    LET document == submissions[s].document
    IN  /\ submissions[s].stage = "reading"
        /\ IF document.readable /\ form.policy.complete /\ AcceptsProfile(document, form.policy)
           THEN /\ submissions' = [submissions EXCEPT ![s].stage = "verifying",
                                                      ![s].policy = form.policy]
                /\ UNCHANGED <<form, changes, verification, shown, status, last>>
           ELSE Fail(s)

\* What verifyBundle or verifyERC8004Binding and the headline say.  Another
\* issuer than the pinned one is an error for a binding, not for a bundle.
Verifies(document, policy) ==
    /\ document.valid /\ document.version \in policy.versions
    /\ document.erc8004 /\ policy.pin # Blank => policy.pin.issuer = document.signer.issuer

Trust(document, policy) ==
    IF policy.pin # Blank /\ policy.pin = document.signer THEN "pinned" ELSE "untrusted"

Headline(document, policy, match) ==
    CASE ~match -> "failure"
      [] match /\ ~document.fresh -> "historical"
      [] OTHER -> Trust(document, policy)

Render(s, original, match) ==
    LET document == submissions[s].document
        policy == submissions[s].policy
        answer == [by |-> s, document |-> document, policy |-> policy, original |-> original,
                   headline |-> Headline(document, policy, match)]
    IN  /\ Move(s, "ended")
        /\ verification' = answer /\ shown' = answer /\ status' = "" /\ last' = answer
        /\ UNCHANGED <<form, changes>>

BundleVerified(s) ==
    LET document == submissions[s].document
        original == form.original
        refused == \/ ~Verifies(document, submissions[s].policy)
                   \/ original # Blank /\ original.large
    IN  /\ submissions[s].stage = "verifying"
        /\ \/ refused /\ Fail(s)
           \/ ~refused /\ (document.erc8004 \/ original = Blank) /\ Render(s, Blank, TRUE)
           \/ /\ ~refused /\ ~document.erc8004 /\ original # Blank
              /\ submissions' = [submissions EXCEPT ![s].stage = "comparing",
                                                    ![s].original = original]
              /\ UNCHANGED <<form, changes, verification, shown, status, last>>

\* The file may be unreadable by now.
OriginalRead(s) ==
    /\ submissions[s].stage = "comparing"
    /\ \/ Render(s, submissions[s].original,
                 submissions[s].original.file = submissions[s].document.original)
       \/ Fail(s)

\* translate: another language in the offline page renders the result again.
ChangeLocale ==
    /\ shown' = IF verification = Blank THEN shown ELSE verification
    /\ UNCHANGED <<form, changes, submissions, verification, status, last>>

VerifyInit ==
    /\ form \in [document : Documents \cup {Blank}, policy : Policies,
                 original : Originals \cup {Blank}]
    /\ changes = 0
    /\ submissions = [s \in Submissions |-> [stage |-> "unused", document |-> Blank,
                                             policy |-> Blank, original |-> Blank]]
    /\ verification = Blank /\ shown = Blank /\ status = "" /\ last = Blank

VerifyNext ==
    \/ ChangeForm
    \/ \E s \in Submissions : SubmitBlank(s) \/ Submit(s)
    \/ \E s \in Submissions : BundleRead(s) \/ BundleVerified(s) \/ OriginalRead(s)
    \/ ChangeLocale

\* Reading files and verifying come to an end.
VerifyFairness ==
    \A s \in Submissions : WF_verifyVars(BundleRead(s) \/ BundleVerified(s) \/ OriginalRead(s))

\* However submissions overlap and the form changes under them, the card shows
\* what the submission that ended last had to say and nothing beside an error,
\* and it promises a pinned key, a fresh certificate or a matching original
\* only of the one bundle, policy and original of that submission.
ResultOfLastAnswer ==
    /\ shown = last
    /\ status # "" => shown = Blank
    /\ shown # Blank =>
         /\ Verifies(shown.document, shown.policy)
         /\ shown.headline = "pinned" =>
              /\ shown.policy.pin = shown.document.signer /\ shown.document.fresh
              /\ shown.original # Blank => shown.original.file = shown.document.original
==============================================================================
