------------------------------- MODULE HostedRun -------------------------------
(***************************************************************************)
(* The SDK's hosted example (sdk/apostille-js/examples/hosted.mjs): one    *)
(* run of the script signs in, registers its agent if need be, submits one *)
(* original and downloads the certificate.  Keys and registration live in  *)
(* a state directory that later and simultaneous runs share; each run has  *)
(* an attempt directory of its own.  A run may end anywhere: a check, a    *)
(* request or a write fails, or the process is killed.  Files are created  *)
(* exclusively and written afterwards, so a run that ends in between       *)
(* leaves a file that nothing can read and nobody replaces.                *)
(***************************************************************************)

CONSTANTS Runs,     \* runs of the script, one after the other or at once
          Setting,  \* what each run was started with
          Issuers, Originals, None

Visibilities == {"private", "public"}

Keys == {"adminKey", "agentKey"} \X Runs
Registrations == [admin : Keys, agent : Keys, issuer : Issuers, by : Runs]

ASSUME HostedAssumption ==
    /\ Setting \in [Runs -> [issuer : Issuers, original : Originals,
                             visibility : Visibilities]]
    /\ None \notin Runs \cup Keys \cup Registrations

\* Files of the state directory, and of an attempt.
SharedFiles == {"adminKey", "agentKey", "registration"}
AttemptFiles == {"statement", "grant", "issued", "downloaded"}
Files == SharedFiles \cup AttemptFiles

Path(r, f) == <<IF f \in SharedFiles THEN None ELSE r, f>>
Paths == ({None} \X SharedFiles) \cup (Runs \X AttemptFiles)

\* The script in order.  "me" is followed by "grant" if the agent is listed.
After(stage) ==
    CASE stage = "adminKey" -> "agentKey"
      [] stage = "agentKey" -> "registration"
      [] stage = "registration" -> "check"
      [] stage = "statement" -> "login"
      [] stage = "login" -> "me"
      [] stage = "register" -> "grant"
      [] stage = "grant" -> "submit"
      [] stage = "issued" -> "download"
      [] stage = "downloaded" -> "verify"

VARIABLES runs,          \* each run: stage, step within it, what it holds
          disk,          \* complete files
          writing,       \* files created and not complete, and by whom
          registered,    \* the service's registrations
          expired,       \* registrations whose delegation has run out
          certificates   \* the service's certificates

vars == <<runs, disk, writing, registered, expired, certificates>>

(***************************************************************************)
(* Steps of a run                                                          *)
(***************************************************************************)

At(r, stage, step) == runs[r].stage = stage /\ runs[r].step = step
Held(r, f) == runs[r].holds[f]

Move(r, stage, step) ==
    runs' = [runs EXCEPT ![r].stage = stage, ![r].step = step]

Take(r, f, value, stage, step) ==
    runs' = [runs EXCEPT ![r].stage = stage, ![r].step = step, ![r].holds[f] = value]

onDisk == <<disk, writing>>
atService == <<registered, expired, certificates>>

Start(r) ==
    /\ At(r, "idle", "begin")
    /\ Move(r, "adminKey", "begin")
    /\ UNCHANGED <<onDisk, atService>>

\* What a run makes when the state directory has no such file.
Made(r, f) ==
    IF f = "registration"
    THEN [admin |-> Held(r, "adminKey"), agent |-> Held(r, "agentKey"),
          issuer |-> Setting[r].issuer, by |-> r]
    ELSE <<f, r>>

\* A complete file is used, an absent one (ENOENT) made; any other error, such
\* as a file that does not parse, ends the run.
Load(r, f) ==
    LET p == Path(r, f)
    IN  /\ At(r, f, "begin")
        /\ writing[p] = None
        /\ IF disk[p] = None
           THEN Take(r, f, Made(r, f), f, "create")
           ELSE Take(r, f, disk[p], After(f), "begin")
        /\ UNCHANGED <<onDisk, atService>>

\* A slip: nobody waits for the write.
CreateAndGoOn(r, f) ==
    LET p == Path(r, f)
    IN  /\ At(r, f, "create")
        /\ disk[p] = None /\ writing[p] = None
        /\ writing' = [writing EXCEPT ![p] = r]
        /\ Move(r, After(f), "begin")
        /\ UNCHANGED <<disk, atService>>

\* save: flag 'wx' fails if the file exists.
Create(r, f) ==
    LET p == Path(r, f)
    IN  /\ At(r, f, "create")
        /\ disk[p] = None /\ writing[p] = None
        /\ writing' = [writing EXCEPT ![p] = r]
        /\ Move(r, f, "write")
        /\ UNCHANGED <<disk, atService>>

Write(r, f) ==
    LET p == Path(r, f)
    IN  /\ At(r, f, "write")
        /\ disk' = [disk EXCEPT ![p] = Held(r, f)]
        /\ writing' = [writing EXCEPT ![p] = None]
        /\ Move(r, After(f), "begin")
        /\ UNCHANGED atService

\* The registration must be this run's issuer's, its administrator's and
\* alive; createStatement takes only the agent's own key.
Check(r) ==
    LET reg == Held(r, "registration")
    IN  /\ At(r, "check", "begin")
        /\ reg.issuer = Setting[r].issuer
        /\ reg.admin = Held(r, "adminKey")
        /\ reg.agent = Held(r, "agentKey")
        /\ reg \notin expired
        /\ Take(r, "statement", [registration |-> reg, original |-> Setting[r].original,
                                 by |-> r],
                "statement", "create")
        /\ UNCHANGED <<onDisk, atService>>

Login(r) ==
    /\ At(r, "login", "begin")
    /\ Move(r, "me", "begin")
    /\ UNCHANGED <<onDisk, atService>>

\* The answer lists what is registered at that moment.
ServeMe(r) ==
    /\ At(r, "me", "begin")
    /\ Move(r, IF Held(r, "registration") \in registered THEN "grant" ELSE "register", "begin")
    /\ UNCHANGED <<onDisk, atService>>

\* Registering what is registered returns the stored record.
ServeRegistration(r) ==
    /\ At(r, "register", "begin")
    /\ Held(r, "registration") \notin expired
    /\ registered' = registered \cup {Held(r, "registration")}
    /\ Move(r, "grant", "begin")
    /\ UNCHANGED <<onDisk, expired, certificates>>

CreateGrant(r) ==
    /\ At(r, "grant", "begin")
    /\ Take(r, "grant", [statement |-> Held(r, "statement"),
                         registration |-> Held(r, "registration"),
                         visibility |-> Setting[r].visibility],
            "grant", "create")
    /\ UNCHANGED <<onDisk, atService>>

\* The service issues; its answer may be lost, or be another certificate or
\* say of a private one that it is public.
ServeSubmission(r) ==
    LET reg == Held(r, "registration")
    IN  /\ At(r, "submit", "begin")
        /\ reg \in registered \ expired
        /\ certificates' = certificates \cup {[statement |-> Held(r, "statement"),
                                               grant |-> Held(r, "grant")]}
        /\ \E c \in certificates', public \in BOOLEAN :
             runs' = [runs EXCEPT ![r].step = "answered",
                                  ![r].answer = [certificate |-> c, public |-> public]]
        /\ UNCHANGED <<onDisk, registered, expired>>

\* A slip: any certificate is taken for the statement's.
SubmissionAnsweredAny(r) ==
    /\ At(r, "submit", "answered")
    /\ Take(r, "issued", runs[r].answer.certificate, "issued", "create")
    /\ UNCHANGED <<onDisk, atService>>

\* submit checks the digest of the statement and the visibility.
SubmissionAnswered(r) ==
    LET answer == runs[r].answer
    IN  /\ At(r, "submit", "answered")
        /\ answer.certificate.statement = Held(r, "statement")
        /\ Setting[r].visibility = "private" => ~answer.public
        /\ Take(r, "issued", answer.certificate, "issued", "create")
        /\ UNCHANGED <<onDisk, atService>>

\* getBundle verifies what it is given, of this issuer; it does not compare it
\* with the id.
ServeDownload(r) ==
    /\ At(r, "download", "begin")
    /\ \E c \in certificates :
         /\ c.statement.registration.issuer = Setting[r].issuer
         /\ Take(r, "downloaded", c, "downloaded", "create")
    /\ UNCHANGED <<onDisk, atService>>

\* Only the original decides whether the download was the right one.
Verify(r) ==
    /\ At(r, "verify", "begin")
    /\ Held(r, "downloaded").statement.original = Setting[r].original
    /\ Move(r, "done", "begin")
    /\ UNCHANGED <<onDisk, atService>>

\* A failure or the end of the process; a request may have been served.
Stop(r) ==
    /\ runs[r].stage \notin {"idle", "done", "ended"}
    /\ Move(r, "ended", "begin")
    /\ UNCHANGED <<onDisk, atService>>

(***************************************************************************)
(* Around the runs                                                         *)
(***************************************************************************)

\* The user removes what a run that ended did not finish.
RemovePartial(p) ==
    /\ writing[p] # None /\ runs[writing[p]].stage = "ended"
    /\ writing' = [writing EXCEPT ![p] = None]
    /\ UNCHANGED <<runs, disk, atService>>

Expire(reg) ==
    /\ reg \notin expired
    /\ expired' = expired \cup {reg}
    /\ UNCHANGED <<runs, onDisk, registered, certificates>>

(***************************************************************************)
(* The specification                                                       *)
(***************************************************************************)

Init ==
    /\ runs = [r \in Runs |-> [stage |-> "idle", step |-> "begin", answer |-> None,
                               holds |-> [f \in Files |-> None]]]
    /\ disk = [p \in Paths |-> None]
    /\ writing = [p \in Paths |-> None]
    /\ registered = {} /\ expired = {} /\ certificates = {}

Step(r) ==
    \/ Start(r)
    \/ \E f \in SharedFiles : Load(r, f)
    \/ \E f \in Files : Create(r, f) \/ Write(r, f)
    \/ Check(r)
    \/ Login(r)
    \/ ServeMe(r)
    \/ ServeRegistration(r)
    \/ CreateGrant(r)
    \/ ServeSubmission(r)
    \/ SubmissionAnswered(r)
    \/ ServeDownload(r)
    \/ Verify(r)
    \/ Stop(r)

Next ==
    \/ \E r \in Runs : Step(r)
    \/ \E p \in Paths : RemovePartial(p)
    \/ \E reg \in registered : Expire(reg)

Spec == Init /\ [][Next]_vars

(***************************************************************************)
(* Properties                                                              *)
(***************************************************************************)

\* However runs overlap and wherever they end, the service knows of the state
\* directory only the registration saved there, and both its keys are saved,
\* so one agent at most and never one whose key is lost ('wx', and saving
\* before the first request).
RegisteredIsSaved ==
    \A reg \in registered :
        /\ disk[Path(reg.by, "registration")] = reg
        /\ disk[Path(reg.by, "adminKey")] = reg.admin
        /\ disk[Path(reg.by, "agentKey")] = reg.agent

\* "The example saves statement/grant before submission ..., so partial
\* failures leave local recovery material": whatever certificate the service
\* has issued, the attempt that asked for it has statement and grant.
CertificatesTraceable ==
    \A c \in certificates :
        /\ disk[Path(c.statement.by, "statement")] = c.statement
        /\ disk[Path(c.statement.by, "grant")] = c.grant

\* The bundle an attempt keeps as issued is for its own statement and grant,
\* though the service may mix its answers up; a run that reports success has
\* downloaded a certificate for its original.
IssuedBelongs ==
    \A r \in Runs :
        LET issued == disk[Path(r, "issued")]
        IN  /\ issued # None =>
                 /\ issued.statement = disk[Path(r, "statement")]
                 /\ issued.grant = disk[Path(r, "grant")]
            /\ runs[r].stage = "done" =>
                 disk[Path(r, "downloaded")].statement.original = Setting[r].original
==============================================================================
