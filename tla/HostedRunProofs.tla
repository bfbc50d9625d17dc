---------------------------- MODULE HostedRunProofs ----------------------------
(***************************************************************************)
(* Theorems about HostedRun, for any number of runs, any settings and any  *)
(* order of their steps.  What makes them true is that a file is written   *)
(* by the run that created it and never changes (Exclusive), so what a run *)
(* holds after it has loaded or saved a file is what the file still says.  *)
(***************************************************************************)
EXTENDS HostedRun, TLAPS

adminFile == <<None, "adminKey">>
agentFile == <<None, "agentKey">>
registrationFile == <<None, "registration">>

\* Every variable is the function, every run the record, that Init makes it.
RunShape ==
    /\ DOMAIN runs = Runs
    /\ \A r \in Runs : /\ DOMAIN runs[r] = {"stage", "step", "answer", "holds"}
                       /\ DOMAIN runs[r].holds = Files

Shape == RunShape /\ DOMAIN disk = Paths /\ DOMAIN writing = Paths

\* A file being written is not complete, and its writer created it.
Exclusive ==
    /\ \A p \in Paths : writing[p] # None => disk[p] = None
    /\ \A r \in Runs, f \in Files : At(r, f, "write") => writing[Path(r, f)] = r

\* The first part: the state directory.

HasAdmin(r) == runs[r].stage \notin {"idle", "ended", "adminKey"}
HasAgent(r) == HasAdmin(r) /\ runs[r].stage # "agentKey"
HasRegistration(r) == HasAgent(r) /\ runs[r].stage # "registration"

Making ==
    \A r \in Runs, f \in SharedFiles :
        runs[r].stage = f /\ runs[r].step \in {"create", "write"} => Held(r, f) = Made(r, f)

Holding ==
    \A r \in Runs :
        /\ HasAdmin(r) => /\ Held(r, "adminKey") = disk[adminFile]
                          /\ disk[adminFile] \in Keys
        /\ HasAgent(r) => /\ Held(r, "agentKey") = disk[agentFile]
                          /\ disk[agentFile] \in Keys
        /\ HasRegistration(r) => /\ Held(r, "registration") = disk[registrationFile]
                                 /\ disk[registrationFile] # None

Saved ==
    /\ disk[adminFile] \in Keys \cup {None}
    /\ disk[agentFile] \in Keys \cup {None}
    /\ disk[registrationFile] # None =>
         /\ disk[adminFile] \in Keys /\ disk[registrationFile].admin = disk[adminFile]
         /\ disk[agentFile] \in Keys /\ disk[registrationFile].agent = disk[agentFile]

Known == \A reg \in registered : reg = disk[registrationFile] /\ reg # None

StateInv == Shape /\ Exclusive /\ Making /\ Holding /\ Saved /\ Known

\* The second part: the attempts.

AfterStatement(r) ==
    runs[r].stage \in {"login", "me", "register", "grant", "submit", "issued",
                       "download", "downloaded", "verify", "done"}
AfterGrant(r) ==
    runs[r].stage \in {"submit", "issued", "download", "downloaded", "verify", "done"}

Attempts ==
    \A r \in Runs :
        /\ runs[r].stage = "statement" => Held(r, "statement").by = r
        /\ AfterStatement(r) => /\ Held(r, "statement").by = r
                                /\ disk[<<r, "statement">>] = Held(r, "statement")
        /\ AfterGrant(r) => disk[<<r, "grant">>] = Held(r, "grant")
        /\ At(r, "submit", "answered") => runs[r].answer.certificate \in certificates
        /\ runs[r].stage = "issued" => /\ Held(r, "issued") \in certificates
                                       /\ Held(r, "issued").statement = Held(r, "statement")
        /\ runs[r].stage \in {"verify", "done"} =>
             disk[<<r, "downloaded">>] = Held(r, "downloaded")
        /\ runs[r].stage = "done" =>
             Held(r, "downloaded").statement.original = Setting[r].original

\* The attempt that asked for a certificate has written all it needs and will
\* not write these files again.
Traced ==
    \A c \in certificates :
        /\ c.statement.by \in Runs
        /\ AfterGrant(c.statement.by) \/ runs[c.statement.by].stage = "ended"
        /\ disk[<<c.statement.by, "statement">>] = c.statement
        /\ disk[<<c.statement.by, "grant">>] = c.grant

Kept ==
    \A r \in Runs :
        disk[<<r, "issued">>] # None =>
            /\ disk[<<r, "issued">>] \in certificates
            /\ disk[<<r, "issued">>].statement.by = r

AttemptInv == Shape /\ Exclusive /\ Attempts /\ Traced /\ Kept

(***************************************************************************)
(* What the steps do, record by record                                     *)
(***************************************************************************)

\* The run r becomes this record, and no other changes.
Becomes(r, stage, step, answer, holds) ==
    /\ RunShape'
    /\ \A q \in Runs : q # r => runs'[q] = runs[q]
    /\ runs'[r].stage = stage /\ runs'[r].step = step
    /\ runs'[r].answer = answer /\ runs'[r].holds = holds

LEMMA MoveBecomes ==
    ASSUME RunShape, NEW r \in Runs, NEW stage, NEW step, Move(r, stage, step)
    PROVE  Becomes(r, stage, step, runs[r].answer, runs[r].holds)
  BY DEF RunShape, Becomes, Move

LEMMA TakeBecomes ==
    ASSUME RunShape, NEW r \in Runs, NEW f \in Files, NEW value, NEW stage, NEW step,
           Take(r, f, value, stage, step)
    PROVE  Becomes(r, stage, step, runs[r].answer, [runs[r].holds EXCEPT ![f] = value])
  BY DEF RunShape, Becomes, Take

LEMMA AnswerBecomes ==
    ASSUME RunShape, NEW r \in Runs, NEW step, NEW answer,
           runs' = [runs EXCEPT ![r].step = step, ![r].answer = answer]
    PROVE  Becomes(r, runs[r].stage, step, answer, runs[r].holds)
  BY DEF RunShape, Becomes
\* A path of the attempts belongs to one run.
LEMMA PathsApart ==
    ASSUME NEW q \in Runs, NEW r \in Runs, NEW f \in Files, NEW g \in Files
    PROVE  /\ Path(r, f) \in Paths
           /\ Path(q, g) = Path(r, f) => f = g
           /\ f \in AttemptFiles => Path(r, f) = <<r, f>>
           /\ f \in AttemptFiles /\ Path(q, g) = Path(r, f) => q = r
           /\ Path(r, "adminKey") = adminFile
           /\ Path(r, "agentKey") = agentFile
           /\ Path(r, "registration") = registrationFile
           /\ adminFile \in Paths /\ agentFile \in Paths /\ registrationFile \in Paths
  BY HostedAssumption DEF Path, Paths, Files, SharedFiles, AttemptFiles,
     adminFile, agentFile, registrationFile

\* Taking a file of the attempt leaves what is held of the state directory.
LEMMA TakeOfAttempt ==
    ASSUME RunShape, NEW r \in Runs, NEW f \in AttemptFiles, NEW value, NEW stage, NEW step,
           Take(r, f, value, stage, step)
    PROVE  /\ RunShape'
           /\ \A q \in Runs : q # r => runs'[q] = runs[q]
           /\ runs'[r].stage = stage /\ runs'[r].step = step
           /\ runs'[r].answer = runs[r].answer
           /\ runs'[r].holds[f] = value
           /\ \A g \in Files : g # f => runs'[r].holds[g] = runs[r].holds[g]
  <1>1. f \in Files
    BY DEF Files
  <1>2. Becomes(r, stage, step, runs[r].answer, [runs[r].holds EXCEPT ![f] = value])
    BY <1>1, TakeBecomes
  <1> QED
    BY <1>1, <1>2 DEF RunShape, Becomes

\* The steps of a run that touch no file, and what they have in common.
Elsewhere(r) ==
    \/ Start(r) \/ Check(r) \/ Login(r) \/ ServeMe(r) \/ ServeRegistration(r)
    \/ CreateGrant(r) \/ ServeSubmission(r) \/ SubmissionAnswered(r)
    \/ ServeDownload(r) \/ Verify(r) \/ Stop(r)

LEMMA ElsewhereEffect ==
    ASSUME RunShape, NEW r \in Runs, Elsewhere(r)
    PROVE  /\ RunShape'
           /\ \A q \in Runs : q # r => runs'[q] = runs[q]
           /\ \A f \in SharedFiles : runs'[r].holds[f] = runs[r].holds[f]
           /\ runs'[r].step # "write"
           /\ runs'[r].stage \in SharedFiles => runs'[r].step = "begin"
           /\ HasAdmin(r)' => HasRegistration(r)
           /\ UNCHANGED onDisk
           /\ registered' \subseteq registered \cup {Held(r, "registration")}
           /\ registered' # registered => HasRegistration(r)
  <1> USE DEF At, Held, HasAdmin, HasAgent, HasRegistration, Becomes, SharedFiles,
              onDisk, atService
  <1>1. CASE Start(r)
    BY <1>1, MoveBecomes DEF Start
  <1>2. CASE Check(r)
    BY <1>2, TakeOfAttempt DEF Check, Files, AttemptFiles
  <1>3. CASE Login(r)
    BY <1>3, MoveBecomes DEF Login
  <1>4. CASE ServeMe(r)
    BY <1>4, MoveBecomes DEF ServeMe
  <1>5. CASE ServeRegistration(r)
    BY <1>5, MoveBecomes DEF ServeRegistration
  <1>6. CASE CreateGrant(r)
    BY <1>6, TakeOfAttempt DEF CreateGrant, Files, AttemptFiles
  <1>7. CASE ServeSubmission(r)
    <2>1. PICK answer : runs' = [runs EXCEPT ![r].step = "answered", ![r].answer = answer]
      BY <1>7 DEF ServeSubmission
    <2>2. Becomes(r, runs[r].stage, "answered", answer, runs[r].holds)
      BY <2>1, AnswerBecomes
    <2>3. runs[r].stage = "submit" /\ UNCHANGED onDisk /\ UNCHANGED registered
      BY <1>7 DEF ServeSubmission
    <2> QED
      BY <2>2, <2>3
  <1>8. CASE SubmissionAnswered(r)
    BY <1>8, TakeOfAttempt DEF SubmissionAnswered, Files, AttemptFiles
  <1>9. CASE ServeDownload(r)
    BY <1>9, TakeOfAttempt DEF ServeDownload, Files, AttemptFiles
  <1>10. CASE Verify(r)
    BY <1>10, MoveBecomes DEF Verify
  <1>11. CASE Stop(r)
    BY <1>11, MoveBecomes DEF Stop
  <1> QED
    BY <1>1, <1>2, <1>3, <1>4, <1>5, <1>6, <1>7, <1>8, <1>9, <1>10, <1>11 DEF Elsewhere
\* Loading, creating and writing a file.
LEMMA LoadEffect ==
    ASSUME RunShape, NEW r \in Runs, NEW f \in SharedFiles, Load(r, f)
    PROVE  /\ RunShape'
           /\ \A q \in Runs : q # r => runs'[q] = runs[q]
           /\ \A g \in Files : g # f => runs'[r].holds[g] = runs[r].holds[g]
           /\ runs[r].stage = f /\ runs[r].step = "begin"
           /\ IF disk[Path(r, f)] = None
              THEN /\ runs'[r].stage = f /\ runs'[r].step = "create"
                   /\ runs'[r].holds[f] = Made(r, f)
              ELSE /\ runs'[r].stage = After(f) /\ runs'[r].step = "begin"
                   /\ runs'[r].holds[f] = disk[Path(r, f)]
           /\ UNCHANGED onDisk /\ UNCHANGED atService
  <1>1. f \in Files
    BY DEF Files
  <1>2. CASE disk[Path(r, f)] = None
    <2>1. Becomes(r, f, "create", runs[r].answer, [runs[r].holds EXCEPT ![f] = Made(r, f)])
      BY <1>1, <1>2, TakeBecomes DEF Load
    <2> QED
      BY <1>1, <1>2, <2>1 DEF Load, Becomes, RunShape, At
  <1>3. CASE disk[Path(r, f)] # None
    <2>1. Becomes(r, After(f), "begin", runs[r].answer,
                  [runs[r].holds EXCEPT ![f] = disk[Path(r, f)]])
      BY <1>1, <1>3, TakeBecomes DEF Load
    <2> QED
      BY <1>1, <1>3, <2>1 DEF Load, Becomes, RunShape, At
  <1> QED
    BY <1>2, <1>3

LEMMA CreateEffect ==
    ASSUME Shape, NEW r \in Runs, NEW f \in Files, Create(r, f)
    PROVE  /\ Becomes(r, f, "write", runs[r].answer, runs[r].holds)
           /\ runs[r].stage = f /\ runs[r].step = "create"
           /\ disk[Path(r, f)] = None /\ writing[Path(r, f)] = None
           /\ DOMAIN writing' = Paths
           /\ \A p \in Paths : writing'[p] = IF p = Path(r, f) THEN r ELSE writing[p]
           /\ UNCHANGED disk /\ UNCHANGED atService
  <1>1. Becomes(r, f, "write", runs[r].answer, runs[r].holds)
    BY MoveBecomes DEF Create, Shape
  <1> QED
    BY <1>1 DEF Create, Shape, At

LEMMA WriteEffect ==
    ASSUME Shape, NEW r \in Runs, NEW f \in Files, Write(r, f)
    PROVE  /\ Becomes(r, After(f), "begin", runs[r].answer, runs[r].holds)
           /\ runs[r].stage = f /\ runs[r].step = "write"
           /\ DOMAIN disk' = Paths /\ DOMAIN writing' = Paths
           /\ \A p \in Paths : disk'[p] = IF p = Path(r, f) THEN Held(r, f) ELSE disk[p]
           /\ \A p \in Paths : writing'[p] = IF p = Path(r, f) THEN None ELSE writing[p]
           /\ UNCHANGED atService
  <1>1. Becomes(r, After(f), "begin", runs[r].answer, runs[r].holds)
    BY MoveBecomes DEF Write, Shape
  <1> QED
    BY <1>1 DEF Write, Shape, At

LEMMA RemoveEffect ==
    ASSUME Shape, NEW p \in Paths, RemovePartial(p)
    PROVE  /\ writing[p] # None /\ runs[writing[p]].stage = "ended"
           /\ DOMAIN writing' = Paths
           /\ \A o \in Paths : writing'[o] = IF o = p THEN None ELSE writing[o]
           /\ UNCHANGED <<runs, disk>> /\ UNCHANGED atService
  BY DEF RemovePartial, Shape

(***************************************************************************)
(* Files are written by whom created them, once                            *)
(***************************************************************************)

LEMMA StepOfRun ==
    ASSUME NEW r \in Runs, Step(r)
    PROVE  \/ Elsewhere(r)
           \/ \E f \in SharedFiles : Load(r, f)
           \/ \E f \in Files : Create(r, f)
           \/ \E f \in Files : Write(r, f)
  BY DEF Step, Elsewhere

LEMMA ExclusiveStep == Shape /\ Exclusive /\ [Next]_vars => Shape' /\ Exclusive'
  <1> SUFFICES ASSUME Shape, Exclusive, [Next]_vars PROVE Shape' /\ Exclusive'
    OBVIOUS
  <1>1. ASSUME NEW r \in Runs, Elsewhere(r) PROVE Shape' /\ Exclusive'
    BY <1>1, ElsewhereEffect DEF Shape, Exclusive, At, onDisk
  <1>2. ASSUME NEW r \in Runs, NEW f \in SharedFiles, Load(r, f) PROVE Shape' /\ Exclusive'
    BY <1>2, LoadEffect DEF Shape, Exclusive, At, onDisk
  <1>3. ASSUME NEW r \in Runs, NEW f \in Files, Create(r, f) PROVE Shape' /\ Exclusive'
    <2>1. Shape'
      BY <1>3, CreateEffect DEF Shape, Becomes
    <2>2. \A p \in Paths : writing'[p] # None => disk'[p] = None
      BY <1>3, CreateEffect DEF Exclusive
    <2>3. ASSUME NEW q \in Runs, NEW g \in Files, At(q, g, "write")'
          PROVE  writing'[Path(q, g)] = q
      <3>1. CASE q = r
        BY <1>3, <2>3, <3>1, CreateEffect, PathsApart DEF At, Becomes
      <3>2. CASE q # r
        BY <1>3, <2>3, <3>2, CreateEffect, PathsApart, HostedAssumption
           DEF At, Becomes, Exclusive
      <3> QED
        BY <3>1, <3>2
    <2> QED
      BY <2>1, <2>2, <2>3 DEF Exclusive
  <1>4. ASSUME NEW r \in Runs, NEW f \in Files, Write(r, f) PROVE Shape' /\ Exclusive'
    <2>1. Shape'
      BY <1>4, WriteEffect DEF Shape, Becomes
    <2>2. \A p \in Paths : writing'[p] # None => disk'[p] = None
      BY <1>4, WriteEffect DEF Exclusive
    <2>3. ASSUME NEW q \in Runs, NEW g \in Files, At(q, g, "write")'
          PROVE  writing'[Path(q, g)] = q
      <3>1. q # r
        BY <1>4, <2>3, WriteEffect DEF At, Becomes
      <3>2. writing[Path(q, g)] = q /\ writing[Path(r, f)] = r
        BY <1>4, <2>3, <3>1, WriteEffect DEF At, Becomes, Exclusive
      <3> QED
        BY <1>4, <3>1, <3>2, WriteEffect, PathsApart
    <2> QED
      BY <2>1, <2>2, <2>3 DEF Exclusive
  <1>5. ASSUME NEW p \in Paths, RemovePartial(p) PROVE Shape' /\ Exclusive'
    <2>1. ASSUME NEW q \in Runs, NEW g \in Files, At(q, g, "write") PROVE Path(q, g) # p
      <3>1. g # "ended"
        BY DEF Files, SharedFiles, AttemptFiles
      <3> QED
        BY <1>5, <2>1, <3>1, RemoveEffect DEF Exclusive, At
    <2> QED
      BY <1>5, <2>1, RemoveEffect, PathsApart DEF Shape, RunShape, Exclusive, At
  <1>6. ASSUME NEW reg \in registered, Expire(reg) PROVE Shape' /\ Exclusive'
    BY <1>6 DEF Expire, onDisk, Shape, RunShape, Exclusive, At
  <1>7. CASE UNCHANGED vars
    BY <1>7 DEF vars, Shape, RunShape, Exclusive, At
  <1> QED
    BY <1>1, <1>2, <1>3, <1>4, <1>5, <1>6, <1>7, StepOfRun DEF Next

\* A complete file never changes.
LEMMA FilesStay ==
    ASSUME Shape, Exclusive, [Next]_vars, NEW p \in Paths, disk[p] # None
    PROVE  disk'[p] = disk[p]
  <1>1. ASSUME NEW r \in Runs, NEW f \in Files, Write(r, f) PROVE disk'[p] = disk[p]
    BY <1>1, WriteEffect, PathsApart, HostedAssumption DEF Exclusive, At
  <1>2. ASSUME NEW r \in Runs, Elsewhere(r) PROVE disk'[p] = disk[p]
    BY <1>2, ElsewhereEffect DEF Shape, onDisk
  <1>3. ASSUME NEW r \in Runs, NEW f \in SharedFiles, Load(r, f) PROVE disk'[p] = disk[p]
    BY <1>3 DEF Load, onDisk
  <1>4. ASSUME NEW r \in Runs, NEW f \in Files, Create(r, f) PROVE disk'[p] = disk[p]
    BY <1>4 DEF Create
  <1> QED
    BY <1>1, <1>2, <1>3, <1>4, StepOfRun DEF Next, RemovePartial, Expire, onDisk, vars
(***************************************************************************)
(* The state directory                                                     *)
(***************************************************************************)

LEMMA MadeIsSome ==
    ASSUME Holding, NEW r \in Runs, NEW f \in SharedFiles, runs[r].stage = f
    PROVE  /\ Made(r, f) # None
           /\ f = "adminKey" => Made(r, f) \in Keys
           /\ f = "agentKey" => Made(r, f) \in Keys
  <1>1. CASE f \in {"adminKey", "agentKey"}
    <2>1. Made(r, f) \in Keys
      BY <1>1 DEF Made, Keys
    <2> QED
      BY <2>1, HostedAssumption
  <1>2. CASE f = "registration"
    <2>1. HasAgent(r)
      BY <1>2 DEF HasAgent, HasAdmin
    <2>2. Held(r, "adminKey") \in Keys /\ Held(r, "agentKey") \in Keys
      BY <2>1 DEF Holding, HasAgent
    <2>3. Setting[r].issuer \in Issuers
      BY HostedAssumption
    <2>4. Made(r, f) \in Registrations
      BY <1>2, <2>2, <2>3 DEF Made, Registrations
    <2> QED
      BY <1>2, <2>4, HostedAssumption
  <1> QED
    BY <1>1, <1>2 DEF SharedFiles

LEMMA MakingStep == Shape /\ Making /\ [Next]_vars => Making'
  <1> SUFFICES ASSUME Shape, Making, [Next]_vars,
                      NEW q \in Runs, NEW g \in SharedFiles,
                      runs'[q].stage = g, runs'[q].step \in {"create", "write"}
               PROVE  Held(q, g)' = Made(q, g)'
    BY DEF Making
  <1>1. ASSUME NEW r \in Runs, Elsewhere(r) PROVE Held(q, g)' = Made(q, g)'
    BY <1>1, ElsewhereEffect DEF Shape, Making, Held, Made
  <1>2. ASSUME NEW r \in Runs, NEW f \in SharedFiles, Load(r, f)
        PROVE  Held(q, g)' = Made(q, g)'
    <2>1. CASE q # r
      <3>1. runs'[q] = runs[q]
        BY <1>2, <2>1, LoadEffect DEF Shape
      <3> QED
        BY <3>1 DEF Making, Held, Made
    <2>2. CASE q = r
      <3>1. disk[Path(r, f)] = None /\ g = f
        BY <1>2, <2>2, LoadEffect DEF Shape
      <3>2. Held(q, g)' = Made(r, f)
        BY <1>2, <2>2, <3>1, LoadEffect DEF Shape, Held
      <3>3. f = "registration" => /\ Held(r, "adminKey")' = Held(r, "adminKey")
                                  /\ Held(r, "agentKey")' = Held(r, "agentKey")
        BY <1>2, LoadEffect DEF Shape, Held, Files, SharedFiles
      <3> QED
        BY <2>2, <3>1, <3>2, <3>3 DEF Made
    <2> QED
      BY <2>1, <2>2
  <1>3. ASSUME NEW r \in Runs, NEW f \in Files, Create(r, f)
        PROVE  Held(q, g)' = Made(q, g)'
    BY <1>3, CreateEffect DEF Making, Held, Made, Becomes
  <1>4. ASSUME NEW r \in Runs, NEW f \in Files, Write(r, f)
        PROVE  Held(q, g)' = Made(q, g)'
    BY <1>4, WriteEffect DEF Making, Held, Made, Becomes
  <1>5. CASE UNCHANGED runs
    BY <1>5 DEF Making, Held, Made
  <1> QED
    BY <1>1, <1>2, <1>3, <1>4, <1>5, StepOfRun DEF Next, RemovePartial, Expire, vars

\* What has been loaded or saved is what the file says.
LEMMA HoldingStep ==
    ASSUME StateInv, [Next]_vars
    PROVE  Holding'
  <1> USE DEF StateInv
  <1> DEFINE Good(q) ==
        /\ HasAdmin(q) => /\ Held(q, "adminKey") = disk[adminFile]
                          /\ disk[adminFile] \in Keys
        /\ HasAgent(q) => /\ Held(q, "agentKey") = disk[agentFile]
                          /\ disk[agentFile] \in Keys
        /\ HasRegistration(q) => /\ Held(q, "registration") = disk[registrationFile]
                                 /\ disk[registrationFile] # None
  <1>0. Holding <=> \A q \in Runs : Good(q)
    BY DEF Holding
  <1>1. ASSUME NEW q \in Runs, runs'[q] = runs[q] PROVE Good(q)'
    <2>1. /\ HasAdmin(q)' = HasAdmin(q) /\ HasAgent(q)' = HasAgent(q)
          /\ HasRegistration(q)' = HasRegistration(q)
      BY <1>1 DEF HasAdmin, HasAgent, HasRegistration
    <2>2. \A g \in Files : Held(q, g)' = Held(q, g)
      BY <1>1 DEF Held
    <2>3. "adminKey" \in Files /\ "agentKey" \in Files /\ "registration" \in Files
      BY DEF Files, SharedFiles
    <2> QED
      BY <2>1, <2>2, <2>3, <1>0, FilesStay, PathsApart, HostedAssumption
  <1>2. ASSUME NEW r \in Runs, Elsewhere(r) PROVE Good(r)'
    <2>1. HasAdmin(r)' => HasRegistration(r)
      BY <1>2, ElsewhereEffect DEF Shape
    <2>2. \A g \in SharedFiles : Held(r, g)' = Held(r, g)
      BY <1>2, ElsewhereEffect DEF Shape, Held
    <2>3. HasRegistration(r) => HasAgent(r) /\ HasAdmin(r)
      BY DEF HasRegistration, HasAgent
    <2>4. (HasRegistration(r)' => HasAdmin(r)') /\ (HasAgent(r)' => HasAdmin(r)')
      BY DEF HasRegistration, HasAgent
    <2>5. UNCHANGED disk
      BY <1>2, ElsewhereEffect DEF Shape, onDisk
    <2> QED
      BY <2>1, <2>2, <2>3, <2>4, <2>5, <1>0 DEF SharedFiles
  <1>3. ASSUME NEW r \in Runs, NEW f \in SharedFiles, Load(r, f) PROVE Good(r)'
    <2> USE LoadEffect, PathsApart, HostedAssumption
    <2>1. CASE disk[Path(r, f)] = None
      BY <1>3, <2>1, <1>0 DEF Shape, HasAdmin, HasAgent, HasRegistration, Held, Files,
         SharedFiles, onDisk
    <2>2. CASE disk[Path(r, f)] # None
      <3>1. CASE f = "adminKey"
        BY <1>3, <2>2, <3>1, <1>0 DEF Shape, HasAdmin, HasAgent, HasRegistration, Held,
           Files, SharedFiles, onDisk, After, Saved
      <3>2. CASE f = "agentKey"
        BY <1>3, <2>2, <3>2, <1>0 DEF Shape, HasAdmin, HasAgent, HasRegistration, Held,
           Files, SharedFiles, onDisk, After, Saved
      <3>3. CASE f = "registration"
        BY <1>3, <2>2, <3>3, <1>0 DEF Shape, HasAdmin, HasAgent, HasRegistration, Held,
           Files, SharedFiles, onDisk, After, Saved
      <3> QED
        BY <3>1, <3>2, <3>3 DEF SharedFiles
    <2> QED
      BY <2>1, <2>2
  <1>4. ASSUME NEW r \in Runs, NEW f \in Files, Create(r, f) PROVE Good(r)'
    BY <1>4, CreateEffect, <1>0 DEF Becomes, HasAdmin, HasAgent, HasRegistration, Held
  <1>5. ASSUME NEW r \in Runs, NEW f \in Files, Write(r, f) PROVE Good(r)'
    <2>1. CASE f \in SharedFiles
      <3>1. Held(r, f) = Made(r, f) /\ Made(r, f) # None
        BY <1>5, <2>1, WriteEffect, MadeIsSome DEF Making
      <3>2. CASE f = "adminKey"
        BY <1>5, <3>1, <3>2, WriteEffect, MadeIsSome, PathsApart, <1>0
           DEF Becomes, HasAdmin, HasAgent, HasRegistration, Held, After, Files, SharedFiles
      <3>3. CASE f = "agentKey"
        <4>1. adminFile # agentFile
          BY DEF adminFile, agentFile
        <4> QED
          BY <1>5, <3>1, <3>3, <4>1, WriteEffect, MadeIsSome, PathsApart, <1>0
             DEF Becomes, HasAdmin, HasAgent, HasRegistration, Held, After, Files, SharedFiles
      <3>4. CASE f = "registration"
        <4>1. adminFile # registrationFile /\ agentFile # registrationFile
          BY DEF adminFile, agentFile, registrationFile
        <4> QED
          BY <1>5, <3>1, <3>4, <4>1, WriteEffect, MadeIsSome, PathsApart, <1>0
             DEF Becomes, HasAdmin, HasAgent, HasRegistration, Held, After, Files, SharedFiles
      <3> QED
        BY <2>1, <3>2, <3>3, <3>4 DEF SharedFiles
    <2>2. CASE f \in AttemptFiles
      <3>1. HasRegistration(r)
        BY <1>5, <2>2, WriteEffect DEF HasRegistration, HasAgent, HasAdmin, AttemptFiles
      <3>2. /\ disk'[adminFile] = disk[adminFile] /\ disk'[agentFile] = disk[agentFile]
            /\ disk'[registrationFile] = disk[registrationFile]
        BY <1>0, <3>1, FilesStay, PathsApart, HostedAssumption DEF HasRegistration, HasAgent
      <3> QED
        BY <1>5, <3>1, <3>2, <1>0, WriteEffect DEF Becomes, HasRegistration, HasAgent, Held
    <2> QED
      BY <2>1, <2>2 DEF Files
  <1>6. ASSUME NEW r \in Runs, Step(r), NEW q \in Runs, q # r PROVE runs'[q] = runs[q]
    BY <1>6, StepOfRun, ElsewhereEffect, LoadEffect, CreateEffect, WriteEffect
       DEF Shape, Becomes
  <1>7. (\A q \in Runs : Good(q)') => Holding'
    BY DEF Holding
  <1>8. ASSUME NEW r \in Runs, Step(r) PROVE Holding'
    <2>1. Good(r)'
      BY <1>2, <1>3, <1>4, <1>5, <1>8, StepOfRun
    <2> HIDE DEF Good
    <2> QED
      BY <1>1, <1>6, <1>7, <1>8, <2>1
  <1>9. CASE UNCHANGED runs
    <2> HIDE DEF Good
    <2> QED
      BY <1>1, <1>7, <1>9
  <1> QED
    BY <1>8, <1>9 DEF Next, RemovePartial, Expire, vars
\* The files of the state directory belong together.
LEMMA SavedStep ==
    ASSUME StateInv, [Next]_vars
    PROVE  Saved'
  <1> USE DEF StateInv
  <1>1. CASE UNCHANGED disk
    BY <1>1 DEF Saved
  <1>2. ASSUME NEW r \in Runs, NEW f \in Files, Write(r, f) PROVE Saved'
    <2>1. CASE f \in SharedFiles
      <3>1. Held(r, f) = Made(r, f)
        BY <1>2, <2>1, WriteEffect DEF Making
      <3>2. /\ adminFile # agentFile /\ adminFile # registrationFile
            /\ agentFile # registrationFile
        BY DEF adminFile, agentFile, registrationFile
      <3>3. CASE f \in {"adminKey", "agentKey"}
        <4>1. Held(r, f) \in Keys /\ runs[r].stage = f
          BY <1>2, <2>1, <3>1, <3>3, WriteEffect, MadeIsSome
        <4>2. disk'[registrationFile] = disk[registrationFile]
          BY <1>2, <3>2, <3>3, WriteEffect, PathsApart
        <4>3. disk[Path(r, f)] = None
          BY <1>2, <4>1, WriteEffect, PathsApart, HostedAssumption DEF Exclusive, At
        <4> QED
          BY <1>2, <3>2, <3>3, <4>1, <4>2, <4>3, WriteEffect, PathsApart,
             HostedAssumption DEF Saved
      <3>4. CASE f = "registration"
        <4>1. HasAgent(r)
          BY <1>2, <3>4, WriteEffect DEF HasAgent, HasAdmin
        <4>2. /\ disk[adminFile] \in Keys /\ Held(r, "adminKey") = disk[adminFile]
              /\ disk[agentFile] \in Keys /\ Held(r, "agentKey") = disk[agentFile]
          BY <4>1 DEF Holding, HasAgent
        <4>3. disk'[adminFile] = disk[adminFile] /\ disk'[agentFile] = disk[agentFile]
          BY <1>2, <3>2, <3>4, WriteEffect, PathsApart
        <4>4. disk'[registrationFile] = Held(r, f)
          BY <1>2, <3>4, WriteEffect, PathsApart
        <4> QED
          BY <3>1, <3>4, <4>2, <4>3, <4>4 DEF Saved, Made
      <3> QED
        BY <2>1, <3>3, <3>4 DEF SharedFiles
    <2>2. CASE f \in AttemptFiles
      <3>1. HasRegistration(r)
        BY <1>2, <2>2, WriteEffect DEF HasRegistration, HasAgent, HasAdmin, AttemptFiles
      <3>2. /\ disk'[adminFile] = disk[adminFile] /\ disk'[agentFile] = disk[agentFile]
            /\ disk'[registrationFile] = disk[registrationFile]
        BY <3>1, FilesStay, PathsApart, HostedAssumption
           DEF HasRegistration, HasAgent, Holding
      <3> QED
        BY <3>2 DEF Saved
    <2> QED
      BY <2>1, <2>2 DEF Files
  <1>3. ASSUME NEW r \in Runs, Step(r) PROVE Saved'
    BY <1>1, <1>2, <1>3, StepOfRun, ElsewhereEffect DEF Shape, Load, Create, onDisk
  <1> QED
    BY <1>1, <1>3 DEF Next, RemovePartial, Expire, onDisk, vars

\* The service learns only of the registration that is saved.
LEMMA KnownStep ==
    ASSUME StateInv, [Next]_vars
    PROVE  Known'
  <1> USE DEF StateInv
  <1>1. ASSUME NEW reg \in registered PROVE reg = disk'[registrationFile] /\ reg # None
    BY FilesStay DEF Known, Shape, Paths, SharedFiles, registrationFile
  <1>2. CASE UNCHANGED registered
    BY <1>1, <1>2 DEF Known
  <1>3. ASSUME NEW r \in Runs, Elsewhere(r) PROVE Known'
    <2>1. CASE HasRegistration(r)
      <3>1. /\ Held(r, "registration") = disk[registrationFile]
            /\ disk[registrationFile] # None
        BY <2>1 DEF Holding
      <3>2. disk'[registrationFile] = disk[registrationFile]
        BY <3>1, FilesStay DEF Paths, SharedFiles, registrationFile
      <3> QED
        BY <1>1, <1>3, <3>1, <3>2, ElsewhereEffect DEF Known, Shape
    <2> QED
      BY <1>2, <1>3, <2>1, ElsewhereEffect DEF Shape
  <1>4. ASSUME NEW r \in Runs, Step(r) PROVE Known'
    BY <1>2, <1>3, <1>4, StepOfRun DEF Load, Create, Write, atService
  <1> QED
    BY <1>2, <1>4 DEF Next, RemovePartial, Expire, onDisk, atService, vars

LEMMA StateInit == Init => StateInv
  <1> SUFFICES ASSUME Init PROVE StateInv
    OBVIOUS
  <1>1. Shape
    BY DEF Init, Shape, RunShape
  <1>2. \A r \in Runs : runs[r].stage = "idle" /\ runs[r].step = "begin"
    BY DEF Init
  <1>3. Exclusive /\ Making
    BY <1>2 DEF Init, Exclusive, Making, At, SharedFiles
  <1>4. Holding
    BY <1>2 DEF Holding, HasAdmin, HasAgent, HasRegistration
  <1>5. Saved
    BY DEF Init, Saved, Paths, SharedFiles, adminFile, agentFile, registrationFile
  <1>6. Known
    BY DEF Init, Known
  <1> QED
    BY <1>1, <1>3, <1>4, <1>5, <1>6 DEF StateInv

LEMMA StateStep == StateInv /\ [Next]_vars => StateInv'
  BY ExclusiveStep, MakingStep, HoldingStep, SavedStep, KnownStep DEF StateInv

LEMMA StateGives == StateInv => RegisteredIsSaved
  <1> SUFFICES ASSUME StateInv, NEW reg \in registered
               PROVE  /\ disk[Path(reg.by, "registration")] = reg
                      /\ disk[Path(reg.by, "adminKey")] = reg.admin
                      /\ disk[Path(reg.by, "agentKey")] = reg.agent
    BY DEF RegisteredIsSaved
  <1>1. /\ Path(reg.by, "registration") = registrationFile
        /\ Path(reg.by, "adminKey") = adminFile
        /\ Path(reg.by, "agentKey") = agentFile
    BY DEF Path, SharedFiles, registrationFile, adminFile, agentFile
  <1>2. reg = disk[registrationFile] /\ disk[registrationFile] # None
    BY DEF StateInv, Known
  <1> QED
    BY <1>1, <1>2 DEF StateInv, Saved

\* However many runs share a state directory, in whatever order they step and
\* wherever they end: the service knows one registration of it, the saved one,
\* and both keys are saved (save before registerAgent, flag 'wx').
THEOREM OneSavedRegistration == Spec => []RegisteredIsSaved
  <1>1. Init => StateInv
    BY StateInit
  <1>2. StateInv /\ [Next]_vars => StateInv'
    BY StateStep
  <1>3. StateInv => RegisteredIsSaved
    BY StateGives
  <1> QED
    BY <1>1, <1>2, <1>3, PTL DEF Spec
(***************************************************************************)
(* The attempts                                                            *)
(***************************************************************************)

\* What Attempts says of one run.
AttemptOf(r) ==
    /\ runs[r].stage = "statement" => Held(r, "statement").by = r
    /\ AfterStatement(r) => /\ Held(r, "statement").by = r
                            /\ disk[<<r, "statement">>] = Held(r, "statement")
    /\ AfterGrant(r) => disk[<<r, "grant">>] = Held(r, "grant")
    /\ At(r, "submit", "answered") => runs[r].answer.certificate \in certificates
    /\ runs[r].stage = "issued" => /\ Held(r, "issued") \in certificates
                                   /\ Held(r, "issued").statement = Held(r, "statement")
    /\ runs[r].stage \in {"verify", "done"} =>
         disk[<<r, "downloaded">>] = Held(r, "downloaded")
    /\ runs[r].stage = "done" =>
         Held(r, "downloaded").statement.original = Setting[r].original

LEMMA AttemptsByRun == Attempts <=> \A r \in Runs : AttemptOf(r)
  BY DEF Attempts, AttemptOf

\* What another run does leaves an attempt alone.
LEMMA AttemptOfOther ==
    ASSUME NEW q \in Runs, AttemptOf(q), runs'[q] = runs[q],
           certificates \subseteq certificates',
           \A f \in AttemptFiles : disk'[<<q, f>>] = disk[<<q, f>>]
    PROVE  AttemptOf(q)'
  BY DEF AttemptOf, AfterStatement, AfterGrant, Held, At, AttemptFiles

\* Only its own run writes the files of an attempt.
LEMMA OwnFiles ==
    ASSUME Shape, NEW r \in Runs, Step(r)
    PROVE  /\ \A q \in Runs : q # r => runs'[q] = runs[q]
           /\ \A q \in Runs, f \in AttemptFiles : q # r => disk'[<<q, f>>] = disk[<<q, f>>]
           /\ certificates \subseteq certificates'
  <1>1. \A q \in Runs, f \in AttemptFiles : <<q, f>> \in Paths
    BY DEF Paths
  <1>2. CASE Elsewhere(r)
    <2>1. certificates \subseteq certificates'
      BY <1>2 DEF Elsewhere, Start, Check, Login, ServeMe, ServeRegistration, CreateGrant,
         ServeSubmission, SubmissionAnswered, ServeDownload, Verify, Stop, atService
    <2> QED
      BY <1>2, <2>1, ElsewhereEffect DEF Shape, onDisk
  <1>3. ASSUME NEW f \in SharedFiles, Load(r, f)
        PROVE  /\ \A q \in Runs : q # r => runs'[q] = runs[q]
               /\ UNCHANGED <<disk, certificates>>
    BY <1>3, LoadEffect DEF Shape, onDisk, atService
  <1>4. ASSUME NEW f \in Files, Create(r, f)
        PROVE  /\ \A q \in Runs : q # r => runs'[q] = runs[q]
               /\ UNCHANGED <<disk, certificates>>
    BY <1>4, CreateEffect DEF Becomes, atService
  <1>5. ASSUME NEW f \in Files, Write(r, f)
        PROVE  /\ \A q \in Runs : q # r => runs'[q] = runs[q]
               /\ \A q \in Runs, g \in AttemptFiles : q # r => disk'[<<q, g>>] = disk[<<q, g>>]
               /\ UNCHANGED certificates
    <2>1. ASSUME NEW q \in Runs, NEW g \in AttemptFiles, q # r
          PROVE  disk'[<<q, g>>] = disk[<<q, g>>]
      <3>1. <<q, g>> # Path(r, f)
        BY <2>1, HostedAssumption DEF Path
      <3> QED
        BY <1>1, <1>5, <3>1, WriteEffect
    <2> QED
      BY <1>5, <2>1, WriteEffect DEF Becomes, atService
  <1> QED
    BY <1>2, <1>3, <1>4, <1>5, StepOfRun

LEMMA AttemptOfStep ==
    ASSUME Shape, NEW r \in Runs, AttemptOf(r), Step(r)
    PROVE  AttemptOf(r)'
  <1> USE DEF AttemptOf, AfterStatement, AfterGrant, Held, At, onDisk, atService
  <1>f. \A f \in AttemptFiles : f \in Files
    BY DEF Files
  <1>1. CASE Start(r)
    BY <1>1, MoveBecomes DEF Start, Becomes, Shape
  <1>2. CASE Check(r)
    BY <1>2, TakeOfAttempt DEF Check, AttemptFiles, Files, Shape
  <1>3. CASE Login(r)
    BY <1>3, MoveBecomes DEF Login, Becomes, Shape
  <1>4. CASE ServeMe(r)
    BY <1>4, MoveBecomes DEF ServeMe, Becomes, Shape
  <1>5. CASE ServeRegistration(r)
    BY <1>5, MoveBecomes DEF ServeRegistration, Becomes, Shape
  <1>6. CASE CreateGrant(r)
    BY <1>6, TakeOfAttempt DEF CreateGrant, AttemptFiles, Files, Shape
  <1>7. CASE ServeSubmission(r)
    <2>1. PICK c \in certificates', public \in BOOLEAN :
            runs' = [runs EXCEPT ![r].step = "answered",
                                 ![r].answer = [certificate |-> c, public |-> public]]
      BY <1>7 DEF ServeSubmission
    <2>2. Becomes(r, runs[r].stage, "answered", [certificate |-> c, public |-> public],
                  runs[r].holds)
      BY <2>1, AnswerBecomes DEF Shape
    <2>3. runs[r].stage = "submit" /\ UNCHANGED disk
      BY <1>7 DEF ServeSubmission
    <2> QED
      BY <2>2, <2>3 DEF Becomes
  <1>8. CASE SubmissionAnswered(r)
    BY <1>8, TakeOfAttempt DEF SubmissionAnswered, AttemptFiles, Files, Shape
  <1>9. CASE ServeDownload(r)
    BY <1>9, TakeOfAttempt DEF ServeDownload, AttemptFiles, Files, Shape
  <1>10. CASE Verify(r)
    BY <1>10, MoveBecomes DEF Verify, Becomes, Shape
  <1>11. CASE Stop(r)
    BY <1>11, MoveBecomes DEF Stop, Becomes, Shape
  <1>12. ASSUME NEW f \in SharedFiles, Load(r, f) PROVE AttemptOf(r)'
    <2>1. /\ runs'[r].stage \in {"adminKey", "agentKey", "registration", "check"}
          /\ runs'[r].step # "answered"
      BY <1>12, LoadEffect DEF Shape, SharedFiles, After
    <2> QED
      BY <2>1
  <1>13. ASSUME NEW f \in Files, Create(r, f) PROVE AttemptOf(r)'
    BY <1>13, CreateEffect DEF Becomes
  <1>14. ASSUME NEW f \in Files, Write(r, f) PROVE AttemptOf(r)'
    <2>1. /\ runs'[r].stage = After(f) /\ runs'[r].step = "begin"
          /\ runs'[r].holds = runs[r].holds /\ runs[r].stage = f
          /\ certificates' = certificates
      BY <1>14, WriteEffect DEF Becomes
    <2>2. CASE f \in SharedFiles
      BY <2>1, <2>2 DEF SharedFiles, After
    <2>3. CASE f \in AttemptFiles
      <3>1. ASSUME NEW g \in AttemptFiles
            PROVE  disk'[<<r, g>>] = IF g = f THEN Held(r, f) ELSE disk[<<r, g>>]
        BY <1>14, <2>3, WriteEffect, PathsApart DEF Files, Paths
      <3>2. CASE f = "statement"
        BY <2>1, <3>1, <3>2 DEF AttemptFiles, After
      <3>3. CASE f = "grant"
        BY <2>1, <3>1, <3>3 DEF AttemptFiles, After
      <3>4. CASE f = "issued"
        BY <2>1, <3>1, <3>4 DEF AttemptFiles, After
      <3>5. CASE f = "downloaded"
        BY <2>1, <3>1, <3>5 DEF AttemptFiles, After
      <3> QED
        BY <2>3, <3>2, <3>3, <3>4, <3>5 DEF AttemptFiles
    <2> QED
      BY <2>2, <2>3 DEF Files
  <1> HIDE DEF AttemptOf
  <1> QED
    BY <1>1, <1>2, <1>3, <1>4, <1>5, <1>6, <1>7, <1>8, <1>9, <1>10, <1>11, <1>12, <1>13,
       <1>14, StepOfRun DEF Elsewhere
LEMMA AttemptsStep == Shape /\ Attempts /\ [Next]_vars => Attempts'
  <1> SUFFICES ASSUME Shape, \A q \in Runs : AttemptOf(q), [Next]_vars
               PROVE  \A q \in Runs : AttemptOf(q)'
    BY DEF Attempts, AttemptOf
  <1>1. ASSUME NEW r \in Runs, Step(r) PROVE \A q \in Runs : AttemptOf(q)'
    BY <1>1, OwnFiles, AttemptOfOther, AttemptOfStep
  <1>2. CASE UNCHANGED <<runs, disk, certificates>>
    BY <1>2, AttemptOfOther
  <1> QED
    BY <1>1, <1>2 DEF Next, RemovePartial, Expire, onDisk, atService, vars

\* A run past the grant stays there, or ends, and leaves both files alone.
LEMMA GrantedStays ==
    ASSUME Shape, NEW r \in Runs, Step(r), AfterGrant(r) \/ runs[r].stage = "ended"
    PROVE  /\ AfterGrant(r)' \/ runs'[r].stage = "ended"
           /\ \A f \in {"statement", "grant"} : disk'[<<r, f>>] = disk[<<r, f>>]
  <1> USE DEF AfterGrant, At
  <1>1. CASE Elsewhere(r)
    <2>1. /\ ~Start(r) /\ ~Check(r) /\ ~Login(r) /\ ~ServeMe(r)
          /\ ~ServeRegistration(r) /\ ~CreateGrant(r)
      BY DEF Start, Check, Login, ServeMe, ServeRegistration, CreateGrant
    <2>2. UNCHANGED disk
      BY <1>1, ElsewhereEffect DEF Shape, onDisk
    <2>3. CASE ServeSubmission(r)
      <3>1. PICK answer : runs' = [runs EXCEPT ![r].step = "answered", ![r].answer = answer]
        BY <2>3 DEF ServeSubmission
      <3> QED
        BY <2>2, <3>1, AnswerBecomes DEF Becomes, Shape
    <2>4. CASE SubmissionAnswered(r)
      BY <2>2, <2>4, TakeOfAttempt DEF SubmissionAnswered, AttemptFiles, Shape
    <2>5. CASE ServeDownload(r)
      BY <2>2, <2>5, TakeOfAttempt DEF ServeDownload, AttemptFiles, Shape
    <2>6. CASE Verify(r)
      BY <2>2, <2>6, MoveBecomes DEF Verify, Becomes, Shape
    <2>7. CASE Stop(r)
      BY <2>2, <2>7, MoveBecomes DEF Stop, Becomes, Shape
    <2> QED
      BY <1>1, <2>1, <2>3, <2>4, <2>5, <2>6, <2>7 DEF Elsewhere
  <1>2. ASSUME NEW f \in SharedFiles PROVE ~Load(r, f)
    BY DEF Load, SharedFiles
  <1>3. ASSUME NEW f \in Files, Create(r, f)
        PROVE  AfterGrant(r)' /\ UNCHANGED disk
    BY <1>3, CreateEffect DEF Becomes, Files, SharedFiles, AttemptFiles
  <1>4. ASSUME NEW f \in Files, Write(r, f)
        PROVE  /\ AfterGrant(r)'
               /\ \A g \in {"statement", "grant"} : disk'[<<r, g>>] = disk[<<r, g>>]
    <2>1. f \in {"issued", "downloaded"}
      BY <1>4, WriteEffect DEF Files, SharedFiles, AttemptFiles
    <2>2. AfterGrant(r)'
      BY <1>4, <2>1, WriteEffect DEF Becomes, After
    <2>3. ASSUME NEW g \in {"statement", "grant"}
          PROVE  <<r, g>> \in Paths /\ <<r, g>> # Path(r, f)
      BY <2>1 DEF Path, Paths, AttemptFiles
    <2> QED
      BY <1>4, <2>2, <2>3, WriteEffect
  <1> QED
    BY <1>1, <1>2, <1>3, <1>4, StepOfRun

\* Certificates come from a run that has written both files.
LEMMA TracedStep ==
    ASSUME Shape, Attempts, Traced, [Next]_vars
    PROVE  Traced'
  <1> DEFINE Trace(c) ==
        /\ c.statement.by \in Runs
        /\ AfterGrant(c.statement.by) \/ runs[c.statement.by].stage = "ended"
        /\ disk[<<c.statement.by, "statement">>] = c.statement
        /\ disk[<<c.statement.by, "grant">>] = c.grant
  <1>1. ASSUME NEW r \in Runs, Step(r), NEW c \in certificates PROVE Trace(c)'
    <2>1. Trace(c)
      BY DEF Traced
    <2>2. CASE c.statement.by = r
      BY <1>1, <2>1, <2>2, GrantedStays DEF AfterGrant
    <2>3. CASE c.statement.by # r
      BY <1>1, <2>1, <2>3, OwnFiles DEF AfterGrant, AttemptFiles
    <2> QED
      BY <2>2, <2>3
  <1>2. ASSUME NEW r \in Runs, ServeSubmission(r), NEW c \in certificates' \ certificates
        PROVE  Trace(c)'
    <2>1. /\ c = [statement |-> Held(r, "statement"), grant |-> Held(r, "grant")]
          /\ runs[r].stage = "submit"
      BY <1>2 DEF ServeSubmission, At
    <2>2. AfterStatement(r) /\ AfterGrant(r)
      BY <2>1 DEF AfterStatement, AfterGrant
    <2>3. /\ Held(r, "statement").by = r
          /\ disk[<<r, "statement">>] = Held(r, "statement")
          /\ disk[<<r, "grant">>] = Held(r, "grant")
      BY <2>2 DEF Attempts
    <2>4. Step(r)
      BY <1>2 DEF Step
    <2> QED
      BY <2>1, <2>2, <2>3, <2>4, GrantedStays DEF AfterGrant
  <1>3. ASSUME NEW r \in Runs, Step(r), ~ServeSubmission(r) PROVE UNCHANGED certificates
    BY <1>3 DEF Step, Start, Load, Create, Write, Check, Login, ServeMe, ServeRegistration,
       CreateGrant, SubmissionAnswered, ServeDownload, Verify, Stop, atService
  <1>4. CASE UNCHANGED <<runs, disk, certificates>>
    BY <1>4 DEF Traced, AfterGrant
  <1>5. (\A c \in certificates' : Trace(c)') => Traced'
    BY DEF Traced
  <1>6. ASSUME NEW r \in Runs, Step(r) PROVE Traced'
    <2> HIDE DEF Trace
    <2> QED
      BY <1>1, <1>2, <1>3, <1>5, <1>6
  <1> QED
    BY <1>4, <1>6 DEF Next, RemovePartial, Expire, onDisk, atService, vars

\* What is kept as issued is a certificate of the attempt's own statement.
LEMMA KeptStep ==
    ASSUME Shape, Exclusive, Attempts, Traced, Kept, [Next]_vars
    PROVE  Kept'
  <1>1. ASSUME NEW r \in Runs, Step(r), NEW q \in Runs, disk'[<<q, "issued">>] = disk[<<q, "issued">>]
        PROVE  disk'[<<q, "issued">>] # None =>
                 /\ disk'[<<q, "issued">>] \in certificates'
                 /\ disk'[<<q, "issued">>].statement.by = q
    BY <1>1, OwnFiles DEF Kept
  <1>2. ASSUME NEW r \in Runs, Write(r, "issued")
        PROVE  /\ disk'[<<r, "issued">>] \in certificates'
               /\ disk'[<<r, "issued">>].statement.by = r
    <2>1. "issued" \in Files /\ "issued" \in AttemptFiles
      BY DEF Files, AttemptFiles
    <2>2. /\ disk'[<<r, "issued">>] = Held(r, "issued")
          /\ runs[r].stage = "issued" /\ UNCHANGED certificates
      BY <1>2, <2>1, WriteEffect, PathsApart DEF atService
    <2>3. /\ Held(r, "issued") \in certificates
          /\ Held(r, "issued").statement = Held(r, "statement")
          /\ Held(r, "statement").by = r
      BY <2>2 DEF Attempts, AfterStatement
    <2> QED
      BY <2>2, <2>3
  <1>3. ASSUME NEW r \in Runs, Step(r), ~Write(r, "issued")
        PROVE  disk'[<<r, "issued">>] = disk[<<r, "issued">>]
    <2>1. <<r, "issued">> \in Paths
      BY DEF Paths, AttemptFiles
    <2>2. ASSUME NEW f \in Files, Write(r, f) PROVE disk'[<<r, "issued">>] = disk[<<r, "issued">>]
      <3>1. f # "issued"
        BY <1>3, <2>2
      <3>2. Path(r, f) # <<r, "issued">>
        BY <3>1 DEF Path
      <3> QED
        BY <2>1, <2>2, <3>2, WriteEffect
    <2> QED
      BY <1>3, <2>2, StepOfRun, ElsewhereEffect DEF Shape, Load, Create, onDisk
  <1>4. ASSUME NEW r \in Runs, Step(r) PROVE Kept'
    <2>1. ASSUME NEW q \in Runs
          PROVE  disk'[<<q, "issued">>] # None =>
                   /\ disk'[<<q, "issued">>] \in certificates'
                   /\ disk'[<<q, "issued">>].statement.by = q
      <3>1. CASE q # r
        BY <1>1, <1>4, <3>1, OwnFiles DEF AttemptFiles
      <3>2. CASE q = r
        BY <1>1, <1>2, <1>3, <1>4, <3>2
      <3> QED
        BY <3>1, <3>2
    <2> QED
      BY <2>1 DEF Kept
  <1>5. CASE UNCHANGED <<runs, disk, certificates>>
    BY <1>5 DEF Kept
  <1> QED
    BY <1>4, <1>5 DEF Next, RemovePartial, Expire, onDisk, atService, vars

LEMMA AttemptInit == Init => AttemptInv
  <1> SUFFICES ASSUME Init PROVE AttemptInv
    OBVIOUS
  <1>1. Shape /\ Exclusive
    BY StateInit DEF StateInv
  <1>2. Attempts
    BY DEF Init, Attempts, AfterStatement, AfterGrant, At
  <1>3. Traced
    BY DEF Init, Traced
  <1>4. Kept
    BY DEF Init, Kept, Paths, AttemptFiles
  <1> QED
    BY <1>1, <1>2, <1>3, <1>4 DEF AttemptInv

LEMMA AttemptStep == AttemptInv /\ [Next]_vars => AttemptInv'
  BY ExclusiveStep, AttemptsStep, TracedStep, KeptStep DEF AttemptInv

LEMMA AttemptGives == AttemptInv => CertificatesTraceable /\ IssuedBelongs
  <1> SUFFICES ASSUME AttemptInv PROVE CertificatesTraceable /\ IssuedBelongs
    OBVIOUS
  <1>1. ASSUME NEW r \in Runs
        PROVE  /\ Path(r, "statement") = <<r, "statement">>
               /\ Path(r, "grant") = <<r, "grant">>
               /\ Path(r, "issued") = <<r, "issued">>
               /\ Path(r, "downloaded") = <<r, "downloaded">>
    BY DEF Path, SharedFiles
  <1>2. CertificatesTraceable
    BY <1>1 DEF AttemptInv, Traced, CertificatesTraceable
  <1>3. ASSUME NEW r \in Runs, disk[<<r, "issued">>] # None
        PROVE  /\ disk[<<r, "issued">>].statement = disk[<<r, "statement">>]
               /\ disk[<<r, "issued">>].grant = disk[<<r, "grant">>]
    BY <1>3 DEF AttemptInv, Traced, Kept
  <1>4. ASSUME NEW r \in Runs, runs[r].stage = "done"
        PROVE  disk[<<r, "downloaded">>].statement.original = Setting[r].original
    BY <1>4 DEF AttemptInv, Attempts
  <1>5. IssuedBelongs
    BY <1>1, <1>3, <1>4 DEF IssuedBelongs
  <1> QED
    BY <1>2, <1>5

\* Whatever the service has certified for runs of the example, their attempts
\* hold statement and grant; this survives every end of a run.
THEOREM Traceable == Spec => []CertificatesTraceable
  <1>1. Init => AttemptInv
    BY AttemptInit
  <1>2. AttemptInv /\ [Next]_vars => AttemptInv'
    BY AttemptStep
  <1>3. AttemptInv => CertificatesTraceable
    BY AttemptGives
  <1> QED
    BY <1>1, <1>2, <1>3, PTL DEF Spec

\* The bundle kept as issued is the attempt's own, though the service may answer
\* with another's (the checks in submit), and success means the original's bundle.
THEOREM OwnBundles == Spec => []IssuedBelongs
  <1>1. Init => AttemptInv
    BY AttemptInit
  <1>2. AttemptInv /\ [Next]_vars => AttemptInv'
    BY AttemptStep
  <1>3. AttemptInv => IssuedBelongs
    BY AttemptGives
  <1> QED
    BY <1>1, <1>2, <1>3, PTL DEF Spec
==============================================================================
