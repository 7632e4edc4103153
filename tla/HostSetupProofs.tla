-------------------------- MODULE HostSetupProofs --------------------------
(***************************************************************************)
(* Commands of ra-host that do not overlap take nothing back, an agent's   *)
(* salt is at the server unless another agent has been beside it, and the  *)
(* wizard is busy exactly as long as its own task: for any number of       *)
(* processes, ids and passwords, whatever is killed and whatever fails.    *)
(***************************************************************************)
EXTENDS HostSetup, TLAPS

(* A job is sound when its phase is one its kind goes through, and has what *)
(* the phase needs.                                                        *)
Sound(j) ==
    /\ j \in Job
    /\ j.phase \in {"register", "answered", "online"} => j.config # None
    /\ j.phase = "asking" /\ j.kind \in {"set_password", "permissions"} => j.config # None
    /\ j.phase = "answered" =>
          j.reply # None /\ (j.config.id # None => j.reply = j.config.id)
    /\ j.phase = "online" => j.kind = "agent"
    /\ j.kind = "none" => j.phase = "none"
    /\ j.kind \in {"init", "finish"} /\ j.phase = "asking" => j.config = None
    /\ j.kind = "agent" =>
          j.phase \in {"register", "answered", "online"} /\ j.config.id # None
    /\ j.kind = "creds" => j.phase \in {"calling", "done"}
    /\ j.phase \in {"done", "failed"} => j.kind \in OfWizard
    /\ j.kind = "finish" => j.phase \in {"asking", "register", "answered", "done", "failed"}

Jobs == TypeOK /\ \A p \in Process : Sound(job[p])

LEMMA NoneType == None \notin Config /\ Torn \notin Config /\ Torn # None
  BY SetupAssumption

LEMMA NoneIsNoId == None \notin 1..MaxId
  BY SetupAssumption

LEMMA NoJobSound == Sound(NoJob)
  BY DEF Sound, NoJob, Job, Command, OfWizard

LEMMA InitJobs == Init => Jobs
  <1> SUFFICES ASSUME Init PROVE Jobs
    OBVIOUS
  <1>1. \A p \in Process : Sound(job[p])
    BY NoJobSound DEF Init
  <1>2. job \in [Process -> Job]
    BY NoJobSound DEF Init, Sound
  <1>3. drawn \in [token : 0..MaxToken, id : 0..MaxId, password : 0..MaxPassword, mask : 0..MaxMask]
    BY SetupAssumption DEF Init
  <1>4. TypeOK
    BY <1>1, <1>2, <1>3 DEF Init, TypeOK, NoJob
  <1> QED BY <1>1, <1>4 DEF Jobs

LEMMA NoteType == Note => history' \in [overlap : BOOLEAN, two : BOOLEAN, freed : BOOLEAN]
  BY DEF Note

\* Only one job changes.
LEMMA OneSound ==
    ASSUME Jobs, NEW p \in Process, NEW j, Sound(j), job' = [job EXCEPT ![p] = j]
    PROVE  job' \in [Process -> Job] /\ \A q \in Process : Sound(job'[q])
  BY DEF Jobs, TypeOK, Sound

LEMMA AstraySound ==
    ASSUME Jobs
    PROVE  /\ Astray(job) \in [Process -> Job]
           /\ \A q \in Process : Sound(Astray(job)[q])
  <1>1. ASSUME NEW q \in Process PROVE Sound(Astray(job)[q])
    <2>1. Sound([job[q] EXCEPT !.stray = TRUE])
      BY DEF Jobs, TypeOK, Sound, Job
    <2>2. Sound(job[q])
      BY DEF Jobs
    <2> QED BY <2>1, <2>2 DEF Astray
  <1> QED BY <1>1 DEF Astray, Sound

\* What a job's next record is, when it is still there.
LEMMA PhaseSound ==
    ASSUME Jobs, NEW p \in Process, NEW phase,
           Goto(p, phase), Sound([job[p] EXCEPT !.phase = phase])
    PROVE  job' \in [Process -> Job] /\ \A q \in Process : Sound(job'[q])
  <1>1. job' = [job EXCEPT ![p] = [job[p] EXCEPT !.phase = phase]]
    BY DEF Goto, Jobs, TypeOK
  <1> QED BY <1>1, OneSound

LEMMA EndedSound ==
    ASSUME Jobs, NEW p \in Process, Ended(p)
    PROVE  job' \in [Process -> Job] /\ \A q \in Process : Sound(job'[q])
  BY NoJobSound, OneSound DEF Ended

LEMMA BeginsSound ==
    ASSUME Jobs, NEW p \in Process, NEW kind, NEW phase, NEW c, Begins(p, kind, phase, c),
           \/ kind = "init" /\ phase = "asking" /\ c = None
           \/ kind = "finish" /\ phase = "asking" /\ c = None
           \/ kind = "creds" /\ phase = "calling" /\ c = None
           \/ kind \in {"set_password", "permissions"} /\ phase = "asking" /\ c \in Config
           \/ kind = "run" /\ phase = "register" /\ c \in Config
    PROVE  job' \in [Process -> Job] /\ \A q \in Process : Sound(job'[q])
  <1> DEFINE j == [NoJob EXCEPT !.kind = kind, !.phase = phase, !.config = c]
  <1>1. Sound(j)
    BY NoneType DEF Sound, NoJob, Job, Command, OfWizard
  <1>2. job' = [job EXCEPT ![p] = j]
    BY DEF Begins
  <1> QED BY <1>1, <1>2, OneSound

-----------------------------------------------------------------------------
(* Every step keeps the jobs sound, and the rest of TypeOK.                *)

Servers == [1..MaxId -> [token : 1..MaxToken, password : 1..MaxPassword] \cup {None}]
Numbers == [token : 0..MaxToken, id : 0..MaxId, password : 0..MaxPassword, mask : 0..MaxMask]

\* The parts of TypeOK that a step can disturb, besides history.
Typed ==
    /\ file \in Config \cup {None, Torn} /\ rv \in Servers
    /\ job \in [Process -> Job] /\ \A p \in Process : Sound(job[p])
    /\ wizard \in {"closed", "idle", "busy"} /\ drawn \in Numbers

LEMMA TypedIsAll ==
    ASSUME Jobs, Typed', history' \in [overlap : BOOLEAN, two : BOOLEAN, freed : BOOLEAN],
           mix' = mix
    PROVE  Jobs'
  BY DEF Jobs, Typed, TypeOK, Sound, Servers, Numbers

LEMMA JobsTyped == Jobs => Typed
  BY DEF Jobs, Typed, TypeOK, Servers, Numbers

LEMMA FreshType ==
    ASSUME Jobs, drawn.token < MaxToken, drawn.password < MaxPassword
    PROVE  Fresh \in Config
  BY SetupAssumption DEF Jobs, TypeOK, Fresh, Config

LEMMA MoreDrawn ==
    ASSUME Jobs
    PROVE  /\ drawn \in Numbers
           /\ drawn.token < MaxToken => drawn.token + 1 \in 0..MaxToken
           /\ drawn.password < MaxPassword => drawn.password + 1 \in 0..MaxPassword
           /\ drawn.mask < MaxMask => drawn.mask + 1 \in 0..MaxMask
  BY SetupAssumption DEF Jobs, TypeOK, Numbers

LEMMA SaveTyped ==
    ASSUME Jobs, NEW p \in Process, SavesFresh(p) \/ SavesPassword(p) \/ SavesMask(p)
    PROVE  Typed'
  <1>1. CASE SavesFresh(p)
    <2> DEFINE j == [job[p] EXCEPT !.config = Fresh, !.phase = "register"]
    <2>1. Fresh \in Config
      BY <1>1, FreshType DEF SavesFresh
    <2>2. Sound(j)
      BY <1>1, <2>1, NoneType DEF SavesFresh, Jobs, Sound, Job, Fresh
    <2>3. job' = [job EXCEPT ![p] = j]
      BY <1>1 DEF SavesFresh, Jobs, TypeOK
    <2>4. drawn' \in Numbers
      BY <1>1, MoreDrawn DEF SavesFresh, Numbers
    <2> QED BY <1>1, <2>1, <2>2, <2>3, <2>4, OneSound, JobsTyped DEF SavesFresh, Typed
  <1>2. CASE SavesPassword(p)
    <2> DEFINE c == [job[p].config EXCEPT !.password = drawn.password + 1]
               j == [job[p] EXCEPT !.config = c, !.phase = "register"]
    <2>1. c \in Config
      BY <1>2, SetupAssumption DEF SavesPassword, Jobs, TypeOK, Sound, Job, Config
    <2>2. Sound(j)
      BY <1>2, <2>1, NoneType DEF SavesPassword, Jobs, Sound, Job
    <2>3. job' = [job EXCEPT ![p] = j]
      BY <1>2 DEF SavesPassword, Jobs, TypeOK
    <2>4. drawn' \in Numbers
      BY <1>2, MoreDrawn DEF SavesPassword, Numbers
    <2>5. file' = c
      BY <1>2 DEF SavesPassword
    <2> QED BY <1>2, <2>1, <2>2, <2>3, <2>4, <2>5, OneSound, JobsTyped DEF SavesPassword, Typed
  <1>3. CASE SavesMask(p)
    <2>1. file' \in Config
      <3>1. job[p].config \in Config
        BY <1>3 DEF SavesMask, Jobs, TypeOK, Sound, Job
      <3>2. file' = [job[p].config EXCEPT !.mask = drawn.mask + 1] /\ drawn.mask < MaxMask
        BY <1>3 DEF SavesMask
      <3> QED BY <3>1, <3>2, MoreDrawn DEF Config
    <2>2. drawn' \in Numbers
      BY <1>3, MoreDrawn DEF SavesMask, Numbers
    <2> QED BY <1>3, <2>1, <2>2, EndedSound, JobsTyped DEF SavesMask, Typed
  <1> QED BY <1>1, <1>2, <1>3

LEMMA RegisterTyped ==
    ASSUME Jobs, NEW p \in Process, Registers(p)
    PROVE  Typed'
  <1> DEFINE c == job[p].config
             i == IF c.id = None THEN drawn.id + 1 ELSE c.id
             j == [job[p] EXCEPT !.phase = "answered", !.reply = i]
  <1>1. c \in Config
    BY DEF Registers, Jobs, TypeOK, Sound, Job
  <1>2. i \in 1..MaxId
    BY <1>1, SetupAssumption DEF Registers, Jobs, TypeOK
  <1>3. Sound(j)
    BY <1>1, <1>2, NoneIsNoId DEF Registers, Jobs, Sound, Job
  <1>4. job' = [job EXCEPT ![p] = j]
    BY DEF Registers, Jobs, TypeOK
  <1>5. rv' \in Servers
    BY <1>1, <1>2 DEF Registers, Told, Jobs, TypeOK, Servers, Config
  <1>6. drawn' \in Numbers
    <2> DEFINE last == IF drawn.id < i THEN i ELSE drawn.id
    <2>1. drawn' = [drawn EXCEPT !.id = last]
      BY DEF Registers
    <2>2. drawn \in Numbers
      BY MoreDrawn
    <2>3. last \in 0..MaxId
      <3>1. drawn.id \in 0..MaxId
        BY <2>2 DEF Numbers
      <3> HIDE DEF i
      <3> QED BY <1>2, <3>1, SetupAssumption
    <2> HIDE DEF last
    <2> QED BY <2>1, <2>2, <2>3 DEF Numbers
  <1>7. UNCHANGED <<file, wizard>>
    BY DEF Registers
  <1> HIDE DEF j
  <1> QED BY <1>3, <1>4, <1>5, <1>6, <1>7, OneSound, JobsTyped DEF Typed

LEMMA AnswerTyped ==
    ASSUME Jobs, NEW p \in Process, Answered(p)
    PROVE  Typed'
  <1> DEFINE c == [job[p].config EXCEPT !.id = job[p].reply]
             j == [job[p] EXCEPT !.kind = IF @ = "run" THEN "agent" ELSE @,
                                 !.phase = After(job[p].kind), !.config = c, !.reply = None]
  <1>1. c \in Config /\ c.id # None
    BY NoneIsNoId DEF Answered, Jobs, TypeOK, Sound, Job, Config
  <1>2. file' \in Config \cup {None, Torn}
    BY <1>1 DEF Answered, Jobs, TypeOK
  <1>3. job' \in [Process -> Job] /\ \A q \in Process : Sound(job'[q])
    <2>1. CASE After(job[p].kind) = "over"
      BY <2>1, EndedSound DEF Answered
    <2>2. CASE After(job[p].kind) # "over"
      <3>1. Sound(j)
        BY <1>1, <2>2, NoneType DEF Answered, After, Jobs, Sound, Job, Command, OfWizard
      <3>2. job' = [job EXCEPT ![p] = j]
        BY <2>2 DEF Answered, Jobs, TypeOK
      <3> HIDE DEF j
      <3> QED BY <3>1, <3>2, OneSound
    <2> QED BY <2>1, <2>2
  <1> QED BY <1>2, <1>3, JobsTyped DEF Answered, Typed

LEMMA StartTyped ==
    ASSUME Jobs, NEW p \in Process,
           \/ InitLooks(p) \/ RunLoads(p) \/ \E kind \in Command : Loads(p, kind)
           \/ TestsLogin(p) \/ Finishes(p)
    PROVE  Typed'
  <1>1. CASE InitLooks(p)
    BY <1>1, BeginsSound, JobsTyped DEF InitLooks, Typed
  <1>2. CASE RunLoads(p)
    BY <1>2, BeginsSound, JobsTyped DEF RunLoads, FirstPhase, Readable, Typed
  <1>3. ASSUME NEW kind \in Command, Loads(p, kind) PROVE Typed'
    BY <1>3, BeginsSound, JobsTyped DEF Loads, Readable, Typed
  <1>4. CASE TestsLogin(p)
    BY <1>4, BeginsSound, JobsTyped DEF TestsLogin, WhenStarted, Typed
  <1>5. CASE Finishes(p)
    BY <1>5, BeginsSound, JobsTyped DEF Finishes, WhenStarted, Typed
  <1> QED BY <1>1, <1>2, <1>3, <1>4, <1>5

LEMMA FailureTyped ==
    ASSUME Jobs, NEW p \in Process, RegisterFails(p) \/ SaveFails(p)
    PROVE  Typed'
  <1>0. Errs(p)
    BY DEF RegisterFails, SaveFails
  <1>1. job' \in [Process -> Job] /\ \A q \in Process : Sound(job'[q])
    <2>1. CASE job[p].kind = "finish"
      <3>1. Goto(p, "failed") /\ Sound([job[p] EXCEPT !.phase = "failed"])
        BY <1>0, <2>1 DEF Errs, Jobs, Sound, Job, OfWizard
      <3> QED BY <3>1, PhaseSound
    <2>2. CASE job[p].kind = "agent"
      <3> DEFINE j == [job[p] EXCEPT !.phase = "online", !.reply = None]
      <3>1. Sound(j)
        BY <2>2 DEF Jobs, Sound, Job
      <3>2. job' = [job EXCEPT ![p] = j]
        BY <1>0, <2>2 DEF Errs, Jobs, TypeOK
      <3> HIDE DEF j
      <3> QED BY <3>1, <3>2, OneSound
    <2>3. CASE job[p].kind \notin {"finish", "agent"}
      BY <1>0, <2>3, EndedSound DEF Errs
    <2> QED BY <2>1, <2>2, <2>3
  <1>2. file' \in {file, Torn} /\ UNCHANGED <<rv, wizard, drawn>>
    BY DEF RegisterFails, SaveFails
  <1> QED BY <1>1, <1>2, JobsTyped DEF Typed

LEMMA EndTyped ==
    ASSUME Jobs, NEW p \in Process,
           LossNoticed(p) \/ CommandEnds(p) \/ LoginTested(p) \/ Drained(p)
    PROVE  Typed'
  <1>1. CASE LossNoticed(p)
    <2>1. Sound([job[p] EXCEPT !.phase = "register"])
      BY <1>1 DEF LossNoticed, Jobs, Sound, Job
    <2> QED BY <1>1, <2>1, PhaseSound, JobsTyped DEF LossNoticed, Typed
  <1>2. CASE CommandEnds(p)
    BY <1>2, EndedSound, JobsTyped DEF CommandEnds, Typed
  <1>3. CASE LoginTested(p)
    <2>1. Sound([job[p] EXCEPT !.phase = "done"])
      BY <1>3 DEF LoginTested, Jobs, Sound, Job, OfWizard
    <2> QED BY <1>3, <2>1, PhaseSound, JobsTyped DEF LoginTested, Typed
  <1>4. CASE Drained(p)
    <2>1. job' \in [Process -> Job] /\ \A q \in Process : Sound(job'[q])
      <3>1. CASE Ended(p)
        BY <3>1, EndedSound
      <3>2. CASE ~Ended(p)
        <4>1. job' = [Astray(job) EXCEPT ![p] = NoJob]
          BY <1>4, <3>2 DEF Drained
        <4> HIDE DEF Jobs
        <4> QED BY <4>1, AstraySound, NoJobSound DEF Sound
      <3> QED BY <3>1, <3>2
    <2>2. wizard' \in {"closed", "idle", "busy"}
      BY <1>4 DEF Drained, Jobs, TypeOK
    <2> QED BY <1>4, <2>1, <2>2, JobsTyped DEF Drained, Typed
  <1> QED BY <1>1, <1>2, <1>3, <1>4

LEMMA WindowTyped ==
    ASSUME Jobs,
           \/ OpensWizard \/ Cancels \/ WindowEnds
           \/ \E i \in 1..MaxId : ServerForgets(i)
           \/ \E p \in Process : SaveTorn(p)
    PROVE  Typed'
  <1>1. ASSUME WindowGone
        PROVE  wizard' = "closed" /\ job' \in [Process -> Job] /\ \A q \in Process : Sound(job'[q])
    BY <1>1, NoJobSound DEF WindowGone, Jobs, Sound
  <1>2. CASE OpensWizard \/ Cancels
    BY <1>2, AstraySound, JobsTyped DEF OpensWizard, Cancels, Typed
  <1>3. CASE WindowEnds
    BY <1>1, <1>3, JobsTyped DEF WindowEnds, Typed
  <1>4. ASSUME NEW i \in 1..MaxId, ServerForgets(i) PROVE Typed'
    BY <1>4, JobsTyped DEF ServerForgets, Typed, Servers
  <1>5. ASSUME NEW p \in Process, SaveTorn(p) PROVE Typed'
    <2>1. job' \in [Process -> Job] /\ \A q \in Process : Sound(job'[q])
      BY <1>1, <1>5, EndedSound DEF SaveTorn
    <2>2. wizard' \in {"closed", "idle", "busy"}
      BY <1>1, <1>5 DEF SaveTorn, Jobs, TypeOK
    <2> QED BY <1>5, <2>1, <2>2, JobsTyped DEF SaveTorn, Typed
  <1> QED BY <1>2, <1>3, <1>4, <1>5

LEMMA NextJobs == Jobs /\ [Next]_vars => Jobs'
  <1> SUFFICES ASSUME Jobs, [Next]_vars PROVE Jobs'
    OBVIOUS
  <1>1. CASE Next
    <2>1. Typed'
      BY <1>1, StartTyped, SaveTyped, RegisterTyped, AnswerTyped, FailureTyped, EndTyped, WindowTyped
      DEF Next, Step, TaskStep
    <2> QED BY <1>1, <2>1, NoteType, TypedIsAll DEF Next
  <1>2. CASE UNCHANGED vars
    BY <1>2 DEF vars, Jobs, TypeOK
  <1> QED BY <1>1, <1>2

\* Every variable of HostSetup keeps its type, and a job's phase is always one
\* that its command goes through: ra-host's main and the wizard's tasks.
THEOREM SetupTypeCorrect == Spec => []TypeOK
  <1>1. Jobs => TypeOK
    BY DEF Jobs
  <1> QED BY <1>1, InitJobs, NextJobs, PTL DEF Spec

LEMMA JobsAlways == Spec => []Jobs
  BY InitJobs, NextJobs, PTL DEF Spec

-----------------------------------------------------------------------------
(* Nobody has a number that is yet to be drawn.                            *)

KnownBy(c, d) ==
    c \in Config => c.token <= d.token /\ c.password <= d.password /\ c.mask <= d.mask

Bounded == KnownBy(file, drawn) /\ \A p \in Process : KnownBy(job[p].config, drawn)

\* A step brings in one configuration at most, and it has what was drawn for it.
LEMMA SaveBrings ==
    ASSUME Jobs, Bounded, NEW p \in Process, SavesFresh(p) \/ SavesPassword(p) \/ SavesMask(p)
    PROVE  \E n : /\ file' \in {file, n, Torn} /\ KnownBy(n, drawn')
                  /\ \A q \in Process : job'[q].config \in {job[q].config, file, None, n}
  <1>1. job \in [Process -> Job] /\ drawn \in Numbers
    BY MoreDrawn DEF Jobs, TypeOK
  <1>2. CASE SavesFresh(p)
    <2>1. KnownBy(Fresh, drawn')
      BY <1>1, <1>2 DEF SavesFresh, KnownBy, Fresh, Numbers
    <2>2. \A q \in Process : job'[q].config \in {job[q].config, Fresh}
      BY <1>1, <1>2 DEF SavesFresh, Job
    <2> QED BY <1>2, <2>1, <2>2 DEF SavesFresh
  <1>3. CASE SavesPassword(p)
    <2> DEFINE c == [job[p].config EXCEPT !.password = drawn.password + 1]
    <2>1. job[p].config \in Config
      BY <1>1, <1>3 DEF SavesPassword, Jobs, Sound, Job
    <2>2. KnownBy(c, drawn')
      BY <1>1, <1>3, <2>1 DEF SavesPassword, Bounded, KnownBy, Config, Numbers
    <2>3. \A q \in Process : job'[q].config \in {job[q].config, c}
      BY <1>1, <1>3 DEF SavesPassword, Job
    <2>4. file' = c
      BY <1>3 DEF SavesPassword
    <2> HIDE DEF c
    <2> QED BY <2>2, <2>3, <2>4
  <1>4. CASE SavesMask(p)
    <2> DEFINE c == [job[p].config EXCEPT !.mask = drawn.mask + 1]
    <2>1. job[p].config \in Config
      BY <1>1, <1>4 DEF SavesMask, Jobs, Sound, Job
    <2>2. KnownBy(c, drawn')
      BY <1>1, <1>4, <2>1 DEF SavesMask, Bounded, KnownBy, Config, Numbers
    <2>3. \A q \in Process : job'[q].config \in {job[q].config, None}
      BY <1>1, <1>4 DEF SavesMask, Ended, NoJob, Job
    <2>4. file' = c
      BY <1>4 DEF SavesMask
    <2> HIDE DEF c
    <2> QED BY <2>2, <2>3, <2>4
  <1> QED BY <1>2, <1>3, <1>4

LEMMA RegisterBrings ==
    ASSUME Jobs, Bounded, NEW p \in Process, Registers(p) \/ Answered(p)
    PROVE  \E n : /\ file' \in {file, n, Torn} /\ KnownBy(n, drawn')
                  /\ \A q \in Process : job'[q].config \in {job[q].config, file, None, n}
  <1>1. job \in [Process -> Job] /\ drawn \in Numbers
    BY MoreDrawn DEF Jobs, TypeOK
  <1>2. CASE Registers(p)
    <2>1. \A q \in Process : job'[q].config = job[q].config
      BY <1>1, <1>2 DEF Registers, Job
    <2>2. file' = file
      BY <1>2 DEF Registers
    <2>3. KnownBy(None, drawn')
      BY NoneType DEF KnownBy
    <2> QED BY <2>1, <2>2, <2>3
  <1>3. CASE Answered(p)
    <2> DEFINE c == [job[p].config EXCEPT !.id = job[p].reply]
    <2>1. job[p].config \in Config
      BY <1>1, <1>3 DEF Answered, Jobs, Sound, Job
    <2>2. KnownBy(c, drawn')
      BY <1>1, <1>3, <2>1 DEF Answered, Bounded, KnownBy, Config
    <2>3. \A q \in Process : job'[q].config \in {job[q].config, None, c}
      BY <1>1, <1>3 DEF Answered, Ended, NoJob, Job
    <2>4. file' \in {file, c}
      BY <1>3 DEF Answered
    <2> HIDE DEF c
    <2> QED BY <2>2, <2>3, <2>4
  <1> QED BY <1>2, <1>3

\* The other steps leave the file or tear it.
OtherStep(p) ==
    \/ InitLooks(p) \/ RunLoads(p) \/ (\E kind \in Command : Loads(p, kind))
    \/ TestsLogin(p) \/ Finishes(p) \/ RegisterFails(p) \/ SaveFails(p)
    \/ LossNoticed(p) \/ CommandEnds(p) \/ LoginTested(p) \/ Drained(p) \/ SaveTorn(p)
WindowStep == OpensWizard \/ Cancels \/ WindowEnds \/ \E i \in 1..MaxId : ServerForgets(i)

\* Being a stray is all that changes with it.
LEMMA StrayConfig ==
    ASSUME Jobs, NEW q \in Process
    PROVE  LET j == [job[q] EXCEPT !.stray = TRUE] IN
           j.config = job[q].config /\ j.kind = job[q].kind /\ j.phase = job[q].phase
           /\ j.reply = job[q].reply /\ j.stray
  BY DEF Jobs, Sound, Job

LEMMA NoJobHasNone == NoJob.config = None
  BY DEF NoJob

LEMMA OthersBring ==
    ASSUME Jobs, (\E p \in Process : OtherStep(p)) \/ WindowStep
    PROVE  /\ file' \in {file, Torn} /\ drawn' = drawn
           /\ \A q \in Process : job'[q].config \in {job[q].config, file, None}
  <1>1. job \in [Process -> Job]
    BY DEF Jobs, TypeOK
  <1>2. ASSUME NEW p \in Process, OtherStep(p)
        PROVE  /\ file' \in {file, Torn} /\ drawn' = drawn
               /\ \A q \in Process : job'[q].config \in {job[q].config, file, None}
    <2>1. file' \in {file, Torn} /\ drawn' = drawn
      BY <1>2 DEF OtherStep, InitLooks, RunLoads, Loads, TestsLogin, Finishes, RegisterFails,
                  SaveFails, LossNoticed, CommandEnds, LoginTested, Drained, SaveTorn, WindowGone
    <2>2. CASE InitLooks(p) \/ RunLoads(p) \/ (\E kind \in Command : Loads(p, kind))
               \/ TestsLogin(p) \/ Finishes(p)
      BY <1>1, <2>2 DEF InitLooks, RunLoads, Loads, TestsLogin, Finishes, Begins, NoJob, Job
    <2>3. CASE RegisterFails(p) \/ SaveFails(p) \/ LossNoticed(p) \/ CommandEnds(p)
               \/ LoginTested(p)
      BY <1>1, <2>3 DEF RegisterFails, SaveFails, Errs, LossNoticed, CommandEnds, LoginTested,
                        Goto, Ended, NoJob, Job
    <2>4. CASE Drained(p)
      <3>1. \A q \in Process : job'[q] \in {job[q], [job[q] EXCEPT !.stray = TRUE], NoJob}
        BY <1>1, <2>4 DEF Drained, Astray, Ended
      <3>2. \A q \in Process : job'[q].config \in {job[q].config, None}
        BY <3>1, StrayConfig, NoJobHasNone
      <3> QED BY <2>1, <3>2
    <2>5. CASE SaveTorn(p)
      <3>1. \A q \in Process : job'[q] \in {job[q], NoJob}
        BY <1>1, <2>5 DEF SaveTorn, WindowGone, Ended
      <3>2. \A q \in Process : job'[q].config \in {job[q].config, None}
        BY <3>1, NoJobHasNone
      <3> QED BY <2>1, <3>2
    <2> QED BY <1>2, <2>1, <2>2, <2>3, <2>4, <2>5 DEF OtherStep
  <1>3. CASE WindowStep
    <2>1. CASE OpensWizard \/ Cancels
      <3>1. \A q \in Process : job'[q] \in {job[q], [job[q] EXCEPT !.stray = TRUE]}
        BY <2>1 DEF OpensWizard, Cancels, Astray
      <3> QED BY <2>1, <3>1, StrayConfig DEF OpensWizard, Cancels
    <2>2. CASE WindowEnds
      <3>1. \A q \in Process : job'[q] \in {job[q], NoJob}
        BY <2>2 DEF WindowEnds, WindowGone
      <3> QED BY <2>2, <3>1 DEF WindowEnds, NoJob
    <2>3. ASSUME NEW i \in 1..MaxId, ServerForgets(i)
          PROVE  job' = job /\ file' = file /\ drawn' = drawn
      BY <2>3 DEF ServerForgets
    <2> QED BY <1>3, <2>1, <2>2, <2>3 DEF WindowStep
  <1> QED BY <1>2, <1>3

LEMMA StepsAre ==
    Step => \/ \E p \in Process : SavesFresh(p) \/ SavesPassword(p) \/ SavesMask(p)
            \/ \E p \in Process : Registers(p) \/ Answered(p)
            \/ \E p \in Process : OtherStep(p)
            \/ WindowStep
  BY DEF Step, TaskStep, OtherStep, WindowStep

\* What has been drawn stays drawn.
LEMMA Grows ==
    ASSUME Jobs, Step, NEW c, KnownBy(c, drawn)
    PROVE  KnownBy(c, drawn')
  <1>1. drawn \in Numbers
    BY MoreDrawn
  <1>2. ASSUME drawn' = drawn PROVE KnownBy(c, drawn')
    BY <1>2
  <1>3. ASSUME NEW p \in Process, SavesFresh(p) \/ SavesPassword(p) \/ SavesMask(p)
        PROVE  KnownBy(c, drawn')
    <2>1. /\ drawn'.token \in {drawn.token, drawn.token + 1}
          /\ drawn'.password \in {drawn.password, drawn.password + 1}
          /\ drawn'.mask \in {drawn.mask, drawn.mask + 1}
      BY <1>1, <1>3 DEF SavesFresh, SavesPassword, SavesMask, Numbers
    <2> QED BY <1>1, <2>1 DEF KnownBy, Numbers, Config
  <1>4. ASSUME NEW p \in Process, Registers(p) PROVE KnownBy(c, drawn')
    BY <1>1, <1>4 DEF Registers, KnownBy, Numbers
  <1>5. ASSUME NEW p \in Process, Answered(p) PROVE KnownBy(c, drawn')
    BY <1>2, <1>5 DEF Answered
  <1> QED BY <1>2, <1>3, <1>4, <1>5, StepsAre, OthersBring

LEMMA NextBounded == Jobs /\ Bounded /\ [Next]_vars => Bounded'
  <1> SUFFICES ASSUME Jobs, Bounded, [Next]_vars PROVE Bounded'
    OBVIOUS
  <1>1. KnownBy(None, drawn') /\ KnownBy(Torn, drawn')
    BY NoneType DEF KnownBy
  <1>2. CASE Step
    <2>1. PICK n : /\ file' \in {file, n, Torn} /\ KnownBy(n, drawn')
                   /\ \A q \in Process : job'[q].config \in {job[q].config, file, None, n}
      <3>1. CASE (\E p \in Process : OtherStep(p)) \/ WindowStep
        BY <1>1, <3>1, OthersBring
      <3> QED BY <1>2, <3>1, StepsAre, SaveBrings, RegisterBrings
    <2>2. KnownBy(file, drawn') /\ \A q \in Process : KnownBy(job[q].config, drawn')
      BY <1>2, Grows DEF Bounded
    <2> QED BY <1>1, <2>1, <2>2 DEF Bounded
  <1>3. CASE UNCHANGED vars
    BY <1>3 DEF vars, Bounded
  <1> QED BY <1>2, <1>3 DEF Next

LEMMA InitBounded == Init => Bounded
  BY NoneType DEF Init, Bounded, KnownBy, NoJob

-----------------------------------------------------------------------------
(* A writer that no other writer joins has the file's configuration.       *)

Sole ==
    ~history.overlap =>
        \A p \in Writers(job) :
            /\ \A q \in Writers(job) : p = q
            /\ job[p].config \in {None, file}

\* A writer changes the file, and is in step with it if it goes on.
WriterSteps(p) ==
    /\ p \in Writers(job)
    /\ p \in Writers(job)' => job'[p].config = file'
    /\ \A q \in Process : q \in Writers(job)' => q \in Writers(job)

\* A step that leaves the file alone: who begins to write has just loaded it.
Harmless ==
    /\ file' = file
    /\ \A q \in Writers(job)' : \/ q \in Writers(job) /\ job'[q].config = job[q].config
                                \/ job'[q].config \in {None, file}

LEMMA SolePreserved ==
    ASSUME Jobs, Sole, Note, Harmless \/ \E p \in Process : WriterSteps(p)
    PROVE  Sole'
  <1> SUFFICES ASSUME ~history'.overlap, NEW p \in Writers(job)'
               PROVE  /\ \A q \in Writers(job)' : p = q
                      /\ job'[p].config \in {None, file'}
    BY DEF Sole
  <1>1. ~history.overlap /\ \A q \in Writers(job)' : p = q
    BY DEF Note, Writers
  <1>2. job'[p].config \in {None, file'}
    BY <1>1 DEF Sole, Harmless, WriterSteps, Writers
  <1> QED BY <1>1, <1>2

LEMMA SaverSteps ==
    ASSUME Jobs, NEW p \in Process, SavesFresh(p) \/ SavesPassword(p) \/ SavesMask(p)
    PROVE  WriterSteps(p)
  <1>1. job \in [Process -> Job]
    BY DEF Jobs, TypeOK
  <1>2. \A q \in Process \ {p} : job'[q] = job[q]
    BY <1>1 DEF SavesFresh, SavesPassword, SavesMask, Ended
  <1>3. p \in Writers(job)
    BY DEF SavesFresh, SavesPassword, SavesMask, Writers
  <1>4. p \in Writers(job)' => job'[p].config = file'
    BY <1>1 DEF SavesFresh, SavesPassword, SavesMask, Ended, NoJob, Writers, Job
  <1> QED BY <1>2, <1>3, <1>4 DEF WriterSteps, Writers

LEMMA RegistrationSteps ==
    ASSUME Jobs, NEW p \in Process, Registers(p) \/ Answered(p)
    PROVE  Harmless \/ WriterSteps(p)
  <1>1. job \in [Process -> Job] /\ Sound(job[p])
    BY DEF Jobs, TypeOK
  <1>2. CASE Registers(p)
    <2>1. file' = file /\ \A q \in Process \ {p} : job'[q] = job[q]
      BY <1>1, <1>2 DEF Registers
    <2>2. job'[p].config = job[p].config /\ job'[p].phase = "answered" /\ job[p].phase = "register"
      BY <1>1, <1>2 DEF Registers, Job
    <2> QED BY <2>1, <2>2 DEF Harmless, Writers
  <1>3. CASE Answered(p)
    <2> DEFINE c == [job[p].config EXCEPT !.id = job[p].reply]
    <2>1. \A q \in Process \ {p} : job'[q] = job[q]
      BY <1>1, <1>3 DEF Answered, Ended
    <2>2. p \notin Writers(job)'
      <3>1. job'[p].phase \in {"none", "online", "done"}
        BY <1>1, <1>3 DEF Answered, Ended, NoJob, After, Job
      <3> QED BY <3>1 DEF Writers
    <2>3. CASE job[p].config.id = None
      <3>1. p \in Writers(job)
        BY <1>3, <2>3 DEF Answered, Writers
      <3> QED BY <2>1, <2>2, <3>1 DEF WriterSteps, Writers
    <2>4. CASE job[p].config.id # None
      <3>1. file' = file
        BY <1>1, <1>3, <2>4 DEF Answered, Saves, Sound, Job, Config
      <3> QED BY <2>1, <2>2, <3>1 DEF Harmless, Writers
    <2> QED BY <2>3, <2>4
  <1> QED BY <1>2, <1>3

LEMMA TornSteps ==
    ASSUME Jobs, NEW p \in Process, SaveTorn(p) \/ SaveFails(p)
    PROVE  WriterSteps(p)
  <1>1. job \in [Process -> Job] /\ Sound(job[p]) /\ Saving(p)
    BY DEF Jobs, TypeOK, SaveTorn, SaveFails
  <1>2. p \in Writers(job)
    BY <1>1 DEF Saving, Saves, Sound, Job, Config, Writers
  <1>3. CASE SaveTorn(p)
    <2>1. \A q \in Process : job'[q] \in {job[q], NoJob}
      BY <1>1, <1>3 DEF SaveTorn, WindowGone, Ended
    <2>2. job'[p] = NoJob
      BY <1>1, <1>3 DEF SaveTorn, WindowGone, Ended, OfWizard
    <2>3. NoJob.phase = "none"
      BY DEF NoJob
    <2> QED BY <1>2, <2>1, <2>2, <2>3 DEF WriterSteps, Writers
  <1>4. CASE SaveFails(p)
    <2>1. \A q \in Process \ {p} : job'[q] = job[q]
      BY <1>1, <1>4 DEF SaveFails, Errs, Goto, Ended
    <2>2. job'[p].phase \in {"failed", "online", "none"}
      BY <1>1, <1>4 DEF SaveFails, Errs, Goto, Ended, NoJob, Job
    <2> QED BY <1>2, <2>1, <2>2 DEF WriterSteps, Writers
  <1> QED BY <1>3, <1>4

GoneOrAsWas(j, q) ==
    j.phase # "none" => j.phase = job[q].phase /\ j.config = job[q].config

LEMMA StrayOrGone ==
    ASSUME Jobs, NEW q \in Process, NEW j \in {job[q], [job[q] EXCEPT !.stray = TRUE], NoJob}
    PROVE  GoneOrAsWas(j, q)
  <1>1. NoJob.phase = "none"
    BY DEF NoJob
  <1>2. [job[q] EXCEPT !.stray = TRUE].phase = job[q].phase
    BY StrayConfig
  <1>3. [job[q] EXCEPT !.stray = TRUE].config = job[q].config
    BY StrayConfig
  <1>4. CASE j = job[q]
    BY <1>4 DEF GoneOrAsWas
  <1>5. CASE j = [job[q] EXCEPT !.stray = TRUE]
    BY <1>2, <1>3, <1>5 DEF GoneOrAsWas
  <1>6. CASE j = NoJob
    BY <1>1, <1>6 DEF GoneOrAsWas
  <1> QED BY <1>4, <1>5, <1>6

LEMMA PlainSteps ==
    ASSUME Jobs, NEW p \in Process, OtherStep(p), ~SaveTorn(p), ~SaveFails(p)
    PROVE  Harmless
  <1>1. job \in [Process -> Job] /\ (\A q \in Process : Sound(job[q])) /\ NoJob.phase = "none"
    BY DEF Jobs, TypeOK, NoJob
  <1>2. file' = file
    BY DEF OtherStep, InitLooks, RunLoads, Loads, TestsLogin, Finishes, RegisterFails,
           LossNoticed, CommandEnds, LoginTested, Drained
  <1>3. ASSUME InitLooks(p) \/ RunLoads(p) \/ (\E kind \in Command : Loads(p, kind))
               \/ TestsLogin(p) \/ Finishes(p)
        PROVE  /\ job'[p].config \in {None, file}
               /\ \A q \in Process \ {p} : job'[q] = job[q]
    BY <1>1, <1>3 DEF InitLooks, RunLoads, Loads, TestsLogin, Finishes, Begins, NoJob, Job
  <1>4. ASSUME RegisterFails(p) \/ LossNoticed(p) \/ CommandEnds(p) \/ LoginTested(p)
        PROVE  /\ p \notin Writers(job)'
               /\ \A q \in Process \ {p} : job'[q] = job[q]
    <2>1. \A q \in Process \ {p} : job'[q] = job[q]
      BY <1>1, <1>4 DEF RegisterFails, Errs, LossNoticed, CommandEnds, LoginTested, Goto, Ended
    <2>2. CASE RegisterFails(p) \/ CommandEnds(p) \/ LoginTested(p)
      <3>1. job'[p].phase \in {"none", "failed", "online", "done"}
        BY <1>1, <2>2 DEF RegisterFails, Errs, CommandEnds, LoginTested, Goto, Ended, NoJob, Job
      <3> QED BY <2>1, <3>1 DEF Writers
    <2>3. CASE LossNoticed(p)
      <3>1. job'[p].phase = "register" /\ job'[p].config.id # None
        BY <1>1, <2>3 DEF LossNoticed, Goto, Sound, Job
      <3> QED BY <2>1, <3>1 DEF Writers
    <2> QED BY <1>4, <2>1, <2>2, <2>3
  <1>5. ASSUME Drained(p)
        PROVE  \A q \in Process : GoneOrAsWas(job'[q], q)
    <2>1. \A q \in Process : job'[q] \in {job[q], [job[q] EXCEPT !.stray = TRUE], NoJob}
      BY <1>1, <1>5 DEF Drained, Astray, Ended
    <2> QED BY <2>1, StrayOrGone
  <1> QED BY <1>2, <1>3, <1>4, <1>5 DEF OtherStep, Harmless, Writers, GoneOrAsWas

LEMMA WindowSteps ==
    ASSUME Jobs, WindowStep
    PROVE  Harmless
  <1>2. file' = file
    BY DEF WindowStep, OpensWizard, Cancels, WindowEnds, ServerForgets
  <1>3. \A q \in Process : job'[q] \in {job[q], [job[q] EXCEPT !.stray = TRUE], NoJob}
    BY DEF WindowStep, OpensWizard, Cancels, WindowEnds, WindowGone, ServerForgets, Astray
  <1>4. \A q \in Process : GoneOrAsWas(job'[q], q)
    BY <1>3, StrayOrGone
  <1> QED BY <1>2, <1>4 DEF Harmless, Writers, GoneOrAsWas

LEMMA NextSole == Jobs /\ Sole /\ [Next]_vars => Sole'
  <1> SUFFICES ASSUME Jobs, Sole, [Next]_vars PROVE Sole'
    OBVIOUS
  <1>1. CASE Next
    <2>1. Harmless \/ \E p \in Process : WriterSteps(p)
      BY <1>1, StepsAre, SaverSteps, RegistrationSteps, TornSteps, PlainSteps, WindowSteps DEF Next
    <2> QED BY <1>1, <2>1, SolePreserved DEF Next
  <1>2. CASE UNCHANGED vars
    BY <1>2 DEF vars, Sole, Writers
  <1> QED BY <1>1, <1>2

LEMMA InitSole == Init => Sole
  <1> SUFFICES ASSUME Init PROVE Writers(job) = {}
    BY DEF Sole
  <1>1. \A p \in Process : job[p].phase = "none"
    BY DEF Init, NoJob
  <1> QED BY <1>1 DEF Writers

\* What a step does to the file when both it and what it replaces are whole.
LEMMA WhoSaves ==
    ASSUME Jobs, Step, file' # file, file' \in Config
    PROVE  \E p \in Writers(job) : SavesFresh(p) \/ SavesPassword(p) \/ SavesMask(p) \/ Answered(p)
  <1>1. ~ \E p \in Process : OtherStep(p)
    BY OthersBring, NoneType
  <1>2. ~WindowStep
    BY WindowSteps DEF Harmless
  <1>3. \A p \in Process : ~Registers(p)
    BY DEF Registers
  <1>4. \A p \in Process : Answered(p) => p \in Writers(job)
    BY RegistrationSteps DEF Harmless, WriterSteps
  <1>5. \A p \in Process : SavesFresh(p) \/ SavesPassword(p) \/ SavesMask(p) => p \in Writers(job)
    BY SaverSteps DEF WriterSteps
  <1> QED BY <1>1, <1>2, <1>3, <1>4, <1>5, StepsAre

Undone ==
    /\ {file, file'} \subseteq Config /\ file'.token = file.token
    /\ ~history.overlap /\ ~history'.overlap
    => /\ file.id # None => file'.id = file.id
       /\ file'.password >= file.password /\ file'.mask >= file.mask

LEMMA StepUndoesNothing ==
    ASSUME Jobs, Bounded, Sole, [Next]_vars
    PROVE  Undone
  <1> SUFFICES ASSUME file \in Config, file' \in Config, file'.token = file.token, ~history.overlap
               PROVE  /\ file.id # None => file'.id = file.id
                      /\ file'.password >= file.password /\ file'.mask >= file.mask
    BY DEF Undone
  <1>1. /\ file.token \in 1..MaxToken /\ file.password \in 1..MaxPassword /\ file.mask \in 0..MaxMask
        /\ file.token <= drawn.token /\ file.password <= drawn.password /\ file.mask <= drawn.mask
        /\ drawn \in Numbers
    BY MoreDrawn DEF Config, Bounded, KnownBy
  <1>2. CASE file' = file
    BY <1>1, <1>2, SetupAssumption
  <1>3. CASE file' # file
    <2>1. PICK p \in Writers(job) :
             SavesFresh(p) \/ SavesPassword(p) \/ SavesMask(p) \/ Answered(p)
      BY <1>3, WhoSaves DEF Next, vars
    <2>2. job[p].config \in {None, file} /\ Sound(job[p])
      BY <2>1 DEF Sole, Jobs, Writers
    <2>3. ~SavesFresh(p)
      BY <1>1 DEF SavesFresh, Fresh, Numbers
    <2>4. CASE SavesPassword(p)
      <3>1. file' = [file EXCEPT !.password = drawn.password + 1]
        BY <2>2, <2>4 DEF SavesPassword, Sound
      <3> QED BY <1>1, <3>1 DEF Config, Numbers
    <2>5. CASE SavesMask(p)
      <3>1. file' = [file EXCEPT !.mask = drawn.mask + 1]
        BY <2>2, <2>5 DEF SavesMask, Sound
      <3> QED BY <1>1, <3>1 DEF Config, Numbers
    <2>6. CASE Answered(p)
      <3>1. job[p].config = file /\ job[p].phase = "answered"
        BY <2>2, <2>6 DEF Answered, Sound
      <3>2. file.id = None
        BY <2>1, <3>1 DEF Writers
      <3>3. file' = [file EXCEPT !.id = job[p].reply]
        BY <1>3, <2>6, <3>1 DEF Answered
      <3> QED BY <1>1, <3>2, <3>3 DEF Config
    <2> QED BY <2>1, <2>3, <2>4, <2>5, <2>6
  <1> QED BY <1>2, <1>3

\* Commands that do not overlap take nothing back from host.toml.
THEOREM CommandsUndoNothing == Spec => NothingUndone
  <1> DEFINE Inv == Jobs /\ Bounded /\ Sole
  <1>1. Init => Inv
    BY InitJobs, InitBounded, InitSole
  <1>2. Inv /\ [Next]_vars => Inv'
    BY NextJobs, NextBounded, NextSole
  <1>3. Inv /\ [Next]_vars => [/\ {file, file'} \subseteq Config /\ file'.token = file.token
                                 /\ ~history.overlap /\ ~history'.overlap
                               => /\ file.id # None => file'.id = file.id
                                  /\ file'.password >= file.password
                                  /\ file'.mask >= file.mask]_vars
    BY StepUndoesNothing DEF Undone
  <1> QED BY <1>1, <1>2, <1>3, PTL DEF Spec, NothingUndone

-----------------------------------------------------------------------------
(* The server has nothing, or the agent's own salt.                        *)

\* What the server says of a configuration, or nothing.
Current(i, c) == rv[i] \in {None, Told(c)}

Salt ==
    ~history.two =>
        \A p \in Process : /\ job[p].kind = "agent" => Current(job[p].config.id, job[p].config)
                           /\ job[p].phase = "answered" => Current(job[p].reply, job[p].config)

\* An agent or a job that is answered is one of the holders.
LEMMA HoldersAre ==
    ASSUME Jobs, NEW p \in Process, job[p].kind = "agent" \/ job[p].phase = "answered"
    PROVE  p \in Holders(job)
  BY DEF Jobs, Sound, Holders

\* The jobs whose claim is the same after a step as before.
Keeps(q) ==
    /\ job'[q].kind = "agent" => job[q].kind = "agent" /\ job'[q].config = job[q].config
    /\ job'[q].phase = "answered" => job[q].phase = "answered" /\ job'[q].reply = job[q].reply
                                     /\ job'[q].config = job[q].config

LEMMA KeptIsKept ==
    ASSUME Jobs, NEW q \in Process,
           job'[q] \in {job[q], [job[q] EXCEPT !.stray = TRUE], NoJob}
    PROVE  Keeps(q)
  <1>1. NoJob.phase = "none" /\ NoJob.kind = "none"
    BY DEF NoJob
  <1>2. CASE job'[q] = NoJob
    BY <1>1, <1>2 DEF Keeps
  <1>3. CASE job'[q] = job[q]
    BY <1>3 DEF Keeps
  <1>4. CASE job'[q] = [job[q] EXCEPT !.stray = TRUE]
    BY <1>4, StrayConfig DEF Keeps
  <1> QED BY <1>2, <1>3, <1>4

\* All steps but the registration itself: the server learns nothing, and who
\* becomes an agent was answered.
Quiet ==
    /\ \A i \in 1..MaxId : rv'[i] \in {rv[i], None}
    /\ \A q \in Process : \/ Keeps(q)
                          \/ /\ job[q].phase = "answered" /\ job'[q].phase = "online"
                             /\ job'[q].config = [job[q].config EXCEPT !.id = job[q].reply]

LEMMA StartIsQuiet ==
    ASSUME Jobs, NEW p \in Process,
           \/ InitLooks(p) \/ RunLoads(p) \/ \E kind \in Command : Loads(p, kind)
           \/ TestsLogin(p) \/ Finishes(p)
    PROVE  Quiet
  <1>1. job \in [Process -> Job] /\ rv' = rv
    BY DEF Jobs, TypeOK, InitLooks, RunLoads, Loads, TestsLogin, Finishes
  <1>2. \A q \in Process \ {p} : job'[q] = job[q]
    BY <1>1 DEF InitLooks, RunLoads, Loads, TestsLogin, Finishes, Begins
  <1>3. job'[p].kind # "agent" /\ job'[p].phase # "answered"
    BY <1>1 DEF InitLooks, RunLoads, FirstPhase, Loads, TestsLogin, Finishes, Begins, NoJob
  <1> QED BY <1>1, <1>2, <1>3 DEF Quiet, Keeps

LEMMA SaveIsQuiet ==
    ASSUME Jobs, NEW p \in Process, SavesFresh(p) \/ SavesPassword(p) \/ SavesMask(p)
    PROVE  Quiet
  <1>1. job \in [Process -> Job] /\ rv' = rv
    BY DEF Jobs, TypeOK, SavesFresh, SavesPassword, SavesMask
  <1>2. \A q \in Process \ {p} : job'[q] = job[q]
    BY <1>1 DEF SavesFresh, SavesPassword, SavesMask, Ended
  <1>3. job'[p].kind # "agent" /\ job'[p].phase # "answered"
    BY <1>1 DEF SavesFresh, SavesPassword, SavesMask, Ended, NoJob, Job
  <1> QED BY <1>1, <1>2, <1>3 DEF Quiet, Keeps

LEMMA AnswerIsQuiet ==
    ASSUME Jobs, NEW p \in Process, Answered(p)
    PROVE  Quiet
  <1> DEFINE c == [job[p].config EXCEPT !.id = job[p].reply]
  <1>1. job \in [Process -> Job] /\ Sound(job[p]) /\ rv' = rv /\ job[p].phase = "answered"
    BY DEF Jobs, TypeOK, Answered
  <1>2. \A q \in Process \ {p} : job'[q] = job[q]
    BY <1>1 DEF Answered, Ended
  <1>3. \/ job'[p].kind # "agent" /\ job'[p].phase # "answered"
        \/ job'[p].phase = "online" /\ job'[p].config = c
    BY <1>1 DEF Answered, After, Ended, NoJob, Job
  <1> QED BY <1>1, <1>2, <1>3 DEF Quiet, Keeps

LEMMA FailureIsQuiet ==
    ASSUME Jobs, NEW p \in Process,
           RegisterFails(p) \/ SaveFails(p) \/ LossNoticed(p) \/ CommandEnds(p) \/ LoginTested(p)
    PROVE  Quiet
  <1>1. job \in [Process -> Job] /\ rv' = rv
    BY DEF Jobs, TypeOK, RegisterFails, SaveFails, LossNoticed, CommandEnds, LoginTested
  <1>2. \A q \in Process \ {p} : job'[q] = job[q]
    BY <1>1 DEF RegisterFails, SaveFails, Errs, LossNoticed, CommandEnds, LoginTested, Goto, Ended
  <1>3. job'[p].phase # "answered"
    BY <1>1 DEF RegisterFails, SaveFails, Errs, LossNoticed, CommandEnds, LoginTested, Goto, Ended, NoJob, Job
  <1>4. job'[p].kind = "agent" => job[p].kind = "agent" /\ job'[p].config = job[p].config
    BY <1>1 DEF RegisterFails, SaveFails, Errs, LossNoticed, CommandEnds, LoginTested, Goto, Ended, NoJob, Job
  <1> QED BY <1>1, <1>2, <1>3, <1>4 DEF Quiet, Keeps

LEMMA RestIsQuiet ==
    ASSUME Jobs, WindowStep \/ \E p \in Process : Drained(p) \/ SaveTorn(p)
    PROVE  Quiet
  <1>1. job \in [Process -> Job] /\ rv \in [1..MaxId -> {None} \cup {rv[i] : i \in 1..MaxId}]
    BY DEF Jobs, TypeOK
  <1>2. \A i \in 1..MaxId : rv'[i] \in {rv[i], None}
    BY <1>1 DEF WindowStep, OpensWizard, Cancels, WindowEnds, ServerForgets, Drained, SaveTorn
  <1>3. \A q \in Process : job'[q] \in {job[q], [job[q] EXCEPT !.stray = TRUE], NoJob}
    <2>1. CASE WindowStep
      BY <2>1 DEF WindowStep, OpensWizard, Cancels, WindowEnds, WindowGone, ServerForgets, Astray
    <2>2. CASE \E p \in Process : Drained(p) \/ SaveTorn(p)
      BY <1>1, <2>2 DEF Drained, SaveTorn, WindowGone, Astray, Ended
    <2> QED BY <2>1, <2>2
  <1> QED BY <1>2, <1>3, KeptIsKept DEF Quiet

LEMMA QuietKeepsSalt ==
    ASSUME Jobs, Jobs', Salt, Quiet, Note
    PROVE  Salt'
  <1> SUFFICES ASSUME ~history'.two, NEW p \in Process
               PROVE  /\ job'[p].kind = "agent" => Current(job[p].config.id, job[p].config)'
                      /\ job'[p].phase = "answered" => Current(job[p].reply, job[p].config)'
    BY DEF Salt
  <1>1. ASSUME job'[p].kind = "agent" \/ job'[p].phase = "answered"
        PROVE  ~history.two
    <2>1. p \in Holders(job)'
      BY <1>1 DEF Jobs, Sound, Holders
    <2> QED BY <2>1 DEF Note
  <1>2. ASSUME NEW i \in 1..MaxId, NEW c, Current(i, c) PROVE Current(i, c)'
    BY <1>2 DEF Quiet, Current
  <1>3. ASSUME job'[p].kind = "agent" PROVE Current(job[p].config.id, job[p].config)'
    <2>1. Sound(job[p]) /\ Sound(job'[p])
      BY DEF Jobs
    <2>2. job'[p].config.id \in 1..MaxId
      BY <1>3, <2>1, NoneType DEF Sound, Job, Config
    <2>3. CASE Keeps(p)
      <3>1. job[p].kind = "agent" /\ job'[p].config = job[p].config
        BY <1>3, <2>3 DEF Keeps
      <3>2. Current(job'[p].config.id, job'[p].config)
        BY <1>1, <1>3, <3>1 DEF Salt
      <3> QED BY <1>2, <2>2, <3>2 DEF Current
    <2>4. CASE ~Keeps(p)
      <3>1. job[p].phase = "answered" /\ job'[p].config = [job[p].config EXCEPT !.id = job[p].reply]
        BY <2>4 DEF Quiet
      <3>2. job[p].config \in Config
        BY <2>1, <3>1 DEF Sound, Job
      <3>3. job'[p].config.id = job[p].reply /\ Told(job'[p].config) = Told(job[p].config)
        BY <3>1, <3>2 DEF Told, Config
      <3>4. Current(job'[p].config.id, job'[p].config)
        BY <1>1, <1>3, <3>1, <3>3 DEF Salt, Current
      <3> QED BY <1>2, <2>2, <3>4 DEF Current
    <2> QED BY <2>3, <2>4
  <1>4. ASSUME job'[p].phase = "answered" PROVE Current(job[p].reply, job[p].config)'
    <2>1. /\ job[p].phase = "answered" /\ job'[p].reply = job[p].reply
          /\ job'[p].config = job[p].config
      BY <1>4 DEF Quiet, Keeps
    <2>2. job[p].reply \in 1..MaxId
      BY <2>1, NoneIsNoId DEF Jobs, Sound, Job
    <2>3. Current(job'[p].reply, job'[p].config)
      BY <1>1, <1>4, <2>1 DEF Salt
    <2> QED BY <1>2, <2>1, <2>2, <2>3 DEF Current
  <1> QED BY <1>3, <1>4

\* Who else holds a configuration when one registers holds the same salt.
LEMMA RegistrationKeepsSalt ==
    ASSUME Jobs, Jobs', Salt, Note, NEW p \in Process, Registers(p)
    PROVE  Salt'
  <1> DEFINE c == job[p].config
             i == IF c.id = None THEN drawn.id + 1 ELSE c.id
  <1>0. c \in Config
    BY DEF Registers, Jobs, TypeOK, Sound, Job
  <1>1. job \in [Process -> Job] /\ i \in 1..MaxId
    BY <1>0, SetupAssumption DEF Registers, Jobs, TypeOK
  <1>2. rv' = [rv EXCEPT ![i] = Told(c)] /\ job'[p].config = c /\ job'[p].phase = "answered"
        /\ job'[p].reply = i
    BY <1>1 DEF Registers, Job
  <1>3. \A q \in Process : /\ job'[q].config = job[q].config /\ job'[q].kind = job[q].kind
                           /\ q # p => job'[q] = job[q]
    BY <1>1 DEF Registers, Job
  <1>4. rv \in Servers
    BY DEF Jobs, TypeOK, Servers
  <1> HIDE DEF c, i
  <1> SUFFICES ASSUME ~history'.two, NEW q \in Process
               PROVE  /\ job'[q].kind = "agent" => Current(job[q].config.id, job[q].config)'
                      /\ job'[q].phase = "answered" => Current(job[q].reply, job[q].config)'
    BY DEF Salt
  <1>5. p \in Holders(job)'
    BY <1>2 DEF Holders
  <1>6. ~history.two
    BY <1>5 DEF Note
  <1>7. ASSUME q \in Holders(job)' PROVE Told(job'[q].config) = Told(c)
    BY <1>2, <1>5, <1>7 DEF Note
  <1>8. ASSUME NEW k, k = i \/ Current(k, job'[q].config), q \in Holders(job)'
        PROVE  rv'[k] \in {None, Told(job'[q].config)}
    BY <1>1, <1>2, <1>4, <1>7, <1>8 DEF Current, Servers
  <1>9. job'[q].kind = "agent" \/ job'[q].phase = "answered" => q \in Holders(job)'
    BY DEF Jobs, Sound, Holders
  <1>10. ASSUME job'[q].kind = "agent" PROVE Current(job[q].config.id, job[q].config)'
    <2>1. Current(job'[q].config.id, job'[q].config)
      BY <1>3, <1>6, <1>10 DEF Salt
    <2> QED BY <1>8, <1>9, <1>10, <2>1 DEF Current
  <1>11. ASSUME job'[q].phase = "answered" PROVE Current(job[q].reply, job[q].config)'
    <2>1. job'[q].reply = i \/ Current(job'[q].reply, job'[q].config)
      BY <1>2, <1>3, <1>6, <1>11 DEF Salt
    <2> QED BY <1>8, <1>9, <1>11, <2>1 DEF Current
  <1> QED BY <1>10, <1>11

LEMMA NextSalt == Jobs /\ Jobs' /\ Salt /\ [Next]_vars => Salt'
  <1> SUFFICES ASSUME Jobs, Jobs', Salt, [Next]_vars PROVE Salt'
    OBVIOUS
  <1>1. CASE Next
    <2>1. Quiet \/ \E p \in Process : Registers(p)
      BY <1>1, StartIsQuiet, SaveIsQuiet, AnswerIsQuiet, FailureIsQuiet, RestIsQuiet
      DEF Next, Step, TaskStep, WindowStep
    <2> QED BY <1>1, <2>1, QuietKeepsSalt, RegistrationKeepsSalt DEF Next
  <1>2. CASE UNCHANGED vars
    BY <1>2 DEF vars, Salt, Current
  <1> QED BY <1>1, <1>2

\* While no other salt is being registered beside it, an agent that is online has
\* the salt the server hands out: what register uploads and the agent's h1 agree.
THEOREM SaltStaysCurrent == Spec => []SaltIsCurrent
  <1>1. Init => Salt
    <2> SUFFICES ASSUME Init, NEW p \in Process
                 PROVE  job[p].kind # "agent" /\ job[p].phase # "answered"
      BY DEF Salt
    <2> QED BY DEF Init, NoJob
  <1>2. Jobs /\ Salt => SaltIsCurrent
    <2> SUFFICES ASSUME Jobs, Salt, NEW p \in Process, job[p].phase = "online", ~history.two
                 PROVE  Current(job[p].config.id, job[p].config)
      BY DEF SaltIsCurrent, Current
    <2>1. job[p].kind = "agent"
      BY DEF Jobs, Sound
    <2> QED BY <2>1 DEF Salt
  <1>3. Jobs /\ Jobs' /\ Salt /\ [Next]_vars => Salt'
    BY NextSalt
  <1> QED BY <1>1, <1>2, <1>3, JobsAlways, PTL DEF Spec

-----------------------------------------------------------------------------
(* The wizard is busy as long as its own task.                             *)

Own(jobs) == {p \in Process : jobs[p].kind \in OfWizard /\ ~jobs[p].stray}

Busy ==
    /\ wizard = "busy" => Own(job) # {}
    /\ wizard = "closed" => Own(job) = {}
    /\ ~history.freed => /\ Own(job) # {} => wizard = "busy"
                         /\ \A p, q \in Own(job) : p = q

\* A step of something else than the wizard and its window: its own tasks stay
\* what they are.
LEMMA BusyStays ==
    ASSUME Busy, Note, wizard' = wizard, Own(job)' = Own(job)
    PROVE  Busy'
  BY DEF Busy, Note

\* A wizard that is opened or closed has no task.
LEMMA NewWizard ==
    ASSUME Note, wizard' \in {"idle", "closed"}, Own(job)' = {}
    PROVE  Busy'
  BY DEF Busy

LEMMA AstrayOwnsNone == Own(Astray(job)) = {}
  <1>1. ASSUME NEW p \in Process, Astray(job)[p].kind \in OfWizard PROVE Astray(job)[p].stray
    <2>1. CASE job[p].kind \in OfWizard
      <3>1. Astray(job)[p] = [job[p] EXCEPT !.stray = TRUE]
        BY <2>1 DEF Astray
      <3> QED BY <3>1, <2>1, <1>1
    <2>2. CASE job[p].kind \notin OfWizard
      BY <1>1, <2>2 DEF Astray
    <2> QED BY <2>1, <2>2
  <1> QED BY <1>1 DEF Own

\* Only one job changes, and it is no task of the wizard before or after.
LEMMA NotTheWizards ==
    ASSUME Jobs, NEW p \in Process, \A q \in Process \ {p} : job'[q] = job[q],
           \/ job[p].kind \notin OfWizard /\ job'[p].kind \notin OfWizard
           \/ job'[p].kind = job[p].kind /\ job'[p].stray = job[p].stray
    PROVE  Own(job)' = Own(job)
  BY DEF Own

LEMMA CommandKeepsBusy ==
    ASSUME Jobs, Busy, Note, NEW p \in Process,
           \/ InitLooks(p) \/ RunLoads(p) \/ \E kind \in Command : Loads(p, kind)
           \/ SavesPassword(p) \/ SavesMask(p) \/ LossNoticed(p) \/ CommandEnds(p)
           \/ SavesFresh(p) \/ Registers(p) \/ LoginTested(p)
    PROVE  Busy'
  <1>1. job \in [Process -> Job] /\ Sound(job[p])
    BY DEF Jobs, TypeOK
  <1>2. wizard' = wizard
    BY DEF InitLooks, RunLoads, Loads, SavesPassword, SavesMask, LossNoticed, CommandEnds,
           SavesFresh, Registers, LoginTested
  <1>3. \A q \in Process \ {p} : job'[q] = job[q]
    BY <1>1 DEF InitLooks, RunLoads, Loads, SavesPassword, SavesMask, LossNoticed, CommandEnds,
                SavesFresh, Registers, LoginTested, Begins, Goto, Ended
  <1>4. \/ job[p].kind \notin OfWizard /\ job'[p].kind \notin OfWizard
        \/ job'[p].kind = job[p].kind /\ job'[p].stray = job[p].stray
    <2>1. CASE InitLooks(p) \/ RunLoads(p) \/ \E kind \in Command : Loads(p, kind)
      <3>1. job[p] = NoJob /\ job'[p].kind \in Command
        BY <1>1, <2>1 DEF InitLooks, RunLoads, Loads, Begins, Idle, NoJob, Command
      <3>2. NoJob.kind \notin OfWizard /\ Command \cap OfWizard = {}
        BY DEF NoJob, Command, OfWizard
      <3> QED BY <3>1, <3>2
    <2>2. CASE SavesMask(p) \/ CommandEnds(p)
      <3>1. job[p].kind \in Command /\ job'[p] = NoJob
        BY <1>1, <2>2 DEF SavesMask, CommandEnds, Ended, Command
      <3>2. NoJob.kind \notin OfWizard /\ Command \cap OfWizard = {}
        BY DEF NoJob, Command, OfWizard
      <3> QED BY <3>1, <3>2
    <2>3. CASE SavesPassword(p) \/ LossNoticed(p) \/ SavesFresh(p) \/ Registers(p) \/ LoginTested(p)
      BY <1>1, <2>3 DEF SavesPassword, LossNoticed, SavesFresh, Registers, LoginTested, Goto, Job
    <2> QED BY <2>1, <2>2, <2>3
  <1> QED BY <1>2, <1>3, <1>4, NotTheWizards, BusyStays

LEMMA RegistrationKeepsBusy ==
    ASSUME Jobs, Busy, Note, NEW p \in Process, Answered(p) \/ RegisterFails(p) \/ SaveFails(p)
    PROVE  Busy'
  <1>1. /\ job \in [Process -> Job] /\ Sound(job[p])
        /\ job[p].phase \in {"asking", "register", "answered"}
    BY DEF Jobs, TypeOK, Answered, RegisterFails, SaveFails, Saving
  <1>2. wizard' = wizard /\ \A q \in Process \ {p} : job'[q] = job[q]
    BY <1>1 DEF Answered, RegisterFails, SaveFails, Errs, Goto, Ended
  <1>3. CASE job[p].kind = "finish"
    <2>1. job'[p].kind = job[p].kind /\ job'[p].stray = job[p].stray
      BY <1>1, <1>3 DEF Answered, After, RegisterFails, SaveFails, Errs, Goto, Job
    <2> QED BY <1>2, <2>1, NotTheWizards, BusyStays
  <1>4. CASE job[p].kind # "finish"
    <2>1. job[p].kind \notin OfWizard
      BY <1>1, <1>4 DEF Sound, OfWizard
    <2>2. job'[p].kind \in {job[p].kind, "agent", "none"}
      BY <1>1, <1>4 DEF Answered, RegisterFails, SaveFails, Errs, Ended, NoJob, Job
    <2> QED BY <1>2, <2>1, <2>2, NotTheWizards, BusyStays DEF OfWizard
  <1> QED BY <1>3, <1>4

LEMMA StartKeepsBusy ==
    ASSUME Jobs, Busy, Note, NEW p \in Process, TestsLogin(p) \/ Finishes(p)
    PROVE  Busy'
  <1>1. job \in [Process -> Job] /\ wizard = "idle" /\ wizard' = "busy"
    BY DEF Jobs, TypeOK, TestsLogin, Finishes, WhenStarted
  <1>2. job'[p].kind \in OfWizard /\ ~job'[p].stray /\ \A q \in Process \ {p} : job'[q] = job[q]
    BY <1>1 DEF TestsLogin, Finishes, Begins, NoJob, OfWizard
  <1>3. Own(job)' = Own(job) \cup {p}
    BY <1>2 DEF Own
  <1>4. ~history'.freed => Own(job) = {}
    BY <1>1 DEF Note, Busy
  <1> QED BY <1>1, <1>3, <1>4 DEF Busy

\* A task that has ended frees its wizard.  If it was a stray, that is noted.
LEMMA DrainKeepsBusy ==
    ASSUME Jobs, Busy, Note, NEW p \in Process, Drained(p)
    PROVE  Busy'
  <1>1. job \in [Process -> Job] /\ Sound(job[p]) /\ job[p].kind \in OfWizard
    BY DEF Jobs, TypeOK, Drained, Sound
  <1>2. CASE job[p].kind = "finish" /\ job[p].phase = "done"
    <2>1. wizard' = "closed" /\ job' = [Astray(job) EXCEPT ![p] = NoJob]
      BY <1>2 DEF Drained
    <2>2. Own(job)' = {}
      <3>1. \A q \in Process : job'[q] \in {Astray(job)[q], NoJob}
        BY <2>1 DEF Astray
      <3>2. NoJob.kind \notin OfWizard
        BY DEF NoJob, OfWizard
      <3> QED BY <3>1, <3>2, AstrayOwnsNone DEF Own
    <2> QED BY <2>1, <2>2, NewWizard
  <1>3. CASE ~(job[p].kind = "finish" /\ job[p].phase = "done")
    <2>1. wizard' = (IF wizard = "busy" THEN "idle" ELSE wizard) /\ Ended(p)
      BY <1>3 DEF Drained
    <2>2. Own(job)' = Own(job) \ {p}
      <3>1. job'[p] = NoJob /\ \A q \in Process \ {p} : job'[q] = job[q]
        BY <1>1, <2>1 DEF Ended
      <3>2. NoJob.kind \notin OfWizard
        BY DEF NoJob, OfWizard
      <3> QED BY <3>1, <3>2 DEF Own
    <2>3. wizard \in {"closed", "idle", "busy"}
      BY DEF Jobs, TypeOK
    <2>4. CASE p \in Own(job)
      BY <2>1, <2>2, <2>3, <2>4 DEF Busy, Note
    <2>5. CASE p \notin Own(job)
      <3>1. job[p].stray /\ job'[p] = NoJob
        BY <1>1, <2>1, <2>5 DEF Own, Ended
      <3>2. wizard = "busy" => history'.freed
        BY <2>1, <3>1 DEF Note
      <3> QED BY <2>1, <2>2, <2>3, <2>5, <3>2 DEF Busy, Note
    <2> QED BY <2>4, <2>5
  <1> QED BY <1>2, <1>3

LEMMA WindowKeepsBusy ==
    ASSUME Jobs, Busy, Note, WindowStep \/ \E p \in Process : SaveTorn(p)
    PROVE  Busy'
  <1>1. ASSUME WindowGone PROVE Busy'
    <2>1. \A q \in Process : job'[q].kind \notin OfWizard
      BY <1>1 DEF WindowGone, NoJob, OfWizard
    <2>2. Own(job)' = {}
      BY <2>1 DEF Own
    <2> QED BY <1>1, <2>2, NewWizard DEF WindowGone
  <1>2. CASE OpensWizard \/ Cancels
    <2>1. Own(job)' = {}
      BY <1>2, AstrayOwnsNone DEF OpensWizard, Cancels
    <2> QED BY <1>2, <2>1, NewWizard DEF OpensWizard, Cancels
  <1>3. ASSUME NEW i \in 1..MaxId, ServerForgets(i) PROVE Busy'
    BY <1>3, BusyStays DEF ServerForgets
  <1>4. ASSUME NEW p \in Process, SaveTorn(p) PROVE Busy'
    <2>1. CASE WindowGone
      BY <2>1, <1>1
    <2>2. CASE ~WindowGone
      <3>1. job \in [Process -> Job] /\ Sound(job[p])
        BY DEF Jobs, TypeOK
      <3>2. job[p].kind \notin OfWizard /\ Ended(p) /\ wizard' = wizard
        BY <1>4, <2>2, <3>1 DEF SaveTorn, Saving, Sound, OfWizard
      <3>3. job'[p].kind \notin OfWizard /\ \A q \in Process \ {p} : job'[q] = job[q]
        BY <3>1, <3>2 DEF Ended, NoJob, OfWizard
      <3> QED BY <3>2, <3>3, NotTheWizards, BusyStays
    <2> QED BY <2>1, <2>2
  <1> QED BY <1>1, <1>2, <1>3, <1>4 DEF WindowStep, WindowEnds

LEMMA NextBusy == Jobs /\ Busy /\ [Next]_vars => Busy'
  <1> SUFFICES ASSUME Jobs, Busy, [Next]_vars PROVE Busy'
    OBVIOUS
  <1>1. CASE Next
    BY <1>1, CommandKeepsBusy, RegistrationKeepsBusy, StartKeepsBusy, DrainKeepsBusy, WindowKeepsBusy
    DEF Next, Step, TaskStep, WindowStep
  <1>2. CASE UNCHANGED vars
    BY <1>2 DEF vars, Busy, Own
  <1> QED BY <1>1, <1>2

\* The wizard is busy while a task of its own runs and no longer, and it runs one
\* at a time, unless the message of an earlier wizard's task has freed it: what
\* the window does with Creds and Finish, and with Cancel.
THEOREM WizardBusyRight == Spec => []BusyIsRight
  <1>1. Init => Busy
    <2> SUFFICES ASSUME Init PROVE wizard = "closed" /\ Own(job) = {}
      BY DEF Busy
    <2>1. \A p \in Process : job[p].kind \notin OfWizard
      BY DEF Init, NoJob, OfWizard
    <2> QED BY <2>1 DEF Init, Own
  <1>2. Busy => BusyIsRight
    BY DEF Busy, BusyIsRight, Own
  <1> QED BY <1>1, <1>2, NextBusy, JobsAlways, PTL DEF Spec
=============================================================================
