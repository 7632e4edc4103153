-------------------------- MODULE DeskAgentProofs --------------------------
(***************************************************************************)
(* The window and any number of headless copies never run two agents at    *)
(* once: the lock goes with the task, whatever is started, stopped or      *)
(* killed.  The agent in the window has the password of the file and the   *)
(* server its salt, and no save brings back an older password.             *)
(***************************************************************************)
EXTENDS DeskAgent, TLAPS

Messages == [config : Config, by : {"change", "setup", "nobody"}]
Histories == [crossed : BOOLEAN, halfSetUp : BOOLEAN, handed : BOOLEAN]

LEMMA NoneType == None \notin Config /\ None \notin Process
  BY DeskAssumption

LEMMA IdleTypes == NoTask \in Task /\ IdleRunner \in Runner /\ NoProcess \in Copy
  <1>1. NoTask \in Task
    BY DEF Task
  <1>2. IdleRunner \in Runner
    BY <1>1 DEF IdleRunner, Runner
  <1>3. NoProcess \in Copy
    BY DEF NoProcess, Copy
  <1> QED BY <1>1, <1>2, <1>3

LEMMA InitType == Init => TypeOK /\ OneAgent
  <1> SUFFICES ASSUME Init PROVE TypeOK /\ OneAgent
    OBVIOUS
  <1>1. drawn \in [token : 0..MaxToken, id : 0..MaxId, password : 0..MaxPassword]
    BY DeskAssumption DEF Init
  <1>2. history \in Histories
    BY DEF Init, Histories
  <1>3. headless \in [Process -> Copy] /\ Holders = {}
    BY IdleTypes DEF Init, Holders, Bound, NoProcess
  <1>4. TypeOK
    BY <1>1, <1>2, <1>3, IdleTypes DEF Init, TypeOK, IdleRunner, Histories, NoProcess, Bound
  <1> QED BY <1>3, <1>4 DEF Init, OneAgent, IdleRunner

LEMMA NoteType == Note => history' \in Histories
  <1> SUFFICES ASSUME Note PROVE history' \in Histories
    OBVIOUS
  <1> DEFINE crossed == history.crossed \/ \E c, d \in InFlight' :
                           c.token = d.token /\ c.password # d.password
             half == history.halfSetUp \/ \E c \in Loaded' \ {None} : c.id = None
             handed == (history.handed \/ (window = "open" /\ window' = "exiting"))
                       /\ file' # None
                  /\ (IF window' = "exiting" THEN Holders' ELSE Agents') = {}
  <1>1. history' = [crossed |-> crossed, halfSetUp |-> half, handed |-> handed]
    BY DEF Note
  <1>2. crossed \in BOOLEAN /\ half \in BOOLEAN /\ handed \in BOOLEAN
    OBVIOUS
  <1> HIDE DEF crossed, half, handed
  <1> QED BY <1>1, <1>2 DEF Histories

-----------------------------------------------------------------------------
(* The helpers.                                                            *)

\* What is left of a registration is a message or nothing.
LEMMA LeftType ==
    ASSUME NEW c \in Config, NEW left \in Left(c)
    PROVE  left \subseteq Messages
  BY DEF Left, Message, Messages

\* An agent that is cut off leaves a message of its configuration or nothing.
LEMMA CutOffType ==
    ASSUME TypeOK,
           NEW agent \in Task \cup {headless[p] : p \in Process},
           NEW left \in CutOff(agent)
    PROVE  left \subseteq Messages
  <1>1. agent.phase = "register" => agent.config \in Config
    BY DEF TypeOK, Task, NoTask, Copy, Bound
  <1> QED BY <1>1, LeftType DEF CutOff

LEMMA RegisterType ==
    ASSUME TypeOK, NEW c \in Config, Register(c)
    PROVE  /\ Answer(c) \in 1..MaxId
           /\ rv' \in [1..MaxId -> [token : 1..MaxToken, password : 1..MaxPassword] \cup {None}]
           /\ drawn' \in [token : 0..MaxToken, id : 0..MaxId, password : 0..MaxPassword]
  <1>1. Answer(c) \in 1..MaxId
    BY DEF Register
  <1>2. [token |-> c.token, password |-> c.password]
            \in [token : 1..MaxToken, password : 1..MaxPassword]
    BY DEF Config
  <1>3. drawn' \in [token : 0..MaxToken, id : 0..MaxId, password : 0..MaxPassword]
    <2> DEFINE last == IF drawn.id < Answer(c) THEN Answer(c) ELSE drawn.id
    <2>1. drawn' = [drawn EXCEPT !.id = last]
      BY DEF Register
    <2>2. last \in 0..MaxId
      BY <1>1, DeskAssumption DEF TypeOK
    <2> HIDE DEF last
    <2> QED BY <2>1, <2>2 DEF TypeOK
  <1> QED BY <1>1, <1>2, <1>3 DEF Register, TypeOK

LEMMA SaveType ==
    ASSUME TypeOK, NEW c \in Config, RegisterAndSave(c)
    PROVE  /\ Answer(c) \in 1..MaxId
           /\ rv' \in [1..MaxId -> [token : 1..MaxToken, password : 1..MaxPassword] \cup {None}]
           /\ drawn' \in [token : 0..MaxToken, id : 0..MaxId, password : 0..MaxPassword]
           /\ file' \in Config \cup {None}
           /\ [c EXCEPT !.id = Answer(c)] \in Config
  <1>1. Register(c)
    BY DEF RegisterAndSave
  <1>2. Answer(c) \in 1..MaxId
    BY <1>1, RegisterType
  <1>3. [c EXCEPT !.id = Answer(c)] \in Config
    BY <1>2 DEF Config
  <1> QED BY <1>1, <1>3, RegisterType DEF RegisterAndSave, TypeOK

\* A start gives the runner a task only with the lock, and only when it is free.
LEMMA StartedType ==
    ASSUME TypeOK, NEW free \in BOOLEAN
    PROVE  /\ Started(runner, free) \in Runner
           /\ Started(runner, free).lock <=> Started(runner, free).task # NoTask
           /\ \/ Started(runner, free).task = runner.task
              \/ free
  <1> DEFINE running == [state |-> "Running", lock |-> TRUE,
                         task |-> [phase |-> "register", config |-> file]]
  <1>1. CASE runner.task # NoTask
    BY <1>1 DEF Started, TypeOK
  <1>2. CASE runner.task = NoTask /\ file = None
    <2>1. Started(runner, free) = [runner EXCEPT !.state = "NotConfigured"]
      BY <1>2 DEF Started
    <2> QED BY <2>1 DEF TypeOK, Runner
  <1>3. CASE runner.task = NoTask /\ file # None /\ ~free
    <2>1. Started(runner, free) = [runner EXCEPT !.state = "RunningElsewhere"]
      BY <1>3 DEF Started
    <2> QED BY <2>1 DEF TypeOK, Runner
  <1>4. CASE runner.task = NoTask /\ file # None /\ free
    <2>1. Started(runner, free) = running
      BY <1>4 DEF Started
    <2>2. running.task \in Task /\ running.task # NoTask
      BY <1>4 DEF TypeOK, Task, NoTask
    <2>3. running \in Runner
      BY <2>2 DEF Runner
    <2>4. running.lock
      OBVIOUS
    <2> HIDE DEF running
    <2> QED BY <1>4, <2>1, <2>2, <2>3, <2>4
  <1> QED BY <1>1, <1>2, <1>3, <1>4

LEMMA LateType == TypeOK => LateWrite \in {None, "Running", "Failed"}
  BY DEF LateWrite, TypeOK

\* A step that only moves the runner's task on, and may write the state.
LEMMA GotoType ==
    ASSUME TypeOK, runner.task # NoTask, NEW t \in Task \ {NoTask},
           \/ runner' = [runner EXCEPT !.task = t]
           \/ runner' = [runner EXCEPT !.state = "Failed", !.task = t]
           \/ runner' = [runner EXCEPT !.state = "Running", !.task = t]
    PROVE  /\ runner' \in Runner
           /\ runner'.lock <=> runner'.task # NoTask
           /\ runner'.task # NoTask
  BY DEF TypeOK, Runner

LEMMA PhaseType ==
    ASSUME NEW t \in Task \ {NoTask},
           NEW phase \in {"register", "failing", "backoff", "waking", "online"}
    PROVE  [t EXCEPT !.phase = phase] \in Task \ {NoTask}
  BY DEF Task, NoTask

-----------------------------------------------------------------------------
(* Types.                                                                  *)

LEMMA StopType ==
    ASSUME TypeOK, NEW more \in SUBSET Messages, StopRunner(more)
    PROVE  /\ runner' = IdleRunner /\ runner' \in Runner
           /\ ~runner'.lock /\ runner'.task = NoTask
           /\ late' \in {None, "Running", "Failed"}
           /\ sent' \subseteq Messages
  <1>1. runner.task \in Task
    BY DEF TypeOK, Runner
  <1>2. PICK left \in CutOff(runner.task) : sent' = sent \cup left \cup more
    BY DEF StopRunner
  <1>3. left \subseteq Messages
    BY <1>1, CutOffType
  <1>4. sent' \subseteq Messages
    BY <1>2, <1>3 DEF TypeOK, Messages
  <1>5. runner' = IdleRunner /\ late' = LateWrite
    BY DEF StopRunner, Stopped
  <1> QED BY <1>4, <1>5, IdleTypes, LateType DEF IdleRunner

LEMMA StartType ==
    ASSUME TypeOK, StartRunner
    PROVE  /\ runner' \in Runner
           /\ runner'.lock <=> runner'.task # NoTask
           /\ runner'.task = runner.task \/ PortFree
           /\ UNCHANGED <<late, sent>>
  <1>1. PortFree \in BOOLEAN
    BY DEF PortFree, TypeOK, Runner
  <1>2. runner' = Started(runner, PortFree) /\ UNCHANGED <<late, sent>>
    BY DEF StartRunner
  <1> QED BY <1>1, <1>2, StartedType

LEMMA TaskType ==
    ASSUME TypeOK, history' \in Histories,
           TaskRegisters \/ TaskFails \/ TaskReports \/ TaskWakes \/ AbortedTaskReports
    PROVE  TypeOK'
  <1> USE DEF disk, desk, background
  <1>0. runner.task.phase \in {"register", "failing", "backoff", "waking", "online"}
        => runner.task \in Task \ {NoTask} /\ runner.task.config \in Config
    BY DEF TypeOK, Runner, Task, NoTask
  <1>1. CASE TaskRegisters
    <2> DEFINE c == runner.task.config
               t == [runner.task EXCEPT !.phase = "online", !.config.id = Answer(c)]
    <2>1. c \in Config /\ RegisterAndSave(c) /\ runner.task \in Task \ {NoTask}
      BY <1>0, <1>1 DEF TaskRegisters
    <2>2. runner' = [runner EXCEPT !.task = t]
      BY <1>1 DEF TaskRegisters
    <2>3. t \in Task \ {NoTask}
      BY <2>1, SaveType DEF Task, NoTask
    <2>4. runner' \in Runner /\ (runner'.lock <=> runner'.task # NoTask)
      BY <2>1, <2>2, <2>3, GotoType
    <2> QED BY <1>1, <2>1, <2>4, SaveType DEF TaskRegisters, TypeOK, Histories
  <1>2. CASE TaskFails
    <2> DEFINE t == [runner.task EXCEPT !.phase = "failing"]
    <2>1. PICK left \in CutOff(runner.task) : sent' = sent \cup left
      BY <1>2 DEF TaskFails
    <2>2. left \subseteq Messages
      BY CutOffType DEF TypeOK, Runner
    <2>3. t \in Task \ {NoTask} /\ runner.task # NoTask
      BY <1>0, <1>2, PhaseType DEF TaskFails
    <2>4. runner' = [runner EXCEPT !.task = t]
      BY <1>2 DEF TaskFails, Goto
    <2>5. runner' \in Runner /\ (runner'.lock <=> runner'.task # NoTask)
      BY <2>3, <2>4, GotoType
    <2> QED BY <1>2, <2>1, <2>2, <2>5 DEF TaskFails, TypeOK, Histories, Messages
  <1>3. CASE TaskReports
    <2>1. runner.task \in Task \ {NoTask}
      BY <1>0, <1>3 DEF TaskReports
    <2>2. \/ runner' = [runner EXCEPT !.state = "Failed",
                                      !.task = [runner.task EXCEPT !.phase = "backoff"]]
          \/ runner' = [runner EXCEPT !.state = "Running",
                                      !.task = [runner.task EXCEPT !.phase = "register"]]
      BY <1>3 DEF TaskReports
    <2>3. runner' \in Runner /\ (runner'.lock <=> runner'.task # NoTask)
      BY <2>1, <2>2, PhaseType, GotoType
    <2> QED BY <1>3, <2>3 DEF TaskReports, TypeOK, Histories
  <1>4. CASE TaskWakes
    <2> DEFINE t == [runner.task EXCEPT !.phase = "waking"]
    <2>1. t \in Task \ {NoTask} /\ runner.task # NoTask
      BY <1>0, <1>4, PhaseType DEF TaskWakes
    <2>2. runner' = [runner EXCEPT !.task = t]
      BY <1>4 DEF TaskWakes, Goto
    <2>3. runner' \in Runner /\ (runner'.lock <=> runner'.task # NoTask)
      BY <2>1, <2>2, GotoType
    <2> QED BY <1>4, <2>3 DEF TaskWakes, TypeOK, Histories
  <1>5. CASE AbortedTaskReports
    <2>1. runner' = [runner EXCEPT !.state = late] /\ late \in {"Running", "Failed"}
      BY <1>5 DEF AbortedTaskReports, TypeOK
    <2>2. runner' \in Runner /\ (runner'.lock <=> runner'.task # NoTask)
      BY <2>1 DEF TypeOK, Runner
    <2> QED BY <1>5, <2>2 DEF AbortedTaskReports, TypeOK, Histories
  <1> QED BY <1>1, <1>2, <1>3, <1>4, <1>5

LEMMA WindowType ==
    ASSUME TypeOK, history' \in Histories,
           \/ \E m \in sent : Arrives(m) \/ GivenUp(m)
           \/ OpenWindow \/ ChangePassword \/ ChangeFails \/ Restarted \/ FinishSetup \/ SetupDone
           \/ StopSharing \/ StartSharing
    PROVE  TypeOK'
  <1> USE DEF disk, desk, background
  <1>1. ASSUME NEW m \in sent, Arrives(m) PROVE TypeOK'
    <2>1. m.config \in Config /\ sent' \subseteq Messages /\ done' \in BOOLEAN
      BY <1>1 DEF Arrives, TypeOK, Messages
    <2>2. CASE m.by = "nobody"
      <3>1. Register(m.config) /\ UNCHANGED file
        BY <1>1, <2>2 DEF Arrives
      <3> QED BY <1>1, <2>1, <3>1, RegisterType DEF Arrives, TypeOK, Histories, Messages
    <2>3. CASE m.by # "nobody"
      <3>1. RegisterAndSave(m.config)
        BY <1>1, <2>3 DEF Arrives
      <3> QED BY <1>1, <2>1, <3>1, SaveType DEF Arrives, TypeOK, Histories, Messages
    <2> QED BY <2>2, <2>3
  <1>2. ASSUME NEW m \in sent, GivenUp(m) PROVE TypeOK'
    <2>1. PICK left \in Left(m.config) : sent' = (sent \ {m}) \cup (left \ {m})
      BY <1>2 DEF GivenUp
    <2>2. left \subseteq Messages
      BY LeftType DEF TypeOK, Messages
    <2> QED BY <1>2, <2>1, <2>2 DEF GivenUp, TypeOK, Histories, Messages
  <1>3. CASE OpenWindow
    <2>1. CASE StartRunner
      BY <1>3, <2>1, StartType DEF OpenWindow, TypeOK, Histories
    <2>2. CASE UNCHANGED <<runner, late, sent>>
      BY <1>3, <2>2 DEF OpenWindow, TypeOK, Histories
    <2> QED BY <1>3, <2>1, <2>2 DEF OpenWindow
  <1>4. CASE ChangePassword
    <2> DEFINE c == [shown EXCEPT !.password = drawn.password + 1]
    <2>1. c \in Config
      BY <1>4, DeskAssumption DEF ChangePassword, TypeOK, Config
    <2>2. drawn' \in [token : 0..MaxToken, id : 0..MaxId, password : 0..MaxPassword]
      BY <1>4, DeskAssumption DEF ChangePassword, TypeOK
    <2>3. Message(c, "change") \in Messages
      BY <2>1 DEF Message, Messages
    <2>4. file' = c /\ shown' = c /\ UNCHANGED <<rv, done, background>>
      BY <1>4 DEF ChangePassword
    <2>5. CASE runner.state \in RestartStates
      <3>1. window' = "restarting" /\ StopRunner({Message(c, "change")})
        BY <1>4, <2>5 DEF ChangePassword
      <3> HIDE DEF c
      <3> QED BY <2>1, <2>2, <2>3, <2>4, <3>1, StopType DEF TypeOK, Histories, Messages
    <2>6. CASE runner.state \notin RestartStates
      <3>1. sent' = sent \cup {Message(c, "change")} /\ UNCHANGED <<window, runner, late>>
        BY <1>4, <2>6 DEF ChangePassword
      <3> HIDE DEF c
      <3> QED BY <2>1, <2>2, <2>3, <2>4, <3>1 DEF TypeOK, Histories, Messages
    <2> QED BY <2>5, <2>6
  <1>5. CASE Restarted
    BY <1>5, StartType DEF Restarted, TypeOK, Histories
  <1>6. CASE FinishSetup
    <2> DEFINE c == [token |-> drawn.token + 1, id |-> None, password |-> drawn.password + 1]
    <2>1. c \in Config
      BY <1>6, DeskAssumption DEF FinishSetup, TypeOK, Config
    <2>2. drawn' \in [token : 0..MaxToken, id : 0..MaxId, password : 0..MaxPassword]
      <3>1. drawn' = [drawn EXCEPT !.token = drawn.token + 1,
                                   !.password = drawn.password + 1]
        BY <1>6 DEF FinishSetup
      <3>2. drawn.token + 1 \in 0..MaxToken /\ drawn.password + 1 \in 0..MaxPassword
        BY <1>6, DeskAssumption DEF FinishSetup, TypeOK
      <3> QED BY <3>1, <3>2 DEF TypeOK
    <2>3. Message(c, "setup") \in Messages
      BY <2>1 DEF Message, Messages
    <2>4. file' = c /\ sent' = sent \cup {Message(c, "setup")}
          /\ UNCHANGED <<rv, window, desk, runner, late, background>>
      BY <1>6 DEF FinishSetup
    <2> HIDE DEF c
    <2> QED BY <2>1, <2>2, <2>3, <2>4 DEF TypeOK, Histories, Messages
  <1>7. CASE SetupDone
    BY <1>7, StartType DEF SetupDone, TypeOK, Histories
  <1>8. CASE StopSharing
    BY <1>8, StopType DEF StopSharing, TypeOK, Histories, Messages
  <1>9. CASE StartSharing
    BY <1>9, StartType DEF StartSharing, TypeOK, Histories
  <1>10. CASE ChangeFails
    BY <1>10 DEF ChangeFails, TypeOK, Histories
  <1> QED BY <1>1, <1>2, <1>3, <1>4, <1>5, <1>6, <1>7, <1>8, <1>9, <1>10

LEMMA EndedType ==
    ASSUME TypeOK, NEW gone \in SUBSET Process, Ended(gone)
    PROVE  /\ headless' \in [Process -> Copy]
           /\ \A p \in Process :
                 headless'[p].phase \in {"loaded"} \cup Bound => headless'[p].config # None
           /\ pid' \in Process \cup {None}
  BY IdleTypes DEF Ended, TypeOK, NoProcess, Bound

LEMMA HeadlessType ==
    ASSUME TypeOK, history' \in Histories, NEW p \in Process,
           \/ HeadlessLoads(p) \/ HeadlessBinds(p) \/ HeadlessRegisters(p)
           \/ HeadlessFails(p) \/ HeadlessRetries(p) \/ ServiceStarts(p)
    PROVE  TypeOK'
  <1> USE DEF disk, desk, background
  <1>0. headless[p] \in Copy
    BY DEF TypeOK
  <1>1. ASSUME NEW h \in Copy, headless' = [headless EXCEPT ![p] = h],
               h.phase \in {"loaded"} \cup Bound => h.config # None
        PROVE  /\ headless' \in [Process -> Copy]
               /\ \A q \in Process :
                     headless'[q].phase \in {"loaded"} \cup Bound => headless'[q].config # None
    BY <1>1 DEF TypeOK
  <1>2. CASE HeadlessLoads(p)
    <2>1. CASE file = None
      BY <1>2, <2>1, EndedType DEF HeadlessLoads, TypeOK, Histories
    <2>2. CASE file # None
      <3> DEFINE h == [headless[p] EXCEPT !.phase = "loaded", !.config = file]
      <3>1. h \in Copy /\ h.config # None
        BY <1>0, <2>2 DEF Copy, TypeOK
      <3>2. headless' = [headless EXCEPT ![p] = h] /\ UNCHANGED pid
        BY <1>2, <2>2 DEF HeadlessLoads
      <3> HIDE DEF h
      <3> QED BY <1>1, <1>2, <3>1, <3>2 DEF HeadlessLoads, TypeOK, Histories
    <2> QED BY <2>1, <2>2
  <1>3. CASE HeadlessBinds(p)
    <2>1. CASE ~PortFree
      BY <1>3, <2>1, EndedType DEF HeadlessBinds, TypeOK, Histories
    <2>2. CASE PortFree
      <3> DEFINE h == [headless[p] EXCEPT !.phase = "register"]
      <3>1. h \in Copy /\ h.config # None
        BY <1>0, <1>3 DEF HeadlessBinds, Copy, Bound, TypeOK
      <3>2. headless' = [headless EXCEPT ![p] = h] /\ pid' = p
        BY <1>3, <2>2 DEF HeadlessBinds
      <3> HIDE DEF h
      <3> QED BY <1>1, <1>3, <3>1, <3>2 DEF HeadlessBinds, TypeOK, Histories
    <2> QED BY <2>1, <2>2
  <1>4. CASE HeadlessRegisters(p)
    <2> DEFINE c == headless[p].config
               h == [headless[p] EXCEPT !.phase = "online", !.config.id = Answer(c)]
    <2>1. c \in Config /\ RegisterAndSave(c)
      BY <1>4 DEF HeadlessRegisters, TypeOK, Copy, Bound
    <2>2. h \in Copy /\ h.config # None
      BY <1>0, <2>1, SaveType, NoneType DEF Copy, Bound
    <2>3. headless' = [headless EXCEPT ![p] = h]
      BY <1>4 DEF HeadlessRegisters
    <2>4. UNCHANGED <<window, desk, runner, late, pid, installed, sent>>
      BY <1>4 DEF HeadlessRegisters
    <2> HIDE DEF h, c
    <2> QED BY <1>1, <2>1, <2>2, <2>3, <2>4, SaveType DEF TypeOK, Histories
  <1>5. CASE HeadlessFails(p)
    <2> DEFINE h == [headless[p] EXCEPT !.phase = "backoff"]
    <2>1. h \in Copy /\ h.config # None
      BY <1>0, <1>5 DEF HeadlessFails, Copy, Bound, TypeOK
    <2>2. headless' = [headless EXCEPT ![p] = h]
      BY <1>5 DEF HeadlessFails
    <2>3. PICK left \in CutOff(headless[p]) : sent' = sent \cup left
      BY <1>5 DEF HeadlessFails
    <2>4. left \subseteq Messages
      BY CutOffType
    <2> HIDE DEF h
    <2> QED BY <1>1, <1>5, <2>1, <2>2, <2>3, <2>4 DEF HeadlessFails, TypeOK, Histories, Messages
  <1>6. CASE HeadlessRetries(p)
    <2> DEFINE h == [headless[p] EXCEPT !.phase = "register"]
    <2>1. h \in Copy /\ h.config # None
      BY <1>0, <1>6 DEF HeadlessRetries, Copy, Bound, TypeOK
    <2>2. headless' = [headless EXCEPT ![p] = h]
      BY <1>6 DEF HeadlessRetries
    <2> HIDE DEF h
    <2> QED BY <1>1, <1>6, <2>1, <2>2 DEF HeadlessRetries, TypeOK, Histories
  <1>7. CASE ServiceStarts(p)
    <2> DEFINE h == [phase |-> "spawned", config |-> None, by |-> "service"]
    <2>1. h \in Copy /\ h.phase \notin {"loaded"} \cup Bound
      BY DEF Copy, Bound
    <2>2. headless' = [headless EXCEPT ![p] = h]
      BY <1>7 DEF ServiceStarts, Spawned
    <2> HIDE DEF h
    <2> QED BY <1>1, <1>7, <2>1, <2>2 DEF ServiceStarts, TypeOK, Histories
  <1> QED BY <1>2, <1>3, <1>4, <1>5, <1>6, <1>7

LEMMA ServiceType ==
    ASSUME TypeOK, history' \in Histories,
           InstallService \/ UninstallService \/ StopBackground \/ HandOver \/ WindowEnds
    PROVE  TypeOK'
  <1> USE DEF disk, desk, background
  <1>1. CASE InstallService
    BY <1>1, StopType DEF InstallService, TypeOK, Histories, Messages
  <1>2. CASE UninstallService
    <2>1. PICK gone \in {{}, {p \in Process : headless[p].by = "service"}} :
             /\ Ended(gone)
             /\ runner' = Started(runner, ~runner.lock /\ Holders \subseteq gone)
             /\ \E left \in UNION {CutOff(headless[p]) : p \in gone} \cup {{}} :
                   sent' = sent \cup left
      BY <1>2 DEF UninstallService
    <2>2. PICK left \in UNION {CutOff(headless[p]) : p \in gone} \cup {{}} :
             sent' = sent \cup left
      BY <2>1
    <2>3. left \subseteq Messages
      BY <2>1, CutOffType
    <2>4. (~runner.lock /\ Holders \subseteq gone) \in BOOLEAN
      BY DEF TypeOK, Runner
    <2>5. runner' \in Runner /\ (runner'.lock <=> runner'.task # NoTask)
      BY <2>1, <2>4, StartedType
    <2>6. gone \in SUBSET Process
      BY <2>1
    <2> QED BY <1>2, <2>1, <2>2, <2>3, <2>5, <2>6, EndedType
            DEF UninstallService, TypeOK, Histories, Messages
  <1>3. CASE StopBackground
    <2>1. pid \in Process
      BY <1>3 DEF StopBackground, TypeOK
    <2>2. PICK left \in CutOff(headless[pid]) : sent' = sent \cup left
      BY <1>3 DEF StopBackground
    <2>3. left \subseteq Messages
      BY <2>1, CutOffType
    <2>4. Ended({pid}) /\ runner' = IdleRunner /\ late' = LateWrite
      BY <1>3 DEF StopBackground, Stopped
    <2> QED BY <1>3, <2>1, <2>2, <2>3, <2>4, EndedType, IdleTypes, LateType
            DEF StopBackground, TypeOK, Histories, Messages, IdleRunner
  <1>4. CASE HandOver
    <2>1. PICK p \in Process : Spawned(p, "window")
      BY <1>4 DEF HandOver
    <2> DEFINE h == [phase |-> "spawned", config |-> None, by |-> "window"]
    <2>2. h \in Copy /\ h.phase \notin {"loaded"} \cup Bound
      BY DEF Copy, Bound
    <2>3. headless' = [headless EXCEPT ![p] = h]
      BY <2>1 DEF Spawned
    <2>4. PICK left \in CutOff(runner.task) : sent' = sent \cup left
      BY <1>4 DEF HandOver
    <2>5. left \subseteq Messages
      BY CutOffType DEF TypeOK, Runner
    <2>6. runner' = IdleRunner /\ late' = LateWrite
      BY <1>4 DEF HandOver, LetGo, Stopped
    <2> HIDE DEF h
    <2>7. /\ headless' \in [Process -> Copy]
          /\ \A q \in Process :
                headless'[q].phase \in {"loaded"} \cup Bound => headless'[q].config # None
      BY <2>2, <2>3 DEF TypeOK
    <2> QED BY <1>4, <2>4, <2>5, <2>6, <2>7, IdleTypes, LateType
            DEF HandOver, TypeOK, Histories, Messages, IdleRunner
  <1>5. CASE WindowEnds
    <2>1. PICK left \in CutOff(runner.task) \cup UNION {Left(m.config) : m \in sent} :
             sent' = Strays \cup left
      BY <1>5 DEF WindowEnds
    <2>2. CASE left \in CutOff(runner.task)
      <3>1. left \subseteq Messages
        BY <2>2, CutOffType DEF TypeOK, Runner
      <3> QED BY <1>5, <2>1, <3>1, IdleTypes
              DEF WindowEnds, Strays, TypeOK, Histories, Messages, IdleRunner
    <2>3. ASSUME NEW m \in sent, left \in Left(m.config) PROVE TypeOK'
      <3>1. left \subseteq Messages
        BY <2>3, LeftType DEF TypeOK, Messages
      <3> QED BY <1>5, <2>1, <3>1, IdleTypes
              DEF WindowEnds, Strays, TypeOK, Histories, Messages, IdleRunner
    <2> QED BY <2>1, <2>2, <2>3
  <1> QED BY <1>1, <1>2, <1>3, <1>4, <1>5

LEMMA NextType == TypeOK /\ [Next]_vars => TypeOK'
  <1>1. TypeOK /\ Next => TypeOK'
    BY NoteType, TaskType, WindowType, HeadlessType, ServiceType DEF Next, Step
  <1>2. TypeOK /\ UNCHANGED vars => TypeOK'
    BY DEF vars, TypeOK
  <1> QED BY <1>1, <1>2

\* The agent in the window keeps its types, however it is started, stopped,
\* restarted, cut off or handed over.
THEOREM DeskTypeCorrect == Spec => []TypeOK
  BY InitType, NextType, PTL DEF Spec

-----------------------------------------------------------------------------
(* One agent.                                                              *)

\* No new holder, and no new task beside one.
LEMMA OneKept ==
    ASSUME OneAgent, Holders' \subseteq Holders,
           \/ runner'.task = NoTask
           \/ runner.task # NoTask
           \/ Holders' = {}
    PROVE  OneAgent'
  <1>1. ASSUME runner'.task # NoTask PROVE Holders' = {}
    BY <1>1 DEF OneAgent
  <1>2. \A p, q \in Holders' : p = q
    BY DEF OneAgent
  <1> QED BY <1>1, <1>2 DEF OneAgent

\* A process binds a port that is free.
LEMMA OneBinds ==
    ASSUME TypeOK, PortFree, NEW p \in Process, Holders' \subseteq Holders \cup {p},
           UNCHANGED runner
    PROVE  OneAgent'
  BY DEF PortFree, TypeOK, OneAgent

\* The runner is started where the headless processes stay as they are.
LEMMA OneStarts ==
    ASSUME TypeOK, OneAgent, StartRunner, UNCHANGED headless
    PROVE  OneAgent'
  <1>1. Holders' = Holders
    BY DEF Holders
  <1>2. runner'.task = runner.task \/ PortFree
    BY StartType
  <1> QED BY <1>1, <1>2, OneKept DEF PortFree

\* A change of one headless process that does not bring it to the port.
LEMMA OneMoves ==
    ASSUME OneAgent, NEW p \in Process, UNCHANGED runner,
           \A q \in Process : headless'[q].phase \in Bound => headless[q].phase \in Bound
    PROVE  OneAgent'
  <1>1. Holders' \subseteq Holders
    BY DEF Holders
  <1> QED BY <1>1, OneKept DEF OneAgent

LEMMA EndedHolders ==
    ASSUME NEW gone, Ended(gone)
    PROVE  Holders' = Holders \ gone
  BY DEF Ended, Holders, NoProcess, Bound

LEMMA TaskOne ==
    ASSUME TypeOK, OneAgent,
           TaskRegisters \/ TaskFails \/ TaskReports \/ TaskWakes \/ AbortedTaskReports
    PROVE  OneAgent'
  <1>1. UNCHANGED headless
    BY DEF TaskRegisters, TaskFails, TaskReports, TaskWakes, AbortedTaskReports, background
  <1>2. Holders' = Holders
    BY <1>1 DEF Holders
  <1>3. CASE AbortedTaskReports
    <2>1. runner'.task = runner.task
      BY <1>3 DEF AbortedTaskReports, TypeOK, Runner
    <2> QED BY <1>2, <2>1, OneKept
  <1>4. CASE ~AbortedTaskReports
    <2>1. runner.task # NoTask
      BY <1>4 DEF TaskRegisters, TaskFails, TaskReports, TaskWakes, NoTask
    <2> QED BY <1>2, <2>1, OneKept
  <1> QED BY <1>3, <1>4

LEMMA WindowOne ==
    ASSUME TypeOK, OneAgent,
           \/ \E m \in sent : Arrives(m) \/ GivenUp(m)
           \/ OpenWindow \/ ChangePassword \/ ChangeFails \/ Restarted \/ FinishSetup \/ SetupDone
           \/ StopSharing \/ StartSharing
    PROVE  OneAgent'
  <1> USE DEF background
  <1>1. CASE (\E m \in sent : Arrives(m) \/ GivenUp(m)) \/ FinishSetup \/ ChangeFails
    BY <1>1 DEF Arrives, GivenUp, FinishSetup, ChangeFails, background, OneAgent, Holders
  <1>2. CASE OpenWindow \/ Restarted \/ SetupDone \/ StartSharing
    <2>1. CASE StartRunner
      BY <1>2, <2>1, OneStarts DEF OpenWindow, Restarted, SetupDone, StartSharing
    <2>2. CASE UNCHANGED runner
      BY <1>2, <2>2 DEF OpenWindow, Restarted, SetupDone, StartSharing, background, OneAgent, Holders
    <2> QED BY <1>2, <2>1, <2>2 DEF OpenWindow, Restarted, SetupDone, StartSharing
  <1>3. CASE ChangePassword \/ StopSharing
    <2>1. UNCHANGED headless
      BY <1>3 DEF ChangePassword, StopSharing
    <2>2. runner' = IdleRunner \/ UNCHANGED runner
      BY <1>3 DEF ChangePassword, StopSharing, StopRunner, Stopped
    <2> QED BY <2>1, <2>2, OneKept DEF IdleRunner, Holders
  <1> QED BY <1>1, <1>2, <1>3

LEMMA HeadlessOne ==
    ASSUME TypeOK, OneAgent, NEW p \in Process,
           \/ HeadlessLoads(p) \/ HeadlessBinds(p) \/ HeadlessRegisters(p)
           \/ HeadlessFails(p) \/ HeadlessRetries(p) \/ ServiceStarts(p)
    PROVE  OneAgent'
  <1>1. UNCHANGED runner
    BY DEF HeadlessLoads, HeadlessBinds, HeadlessRegisters, HeadlessFails,
           HeadlessRetries, ServiceStarts
  <1>2. CASE Ended({p})
    BY <1>1, <1>2, EndedHolders, OneKept DEF OneAgent
  <1>3. CASE HeadlessBinds(p) /\ PortFree
    <2>1. Holders' \subseteq Holders \cup {p}
      BY <1>3 DEF HeadlessBinds, Holders, TypeOK
    <2> QED BY <1>1, <1>3, <2>1, OneBinds
  <1>4. CASE \/ HeadlessLoads(p) /\ file # None
             \/ HeadlessRegisters(p) \/ HeadlessFails(p) \/ HeadlessRetries(p) \/ ServiceStarts(p)
    <2>1. \A q \in Process : headless'[q].phase \in Bound => headless[q].phase \in Bound
      BY <1>4 DEF HeadlessLoads, HeadlessRegisters, HeadlessFails, HeadlessRetries,
                  ServiceStarts, Spawned, Bound, TypeOK, Copy
    <2> QED BY <1>1, <2>1, OneMoves
  <1> QED BY <1>2, <1>3, <1>4 DEF HeadlessLoads, HeadlessBinds

LEMMA ServiceOne ==
    ASSUME TypeOK, OneAgent,
           InstallService \/ UninstallService \/ StopBackground \/ HandOver \/ WindowEnds
    PROVE  OneAgent'
  <1>1. CASE InstallService \/ WindowEnds
    <2>1. UNCHANGED headless /\ runner' = IdleRunner
      BY <1>1 DEF InstallService, WindowEnds, StopRunner, Stopped, background
    <2> QED BY <2>1, OneKept DEF Holders, IdleRunner
  <1>2. CASE UninstallService
    <2>1. PICK gone \in {{}, {p \in Process : headless[p].by = "service"}} :
             /\ Ended(gone)
             /\ runner' = Started(runner, ~runner.lock /\ Holders \subseteq gone)
      BY <1>2 DEF UninstallService
    <2>2. Holders' = Holders \ gone
      BY <2>1, EndedHolders
    <2>3. (~runner.lock /\ Holders \subseteq gone) \in BOOLEAN
      BY DEF TypeOK, Runner
    <2>4. runner'.task = runner.task \/ Holders' = {}
      BY <2>1, <2>2, <2>3, StartedType
    <2> QED BY <2>2, <2>4, OneKept
  <1>3. CASE StopBackground
    <2>1. Ended({pid}) /\ runner' = IdleRunner
      BY <1>3 DEF StopBackground, Stopped
    <2> QED BY <2>1, EndedHolders, OneKept DEF IdleRunner
  <1>4. CASE HandOver
    <2>1. PICK p \in Process : Spawned(p, "window")
      BY <1>4 DEF HandOver
    <2>2. Holders' \subseteq Holders
      BY <2>1 DEF Spawned, Holders, Bound, TypeOK
    <2>3. runner' = IdleRunner
      BY <1>4 DEF HandOver, LetGo, Stopped
    <2> QED BY <2>2, <2>3, OneKept DEF IdleRunner
  <1> QED BY <1>1, <1>2, <1>3, <1>4

LEMMA NextOne == TypeOK /\ OneAgent /\ [Next]_vars => OneAgent'
  <1>1. TypeOK /\ OneAgent /\ Next => OneAgent'
    BY TaskOne, WindowOne, HeadlessOne, ServiceOne DEF Next, Step
  <1>2. OneAgent /\ UNCHANGED vars => OneAgent'
    BY DEF vars, OneAgent, Holders
  <1> QED BY <1>1, <1>2

\* On one machine at most one agent runs, in the window or in a headless copy,
\* whatever order start, stop, retry, takeover, uninstall and exit come in.
THEOREM OneAgentOnly == Spec => []OneAgent
  BY InitType, NextType, NextOne, PTL DEF Spec

-----------------------------------------------------------------------------
(* Passwords and salts: where every copy of a configuration comes from.    *)

\* Every configuration that is written down or held anywhere.
Configs ==
    ({file, shown, runner.task.config} \cup {headless[p].config : p \in Process}
        \cup {m.config : m \in sent}) \ {None}

\* A task is there only in a state that a changed configuration restarts.
RestartInv == runner.task # NoTask => runner.state \in RestartStates

\* Tokens, ids and passwords are drawn in their order, and an id belongs to one
\* token.
DrawnInv ==
    /\ \A c \in Configs : c.token <= drawn.token /\ c.password <= drawn.password
    /\ \A c \in Configs : c.id # None => c.id <= drawn.id
    /\ \A c, d \in Configs : c.id # None /\ c.id = d.id => c.token = d.token

\* What the history says of the present.
NotedInv ==
    /\ ~history.halfSetUp => \A c \in Loaded \ {None} : c.id # None
    /\ ~history.crossed => \A c, d \in InFlight : c.token = d.token => c.password = d.password

\* Until the registration of a setup is through, nobody has loaded what it saved,
\* and no other setup has that token.
SetupInv ==
    ~history.halfSetUp =>
        /\ \A m \in sent : m.by = "change" => m.config.id # None
        /\ \A m \in sent : m.by = "setup" =>
              /\ m.config.id = None
              /\ \A c \in Loaded \ {None} : c.token # m.config.token
              /\ file # None /\ file.token = m.config.token => file = m.config
              /\ \A n \in sent : n.by = "setup" /\ n.config.token = m.config.token => n = m

\* The server holds what the agent in the window registered, and no registration
\* that may still arrive says otherwise.
ServerInv ==
    ~history.crossed /\ runner.task # NoTask =>
        /\ \A m \in sent : m.config.token = runner.task.config.token
              => m.config.password = runner.task.config.password
        /\ runner.task.phase = "online" =>
              /\ runner.task.config.id # None
              /\ rv[runner.task.config.id] = [token |-> runner.task.config.token,
                                              password |-> runner.task.config.password]

LEMMA CopyTypes ==
    ASSUME TypeOK
    PROVE  /\ runner.task \in Task /\ runner.task.config \in Config \cup {None}
           /\ runner.task # NoTask => runner.task.config \in Config
           /\ Configs \subseteq Config
           /\ \A m \in sent : m.config \in Config
  <1>1. runner.task \in Task
    BY DEF TypeOK, Runner
  <1>2. /\ runner.task.config \in Config \cup {None}
        /\ runner.task # NoTask => runner.task.config \in Config
    BY <1>1 DEF Task, NoTask
  <1>3. \A m \in sent : m.config \in Config
    BY DEF TypeOK
  <1>4. \A p \in Process : headless[p].config \in Config \cup {None}
    BY DEF TypeOK, Copy
  <1> QED BY <1>1, <1>2, <1>3, <1>4 DEF Configs, TypeOK

\* What is loaded is what the window shows, its task has and the copies have.
LoadedIsCopies ==
    \A c : c \in Loaded \ {None} <=>
        /\ c # None
        /\ c = shown \/ c = runner.task.config \/ \E p \in Process : c = headless[p].config

LEMMA LoadedCopies == TypeOK => LoadedIsCopies
  <1> SUFFICES ASSUME TypeOK PROVE LoadedIsCopies
    OBVIOUS
  <1>1. Running \subseteq {runner.task.config} \cup {headless[p].config : p \in Process}
    BY DEF Running, Agents, Holders
  <1>2. runner.task.config # None => runner.task.config \in Running
    BY DEF Running, Agents, NoTask
  <1> QED BY <1>1, <1>2 DEF Loaded, LoadedIsCopies

LEMMA InFlightCopies ==
    ASSUME TypeOK, NEW c \in InFlight
    PROVE  /\ c \in Configs
           /\ \/ \E m \in sent : c = m.config
              \/ runner.task # NoTask /\ c = runner.task.config
              \/ \E p \in Holders : c = headless[p].config
  <1>1. \/ \E m \in sent : c = m.config
        \/ runner.task # NoTask /\ c = runner.task.config
        \/ \E p \in Holders : c = headless[p].config
    BY DEF InFlight, Agents
  <1>2. c # None
    BY <1>1, CopyTypes, NoneType DEF Holders, TypeOK
  <1> QED BY <1>1, <1>2 DEF Configs, Holders

\* What an agent that is cut off leaves was in flight.
LEMMA CutOffMove ==
    ASSUME TypeOK, NEW agent \in {runner.task} \cup {headless[p] : p \in Process},
           NEW left \in CutOff(agent), NEW m \in left
    PROVE  m.by = "nobody" /\ m.config \in InFlight
  <1>1. agent.phase = "register" /\ m = Message(agent.config, "nobody")
    BY DEF CutOff, Left
  <1>2. agent \in Agents
    BY <1>1 DEF Agents, Holders, Bound, NoTask
  <1> QED BY <1>1, <1>2 DEF Message, InFlight

-----------------------------------------------------------------------------
(* The steps that neither save nor register: copies are loaded, dropped or *)
(* given up.                                                               *)

TaskMove ==
    \/ runner'.task = NoTask
    \/ /\ runner.task # NoTask /\ runner'.task.config = runner.task.config
       /\ runner'.task.phase = "online" => runner.task.phase = "online"
    \/ /\ runner.task = NoTask /\ file # None
       /\ runner'.task = [phase |-> "register", config |-> file]

CopyMove ==
    /\ shown' \in {shown, file, None}
    /\ \A p \in Process : headless'[p].config \in {headless[p].config, file, None}

SentMove == \A m \in sent' : m \in sent \/ (m.by = "nobody" /\ m.config \in InFlight)

LoadMove == UNCHANGED <<file, rv, drawn>> /\ TaskMove /\ CopyMove /\ SentMove

LEMMA StopMove ==
    ASSUME TypeOK, StopRunner({})
    PROVE  runner' = IdleRunner /\ TaskMove /\ SentMove
  <1>1. PICK left \in CutOff(runner.task) : sent' = sent \cup left
    BY DEF StopRunner
  <1>2. runner' = IdleRunner
    BY DEF StopRunner, Stopped
  <1> QED BY <1>1, <1>2, CutOffMove DEF TaskMove, SentMove, IdleRunner

LEMMA StartedMove ==
    ASSUME TypeOK, RestartInv, NEW free \in BOOLEAN, runner' = Started(runner, free)
    PROVE  TaskMove /\ RestartInv'
  <1>1. CASE runner.task # NoTask
    BY <1>1 DEF Started, TaskMove, RestartInv
  <1>2. CASE runner.task = NoTask /\ (file = None \/ ~free)
    BY <1>2 DEF Started, TaskMove, RestartInv, TypeOK, Runner
  <1>3. CASE runner.task = NoTask /\ file # None /\ free
    BY <1>3 DEF Started, TaskMove, RestartInv, RestartStates
  <1> QED BY <1>1, <1>2, <1>3

LEMMA StartMove ==
    ASSUME TypeOK, RestartInv, StartRunner
    PROVE  TaskMove /\ RestartInv' /\ SentMove
  <1>1. PortFree \in BOOLEAN
    BY DEF PortFree, TypeOK, Runner
  <1> QED BY <1>1, StartedMove DEF StartRunner, SentMove

\* The task goes on, or a state is written late.
LEMMA TaskLoads ==
    ASSUME TypeOK, RestartInv, TaskFails \/ TaskReports \/ TaskWakes \/ AbortedTaskReports
    PROVE  LoadMove /\ RestartInv'
  <1> USE DEF disk, desk, background
  <1>0. UNCHANGED <<file, rv, drawn, shown, headless>>
    BY DEF TaskFails, TaskReports, TaskWakes, AbortedTaskReports
  <1>1. CASE TaskFails
    <2>1. PICK left \in CutOff(runner.task) : sent' = sent \cup left
      BY <1>1 DEF TaskFails
    <2>2. SentMove
      BY <2>1, CutOffMove DEF SentMove
    <2>3. TaskMove /\ RestartInv'
      BY <1>1 DEF TaskFails, Goto, TaskMove, RestartInv, NoTask, TypeOK, Runner, Task
    <2> QED BY <1>0, <2>2, <2>3 DEF LoadMove, CopyMove
  <1>2. CASE TaskReports \/ TaskWakes
    <2>1. SentMove
      BY <1>2 DEF TaskReports, TaskWakes, SentMove
    <2>2. PICK phase \in {"backoff", "waking", "register"} :
             /\ runner'.task = [runner.task EXCEPT !.phase = phase]
             /\ runner'.state \in {runner.state, "Failed", "Running"}
      <3>1. CASE TaskWakes
        BY <3>1 DEF TaskWakes, Goto, TypeOK, Runner
      <3>2. CASE TaskReports
        BY <3>2 DEF TaskReports, TypeOK, Runner
      <3> QED BY <1>2, <3>1, <3>2
    <2>3. runner.task \in Task \ {NoTask} /\ runner.state \in RestartStates
      BY <1>2 DEF TaskReports, TaskWakes, RestartInv, NoTask, TypeOK, Runner
    <2>4. runner'.task.config = runner.task.config /\ runner'.task.phase = phase
      BY <2>2, <2>3 DEF Task, NoTask
    <2>5. TaskMove
      BY <2>3, <2>4 DEF TaskMove
    <2>6. RestartInv'
      BY <2>2, <2>3 DEF RestartInv, RestartStates
    <2> QED BY <1>0, <2>1, <2>5, <2>6 DEF LoadMove, CopyMove
  <1>3. CASE AbortedTaskReports
    <2>1. SentMove /\ late \in RestartStates
      BY <1>3 DEF AbortedTaskReports, SentMove, RestartStates, TypeOK
    <2>2. TaskMove /\ RestartInv'
      BY <1>3, <2>1 DEF AbortedTaskReports, TaskMove, RestartInv, TypeOK, Runner
    <2> QED BY <1>0, <2>1, <2>2 DEF LoadMove, CopyMove
  <1> QED BY <1>1, <1>2, <1>3

LEMMA WindowLoads ==
    ASSUME TypeOK, RestartInv,
           \/ \E m \in sent : GivenUp(m)
           \/ OpenWindow \/ Restarted \/ SetupDone \/ StopSharing \/ StartSharing
    PROVE  LoadMove /\ RestartInv'
  <1> USE DEF disk, desk, background
  <1>1. ASSUME NEW m \in sent, GivenUp(m) PROVE LoadMove /\ RestartInv'
    <2>1. PICK left \in Left(m.config) : sent' = (sent \ {m}) \cup (left \ {m})
      BY <1>1 DEF GivenUp
    <2>2. \A n \in left : n.by = "nobody" /\ n.config \in InFlight
      BY DEF Left, Message, InFlight
    <2>3. SentMove
      BY <2>1, <2>2 DEF SentMove
    <2> QED BY <1>1, <2>3 DEF GivenUp, LoadMove, TaskMove, CopyMove, RestartInv
  <1>2. CASE StopSharing
    BY <1>2, StopMove DEF StopSharing, LoadMove, CopyMove, RestartInv, IdleRunner
  <1>3. CASE OpenWindow \/ Restarted \/ SetupDone \/ StartSharing
    <2>1. TaskMove /\ RestartInv' /\ SentMove
      <3>1. CASE StartRunner
        BY <3>1, StartMove
      <3>2. CASE UNCHANGED <<runner, late, sent>>
        BY <3>2 DEF TaskMove, RestartInv, SentMove
      <3> QED BY <1>3, <3>1, <3>2 DEF OpenWindow, Restarted, SetupDone, StartSharing
    <2> QED BY <1>3, <2>1 DEF OpenWindow, Restarted, SetupDone, StartSharing, LoadMove, CopyMove
  <1> QED BY <1>1, <1>2, <1>3

LEMMA EndedMove ==
    ASSUME NEW gone, Ended(gone)
    PROVE  \A p \in Process : headless'[p].config \in {headless[p].config, file, None}
  BY DEF Ended, NoProcess

LEMMA HeadlessLoadsOrFails ==
    ASSUME TypeOK, RestartInv, NEW p \in Process,
           \/ HeadlessLoads(p) \/ HeadlessBinds(p) \/ HeadlessFails(p)
           \/ HeadlessRetries(p) \/ ServiceStarts(p)
    PROVE  LoadMove /\ RestartInv'
  <1> USE DEF disk, desk
  <1>0. UNCHANGED <<file, rv, drawn, shown, runner>> /\ RestartInv' /\ TaskMove
    BY DEF HeadlessLoads, HeadlessBinds, HeadlessFails, HeadlessRetries, ServiceStarts,
           RestartInv, TaskMove
  <1>1. CASE HeadlessFails(p)
    <2>1. PICK left \in CutOff(headless[p]) : sent' = sent \cup left
      BY <1>1 DEF HeadlessFails
    <2>2. SentMove
      BY <2>1, CutOffMove DEF SentMove
    <2>3. \A q \in Process : headless'[q].config = headless[q].config
      BY <1>1 DEF HeadlessFails, TypeOK, Copy
    <2> QED BY <1>0, <2>2, <2>3 DEF LoadMove, CopyMove
  <1>2. CASE HeadlessLoads(p) \/ HeadlessBinds(p) \/ HeadlessRetries(p) \/ ServiceStarts(p)
    <2>1. SentMove
      BY <1>2 DEF HeadlessLoads, HeadlessBinds, HeadlessRetries, ServiceStarts, SentMove
    <2>2. CASE Ended({p})
      BY <1>0, <2>1, <2>2, EndedMove DEF LoadMove, CopyMove
    <2>3. CASE ~Ended({p})
      <3>1. \A q \in Process : headless'[q].config \in {headless[q].config, file, None}
        BY <1>2, <2>3 DEF HeadlessLoads, HeadlessBinds, HeadlessRetries, ServiceStarts, Spawned,
                          TypeOK, Copy
      <3> QED BY <1>0, <2>1, <3>1 DEF LoadMove, CopyMove
    <2> QED BY <2>2, <2>3
  <1> QED BY <1>1, <1>2

LEMMA ServiceLoads ==
    ASSUME TypeOK, RestartInv,
           InstallService \/ UninstallService \/ StopBackground \/ HandOver \/ WindowEnds
    PROVE  LoadMove /\ RestartInv'
  <1> USE DEF disk, desk, background
  <1>1. CASE InstallService
    BY <1>1, StopMove DEF InstallService, LoadMove, CopyMove, RestartInv, IdleRunner
  <1>2. CASE UninstallService
    <2>1. PICK gone \in {{}, {p \in Process : headless[p].by = "service"}} :
             /\ Ended(gone)
             /\ runner' = Started(runner, ~runner.lock /\ Holders \subseteq gone)
             /\ \E left \in UNION {CutOff(headless[p]) : p \in gone} \cup {{}} :
                   sent' = sent \cup left
      BY <1>2 DEF UninstallService
    <2>2. PICK left \in UNION {CutOff(headless[p]) : p \in gone} \cup {{}} :
             sent' = sent \cup left
      BY <2>1
    <2>3. \A m \in left : m.by = "nobody" /\ m.config \in InFlight
      BY <2>1, CutOffMove
    <2>4. (~runner.lock /\ Holders \subseteq gone) \in BOOLEAN
      BY DEF TypeOK, Runner
    <2>5. TaskMove /\ RestartInv'
      BY <2>1, <2>4, StartedMove
    <2>6. SentMove
      BY <2>2, <2>3 DEF SentMove
    <2> QED BY <1>2, <2>1, <2>5, <2>6, EndedMove DEF UninstallService, LoadMove, CopyMove
  <1>3. CASE StopBackground
    <2>1. pid \in Process
      BY <1>3 DEF StopBackground, TypeOK
    <2>2. PICK left \in CutOff(headless[pid]) : sent' = sent \cup left
      BY <1>3 DEF StopBackground
    <2>3. Ended({pid}) /\ runner' = IdleRunner
      BY <1>3 DEF StopBackground, Stopped
    <2>4. SentMove
      BY <2>1, <2>2, CutOffMove DEF SentMove
    <2> QED BY <1>3, <2>3, <2>4, EndedMove
            DEF StopBackground, LoadMove, TaskMove, CopyMove, RestartInv, IdleRunner
  <1>4. CASE HandOver
    <2>1. PICK p \in Process : Spawned(p, "window")
      BY <1>4 DEF HandOver
    <2>2. PICK left \in CutOff(runner.task) : sent' = sent \cup left
      BY <1>4 DEF HandOver
    <2>3. SentMove
      BY <2>2, CutOffMove DEF SentMove
    <2>4. \A q \in Process : headless'[q].config \in {headless[q].config, file, None}
      BY <2>1 DEF Spawned, TypeOK
    <2> QED BY <1>4, <2>3, <2>4
            DEF HandOver, LetGo, Stopped, LoadMove, TaskMove, CopyMove, RestartInv, IdleRunner
  <1>5. CASE WindowEnds
    <2>1. PICK left \in CutOff(runner.task) \cup UNION {Left(m.config) : m \in sent} :
             sent' = Strays \cup left
      BY <1>5 DEF WindowEnds
    <2>2. \A m \in left : m.by = "nobody" /\ m.config \in InFlight
      <3>1. CASE left \in CutOff(runner.task)
        BY <3>1, CutOffMove
      <3>2. ASSUME NEW n \in sent, left \in Left(n.config)
            PROVE  \A m \in left : m.by = "nobody" /\ m.config \in InFlight
        BY <3>2 DEF Left, Message, InFlight
      <3> QED BY <2>1, <3>1, <3>2
    <2>3. SentMove
      BY <2>1, <2>2 DEF SentMove, Strays
    <2> QED BY <1>5, <2>3
            DEF WindowEnds, LoadMove, TaskMove, CopyMove, RestartInv, IdleRunner
  <1> QED BY <1>1, <1>2, <1>3, <1>4, <1>5

\* The steps that save or register, and the rest.
StepKind ==
    \/ LoadMove
    \/ ChangePassword \/ ChangeFails \/ FinishSetup
    \/ TaskRegisters \/ \E p \in Process : HeadlessRegisters(p)
    \/ \E m \in sent : Arrives(m)

LEMMA StepHasKind ==
    ASSUME TypeOK, RestartInv, [Next]_vars
    PROVE  StepKind /\ RestartInv'
  <1>1. CASE ChangePassword
    BY <1>1 DEF ChangePassword, StopRunner, Stopped, IdleRunner, RestartInv, StepKind
  <1>2. CASE ChangeFails \/ FinishSetup \/ (\E m \in sent : Arrives(m))
                         \/ (\E p \in Process : HeadlessRegisters(p))
    <2>1. UNCHANGED runner
      BY <1>2 DEF ChangeFails, FinishSetup, Arrives, HeadlessRegisters
    <2> QED BY <1>2, <2>1 DEF RestartInv, StepKind
  <1>3. CASE TaskRegisters
    BY <1>3 DEF TaskRegisters, RestartInv, NoTask, TypeOK, Runner, Task, StepKind
  <1>4. CASE UNCHANGED vars
    BY <1>4 DEF vars, StepKind, LoadMove, TaskMove, CopyMove, SentMove, RestartInv
  <1> QED
    BY <1>1, <1>2, <1>3, <1>4, TaskLoads, WindowLoads, HeadlessLoadsOrFails, ServiceLoads
    DEF Next, Step, StepKind

-----------------------------------------------------------------------------
(* What is drawn, and what a registration makes of it.                     *)

LEMMA NextNoted ==
    ASSUME NotedInv, [Next]_vars
    PROVE  /\ NotedInv'
           /\ history.halfSetUp => history'.halfSetUp
           /\ history.crossed => history'.crossed
  <1>1. CASE Note
    <2>1. /\ history'.crossed = (history.crossed \/ \E c, d \in InFlight' :
                                     c.token = d.token /\ c.password # d.password)
          /\ history'.halfSetUp = (history.halfSetUp
                                      \/ \E c \in Loaded' \ {None} : c.id = None)
      BY <1>1 DEF Note
    <2> QED BY <2>1 DEF NotedInv
  <1>2. CASE UNCHANGED vars
    <2>1. InFlight' = InFlight /\ Loaded' = Loaded /\ history' = history
      BY <1>2 DEF vars, InFlight, Loaded, Running, Agents, Holders
    <2> QED BY <2>1 DEF NotedInv
  <1> QED BY <1>1, <1>2 DEF Next

LEMMA RegisterEffect ==
    ASSUME TypeOK, DrawnInv, NEW c \in Configs, Register(c)
    PROVE  /\ Answer(c) \in 1..MaxId
           /\ rv' = [rv EXCEPT ![Answer(c)] = [token |-> c.token, password |-> c.password]]
           /\ drawn'.token = drawn.token /\ drawn'.password = drawn.password
           /\ \/ /\ c.id # None /\ Answer(c) = c.id /\ drawn'.id = drawn.id
                 /\ [c EXCEPT !.id = Answer(c)] = c
              \/ c.id = None /\ Answer(c) = drawn.id + 1 /\ drawn'.id = drawn.id + 1
  <1>1. c \in Config
    BY CopyTypes
  <1>2. /\ Answer(c) \in 1..MaxId
        /\ rv' = [rv EXCEPT ![Answer(c)] = [token |-> c.token, password |-> c.password]]
    BY DEF Register
  <1> DEFINE last == IF drawn.id < Answer(c) THEN Answer(c) ELSE drawn.id
  <1>3. drawn' = [drawn EXCEPT !.id = last]
    BY DEF Register
  <1> HIDE DEF last
  <1>4. drawn'.id = last /\ drawn'.token = drawn.token /\ drawn'.password = drawn.password
    BY <1>3 DEF TypeOK
  <1>5. CASE c.id # None
    <2>1. Answer(c) = c.id /\ c.id <= drawn.id
      BY <1>5 DEF Answer, DrawnInv
    <2>2. [c EXCEPT !.id = Answer(c)] = c
      BY <1>1, <2>1 DEF Config
    <2>3. last = drawn.id
      BY <1>2, <2>1, DeskAssumption DEF last, TypeOK
    <2> QED BY <1>2, <1>4, <1>5, <2>1, <2>2, <2>3
  <1>6. CASE c.id = None
    <2>1. Answer(c) = drawn.id + 1
      BY <1>6 DEF Answer
    <2>2. last = drawn.id + 1
      BY <2>1, DeskAssumption DEF last, TypeOK
    <2> QED BY <1>2, <1>4, <1>6, <2>1, <2>2
  <1> QED BY <1>5, <1>6

\* One configuration more, of what was drawn last.
LEMMA DrawnGrows ==
    ASSUME TypeOK, TypeOK', DrawnInv,
           drawn.token <= drawn'.token, drawn.id <= drawn'.id,
           drawn.password <= drawn'.password,
           NEW n, Configs' \subseteq Configs \cup {n},
           \/ n \in Configs
           \/ /\ n.token \in Nat /\ n.token <= drawn'.token
              /\ n.password \in Nat /\ n.password <= drawn'.password
              /\ n.id # None =>
                    /\ n.id \in Nat /\ n.id <= drawn'.id
                    /\ n.id > drawn.id \/ \E b \in Configs : b.id = n.id /\ b.token = n.token
    PROVE  DrawnInv'
  <1>1. /\ drawn.token \in Nat /\ drawn.id \in Nat /\ drawn.password \in Nat
        /\ drawn'.token \in Nat /\ drawn'.id \in Nat /\ drawn'.password \in Nat
    BY DeskAssumption DEF TypeOK
  <1>2. ASSUME NEW c \in Configs
        PROVE  /\ c.token \in Nat /\ c.password \in Nat /\ (c.id # None => c.id \in Nat)
               /\ c.token <= drawn.token /\ c.password <= drawn.password
               /\ c.id # None => c.id <= drawn.id
    BY CopyTypes, DeskAssumption DEF Config, DrawnInv
  <1>3. ASSUME NEW c \in Configs'
        PROVE  /\ c.token <= drawn'.token /\ c.password <= drawn'.password
               /\ c.id # None => c.id <= drawn'.id
    BY <1>1, <1>2
  <1>4. ASSUME NEW c \in Configs', NEW d \in Configs', c.id # None, c.id = d.id
        PROVE  c.token = d.token
    <2>1. CASE c \in Configs /\ d \in Configs
      BY <1>4, <2>1 DEF DrawnInv
    <2>2. ASSUME n \notin Configs, NEW e \in Configs, e.id = n.id, n.id # None
          PROVE  e.token = n.token
      BY <1>1, <1>2, <2>2 DEF DrawnInv
    <2> QED BY <1>4, <2>1, <2>2
  <1> QED BY <1>3, <1>4 DEF DrawnInv

\* A registration saves what it registered, with the id that it was given.
LEMMA SaveEffect ==
    ASSUME TypeOK, DrawnInv, NEW c \in Configs, RegisterAndSave(c)
    PROVE  /\ c.id # None => file' = file
           /\ file' = file \/ file' = [c EXCEPT !.id = Answer(c)]
  BY RegisterEffect DEF RegisterAndSave, Saves

LEMMA LoadConfigs ==
    ASSUME TypeOK, LoadMove
    PROVE  Configs' \subseteq Configs
  <1>1. \A m \in sent' : m.config \in Configs
    BY CopyTypes, NoneType, InFlightCopies DEF LoadMove, SentMove, Configs
  <1>2. runner'.task.config = None \/ runner'.task.config \in Configs
    BY DEF LoadMove, TaskMove, NoTask, Configs
  <1>3. shown' = None \/ shown' \in Configs
    BY DEF LoadMove, CopyMove, Configs
  <1>4. \A p \in Process : headless'[p].config = None \/ headless'[p].config \in Configs
    BY DEF LoadMove, CopyMove, Configs
  <1>5. file' = None \/ file' \in Configs
    BY DEF LoadMove, Configs
  <1> QED BY <1>1, <1>2, <1>3, <1>4, <1>5 DEF Configs

\* The four fields of a step that registers, and who registers.
Registers(c) ==
    /\ Register(c) /\ c \in Configs
    /\ Configs' \subseteq Configs \cup {[c EXCEPT !.id = Answer(c)]}
    /\ shown' = shown
    /\ \A p \in Process : \/ headless'[p].config = headless[p].config
                          \/ /\ p \in Holders /\ headless[p].config = c
                             /\ headless'[p].config = [c EXCEPT !.id = Answer(c)]
    /\ sent' \subseteq sent

LEMMA TaskRegistersMove ==
    ASSUME TypeOK, DrawnInv, TaskRegisters
    PROVE  LET c == runner.task.config IN
           /\ Registers(c) /\ RegisterAndSave(c)
           /\ runner.task # NoTask /\ runner'.task # NoTask
           /\ runner'.task.config = [c EXCEPT !.id = Answer(c)]
           /\ UNCHANGED <<headless, sent>>
  <1> DEFINE c == runner.task.config
  <1>1. /\ runner.task # NoTask /\ RegisterAndSave(c)
        /\ UNCHANGED <<shown, headless, sent>>
    BY DEF TaskRegisters, NoTask, desk, background
  <1>2. c \in Config /\ c \in Configs
    BY <1>1, CopyTypes, NoneType DEF Configs
  <1>3. /\ runner'.task.config = [c EXCEPT !.id = Answer(c)] /\ runner'.task.phase = "online"
    BY <1>1 DEF TaskRegisters, TypeOK, Runner, Task
  <1>4. file' = file \/ file' = [c EXCEPT !.id = Answer(c)]
    BY <1>1, <1>2, SaveEffect
  <1>5. Configs' \subseteq Configs \cup {[c EXCEPT !.id = Answer(c)]}
    BY <1>1, <1>3, <1>4 DEF Configs
  <1> QED BY <1>1, <1>2, <1>3, <1>5 DEF Registers, RegisterAndSave, NoTask

LEMMA HeadlessRegistersMove ==
    ASSUME TypeOK, DrawnInv, NEW p \in Process, HeadlessRegisters(p)
    PROVE  LET c == headless[p].config IN
           /\ Registers(c) /\ RegisterAndSave(c) /\ p \in Holders
           /\ UNCHANGED <<runner, sent>>
  <1> DEFINE c == headless[p].config
  <1>1. /\ headless[p].phase = "register" /\ RegisterAndSave(c)
        /\ UNCHANGED <<shown, runner, sent>> /\ p \in Holders
    BY DEF HeadlessRegisters, desk, Holders, Bound
  <1>2. c # None /\ c \in Configs
    BY <1>1 DEF TypeOK, Configs, Bound
  <1>3. /\ headless'[p].config = [c EXCEPT !.id = Answer(c)]
        /\ \A q \in Process : q # p => headless'[q] = headless[q]
    BY DEF HeadlessRegisters, TypeOK, Copy
  <1>4. file' = file \/ file' = [c EXCEPT !.id = Answer(c)]
    BY <1>1, <1>2, SaveEffect
  <1>5. Configs' \subseteq Configs \cup {[c EXCEPT !.id = Answer(c)]}
    BY <1>1, <1>3, <1>4 DEF Configs
  <1> QED BY <1>1, <1>2, <1>3, <1>5 DEF Registers, RegisterAndSave

LEMMA ArrivesMove ==
    ASSUME TypeOK, DrawnInv, NEW m \in sent, Arrives(m)
    PROVE  /\ Registers(m.config)
           /\ m.by = "nobody" => file' = file
           /\ m.by # "nobody" => RegisterAndSave(m.config)
           /\ sent' = sent \ {m}
           /\ UNCHANGED <<runner, headless>>
  <1> DEFINE c == m.config
  <1>1. /\ m.by = "nobody" => file' = file
        /\ m.by # "nobody" => RegisterAndSave(c)
        /\ sent' = sent \ {m} /\ UNCHANGED <<shown, runner, headless>>
        /\ Register(c)
    BY DEF Arrives, RegisterAndSave, background
  <1>2. c \in Configs
    BY CopyTypes, NoneType DEF Configs
  <1>3. file' = file \/ file' = [c EXCEPT !.id = Answer(c)]
    BY <1>1, <1>2, SaveEffect
  <1>4. Configs' \subseteq Configs \cup {[c EXCEPT !.id = Answer(c)]}
    BY <1>1, <1>3 DEF Configs
  <1> QED BY <1>1, <1>2, <1>4 DEF Registers

LEMMA NextDrawn ==
    ASSUME TypeOK, TypeOK', DrawnInv, StepKind
    PROVE  DrawnInv'
  <1>1. /\ drawn.token \in Nat /\ drawn.id \in Nat /\ drawn.password \in Nat
    BY DeskAssumption DEF TypeOK
  <1>2. CASE LoadMove
    <2>1. Configs' \subseteq Configs /\ drawn' = drawn
      BY <1>2, LoadConfigs DEF LoadMove
    <2>2. CASE Configs = {}
      BY <2>1, <2>2 DEF DrawnInv
    <2>3. ASSUME NEW n \in Configs PROVE DrawnInv'
      BY <1>1, <2>1, DrawnGrows
    <2> QED BY <2>2, <2>3
  <1>3. CASE ChangePassword
    <2> DEFINE n == [shown EXCEPT !.password = drawn.password + 1]
    <2>1. shown \in Configs /\ shown \in Config
      BY <1>3, CopyTypes DEF ChangePassword, Configs
    <2>2. /\ n.token = shown.token /\ n.id = shown.id /\ n.password = drawn.password + 1
      BY <2>1 DEF Config
    <2>3. /\ drawn'.token = drawn.token /\ drawn'.id = drawn.id
          /\ drawn'.password = drawn.password + 1
      BY <1>3 DEF ChangePassword, TypeOK
    <2>4. Configs' \subseteq Configs \cup {n}
      <3>1. file' = n /\ shown' = n /\ headless' = headless
        BY <1>3 DEF ChangePassword, background
      <3>2. runner'.task.config \in {None, runner.task.config}
        BY <1>3 DEF ChangePassword, StopRunner, Stopped, IdleRunner, NoTask
      <3>3. \A m \in sent' : m.config \in Configs \cup {n}
        <4>1. PICK left \in CutOff(runner.task) \cup {{}} :
                 sent' = sent \cup left \cup {Message(n, "change")}
          BY <1>3 DEF ChangePassword, StopRunner
        <4>2. \A m \in left : m.config \in Configs
          BY <4>1, CutOffMove, InFlightCopies
        <4> QED BY <4>1, <4>2, CopyTypes, NoneType DEF Message, Configs
      <3> HIDE DEF n
      <3> QED BY <3>1, <3>2, <3>3 DEF Configs
    <2>5. shown.token \in Nat /\ shown.token <= drawn.token
          /\ (shown.id # None => shown.id \in Nat /\ shown.id <= drawn.id)
      BY <2>1, DeskAssumption DEF DrawnInv, Config
    <2> HIDE DEF n
    <2> QED BY <1>1, <2>1, <2>2, <2>3, <2>4, <2>5, DrawnGrows
  <1>4. CASE FinishSetup
    <2> DEFINE n == [token |-> drawn.token + 1, id |-> None, password |-> drawn.password + 1]
    <2>1. /\ drawn'.token = drawn.token + 1 /\ drawn'.id = drawn.id
          /\ drawn'.password = drawn.password + 1
      BY <1>4 DEF FinishSetup, TypeOK
    <2>2. Configs' \subseteq Configs \cup {n}
      <3>1. /\ file' = n /\ sent' = sent \cup {Message(n, "setup")}
            /\ UNCHANGED <<shown, headless, runner>>
        BY <1>4 DEF FinishSetup, desk, background
      <3> HIDE DEF n
      <3> QED BY <3>1 DEF Message, Configs
    <2>3. n.token = drawn.token + 1 /\ n.id = None /\ n.password = drawn.password + 1
      OBVIOUS
    <2> HIDE DEF n
    <2> QED BY <1>1, <2>1, <2>2, <2>3, DrawnGrows
  <1>5. ASSUME NEW c, Registers(c) PROVE DrawnInv'
    <2> DEFINE n == [c EXCEPT !.id = Answer(c)]
    <2>1. c \in Configs /\ c \in Config /\ Configs' \subseteq Configs \cup {n}
      BY <1>5, CopyTypes DEF Registers
    <2>2. /\ drawn'.token = drawn.token /\ drawn'.password = drawn.password
          /\ \/ drawn'.id = drawn.id /\ n = c
             \/ Answer(c) = drawn.id + 1 /\ drawn'.id = drawn.id + 1
      BY <1>5, <2>1, RegisterEffect DEF Registers
    <2>3. n.id = Answer(c) /\ n.token = c.token /\ n.password = c.password
      BY <2>1 DEF Config
    <2>4. /\ c.token \in Nat /\ c.password \in Nat
          /\ c.token <= drawn.token /\ c.password <= drawn.password
      BY <2>1, DeskAssumption DEF DrawnInv, Config
    <2> HIDE DEF n
    <2> QED BY <1>1, <2>1, <2>2, <2>3, <2>4, DrawnGrows
  <1>6. CASE ChangeFails
    <2>1. Configs' \subseteq Configs /\ drawn' = drawn
      BY <1>6 DEF ChangeFails, Configs, desk, background
    <2>2. CASE Configs = {}
      BY <2>1, <2>2 DEF DrawnInv
    <2>3. ASSUME NEW n \in Configs PROVE DrawnInv'
      BY <1>1, <2>1, DrawnGrows
    <2> QED BY <2>2, <2>3
  <1> QED BY <1>2, <1>3, <1>4, <1>5, <1>6, TaskRegistersMove, HeadlessRegistersMove, ArrivesMove
          DEF StepKind

-----------------------------------------------------------------------------
(* Setups under way, and the password of the agent in the window.          *)

\* What the changes of the file are, while no half set up configuration was ever
\* loaded: a change of password, a setup, and the registration of a setup.
FileKind ==
    \/ LoadMove
    \/ /\ file' = file /\ sent' \subseteq sent
       /\ Loaded' \ {None} \subseteq Loaded \ {None}
       /\ \/ runner'.task = NoTask
          \/ runner.task # NoTask /\ runner'.task.config = runner.task.config
    \/ ChangePassword
    \/ ChangeFails
    \/ FinishSetup
    \/ \E m \in sent :
          /\ m.by = "setup" /\ sent' = sent \ {m} /\ Loaded' = Loaded /\ UNCHANGED runner
          /\ file'.token = m.config.token /\ file'.password = m.config.password
          /\ file' \in Config

LEMMA LoadedRegisters ==
    ASSUME TypeOK, LoadedIsCopies', DrawnInv, NotedInv, ~history.halfSetUp,
           NEW c, Registers(c), runner'.task.config \in {runner.task.config, c}
    PROVE  Loaded' \ {None} \subseteq (Loaded \ {None}) \cup {c}
  <1> USE DEF LoadedIsCopies
  <1>1. LoadedIsCopies /\ LoadedIsCopies'
    BY LoadedCopies
  <1>2. ASSUME NEW p \in Process
        PROVE  headless'[p].config = headless[p].config
    <2>1. CASE headless[p].config = c /\ headless'[p].config = [c EXCEPT !.id = Answer(c)]
      <3>1. c \in Configs /\ c # None /\ Register(c)
        BY DEF Registers, Configs
      <3>2. c.id # None
        BY <1>1, <2>1, <3>1 DEF NotedInv
      <3> QED BY <2>1, <3>1, <3>2, RegisterEffect
    <2> QED BY <2>1 DEF Registers
  <1> QED BY <1>1, <1>2 DEF Registers

LEMMA StepHasFileKind ==
    ASSUME TypeOK, LoadedIsCopies', DrawnInv, NotedInv, SetupInv, ~history.halfSetUp,
           StepKind
    PROVE  FileKind
  <1> USE DEF LoadedIsCopies
  <1>1. LoadedIsCopies
    BY LoadedCopies
  <1>2. CASE TaskRegisters
    <2> DEFINE c == runner.task.config
    <2>1. /\ Registers(c) /\ RegisterAndSave(c)
          /\ runner.task # NoTask /\ runner'.task.config = [c EXCEPT !.id = Answer(c)]
          /\ UNCHANGED <<headless, sent>>
      BY <1>2, TaskRegistersMove
    <2>2. c \in Configs /\ c # None /\ Register(c) /\ c \in Loaded \ {None}
      BY <1>1, <2>1 DEF Registers, Configs
    <2>3. c.id # None
      BY <2>2 DEF NotedInv
    <2>4. file' = file /\ runner'.task.config = c
      BY <2>1, <2>2, <2>3, RegisterEffect, SaveEffect
    <2>5. Loaded' \ {None} \subseteq Loaded \ {None}
      BY <2>1, <2>2, <2>4, LoadedRegisters
    <2> QED BY <2>1, <2>4, <2>5 DEF FileKind
  <1>3. ASSUME NEW p \in Process, HeadlessRegisters(p) PROVE FileKind
    <2> DEFINE c == headless[p].config
    <2>1. /\ Registers(c) /\ RegisterAndSave(c)
          /\ UNCHANGED <<runner, sent>>
      BY <1>3, HeadlessRegistersMove
    <2>2. c \in Configs /\ c # None /\ c \in Loaded \ {None}
      BY <1>1, <2>1 DEF Registers, Configs
    <2>3. c.id # None
      BY <2>2 DEF NotedInv
    <2>4. file' = file
      BY <2>1, <2>2, <2>3, SaveEffect
    <2>5. Loaded' \ {None} \subseteq Loaded \ {None}
      BY <2>1, <2>2, LoadedRegisters
    <2> QED BY <2>1, <2>4, <2>5 DEF FileKind
  <1>4. ASSUME NEW m \in sent, Arrives(m) PROVE FileKind
    <2> DEFINE c == m.config
    <2>1. /\ Registers(c) /\ c \in Configs
          /\ m.by = "nobody" => file' = file
          /\ m.by # "nobody" => RegisterAndSave(c)
          /\ sent' = sent \ {m} /\ UNCHANGED <<runner, headless>> /\ shown' = shown
      BY <1>4, ArrivesMove DEF Registers
    <2>2. Loaded' = Loaded
      BY <2>1 DEF Loaded, Running, Agents, Holders
    <2>3. CASE file' = file
      BY <2>1, <2>2, <2>3 DEF FileKind
    <2>4. CASE file' # file
      <3>1. m.by \in {"change", "setup"} /\ RegisterAndSave(c)
        BY <2>1, <2>4 DEF TypeOK
      <3>2. c.id = None
        BY <2>1, <2>4, <3>1, SaveEffect
      <3>3. m.by = "setup"
        BY <3>1, <3>2 DEF SetupInv
      <3>4. c \in Config /\ file' = [c EXCEPT !.id = Answer(c)] /\ Answer(c) \in 1..MaxId
        BY <2>1, <2>4, <3>1, CopyTypes, SaveEffect, RegisterEffect DEF Registers
      <3>5. file'.token = c.token /\ file'.password = c.password /\ file' \in Config
        BY <3>4 DEF Config
      <3> QED BY <2>1, <2>2, <3>3, <3>5 DEF FileKind
    <2> QED BY <2>3, <2>4
  <1> QED BY <1>2, <1>3, <1>4 DEF StepKind, FileKind

LEMMA NextSetup ==
    ASSUME TypeOK, LoadedIsCopies', DrawnInv, NotedInv, NotedInv', SetupInv,
           ~history.halfSetUp, ~history'.halfSetUp, FileKind
    PROVE  SetupInv'
  <1> USE DEF LoadedIsCopies
  <1>1. LoadedIsCopies /\ LoadedIsCopies'
    BY LoadedCopies
  <1>2. /\ \A c \in Loaded \ {None} : c \in Configs /\ c \in Config /\ c.id # None
        /\ \A c \in Loaded' \ {None} : c.id # None
        /\ \A m \in sent : m.config \in Configs /\ m.config \in Config
    <2>1. \A c \in Loaded \ {None} : c \in Configs
      BY <1>1 DEF Configs
    <2>2. \A m \in sent : m.config \in Configs
      BY CopyTypes, NoneType DEF Configs
    <2> QED BY <2>1, <2>2, CopyTypes DEF NotedInv
  <1>3. CASE LoadMove
    <2>1. \A c \in Loaded' \ {None} : c \in Loaded \ {None} \/ c = file
      BY <1>1, <1>3 DEF LoadMove, TaskMove, CopyMove, NoTask
    <2>2. \A m \in sent' : m.by # "nobody" => m \in sent
      BY <1>3 DEF LoadMove, SentMove
    <2>3. file' = file
      BY <1>3 DEF LoadMove
    <2>4. ASSUME NEW m \in sent', m.by = "setup", NEW c \in Loaded' \ {None}
          PROVE  c.token # m.config.token
      <3>1. m \in sent
        BY <2>2, <2>4
      <3> QED BY <1>2, <2>1, <2>4, <3>1 DEF SetupInv
    <2> QED BY <2>2, <2>3, <2>4 DEF SetupInv
  <1>4. CASE /\ file' = file /\ sent' \subseteq sent
             /\ Loaded' \ {None} \subseteq Loaded \ {None}
    BY <1>4 DEF SetupInv
  <1>5. CASE ChangePassword
    <2> DEFINE n == [shown EXCEPT !.password = drawn.password + 1]
    <2>1. shown \in Loaded \ {None} /\ file' = n /\ shown' = n /\ headless' = headless
      BY <1>1, <1>5 DEF ChangePassword, background
    <2>2. n.token = shown.token /\ n.id = shown.id
      BY <1>2, <2>1 DEF Config
    <2>3. \A c \in Loaded' \ {None} : c \in Loaded \ {None} \/ c.token = shown.token
      <3>1. runner'.task.config \in {None, runner.task.config}
        BY <1>5 DEF ChangePassword, StopRunner, Stopped, IdleRunner, NoTask
      <3> HIDE DEF n
      <3> QED BY <1>1, <2>1, <2>2, <3>1
    <2>4. \A m \in sent' : m.by # "nobody" => m \in sent \/ (m.config = n /\ m.by = "change")
      <3> HIDE DEF LoadedIsCopies
      <3>1. PICK left \in CutOff(runner.task) \cup {{}} :
               sent' = sent \cup left \cup {Message(n, "change")}
        BY <1>5 DEF ChangePassword, StopRunner
      <3>2. \A m \in left : m.by = "nobody"
        BY <3>1, CutOffMove
      <3> QED BY <3>1, <3>2 DEF Message
    <2> HIDE DEF n
    <2>5. \A m \in sent' : m.by = "change" => m.config.id # None
      BY <1>2, <2>1, <2>2, <2>4 DEF SetupInv
    <2>6. ASSUME NEW m \in sent', m.by = "setup"
          PROVE  /\ m.config.id = None
                 /\ \A c \in Loaded' \ {None} : c.token # m.config.token
                 /\ file' # None /\ file'.token = m.config.token => file' = m.config
                 /\ \A k \in sent' : k.by = "setup" /\ k.config.token = m.config.token => k = m
      <3>1. m \in sent
        BY <2>4, <2>6
      <3> QED BY <2>1, <2>2, <2>3, <2>4, <2>6, <3>1 DEF SetupInv
    <2> QED BY <2>5, <2>6 DEF SetupInv
  <1>6. CASE FinishSetup
    <2> DEFINE n == [token |-> drawn.token + 1, id |-> None, password |-> drawn.password + 1]
    <2>1. /\ file' = n /\ sent' = sent \cup {Message(n, "setup")}
          /\ UNCHANGED <<shown, headless, runner>>
      BY <1>6 DEF FinishSetup, desk, background
    <2>2. /\ Message(n, "setup").by = "setup" /\ Message(n, "setup").config = n
          /\ n.token = drawn.token + 1 /\ n.id = None
      BY DEF Message
    <2> HIDE DEF n
    <2>3. Loaded' = Loaded
      BY <2>1 DEF Loaded, Running, Agents, Holders
    <2>4. \A c \in Configs : c.token # n.token
      <3>1. drawn.token \in Nat
        BY DeskAssumption DEF TypeOK
      <3>2. \A c \in Configs : c.token \in Nat /\ c.token <= drawn.token
        BY CopyTypes, DeskAssumption DEF DrawnInv, Config
      <3> QED BY <2>2, <3>1, <3>2
    <2> QED BY <1>2, <2>1, <2>2, <2>3, <2>4 DEF SetupInv
  <1>7. ASSUME NEW m \in sent, m.by = "setup", sent' = sent \ {m}, Loaded' = Loaded,
               file'.token = m.config.token
        PROVE  SetupInv'
    BY <1>7 DEF SetupInv
  <1>8. CASE ChangeFails
    <2>1. Loaded' = Loaded /\ file' = None /\ sent' = sent
      BY <1>8 DEF ChangeFails, Loaded, Running, Agents, Holders, desk, background
    <2> QED BY <2>1 DEF SetupInv
  <1> QED BY <1>3, <1>4, <1>5, <1>6, <1>7, <1>8 DEF FileKind

LEMMA NextCurrent ==
    ASSUME TypeOK, DrawnInv, NotedInv, SetupInv, RestartInv, WindowAgentIsCurrent,
           ~history.halfSetUp, FileKind
    PROVE  WindowAgentIsCurrent'
  <1>1. runner.task # NoTask => /\ runner.task.config \in Loaded \ {None}
                                /\ runner.task.config \in Configs
    BY CopyTypes, LoadedCopies, NoneType DEF Configs, LoadedIsCopies
  <1>2. CASE LoadMove
    BY <1>2 DEF LoadMove, TaskMove, WindowAgentIsCurrent
  <1>3. CASE /\ file' = file
             /\ \/ runner'.task = NoTask
                \/ runner.task # NoTask /\ runner'.task.config = runner.task.config
    BY <1>3 DEF WindowAgentIsCurrent
  <1>4. CASE ChangePassword
    <2>1. runner'.task = NoTask
      BY <1>4 DEF ChangePassword, StopRunner, Stopped, IdleRunner, RestartInv
    <2> QED BY <2>1 DEF WindowAgentIsCurrent
  <1>5. CASE FinishSetup
    <2>1. runner' = runner /\ file'.token = drawn.token + 1
      BY <1>5 DEF FinishSetup
    <2>2. runner.task # NoTask => /\ runner.task.config.token \in Nat
                                  /\ runner.task.config.token <= drawn.token
      BY <1>1, CopyTypes, DeskAssumption DEF DrawnInv, Config
    <2>3. drawn.token \in Nat
      BY DeskAssumption DEF TypeOK
    <2> QED BY <2>1, <2>2, <2>3 DEF WindowAgentIsCurrent
  <1>6. ASSUME NEW m \in sent, m.by = "setup", UNCHANGED runner,
               file'.token = m.config.token
        PROVE  WindowAgentIsCurrent'
    BY <1>1, <1>6 DEF SetupInv, WindowAgentIsCurrent
  <1>7. CASE ChangeFails
    BY <1>7 DEF ChangeFails, WindowAgentIsCurrent
  <1> QED BY <1>2, <1>3, <1>4, <1>5, <1>6, <1>7 DEF FileKind

\* No step undoes a password.
LEMMA StepUndoesNothing ==
    ASSUME TypeOK, DrawnInv, SetupInv, ~history.halfSetUp, FileKind,
           None \notin {file, file'}, file'.token = file.token
    PROVE  file'.password >= file.password
  <1>1. /\ file \in Config /\ file \in Configs
        /\ file.password \in Nat /\ file.password <= drawn.password
        /\ file.token \in Nat /\ file.token <= drawn.token
        /\ drawn.token \in Nat /\ drawn.password \in Nat
    BY DeskAssumption DEF TypeOK, Configs, DrawnInv, Config
  <1>2. CASE file' = file
    BY <1>1, <1>2
  <1>3. CASE ChangePassword
    <2>1. shown \in Config /\ file' = [shown EXCEPT !.password = drawn.password + 1]
      BY <1>3 DEF ChangePassword, TypeOK
    <2>2. file'.password = drawn.password + 1
      BY <2>1 DEF Config
    <2> QED BY <1>1, <2>2
  <1>4. CASE FinishSetup
    <2>1. file'.token = drawn.token + 1
      BY <1>4 DEF FinishSetup
    <2> QED BY <1>1, <2>1
  <1>5. ASSUME NEW m \in sent, m.by = "setup", file'.token = m.config.token,
               file'.password = m.config.password
        PROVE  file'.password >= file.password
    <2>1. file = m.config
      BY <1>5 DEF SetupInv
    <2> QED BY <1>1, <1>5, <2>1
  <1>6. ~ChangeFails
    BY DEF ChangeFails
  <1> QED BY <1>2, <1>3, <1>4, <1>5, <1>6 DEF FileKind, LoadMove

-----------------------------------------------------------------------------
(* The server's record of the agent in the window.                         *)

LEMMA NextServer ==
    ASSUME TypeOK, OneAgent, DrawnInv, RestartInv, NotedInv', ServerInv, StepKind,
           ~history.crossed, ~history'.crossed, runner'.task # NoTask
    PROVE  ServerInv'
  <1> DEFINE c == runner.task.config
  <1>1. /\ runner.task # NoTask => c \in Config /\ c \in Configs /\ Holders = {}
        /\ \A m \in sent : m.config \in Config /\ m.config \in Configs
    BY CopyTypes, NoneType DEF Configs, OneAgent
  <1>2. CASE LoadMove
    <2>1. ASSUME NEW m \in sent', m.config.token = runner'.task.config.token
          PROVE  m.config.password = runner'.task.config.password
      <3>1. m \in sent \/ m.config \in InFlight
        BY <1>2 DEF LoadMove, SentMove
      <3>2. CASE runner.task # NoTask /\ runner'.task.config = c
        <4>1. (\E n \in sent : m.config = n.config) \/ m.config = c
          BY <1>1, <3>1, <3>2, InFlightCopies
        <4> QED BY <2>1, <3>2, <4>1 DEF ServerInv
      <3>3. CASE runner'.task = [phase |-> "register", config |-> file]
        <4>1. m.config \in InFlight'
          BY DEF InFlight
        <4>2. runner'.task.config \in InFlight'
          BY <3>3 DEF InFlight, Agents
        <4> QED BY <2>1, <4>1, <4>2 DEF NotedInv
      <3> QED BY <1>2, <3>2, <3>3 DEF LoadMove, TaskMove
    <2>2. CASE runner'.task.phase = "online"
      <3>1. runner.task # NoTask /\ runner'.task.config = c /\ runner.task.phase = "online"
        BY <1>2, <2>2 DEF LoadMove, TaskMove
      <3>2. rv' = rv
        BY <1>2 DEF LoadMove
      <3> QED BY <2>1, <3>1, <3>2 DEF ServerInv
    <2> QED BY <2>1, <2>2 DEF ServerInv
  <1>3. CASE ChangePassword
    <2>1. /\ runner.state \in RestartStates => runner'.task = NoTask
          /\ runner.state \notin RestartStates => runner' = runner
      BY <1>3 DEF ChangePassword, StopRunner, Stopped, IdleRunner
    <2> QED BY <2>1 DEF RestartInv
  <1>4. CASE FinishSetup
    <2> DEFINE n == [token |-> drawn.token + 1, id |-> None, password |-> drawn.password + 1]
    <2>1. /\ sent' = sent \cup {Message(n, "setup")} /\ UNCHANGED <<runner, rv>>
      BY <1>4 DEF FinishSetup
    <2>2. Message(n, "setup").config = n /\ n.token = drawn.token + 1
      BY DEF Message
    <2>3. n.token # c.token
      <3>1. /\ drawn.token \in Nat /\ c.token \in Nat /\ c.token <= drawn.token
        BY <1>1, <2>1, DeskAssumption DEF TypeOK, DrawnInv, Config
      <3> QED BY <2>2, <3>1
    <2> HIDE DEF n
    <2> QED BY <2>1, <2>2, <2>3 DEF ServerInv
  <1>5. CASE TaskRegisters
    <2>1. /\ Register(c) /\ c \in Configs /\ runner.task # NoTask
          /\ runner'.task.config = [c EXCEPT !.id = Answer(c)] /\ sent' = sent
      BY <1>5, TaskRegistersMove DEF Registers
    <2> DEFINE n == [c EXCEPT !.id = Answer(c)]
    <2>2. n.id = Answer(c) /\ n.token = c.token /\ n.password = c.password
      BY <1>1, <2>1 DEF Config
    <2>3. /\ Answer(c) \in 1..MaxId
          /\ rv' = [rv EXCEPT ![Answer(c)] = [token |-> c.token, password |-> c.password]]
      BY <2>1, RegisterEffect
    <2>4. rv'[n.id] = [token |-> n.token, password |-> n.password] /\ n.id # None
      BY <2>2, <2>3, DeskAssumption DEF TypeOK
    <2> HIDE DEF n
    <2>5. runner'.task.config = n
      BY <2>1 DEF n
    <2> QED BY <2>1, <2>2, <2>4, <2>5 DEF ServerInv
  <1>6. ASSUME NEW p \in Process, HeadlessRegisters(p) PROVE ServerInv'
    <2>1. p \in Holders /\ runner' = runner
      BY <1>6, HeadlessRegistersMove
    <2> QED BY <1>1, <2>1
  <1>7. ASSUME NEW m \in sent, Arrives(m) PROVE ServerInv'
    <2> DEFINE d == m.config
    <2>1. Register(d) /\ d \in Configs /\ sent' \subseteq sent /\ runner' = runner
      BY <1>7, ArrivesMove DEF Registers
    <2>2. /\ Answer(d) \in 1..MaxId
          /\ rv' = [rv EXCEPT ![Answer(d)] = [token |-> d.token, password |-> d.password]]
          /\ \/ d.id # None /\ Answer(d) = d.id
             \/ Answer(d) = drawn.id + 1
      BY <2>1, RegisterEffect
    <2>3. CASE runner.task.phase = "online"
      <3>1. /\ c \in Configs /\ c.id # None /\ c.id \in 1..MaxId
            /\ rv[c.id] = [token |-> c.token, password |-> c.password]
        BY <1>1, <2>1, <2>3 DEF ServerInv, Config
      <3>2. c.id # drawn.id + 1
        BY <3>1, DeskAssumption DEF DrawnInv, TypeOK
      <3>3. CASE Answer(d) # c.id
        <4>1. rv'[c.id] = rv[c.id]
          BY <2>2, <3>1, <3>3 DEF TypeOK
        <4> QED BY <2>1, <3>1, <4>1 DEF ServerInv
      <3>4. CASE Answer(d) = c.id
        <4>1. d.id = c.id /\ d.token = c.token
          BY <2>1, <2>2, <3>1, <3>2, <3>4 DEF DrawnInv
        <4>2. d.password = c.password
          BY <2>1, <4>1 DEF ServerInv
        <4>3. rv'[c.id] = [token |-> c.token, password |-> c.password]
          BY <2>2, <3>1, <3>4, <4>1, <4>2 DEF TypeOK
        <4> QED BY <2>1, <3>1, <4>3 DEF ServerInv
      <3> QED BY <3>3, <3>4
    <2>4. CASE runner.task.phase # "online"
      BY <2>1, <2>4 DEF ServerInv
    <2> QED BY <2>3, <2>4
  <1>8. CASE ChangeFails
    BY <1>8 DEF ChangeFails, ServerInv
  <1> QED BY <1>2, <1>3, <1>4, <1>5, <1>6, <1>7, <1>8 DEF StepKind

-----------------------------------------------------------------------------
(* The theorems.                                                           *)

SavedInv ==
    RestartInv /\ DrawnInv /\ NotedInv /\ SetupInv /\ WindowAgentIsCurrent /\ ServerInv

LEMMA InitSaved == Init => SavedInv
  <1> SUFFICES ASSUME Init PROVE SavedInv
    OBVIOUS
  <1>1. Configs = {} /\ sent = {} /\ runner.task = NoTask
    BY DEF Init, Configs, IdleRunner, NoTask, NoProcess
  <1>2. Loaded \ {None} = {} /\ InFlight = {}
    BY DEF Init, Loaded, Running, InFlight, Agents, Holders, Bound, IdleRunner, NoProcess
  <1> QED BY <1>1, <1>2
          DEF SavedInv, RestartInv, DrawnInv, NotedInv, SetupInv, WindowAgentIsCurrent,
              ServerInv

LEMMA NextSaved ==
    ASSUME TypeOK, TypeOK', OneAgent, SavedInv, LoadedIsCopies', [Next]_vars
    PROVE  /\ SavedInv'
           /\ None \notin {file, file'} /\ file'.token = file.token /\ ~history.halfSetUp
              => file'.password >= file.password
  <1>1. StepKind /\ RestartInv'
    BY StepHasKind DEF SavedInv
  <1>2. /\ NotedInv' /\ (history.halfSetUp => history'.halfSetUp)
        /\ history.crossed => history'.crossed
    BY NextNoted DEF SavedInv
  <1>3. DrawnInv'
    BY <1>1, NextDrawn DEF SavedInv
  <1>4. ~history.halfSetUp => FileKind
    BY <1>1, StepHasFileKind DEF SavedInv
  <1>5. SetupInv' /\ WindowAgentIsCurrent'
    <2>1. CASE history'.halfSetUp
      BY <2>1 DEF SetupInv, WindowAgentIsCurrent
    <2>2. CASE ~history'.halfSetUp
      BY <1>2, <1>4, <2>2, NextSetup, NextCurrent DEF SavedInv
    <2> QED BY <2>1, <2>2
  <1>6. ServerInv'
    <2>1. CASE ~history'.crossed /\ runner'.task # NoTask
      BY <1>1, <1>2, <2>1, NextServer DEF SavedInv
    <2> QED BY <2>1 DEF ServerInv
  <1>7. None \notin {file, file'} /\ file'.token = file.token /\ ~history.halfSetUp
        => file'.password >= file.password
    BY <1>4, StepUndoesNothing DEF SavedInv
  <1> QED BY <1>1, <1>2, <1>3, <1>5, <1>6, <1>7 DEF SavedInv

LEMMA SavedStep ==
    TypeOK /\ TypeOK' /\ OneAgent /\ SavedInv /\ [Next]_vars =>
        /\ SavedInv'
        /\ None \notin {file, file'} /\ file'.token = file.token /\ ~history.halfSetUp
           => file'.password >= file.password
  <1>1. TypeOK' => LoadedIsCopies'
    BY LoadedCopies, PTL
  <1> QED BY <1>1, NextSaved

LEMMA SavedInvariant == Spec => [](TypeOK /\ OneAgent /\ SavedInv)
  <1>1. TypeOK /\ OneAgent /\ SavedInv /\ [Next]_vars => (TypeOK /\ OneAgent /\ SavedInv)'
    BY NextType, NextOne, SavedStep
  <1> QED BY <1>1, InitType, InitSaved, PTL DEF Spec

\* The agent in the window has the password in the file, through every restart,
\* retry and late write, unless a setup that was never registered was loaded.
THEOREM WindowCurrent == Spec => []WindowAgentIsCurrent
  <1>1. SavedInv => WindowAgentIsCurrent
    BY DEF SavedInv
  <1> QED BY <1>1, SavedInvariant, PTL

\* While no two passwords of one token are in flight, the server has the salt of
\* the agent in the window from its registration on.
THEOREM SaltKept == Spec => []SaltIsTheAgents
  <1>1. SavedInv => SaltIsTheAgents
    BY DEF SavedInv, ServerInv, SaltIsTheAgents, NoTask
  <1> QED BY <1>1, SavedInvariant, PTL

\* No process saves an older password over a newer one of the same setup.
THEOREM PasswordKept == Spec => PasswordNotUndone
  <1>1. TypeOK /\ OneAgent /\ SavedInv /\ [Next]_vars =>
          [None \notin {file, file'} /\ file'.token = file.token /\ ~history.halfSetUp
             => file'.password >= file.password]_vars
    BY NextType, SavedStep
  <1> QED BY <1>1, SavedInvariant, PTL DEF Spec, PasswordNotUndone
=============================================================================
