----------------------------- MODULE DeskAgent -----------------------------
(***************************************************************************)
(* Who runs the host agent on one machine, and with which configuration:   *)
(* the window of ra-desk with its AgentRunner, the headless copies that a  *)
(* closing window or the system service starts, the configuration file they*)
(* share, and what the rendezvous server holds of it.                      *)
(*                                                                         *)
(* A configuration is a token, which setup draws; the id, which the server *)
(* draws for a registration that has none; and a password with its salt,   *)
(* numbered in the order they are chosen.  The server knows the salt by    *)
(* which clients derive h1: with another one than the agent's, every       *)
(* password is wrong.  The text of the file, its permissions and names,    *)
(* Apollo and the requests the agent handles are left out.                 *)
(***************************************************************************)
EXTENDS Naturals, FiniteSets

CONSTANTS
    Process,        \* headless copies that may exist at once
    None,           \* Option::None
    MaxToken, MaxPassword, MaxId,   \* bounds: how many are ever drawn
    MaxStray        \* bound: registrations under way that nobody waits for

Config == [token : 1..MaxToken, id : 1..MaxId \cup {None}, password : 1..MaxPassword]

ASSUME DeskAssumption ==
    /\ MaxToken \in Nat /\ MaxPassword \in Nat /\ MaxId \in Nat /\ MaxStray \in Nat
    /\ None \notin Process \cup Nat \cup Config

VARIABLES
    file,           \* host.toml, None when there is none that can be read
    rv,             \* the server's record of each id: token and salt
    window,         \* the ra-desk process with the window
    shown,          \* Desk.host_cfg
    runner,         \* Desk.agent: AgentRunner.state, lock and task
    late,           \* what an aborted task may still write into the state
    done,           \* Msg::SetupDone is on its way to the window
    installed,      \* the system service is installed (Desk.autostart)
    headless,       \* the headless processes
    pid,            \* whom agent.pid names, None when that process is gone
    sent,           \* registrations in flight, other than a running agent's
    drawn,          \* the numbers drawn so far
    history         \* see Note

vars == <<file, rv, window, shown, runner, late, done, installed, headless, pid,
          sent, drawn, history>>

disk == <<file, drawn>>
desk == <<shown, done>>
background == <<headless, pid, installed>>

NoTask == [phase |-> "none", config |-> None]
IdleRunner == [state |-> "Stopped", lock |-> FALSE, task |-> NoTask]
NoProcess == [phase |-> "none", config |-> None, by |-> "window"]

Init ==
    /\ file = None
    /\ rv = [i \in 1..MaxId |-> None]
    /\ window = "closed" /\ shown = None /\ done = FALSE
    /\ runner = IdleRunner /\ late = None
    /\ installed = FALSE
    /\ headless = [p \in Process |-> NoProcess] /\ pid = None
    /\ sent = {}
    /\ drawn = [token |-> 0, id |-> 0, password |-> 0]
    /\ history = [crossed |-> FALSE, halfSetUp |-> FALSE, handed |-> FALSE]

-----------------------------------------------------------------------------
(* The lock, and the runner's start and stop.                              *)

Bound == {"register", "online", "backoff"}
Holders == {p \in Process : headless[p].phase \in Bound}

\* Mutated forms, here and below: slips the properties must notice.
BugSharedPort == TRUE
BugKeepsLock(r) == [r EXCEPT !.state = "Stopped", !.task = NoTask]
BugRestartStates == {"Running"}
BugNoRestart == {}
BugAlwaysSaves(c, i) == TRUE
BugLeavesRunning(r) == r

\* Whether the lock's port can be bound.
PortFree == ~runner.lock /\ Holders = {}

\* AgentRunner::start, for a runner with no lock of its own when it binds.
Started(r, free) ==
    IF r.task # NoTask THEN r
    ELSE IF file = None THEN [r EXCEPT !.state = "NotConfigured"]
    ELSE IF ~free THEN [r EXCEPT !.state = "RunningElsewhere"]
    ELSE [state |-> "Running", lock |-> TRUE,
          task |-> [phase |-> "register", config |-> file]]

\* AgentRunner::stop.
Stopped(r) == IdleRunner

\* An abort takes effect at the task's next await: a state the task is about to
\* write is written all the same.
LateWrite ==
    CASE runner.task.phase = "failing" -> "Failed"
      [] runner.task.phase = "waking" -> "Running"
      [] OTHER -> late

Message(c, by) == [config |-> c, by |-> by]

Strays == {m \in sent : m.by = "nobody"}

\* What a registration leaves behind when its sender gives it up: nothing, or a
\* request that may still arrive.
Left(c) ==
    {left \in {{}, {Message(c, "nobody")}} : Cardinality(Strays \cup left) <= MaxStray}

\* What an agent leaves behind when it is cut off.
CutOff(agent) == IF agent.phase = "register" THEN Left(agent.config) ELSE {{}}

StopRunner(more) ==
    /\ runner' = Stopped(runner)
    /\ late' = LateWrite
    /\ \E left \in CutOff(runner.task) : sent' = sent \cup left \cup more

StartRunner ==
    /\ runner' = Started(runner, PortFree)
    /\ UNCHANGED <<late, sent>>

-----------------------------------------------------------------------------
(* Agent::register.                                                        *)

\* The id the server answers with.
Answer(c) == IF c.id = None THEN drawn.id + 1 ELSE c.id

\* The agent saves all it holds when the id is new to it.
Saves(c, i) == c.id # i

Register(c) ==
    LET i == Answer(c) IN
    /\ i \in 1..MaxId
    /\ rv' = [rv EXCEPT ![i] = [token |-> c.token, password |-> c.password]]
    /\ drawn' = [drawn EXCEPT !.id = IF @ < i THEN i ELSE @]

RegisterAndSave(c) ==
    /\ Register(c)
    /\ file' = IF Saves(c, Answer(c)) THEN [c EXCEPT !.id = Answer(c)] ELSE file

-----------------------------------------------------------------------------
(* The runner's task: register, then poll for ever; after a failure wait   *)
(* and begin again, with the configuration of its start.                   *)

Goto(phase) == runner' = [runner EXCEPT !.task.phase = phase]

TaskRegisters ==
    /\ runner.task.phase = "register"
    /\ RegisterAndSave(runner.task.config)
    /\ runner' = [runner EXCEPT !.task.phase = "online",
                                !.task.config.id = Answer(runner.task.config)]
    /\ UNCHANGED <<window, desk, late, background, sent>>

TaskFails ==
    /\ runner.task.phase = "register"
    /\ Goto("failing")
    /\ \E left \in CutOff(runner.task) : sent' = sent \cup left
    /\ UNCHANGED <<disk, rv, window, desk, late, background>>

TaskReports ==
    /\ \/ /\ runner.task.phase = "failing"
          /\ runner' = [runner EXCEPT !.state = "Failed", !.task.phase = "backoff"]
       \/ /\ runner.task.phase = "waking"
          /\ runner' = [runner EXCEPT !.state = "Running", !.task.phase = "register"]
    /\ UNCHANGED <<disk, rv, window, desk, late, background, sent>>

TaskWakes ==
    /\ runner.task.phase = "backoff"
    /\ Goto("waking")
    /\ UNCHANGED <<disk, rv, window, desk, late, background, sent>>

AbortedTaskReports ==
    /\ late # None
    /\ runner' = [runner EXCEPT !.state = late]
    /\ late' = None
    /\ UNCHANGED <<disk, rv, window, desk, background, sent>>

-----------------------------------------------------------------------------
(* Registrations that the window sent, or that nobody waits for.           *)

Arrives(m) ==
    /\ m \in sent
    /\ sent' = sent \ {m}
    /\ IF m.by = "nobody" THEN Register(m.config) /\ UNCHANGED file
       ELSE RegisterAndSave(m.config)
    /\ done' = (done \/ m.by = "setup")
    /\ UNCHANGED <<window, shown, runner, late, background>>

\* The sender gives up; the request may still arrive.
GivenUp(m) ==
    /\ m \in sent
    /\ \E left \in Left(m.config) : sent' = (sent \ {m}) \cup (left \ {m})
    /\ UNCHANGED <<disk, rv, window, desk, runner, late, background>>

-----------------------------------------------------------------------------
(* The window.                                                             *)

\* Desk::new.  A file can say autostart_agent = false: the runner stays stopped.
OpenWindow ==
    /\ window = "closed"
    /\ window' = "open"
    /\ shown' = file
    /\ StartRunner \/ (file # None /\ UNCHANGED <<runner, late, sent>>)
    /\ UNCHANGED <<disk, rv, done, background>>

\* States in which a changed configuration needs the agent restarted.
RestartStates == {"Running", "Failed"}

\* regenerate_password and set_custom_password, with apply_host_cfg up to the
\* stop of its restart; what it saves is made from the window's own copy.
ChangePassword ==
    /\ window = "open" /\ shown # None
    /\ drawn.password < MaxPassword
    /\ LET c == [shown EXCEPT !.password = drawn.password + 1] IN
       /\ drawn' = [drawn EXCEPT !.password = @ + 1]
       /\ file' = c
       /\ shown' = c
       /\ IF runner.state \in RestartStates
          THEN window' = "restarting" /\ StopRunner({Message(c, "change")})
          ELSE /\ sent' = sent \cup {Message(c, "change")}
               /\ UNCHANGED <<window, runner, late>>
    /\ UNCHANGED <<rv, done, background>>

\* The save of apply_host_cfg fails with the file truncated, and the window goes on
\* as before.  One that fails before that changes nothing.
ChangeFails ==
    /\ window = "open" /\ shown # None
    /\ file' = None
    /\ UNCHANGED <<drawn, rv, window, desk, runner, late, background, sent>>

\* The start of the restart.  A headless process may have bound the port since.
Restarted ==
    /\ window = "restarting"
    /\ window' = "open"
    /\ StartRunner
    /\ UNCHANGED <<disk, rv, desk, background>>

\* setup::finish, up to its registration.  Cancelling the wizard does not stop it.
FinishSetup ==
    /\ window = "open"
    /\ drawn.token < MaxToken /\ drawn.password < MaxPassword
    /\ LET c == [token |-> drawn.token + 1, id |-> None, password |-> drawn.password + 1] IN
       /\ drawn' = [drawn EXCEPT !.token = @ + 1, !.password = @ + 1]
       /\ file' = c
       /\ sent' = sent \cup {Message(c, "setup")}
    /\ UNCHANGED <<rv, window, desk, runner, late, background>>

SetupDone ==
    /\ window = "open" /\ done
    /\ done' = FALSE
    /\ shown' = file
    /\ StartRunner
    /\ UNCHANGED <<disk, rv, window, background>>

StopSharing ==
    /\ window = "open" /\ shown # None /\ runner.state = "Running"
    /\ StopRunner({})
    /\ UNCHANGED <<disk, rv, window, desk, background>>

StartSharing ==
    /\ window = "open" /\ shown # None /\ runner.state \in {"Stopped", "Failed"}
    /\ StartRunner
    /\ UNCHANGED <<disk, rv, window, desk, background>>

-----------------------------------------------------------------------------
(* The headless copies and the system service.                             *)

Spawned(p, by) ==
    /\ headless[p] = NoProcess
    /\ headless' = [headless EXCEPT ![p] = [phase |-> "spawned", config |-> None, by |-> by]]

\* The processes of a set are gone; what the pid file says of them is stale.
Ended(gone) ==
    /\ headless' = [p \in Process |-> IF p \in gone THEN NoProcess ELSE headless[p]]
    /\ pid' = IF pid \in gone THEN None ELSE pid

\* run_headless, which reads the file before it binds the port.
HeadlessLoads(p) ==
    /\ headless[p].phase = "spawned"
    /\ IF file = None THEN Ended({p})
       ELSE /\ headless' = [headless EXCEPT ![p].phase = "loaded", ![p].config = file]
            /\ UNCHANGED pid
    /\ UNCHANGED <<disk, rv, window, desk, runner, late, installed, sent>>

HeadlessBinds(p) ==
    /\ headless[p].phase = "loaded"
    /\ IF PortFree
       THEN headless' = [headless EXCEPT ![p].phase = "register"] /\ pid' = p
       ELSE Ended({p})
    /\ UNCHANGED <<disk, rv, window, desk, runner, late, installed, sent>>

HeadlessRegisters(p) ==
    /\ headless[p].phase = "register"
    /\ RegisterAndSave(headless[p].config)
    /\ headless' = [headless EXCEPT ![p].phase = "online",
                                    ![p].config.id = Answer(headless[p].config)]
    /\ UNCHANGED <<window, desk, runner, late, pid, installed, sent>>

HeadlessFails(p) ==
    /\ headless[p].phase = "register"
    /\ headless' = [headless EXCEPT ![p].phase = "backoff"]
    /\ \E left \in CutOff(headless[p]) : sent' = sent \cup left
    /\ UNCHANGED <<disk, rv, window, desk, runner, late, pid, installed>>

HeadlessRetries(p) ==
    /\ headless[p].phase = "backoff"
    /\ headless' = [headless EXCEPT ![p].phase = "register"]
    /\ UNCHANGED <<disk, rv, window, desk, runner, late, pid, installed, sent>>

\* launchd and systemd start it again whenever it has ended, Windows at a login.
ServiceStarts(p) ==
    /\ installed
    /\ \A q \in Process : headless[q].by = "window"
    /\ Spawned(p, "service")
    /\ UNCHANGED <<disk, rv, window, desk, runner, late, pid, installed, sent>>

\* toggle_autostart.  The service manager ends its process; Windows does not.
InstallService ==
    /\ window = "open" /\ shown # None /\ ~installed
    /\ installed' = TRUE
    /\ StopRunner({})
    /\ UNCHANGED <<disk, rv, window, desk, headless, pid>>

UninstallService ==
    /\ window = "open" /\ shown # None /\ installed
    /\ installed' = FALSE
    /\ \E gone \in {{}, {p \in Process : headless[p].by = "service"}} :
          /\ Ended(gone)
          /\ runner' = Started(runner, ~runner.lock /\ Holders \subseteq gone)
          /\ \E left \in UNION {CutOff(headless[p]) : p \in gone} \cup {{}} :
                sent' = sent \cup left
    /\ UNCHANGED <<disk, rv, window, desk, late>>

\* stop_background, when the pid file names a process that is there to be killed.
StopBackground ==
    /\ window = "open" /\ shown # None /\ runner.state = "RunningElsewhere" /\ pid # None
    /\ Ended({pid})
    /\ runner' = Stopped(runner)
    /\ late' = LateWrite
    /\ \E left \in CutOff(headless[pid]) : sent' = sent \cup left
    /\ UNCHANGED <<disk, rv, window, desk, installed>>

-----------------------------------------------------------------------------
(* The end of the window's process.                                        *)

HandsOver == runner.state = "Running" /\ ~installed

\* What on_exit does with the runner before it spawns.
LetGo(r) == Stopped(r)

\* on_exit, which hands the agent to a headless copy.
HandOver ==
    /\ window = "open" /\ HandsOver
    /\ \E p \in Process : Spawned(p, "window")
    /\ window' = "exiting"
    /\ runner' = LetGo(runner)
    /\ late' = LateWrite
    /\ \E left \in CutOff(runner.task) : sent' = sent \cup left
    /\ UNCHANGED <<disk, rv, desk, installed, pid>>

\* The process is over, and its tasks with it: after on_exit, which may have had
\* nothing to hand over, or killed.
WindowEnds ==
    /\ window # "closed"
    /\ window' = "closed"
    /\ shown' = None /\ done' = FALSE
    /\ runner' = IdleRunner /\ late' = None
    /\ \E left \in CutOff(runner.task) \cup UNION {Left(m.config) : m \in sent} :
          sent' = Strays \cup left
    /\ UNCHANGED <<disk, rv, background>>

-----------------------------------------------------------------------------
Step ==
    \/ TaskRegisters \/ TaskFails \/ TaskReports \/ TaskWakes \/ AbortedTaskReports
    \/ \E m \in sent : Arrives(m) \/ GivenUp(m)
    \/ OpenWindow \/ ChangePassword \/ ChangeFails \/ Restarted
    \/ FinishSetup \/ SetupDone
    \/ StopSharing \/ StartSharing \/ InstallService \/ UninstallService \/ StopBackground
    \/ HandOver \/ WindowEnds
    \/ \E p \in Process :
          \/ HeadlessLoads(p) \/ HeadlessBinds(p) \/ HeadlessRegisters(p)
          \/ HeadlessFails(p) \/ HeadlessRetries(p) \/ ServiceStarts(p)

-----------------------------------------------------------------------------
(* History: what the properties make an exception for.                     *)

Agents == (IF runner.task = NoTask THEN {} ELSE {runner.task})
          \cup {headless[p] : p \in Holders}

Running == {a.config : a \in Agents}
InFlight == {m.config : m \in sent} \cup {a.config : a \in {b \in Agents : b.phase = "register"}}

Loaded == Running \cup {shown} \cup {headless[p].config : p \in Process}

Note ==
    history' =
      [\* two registrations of one token, with different passwords, are in flight
       crossed |-> history.crossed \/ \E c, d \in InFlight' :
                      c.token = d.token /\ c.password # d.password,
       \* a configuration that setup saved but never registered was loaded
       halfSetUp |-> history.halfSetUp \/ \E c \in Loaded' \ {None} : c.id = None,
       \* a closing window has handed over, and no agent has taken over yet, nor
       \* lost its file
       handed |-> (history.handed \/ (window = "open" /\ window' = "exiting"))
                  /\ file' # None
                  /\ (IF window' = "exiting" THEN Holders' ELSE Agents') = {}]

Next == Step /\ Note

Spec == Init /\ [][Next]_vars

-----------------------------------------------------------------------------
(* Properties.                                                             *)

Task == [phase : {"register", "failing", "backoff", "waking", "online"}, config : Config]
        \cup {NoTask}
Runner == [state : {"NotConfigured", "Stopped", "Running", "RunningElsewhere", "Failed"},
           lock : BOOLEAN, task : Task]
Copy == [phase : {"none", "spawned", "loaded"} \cup Bound,
         config : Config \cup {None}, by : {"window", "service"}]

\* Every variable keeps its type; the runner has the lock as long as it has a
\* task, and a headless copy that has come so far has a configuration.
TypeOK ==
    /\ file \in Config \cup {None} /\ shown \in Config \cup {None}
    /\ rv \in [1..MaxId -> [token : 1..MaxToken, password : 1..MaxPassword] \cup {None}]
    /\ window \in {"closed", "open", "restarting", "exiting"}
    /\ runner \in Runner
    /\ runner.lock <=> runner.task # NoTask
    /\ late \in {None, "Running", "Failed"}
    /\ done \in BOOLEAN /\ installed \in BOOLEAN
    /\ headless \in [Process -> Copy]
    /\ \A p \in Process : headless[p].phase \in {"loaded"} \cup Bound => headless[p].config # None
    /\ pid \in Process \cup {None}
    /\ sent \subseteq [config : Config, by : {"change", "setup", "nobody"}]
    /\ drawn \in [token : 0..MaxToken, id : 0..MaxId, password : 0..MaxPassword]
    /\ history \in [crossed : BOOLEAN, halfSetUp : BOOLEAN, handed : BOOLEAN]

\* The window and the headless copies never run two agents at once, whoever
\* starts, stops, takes over or is killed in whatever order.
OneAgent ==
    /\ runner.task # NoTask => Holders = {}
    /\ \A p, q \in Holders : p = q

\* The agent in the window has the password in the file, through every restart,
\* retry and state written late.  Not so when setup was left half done: its
\* registration saves what it has.
WindowAgentIsCurrent ==
    ~history.halfSetUp /\ file # None /\ runner.task # NoTask =>
        (runner.task.config.token = file.token =>
            runner.task.config.password = file.password)

\* Once it is registered, the server gives clients the salt of the agent in the
\* window, unless two registrations were in flight at once: then the older one may
\* arrive last, and every password is wrong.
SaltIsTheAgents ==
    LET c == runner.task.config IN
    ~history.crossed /\ runner.task.phase = "online"
    => rv[c.id] = [token |-> c.token, password |-> c.password]

\* No save, of whichever process or task, brings back an older password, as long
\* as the file can be read.
PasswordNotUndone ==
    [][None \notin {file, file'} /\ file'.token = file.token /\ ~history.halfSetUp
       => file'.password >= file.password]_vars

\* The id that the window shows is the one its running agent serves.
ShownIsServed ==
    /\ window = "open" /\ ~done /\ ~history.halfSetUp
    /\ shown # None /\ runner.state = "Running" /\ runner.task.phase = "online"
    => runner.task.config.id = shown.id

-----------------------------------------------------------------------------
(* Processes run: some headless copy that has been started goes on until it *)
(* binds the port or ends, and a process that is exiting ends.             *)
processes == <<window, headless>>

Fairness ==
    /\ WF_processes(\E p \in Process : HeadlessLoads(p) \/ HeadlessBinds(p))
    /\ WF_processes(window = "exiting" /\ WindowEnds)

FairSpec == Spec /\ Fairness

\* After a handover an agent runs again, in the background or in a window that
\* was opened in the meantime, unless a failed save has cost it its file.
HandoverIsTaken == history.handed ~> ~history.handed
=============================================================================
