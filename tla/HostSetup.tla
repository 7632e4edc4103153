----------------------------- MODULE HostSetup -----------------------------
(***************************************************************************)
(* Who writes host.toml besides the window of DeskAgent: the commands of   *)
(* ra-host and the window's setup wizard.  They share the file without a   *)
(* lock, each loads and saves all of it, and each registers what it saved; *)
(* an agent that ra-host run has started goes on with what it loaded.      *)
(*                                                                         *)
(* Tokens, ids, passwords (each with its salt) and permission masks are    *)
(* numbered in the order they are drawn.  A request that its sender gives  *)
(* up does not arrive later: DeskAgent has that.  The wizard's fields and  *)
(* its probe of Apollo are display only and are left out.                  *)
(***************************************************************************)
EXTENDS Naturals

CONSTANTS
    Process,        \* commands and tasks of the window that may run at once
    None,           \* Option::None
    Torn,           \* what a kill or an error leaves of host.toml amid a save
    Mixes,          \* bound: the processes, commands and ids of one history
    MaxToken, MaxId, MaxPassword, MaxMask   \* bounds: how many are ever drawn

Config == [token : 1..MaxToken, id : 1..MaxId \cup {None},
           password : 1..MaxPassword, mask : 0..MaxMask]

ASSUME SetupAssumption ==
    /\ \A m \in Mixes : m.who \subseteq Process /\ m.ids \in 0..MaxId
    /\ MaxToken \in Nat /\ MaxId \in Nat /\ MaxPassword \in Nat /\ MaxMask \in Nat
    /\ None \notin Nat \cup Config /\ Torn \notin Config \cup {None}

VARIABLES
    file,       \* host.toml
    rv,         \* the server's record of each id: token and salt
    job,        \* what each process does
    wizard,     \* Desk.wizard: closed, or open and idle or busy
    drawn,      \* the numbers drawn so far
    mix,        \* what there is in this history: see Mixes
    history     \* see Note

vars == <<file, rv, job, wizard, drawn, mix, history>>

\* An agent is ra-host run when it has registered and polls.
Command == {"init", "set_password", "permissions", "run", "agent"}
OfWizard == {"creds", "finish"}

NoJob == [kind |-> "none", phase |-> "none", config |-> None, reply |-> None, stray |-> FALSE]

Init ==
    /\ file = None
    /\ rv = [i \in 1..MaxId |-> None]
    /\ job = [p \in Process |-> NoJob]
    /\ wizard = "closed"
    /\ drawn = [token |-> 0, id |-> 0, password |-> 0, mask |-> 0]
    /\ mix \in Mixes
    /\ history = [overlap |-> FALSE, two |-> FALSE, freed |-> FALSE]

-----------------------------------------------------------------------------
\* Mutated forms: slips the properties must notice.
BugSavesAgain(c, i) == TRUE
BugOnlyNew(c) == IF c.id = None THEN "register" ELSE "online"
BugNeverBusy == "idle"

Idle(p) == job[p] = NoJob
Begins(p, kind, phase, c) ==
    /\ Idle(p) /\ p \in mix.who /\ kind \in mix.kinds
    /\ job' = [job EXCEPT ![p] = [NoJob EXCEPT !.kind = kind, !.phase = phase, !.config = c]]
Goto(p, phase) == job' = [job EXCEPT ![p].phase = phase]
Ended(p) == job' = [job EXCEPT ![p] = NoJob]

-----------------------------------------------------------------------------
(* The commands up to their save.                                          *)

\* ra-host init bails out if there is a file; what follows it asks for first.
InitLooks(p) ==
    /\ file = None
    /\ Begins(p, "init", "asking", None)
    /\ UNCHANGED <<file, rv, wizard, drawn>>

\* Config::load.
Readable == file \notin {None, Torn}

\* set-password and permissions load the file before they ask or parse.
Loads(p, kind) ==
    /\ Readable /\ kind \in {"set_password", "permissions"}
    /\ Begins(p, kind, "asking", file)
    /\ UNCHANGED <<file, rv, wizard, drawn>>

\* Whatever its id, an agent registers before it polls.
FirstPhase(c) == "register"

RunLoads(p) ==
    /\ Readable
    /\ Begins(p, "run", FirstPhase(file), file)
    /\ UNCHANGED <<file, rv, wizard, drawn>>

\* Config::new_default with a password.
Fresh == [token |-> drawn.token + 1, id |-> None, password |-> drawn.password + 1, mask |-> 0]

SavesFresh(p) ==
    /\ job[p].phase = "asking" /\ job[p].kind \in {"init", "finish"}
    /\ drawn.token < MaxToken /\ drawn.password < MaxPassword
    /\ drawn' = [drawn EXCEPT !.token = @ + 1, !.password = @ + 1]
    /\ file' = Fresh
    /\ job' = [job EXCEPT ![p].config = Fresh, ![p].phase = "register"]
    /\ UNCHANGED <<rv, wizard>>

SavesPassword(p) ==
    /\ job[p].phase = "asking" /\ job[p].kind = "set_password"
    /\ drawn.password < MaxPassword
    /\ LET c == [job[p].config EXCEPT !.password = drawn.password + 1] IN
       /\ drawn' = [drawn EXCEPT !.password = @ + 1]
       /\ file' = c
       /\ job' = [job EXCEPT ![p].config = c, ![p].phase = "register"]
    /\ UNCHANGED <<rv, wizard>>

SavesMask(p) ==
    /\ job[p].phase = "asking" /\ job[p].kind = "permissions"
    /\ drawn.mask < MaxMask
    /\ drawn' = [drawn EXCEPT !.mask = @ + 1]
    /\ file' = [job[p].config EXCEPT !.mask = drawn.mask + 1]
    /\ Ended(p)
    /\ UNCHANGED <<rv, wizard>>

-----------------------------------------------------------------------------
(* Agent::register, and the agent's loop as far as it registers.           *)

\* What the server is told of a configuration.
Told(c) == [token |-> c.token, password |-> c.password]

\* The server takes the registration, and names the id of a new host.
Registers(p) ==
    LET c == job[p].config
        i == IF c.id = None THEN drawn.id + 1 ELSE c.id
    IN
    /\ job[p].phase = "register"
    /\ i \in 1..mix.ids
    /\ rv' = [rv EXCEPT ![i] = Told(c)]
    /\ drawn' = [drawn EXCEPT !.id = IF @ < i THEN i ELSE @]
    /\ job' = [job EXCEPT ![p].phase = "answered", ![p].reply = i]
    /\ UNCHANGED <<file, wizard>>

\* All of the configuration is saved when the id is new to its holder.
Saves(c, i) == c.id # i

\* Where a job goes when its registration is through.
After(kind) ==
    CASE kind \in {"run", "agent"} -> "online" [] kind = "finish" -> "done" [] OTHER -> "over"

Answered(p) ==
    LET c == [job[p].config EXCEPT !.id = job[p].reply] IN
    /\ job[p].phase = "answered"
    /\ file' = IF Saves(job[p].config, c.id) THEN c ELSE file
    /\ IF After(job[p].kind) = "over" THEN Ended(p)
       ELSE job' = [job EXCEPT ![p].kind = IF @ = "run" THEN "agent" ELSE @,
                               ![p].phase = After(job[p].kind),
                               ![p].config = c, ![p].reply = None]
    /\ UNCHANGED <<rv, wizard, drawn>>

\* Where an error takes a job.  A command ends with it, ra-host run, too, but an
\* agent that was online pauses and polls again.
Errs(p) ==
    CASE job[p].kind = "finish" -> Goto(p, "failed")
      [] job[p].kind = "agent" -> job' = [job EXCEPT ![p].phase = "online", ![p].reply = None]
      [] OTHER -> Ended(p)

\* Refused, unreachable, or the answer is lost.
RegisterFails(p) ==
    /\ job[p].phase \in {"register", "answered"}
    /\ Errs(p)
    /\ UNCHANGED <<file, rv, wizard, drawn>>

\* A job that saves next.
Saving(p) ==
    \/ job[p].phase = "asking"
    \/ job[p].phase = "answered" /\ Saves(job[p].config, job[p].reply)

\* The save fails, before or after the file is truncated, and its process goes on.
\* One that fails with the file written is a save and a failed registration.
SaveFails(p) ==
    /\ Saving(p)
    /\ file' \in {file, Torn}
    /\ Errs(p)
    /\ UNCHANGED <<rv, wizard, drawn>>

\* The agent's poll is answered 404: the server has no record.
LossNoticed(p) ==
    /\ job[p].phase = "online" /\ rv[job[p].config.id] = None
    /\ Goto(p, "register")
    /\ UNCHANGED <<file, rv, wizard, drawn>>

\* The server restarts without its file, or with one without this record.
ServerForgets(i) ==
    /\ rv[i] # None
    /\ rv' = [rv EXCEPT ![i] = None]
    /\ UNCHANGED <<file, job, wizard, drawn>>

\* A command's prompt is left, its input refused, its process killed.
CommandEnds(p) ==
    /\ job[p].kind \in Command
    /\ Ended(p)
    /\ UNCHANGED <<file, rv, wizard, drawn>>

-----------------------------------------------------------------------------
(* The wizard, and the tasks it starts.  A task is a stray when its wizard *)
(* is gone: Cancel stops nothing.                                          *)

Astray(jobs) ==
    [p \in Process |-> IF jobs[p].kind \in OfWizard THEN [jobs[p] EXCEPT !.stray = TRUE] ELSE jobs[p]]

\* The first setup, or "Re-run setup", also beneath an open wizard.
OpensWizard ==
    /\ "finish" \in mix.kinds
    /\ wizard' = "idle"
    /\ job' = Astray(job)
    /\ UNCHANGED <<file, rv, drawn>>

Cancels ==
    /\ wizard # "closed"
    /\ wizard' = "closed"
    /\ job' = Astray(job)
    /\ UNCHANGED <<file, rv, drawn>>

WhenStarted == "busy"

\* "Test login" and "Finish" are enabled while the wizard is not busy.
TestsLogin(p) ==
    /\ wizard = "idle" /\ wizard' = WhenStarted
    /\ Begins(p, "creds", "calling", None)
    /\ UNCHANGED <<file, rv, drawn>>

Finishes(p) ==
    /\ wizard = "idle" /\ wizard' = WhenStarted
    /\ Begins(p, "finish", "asking", None)
    /\ UNCHANGED <<file, rv, drawn>>

LoginTested(p) ==
    /\ job[p].kind = "creds" /\ job[p].phase = "calling"
    /\ Goto(p, "done")
    /\ UNCHANGED <<file, rv, wizard, drawn>>

\* The window takes a task's message: a finished setup closes the wizard,
\* everything else frees it, whichever wizard it is.
Drained(p) ==
    /\ job[p].phase \in {"done", "failed"}
    /\ IF job[p].kind = "finish" /\ job[p].phase = "done"
       THEN /\ wizard' = "closed"
            /\ job' = [Astray(job) EXCEPT ![p] = NoJob]
       ELSE /\ wizard' = IF wizard = "busy" THEN "idle" ELSE wizard
            /\ Ended(p)
    /\ UNCHANGED <<file, rv, drawn>>

\* The window's process ends, and its tasks with it.
WindowGone ==
    /\ wizard' = "closed"
    /\ job' = [p \in Process |-> IF job[p].kind \in OfWizard THEN NoJob ELSE job[p]]

WindowEnds == WindowGone /\ UNCHANGED <<file, rv, drawn>>

\* A process is killed when the file is truncated and not yet written.
SaveTorn(p) ==
    /\ Saving(p)
    /\ file' = Torn
    /\ IF job[p].kind = "finish" THEN WindowGone ELSE Ended(p) /\ UNCHANGED wizard
    /\ UNCHANGED <<rv, drawn>>

-----------------------------------------------------------------------------
TaskStep(p) ==
    \/ SavesFresh(p) \/ SaveFails(p) \/ Registers(p) \/ Answered(p) \/ RegisterFails(p)
    \/ LoginTested(p)

Step ==
    \/ \E p \in Process :
          \/ InitLooks(p) \/ RunLoads(p)
          \/ \E kind \in Command : Loads(p, kind)
          \/ SavesPassword(p) \/ SavesMask(p) \/ LossNoticed(p) \/ CommandEnds(p)
          \/ TestsLogin(p) \/ Finishes(p) \/ Drained(p) \/ SaveTorn(p)
          \/ TaskStep(p)
    \/ \E i \in 1..MaxId : ServerForgets(i)
    \/ OpensWizard \/ Cancels \/ WindowEnds

-----------------------------------------------------------------------------
(* History: what the properties make an exception for.                     *)

\* The jobs that are going to save, or may.
Writers(jobs) ==
    {p \in Process : \/ jobs[p].phase = "asking"
                     \/ jobs[p].phase \in {"register", "answered"} /\ jobs[p].config.id = None}

\* The jobs that hold a configuration which they register, now or after a loss.
Holders(jobs) == {p \in Process : jobs[p].phase \in {"register", "answered", "online"}}

Note ==
    history' =
      [\* some job that writes was joined by another
       overlap |-> /\ Writers(job') # {}
                   /\ history.overlap \/ \E p, q \in Writers(job') : p # q,
       \* some job that registers was joined by another, with another salt
       two |-> /\ Holders(job') # {}
               /\ history.two \/ \E p, q \in Holders(job') :
                     Told(job'[p].config) # Told(job'[q].config),
       \* the message of a stray has freed the wizard that is open
       freed |-> /\ wizard' # "closed"
                 /\ \/ history.freed
                    \/ /\ wizard = "busy" /\ wizard' = "idle"
                       /\ \E p \in Process : job[p].stray /\ job'[p] = NoJob]

Next == Step /\ Note /\ UNCHANGED mix

Spec == Init /\ [][Next]_vars

-----------------------------------------------------------------------------
(* Properties.                                                             *)

Job == [kind : {"none"} \cup Command \cup OfWizard,
        phase : {"none", "asking", "calling", "register", "answered", "online", "done", "failed"},
        config : Config \cup {None}, reply : 1..MaxId \cup {None}, stray : BOOLEAN]

\* Every variable keeps its type, and who registers has a configuration.
TypeOK ==
    /\ file \in Config \cup {None, Torn}
    /\ rv \in [1..MaxId -> [token : 1..MaxToken, password : 1..MaxPassword] \cup {None}]
    /\ job \in [Process -> Job]
    /\ \A p \in Process :
          /\ job[p].phase \in {"register", "answered", "online"} => job[p].config # None
          /\ job[p].phase = "asking" /\ job[p].kind \in {"set_password", "permissions"} =>
                job[p].config # None
          /\ job[p].phase = "answered" => job[p].reply # None
    /\ wizard \in {"closed", "idle", "busy"}
    /\ drawn \in [token : 0..MaxToken, id : 0..MaxId, password : 0..MaxPassword, mask : 0..MaxMask]
    /\ mix \in Mixes
    /\ history \in [overlap : BOOLEAN, two : BOOLEAN, freed : BOOLEAN]

\* Commands that do not overlap take nothing back: not the id the host was
\* given, no password, no mask; whatever fails or is killed half-way, however
\* often agents beside them register again what they loaded long ago.  A save
\* that is cut off or fails with the file truncated is excepted: it loses all.
NothingUndone ==
    [][/\ {file, file'} \subseteq Config /\ file'.token = file.token
       /\ ~history.overlap /\ ~history'.overlap
       => /\ file.id # None => file'.id = file.id
          /\ file'.password >= file.password /\ file'.mask >= file.mask]_vars

\* The server has the salt of an agent that is online, unless one with another
\* password registered beside it: two agents, or set-password, which an agent
\* does not notice.
SaltIsCurrent ==
    \A p \in Process :
        job[p].phase = "online" /\ ~history.two =>
            rv[job[p].config.id] \in {None, Told(job[p].config)}

\* The wizard is busy while a task of its own is under way, which is one at a
\* time, and no longer: it neither hangs nor sets up twice.  Unless a task of an
\* earlier wizard frees it.
BusyIsRight ==
    LET own == {p \in Process : job[p].kind \in OfWizard /\ ~job[p].stray} IN
    /\ wizard = "busy" => own # {}
    /\ ~history.freed => (own # {} => wizard = "busy") /\ \A p, q \in own : p = q
=============================================================================
