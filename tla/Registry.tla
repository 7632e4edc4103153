------------------------------ MODULE Registry ------------------------------
(***************************************************************************)
(* Who owns which id, and what a restart of the rendezvous server leaves of*)
(* it: register, heartbeat and persist of crates/ra-rendezvous, the state  *)
(* file, and the id each agent has saved.                                  *)
(*                                                                         *)
(* Both handlers change the table under the lock, drop the lock, and then  *)
(* call persist, which takes a snapshot of the whole table and has it      *)
(* written by tokio::fs::write: a thread of the blocking pool that opens   *)
(* the file, which truncates it, and then writes.  Nothing orders the      *)
(* writers of two handlers.  What a record holds besides its owner is its  *)
(* version here: how often the id was registered or given new endpoints.   *)
(***************************************************************************)
EXTENDS Naturals, FiniteSets

CONSTANTS
    Id, Token,
    Call,           \* concurrent register and heartbeat calls
    None,           \* Option::None
    Fault,          \* what may go wrong with a write: some of Faults
    MaxVersion      \* bound: how often one id is changed

Faults == {"write_error", "killed_mid_write", "lengths_differ"}

ASSUME FaultAssumption == Fault \subseteq Faults

Rec == [owner : Token, version : Nat]

ASSUME NoRecAssumption == None \notin Rec \cup Id

VARIABLES
    hosts,          \* Store.hosts
    file,           \* the state file: how it parses, and the hosts it holds
    calls,          \* the handlers in flight
    saved,          \* Config.id of each agent
    acked,          \* history: the newest version of an id its agent was told
                    \* of, while the server remembers the id
    trouble         \* history: a handler overlapped another one, or a write
                    \* failed, tore or was killed

vars == <<hosts, file, calls, saved, acked, trouble>>

-----------------------------------------------------------------------------
NoHosts == [i \in Id |-> None]

\* A handler: what it changed, the snapshot it is to write, and whether its
\* client has hung up.
IdleCall == [phase |-> "idle", token |-> None, id |-> None, version |-> 0,
             snap |-> NoHosts, client |-> "waits"]

\* A file that is missing, empty or not JSON is taken for an empty one.
Unreadable(how) == [text |-> how, hosts |-> NoHosts]
Listing(table) == [text |-> "list", hosts |-> table]

Init ==
    /\ hosts = NoHosts
    /\ file = Unreadable("blank")
    /\ calls = [c \in Call |-> IdleCall]
    /\ saved = [t \in Token |-> None]
    /\ acked = [i \in Id |-> 0]
    /\ trouble = FALSE

-----------------------------------------------------------------------------
(* The handlers, up to the end of the critical section.                    *)

\* Mutated forms, here and below: slips the properties must notice.
BugAnyOwner(t, i) == TRUE
BugRepliesFirst == "reply"
BugUnparsed(f) == f

\* register answers 403 when the id is owned by a different token.
MayClaim(t, i) == hosts[i] # None => hosts[i].owner = t

\* Where a handler goes on once it has dropped the lock.
AfterLock == "persist"

Version(i) == IF hosts[i] = None THEN 0 ELSE hosts[i].version

Change(c, t, i) ==
    /\ calls[c].phase = "idle"
    /\ Version(i) < MaxVersion
    /\ LET version == Version(i) + 1 IN
       /\ hosts' = [hosts EXCEPT ![i] = [owner |-> t, version |-> version]]
       /\ calls' = [calls EXCEPT ![c] =
             [phase |-> AfterLock, token |-> t, id |-> i, version |-> version,
              snap |-> NoHosts, client |-> "waits"]]
    /\ trouble' = (trouble \/ \E d \in Call : calls[d].phase # "idle")
    /\ UNCHANGED <<file, saved, acked>>

\* register with an id of the caller's choice, or, when i is free, with none:
\* the server then draws it.
Register(c, t, i) == MayClaim(t, i) /\ Change(c, t, i)

\* heartbeat, for the id the agent has, with endpoints the server does not know
\* yet; any other heartbeat writes nothing.
Heartbeat(c, t, i) ==
    /\ saved[t] = i
    /\ hosts[i] # None
    /\ hosts[i].owner = t
    /\ Change(c, t, i)

-----------------------------------------------------------------------------
(* persist.                                                                *)

Snapshot(c) ==
    /\ calls[c].phase = "persist"
    /\ calls' = [calls EXCEPT ![c].phase = "snap", ![c].snap = hosts]
    /\ UNCHANGED <<hosts, file, saved, acked, trouble>>

\* The write is over; a handler whose client hung up ends with it.
Finish(c) ==
    calls' = [calls EXCEPT ![c] =
        IF calls[c].client = "gone" THEN IdleCall
        ELSE [calls[c] EXCEPT !.phase = "reply", !.snap = NoHosts]]

Truncate(c) ==
    /\ calls[c].phase = "snap"
    /\ file' = Unreadable("blank")
    /\ calls' = [calls EXCEPT ![c].phase = "writing"]
    /\ UNCHANGED <<hosts, saved, acked, trouble>>

\* Another writer may have put its text at offset 0 since the truncation; when
\* it is the longer one its tail stays, and the file is no JSON any more.
LeavesTail(table) ==
    /\ "lengths_differ" \in Fault
    /\ file \notin {Unreadable("blank"), Listing(table)}

Write(c) ==
    /\ calls[c].phase = "writing"
    /\ \/ file' = Listing(calls[c].snap)
       \/ LeavesTail(calls[c].snap) /\ file' = Unreadable("torn")
    /\ Finish(c)
    /\ UNCHANGED <<hosts, saved, acked, trouble>>

\* A failed open or write is logged, and the handler answers 200 all the same.
WriteError(c) ==
    /\ "write_error" \in Fault
    /\ \/ calls[c].phase = "snap" /\ UNCHANGED file
       \/ calls[c].phase = "writing" /\ file' \in {file, Unreadable("torn")}
    /\ Finish(c)
    /\ trouble' = TRUE
    /\ UNCHANGED <<hosts, saved, acked>>

\* The client's connection goes: before the snapshot, and once there is only
\* the reply to send, the handler is dropped; the write itself is a thread of
\* its own and goes on.
HangUp(c) ==
    /\ calls[c].phase # "idle" /\ calls[c].client = "waits"
    /\ calls' = [calls EXCEPT ![c] =
          IF calls[c].phase \in {"persist", "reply"} THEN IdleCall
          ELSE [calls[c] EXCEPT !.client = "gone"]]
    /\ UNCHANGED <<hosts, file, saved, acked, trouble>>

\* The reply arrives, and Agent::register saves the id.
Reply(c) ==
    /\ calls[c].phase = "reply"
    /\ LET i == calls[c].id IN
       /\ saved' = [saved EXCEPT ![calls[c].token] = i]
       /\ acked' = [acked EXCEPT ![i] = IF @ < calls[c].version
                                          THEN calls[c].version ELSE @]
    /\ calls' = [calls EXCEPT ![c] = IdleCall]
    /\ UNCHANGED <<hosts, file, trouble>>

-----------------------------------------------------------------------------
\* AppState::new: what the new process makes of the file.
Loaded(f) == f.hosts

\* The process ends, its threads with it, and is started again.
Restart ==
    /\ \/ "killed_mid_write" \in Fault
       \/ \A c \in Call : calls[c].phase # "writing"
    /\ hosts' = Loaded(file)
    /\ calls' = [c \in Call |-> IdleCall]
    /\ acked' = [i \in Id |-> IF file.hosts[i] = None THEN 0 ELSE acked[i]]
    /\ trouble' = (trouble \/ \E c \in Call : calls[c].phase = "writing")
    /\ UNCHANGED <<file, saved>>

Next ==
    \/ \E c \in Call, t \in Token, i \in Id : Register(c, t, i) \/ Heartbeat(c, t, i)
    \/ \E c \in Call :
          Snapshot(c) \/ Truncate(c) \/ Write(c) \/ WriteError(c) \/ HangUp(c) \/ Reply(c)
    \/ Restart

Spec == Init /\ [][Next]_vars

-----------------------------------------------------------------------------
(* Properties.                                                             *)

Table == [Id -> Rec \cup {None}]
StateFile == [text : {"blank", "torn", "list"}, hosts : Table]
Handler == [phase : {"idle", "persist", "snap", "writing", "reply"},
            token : Token \cup {None}, id : Id \cup {None}, version : Nat,
            snap : Table, client : {"waits", "gone"}]

\* Every variable keeps its type.
TypeOK ==
    /\ hosts \in Table
    /\ file \in StateFile
    /\ calls \in [Call -> Handler]
    /\ saved \in [Token -> Id \cup {None}]
    /\ acked \in [Id -> Nat]
    /\ trouble \in BOOLEAN

\* A table of the past: every id it knows is still known, to the same owner,
\* and at no older a version.
Past(table) ==
    \A i \in Id : table[i] # None =>
        /\ hosts[i] # None
        /\ hosts[i].owner = table[i].owner
        /\ table[i].version <= hosts[i].version

\* However writes overlap, fail, tear or are overtaken, the file and the
\* snapshots still to be written only ever lag behind memory: a restart can
\* forget ids but brings back no other owner.  Rendezvous!Restart rests on it.
FileLagsBehind ==
    /\ Past(file.hosts)
    /\ \A c \in Call : Past(calls[c].snap)

\* No step, a restart included, hands a known id from one owner to another.
OwnerNeverReplaced ==
    [][\A i \in Id : hosts[i] # None /\ hosts'[i] # None
                     => hosts'[i].owner = hosts[i].owner]_vars

\* Until a handler overlaps another one or a write goes wrong, what an agent
\* has been told is registered is in the file, unless a write is under way.
AckedIsOnDisk ==
    ~trouble /\ (\A c \in Call : calls[c].phase # "writing") =>
        \A i \in Id : acked[i] > 0 =>
            file.hosts[i] # None /\ acked[i] <= file.hosts[i].version

\* A restart of the server keeps every registration that was acknowledged.
RegistrationsSurvive ==
    [][Restart => \A i \in Id : acked[i] > 0 => hosts'[i] # None]_vars

\* And until then the id an agent has saved is, at the server, the agent's own,
\* over any number of restarts: it is never answered 403 for its own id.
SavedIdIsMine ==
    ~trouble => \A t \in Token : saved[t] # None =>
        hosts[saved[t]] # None /\ hosts[saved[t]].owner = t
=============================================================================
