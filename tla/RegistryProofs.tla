--------------------------- MODULE RegistryProofs ---------------------------
(***************************************************************************)
(* The state file only lags behind memory, whatever the writers do to it,  *)
(* so an id never passes to another owner while the server knows it, over  *)
(* any number of restarts, ids, tokens and concurrent calls; and until two *)
(* handlers overlap or a write goes wrong it does not lag at all behind    *)
(* what was acknowledged.                                                  *)
(***************************************************************************)
EXTENDS Registry, TLAPS

LEMMA NoHostsType == NoHosts \in Table /\ Past(NoHosts)
  BY DEF NoHosts, Table, Past

LEMMA IdleType == IdleCall \in Handler /\ IdleCall.snap = NoHosts
  BY NoHostsType DEF IdleCall, Handler

LEMMA UnreadableType ==
    ASSUME NEW how \in {"blank", "torn"}
    PROVE  Unreadable(how) \in StateFile /\ Unreadable(how).hosts = NoHosts
  BY NoHostsType DEF Unreadable, StateFile

LEMMA InitLags == Init => TypeOK /\ FileLagsBehind
  <1> SUFFICES ASSUME Init PROVE TypeOK /\ FileLagsBehind
    OBVIOUS
  <1>1. trouble \in BOOLEAN
    BY DEF Init
  <1>2. TypeOK
    BY <1>1, NoHostsType, IdleType, UnreadableType DEF Init, TypeOK
  <1> QED BY <1>2, NoHostsType, IdleType, UnreadableType DEF Init, FileLagsBehind

\* The write is over: the handler is gone, or has only to reply.
LEMMA FinishType ==
    ASSUME TypeOK, NEW c \in Call, Finish(c)
    PROVE  /\ calls' \in [Call -> Handler]
           /\ \A b \in Call : calls'[b].snap \in {calls[b].snap, NoHosts}
  <1>1. calls[c] \in Handler
    BY DEF TypeOK
  <1>2. [calls[c] EXCEPT !.phase = "reply", !.snap = NoHosts] \in Handler
    BY <1>1, NoHostsType DEF Handler
  <1>3. [calls[c] EXCEPT !.phase = "reply", !.snap = NoHosts].snap = NoHosts
    BY <1>1 DEF Handler
  <1> QED BY <1>2, <1>3, IdleType DEF Finish, TypeOK

\* The effect of a handler's critical section.
LEMMA ChangeType ==
    ASSUME TypeOK, NEW c \in Call, NEW t \in Token, NEW i \in Id, Change(c, t, i)
    PROVE  /\ TypeOK'
           /\ hosts' = [hosts EXCEPT ![i] = [owner |-> t, version |-> Version(i) + 1]]
           /\ \A b \in Call : calls'[b].snap \in {calls[b].snap, NoHosts}
           /\ UNCHANGED file
  <1>1. Version(i) \in Nat
    BY DEF TypeOK, Table, Rec, Version
  <1> DEFINE rec == [owner |-> t, version |-> Version(i) + 1]
             call == [phase |-> "persist", token |-> t, id |-> i,
                      version |-> Version(i) + 1, snap |-> NoHosts, client |-> "waits"]
  <1>2. rec \in Rec
    BY <1>1 DEF Rec
  <1>3. call \in Handler /\ call.snap = NoHosts
    BY <1>1, NoHostsType DEF Handler
  <1>4. /\ hosts' = [hosts EXCEPT ![i] = rec]
        /\ calls' = [calls EXCEPT ![c] = call]
        /\ UNCHANGED <<file, saved, acked>>
    BY DEF Change, AfterLock
  <1>5. trouble' \in BOOLEAN
    BY DEF Change
  <1> HIDE DEF call
  <1> QED BY <1>2, <1>3, <1>4, <1>5 DEF TypeOK, Table

LEMMA NextType == TypeOK /\ [Next]_vars => TypeOK'
  <1> SUFFICES ASSUME TypeOK, [Next]_vars PROVE TypeOK'
    OBVIOUS
  <1>1. ASSUME NEW c \in Call, NEW t \in Token, NEW i \in Id,
               Register(c, t, i) \/ Heartbeat(c, t, i)
        PROVE  TypeOK'
    BY <1>1, ChangeType DEF Register, Heartbeat
  <1>2. ASSUME NEW c \in Call, Snapshot(c) PROVE TypeOK'
    <2>1. [calls[c] EXCEPT !.phase = "snap", !.snap = hosts] \in Handler
      BY DEF TypeOK, Handler
    <2> QED BY <1>2, <2>1 DEF Snapshot, TypeOK
  <1>3. ASSUME NEW c \in Call, Truncate(c) PROVE TypeOK'
    <2>1. [calls[c] EXCEPT !.phase = "writing"] \in Handler
      BY DEF TypeOK, Handler
    <2> QED BY <1>3, <2>1, UnreadableType DEF Truncate, TypeOK
  <1>4. ASSUME NEW c \in Call, Write(c) PROVE TypeOK'
    <2>1. Listing(calls[c].snap) \in StateFile
      BY DEF TypeOK, Handler, StateFile, Listing
    <2> QED BY <1>4, <2>1, UnreadableType, FinishType DEF Write, TypeOK
  <1>5. ASSUME NEW c \in Call, WriteError(c) PROVE TypeOK'
    BY <1>5, UnreadableType, FinishType DEF WriteError, TypeOK
  <1>6. ASSUME NEW c \in Call, HangUp(c) PROVE TypeOK'
    <2>1. [calls[c] EXCEPT !.client = "gone"] \in Handler
      BY DEF TypeOK, Handler
    <2> QED BY <1>6, <2>1, IdleType DEF HangUp, TypeOK
  <1>7. ASSUME NEW c \in Call, Reply(c) PROVE TypeOK'
    <2>1. /\ calls[c].version \in Nat /\ calls[c].id \in Id \cup {None}
          /\ acked' = [acked EXCEPT ![calls[c].id] =
                IF @ < calls[c].version THEN calls[c].version ELSE @]
          /\ saved' = [saved EXCEPT ![calls[c].token] = calls[c].id]
          /\ calls' = [calls EXCEPT ![c] = IdleCall]
          /\ UNCHANGED <<hosts, file, trouble>>
      BY <1>7 DEF Reply, TypeOK, Handler
    <2> QED BY <2>1, IdleType DEF TypeOK
  <1>8. CASE Restart
    BY <1>8, IdleType DEF Restart, Loaded, TypeOK, StateFile
  <1>9. CASE UNCHANGED vars
    BY <1>9 DEF vars, TypeOK
  <1> QED
    BY <1>1, <1>2, <1>3, <1>4, <1>5, <1>6, <1>7, <1>8, <1>9 DEF Next

\* A critical section makes hosts newer, never different in its owners.
LEMMA ChangePast ==
    ASSUME TypeOK, NEW c \in Call, NEW t \in Token, NEW i \in Id,
           MayClaim(t, i), Change(c, t, i), NEW table \in Table, Past(table)
    PROVE  Past(table)'
  <1>1. Version(i) \in Nat /\ hosts' = [hosts EXCEPT ![i] =
           [owner |-> t, version |-> Version(i) + 1]]
    BY DEF Change, TypeOK, Table, Rec, Version
  <1>2. ASSUME NEW j \in Id, table[j] # None
        PROVE  /\ hosts'[j] # None /\ hosts'[j].owner = table[j].owner
               /\ table[j].version <= hosts'[j].version
    <2>1. /\ hosts[j] # None /\ hosts[j].owner = table[j].owner
          /\ table[j].version <= hosts[j].version
          /\ table[j] \in Rec /\ hosts[j] \in Rec
      BY <1>2 DEF Past, TypeOK, Table
    <2>2. CASE j # i
      BY <1>1, <2>1, <2>2 DEF TypeOK, Table
    <2>3. CASE j = i
      <3>1. hosts'[j] = [owner |-> t, version |-> hosts[j].version + 1]
        BY <1>1, <2>1, <2>3 DEF TypeOK, Table, Version
      <3>2. hosts[j].owner = t
        BY <2>1, <2>3 DEF MayClaim
      <3>3. hosts'[j] \in Rec /\ hosts[j].version \in Nat /\ table[j].version \in Nat
        BY <2>1, <3>1 DEF Rec
      <3> QED BY <2>1, <3>1, <3>2, <3>3, NoRecAssumption
    <2> QED BY <2>2, <2>3
  <1> QED BY <1>2 DEF Past

LEMMA NextLags == TypeOK /\ FileLagsBehind /\ [Next]_vars => FileLagsBehind'
  <1> SUFFICES ASSUME TypeOK, FileLagsBehind, [Next]_vars PROVE FileLagsBehind'
    OBVIOUS
  <1>0. /\ file.hosts \in Table /\ Past(file.hosts)
        /\ \A c \in Call : calls[c].snap \in Table /\ Past(calls[c].snap)
    BY DEF TypeOK, StateFile, Handler, FileLagsBehind
  <1>1. ASSUME NEW c \in Call, NEW t \in Token, NEW i \in Id,
               Register(c, t, i) \/ Heartbeat(c, t, i)
        PROVE  FileLagsBehind'
    <2>1. MayClaim(t, i) /\ Change(c, t, i)
      BY <1>1 DEF Register, Heartbeat, MayClaim
    <2>2. \A table \in Table : Past(table) => Past(table)'
      BY <2>1, ChangePast
    <2>3. /\ \A b \in Call : calls'[b].snap \in {calls[b].snap, NoHosts}
          /\ file' = file
      BY <2>1, ChangeType
    <2>4. \A b \in Call : calls'[b].snap \in Table /\ Past(calls'[b].snap)
      BY <1>0, <2>3, NoHostsType
    <2> QED BY <1>0, <2>2, <2>3, <2>4 DEF FileLagsBehind, Past
  <1>2. ASSUME NEW c \in Call, hosts' = hosts,
               file'.hosts \in {file.hosts, NoHosts, calls[c].snap},
               \A b \in Call : calls'[b].snap \in {calls[b].snap, NoHosts, hosts}
        PROVE  FileLagsBehind'
    <2>1. Past(hosts)
      BY DEF Past, TypeOK, Table, Rec
    <2>2. Past(file'.hosts) /\ \A b \in Call : Past(calls'[b].snap)
      BY <1>0, <1>2, <2>1, NoHostsType
    <2> QED BY <1>2, <2>2 DEF FileLagsBehind, Past
  <1>3. ASSUME NEW c \in Call, Snapshot(c) PROVE FileLagsBehind'
    <2>1. \A b \in Call : calls'[b].snap \in {calls[b].snap, NoHosts, hosts}
      BY <1>3 DEF Snapshot, TypeOK, Handler
    <2> QED BY <1>2, <1>3, <2>1 DEF Snapshot
  <1>4. ASSUME NEW c \in Call, Truncate(c) PROVE FileLagsBehind'
    <2>1. \A b \in Call : calls'[b].snap \in {calls[b].snap, NoHosts, hosts}
      BY <1>4 DEF Truncate, TypeOK, Handler
    <2> QED BY <1>2, <1>4, <2>1, UnreadableType DEF Truncate
  <1>5. ASSUME NEW c \in Call, Write(c) PROVE FileLagsBehind'
    <2>1. \A b \in Call : calls'[b].snap \in {calls[b].snap, NoHosts, hosts}
      BY <1>5, FinishType DEF Write
    <2>2. Listing(calls[c].snap).hosts = calls[c].snap
      BY DEF Listing
    <2> QED BY <1>2, <1>5, <2>1, <2>2, UnreadableType DEF Write
  <1>6. ASSUME NEW c \in Call, WriteError(c) PROVE FileLagsBehind'
    <2>1. \A b \in Call : calls'[b].snap \in {calls[b].snap, NoHosts, hosts}
      BY <1>6, FinishType DEF WriteError
    <2> QED BY <1>2, <1>6, <2>1, UnreadableType DEF WriteError
  <1>7. ASSUME NEW c \in Call, HangUp(c) PROVE FileLagsBehind'
    <2>1. \A b \in Call : calls'[b].snap \in {calls[b].snap, NoHosts, hosts}
      BY <1>7, IdleType DEF HangUp, TypeOK, Handler
    <2> QED BY <1>2, <1>7, <2>1 DEF HangUp
  <1>8. ASSUME NEW c \in Call, Reply(c) PROVE FileLagsBehind'
    <2>1. \A b \in Call : calls'[b].snap \in {calls[b].snap, NoHosts, hosts}
      BY <1>8, IdleType DEF Reply, TypeOK
    <2> QED BY <1>2, <1>8, <2>1 DEF Reply
  <1>9. CASE Restart
    <2>1. /\ hosts' = file.hosts /\ file' = file
          /\ \A c \in Call : calls'[c].snap = NoHosts
      BY <1>9, IdleType DEF Restart, Loaded
    <2>2. \A i \in Id : file.hosts[i] # None => file.hosts[i].version \in Nat
      BY <1>0 DEF Table, Rec
    <2> QED BY <2>1, <2>2 DEF FileLagsBehind, Past, NoHosts
  <1>10. CASE UNCHANGED vars
    BY <1>10 DEF vars, FileLagsBehind, Past
  <1> QED
    BY <1>1, <1>3, <1>4, <1>5, <1>6, <1>7, <1>8, <1>9, <1>10 DEF Next

LEMMA Invariant == Spec => [](TypeOK /\ FileLagsBehind)
  <1>1. TypeOK /\ FileLagsBehind /\ [Next]_vars => (TypeOK /\ FileLagsBehind)'
    BY NextType, NextLags
  <1> QED BY <1>1, InitLags, PTL DEF Spec

\* Every variable keeps its type.
THEOREM RegistryTypeCorrect == Spec => []TypeOK
  BY Invariant, PTL

\* The file and the snapshots on their way to it are tables of the past.
THEOREM LagsBehind == Spec => []FileLagsBehind
  BY Invariant, PTL

LEMMA OwnerStep ==
    TypeOK /\ FileLagsBehind /\ [Next]_vars
    => \A i \in Id : hosts[i] # None /\ hosts'[i] # None
                     => hosts'[i].owner = hosts[i].owner
  <1> SUFFICES ASSUME TypeOK, FileLagsBehind, [Next]_vars,
                      NEW i \in Id, hosts[i] # None, hosts'[i] # None
               PROVE  hosts'[i].owner = hosts[i].owner
    OBVIOUS
  <1>1. ASSUME NEW c \in Call, NEW t \in Token, NEW j \in Id,
               MayClaim(t, j), Change(c, t, j)
        PROVE  hosts'[i].owner = hosts[i].owner
    <2>1. hosts' = [hosts EXCEPT ![j] = [owner |-> t, version |-> Version(j) + 1]]
      BY <1>1, ChangeType
    <2> QED BY <1>1, <2>1 DEF MayClaim, TypeOK, Table
  <1>2. ASSUME NEW c \in Call, NEW t \in Token, NEW j \in Id,
               Register(c, t, j) \/ Heartbeat(c, t, j)
        PROVE  hosts'[i].owner = hosts[i].owner
    BY <1>1, <1>2 DEF Register, Heartbeat, MayClaim
  <1>3. CASE Restart
    BY <1>3 DEF Restart, Loaded, FileLagsBehind, Past
  <1> QED
    BY <1>2, <1>3
    DEF Next, vars, Snapshot, Truncate, Write, WriteError, HangUp, Reply

\* While the server knows an id, and over any restart that keeps it, the id
\* keeps its owner.
THEOREM OwnerStays == Spec => OwnerNeverReplaced
  <1>1. TypeOK /\ FileLagsBehind /\ [Next]_vars
        => [\A i \in Id : hosts[i] # None /\ hosts'[i] # None
                          => hosts'[i].owner = hosts[i].owner]_vars
    BY OwnerStep
  <1> QED BY <1>1, Invariant, PTL DEF Spec, OwnerNeverReplaced

-----------------------------------------------------------------------------
(* What an agent was told is on disk, and the id it saved is its own, until*)
(* a handler overlaps another one or a write goes wrong.                   *)

\* The table has what every agent was told, and the ids they saved as theirs.
Holds(table) ==
    /\ \A i \in Id : acked[i] > 0 => table[i] # None /\ acked[i] <= table[i].version
    /\ \A t \in Token : saved[t] # None =>
          table[saved[t]] # None /\ table[saved[t]].owner = t

\* The table has what the handler is going to answer.
Tells(call, table) ==
    /\ call.token \in Token /\ call.id \in Id
    /\ table[call.id] # None
    /\ table[call.id].owner = call.token
    /\ call.version <= table[call.id].version

\* What a handler carries towards its reply, by where it is.
Carries(call) ==
    /\ call.phase = "persist" => Tells(call, hosts)
    /\ call.phase \in {"snap", "writing"} => Holds(call.snap) /\ Tells(call, call.snap)
    /\ call.phase = "writing" => file = Unreadable("blank")
    /\ call.phase = "reply" => Tells(call, file.hosts)

Alone == \A c, d \in Call : calls[c].phase # "idle" /\ calls[d].phase # "idle" => c = d
NoWriter == \A c \in Call : calls[c].phase # "writing"

OnDisk ==
    /\ Alone
    /\ NoWriter => Holds(file.hosts)
    /\ \A c \in Call : Carries(calls[c])

DiskInv == ~trouble => OnDisk

LEMMA InitDisk == Init => DiskInv
  BY DEF Init, DiskInv, OnDisk, Alone, NoWriter, Holds, Carries, IdleCall

\* What a table of the past holds, memory holds too.
LEMMA PastHolds ==
    ASSUME TypeOK, NEW table \in Table, Past(table), Holds(table)
    PROVE  Holds(hosts)
  <1>1. ASSUME NEW i \in Id, acked[i] > 0
        PROVE  hosts[i] # None /\ acked[i] <= hosts[i].version
    <2>1. table[i] # None /\ acked[i] <= table[i].version
      BY <1>1 DEF Holds
    <2>2. hosts[i] # None /\ table[i].version <= hosts[i].version
      BY <2>1 DEF Past
    <2>3. acked[i] \in Nat /\ table[i].version \in Nat /\ hosts[i].version \in Nat
      BY <2>1, <2>2 DEF TypeOK, Table, Rec
    <2> QED BY <2>1, <2>2, <2>3
  <1>2. ASSUME NEW t \in Token, saved[t] # None
        PROVE  hosts[saved[t]] # None /\ hosts[saved[t]].owner = t
    <2>1. saved[t] \in Id
      BY <1>2 DEF TypeOK
    <2> QED BY <1>2, <2>1 DEF Holds, Past
  <1> QED BY <1>1, <1>2 DEF Holds

LEMMA MemoryHolds ==
    ASSUME TypeOK, FileLagsBehind, OnDisk
    PROVE  Holds(hosts)
  <1>1. CASE NoWriter
    <2>1. file.hosts \in Table /\ Past(file.hosts) /\ Holds(file.hosts)
      BY <1>1 DEF OnDisk, FileLagsBehind, TypeOK, StateFile
    <2> QED BY <2>1, PastHolds
  <1>2. ASSUME NEW c \in Call, calls[c].phase = "writing" PROVE Holds(hosts)
    <2>1. /\ calls[c].snap \in Table /\ Past(calls[c].snap) /\ Holds(calls[c].snap)
      BY <1>2 DEF OnDisk, Carries, FileLagsBehind, TypeOK, Handler
    <2> QED BY <2>1, PastHolds
  <1> QED BY <1>1, <1>2 DEF NoWriter

\* A step of the only handler in flight: what is left to show is about it.
LEMMA OnlyHandler ==
    ASSUME TypeOK, OnDisk, NEW c \in Call, calls[c].phase # "idle",
           NEW call, calls' = [calls EXCEPT ![c] = call],
           call.phase # "writing" => Holds(file.hosts)',
           Carries(call)', Carries(IdleCall)'
    PROVE  OnDisk'
  <1>1. \A d \in Call : d # c => calls[d].phase = "idle" /\ calls'[d] = calls[d]
    BY DEF TypeOK, OnDisk, Alone
  <1>2. calls'[c] = call
    BY DEF TypeOK
  <1>3. Alone'
    BY <1>1 DEF Alone
  <1>4. NoWriter' => Holds(file.hosts)'
    BY <1>2 DEF NoWriter
  <1>5. \A d \in Call : Carries(calls[d])'
    BY <1>1, <1>2 DEF Carries
  <1> QED BY <1>3, <1>4, <1>5 DEF OnDisk

LEMMA NextDisk == TypeOK /\ FileLagsBehind /\ DiskInv /\ [Next]_vars => DiskInv'
  <1> SUFFICES ASSUME TypeOK, FileLagsBehind, DiskInv, [Next]_vars, ~trouble'
               PROVE  OnDisk'
    BY DEF DiskInv
  <1>0. ~trouble
    BY DEF Next, vars, Register, Heartbeat, Change, Snapshot, Truncate, Write, WriteError,
           HangUp, Reply, Restart
  <1>1. OnDisk /\ Holds(hosts)
    BY <1>0, MemoryHolds DEF DiskInv
  <1>2. Carries(IdleCall)'
    BY DEF Carries, IdleCall
  <1>3. ASSUME NEW c \in Call, NEW t \in Token, NEW i \in Id, Change(c, t, i)
        PROVE  OnDisk'
    <2>0. PICK call : call = [phase |-> "persist", token |-> t, id |-> i,
                                  version |-> Version(i) + 1, snap |-> NoHosts,
                                  client |-> "waits"]
      OBVIOUS
    <2>1. /\ \A d \in Call : calls[d].phase = "idle"
          /\ calls' = [calls EXCEPT ![c] = call]
          /\ hosts' = [hosts EXCEPT ![i] = [owner |-> t, version |-> Version(i) + 1]]
          /\ UNCHANGED <<file, saved, acked>>
      BY <1>3, <2>0 DEF Change, AfterLock
    <2>2. NoWriter
      BY <2>1 DEF NoWriter
    <2>3. Holds(file.hosts)'
      BY <1>1, <2>1, <2>2 DEF OnDisk, Holds
    <2>4. hosts'[i] = [owner |-> t, version |-> Version(i) + 1]
      BY <2>1 DEF TypeOK, Table
    <2>5. Version(i) + 1 \in Nat
      BY DEF TypeOK, Table, Rec, Version
    <2>6. hosts'[i] # None
      BY <2>4, <2>5, NoRecAssumption DEF Rec
    <2>7. Tells(call, hosts)'
      BY <2>0, <2>4, <2>5, <2>6 DEF Tells
    <2>8. Carries(call)'
      BY <2>0, <2>7 DEF Carries
    <2>9. \A d \in Call : (d = c /\ calls'[d] = call) \/ calls'[d] = calls[d]
      BY <2>1 DEF TypeOK
    <2>10. \A d \in Call : Carries(calls[d])'
      BY <2>1, <2>8, <2>9 DEF Carries
    <2>11. Alone'
      BY <2>1, <2>9 DEF Alone
    <2> QED BY <2>3, <2>10, <2>11 DEF OnDisk
  <1>4. ASSUME NEW c \in Call, Snapshot(c) PROVE OnDisk'
    <2>0. PICK call : call = [calls[c] EXCEPT !.phase = "snap", !.snap = hosts]
      OBVIOUS
    <2>1. /\ calls[c].phase = "persist" /\ calls[c] \in Handler
          /\ calls' = [calls EXCEPT ![c] = call]
          /\ UNCHANGED <<hosts, file, saved, acked>>
      BY <1>4, <2>0 DEF Snapshot, TypeOK
    <2>2. /\ call.phase = "snap" /\ call.snap = hosts /\ call.token = calls[c].token
          /\ call.id = calls[c].id /\ call.version = calls[c].version
      BY <2>0, <2>1 DEF Handler
    <2>3. Tells(calls[c], hosts)
      BY <1>1, <2>1 DEF OnDisk, Carries
    <2>4. Carries(call)'
      BY <1>1, <2>1, <2>2, <2>3 DEF Carries, Holds, Tells
    <2>5. NoWriter
      BY <1>1, <2>1 DEF OnDisk, Alone, NoWriter
    <2>6. Holds(file.hosts)'
      BY <1>1, <2>1, <2>5 DEF OnDisk, Holds
    <2> QED BY <1>1, <1>2, <2>1, <2>4, <2>6, OnlyHandler
  <1>5. ASSUME NEW c \in Call, Truncate(c) PROVE OnDisk'
    <2>0. PICK call : call = [calls[c] EXCEPT !.phase = "writing"]
      OBVIOUS
    <2>1. /\ calls[c].phase = "snap" /\ calls[c] \in Handler
          /\ calls' = [calls EXCEPT ![c] = call]
          /\ file' = Unreadable("blank")
          /\ UNCHANGED <<hosts, saved, acked>>
      BY <1>5, <2>0 DEF Truncate, TypeOK
    <2>2. /\ call.phase = "writing" /\ call.snap = calls[c].snap /\ call.token = calls[c].token
          /\ call.id = calls[c].id /\ call.version = calls[c].version
      BY <2>0, <2>1 DEF Handler
    <2>3. Holds(calls[c].snap) /\ Tells(calls[c], calls[c].snap)
      BY <1>1, <2>1 DEF OnDisk, Carries
    <2>4. Carries(call)'
      BY <2>1, <2>2, <2>3 DEF Carries, Holds, Tells
    <2> QED BY <1>1, <1>2, <2>1, <2>2, <2>4, OnlyHandler
  <1>6. ASSUME NEW c \in Call, Write(c) PROVE OnDisk'
    <2>0. PICK call : call = IF calls[c].client = "gone" THEN IdleCall
                                 ELSE [calls[c] EXCEPT !.phase = "reply", !.snap = NoHosts]
      OBVIOUS
    <2>1. /\ calls[c].phase = "writing" /\ calls[c] \in Handler
          /\ calls' = [calls EXCEPT ![c] = call]
          /\ UNCHANGED <<hosts, saved, acked>>
      BY <1>6, <2>0 DEF Write, Finish, TypeOK
    <2>2. /\ Holds(calls[c].snap) /\ Tells(calls[c], calls[c].snap)
          /\ file = Unreadable("blank")
      BY <1>1, <2>1 DEF OnDisk, Carries
    <2>3. file'.hosts = calls[c].snap
      BY <1>6, <2>2 DEF Write, LeavesTail, Listing
    <2>4. \/ call = IdleCall
          \/ /\ call.phase = "reply" /\ call.token = calls[c].token
             /\ call.id = calls[c].id /\ call.version = calls[c].version
      BY <2>0, <2>1 DEF Handler
    <2>5. Holds(file.hosts)'
      BY <2>1, <2>2, <2>3 DEF Holds
    <2>6. Carries(call)'
      BY <1>2, <2>2, <2>3, <2>4 DEF Carries, Tells
    <2> QED BY <1>1, <1>2, <2>1, <2>5, <2>6, OnlyHandler
  <1>7. ASSUME NEW c \in Call, HangUp(c) PROVE OnDisk'
    <2>0. PICK call : call = IF calls[c].phase \in {"persist", "reply"} THEN IdleCall
                                 ELSE [calls[c] EXCEPT !.client = "gone"]
      OBVIOUS
    <2>1. /\ calls[c].phase # "idle" /\ calls[c] \in Handler
          /\ calls' = [calls EXCEPT ![c] = call]
          /\ UNCHANGED <<hosts, file, saved, acked>>
      BY <1>7, <2>0 DEF HangUp, TypeOK
    <2>2. \/ call = IdleCall /\ calls[c].phase \in {"persist", "reply"}
          \/ /\ call.phase = calls[c].phase /\ call.token = calls[c].token
             /\ call.snap = calls[c].snap
             /\ call.id = calls[c].id /\ call.version = calls[c].version
      BY <2>0, <2>1 DEF Handler
    <2>3. Carries(calls[c])
      BY <1>1 DEF OnDisk
    <2>4. Carries(call)'
      BY <1>2, <2>1, <2>2, <2>3 DEF Carries, Holds, Tells
    <2>5. call.phase # "writing" => NoWriter
      BY <1>1, <2>1, <2>2 DEF OnDisk, Alone, NoWriter
    <2>6. call.phase # "writing" => Holds(file.hosts)'
      BY <1>1, <2>1, <2>5 DEF OnDisk, Holds
    <2> QED BY <1>1, <1>2, <2>1, <2>4, <2>6, OnlyHandler
  <1>8. ASSUME NEW c \in Call, Reply(c) PROVE OnDisk'
    <2>1. /\ calls[c].phase = "reply"
          /\ saved' = [saved EXCEPT ![calls[c].token] = calls[c].id]
          /\ acked' = [acked EXCEPT ![calls[c].id] =
                IF @ < calls[c].version THEN calls[c].version ELSE @]
          /\ calls' = [calls EXCEPT ![c] = IdleCall]
          /\ UNCHANGED <<hosts, file>>
      BY <1>8 DEF Reply
    <2>2. Tells(calls[c], file.hosts) /\ NoWriter
      BY <1>1, <2>1 DEF OnDisk, Carries, Alone, NoWriter
    <2>3. Holds(file.hosts)
      BY <1>1, <2>2 DEF OnDisk
    <2>4. ASSUME NEW i \in Id, acked'[i] > 0
          PROVE  file.hosts[i] # None /\ acked'[i] <= file.hosts[i].version
      <3>1. CASE i # calls[c].id
        BY <2>1, <2>3, <2>4, <3>1 DEF Holds, TypeOK
      <3>2. CASE i = calls[c].id
        <4>1. acked'[i] \in {acked[i], calls[c].version}
          BY <2>1, <3>2 DEF TypeOK
        <4> QED BY <2>2, <2>3, <2>4, <3>2, <4>1 DEF Holds, Tells
      <3> QED BY <3>1, <3>2
    <2>5. ASSUME NEW t \in Token, saved'[t] # None
          PROVE  file.hosts[saved'[t]] # None /\ file.hosts[saved'[t]].owner = t
      <3>1. CASE t # calls[c].token
        BY <2>1, <2>3, <2>5, <3>1 DEF Holds, TypeOK
      <3>2. CASE t = calls[c].token
        BY <2>1, <2>2, <3>2 DEF Tells, TypeOK
      <3> QED BY <3>1, <3>2
    <2>6. Holds(file.hosts)'
      BY <2>1, <2>4, <2>5 DEF Holds
    <2> QED BY <1>1, <1>2, <2>1, <2>6, OnlyHandler
  <1>9. CASE Restart
    <2>1. /\ NoWriter
          /\ calls' = [c \in Call |-> IdleCall]
          /\ acked' = [i \in Id |-> IF file.hosts[i] = None THEN 0 ELSE acked[i]]
          /\ UNCHANGED <<file, saved>>
      BY <1>9 DEF Restart, NoWriter
    <2>2. Holds(file.hosts)'
      BY <1>1, <2>1 DEF OnDisk, Holds
    <2>3. Alone' /\ \A c \in Call : Carries(calls[c])'
      BY <2>1 DEF Alone, Carries, IdleCall
    <2> QED BY <2>2, <2>3 DEF OnDisk
  <1>10. CASE UNCHANGED vars
    BY <1>1, <1>10 DEF vars, OnDisk, Alone, NoWriter, Holds, Carries, Tells
  <1>11. \A c \in Call : ~WriteError(c)
    BY DEF WriteError
  <1> QED
    BY <1>3, <1>4, <1>5, <1>6, <1>7, <1>8, <1>9, <1>10, <1>11
    DEF Next, Register, Heartbeat

LEMMA DiskInvariant == Spec => [](TypeOK /\ FileLagsBehind /\ DiskInv)
  <1>1. TypeOK /\ FileLagsBehind /\ DiskInv /\ [Next]_vars => DiskInv'
    BY NextDisk
  <1> QED BY <1>1, InitDisk, Invariant, PTL DEF Spec

LEMMA DiskIsAcked == DiskInv => AckedIsOnDisk
  BY DEF DiskInv, OnDisk, NoWriter, Holds, AckedIsOnDisk

\* With no overlap and no failed write, whatever an agent was told is in the
\* file whenever no write is under way.
THEOREM AckedOnDisk == Spec => []AckedIsOnDisk
  BY DiskInvariant, DiskIsAcked, PTL

LEMMA DiskIsMine == TypeOK /\ FileLagsBehind /\ DiskInv => SavedIdIsMine
  <1> SUFFICES ASSUME TypeOK, FileLagsBehind, DiskInv, ~trouble PROVE Holds(hosts)
    BY DEF SavedIdIsMine, Holds
  <1> QED BY MemoryHolds DEF DiskInv

\* With no overlap and no failed write, the id an agent saved stays its own at
\* the server, over any number of restarts.
THEOREM SavedIsMine == Spec => []SavedIdIsMine
  BY DiskInvariant, DiskIsMine, PTL
=============================================================================
