# Remote access by ID and password: a TLA+ model

The repository lets somebody open a desktop stream to a computer by a nine-digit
id and a password. Apollo (a GameStream host) streams and Moonlight (a
GameStream client) plays; the code here gets the two of them paired. This
directory holds its TLA+ specifications, their model-checking configurations and
proofs.

    tlc -config MCFlow.cfg MCPairFlow.tla      one run
    tlapm PairFlowProofs.tla                   one module of proofs

## 1. The system

| Part | State it keeps | Operations that change it |
| --- | --- | --- |
| rendezvous server, `ra-rendezvous/src/lib.rs` | `Store`: hosts, per host the queue of pair requests and the recent challenges, the challenges, the result slots; the state file | `register`, `heartbeat`, `challenge` (with `gc`), `submit_pair`, `poll_pair_requests`, `post_pair_result`, `poll_pair_result`, `persist`, `AppState::new` |
| host agent, `ra-host/src/agent.rs` | id and token (in its configuration file), failures, the time of its last heartbeat, the requests in hand, the public address it was told | `register`, `run`, `handle_pair` |
| host's commands, `ra-host/src/main.rs`, `config.rs` | `host.toml`: token, id, password and salt, permission mask | `init`, `set-password`, `permissions`, `run` |
| Apollo's web interface as the agent sees it, `ra-host/src/apollo.rs` | a cookie | `login`, `submit_pin`, `list_clients`, `update_client` |
| client, `ra-client/src/session.rs` | its copy of the configuration, the pairing in hand | `resolve`, `pair_with`, `pair_native`, `prepare`, `connect` |
| client's files, `ra-client/src/config.rs`, `ra-gamestream/src/identity.rs` | remembered hosts; certificate, key and unique id | `load_or_default`, `save`, `load_or_create` |
| connect panel, `ra-desk/src/main.rs` | its copy of the configuration, busy, stream, current session, messages on their way | `start_connect`, `start_stream`, `disconnect`, switch app, forget, save, `drain` |
| pairing protocol, `ra-gamestream/src/pairing.rs` | phase, keys, the host's certificate | `Pairing::next`, `pair` |
| simulated Apollo, `ra-fakehost/src/main.rs` and `ra-gamestream/src/testing.rs` | the parked session, one handshake's keys and hash, the client list | `pair`, `api_pin`, `clients_update` |
| desktop application, `ra-desk` | its copy of the configuration, the agent's task and state, the loopback lock, the pid file, autostart | password, start, stop, retry, exit; headless copies and the system service |
| setup wizard, `ra-desk/src/main.rs`, `setup.rs` | open or not, busy, the tasks it has started | open, test login, finish, cancel |

How they talk. Agent and client call the server over HTTP and never each other:
the client fetches a challenge and submits a request; the agent's long poll
brings it the request; its answer comes back through a slot the client polls.
At the same time the client has its *presenter* (Moonlight, or the native
handshake) knock at Apollo, where the request *parks* until somebody enters its
PIN; the agent, which got the PIN sealed with the request, enters it, and then
looks for a new certificate in Apollo's list and gives it permissions. So one
pairing runs over two channels that know nothing of each other.

What is hard:

* the server's handlers give up their lock and go on: `challenge` between `gc`
  and the grant, the long polls between their look at the queue and
  `notified()`, `register` and `heartbeat` between their change and `persist`;
* anything may be lost: the reply to a poll that drained the queue, an answer, a
  call to Apollo that did its work, the server's memory at a restart, the file;
* PINs go to whoever is parked, and one handshake state serves everybody;
* one task of the agent polls, sends heartbeats and waits for clients;
* window, headless copies and system service compete for one agent, each with its
  own copy of one configuration file, and an aborted task may still write;
* the host's commands and the wizard write the same file, too, without any lock:
  each loads it, perhaps waits for its user, and writes it whole, in place;
* a host moves and does not notice: its interfaces go out with the next heartbeat,
  its public address is what the reply to that one showed;
* the window and every session and command work on a copy of `client.toml` and
  write it whole; sessions and streams report to the window by messages that it
  takes once a frame; first sessions may each make the identity, or be killed at it;
* expiry: challenges, result slots, the rate window, the agent's own deadlines.

What makes each part correct:

* *relay*: a request reaches only the host it was issued for, is handed over at
  most once and answered at most once; the client sees that answer; nothing
  expires early; nobody gets more challenges than the limit; nothing in a queue
  is forgotten by a poll that missed its wakeup;
* *registry*: an id never passes to another owner; what the file holds is a past
  of what memory held; what was acknowledged survives;
* *agent*: a lost call does not make the host look offline, a forgotten host
  registers again, every request that was handed over is dealt with, and who can
  reach the host at all finds an address of it;
* *commands and wizard*: no id, password or mask that was saved is taken back, the
  salt of an agent that is online is the server's, and the wizard is busy exactly
  as long as its own task;
* *pairing*: no certificate is accepted with a wrong PIN or without the password,
  one that the client believes in is listed, the permissions go to the client
  whose request is being handled, and there are no more of them than clients that
  know the password;
* *desktop*: one agent at a time, with the configuration that was chosen last and
  the salt the server hands out; closing the window leaves an agent behind;
* *client*: only right passwords are remembered, each with its salt; all sessions
  are one client to the hosts; the window loses no stream, does not stay busy for
  nothing and undoes nothing that was saved.

## 2. Modules

| Module | Models | Uses |
| --- | --- | --- |
| `PairExchange` | what the server promises: the abstract specification | |
| `Rendezvous` | the server's tables, handlers, polls and clock | |
| `RendezvousExchange` | the refinement mapping: `Rendezvous` implements `PairExchange` | both |
| `RendezvousProofs` | proofs about `Rendezvous` | `Rendezvous`, TLAPS |
| `RendezvousExchangeProofs` | the refinement, proved | `RendezvousProofs`, `RendezvousExchange` |
| `Registry`, `RegistryProofs` | registrations, the state file, its writers and faults | |
| `Handshake` | the five phases of the GameStream pairing at both ends, as operators | |
| `PairFlow`, `PairFlowProofs` | clients, agent and Apollo, pairing end to end | `PairExchange`, `Handshake` |
| `AgentLoop` | the agent's timers against the server's `last_seen` | |
| `Addresses`, `AddressesProofs` | a host that moves: the endpoints it publishes, and the one a client takes; proofs about both modules | `AgentLoop` |
| `DeskAgent`, `DeskAgentProofs` | who runs the agent on one machine, and with which configuration | |
| `HostSetup`, `HostSetupProofs` | the commands of `ra-host`, agents they run and the setup wizard, on one `host.toml` | |
| `IdentityStore` | `load_or_create`, by several sessions and over kills | |
| `ClientDesk`, `ClientDeskProofs` | the connect panel, its sessions and streams, the `ra` command, and the file they share | `IdentityStore` |
| `MCClientDesk`, `MCRendezvous`, `MCRegistry`, `MCPairFlow`, `MCAddresses`, `MCHostSetup`, `MCDeskAgent` | instances for TLC, symmetry where no liveness is checked | |

How the modules fit. `PairFlow` does not repeat the server: its requests and
answers travel by `PairExchange`, and the run *exchange* shows that the server
implements it. `Rendezvous!Restart` lets any subset of the registered hosts come
back; `Registry` shows why that is right: what a restart loads is a part of what
was known, under the same owners (`FileLagsBehind`). `AgentLoop` reduces server
and network to when the server last heard of the host. `DeskAgent` takes from
the server only what `register` records and from the agent only its registration
and that it goes on; what else the agent does is `AgentLoop` and `PairFlow`. `Addresses`
takes `AgentLoop`'s calls one by one and says what each tells the server.
`HostSetup` leaves the window's own agent and password to `DeskAgent`, which in
turn has no commands: what a command does to a file that somebody else holds a
copy of is the same whoever that is.
`ClientDesk` takes from `PairFlow` that a pairing ends well only if its `h1` is what
the host's agent has.

### Rendezvous

An action is one critical section of the store's lock, or one step of a handler
outside it. `calls` holds the challenge calls between their two locks;
`hostPoll` and `clientPoll` hold the long polls in flight, each about to take
the lock (*enter*), out of it and not yet waiting (*gap*, where a
`notify_waiters` is lost) or waiting (*wait*). A poll's reply reaches the agent's
`inbox` or is lost with the connection. `life` and `grants` are history: they
record what became of each request and when challenges were granted, for the
properties; of `life` the actions read only which request ids have been drawn and
which a client may ask about. Handlers that fail before they change anything
have no action.

`post_pair_result` (`Posted`) takes a result from any registered host, for any request
that has a slot, and overwrites one that is there. An agent calls it for its requests
in order, each once (`PostResult`). `ra-host` does nothing else, but the server would let
it: the hosts in `Strays` post any result for any request at any time (`StrayPost`), and
the request is then *disputed*. `SeenIsTheAnswer` and `AnswerIsFinal` are about requests
that are not: results for others must not touch them. The refinement's answer is the
agent's, and holds whatever strays post; that it is what the client is told is
`SeenIsTheAnswer`, so `PairFlow` builds on hosts that are all `ra-host`'s.

### Registry

A host is its owner's token and a version that stands for all its other data.
`register` and `heartbeat` change memory; then, unlocked, `persist` takes a
snapshot, truncates the file and writes it. `Fault` says what may go wrong:
a write that fails (`write_error`), a process killed between truncation and end
(`killed_mid_write`), a longer text under a shorter one (`lengths_differ`, which
leaves a file that does not parse). A client may hang up at any time: the handler
is dropped, but a write that has begun goes on. A heartbeat comes from an agent
that has saved the id. `trouble` is history: handlers have overlapped, or a write
failed, tore or was cut off. Until then what is acknowledged is on disk
(`AckedIsOnDisk`) and an id an agent has saved is its own (`SavedIdIsMine`).

To `FileLagsBehind` and `OwnerNeverReplaced` an empty file, or one that does not parse, is
one of the past's: after it the server starts with no host, and an id may be claimed anew.
That everything can be lost so is what the code does; the two say that nothing else is.

### Handshake and PairFlow

Cryptography is symbolic. A device stands for its certificate, its salt and its
PIN, the host's key is a pair <<whose salt, whose PIN>>, and what is encrypted
under another key comes out as garbage. The client sees garbage only in the third
phase, as `Pairing::next` does; the host checks the hash and the certificate in
the fourth. All this happens in the one state `FakeHost` has, so a request of one
session may meet the key of another. FakeHost is how the repository itself
states what Apollo does.

A *client* device pairs with the agent's help; a *guest* is a device whose PIN the
owner types into Apollo's page. `session` is `pair_with`, `shake` the presenter,
request by request, `agent` the place where `handle_pair` stands. `Outlives`
says whether the presenter survives its client: Moonlight's process does
(`spawn_pair` does not kill it), the native handshake is a future that is dropped.
A *setting* says who takes part and what may go wrong; a history has one of them
for good. Faults: calls to Apollo fail, having done their work or not
(`apollo_error`); somebody logs in to Apollo's page, which has one session only, so
the agent's call is refused, logs in again and is made a second time (`evicted`;
a second refusal is taken for the answer, as `ApolloApi::call` does); the agent
dies. Apollo's list only grows, so the agent's set `before` is a length.

The agent gives a client up by the clock alone, 150 s after it took the list
(`AgentGivesUp`, possible whenever it could enter a PIN): a client that parks shortly
before may get its PIN, be given up, and finish its handshake while the next one is
being served. The run *flow_misgrant* shows what comes of it. `ToldPairedIsGranted`, for
settings without faults and guests, says that nothing else does: a client that is told
it is paired has the permissions, or a client has them that the agent had given up.
`GrantsAreEarned` is what remains in every setting: permissions may go to the wrong
device, but never to more devices than there are clients that know the password.

### AgentLoop

`pc` is the await the loop is in and `left` the ticks it may still take. The server
hears of the host when a poll begins and when it is answered, at heartbeats and at
registrations; posting a result is not heard. A call that is lost takes up to the
HTTP timeout, and the loop then pauses 10 s, or 5 s after an unexpected status
(`CallFailed`). `excuse` is history: it says what, other than a lost call, may keep
the server from hearing of the agent. After re-registering, the excuse of the
restart holds until the loop is back at its poll. While the agent waits for one
client (up to 150 s) the server hears nothing of it, and after 90 s refuses
everybody with "host is offline"; that excuse is part of the claim.

### Addresses

An endpoint is a host name and a kind. The host follows a `Route` of places, each
with its interfaces and the address the server sees it at. `EndpointsOf` is
`Agent::endpoints`: of what is `Offered` (interfaces, the configuration's extra ones,
the public address) those of use, of each name the first (`Firsts`), in their order
(`Nth`) and cut off at the limit; `Record` tabulates it.
A call of `AgentLoop` becomes one that `Publish`es what it carries and puts the address
the server saw into `reply`, if its answer arrives; the agent takes that over into
`observed` when the call ends, so the public address it tells is one reply old.
Registering has a second pass, which may be lost. A server that restarts knows what
it last wrote, an earlier record, or nothing. `settled` is history: the heartbeats
heard since the last move or restart.

`Best` is the choice of `Session::resolve`: of the endpoints whose probe is answered
one of the best kind, the earlier first. The probe asks an address whether a
GameStream host is there and not which one: `others` are the addresses at which,
where the client is, another machine answers. What the exceptions of
`ReachableIsFound` stand for: such a machine is taken for the host; and a host with
more than sixteen addresses drops the last ones, of which its public address is
the first to go.

### HostSetup

A *process* is a command of `ra-host`, an agent that `ra-host run` has become, or a
task of the setup wizard. Its `job` has a kind, a phase and the configuration it has
loaded or made: *asking* while its user has not yet answered (and it will save),
*register* and *answered* around the call, *online* for an agent. `InitLooks`, `Loads`
and `RunLoads` read the file, `Saves...` and `Answered` write all of it. `SaveTorn`
kills a process between the truncation and the write, and with `SaveFails` the write
itself fails, before or after the truncation, and the process goes on as after any error
(`Errs`). `Torn` is not a file that `Config::load` takes, and not one that `init` replaces;
only setup does: a torn file is the loss of everything in it, which `NothingUndone`
excepts.
`ServerForgets` drops a record, and an agent that is online notices (`LossNoticed`)
and registers what it once loaded.

The wizard is closed, idle or busy. Cancel and a second opening stop no task, so a
task becomes a *stray*, and its message, when the window drains it, goes to whichever
wizard is there. `mix` says how many processes, which commands and how many ids a
history has, so that one instance covers several. `history` is history: `overlap`,
two jobs that are going to save were there at once; `two`, two jobs held
configurations with different salts or tokens; `freed`, a stray's message made the
open wizard idle.

What the exceptions stand for. Of two commands that overlap the later save undoes the
earlier one: a *set-password* that waits for its user while the first registration
of an agent brings the id leaves the file without it, and the next run gets another.
*set-password* beside a running agent gives the server the new salt while the agent
has the old password and salt in memory; after a loss of
the server's record the agent puts the old salt back. A stray that frees a busy wizard lets its
user finish twice, and the two setups then overlap. The repository promises nothing
about these either.

### DeskAgent

A configuration is its token (setup draws one), its id (the server draws it) and its
password (numbered in the order they are chosen; the number stands for the salt too).
`file` is `host.toml`, `shown` the window's copy, `rv` what the server holds of each id.
`runner` is `AgentRunner`: state, lock and task. The task's phases are the awaits of its
loop (*register*, *online*, the *backoff* sleep) and the two moments just before it
writes the shared state (*failing*, *waking*): `abort` acts at the next await, so that
write may still come after `stop` (`late`). A headless copy is *spawned*, has *loaded*
the file, and then has the port (`Bound`): it reads the file before it binds. `pid` is
whom the pid file names while that process lives. `sent` holds the registrations of the
window's own tasks (a changed password, setup); one whose sender gave up, or died, may
still arrive (`by = "nobody"`, at most `MaxStray`). `ChangePassword` stops the runner
and `Restarted` starts it, since a headless copy may take the port in between.
Everything else a click does is one action. `OpenWindow` starts the runner or, where the
file says `autostart_agent = false`, does not. A save that fails (`ChangeFails`) leaves
the file truncated and the window with its copy and its agent as they were. `history` is
history: `crossed`, two registrations with different passwords were in flight at once;
`halfSetUp`, a configuration was loaded that setup saved and could not register;
`handed`, a closing window handed over and nobody has taken over yet, nor has the file
been lost.

What the exceptions in the properties stand for, and what the model shows beyond them: a
file that cannot be read has no password in it to undo, and starts no agent; with two
changes of password in flight the older salt may arrive last; a half set-up
configuration is given a new id by each registration, and its late save may undo a
change; a headless agent is not restarted when the window changes the password, which
the server then learns all the same; a window closed while its agent waits to retry
(`Failed`) hands over to nobody. No statement in the repository promises otherwise for
these, so they are hazards, not findings.

### IdentityStore and ClientDesk

`IdentityStore` is `Identity::load_or_create` for each session (`Process`): it looks,
and if a file is missing draws an identity and writes certificate, key and unique id,
each opened (torn) and then written. `ClientDesk` begins a session with it
(`Session::new`), which may fail, or be killed in a terminal, between any two of its
steps (`Fails`). The test of `load_or_create` and its three reads are one step: outside a
race the unique id is written last, so who finds it finds the pair.
`from_pem` parses the key only, so a torn key is an error, and a torn unique id is not.
An identity is a number; two sessions that save at once are recorded as `raced`.

In `ClientDesk` a session has a copy of the file (`cfg`) from when it began, and puts
the whole copy back at its end (`Saves`). An entry is whether the host is known, its
remembered `h1` (a word hashed with a salt) and the salt it is remembered with. `agent`
is what a host takes for its password and `served` the salt the server hands out, which
follows. `Resolves` is all of `prepare` up to the pairing: the host is paired already,
or an `h1` is chosen as `h1_for` does. A frame of the window drains all messages and
then shows its buttons: a click therefore finds no message, or one that came after the
drain (`drawing`). When a connect has prepared, the window reads its copy again, or
keeps the old one if the file does not load (`Reloads`), and starts a stream, whose own
`Session::new` reads an identity that is there by then. `streams` are Moonlight's
processes with their watchers, `window.stream` the one that the window can kill.
`history` is history: `late`, an app was switched while the end of a stream was on its
way; `outside`, a command saved since the window read the file, or the file did not
load; `forgotten`, what was forgotten while no session was under way.

What the exceptions stand for. The end of a stream that is on its way when the app is
switched clears `busy` under the new connect; another can begin, and the stream of the
first can then not be disconnected (`OneStream` fails without `late`; it takes three
sessions). What is forgotten or saved during a connect is undone when that connect
saves, and what a command saved is undone by the window's next *forget* or *Save*.
Two first sessions that save at once may leave the certificate of one with the key
of the other. The repository promises nothing about these; they are hazards.

## 3. Runs

| Run | Instance | Shows |
| --- | --- | --- |
| routing | 2 hosts, one a stray, 1 request, 2 results, 1 poller, clock to 1, fair | `RoutedToItsHost`, `AnswerIsFinal`; `QueuedIsDrained`, `AnswerIsSeen`: a lost wakeup only delays |
| exchange | 1 host, no stray, 2 requests, 2 results, 1 poller, clock to 2, ttl 2, limit 1 | `UnusedChallengeKept`, `AcceptedSlotKept`, `RequestInOnePlace`, `SeenIsTheAnswer`, `RateLimited`, and the refinement |
| registry | 2 ids, 2 tokens, 2 handlers, all faults, versions to 2 | `FileLagsBehind`, `OwnerNeverReplaced`, `AckedIsOnDisk`, `SavedIdIsMine` |
| registry_overlap | 2 handlers, no fault | violates `RegistrationsSurvive` |
| flow | 1 client and 1 guest with all faults; 2 clients without, both perhaps in hand; fair | `WrongPinNeverPairs`, `PasswordNeeded`, `CompletedIsListed`, `ToldPairedIsGranted`, `GrantsAreEarned`, `HandedIsDealtWith`, types |
| flow_misgrant | 2 clients, no fault | violates `PairedMeansGranted` |
| flow_native | 1 native client, no fault | violates `ToldPairedHasCertificate` |
| loop | ticks of 5 s, 1 call lost in a row, batches of 2; 2 places, 3 kinds of clients; fair | `LostCallIsHarmless`, `ComesBack`, `ReachableIsFound`, `AddressesCatchUp` |
| desk | 2 headless copies, 1 setup, 2 ids, 2 passwords, fair | `OneAgent`, `WindowAgentIsCurrent`, `SaltIsTheAgents`, `PasswordNotUndone`, `HandoverIsTaken` |
| desk_rerun | the same with 2 setups and 1 stray registration | violates `ShownIsServed` |
| setup | 3 processes with 1 id, or 2 with 2 ids; 2 tokens, 3 passwords, 1 mask | `NothingUndone`, `SaltIsCurrent`, `BusyIsRight` |
| client | 3 sessions, 2 at once, 2 hosts, 2 words, 2 streams, 2 salts, 2 identities | `RememberedIsRight`, `IdentityIsOne`, `OneStream`, `BusyEnds`, `WindowIsCurrent`, `ForgottenStays`, types |

The types of `Rendezvous`, `Registry`, `Addresses`, `DeskAgent` and `HostSetup` are
in no run: section 4 proves them. It also proves every invariant of the passing runs,
and every action property; the runs say that they are not empty (a mutant of the code
breaks each), and check what cannot be proved, liveness.

Bounds, and why they do. In *exchange* the clock of the server reaches every ttl and
window in use (2, 2, 1), so each expires, at its edge and, the window, beyond. In
*routing* the host that the request is not for posts both results for it, at any time,
and `AnswerIsFinal` notices an agent that answers twice; what strays do to other
requests is in the proofs only (two requests with strays exceed a quarter of an hour).
There one tick is enough: a long poll that missed its wakeup waits for one, and polls
begun after it do not wait, while the challenge (ttl 1) expires and the slot (ttl 2)
does not. Two hosts are needed for a request to go astray, two requests for a queue
longer than one and for two answers in hand; more of either repeats these. In *exchange*
one challenge fills the window, so two requests reach the limit; that no larger limit
behaves differently is proved (`RateLimit`). Two handlers give every overlap of one
write with another; versions to 2 tell an old record from a new one. Two devices are
what it takes for PINs, keys and names to cross. Two clients, whose requests may come
with one poll and wait for each other, have a setting without failing calls: with them
the same holds by the proofs, and the instance is too large for liveness. In *loop* a
tick is five seconds and the constants are the code's own (poll 25 s, HTTP timeout 45 s,
heartbeat 30 s, offline at 90 s, pauses of 10 s and 5 s, a backoff of at most 60 s); two
calls lost in a row do make a host look offline, so one is the claim. One move is enough
for a record to be wrong, and the server's restart may bring that record back; at home
there is a link-local address, which must not be told, and a name that is both an
interface and an extra endpoint. Three addresses are the limit, which both places reach
and neither exceeds: nothing is claimed beyond it, and cutting off before the repeated
name is dropped would show. Clients are in the host's network, far away, and in its
tailnet, the last two with another machine at the host's home address. In *desk* two
headless copies are enough for one to find the port taken by the other, and two of each
number tell the old from the new. In *desk* one setup and one change of password, with a
second id for a setup that stayed half done; a second setup is in *desk_rerun* and in
the proofs (with it the instance takes more than five minutes). In *setup* a third
process comes between two that overlap; three passwords are two setups and a change, or
two changes; two ids let a host be given a second one, with two processes at once. In
*client* two sessions at once give every overlap of two copies of the file, the third
comes after them; two hosts are needed for one session to undo what was done to the
other host; a second identity is drawn only after a kill or in a race. After a race of
two savers no further session begins (`Begins`): nothing is claimed of the identity from
there on, and it made the instance five times as large. `CHECK_DEADLOCK FALSE` stands
where attempts end: in the flow every device tries once, and in the registry versions,
in the server clock and request ids are used up only together with steps that remain, so
deadlock is checked there.

Fairness. *routing*: the runtime drives a handler that can go on, time passes, an
agent (`Agent::run`) and a client (`pair_with`) that got an empty answer poll again,
and a connection does not break every single time; the last is why a delivery is
strongly fair, and what is lost with a broken connection counts as gone from the
queue. *flow*: the agent's loop runs on, through `handle_pair` and the `for` over a batch
(weakly fair: it always has a next step), and its clock comes to the deadline in
`handle_pair` even while it goes round (strongly fair); nothing is assumed of the clients,
which may stop anywhere. *loop*: time passes and a task whose await is over goes on;
nothing is assumed of the server, which may restart again and again, except in
`AddressesCatchUp`: its premise (`Calm`) is that restarts end, that time goes on and
that of the heartbeats some are answered, which a network that fails now and then
gives and one that is down for good does not. *desk*: processes run, so a headless
copy that was started comes to bind the port (or finds it taken), and a window that
is exiting ends; nothing is assumed of the user, the service manager or the network.

### What the violations say

* *registry_overlap*: `persist` has no order between two writers. Two
  registrations overlap, the older snapshot is written last, and a restart
  forgets an agent that was told it is registered. The state file is also
  written in place: with `killed_mid_write` in `Fault`, one handler is enough to
  lose all registrations at once.
* *flow_misgrant*: `handle_pair` believes the first certificate that was not there
  before to be its client's, and gives a client up by the clock alone. Client *a* parks
  shortly before the deadline and gets its PIN, the agent gives *a* up and takes the list
  for *b*, then *a* completes; *a* gets the permissions, and *b*, whose handshake has not
  begun, is told it is paired. No call fails for it. The
  request carries `client_uid` for exactly this, and the agent does not read it.
* *flow_native*: the agent answers when the certificate is listed, which is before
  the handshake's last phase; the answer drops the native handshake, and
  `pair_native` fails though the host has it paired.
* *desk_rerun*: "Re-run setup" writes a new token, and registering gives a new id.
  `SetupDone` then calls `AgentRunner::start`, which does nothing while there is a
  task; the old agent goes on serving the old id, and the window says "this PC is
  now reachable as" the new one.

## 4. Proofs

Theorems are for every value of the constants that meets the `ASSUME`s: any number
of hosts, requests, devices, callers, sessions and streams, any durations, routes and
limits. What is assumed of the constants:

* durations and bounds are naturals, a limit is at least one, and `None` (also `Torn`)
  is none of the values it stands in place of;
* `AgentLoop`: the pause after an unexpected status is not longer than the one after an
  error;
* `Rendezvous`: strays are hosts, any of them or none;
* `PairFlow`: who takes part in a setting is finite, a client is not a guest;
* `Addresses`: the route, a place's interfaces and the extra endpoints are sequences,
  and extra endpoints are of use (`extra_endpoints` of `host.toml` are not filtered);
* `LostCall` and `MovingLostCall` are about durations with `WithinBudget`: the long poll,
  and the calls lost in a row with the pause after each, fit into the time after which a
  host counts as offline. The code's constants do, which `MCAddresses` checks
  (`BudgetAssumption`).

| Theorem | Says |
| --- | --- |
| `TypeCorrect` | `Rendezvous` keeps its types |
| `RateLimit` | `[]RateLimited` |
| `OnePlace`, `Routed`, `Seen`, `AnswerStays` | `RequestInOnePlace`, `RoutedToItsHost`, `SeenIsTheAnswer`, `AnswerIsFinal` |
| `ChallengeKept`, `SlotKept` | `UnusedChallengeKept`, `AcceptedSlotKept`: nothing expires early |
| `ServerIsExchange` | `Rendezvous` implements `PairExchange`, step by step |
| `RegistryTypeCorrect`, `LagsBehind`, `OwnerStays` | `TypeOK`, `FileLagsBehind`, `OwnerNeverReplaced` of `Registry` |
| `AckedOnDisk`, `SavedIsMine` | `AckedIsOnDisk`, `SavedIdIsMine` of `Registry` |
| `DeskTypeCorrect`, `OneAgentOnly` | `TypeOK`, `OneAgent` of `DeskAgent`, for any number of headless copies |
| `WindowCurrent`, `SaltKept`, `PasswordKept` | `WindowAgentIsCurrent`, `SaltIsTheAgents`, `PasswordNotUndone` of `DeskAgent` |
| `SetupTypeCorrect`, `CommandsUndoNothing`, `SaltStaysCurrent`, `WizardBusyRight` | `TypeOK`, `NothingUndone`, `SaltIsCurrent`, `BusyIsRight` of `HostSetup`, for any number of processes, ids and passwords |
| `FlowTypeCorrect`, `WrongPin`, `PasswordIsNeeded`, `Completed` | `TypeOK`, `WrongPinNeverPairs`, `PasswordNeeded`, `CompletedIsListed` of `PairFlow`, for any number of clients and guests |
| `GrantsEarned`, `ToldGranted` | `GrantsAreEarned`, `ToldPairedIsGranted` of `PairFlow` |
| `LostCall`, `MovingLostCall` | `LostCallIsHarmless`, of `AgentLoop` and of a host that moves |
| `AddressesTypeCorrect`, `RecordSettles`, `Found` | `AddressesTypeOK`, what two heartbeats bring, and `ReachableIsFound` |
| `ClientTypeCorrect`, `OneIdentity`, `RightRemembered`, `Forgotten` | `TypeOK`, `IdentityIsOne`, `RememberedIsRight`, `ForgottenStays` of `ClientDesk` |
| `Busy`, `OneStreamAtATime`, `WindowCopyIsCurrent` | `BusyEnds`, `OneStream`, `WindowIsCurrent` of `ClientDesk` |

*RateLimit.* The server's deque forgets what it pops, so `RateLimited`, which is about
everything ever granted, is not inductive. `WindowInv` relates the two: the deque
is a suffix of the history, what was popped is out of the window for good,
histories are ordered and not in the future, and neighbours a limit apart are
more than a window apart. Popping keeps it (`PoppedWindow`), granting keeps it
because a full deque is refused (`GrantedWindow`).

*OnePlace, Routed, Seen, AnswerStays.* They follow from one invariant, `OnceInv`, over
the set of requests in each queue and inbox: queues and inboxes have no repeats
and are disjoint from each other and from the challenges, each entry belongs to
its host and is at the stage its place says, and an answered request is in no
inbox. The lemmas on `Elements` say what `Append`, `\o` and `Tail` do to the
entries. What a slot holds is what the agent answered, or the request is disputed. The
handler itself would overwrite: an answer is final because an agent posts for the head
of its inbox only, which by `OnceInv` has no answer yet, and every other post disputes.

*ChallengeKept, SlotKept.* `KeptInv` adds to the two properties that a challenge or slot
carries the time its request has in the history, so that what `gc` removes is what the
history calls expired, and that a slot is there only for an accepted request. It is
inductive given `OnceInv`, which says of what stage each is.

*ServerIsExchange.* The exchange's stages and hosts are functions of all the server's
tables. `AllPlaced`, which follows from `OnceInv`, says that each stage can be read from
one table alone: queued is in some queue, handed in some inbox, answered has an answer.
With it in both states of a step, a handler's step is shown for its own request and
nothing is left to say of the others. A restart may lose requests at any stage, which
the exchange allows.

*LagsBehind, OwnerStays.* `FileLagsBehind` is inductive together with the types: no
change to memory drops a host, changes an owner or lowers a version, so every
snapshot and the file stay in the past; a restart makes the file present and ends
all handlers. `OwnerStays` follows, since a step is a change, or loads the file.

*AckedOnDisk, SavedIsMine.* While there is no trouble one handler at most is under way.
`OnDisk` says what it carries, by its phase, towards the reply: memory, then its
snapshot, then the file have all that agents were told and saved, and also what
it is about to tell. Between truncation and write the file is blank, but then the
snapshot that is being written has it all.

*OneAgentOnly.* The port is free when the runner has no lock and no copy is bound, but
what must be excluded is two agents; `OneAgent` becomes inductive with the part of
`TypeOK` that ties the lock to the task. The lemmas are by what a step does to the port:
someone binds it while it is free (`OneBinds`, `OneStarts`), or no new holder
appears (`OneKept`, `OneMoves`). It holds of `FairSpec`, which implies `Spec`.

*WindowCurrent, SaltKept, PasswordKept.* `SavedInv` is one invariant with six parts. A
task is there only in a state that a change restarts (`RestartInv`); tokens, ids and
passwords in any copy have been drawn, and an id belongs to one token (`DrawnInv`); the
history's exceptions mean what they say (`NotedInv`); until the registration of a setup
is through nobody has loaded what it saved (`SetupInv`). From these the window's agent
has the file's password, and the server what that agent registered (`ServerInv`).
`ServerInv` speaks also of registrations not yet arrived: none with that token says
otherwise, or the old salt could come last. `PasswordNotUndone` follows step by step:
what is written is what is in the file but for its id, or a newer password, or has
another token.

*HostSetup.* All four rest on `Jobs`: the types, and that every job is *sound*, its phase
one that its kind goes through and with what the phase needs. `NothingUndone` speaks
of one step and is not inductive, since the file a job saves was loaded long before.
`Bounded` says that every number in use has been drawn, so that a new password is
above all others; `Sole`, that without overlap the one job that is going to save has
the configuration of the file, up to an id it is yet to get (or is about to replace
it altogether). `StepUndoesNothing` puts these together over the steps that write.
`SaltIsCurrent` becomes inductive when it speaks of all that hold a configuration
and not only of those online (`Salt`): while `two` is false they agree on token
and salt, so whichever registers, the server has what the others would say.
`BusyIsRight` needs in addition that a closed wizard has no task of its own (`Busy`).
In all three proofs the actions are grouped by what they do to the jobs (one goes on,
one ends, one begins, the wizard's become strays), with a lemma for each.

*WrongPin, PasswordIsNeeded, Completed.* `FlowInv` has four parts. `ShakeInv`: a PIN comes
once, while the session is parked, it is one that was entered for it, and nobody gets
past the first phase without. `ApolloInv`: Apollo's one key is that of the session whose
certificate it holds, under the PIN that session was given, and a hash that is there
was sent by a session whose PIN was its own. `ListInv`: who is listed had its own PIN
and is past the phase that lists; and whose handshake went on past that phase is
listed. `ServedInv`: a PIN is entered for the client that is being
served, who then knows the password, or for a guest. Requests of one session may
meet the key of another: the garbage that comes of it has no part in the
invariant, because only a hash that agrees lists anybody.

*GrantsEarned.* `EarnedInv` counts: a permission is granted in the step in which the
agent goes on to answer a client that knows the password, and that client was not
counted before. It says nothing of which device the permission goes to. It needs that
settings are finite.

*ToldGranted.* Without faults and guests (`Quietly`) only the client that is being
served, and those that were given up in the middle of their handshakes (`Abandoned`),
can get on the list, so what the list has more than before is one of these
(`ServesOneInv`). If a grant goes to one of the latter, the second half of the property
holds for good (`Misled`), since nobody loses permissions and who is given up stays so;
`QuietInv` is that one or the other is the case.

*LostCall.* Without an excuse, the age of the last contact plus what the current await may
still take is at most what the calls lost in a row may have cost, `Cost(lost)`, or
one long poll (`BudgetInv`); `RecoveryInv` says that every other place of the loop has an
excuse. The rest is arithmetic on `WithinBudget`. A moving host's step is a step of the loop or
none (`MovingIsLooping`), so the claim carries over.

*RecordSettles, Found.* `SettledInv` follows the two heartbeats: after the first, no
registration is under way and the agent has the public address or its reply is on the
way; after the second, the record is what the agent would tell of where it is. The rest
of `Found` is about operators on sequences: `FirstsOf`, each name that is of use has one
first place; `NthOf`, `Nth` counts a finite set through; so `EndpointsOf` has every name
if they fit (`EndpointsList`); and `BestOf`, what a client picks answers and is of the
best rank. A least number (`LeastNat`) is had from the well-foundedness of strict
inclusion of finite sets, since induction over numbers needs an operator as parameter.

*OneIdentity.* While no two sessions saved at once, `OneIdentityInv` says what each file
is as the one session that saves goes on: those behind it hold its identity and the
unique id, the last, is there only when certificate and key are a pair; so a kill
leaves either a pair or something the next session does not take for one.

*RightRemembered, Forgotten.* The property must hold of every copy, not only of the file: the
window's, each session's, and the `h1` a session is about to remember (`RightInv`); and
that a forgotten host is in no copy, with no session to it (`ForgottenInv`).
`MemoryStep` sums up what steps do to the copies, once for both.

*Busy, OneStreamAtATime, WindowCopyIsCurrent.* `BusyEnds` and `WindowIsCurrent` are
inductive with the types. `OneStream` is not: `PanelInv` says that the panel is in one
of six states (nothing, a connect, its answer, a stream, its end, the end of one that
was let go).

Checked by TLC only: liveness (`QueuedIsDrained`, `AnswerIsSeen`, `HandedIsDealtWith`,
`ComesBack`, `AddressesCatchUp`, `HandoverIsTaken`), which is out of this prover's reach, and
that the four statements of section 3 are violated.

## 5. What is not modelled

* TLS, HTTP, XML and JSON; hashing and sealing; formatting and logging. The token
  that authorizes a call is the identity of its caller.
* App lists and streaming: reads, or Moonlight's. Of the endpoint probes, how
  they are made and how long they wait: an address answers or it does not.
* Apollo and Moonlight themselves, beyond what FakeHost and the client's use of them say.
* One-time PINs (`otpauth`): implemented in `ra-gamestream`, used nowhere.
* Of `client.toml`: what is not about a remembered password (settings, names,
  endpoints, apps, the host certificates of native pairings) and `ra config`. It is
  written in one step and the write works: a *forget* or *Save* whose write fails is
  not noticed by the window, and a torn file by the next command only.
* `quit_remote_app`, which only runs Moonlight, and a second start of the window.
* Of the desktop application: egui, the wizard's fields and its probe of Apollo;
  `set_random_password` and `set_password` are one action. `ra-host id`, `clients` and
  what commands print are reads. A `chmod` that
  fails after a save that was written whole is, in `HostSetup`, a save and a failed
  registration; `DeskAgent` leaves it out. In `HostSetup` a request whose sender has given up
  does not arrive later; in `DeskAgent` it may. The window's own agent beside a command is
  not composed: it holds a copy of the file as `HostSetup`'s agents do.
* The token's check: 403 to an agent's own calls comes only from a lost id that another
  token claimed, which `Registry` covers and `AgentLoop` does not.

## 6. Plan

Order of work; all of it is done.

1. `PairExchange`, `Rendezvous`: the relay, with its refinement.
2. `Registry`: the state file.
3. `Handshake`, `PairFlow`: pairing end to end.
4. `AgentLoop`: timers and liveness of the host; first proofs.
5. `DeskAgent`: the desktop application's agent, and that there is one.
6. `HostSetup`: `init`, `set-password`, `permissions` and `run` of `ra-host` and the setup
   wizard, on the file of a running agent; proved.
7. `IdentityStore`: `load_or_create` by two processes and over a crash.
8. `ClientDesk`: the client's remembered hosts, the connect panel and the streams.
9. `Addresses`: a host that moves, and what clients find.
10. Proofs: of every invariant and action property of the runs, and of the refinement.

What could be added: the steps between modules that this text argues are not themselves
checked, that `PairFlow`'s agent keeps to the times that `AgentLoop` gives it, and that
what `Registry` lets a restart load is what `Rendezvous!Restart` brings back.
