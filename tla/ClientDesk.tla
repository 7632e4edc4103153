----------------------------- MODULE ClientDesk -----------------------------
(***************************************************************************)
(* The connecting side of one computer: the connect panel of ra-desk with  *)
(* the sessions it starts and the Moonlight streams it watches, the        *)
(* sessions of the ra command, and the client.toml that they share.        *)
(*                                                                         *)
(* Every session and the window work on a copy of that file of their own,  *)
(* and write all of it.  Of the file the remembered hosts are modelled and *)
(* of those the remembered h1 with its salt; names, endpoints, apps,       *)
(* certificates and settings are left out, as are the pairing itself       *)
(* (PairFlow) and the reads of the network.                                *)
(***************************************************************************)
EXTENDS IdentityStore

CONSTANTS
    Host, Word,
    Stream,         \* Moonlight streams that may run at once
    MaxSalt,        \* bound: changes of a host's password
    MaxSession      \* bound: sessions begun

ASSUME ClientAssumption ==
    MaxSalt \in Nat /\ MaxSession \in Nat /\ None \notin Host \cup Stream

VARIABLES
    agent,          \* what each host's agent takes for its password
    served,         \* the salt that the server gives out for each host
    file,           \* client.toml: what is remembered of each host
    shown,          \* Desk.cfg, the window's copy
    sessions,       \* Session and the call it is in
    window,         \* Desk: busy, stream and current
    msgs,           \* Desk.rx
    drawing,        \* the messages came after the frame that is drawn was drained
    streams,        \* the Moonlight processes that the window started
    history         \* what the properties make an exception for

vars == <<identityVars, agent, served, file, shown, sessions, window, msgs,
          drawing, streams, history>>

theHosts == <<agent, served>>
theWindow == <<shown, window, msgs, drawing, streams>>

-----------------------------------------------------------------------------
(* What is remembered.                                                     *)

\* h1 is a word hashed with a salt.
H1 == [word : Word, salt : 0..MaxSalt]

\* A RememberedHost, as far as modelled; an id that is not in the map.
Entry == [known : BOOLEAN, h1 : H1 \cup {None}, salt : 0..MaxSalt]
Unknown == [known |-> FALSE, h1 |-> None, salt |-> 0]

NoSession == [phase |-> "idle", by |-> "window", cfg |-> [h \in Host |-> Unknown],
              host |-> None, may_type |-> FALSE, h1 |-> None]

Init ==
    /\ InitIdentity
    /\ \E w \in Word : agent = [h \in Host |-> [word |-> w, salt |-> 0]]
    /\ served = [h \in Host |-> 0]
    /\ file = [h \in Host |-> Unknown] /\ shown = file
    /\ sessions = [p \in Process |-> NoSession]
    /\ window = [busy |-> FALSE, stream |-> None, current |-> None]
    /\ msgs = <<>> /\ drawing = FALSE
    /\ streams = [s \in Stream |-> "none"]
    /\ history = [begun |-> 0, late |-> FALSE, outside |-> FALSE, forgotten |-> {}]

InFlight == {p \in Process : sessions[p].phase # "idle"}
Connects == {p \in InFlight : sessions[p].by = "window"}

\* Mutated forms, here and below: slips the properties must notice.
BugSaltNow(s, remember) ==
    IF s.h1 # None /\ remember THEN [known |-> TRUE, h1 |-> s.h1, salt |-> served[s.host]]
    ELSE [s.cfg[s.host] EXCEPT !.known = TRUE]
BugKeepsCopy == shown
BugNotWritten(cfg) == file
BugStaysBusy(w) == [w EXCEPT !.stream = None, !.current = None]
BugLetsGo(w) == streams
BugKeepsCurrent(w) == [w EXCEPT !.stream = None, !.busy = FALSE]

\* The entry that a session leaves behind for its host.
Remembered(s, remember) ==
    IF s.h1 # None /\ remember THEN [known |-> TRUE, h1 |-> s.h1, salt |-> s.h1.salt]
    ELSE [s.cfg[s.host] EXCEPT !.known = TRUE]

\* ClientConfig::load_or_default; what the window writes of its copy.
Loaded == file
Written(cfg) == cfg

-----------------------------------------------------------------------------
(* The hosts: owners set passwords, and agents register the salt.          *)

Salts == {agent[h].salt : h \in Host}

\* A salt is new.
OwnerSets(h) ==
    /\ \E w \in Word, salt \in 1..MaxSalt :
          /\ \A n \in Salts : n < salt
          /\ agent' = [agent EXCEPT ![h] = [word |-> w, salt |-> salt]]
    /\ UNCHANGED <<identityVars, served, file, sessions, theWindow, history>>

Registered(h) ==
    /\ served[h] # agent[h].salt
    /\ served' = [served EXCEPT ![h] = agent[h].salt]
    /\ UNCHANGED <<identityVars, agent, file, sessions, theWindow, history>>

-----------------------------------------------------------------------------
(* Messages to the window, which drains them at the start of a frame and   *)
(* then draws the panel, where there may be a click.  A message that comes *)
(* in between waits for the next frame.                                    *)

Sends(kind, h) ==
    /\ msgs' = Append(msgs, [kind |-> kind, host |-> h])
    /\ IF msgs = <<>> THEN drawing' \in BOOLEAN ELSE UNCHANGED drawing

Reports(s, kind) ==
    IF s.by = "window" THEN Sends(kind, s.host) ELSE UNCHANGED <<msgs, drawing>>

-----------------------------------------------------------------------------
(* A session: Session::new, then prepare or pair_native.  A native pairing *)
(* is a prepare that finds no list, does nothing for Moonlight and remembers.*)

\* What was typed and whether to remember it are chosen where they are used.
Session(by, cfg, h, may_type) ==
    [phase |-> "new", by |-> by, cfg |-> cfg, host |-> h, may_type |-> may_type, h1 |-> None]

\* Bound: after two saved an identity at once, the sessions that are there go on
\* and no other begins.
Begins(p, s) ==
    /\ sessions[p].phase = "idle" /\ history.begun < MaxSession
    /\ ~identities.raced
    /\ sessions' = [sessions EXCEPT ![p] = s]
    /\ Enters(p)
    /\ UNCHANGED <<disk, identities>>

Over(p) ==
    /\ sessions' = [sessions EXCEPT ![p] = NoSession]
    /\ Leaves(p)
    /\ UNCHANGED <<disk, identities>>

LoadsIdentity(p) ==
    /\ LoaderStep(p)
    /\ UNCHANGED <<theHosts, file, sessions, theWindow, history>>

\* h1_for: of a word that was typed; else what is remembered, if the salt is still the
\* host's; else of what a prompt gives, which the window has not.
H1For(s) ==
    LET salt == served[s.host]
        kept == s.cfg[s.host]
        typed == {[word |-> w, salt |-> salt] : w \in Word}
        mayUse == kept.h1 # None /\ kept.salt = salt
    IN  (IF s.may_type THEN typed ELSE {})
        \cup (IF mayUse THEN {kept.h1} ELSE IF s.by # "window" THEN typed ELSE {})

\* resolve, and the list, which Moonlight gets from hosts it is paired with: by a
\* session, by ra pair or otherwise, until the host removes it.
Resolves(p) ==
    LET s == sessions[p] IN
    /\ s.phase = "new" /\ loader[p].phase = "loaded"
    /\ \E to \in [phase : {"save"}, h1 : {None}] \cup [phase : {"pair"}, h1 : H1For(s)] :
          sessions' = [sessions EXCEPT ![p].phase = to.phase, ![p].h1 = to.h1,
                                       ![p].may_type = FALSE]
    /\ UNCHANGED <<identityVars, theHosts, file, theWindow, history>>

\* pair_with, when the host says that they are paired.
Pairs(p) ==
    LET s == sessions[p] IN
    /\ s.phase = "pair" /\ s.h1 = agent[s.host]
    /\ sessions' = [sessions EXCEPT ![p].phase = "save"]
    /\ UNCHANGED <<identityVars, theHosts, file, theWindow, history>>

\* The end that saves.  A session of the window reports.
Saves(p) ==
    LET s == sessions[p] IN
    /\ s.phase = "save"
    /\ \E remember \in BOOLEAN :
          file' = [s.cfg EXCEPT ![s.host] = Remembered(s, remember)]
    /\ Reports(s, "Prepared")
    /\ history' = [history EXCEPT !.outside = @ \/ s.by = "command"]
    /\ Over(p)
    /\ UNCHANGED <<theHosts, shown, window, streams>>

\* An error on the way: identity, with its files as far as they were written, server,
\* host, a wrong or a missing password, the file.  Or Ctrl-C in a terminal.
Fails(p) ==
    /\ p \in InFlight
    /\ Reports(sessions[p], "Error")
    /\ Over(p)
    /\ UNCHANGED <<theHosts, file, shown, window, streams, history>>

\* A command in a terminal: ra connect or ra pair --native.
Command(p, h) ==
    /\ Begins(p, Session("command", Loaded, h, TRUE))
    /\ history' = [history EXCEPT !.begun = @ + 1, !.forgotten = @ \ {h}]
    /\ UNCHANGED <<theHosts, file, theWindow>>

-----------------------------------------------------------------------------
(* The window: the messages it takes, and the clicks.                      *)

\* Desk::drain's answer to the end of a stream.
StreamOver(w) == [w EXCEPT !.stream = None, !.current = None, !.busy = FALSE]

Took(kind) ==
    /\ msgs # <<>> /\ Head(msgs).kind = kind
    /\ msgs' = Tail(msgs)
    /\ drawing' = FALSE
    /\ UNCHANGED <<identityVars, theHosts, file, sessions>>

\* The copy is renewed, unless the file does not load.
Reloads ==
    \/ shown' = Loaded /\ history' = [history EXCEPT !.outside = FALSE]
    \/ shown' = shown /\ history' = [history EXCEPT !.outside = TRUE]

\* Then Moonlight is started, which may fail.  start_stream makes a Session for it: that
\* reads the identity, which is there since the session before, and makes no use of it.
TakesPrepared ==
    /\ Took("Prepared")
    /\ Reloads
    /\ \/ \E s \in Stream :
             /\ Usable /\ streams[s] = "none"
             /\ streams' = [streams EXCEPT ![s] = "running"]
             /\ window' = [window EXCEPT !.stream = s, !.current = Head(msgs).host]
       \/ window' = [window EXCEPT !.busy = FALSE] /\ UNCHANGED streams

TakesStreamEnded ==
    /\ Took("StreamEnded")
    /\ window' = StreamOver(window)
    /\ UNCHANGED <<shown, streams, history>>

TakesError ==
    /\ Took("Error")
    /\ window' = [window EXCEPT !.busy = FALSE]
    /\ UNCHANGED <<shown, streams, history>>

\* A click, in a frame that has taken the messages that were there.
Clicked(w) ==
    /\ msgs = <<>> \/ drawing
    /\ drawing' = FALSE
    /\ window' = w

\* start_connect.
StartConnect(p, h, may_type, w) ==
    /\ Begins(p, Session("window", shown, h, may_type))
    /\ Clicked([w EXCEPT !.busy = TRUE])
    /\ history' = [history EXCEPT !.begun = @ + 1,
                     !.late = @ \/ \E i \in 1..Len(msgs) : msgs[i].kind = "StreamEnded",
                     !.forgotten = @ \ {h}]
    /\ UNCHANGED <<theHosts, file, shown, msgs>>

\* Connect, in the form or on a card of a recent host.
Connect(p, h) ==
    /\ window.stream = None /\ ~window.busy
    /\ StartConnect(p, h, TRUE, window)
    /\ UNCHANGED streams

\* What is left of the streams when the window lets go of its own: a child that is
\* still in its slot is killed.
LetGo(w) == [streams EXCEPT ![w.stream] = "none"]

Disconnect ==
    /\ window.stream # None
    /\ Clicked(StreamOver(window))
    /\ streams' = LetGo(window)
    /\ UNCHANGED <<identityVars, theHosts, file, sessions, shown, msgs, history>>

\* The password field is empty after a success.
SwitchApp(p) ==
    /\ window.stream # None
    /\ StartConnect(p, window.current, FALSE, StreamOver(window))
    /\ streams' = LetGo(window)

\* "forget" on a recent host's card, which is there while a connect is under way.
Forget(h) ==
    /\ window.stream = None /\ shown[h].known
    /\ Clicked(window)
    /\ shown' = [shown EXCEPT ![h] = Unknown]
    /\ file' = Written(shown')
    /\ history' = [history EXCEPT !.forgotten = IF InFlight = {} THEN @ \cup {h} ELSE @,
                                  !.outside = FALSE]
    /\ UNCHANGED <<identityVars, theHosts, sessions, msgs, streams>>

SaveSettings ==
    /\ Clicked(window)
    /\ file' = Written(shown)
    /\ history' = [history EXCEPT !.outside = FALSE]
    /\ UNCHANGED <<identityVars, theHosts, sessions, shown, msgs, streams>>

-----------------------------------------------------------------------------
(* The streams, each with the task that watches it and reports its end.    *)

StreamEnds(s) ==
    /\ streams[s] = "running"
    /\ streams' = [streams EXCEPT ![s] = "none"]
    /\ Sends("StreamEnded", None)
    /\ UNCHANGED <<identityVars, theHosts, file, sessions, shown, window, history>>

-----------------------------------------------------------------------------
Next ==
    \/ \E h \in Host : OwnerSets(h) \/ Registered(h) \/ Forget(h)
    \/ \E p \in Process :
          \/ LoadsIdentity(p) \/ Resolves(p) \/ Pairs(p) \/ Saves(p) \/ Fails(p)
          \/ SwitchApp(p)
          \/ \E h \in Host : Command(p, h) \/ Connect(p, h)
    \/ TakesPrepared \/ TakesStreamEnded \/ TakesError
    \/ Disconnect \/ SaveSettings
    \/ \E s \in Stream : StreamEnds(s)

Spec == Init /\ [][Next]_vars

-----------------------------------------------------------------------------
(* Properties.                                                             *)

TypeOK ==
    /\ IdentityTypeOK
    /\ agent \in [Host -> H1] /\ served \in [Host -> 0..MaxSalt]
    /\ file \in [Host -> Entry] /\ shown \in [Host -> Entry]
    /\ \A p \in Process :
          /\ sessions[p].phase \in {"idle", "new", "pair", "save"}
          /\ sessions[p].cfg \in [Host -> Entry]
          /\ sessions[p].h1 \in H1 \cup {None}
          /\ sessions[p].phase = "idle" <=> loader[p].phase = "idle"
    /\ window.stream = None <=> window.current = None

\* An h1 that is remembered with the salt of the host is the one its agent takes:
\* only right passwords are stored, each with its own salt.
RememberedIsRight ==
    \A h \in Host : \A cfg \in {file, shown} \cup {sessions[p].cfg : p \in InFlight} :
        cfg[h].h1 # None /\ cfg[h].salt = agent[h].salt => cfg[h].h1 = agent[h]

\* No stream runs that the window cannot disconnect, and it connects once at a
\* time, unless the end of a stream was still on its way when the app was switched:
\* it then ends the connect that it knows nothing of.
OneStream ==
    ~history.late =>
        /\ \A s \in Stream : streams[s] = "running" => window.stream = s
        /\ Cardinality(Connects) <= 1
        /\ Connects # {} => window.stream = None

\* The panel never waits for nothing: while it is busy there is a connect under way,
\* a message to come, or a stream that somebody watches.
BusyEnds ==
    window.busy =>
        \/ Connects # {} \/ msgs # <<>>
        \/ window.stream # None /\ streams[window.stream] = "running"

\* The window's copy is what is in the file, so that what it writes of it loses
\* nothing; only a connect that has saved and is about to say so, a command that saved
\* meanwhile, or a file that did not load when it was read again makes the difference.
WindowIsCurrent ==
    /\ ~history.outside
    /\ \A i \in 1..Len(msgs) : msgs[i].kind # "Prepared"
    => shown = file

\* A host that was forgotten while no session was under way stays forgotten until
\* somebody connects to it again, through every save of every copy.
ForgottenStays == \A h \in history.forgotten : ~file[h].known
=============================================================================
