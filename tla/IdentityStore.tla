--------------------------- MODULE IdentityStore ---------------------------
(***************************************************************************)
(* The client's identity on disk: a certificate, its key and a unique id,  *)
(* one file each, which Identity::load_or_create reads or else makes.      *)
(* Every session of every process begins with it and nothing keeps two from*)
(* doing it at once.  An identity is the number it was drawn with, and a   *)
(* file that was opened for writing and not yet written is torn.           *)
(***************************************************************************)
EXTENDS Naturals, Sequences, FiniteSets

CONSTANTS
    Process,        \* sessions that may exist at once
    None, Torn,     \* no file; a file without its text
    MaxIdentity     \* bound: identities drawn

ASSUME IdentityAssumption ==
    MaxIdentity \in Nat /\ None \notin Nat /\ Torn \notin Nat /\ None # Torn

VARIABLES
    disk,           \* the three files
    loader,         \* where each session is in load_or_create
    identities      \* history: how many were drawn, which were used, and whether
                    \* two sessions were at it at once

identityVars == <<disk, loader, identities>>

File == {"cert", "key", "uid"}

Outside == [phase |-> "idle", mine |-> 0, todo |-> <<>>, half |-> FALSE]

InitIdentity ==
    /\ disk = [f \in File |-> None]
    /\ loader = [p \in Process |-> Outside]
    /\ identities = [drawn |-> 0, used |-> {}, raced |-> FALSE]

Saving == {p \in Process : loader[p].phase = "save"}

\* Mutated form: a slip IdentityIsOne must notice.
BugUidFirst == <<"uid", "key", "cert">>

\* The order in which save writes the files.
Order == <<"cert", "key", "uid">>

\* The test of load_or_create for an identity that is there.
Exists == \A f \in File : disk[f] # None

\* from_pem parses the key and nothing else.
Usable == disk["key"] # Torn

\* The history when p has used an identity, or is about to save one.
Seen(p, used) ==
    LET raced == identities.raced \/ Saving \ {p} # {} IN
    [identities EXCEPT !.raced = raced, !.used = IF raced THEN {} ELSE @ \cup used]

Got(p, ident) ==
    /\ loader' = [loader EXCEPT ![p] = [Outside EXCEPT !.phase = "loaded"]]
    /\ identities' = Seen(p, {<<ident["cert"], ident["key"]>>})

Looks(p) ==
    /\ loader[p].phase = "look"
    /\ Exists
    /\ IF Usable THEN Got(p, disk)
       ELSE /\ loader' = [loader EXCEPT ![p].phase = "failed"]
            /\ UNCHANGED identities
    /\ UNCHANGED disk

Generates(p) ==
    /\ loader[p].phase = "look"
    /\ ~Exists
    /\ identities.drawn < MaxIdentity
    /\ loader' = [loader EXCEPT ![p].phase = "save", ![p].mine = identities.drawn + 1,
                                ![p].todo = Order]
    /\ identities' = [Seen(p, {}) EXCEPT !.drawn = @ + 1]
    /\ UNCHANGED disk

Truncates(p) ==
    /\ loader[p].phase = "save" /\ ~loader[p].half
    /\ disk' = [disk EXCEPT ![Head(loader[p].todo)] = Torn]
    /\ loader' = [loader EXCEPT ![p].half = TRUE]
    /\ UNCHANGED identities

Writes(p) ==
    LET me == loader[p] IN
    /\ me.phase = "save" /\ me.half
    /\ disk' = [disk EXCEPT ![Head(me.todo)] = me.mine]
    /\ IF Len(me.todo) > 1
       THEN /\ loader' = [loader EXCEPT ![p].half = FALSE, ![p].todo = Tail(@)]
            /\ UNCHANGED identities
       ELSE Got(p, [f \in File |-> me.mine])

LoaderStep(p) == Looks(p) \/ Generates(p) \/ Truncates(p) \/ Writes(p)

\* A new session begins to look, and one that ends or is killed leaves the files.
Enters(p) == loader' = [loader EXCEPT ![p] = [Outside EXCEPT !.phase = "look"]]
Leaves(p) == loader' = [loader EXCEPT ![p] = Outside]

IdentityTypeOK ==
    LET Stored == (1..MaxIdentity) \cup {None, Torn} IN
    /\ disk \in [File -> Stored]
    /\ loader \in [Process -> [phase : {"idle", "look", "save", "loaded", "failed"},
                               mine : 0..MaxIdentity,
                               todo : {SubSeq(Order, i, 3) : i \in 1..4}, half : BOOLEAN]]
    /\ identities \in [drawn : 0..MaxIdentity, used : SUBSET (Stored \X Stored), raced : BOOLEAN]

\* All sessions there ever were have one certificate, with its own key, even if
\* some were killed while they saved; not so when two saved at once.
IdentityIsOne ==
    ~identities.raced =>
        /\ \A u \in identities.used : u[1] = u[2]
        /\ Cardinality(identities.used) <= 1
=============================================================================
