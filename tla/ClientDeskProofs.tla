-------------------------- MODULE ClientDeskProofs --------------------------
(***************************************************************************)
(* The connecting side, for any number of hosts, sessions and streams: one *)
(* identity, right passwords remembered, one stream, a panel that does not *)
(* hang, and copies of client.toml that undo nothing, as far as the        *)
(* exceptions that the properties name allow.                              *)
(***************************************************************************)
EXTENDS ClientDesk, FiniteSetTheorems, SequenceTheorems, TLAPS

-----------------------------------------------------------------------------
(* The identity.                                                           *)

Stored == (1..MaxIdentity) \cup {None, Torn}

\* The files that are still to be written: all, but the first, but two, or none.
All == <<"cert", "key", "uid">>
NoCert == <<"key", "uid">>
UidOnly == <<"uid">>
Done == <<>>

LEMMA TodoFacts ==
    /\ Head(All) = "cert" /\ Tail(All) = NoCert /\ Len(All) = 3
    /\ Head(NoCert) = "key" /\ Tail(NoCert) = UidOnly /\ Len(NoCert) = 2
    /\ Head(UidOnly) = "uid" /\ Len(UidOnly) = 1
    /\ Order = All
  BY DEF Order, All, NoCert, UidOnly

LEMMA Todos == {SubSeq(Order, i, 3) : i \in 1..4} = {All, NoCert, UidOnly, Done}
  <1>1. All \in Seq(File) /\ Len(All) = 3 /\ Order = All
    BY DEF All, File, Order
  <1>2. SubSeq(All, 1, 3) = All
    BY <1>1, SubSeqFull
  <1>3. SubSeq(All, 2, 3) = NoCert
    <2>1. Tail(SubSeq(All, 1, 3)) = SubSeq(All, 2, 3)
      BY <1>1, HeadTailOfSubSeq
    <2> QED BY <1>2, <2>1, TodoFacts
  <1>4. SubSeq(All, 3, 3) = UidOnly
    <2>1. Tail(SubSeq(All, 2, 3)) = SubSeq(All, 3, 3)
      BY <1>1, HeadTailOfSubSeq
    <2> QED BY <1>3, <2>1, TodoFacts
  <1>5. SubSeq(All, 4, 3) = Done
    BY SubSeqEmpty DEF Done
  <1>6. 1..4 = {1, 2, 3, 4}
    OBVIOUS
  <1> HIDE DEF All, NoCert, UidOnly
  <1> QED BY <1>1, <1>2, <1>3, <1>4, <1>5, <1>6

LoaderTypes ==
    [phase : {"idle", "look", "save", "loaded", "failed"}, mine : 0..MaxIdentity,
     todo : {All, NoCert, UidOnly, Done}, half : BOOLEAN]

IdentityTypes ==
    /\ disk \in [File -> Stored]
    /\ loader \in [Process -> LoaderTypes]
    /\ identities \in [drawn : 0..MaxIdentity, used : SUBSET (Stored \X Stored), raced : BOOLEAN]
    /\ \A p \in Saving : loader[p].mine > 0 /\ loader[p].todo # Done
    /\ \A p \in Process : loader[p].phase = "look" => ~loader[p].half

LEMMA OutsideTypes ==
    /\ Outside \in LoaderTypes /\ Outside.phase = "idle"
    /\ \A phase \in {"look", "loaded"} :
          LET there == [Outside EXCEPT !.phase = phase] IN
          there \in LoaderTypes /\ there.phase = phase /\ ~there.half
  <1>1. 0 \in 0..MaxIdentity /\ Done \in {All, NoCert, UidOnly, Done}
    BY IdentityAssumption
  <1>2. Outside = [phase |-> "idle", mine |-> 0, todo |-> Done, half |-> FALSE]
    BY DEF Outside, Done
  <1>3. Outside \in LoaderTypes /\ Outside.phase = "idle" /\ ~Outside.half
    BY <1>1, <1>2 DEF LoaderTypes
  <1>4. ASSUME NEW l \in LoaderTypes, NEW phase \in {"look", "loaded"}
        PROVE  /\ [l EXCEPT !.phase = phase] \in LoaderTypes
               /\ [l EXCEPT !.phase = phase].phase = phase
               /\ [l EXCEPT !.phase = phase].half = l.half
    BY DEF LoaderTypes
  <1> QED BY <1>3, <1>4

LEMMA InitIdentityTypes == InitIdentity => IdentityTypes
  <1> SUFFICES ASSUME InitIdentity PROVE IdentityTypes
    OBVIOUS
  <1>1. Outside \in LoaderTypes /\ Outside.phase = "idle"
    BY OutsideTypes
  <1> QED BY <1>1, IdentityAssumption DEF InitIdentity, IdentityTypes, Stored, Saving

\* What a step of the client does to the identity: one of the loader's steps, or a
\* session begins or ends, which leaves the files alone.
IdentityMove ==
    \/ \E p \in Process : LoaderStep(p)
    \/ (\E p \in Process : Enters(p) \/ Leaves(p)) /\ UNCHANGED <<disk, identities>>
    \/ UNCHANGED identityVars

LEMMA NextMovesIdentity == [Next]_vars => IdentityMove
  <1> SUFFICES ASSUME [Next]_vars PROVE IdentityMove
    OBVIOUS
  <1>1. CASE \E h \in Host : OwnerSets(h) \/ Registered(h) \/ Forget(h)
    BY <1>1 DEF OwnerSets, Registered, Forget, IdentityMove
  <1>2. ASSUME NEW p \in Process, LoadsIdentity(p) \/ Resolves(p) \/ Pairs(p)
        PROVE  IdentityMove
    BY <1>2 DEF LoadsIdentity, Resolves, Pairs, IdentityMove
  <1>6. ASSUME NEW p \in Process, Saves(p) \/ Fails(p) PROVE IdentityMove
    <2>1. Over(p)
      BY <1>6 DEF Saves, Fails
    <2> QED BY <2>1 DEF Over, IdentityMove
  <1>7. ASSUME NEW p \in Process, SwitchApp(p) PROVE IdentityMove
    BY <1>7 DEF SwitchApp, StartConnect, Begins, IdentityMove
  <1>3. ASSUME NEW p \in Process, NEW h \in Host, Command(p, h) \/ Connect(p, h)
        PROVE  IdentityMove
    BY <1>3 DEF Command, Connect, StartConnect, Begins, IdentityMove
  <1>4. CASE \/ TakesPrepared \/ TakesStreamEnded \/ TakesError \/ Disconnect \/ SaveSettings
             \/ \E s \in Stream : StreamEnds(s)
    BY <1>4 DEF TakesPrepared, TakesStreamEnded, TakesError, Took, Disconnect, SaveSettings,
                StreamEnds, IdentityMove
  <1>5. CASE UNCHANGED vars
    BY <1>5 DEF vars, IdentityMove
  <1> QED BY <1>1, <1>2, <1>3, <1>4, <1>5, <1>6, <1>7 DEF Next

LEMMA SeenType ==
    ASSUME IdentityTypes, NEW p \in Process, NEW used \in SUBSET (Stored \X Stored)
    PROVE  /\ Seen(p, used) \in [drawn : 0..MaxIdentity, used : SUBSET (Stored \X Stored),
                                 raced : BOOLEAN]
           /\ Seen(p, used).drawn = identities.drawn
           /\ ~Seen(p, used).raced => /\ ~identities.raced /\ Saving \subseteq {p}
                                      /\ Seen(p, used).used = identities.used \cup used
  BY DEF IdentityTypes, Seen

LEMMA GotType ==
    ASSUME IdentityTypes, NEW p \in Process, NEW ident \in [File -> Stored], Got(p, ident)
    PROVE  /\ loader' \in [Process -> LoaderTypes]
           /\ \A q \in Process \ {p} : loader'[q] = loader[q]
           /\ loader'[p].phase = "loaded"
           /\ identities' = Seen(p, {<<ident["cert"], ident["key"]>>})
           /\ identities' \in [drawn : 0..MaxIdentity, used : SUBSET (Stored \X Stored),
                               raced : BOOLEAN]
           /\ Saving' = Saving \ {p} /\ \A q \in Saving' : loader'[q] = loader[q]
  <1> DEFINE loaded == [Outside EXCEPT !.phase = "loaded"]
  <1>1. loaded \in LoaderTypes /\ loaded.phase = "loaded"
    BY OutsideTypes
  <1>2. loader' = [loader EXCEPT ![p] = loaded]
        /\ identities' = Seen(p, {<<ident["cert"], ident["key"]>>})
    BY DEF Got
  <1> HIDE DEF loaded
  <1>3. loader' \in [Process -> LoaderTypes] /\ loader'[p] = loaded
    BY <1>1, <1>2 DEF IdentityTypes
  <1>4. {<<ident["cert"], ident["key"]>>} \in SUBSET (Stored \X Stored)
    BY DEF File
  <1>5. Saving' = Saving \ {p} /\ \A q \in Process \ {p} : loader'[q] = loader[q]
    BY <1>1, <1>2, <1>3 DEF Saving, IdentityTypes
  <1>6. Saving \subseteq Process
    BY DEF Saving
  <1> QED BY <1>1, <1>2, <1>3, <1>4, <1>5, <1>6, SeenType

LEMMA MoveIdentityTypes == IdentityTypes /\ IdentityMove => IdentityTypes'
  <1> SUFFICES ASSUME IdentityTypes, IdentityMove PROVE IdentityTypes'
    OBVIOUS
  <1>1. ASSUME NEW p \in Process, Looks(p) PROVE IdentityTypes'
    <2>1. CASE Usable
      <3>1. Got(p, disk) /\ disk' = disk
        BY <1>1, <2>1 DEF Looks
      <3> QED BY <3>1, GotType DEF IdentityTypes
    <2>2. CASE ~Usable
      <3>1. loader' = [loader EXCEPT ![p].phase = "failed"] /\ UNCHANGED <<disk, identities>>
        BY <1>1, <2>2 DEF Looks
      <3> QED BY <3>1 DEF IdentityTypes, LoaderTypes, Saving
    <2> QED BY <2>1, <2>2
  <1>2. ASSUME NEW p \in Process, Generates(p) PROVE IdentityTypes'
    <2>1. /\ identities.drawn \in 0..MaxIdentity /\ identities.drawn < MaxIdentity
          /\ loader' = [loader EXCEPT ![p].phase = "save", ![p].mine = identities.drawn + 1,
                                      ![p].todo = Order]
          /\ identities' = [Seen(p, {}) EXCEPT !.drawn = @ + 1] /\ disk' = disk
      BY <1>2 DEF Generates, IdentityTypes
    <2>2. identities.drawn + 1 \in 1..MaxIdentity /\ Order = All /\ All # Done
      BY <2>1, TodoFacts, IdentityAssumption DEF All, Done
    <2>3. Seen(p, {}) \in [drawn : 0..MaxIdentity, used : SUBSET (Stored \X Stored),
                           raced : BOOLEAN] /\ Seen(p, {}).drawn = identities.drawn
      BY SeenType
    <2>4. loader' \in [Process -> LoaderTypes]
      <3>1. ASSUME NEW l \in LoaderTypes, NEW m \in 0..MaxIdentity,
                   NEW todo \in {All, NoCert, UidOnly, Done}
            PROVE  [l EXCEPT !.phase = "save", !.mine = m, !.todo = todo] \in LoaderTypes
        BY DEF LoaderTypes
      <3>2. identities.drawn + 1 \in 0..MaxIdentity /\ Order \in {All, NoCert, UidOnly, Done}
        BY <2>2
      <3> QED BY <2>1, <3>1, <3>2 DEF IdentityTypes
    <2>5. identities' \in [drawn : 0..MaxIdentity, used : SUBSET (Stored \X Stored),
                           raced : BOOLEAN]
      BY <2>1, <2>2, <2>3
    <2>6. \A q \in Saving' : loader'[q].mine > 0 /\ loader'[q].todo # Done
      BY <2>1, <2>2 DEF Saving, IdentityTypes, LoaderTypes
    <2>7. \A q \in Process : loader'[q].phase = "look" => loader'[q] = loader[q]
      BY <2>1 DEF IdentityTypes, LoaderTypes
    <2> QED BY <2>1, <2>4, <2>5, <2>6, <2>7 DEF IdentityTypes
  <1>3. ASSUME NEW p \in Process, Truncates(p) PROVE IdentityTypes'
    <2>1. p \in Saving /\ loader[p] \in LoaderTypes
      BY <1>3 DEF Truncates, Saving, IdentityTypes
    <2>2. Head(loader[p].todo) \in File
      BY <2>1, TodoFacts DEF IdentityTypes, LoaderTypes, File
    <2> QED BY <1>3, <2>1, <2>2 DEF Truncates, IdentityTypes, LoaderTypes, Saving, Stored
  <1>4. ASSUME NEW p \in Process, Writes(p) PROVE IdentityTypes'
    <2>1. p \in Saving /\ loader[p] \in LoaderTypes /\ loader[p].todo # Done
          /\ loader[p].mine \in Stored
      BY <1>4 DEF Writes, Saving, IdentityTypes, LoaderTypes, Stored
    <2>2. Head(loader[p].todo) \in File /\ loader[p].todo \in {All, NoCert, UidOnly}
      BY <2>1, TodoFacts DEF IdentityTypes, LoaderTypes, File
    <2>3. disk' \in [File -> Stored]
      BY <1>4, <2>1, <2>2 DEF Writes, IdentityTypes
    <2>4. CASE Len(loader[p].todo) > 1
      <3>1. /\ loader' = [loader EXCEPT ![p].half = FALSE, ![p].todo = Tail(@)]
            /\ identities' = identities
        BY <1>4, <2>4 DEF Writes
      <3>2. Tail(loader[p].todo) \in {NoCert, UidOnly} /\ NoCert # Done /\ UidOnly # Done
        <4>1. NoCert # Done /\ UidOnly # Done
          BY DEF NoCert, UidOnly, Done
        <4>2. loader[p].todo \in {All, NoCert}
          <5>1. ASSUME loader[p].todo = UidOnly PROVE FALSE
            <6>1. Len(UidOnly) = 1
              BY TodoFacts
            <6>2. Len(loader[p].todo) = 1
              BY <5>1, <6>1
            <6> QED BY <2>4, <6>2
          <5> QED BY <2>2, <5>1
        <4>3. Tail(All) \in {NoCert, UidOnly} /\ Tail(NoCert) \in {NoCert, UidOnly}
          BY TodoFacts
        <4>4. CASE loader[p].todo = All
          BY <4>1, <4>3, <4>4
        <4>5. CASE loader[p].todo = NoCert
          BY <4>1, <4>3, <4>5
        <4> QED BY <4>2, <4>4, <4>5
      <3>3. loader' \in [Process -> LoaderTypes]
        <4>1. ASSUME NEW l \in LoaderTypes, NEW todo \in {All, NoCert, UidOnly, Done}
              PROVE  [l EXCEPT !.half = FALSE, !.todo = todo] \in LoaderTypes
          BY DEF LoaderTypes
        <4>2. loader' = [loader EXCEPT ![p] = [loader[p] EXCEPT !.half = FALSE,
                                                                !.todo = Tail(loader[p].todo)]]
          BY <2>1, <3>1 DEF LoaderTypes
        <4> QED BY <3>2, <4>1, <4>2 DEF IdentityTypes
      <3>4. \A q \in Process \ {p} : loader'[q] = loader[q]
        BY <3>1 DEF IdentityTypes
      <3>5. loader'[p].phase = "save" /\ loader'[p].mine > 0 /\ loader'[p].todo # Done
        BY <2>1, <3>1, <3>2 DEF IdentityTypes, LoaderTypes, Saving
      <3> QED BY <2>3, <3>1, <3>3, <3>4, <3>5 DEF IdentityTypes, Saving
    <2>5. CASE ~(Len(loader[p].todo) > 1)
      <3>1. Got(p, [f \in File |-> loader[p].mine])
        BY <1>4, <2>5 DEF Writes
      <3>2. [f \in File |-> loader[p].mine] \in [File -> Stored]
        BY <2>1
      <3> QED BY <2>3, <3>1, <3>2, GotType DEF IdentityTypes
    <2> QED BY <2>4, <2>5
  <1>5. ASSUME NEW p \in Process, Enters(p) \/ Leaves(p), UNCHANGED <<disk, identities>>
        PROVE  IdentityTypes'
    <2>2. PICK there \in LoaderTypes :
              /\ there.phase # "save" /\ (there.phase = "look" => ~there.half)
              /\ loader' = [loader EXCEPT ![p] = there]
      BY <1>5, OutsideTypes DEF Enters, Leaves
    <2>3. loader'[p] = there /\ \A q \in Process \ {p} : loader'[q] = loader[q]
      BY <2>2 DEF IdentityTypes
    <2>4. loader' \in [Process -> LoaderTypes]
      BY <2>2 DEF IdentityTypes
    <2>5. \A q \in Saving' : q \in Saving /\ loader'[q] = loader[q]
      <3>1. there.phase # "save"
        BY <2>2
      <3> QED BY <2>3, <3>1 DEF Saving
    <2>6. \A q \in Process : loader'[q].phase = "look" => ~loader'[q].half
      BY <2>2, <2>3 DEF IdentityTypes
    <2> QED BY <1>5, <2>4, <2>5, <2>6 DEF IdentityTypes
  <1>6. CASE UNCHANGED identityVars
    BY <1>6 DEF identityVars, IdentityTypes, Saving
  <1> QED BY <1>1, <1>2, <1>3, <1>4, <1>5, <1>6 DEF IdentityMove, LoaderStep

\* As long as no two sessions saved at once: what the last file is there for is a
\* certificate with its own key; the session that saves has written the files that it
\* has behind it, and all that were used are the ones on disk.
Paired == disk["cert"] = disk["key"] /\ disk["key"] \in Nat

SavingInv(p) ==
    LET me == loader[p] IN
    /\ Saving = {p} /\ identities.used = {}
    /\ me.half => disk[Head(me.todo)] = Torn
    /\ Head(me.todo) = "cert" => disk["uid"] = None
    /\ Head(me.todo) = "key" => disk["cert"] = me.mine /\ disk["uid"] = None
    /\ Head(me.todo) = "uid" => disk["cert"] = me.mine /\ disk["key"] = me.mine

OneIdentityInv ==
    ~identities.raced =>
        /\ disk["uid"] # None => Paired
        /\ \A p \in Saving : SavingInv(p)
        /\ identities.used # {} => Exists /\ identities.used = {<<disk["cert"], disk["key"]>>}

LEMMA InitOneIdentity == InitIdentity => OneIdentityInv
  BY OutsideTypes DEF InitIdentity, OneIdentityInv, Saving, File

\* A session has its identity, from files that are a pair, while nobody saves.
LEMMA GotOne ==
    ASSUME IdentityTypes, OneIdentityInv, NEW p \in Process, NEW ident \in [File -> Stored],
           Got(p, ident), Saving \subseteq {p},
           identities.used # {} => ident = disk /\ disk' = disk,
           ident["cert"] = disk'["cert"], ident["key"] = disk'["key"], ~identities'.raced,
           disk'["cert"] = disk'["key"], disk'["key"] \in Nat,
           \A f \in File : disk'[f] # None
    PROVE  OneIdentityInv'
  <1>1. {<<ident["cert"], ident["key"]>>} \in SUBSET (Stored \X Stored)
    BY DEF File
  <1>2. /\ Saving' = {}
        /\ identities'.used = identities.used \cup {<<ident["cert"], ident["key"]>>}
        /\ ~identities.raced
    <2>1. /\ Saving' = Saving \ {p}
          /\ identities' = Seen(p, {<<ident["cert"], ident["key"]>>})
      BY GotType
    <2> QED BY <1>1, <2>1, SeenType
  <1>3. identities.used \subseteq {<<ident["cert"], ident["key"]>>}
    BY <1>2 DEF OneIdentityInv
  <1> QED BY <1>2, <1>3 DEF OneIdentityInv, Paired, Exists

LEMMA MoveOneIdentity == IdentityTypes /\ OneIdentityInv /\ IdentityMove => OneIdentityInv'
  <1> SUFFICES ASSUME IdentityTypes, OneIdentityInv, IdentityMove, ~identities'.raced
               PROVE  OneIdentityInv'
    BY DEF OneIdentityInv
  <1>1. ASSUME NEW p \in Process, Looks(p) PROVE OneIdentityInv'
    <2>1. Exists /\ disk' = disk /\ p \notin Saving
      BY <1>1 DEF Looks, Saving
    <2>2. CASE Usable
      <3>1. Got(p, disk)
        BY <1>1, <2>2 DEF Looks
      <3>2. /\ disk \in [File -> Stored]
            /\ {<<disk["cert"], disk["key"]>>} \in SUBSET (Stored \X Stored)
        BY DEF IdentityTypes, File
      <3>3. Saving = {} /\ ~identities.raced
        <4>1. identities' = Seen(p, {<<disk["cert"], disk["key"]>>})
          BY <3>1, <3>2, GotType
        <4> QED BY <2>1, <3>2, <4>1, SeenType
      <3>4. Paired
        BY <2>1, <3>3 DEF OneIdentityInv, Exists, File
      <3> QED BY <2>1, <3>1, <3>2, <3>3, <3>4, GotOne DEF Paired, Exists
    <2>3. CASE ~Usable
      <3>1. loader' = [loader EXCEPT ![p].phase = "failed"] /\ identities' = identities
        BY <1>1, <2>3 DEF Looks
      <3>2. Saving' = Saving /\ \A q \in Saving : loader'[q] = loader[q]
        BY <2>1, <3>1 DEF Saving, IdentityTypes, LoaderTypes
      <3> QED BY <2>1, <3>1, <3>2 DEF OneIdentityInv, SavingInv, Paired, Exists
    <2> QED BY <2>2, <2>3
  <1>2. ASSUME NEW p \in Process, Generates(p) PROVE OneIdentityInv'
    <2>1. /\ ~Exists /\ disk' = disk /\ p \notin Saving
          /\ loader' = [loader EXCEPT ![p].phase = "save", ![p].mine = identities.drawn + 1,
                                      ![p].todo = All]
          /\ identities' = [Seen(p, {}) EXCEPT !.drawn = @ + 1]
      BY <1>2, TodoFacts DEF Generates, Saving
    <2>2. ~identities.raced /\ Saving = {} /\ identities'.used = identities.used
      <3>1. ~Seen(p, {}).raced /\ identities'.used = Seen(p, {}).used
        BY <2>1, SeenType
      <3>2. ~identities.raced /\ Saving \subseteq {p} /\ Seen(p, {}).used = identities.used
        <4>1. {} \in SUBSET (Stored \X Stored) /\ identities.used \cup {} = identities.used
          OBVIOUS
        <4> QED BY <3>1, <4>1, SeenType
      <3> QED BY <2>1, <3>1, <3>2
    <2>3. disk["uid"] = None /\ identities.used = {}
      <3>1. disk["uid"] # None => Exists
        BY <2>2, IdentityAssumption DEF OneIdentityInv, Paired, Exists, File
      <3> QED BY <2>1, <2>2, <3>1 DEF OneIdentityInv
    <2>4. Saving' = {p} /\ loader'[p].half = loader[p].half /\ loader'[p].todo = All
      BY <2>1, <2>2 DEF Saving, IdentityTypes, LoaderTypes
    <2>5. ~loader[p].half
      BY <1>2 DEF Generates, IdentityTypes
    <2> QED BY <2>1, <2>2, <2>3, <2>4, <2>5, TodoFacts DEF OneIdentityInv, SavingInv
  <1>3. ASSUME NEW p \in Process, Truncates(p) PROVE OneIdentityInv'
    <2> DEFINE me == loader[p]
               f == Head(me.todo)
    <2>1. /\ p \in Saving /\ ~me.half /\ identities' = identities
          /\ disk' = [disk EXCEPT ![f] = Torn] /\ loader' = [loader EXCEPT ![p].half = TRUE]
      BY <1>3 DEF Truncates, Saving
    <2>2. SavingInv(p) /\ ~identities.raced
      BY <2>1 DEF OneIdentityInv
    <2>3. me.todo \in {All, NoCert, UidOnly} /\ me \in LoaderTypes /\ me.mine > 0
      BY <2>1 DEF IdentityTypes, LoaderTypes
    <2>4. Saving' = Saving /\ loader'[p].mine = me.mine /\ loader'[p].todo = me.todo
      BY <2>1 DEF Saving, IdentityTypes, LoaderTypes
    <2>5. f \in File
      BY <2>3, TodoFacts DEF File
    <2>6. /\ disk'[f] = Torn /\ \A g \in File \ {f} : disk'[g] = disk[g]
      BY <2>1, <2>5 DEF IdentityTypes
    <2> HIDE DEF f, me
    <2>7. Saving' = {p} /\ identities'.used = {}
      BY <2>1, <2>2, <2>4 DEF SavingInv
    <2>8. CASE f = "cert"
      <3>1. disk'["uid"] = None
        BY <2>2, <2>6, <2>8 DEF SavingInv, File, f, me
      <3> QED BY <2>4, <2>6, <2>7, <2>8, <3>1 DEF OneIdentityInv, SavingInv, f
    <2>9. CASE f = "key"
      <3>1. disk'["uid"] = None /\ disk'["cert"] = me.mine
        BY <2>2, <2>6, <2>9 DEF SavingInv, File, f, me
      <3> QED BY <2>4, <2>6, <2>7, <2>9, <3>1 DEF OneIdentityInv, SavingInv, f
    <2>10. CASE f = "uid"
      <3>1. disk'["key"] = me.mine /\ disk'["cert"] = me.mine
        BY <2>2, <2>6, <2>10 DEF SavingInv, File, f, me
      <3>2. Paired'
        BY <2>3, <3>1 DEF Paired, LoaderTypes
      <3> QED BY <2>4, <2>6, <2>7, <2>10, <3>1, <3>2 DEF OneIdentityInv, SavingInv, f
    <2> QED BY <2>5, <2>8, <2>9, <2>10 DEF File
  <1>4. ASSUME NEW p \in Process, Writes(p) PROVE OneIdentityInv'
    <2> DEFINE me == loader[p]
               f == Head(me.todo)
    <2>1. /\ p \in Saving /\ me.half /\ disk' = [disk EXCEPT ![f] = me.mine]
      BY <1>4 DEF Writes, Saving
    <2>2. me.todo \in {All, NoCert, UidOnly} /\ me \in LoaderTypes /\ me.mine > 0
      BY <2>1 DEF IdentityTypes, LoaderTypes
    <2>3. f \in File /\ me.mine \in Nat /\ me.mine # None
      BY <2>2, TodoFacts, IdentityAssumption DEF File, LoaderTypes
    <2>4. disk'[f] = me.mine /\ \A g \in File \ {f} : disk'[g] = disk[g]
      BY <2>1, <2>3 DEF IdentityTypes
    <2>5. CASE Len(me.todo) > 1
      <3>1. /\ loader' = [loader EXCEPT ![p].half = FALSE, ![p].todo = Tail(@)]
            /\ identities' = identities
        BY <1>4, <2>5 DEF Writes
      <3>2. SavingInv(p)
        BY <2>1, <3>1 DEF OneIdentityInv
      <3>3. /\ Saving' = Saving /\ loader'[p].mine = me.mine /\ ~loader'[p].half
            /\ loader'[p].todo = Tail(me.todo)
        BY <2>1, <2>2, <3>1 DEF Saving, IdentityTypes, LoaderTypes
      <3> HIDE DEF f, me
      <3>4. CASE me.todo = All
        <4>1. f = "cert" /\ Head(loader'[p].todo) = "key"
          BY <3>3, <3>4, TodoFacts DEF f
        <4>2. disk'["uid"] = None /\ disk'["cert"] = me.mine
          BY <2>4, <3>2, <4>1 DEF SavingInv, File, f, me
        <4> QED BY <3>1, <3>2, <3>3, <4>1, <4>2 DEF OneIdentityInv, SavingInv
      <3>5. CASE me.todo = NoCert
        <4>1. f = "key" /\ Head(loader'[p].todo) = "uid"
          BY <3>3, <3>5, TodoFacts DEF f
        <4>2. disk'["uid"] = None /\ disk'["cert"] = me.mine /\ disk'["key"] = me.mine
          BY <2>4, <3>2, <4>1 DEF SavingInv, File, f, me
        <4> QED BY <3>1, <3>2, <3>3, <4>1, <4>2 DEF OneIdentityInv, SavingInv
      <3>6. me.todo # UidOnly
        <4> SUFFICES ASSUME me.todo = UidOnly PROVE FALSE
          OBVIOUS
        <4>1. Len(UidOnly) = 1
          BY TodoFacts
        <4> QED BY <2>5, <4>1
      <3> QED BY <2>2, <3>4, <3>5, <3>6
    <2>6. CASE ~(Len(me.todo) > 1)
      <3> DEFINE ident == [g \in File |-> me.mine]
      <3>1. Got(p, ident)
        BY <1>4, <2>6 DEF Writes
      <3>2. /\ ident \in [File -> Stored]
            /\ {<<ident["cert"], ident["key"]>>} \in SUBSET (Stored \X Stored)
        BY <2>2, <2>3 DEF LoaderTypes, Stored, File
      <3>3. ~identities.raced /\ Saving \subseteq {p}
        <4>1. identities' = Seen(p, {<<ident["cert"], ident["key"]>>})
          BY <3>1, <3>2, GotType
        <4> QED BY <3>2, <4>1, SeenType
      <3>4. SavingInv(p)
        BY <2>1, <3>3 DEF OneIdentityInv
      <3>5. me.todo = UidOnly
        <4>1. me.todo # All
          <5> SUFFICES ASSUME me.todo = All PROVE FALSE
            OBVIOUS
          <5>1. Len(All) = 3
            BY TodoFacts
          <5> QED BY <2>6, <5>1
        <4>2. me.todo # NoCert
          <5> SUFFICES ASSUME me.todo = NoCert PROVE FALSE
            OBVIOUS
          <5>1. Len(NoCert) = 2
            BY TodoFacts
          <5> QED BY <2>6, <5>1
        <4> QED BY <2>2, <4>1, <4>2
      <3>6. f = "uid"
        BY <3>5, TodoFacts
      <3>7. \A g \in File : disk'[g] = me.mine
        BY <2>4, <3>4, <3>6 DEF SavingInv, File
      <3>8. ident["cert"] = me.mine /\ ident["key"] = me.mine /\ identities.used = {}
        BY <3>4 DEF SavingInv, File
      <3>9. "cert" \in File /\ "key" \in File
        BY DEF File
      <3> HIDE DEF ident, me
      <3> QED BY <2>3, <3>1, <3>2, <3>3, <3>7, <3>8, <3>9, GotOne
    <2> QED BY <2>5, <2>6
  <1>5. CASE (\E p \in Process : Enters(p) \/ Leaves(p)) /\ UNCHANGED <<disk, identities>>
    <2>1. PICK p \in Process : Enters(p) \/ Leaves(p)
      BY <1>5
    <2>2. Saving' = Saving \ {p} /\ \A q \in Saving' : loader'[q] = loader[q]
      BY <2>1, OutsideTypes DEF Enters, Leaves, Saving, IdentityTypes
    <2> QED BY <1>5, <2>2 DEF OneIdentityInv, SavingInv, Paired, Exists
  <1>6. CASE UNCHANGED identityVars
    BY <1>6 DEF identityVars, OneIdentityInv, SavingInv, Saving, Paired, Exists
  <1> QED BY <1>1, <1>2, <1>3, <1>4, <1>5, <1>6 DEF IdentityMove, LoaderStep

\* All sessions there ever were have one certificate, with its own key, even if some
\* were killed while they saved; not so when two saved at once.
THEOREM OneIdentity == Spec => []IdentityIsOne
  <1>1. Init => IdentityTypes /\ OneIdentityInv
    BY InitIdentityTypes, InitOneIdentity DEF Init
  <1>2. IdentityTypes /\ OneIdentityInv /\ [Next]_vars => (IdentityTypes /\ OneIdentityInv)'
    BY NextMovesIdentity, MoveIdentityTypes, MoveOneIdentity
  <1>3. IdentityTypes /\ OneIdentityInv => IdentityIsOne
    <2> SUFFICES ASSUME OneIdentityInv, ~identities.raced
                 PROVE  /\ \A u \in identities.used : u[1] = u[2]
                        /\ Cardinality(identities.used) <= 1
      BY DEF IdentityIsOne
    <2>1. CASE identities.used = {}
      BY <2>1, FS_EmptySet
    <2>2. CASE identities.used # {}
      <3>1. identities.used = {<<disk["cert"], disk["key"]>>} /\ disk["cert"] = disk["key"]
        BY <2>2 DEF OneIdentityInv, Exists, Paired, File
      <3>2. Cardinality(identities.used) = 1
        BY <3>1, FS_Singleton
      <3> QED BY <3>1, <3>2
    <2> QED BY <2>1, <2>2
  <1> QED BY <1>1, <1>2, <1>3, PTL DEF Spec

-----------------------------------------------------------------------------
(* The sessions: what begins, goes on and ends, and the types of all that  *)
(* they leave behind.                                                      *)

Config == [Host -> Entry]

SessionTypes ==
    [phase : {"idle", "new", "pair", "save"}, by : {"window", "command"}, cfg : Config,
     host : Host \cup {None}, may_type : BOOLEAN, h1 : H1 \cup {None}]

MemoryTypes ==
    /\ agent \in [Host -> H1] /\ served \in [Host -> 0..MaxSalt]
    /\ file \in Config /\ shown \in Config
    /\ sessions \in [Process -> SessionTypes]
    /\ \A p \in InFlight : sessions[p].host \in Host
    /\ \A p \in Process : sessions[p].phase = "idle" <=> loader[p].phase = "idle"

LEMMA UnknownType == Unknown \in Entry /\ Unknown.h1 = None /\ ~Unknown.known
  BY ClientAssumption DEF Unknown, Entry

LEMMA NoSessionType == NoSession \in SessionTypes /\ NoSession.phase = "idle"
  <1>1. [h \in Host |-> Unknown] \in Config
    BY UnknownType DEF Config
  <1> QED BY <1>1 DEF NoSession, SessionTypes

LEMMA NewSession ==
    ASSUME NEW by \in {"window", "command"}, NEW cfg \in Config, NEW h \in Host,
           NEW may_type \in BOOLEAN
    PROVE  LET s == Session(by, cfg, h, may_type) IN
           /\ s \in SessionTypes /\ s.phase = "new" /\ s.by = by /\ s.cfg = cfg /\ s.host = h
  BY DEF Session, SessionTypes

Others(p) == \A q \in Process \ {p} : sessions'[q] = sessions[q]

LEMMA BeginsEffect ==
    ASSUME MemoryTypes, NEW p \in Process, NEW s \in SessionTypes, s.phase = "new",
           s.host \in Host, Begins(p, s), IdentityTypes
    PROVE  /\ sessions' \in [Process -> SessionTypes] /\ sessions'[p] = s /\ Others(p)
           /\ p \notin InFlight /\ InFlight' = InFlight \cup {p}
           /\ Connects' = Connects \cup (IF s.by = "window" THEN {p} ELSE {})
           /\ \A q \in InFlight' : sessions'[q].host \in Host
           /\ \A q \in Process : sessions'[q].phase = "idle" <=> loader'[q].phase = "idle"
  <1>1. sessions' = [sessions EXCEPT ![p] = s] /\ sessions[p].phase = "idle"
    BY DEF Begins
  <1>2. sessions' \in [Process -> SessionTypes] /\ sessions'[p] = s /\ Others(p)
    BY <1>1 DEF MemoryTypes, Others
  <1>3. p \notin InFlight /\ InFlight' = InFlight \cup {p}
    BY <1>1, <1>2 DEF InFlight, Others
  <1>4. Connects' = Connects \cup (IF s.by = "window" THEN {p} ELSE {})
    BY <1>2, <1>3 DEF Connects, Others, InFlight
  <1>5. loader' = [loader EXCEPT ![p] = [Outside EXCEPT !.phase = "look"]]
    BY DEF Begins, Enters
  <1>6. loader'[p].phase = "look" /\ \A q \in Process \ {p} : loader'[q] = loader[q]
    BY <1>5, OutsideTypes DEF IdentityTypes
  <1>7. \A q \in InFlight' : sessions'[q].host \in Host
    BY <1>2, <1>3 DEF MemoryTypes, Others, InFlight
  <1>8. \A q \in Process : sessions'[q].phase = "idle" <=> loader'[q].phase = "idle"
    BY <1>2, <1>6 DEF MemoryTypes, Others
  <1> QED BY <1>2, <1>3, <1>4, <1>7, <1>8

LEMMA OverEffect ==
    ASSUME MemoryTypes, NEW p \in InFlight, Over(p), IdentityTypes
    PROVE  /\ sessions' \in [Process -> SessionTypes] /\ Others(p)
           /\ InFlight' = InFlight \ {p} /\ Connects' = Connects \ {p}
           /\ \A q \in InFlight' : sessions'[q].host \in Host
           /\ \A q \in Process : sessions'[q].phase = "idle" <=> loader'[q].phase = "idle"
  <1>1. p \in Process /\ sessions' = [sessions EXCEPT ![p] = NoSession]
        /\ loader' = [loader EXCEPT ![p] = Outside]
    BY DEF Over, Leaves, InFlight
  <1>2. /\ sessions' \in [Process -> SessionTypes] /\ sessions'[p].phase = "idle" /\ Others(p)
    BY <1>1, NoSessionType DEF MemoryTypes, Others
  <1>3. InFlight' = InFlight \ {p}
    BY <1>1, <1>2 DEF InFlight, Others
  <1>4. Connects' = Connects \ {p}
    BY <1>2, <1>3 DEF Connects, Others, InFlight
  <1>5. loader'[p].phase = "idle" /\ \A q \in Process \ {p} : loader'[q] = loader[q]
    BY <1>1, OutsideTypes DEF IdentityTypes
  <1>6. \A q \in InFlight' : sessions'[q].host \in Host
    BY <1>2, <1>3 DEF MemoryTypes, Others, InFlight
  <1>7. \A q \in Process : sessions'[q].phase = "idle" <=> loader'[q].phase = "idle"
    BY <1>1, <1>2, <1>5 DEF MemoryTypes, Others
  <1> QED BY <1>2, <1>3, <1>4, <1>6, <1>7

\* A session that goes on keeps its copy, its host and who began it.
GoesOn(p) ==
    /\ p \in InFlight /\ sessions' \in [Process -> SessionTypes] /\ Others(p)
    /\ sessions'[p].cfg = sessions[p].cfg /\ sessions'[p].host = sessions[p].host
    /\ sessions'[p].by = sessions[p].by /\ sessions'[p].phase # "idle"

LEMMA GoesOnEffect ==
    ASSUME MemoryTypes, NEW p \in Process, GoesOn(p), loader' = loader
    PROVE  /\ InFlight' = InFlight /\ Connects' = Connects
           /\ \A q \in InFlight' : sessions'[q].host \in Host
           /\ \A q \in Process : sessions'[q].phase = "idle" <=> loader'[q].phase = "idle"
  <1>1. InFlight' = InFlight
    BY DEF GoesOn, InFlight, Others
  <1>2. Connects' = Connects
    BY <1>1 DEF GoesOn, Connects, Others, InFlight
  <1> QED BY <1>1, <1>2 DEF GoesOn, MemoryTypes, Others, InFlight

LEMMA H1ForType ==
    ASSUME MemoryTypes, NEW p \in InFlight, NEW x \in H1For(sessions[p])
    PROVE  x \in H1
  <1> DEFINE s == sessions[p]
  <1>1. s.host \in Host /\ s.cfg \in Config
    BY DEF MemoryTypes, InFlight, SessionTypes
  <1>2. served[s.host] \in 0..MaxSalt /\ s.cfg[s.host].h1 \in H1 \cup {None}
    BY <1>1 DEF MemoryTypes, Config, Entry
  <1>3. \A w \in Word : [word |-> w, salt |-> served[s.host]] \in H1
    BY <1>2 DEF H1
  <1> QED BY <1>2, <1>3 DEF H1For

LEMMA ResolvesEffect ==
    ASSUME MemoryTypes, NEW p \in Process, Resolves(p)
    PROVE  /\ GoesOn(p) /\ loader' = loader
           /\ \/ sessions'[p].phase = "save" /\ sessions'[p].h1 = None
              \/ sessions'[p].phase = "pair"
  <1> DEFINE s == sessions[p]
  <1>1. s.phase = "new" /\ p \in InFlight /\ loader' = loader
    BY DEF Resolves, InFlight, identityVars
  <1>2. PICK to \in [phase : {"save"}, h1 : {None}] \cup [phase : {"pair"}, h1 : H1For(s)] :
           sessions' = [sessions EXCEPT ![p].phase = to.phase, ![p].h1 = to.h1,
                                        ![p].may_type = FALSE]
    BY DEF Resolves
  <1>3. /\ to.phase \in {"save", "pair"} /\ to.h1 \in H1 \cup {None}
        /\ to.phase = "save" => to.h1 = None
    BY <1>1, H1ForType
  <1> DEFINE t == [s EXCEPT !.phase = to.phase, !.h1 = to.h1, !.may_type = FALSE]
  <1>4. s \in SessionTypes /\ sessions' = [sessions EXCEPT ![p] = t]
    BY <1>2 DEF MemoryTypes, SessionTypes
  <1> HIDE DEF s
  <1>5. ASSUME NEW phase \in {"save", "pair"}, NEW x \in H1 \cup {None},
               to.phase = phase, to.h1 = x
        PROVE  /\ t \in SessionTypes /\ t.phase = phase /\ t.h1 = x /\ t.cfg = s.cfg
               /\ t.host = s.host /\ t.by = s.by
    <2>1. t = [s EXCEPT !.phase = phase, !.h1 = x, !.may_type = FALSE]
      BY <1>5
    <2> HIDE DEF t
    <2> QED BY <1>4, <2>1 DEF SessionTypes
  <1>6. /\ t \in SessionTypes /\ t.phase = to.phase /\ t.h1 = to.h1 /\ t.cfg = s.cfg
        /\ t.host = s.host /\ t.by = s.by
    BY <1>3, <1>5
  <1> HIDE DEF t
  <1>7. sessions' \in [Process -> SessionTypes] /\ sessions'[p] = t /\ Others(p)
    BY <1>4, <1>6 DEF MemoryTypes, Others
  <1> QED BY <1>1, <1>3, <1>6, <1>7 DEF GoesOn, s

LEMMA PairsEffect ==
    ASSUME MemoryTypes, NEW p \in Process, Pairs(p)
    PROVE  /\ GoesOn(p) /\ loader' = loader
           /\ sessions'[p].phase = "save" /\ sessions'[p].h1 = agent[sessions[p].host]
  <1>1. /\ sessions[p].phase = "pair" /\ p \in InFlight /\ loader' = loader
        /\ sessions[p].h1 = agent[sessions[p].host]
        /\ sessions' = [sessions EXCEPT ![p].phase = "save"]
    BY DEF Pairs, InFlight, identityVars
  <1> QED BY <1>1 DEF GoesOn, MemoryTypes, SessionTypes, Others

Message == [kind : {"Prepared", "Error", "StreamEnded"}, host : Host \cup {None}]

PanelTypes ==
    /\ window \in [busy : BOOLEAN, stream : Stream \cup {None}, current : Host \cup {None}]
    /\ window.stream = None <=> window.current = None
    /\ msgs \in Seq(Message) /\ drawing \in BOOLEAN
    /\ \A i \in 1..Len(msgs) : msgs[i].kind = "Prepared" => msgs[i].host \in Host
    /\ streams \in [Stream -> {"none", "running"}]
    /\ history \in [begun : Nat, late : BOOLEAN, outside : BOOLEAN, forgotten : SUBSET Host]

ClientTypes == IdentityTypes /\ MemoryTypes /\ PanelTypes

\* The kinds of steps, as far as copies and what was forgotten are concerned.
Forgets(kept) == history'.forgotten = history.forgotten \ kept

SameCopies == UNCHANGED <<agent, served, file, shown>>

StaysStep ==
    /\ UNCHANGED <<agent, sessions>> /\ Forgets({})
    /\ served' \in [Host -> 0..MaxSalt]
    /\ file' \in {file, shown} /\ shown' \in {file, shown}
    /\ \A p \in Process : loader'[p].phase = "idle" <=> loader[p].phase = "idle"

GoesOnStep(p) ==
    /\ GoesOn(p) /\ loader' = loader /\ SameCopies /\ Forgets({})
    /\ sessions'[p].phase = "save" =>
          sessions'[p].h1 = None \/ sessions'[p].h1 = agent[sessions[p].host]

EndsStep(p) == p \in InFlight /\ Over(p) /\ SameCopies /\ Forgets({})

BeginsStep(p, s) ==
    /\ Begins(p, s) /\ s.phase = "new" /\ s.host \in Host /\ s.cfg \in {file, shown}
    /\ SameCopies /\ Forgets({s.host})

MemoryStep ==
    \/ StaysStep
    \/ \E h \in Host : OwnerSets(h) \/ Forget(h)
    \/ \E p \in Process : GoesOnStep(p) \/ EndsStep(p) \/ Saves(p)
    \/ \E p \in Process : \E s \in SessionTypes : BeginsStep(p, s)

LEMMA LoadsKeepsPhase ==
    ASSUME IdentityTypes, NEW p \in Process, LoaderStep(p), NEW q \in Process
    PROVE  loader'[q].phase = "idle" <=> loader[q].phase = "idle"
  <1>1. loader[p].phase # "idle"
    BY DEF LoaderStep, Looks, Generates, Truncates, Writes
  <1>2. ASSUME NEW ident, Got(p, ident) PROVE loader'[p].phase # "idle"
                                              /\ \A r \in Process \ {p} : loader'[r] = loader[r]
    BY <1>2, OutsideTypes DEF Got, IdentityTypes
  <1>3. loader'[p].phase # "idle" /\ \A r \in Process \ {p} : loader'[r] = loader[r]
    <2>1. CASE Looks(p)
      BY <1>2, <2>1 DEF Looks, IdentityTypes, LoaderTypes
    <2>2. CASE Generates(p)
      BY <2>2 DEF Generates, IdentityTypes, LoaderTypes
    <2>3. CASE Truncates(p)
      BY <2>3 DEF Truncates, IdentityTypes, LoaderTypes
    <2>4. CASE Writes(p)
      <3>1. CASE Len(loader[p].todo) > 1
        BY <2>4, <3>1 DEF Writes, IdentityTypes, LoaderTypes
      <3>2. CASE ~(Len(loader[p].todo) > 1)
        BY <1>2, <2>4, <3>2 DEF Writes
      <3> QED BY <3>1, <3>2
    <2> QED BY <2>1, <2>2, <2>3, <2>4 DEF LoaderStep
  <1> QED BY <1>1, <1>3

\* The three ways to begin a session.
LEMMA BeginsWhich ==
    ASSUME ClientTypes, NEW p \in Process,
           SwitchApp(p) \/ \E h \in Host : Command(p, h) \/ Connect(p, h)
    PROVE  \E s \in SessionTypes : BeginsStep(p, s)
  <1>1. ASSUME NEW by \in {"window", "command"}, NEW cfg \in {file, shown}, NEW h \in Host,
               NEW may_type \in BOOLEAN, Begins(p, Session(by, cfg, h, may_type)),
               SameCopies, Forgets({h})
        PROVE  \E s \in SessionTypes : BeginsStep(p, s)
    <2> DEFINE s == Session(by, cfg, h, may_type)
    <2>1. cfg \in Config
      BY DEF ClientTypes, MemoryTypes
    <2>2. s \in SessionTypes /\ s.phase = "new" /\ s.cfg = cfg /\ s.host = h
      BY <2>1, NewSession
    <2>3. Begins(p, s)
      BY <1>1
    <2> HIDE DEF s
    <2>4. BeginsStep(p, s)
      BY <1>1, <2>2, <2>3 DEF BeginsStep
    <2> QED BY <2>2, <2>4
  <1>2. ASSUME NEW h \in Host, Command(p, h) PROVE \E s \in SessionTypes : BeginsStep(p, s)
    <2>1. SameCopies /\ Forgets({h}) /\ Begins(p, Session("command", file, h, TRUE))
      BY <1>2 DEF Command, SameCopies, Forgets, theHosts, theWindow, Loaded, ClientTypes,
                  PanelTypes
    <2> QED BY <1>1, <2>1
  <1>3. ASSUME NEW h \in Host, NEW may_type \in BOOLEAN, NEW w, StartConnect(p, h, may_type, w)
        PROVE  \E s \in SessionTypes : BeginsStep(p, s)
    <2>1. SameCopies /\ Forgets({h}) /\ Begins(p, Session("window", shown, h, may_type))
      BY <1>3 DEF StartConnect, SameCopies, Forgets, theHosts, ClientTypes, PanelTypes
    <2> QED BY <1>1, <2>1
  <1>4. ASSUME NEW h \in Host, Connect(p, h) PROVE \E s \in SessionTypes : BeginsStep(p, s)
    BY <1>3, <1>4 DEF Connect
  <1>5. ASSUME SwitchApp(p) PROVE \E s \in SessionTypes : BeginsStep(p, s)
    <2>1. window.current \in Host
      BY <1>5 DEF SwitchApp, ClientTypes, PanelTypes
    <2> QED BY <1>3, <1>5, <2>1 DEF SwitchApp
  <1> QED BY <1>2, <1>4, <1>5

LEMMA NextMemoryStep == ClientTypes /\ [Next]_vars => MemoryStep
  <1> SUFFICES ASSUME ClientTypes, [Next]_vars PROVE MemoryStep
    OBVIOUS
  <1> USE DEF ClientTypes
  <1>1. CASE \E h \in Host : OwnerSets(h) \/ Registered(h) \/ Forget(h)
    <2>1. ASSUME NEW h \in Host, Registered(h) PROVE StaysStep
      <3>1. agent[h].salt \in 0..MaxSalt
        BY DEF MemoryTypes, H1
      <3>2. served' \in [Host -> 0..MaxSalt]
        BY <2>1, <3>1 DEF Registered, MemoryTypes
      <3> QED BY <2>1, <3>2 DEF Registered, StaysStep, Forgets, identityVars, theWindow
    <2> QED BY <1>1, <2>1 DEF MemoryStep
  <1>2. ASSUME NEW p \in Process, LoadsIdentity(p) PROVE StaysStep
    BY <1>2, LoadsKeepsPhase DEF LoadsIdentity, StaysStep, Forgets, theHosts, theWindow,
       MemoryTypes
  <1>3. ASSUME NEW p \in Process, Resolves(p) \/ Pairs(p) PROVE GoesOnStep(p)
    <2>1. SameCopies /\ Forgets({})
      BY <1>3 DEF Resolves, Pairs, SameCopies, Forgets, theHosts, theWindow
    <2> QED BY <1>3, <2>1, ResolvesEffect, PairsEffect DEF GoesOnStep
  <1>4. ASSUME NEW p \in Process, Fails(p) PROVE EndsStep(p)
    BY <1>4 DEF Fails, EndsStep, SameCopies, Forgets, theHosts
  <1>5. CASE TakesPrepared \/ TakesStreamEnded \/ TakesError
    <2>1. UNCHANGED <<agent, served, file, sessions, loader>> /\ shown' \in {file, shown}
      BY <1>5
      DEF TakesPrepared, Reloads, TakesStreamEnded, TakesError, Took, theHosts, identityVars,
          Loaded
    <2>2. Forgets({})
      BY <1>5 DEF TakesPrepared, Reloads, TakesStreamEnded, TakesError, Forgets, PanelTypes
    <2> QED BY <2>1, <2>2 DEF StaysStep, MemoryStep, MemoryTypes
  <1>6. CASE Disconnect \/ SaveSettings \/ \E s \in Stream : StreamEnds(s)
    <2>1. UNCHANGED <<agent, served, sessions, loader, shown>> /\ file' \in {file, shown}
      BY <1>6 DEF Disconnect, SaveSettings, StreamEnds, theHosts, identityVars, Written
    <2>2. Forgets({})
      BY <1>6 DEF Disconnect, SaveSettings, StreamEnds, Forgets, PanelTypes
    <2> QED BY <2>1, <2>2 DEF StaysStep, MemoryStep, MemoryTypes
  <1>7. CASE UNCHANGED vars
    BY <1>7 DEF vars, identityVars, StaysStep, MemoryStep, MemoryTypes, Forgets
  <1> QED BY <1>1, <1>2, <1>3, <1>4, <1>5, <1>6, <1>7, BeginsWhich DEF Next, MemoryStep

\* What a session leaves in the file: its copy, and of its own host either the h1 that
\* the host took, with that h1's salt, or what the copy had.
LEMMA SavesEffect ==
    ASSUME ClientTypes, NEW p \in Process, Saves(p)
    PROVE  LET s == sessions[p] IN
           /\ p \in InFlight /\ s.phase = "save" /\ Over(p)
           /\ s \in SessionTypes /\ s.host \in Host
           /\ UNCHANGED <<agent, served, shown>> /\ Forgets({})
           /\ file' \in Config /\ \A g \in Host \ {s.host} : file'[g] = s.cfg[g]
           /\ \/ /\ s.h1 # None /\ s.h1 \in H1
                 /\ file'[s.host].h1 = s.h1 /\ file'[s.host].salt = s.h1.salt
              \/ /\ file'[s.host].h1 = s.cfg[s.host].h1
                 /\ file'[s.host].salt = s.cfg[s.host].salt
  <1> DEFINE s == sessions[p]
  <1>1. /\ s.phase = "save" /\ Over(p) /\ p \in InFlight /\ UNCHANGED <<agent, served, shown>>
    BY DEF Saves, theHosts, InFlight
  <1>2. s \in SessionTypes /\ s.host \in Host /\ s.cfg \in Config /\ s.h1 \in H1 \cup {None}
    BY <1>1 DEF ClientTypes, MemoryTypes, SessionTypes
  <1>3. Forgets({})
    BY DEF Saves, Forgets, ClientTypes, PanelTypes
  <1>4. PICK remember \in BOOLEAN : file' = [s.cfg EXCEPT ![s.host] = Remembered(s, remember)]
    BY DEF Saves
  <1> HIDE DEF s
  <1>5. s.cfg[s.host] \in Entry
    BY <1>2 DEF Config
  <1>6. CASE s.h1 # None /\ remember
    <2>1. s.h1 \in H1 /\ s.h1.salt \in 0..MaxSalt
      BY <1>2, <1>6 DEF H1
    <2>2. Remembered(s, remember) = [known |-> TRUE, h1 |-> s.h1, salt |-> s.h1.salt]
      BY <1>6 DEF Remembered
    <2>3. Remembered(s, remember) \in Entry
      BY <2>1, <2>2 DEF Entry
    <2>4. /\ Remembered(s, remember).h1 = s.h1 /\ Remembered(s, remember).salt = s.h1.salt
      BY <2>2
    <2>5. /\ file' \in Config /\ file'[s.host] = Remembered(s, remember)
          /\ \A g \in Host \ {s.host} : file'[g] = s.cfg[g]
      BY <1>2, <1>4, <2>3 DEF Config
    <2> QED BY <1>1, <1>2, <1>3, <1>6, <2>1, <2>4, <2>5 DEF s
  <1>7. CASE ~(s.h1 # None /\ remember)
    <2> DEFINE e == [s.cfg[s.host] EXCEPT !.known = TRUE]
    <2>1. Remembered(s, remember) = e
      BY <1>7 DEF Remembered
    <2>2. e \in Entry /\ e.h1 = s.cfg[s.host].h1 /\ e.salt = s.cfg[s.host].salt
      BY <1>5 DEF Entry
    <2> HIDE DEF e
    <2>3. /\ file' \in Config /\ file'[s.host] = e
          /\ \A g \in Host \ {s.host} : file'[g] = s.cfg[g]
      BY <1>2, <1>4, <2>1, <2>2 DEF Config
    <2> QED BY <1>1, <1>2, <1>3, <2>2, <2>3 DEF s
  <1> QED BY <1>6, <1>7

LEMMA ForgetEffect ==
    ASSUME ClientTypes, NEW h \in Host, Forget(h)
    PROVE  /\ UNCHANGED <<agent, served, sessions, loader>>
           /\ file' = shown' /\ shown' \in Config
           /\ shown'[h] = Unknown /\ \A g \in Host \ {h} : shown'[g] = shown[g]
           /\ \A g \in history'.forgotten :
                 g \in history.forgotten \/ (g = h /\ InFlight = {})
           /\ history'.forgotten \subseteq Host
  <1>1. /\ UNCHANGED <<agent, served, sessions, loader>> /\ file' = shown'
        /\ shown' = [shown EXCEPT ![h] = Unknown]
    BY DEF Forget, theHosts, identityVars, Written
  <1>2. /\ shown' \in Config /\ shown'[h] = Unknown
        /\ \A g \in Host \ {h} : shown'[g] = shown[g]
    BY <1>1, UnknownType DEF ClientTypes, MemoryTypes, Config
  <1>3. history'.forgotten = IF InFlight = {} THEN history.forgotten \cup {h}
                             ELSE history.forgotten
    BY DEF Forget, ClientTypes, PanelTypes
  <1>4. history.forgotten \subseteq Host
    BY DEF ClientTypes, PanelTypes
  <1> QED BY <1>1, <1>2, <1>3, <1>4

LEMMA OwnerSetsEffect ==
    ASSUME ClientTypes, NEW h \in Host, OwnerSets(h)
    PROVE  /\ agent' \in [Host -> H1] /\ UNCHANGED <<served, file, shown, sessions, loader>>
           /\ Forgets({})
           /\ agent[h].salt < agent'[h].salt /\ \A g \in Host \ {h} : agent'[g] = agent[g]
  <1>1. PICK w \in Word, salt \in 1..MaxSalt :
           /\ \A n \in Salts : n < salt
           /\ agent' = [agent EXCEPT ![h] = [word |-> w, salt |-> salt]]
    BY DEF OwnerSets
  <1>2. [word |-> w, salt |-> salt] \in H1
    BY ClientAssumption DEF H1
  <1>3. agent[h].salt < salt
    BY <1>1 DEF Salts
  <1> QED BY <1>1, <1>2, <1>3 DEF OwnerSets, identityVars, theWindow, Forgets, ClientTypes,
             MemoryTypes, PanelTypes

LEMMA InitMemory == Init => MemoryTypes
  <1> SUFFICES ASSUME Init PROVE MemoryTypes
    OBVIOUS
  <1>1. 0 \in 0..MaxSalt /\ [h \in Host |-> Unknown] \in Config
    BY ClientAssumption, UnknownType DEF Config
  <1>2. agent \in [Host -> H1]
    BY <1>1 DEF Init, H1
  <1>3. sessions = [p \in Process |-> NoSession] /\ loader = [p \in Process |-> Outside]
    BY DEF Init, InitIdentity
  <1>4. InFlight = {}
    BY <1>3, NoSessionType DEF InFlight
  <1> QED BY <1>1, <1>2, <1>3, <1>4, NoSessionType, OutsideTypes DEF Init, MemoryTypes

LEMMA NextMemoryTypes ==
    ASSUME ClientTypes, MemoryStep
    PROVE  MemoryTypes'
  <1> USE DEF ClientTypes
  <1>1. CASE StaysStep
    BY <1>1 DEF StaysStep, MemoryTypes, InFlight
  <1>2. ASSUME NEW h \in Host, OwnerSets(h) PROVE MemoryTypes'
    BY <1>2, OwnerSetsEffect DEF MemoryTypes, InFlight
  <1>3. ASSUME NEW h \in Host, Forget(h) PROVE MemoryTypes'
    BY <1>3, ForgetEffect DEF MemoryTypes, InFlight
  <1>4. ASSUME NEW p \in Process, GoesOnStep(p) PROVE MemoryTypes'
    BY <1>4, GoesOnEffect DEF GoesOnStep, GoesOn, SameCopies, MemoryTypes
  <1>5. ASSUME NEW p \in Process, EndsStep(p) PROVE MemoryTypes'
    BY <1>5, OverEffect DEF EndsStep, SameCopies, MemoryTypes
  <1>6. ASSUME NEW p \in Process, Saves(p) PROVE MemoryTypes'
    BY <1>6, SavesEffect, OverEffect DEF MemoryTypes
  <1>7. ASSUME NEW p \in Process, NEW s \in SessionTypes, BeginsStep(p, s) PROVE MemoryTypes'
    BY <1>7, BeginsEffect DEF BeginsStep, SameCopies, MemoryTypes
  <1> QED BY <1>1, <1>2, <1>3, <1>4, <1>5, <1>6, <1>7 DEF MemoryStep

-----------------------------------------------------------------------------
(* What is remembered is right.                                            *)

\* An h1 of an earlier password of the host, or of the one it has.
Right(h1, h) ==
    h1 # None => h1.salt <= agent[h].salt /\ (h1.salt = agent[h].salt => h1 = agent[h])

RightEntry(e, h) == Right(e.h1, h) /\ (e.h1 # None => e.salt = e.h1.salt)

RightConfig(cfg) == \A h \in Host : RightEntry(cfg[h], h)

\* All copies are right, and so is what a session is about to remember.
RightInv ==
    /\ RightConfig(file) /\ RightConfig(shown)
    /\ \A p \in InFlight :
          /\ RightConfig(sessions[p].cfg)
          /\ sessions[p].phase = "save" => Right(sessions[p].h1, sessions[p].host)

LEMMA InitRight == Init => RightInv
  <1> SUFFICES ASSUME Init PROVE RightInv
    OBVIOUS
  <1>1. RightConfig([h \in Host |-> Unknown])
    BY UnknownType DEF RightConfig, RightEntry, Right
  <1>2. InFlight = {}
    BY NoSessionType DEF Init, InFlight
  <1> QED BY <1>1, <1>2 DEF Init, RightInv

LEMMA NextRight ==
    ASSUME ClientTypes, RightInv, MemoryStep
    PROVE  RightInv'
  <1>1. CASE StaysStep
    BY <1>1 DEF StaysStep, RightInv, RightConfig, RightEntry, Right, InFlight
  <1>2. ASSUME NEW h \in Host, OwnerSets(h) PROVE RightInv'
    <2>1. /\ agent[h].salt \in Nat /\ agent'[h].salt \in Nat /\ agent[h].salt < agent'[h].salt
          /\ \A g \in Host \ {h} : agent'[g] = agent[g]
      BY <1>2, OwnerSetsEffect, ClientAssumption DEF ClientTypes, MemoryTypes, H1
    <2>2. ASSUME NEW x \in H1 \cup {None}, NEW g \in Host, Right(x, g) PROVE Right(x, g)'
      <3>1. x # None => x.salt \in Nat
        BY ClientAssumption DEF H1
      <3>2. CASE g = h
        BY <2>1, <2>2, <3>1, <3>2 DEF Right
      <3>3. CASE g # h
        BY <2>1, <2>2, <3>3 DEF Right
      <3> QED BY <3>2, <3>3
    <2>3. ASSUME NEW cfg \in Config, RightConfig(cfg)
          PROVE  \A g \in Host : RightEntry(cfg[g], g)'
      <3>1. \A g \in Host : cfg[g].h1 \in H1 \cup {None}
        BY DEF Config, Entry
      <3> QED BY <2>2, <2>3, <3>1 DEF RightConfig, RightEntry
    <2>4. UNCHANGED <<file, shown, sessions>> /\ InFlight' = InFlight
      BY <1>2, OwnerSetsEffect DEF InFlight
    <2>5. \A p \in InFlight : /\ sessions[p].cfg \in Config /\ sessions[p].h1 \in H1 \cup {None}
                              /\ sessions[p].host \in Host
      BY DEF ClientTypes, MemoryTypes, SessionTypes, InFlight
    <2>6. RightConfig(file)' /\ RightConfig(shown)'
      BY <2>3, <2>4 DEF RightInv, RightConfig, ClientTypes, MemoryTypes
    <2>7. ASSUME NEW p \in InFlight
          PROVE  /\ RightConfig(sessions[p].cfg)'
                 /\ sessions'[p].phase = "save" => Right(sessions[p].h1, sessions[p].host)'
      BY <2>2, <2>3, <2>4, <2>5 DEF RightInv, RightConfig
    <2> QED BY <2>4, <2>6, <2>7 DEF RightInv
  <1>3. ASSUME NEW h \in Host, Forget(h) PROVE RightInv'
    <2>1. \A g \in Host : RightEntry(shown'[g], g)
      BY <1>3, ForgetEffect, UnknownType DEF RightInv, RightConfig, RightEntry, Right
    <2> QED BY <1>3, <2>1, ForgetEffect DEF RightInv, RightConfig, RightEntry, Right, InFlight
  <1>4. ASSUME NEW p \in Process, GoesOnStep(p) PROVE RightInv'
    <2>1. InFlight' = InFlight /\ p \in InFlight
      BY <1>4, GoesOnEffect DEF GoesOnStep, GoesOn, ClientTypes
    <2>2. \A h \in Host : Right(None, h) /\ Right(agent[h], h)
      BY ClientAssumption DEF Right, ClientTypes, MemoryTypes, H1
    <2>3. sessions[p].host \in Host
      BY <2>1 DEF ClientTypes, MemoryTypes
    <2> QED BY <1>4, <2>1, <2>2, <2>3
            DEF GoesOnStep, GoesOn, SameCopies, Others, RightInv, RightConfig, RightEntry, Right,
                InFlight
  <1>5. ASSUME NEW p \in Process, EndsStep(p) PROVE RightInv'
    BY <1>5, OverEffect
    DEF EndsStep, SameCopies, Others, RightInv, RightConfig, RightEntry, Right, InFlight,
        ClientTypes
  <1>6. ASSUME NEW p \in Process, Saves(p) PROVE RightInv'
    <2> DEFINE s == sessions[p]
    <2>1. s.host \in Host /\ RightConfig(s.cfg) /\ Right(s.h1, s.host)
      BY <1>6, SavesEffect DEF RightInv
    <2>2. \A h \in Host : RightEntry(file'[h], h)
      BY <1>6, <2>1, SavesEffect DEF RightConfig, RightEntry, Right
    <2>3. InFlight' = InFlight \ {p} /\ Others(p) /\ UNCHANGED <<agent, shown>>
      BY <1>6, SavesEffect, OverEffect DEF ClientTypes
    <2> QED BY <2>2, <2>3 DEF RightInv, RightConfig, RightEntry, Right, Others, InFlight
  <1>7. ASSUME NEW p \in Process, NEW s \in SessionTypes, BeginsStep(p, s) PROVE RightInv'
    BY <1>7, BeginsEffect
    DEF BeginsStep, SameCopies, Others, RightInv, RightConfig, RightEntry, Right, InFlight,
        ClientTypes
  <1> QED BY <1>1, <1>2, <1>3, <1>4, <1>5, <1>6, <1>7 DEF MemoryStep

LEMMA RightIsRemembered == ClientTypes /\ RightInv => RememberedIsRight
  BY DEF RightInv, RightConfig, RightEntry, Right, RememberedIsRight

-----------------------------------------------------------------------------
(* What was forgotten stays so.                                            *)

\* No copy knows a host that was forgotten, and no session is to it.
ForgottenInv ==
    \A h \in history.forgotten :
        /\ ~file[h].known /\ ~shown[h].known
        /\ \A p \in InFlight : ~sessions[p].cfg[h].known /\ sessions[p].host # h

LEMMA NextForgotten ==
    ASSUME ClientTypes, ForgottenInv, MemoryStep
    PROVE  ForgottenInv'
  <1> USE DEF ForgottenInv
  <1>1. CASE StaysStep
    BY <1>1 DEF StaysStep, Forgets, InFlight
  <1>2. ASSUME NEW h \in Host, OwnerSets(h) PROVE ForgottenInv'
    BY <1>2, OwnerSetsEffect DEF Forgets, InFlight
  <1>3. ASSUME NEW h \in Host, Forget(h) PROVE ForgottenInv'
    <2>1. InFlight' = InFlight /\ sessions' = sessions
      BY <1>3, ForgetEffect DEF InFlight
    <2> QED BY <1>3, <2>1, ForgetEffect, UnknownType
  <1>4. ASSUME NEW p \in Process, GoesOnStep(p) PROVE ForgottenInv'
    <2>1. InFlight' = InFlight /\ p \in InFlight
      BY <1>4, GoesOnEffect DEF GoesOnStep, GoesOn, ClientTypes
    <2> QED BY <1>4, <2>1 DEF GoesOnStep, GoesOn, SameCopies, Forgets, Others, InFlight
  <1>5. ASSUME NEW p \in Process, EndsStep(p) PROVE ForgottenInv'
    BY <1>5, OverEffect DEF EndsStep, SameCopies, Forgets, Others, InFlight, ClientTypes
  <1>6. ASSUME NEW p \in Process, Saves(p) PROVE ForgottenInv'
    <2>1. InFlight' = InFlight \ {p} /\ Others(p) /\ p \in InFlight
      BY <1>6, SavesEffect, OverEffect DEF ClientTypes
    <2>2. history.forgotten \subseteq Host
      BY DEF ClientTypes, PanelTypes
    <2>3. \A h \in history.forgotten : h # sessions[p].host /\ file'[h] = sessions[p].cfg[h]
      BY <1>6, <2>1, <2>2, SavesEffect
    <2>4. history'.forgotten = history.forgotten /\ shown' = shown
      BY <1>6, SavesEffect DEF Forgets
    <2> QED BY <2>1, <2>3, <2>4 DEF Others, InFlight
  <1>7. ASSUME NEW p \in Process, NEW s \in SessionTypes, BeginsStep(p, s) PROVE ForgottenInv'
    BY <1>7, BeginsEffect DEF BeginsStep, SameCopies, Forgets, Others, InFlight, ClientTypes
  <1> QED BY <1>1, <1>2, <1>3, <1>4, <1>5, <1>6, <1>7 DEF MemoryStep

-----------------------------------------------------------------------------
(* Messages to the window.                                                 *)

NoPrepared == \A i \in 1..Len(msgs) : msgs[i].kind # "Prepared"

PreparedHasHost == \A i \in 1..Len(msgs) : msgs[i].kind = "Prepared" => msgs[i].host \in Host

LEMMA NoMessage == ASSUME PanelTypes PROVE msgs = <<>> <=> Len(msgs) = 0
  <1>1. Len(<<>>) = 0 /\ (msgs # <<>> => Len(msgs) # 0)
    BY EmptySeq DEF PanelTypes
  <1> QED BY <1>1

LEMMA SendsEffect ==
    ASSUME PanelTypes, NEW kind \in {"Prepared", "Error", "StreamEnded"},
           NEW h \in Host \cup {None}, kind = "Prepared" => h \in Host, Sends(kind, h)
    PROVE  /\ msgs' \in Seq(Message) /\ Len(msgs') = Len(msgs) + 1 /\ Len(msgs) \in Nat
           /\ msgs' # <<>> /\ msgs'[Len(msgs')].kind = kind
           /\ PreparedHasHost' /\ drawing' \in BOOLEAN
           /\ NoPrepared' => NoPrepared /\ kind # "Prepared"
  <1> DEFINE m == [kind |-> kind, host |-> h]
  <1>1. m \in Message /\ m.kind = kind /\ m.host = h
    BY DEF Message
  <1>2. msgs' = Append(msgs, m) /\ msgs \in Seq(Message) /\ Len(msgs) \in Nat
    BY LenProperties DEF Sends, PanelTypes
  <1> HIDE DEF m
  <1>3. /\ msgs' \in Seq(Message) /\ Len(msgs') = Len(msgs) + 1 /\ msgs' # <<>>
        /\ msgs'[Len(msgs) + 1] = m /\ \A i \in 1..Len(msgs) : msgs'[i] = msgs[i]
    BY <1>1, <1>2, AppendProperties
  <1>4. drawing' \in BOOLEAN
    BY DEF Sends, PanelTypes
  <1>5. 1..Len(msgs') = 1..Len(msgs) \cup {Len(msgs) + 1}
    BY <1>2, <1>3
  <1>6. PreparedHasHost'
    BY <1>1, <1>3, <1>5 DEF PreparedHasHost, PanelTypes
  <1>7. NoPrepared' => NoPrepared /\ kind # "Prepared"
    BY <1>1, <1>3, <1>5 DEF NoPrepared
  <1> QED BY <1>1, <1>2, <1>3, <1>4, <1>6, <1>7

LEMMA TookEffect ==
    ASSUME PanelTypes, NEW kind, Took(kind)
    PROVE  /\ msgs' \in Seq(Message) /\ Len(msgs') = Len(msgs) - 1 /\ Len(msgs) \in Nat
           /\ msgs # <<>> /\ Head(msgs) = msgs[1] /\ msgs[1].kind = kind /\ msgs[1] \in Message
           /\ kind = "Prepared" => msgs[1].host \in Host
           /\ PreparedHasHost' /\ ~drawing' /\ drawing' \in BOOLEAN
           /\ NoPrepared' /\ kind # "Prepared" => NoPrepared
           /\ UNCHANGED <<agent, served, file, sessions>>
  <1>1. /\ msgs # <<>> /\ msgs \in Seq(Message) /\ msgs' = Tail(msgs) /\ ~drawing'
        /\ drawing' \in BOOLEAN /\ Head(msgs).kind = kind
    BY DEF Took, PanelTypes
  <1>2. Len(msgs) \in Nat /\ Len(msgs) # 0
    BY <1>1, LenProperties, EmptySeq
  <1>3. /\ msgs' \in Seq(Message) /\ Len(msgs') = Len(msgs) - 1
        /\ \A i \in 1..Len(msgs') : msgs'[i] = msgs[i + 1]
    BY <1>1, HeadTailProperties
  <1>4. Head(msgs) = msgs[1]
    BY <1>1
  <1>5. 1 \in 1..Len(msgs) /\ \A i \in 1..Len(msgs') : i + 1 \in 1..Len(msgs)
    BY <1>2, <1>3
  <1>6. msgs[1] \in Message
    BY <1>1, <1>5, ElementOfSeq
  <1>7. PreparedHasHost'
    BY <1>3, <1>5 DEF PreparedHasHost, PanelTypes
  <1>8. ASSUME NoPrepared', kind # "Prepared", NEW i \in 1..Len(msgs)
        PROVE  msgs[i].kind # "Prepared"
    <2>1. CASE i = 1
      BY <1>1, <1>4, <1>8, <2>1
    <2>2. CASE i # 1
      <3>1. i - 1 \in 1..Len(msgs') /\ i - 1 + 1 = i
        BY <1>2, <1>3, <2>2
      <3>2. msgs'[i - 1] = msgs[i]
        BY <1>3, <3>1
      <3> QED BY <1>8, <3>1, <3>2 DEF NoPrepared
    <2> QED BY <2>1, <2>2
  <1>9. kind = "Prepared" => msgs[1].host \in Host
    BY <1>1, <1>4, <1>5 DEF PanelTypes
  <1>10. UNCHANGED <<agent, served, file, sessions>>
    BY DEF Took, theHosts
  <1> QED BY <1>1, <1>2, <1>3, <1>4, <1>5, <1>6, <1>7, <1>8, <1>9, <1>10 DEF NoPrepared

-----------------------------------------------------------------------------
(* The kinds of steps, as far as the window is concerned.                  *)

RestsStep ==
    /\ UNCHANGED <<window, msgs, streams>> /\ history'.late = history.late
    /\ drawing' \in {drawing, FALSE} /\ Connects' = Connects

\* A connect ends, and says so.
AnswersStep(p) ==
    /\ p \in Connects /\ Connects' = Connects \ {p}
    /\ UNCHANGED <<window, streams>> /\ history'.late = history.late
    /\ \E kind \in {"Prepared", "Error"} : Sends(kind, sessions[p].host)

ConnectsStep(p, w) ==
    /\ Clicked([w EXCEPT !.busy = TRUE]) /\ Connects' = Connects \cup {p}
    /\ msgs' = msgs /\ (drawing \/ msgs = <<>>)
    /\ ~history'.late => ~history.late /\ \A i \in 1..Len(msgs) : msgs[i].kind # "StreamEnded"

PanelStep ==
    \/ RestsStep
    \/ \E p \in Process : \/ AnswersStep(p)
                          \/ /\ window.stream = None /\ ~window.busy
                             /\ ConnectsStep(p, window) /\ streams' = streams
                          \/ /\ window.stream # None
                             /\ ConnectsStep(p, StreamOver(window)) /\ streams' = LetGo(window)
    \/ TakesPrepared \/ TakesStreamEnded \/ TakesError \/ Disconnect
    \/ \E s \in Stream : StreamEnds(s)

HistoryTypes ==
    history' \in [begun : Nat, late : BOOLEAN, outside : BOOLEAN, forgotten : SUBSET Host]

LEMMA SameConnects == ASSUME sessions' = sessions PROVE Connects' = Connects
  BY DEF Connects, InFlight

\* A session that is over: a command's leaves the window alone, a connect answers.
LEMMA OverStep ==
    ASSUME ClientTypes, NEW p \in InFlight, Over(p), UNCHANGED <<window, streams>>,
           history'.late = history.late,
           NEW kind \in {"Prepared", "Error"}, Reports(sessions[p], kind)
    PROVE  PanelStep
  <1>1. Connects' = Connects \ {p} /\ p \in Process
    BY OverEffect DEF ClientTypes, InFlight
  <1>2. CASE sessions[p].by = "window"
    <2>1. p \in Connects /\ Sends(kind, sessions[p].host)
      BY <1>2 DEF Connects, Reports
    <2> QED BY <1>1, <2>1 DEF PanelStep, AnswersStep
  <1>3. CASE sessions[p].by # "window"
    <2>1. p \notin Connects /\ UNCHANGED <<msgs, drawing>>
      BY <1>3 DEF Connects, Reports
    <2> QED BY <1>1, <2>1 DEF PanelStep, RestsStep
  <1> QED BY <1>2, <1>3

LEMMA StartStep ==
    ASSUME ClientTypes, NEW p \in Process, NEW h \in Host, NEW may_type \in BOOLEAN, NEW w,
           StartConnect(p, h, may_type, w)
    PROVE  ConnectsStep(p, w)
  <1> DEFINE s == Session("window", shown, h, may_type)
  <1>1. s \in SessionTypes /\ s.phase = "new" /\ s.by = "window" /\ s.host = h /\ Begins(p, s)
    BY NewSession DEF StartConnect, ClientTypes, MemoryTypes
  <1> HIDE DEF s
  <1>2. Connects' = Connects \cup {p}
    BY <1>1, BeginsEffect DEF ClientTypes
  <1>3. ~history'.late => ~history.late /\ \A i \in 1..Len(msgs) : msgs[i].kind # "StreamEnded"
    BY DEF StartConnect, ClientTypes, PanelTypes
  <1> QED BY <1>2, <1>3 DEF StartConnect, ConnectsStep, Clicked

LEMMA NextPanelStep == ClientTypes /\ [Next]_vars => PanelStep
  <1> SUFFICES ASSUME ClientTypes, [Next]_vars PROVE PanelStep
    OBVIOUS
  <1>1. CASE \E h \in Host : OwnerSets(h) \/ Registered(h)
    BY <1>1, SameConnects DEF OwnerSets, Registered, theWindow, PanelStep, RestsStep
  <1>2. CASE SaveSettings \/ \E h \in Host : Forget(h)
    <2>1. history'.late = history.late
      BY <1>2 DEF SaveSettings, Forget, ClientTypes, PanelTypes
    <2> QED BY <1>2, <2>1, SameConnects DEF SaveSettings, Forget, Clicked, PanelStep, RestsStep
  <1>3. ASSUME NEW p \in Process, LoadsIdentity(p) PROVE PanelStep
    BY <1>3, SameConnects DEF LoadsIdentity, theWindow, PanelStep, RestsStep
  <1>4. ASSUME NEW p \in Process, Resolves(p) \/ Pairs(p) PROVE PanelStep
    <2>1. Connects' = Connects
      BY <1>4, ResolvesEffect, PairsEffect, GoesOnEffect DEF ClientTypes
    <2> QED BY <1>4, <2>1 DEF Resolves, Pairs, theWindow, PanelStep, RestsStep
  <1>5. ASSUME NEW p \in Process, Saves(p) PROVE PanelStep
    <2>1. history'.late = history.late
      BY <1>5 DEF Saves, ClientTypes, PanelTypes
    <2>2. p \in InFlight /\ Over(p) /\ Reports(sessions[p], "Prepared")
      BY <1>5 DEF Saves, InFlight
    <2> QED BY <1>5, <2>1, <2>2, OverStep DEF Saves
  <1>6. ASSUME NEW p \in Process, Fails(p) PROVE PanelStep
    <2>1. p \in InFlight /\ Over(p) /\ Reports(sessions[p], "Error")
      BY <1>6 DEF Fails, InFlight
    <2> QED BY <1>6, <2>1, OverStep DEF Fails
  <1>8. ASSUME NEW p \in Process, NEW h \in Host, Command(p, h) PROVE PanelStep
    <2>1. file \in Config /\ Begins(p, Session("command", file, h, TRUE))
      BY <1>8 DEF Command, Loaded, ClientTypes, MemoryTypes
    <2>2. ASSUME NEW may_type \in BOOLEAN, Begins(p, Session("command", file, h, may_type))
          PROVE  Connects' = Connects
      <3> DEFINE s == Session("command", file, h, may_type)
      <3>1. s \in SessionTypes /\ s.phase = "new" /\ s.by = "command" /\ s.host = h
        BY <2>1, NewSession
      <3>2. Begins(p, s)
        BY <2>2
      <3> HIDE DEF s
      <3> QED BY <3>1, <3>2, BeginsEffect DEF ClientTypes
    <2>4. Connects' = Connects
      BY <2>1, <2>2
    <2>3. history'.late = history.late
      BY <1>8 DEF Command, ClientTypes, PanelTypes
    <2> QED BY <1>8, <2>3, <2>4 DEF Command, theWindow, PanelStep, RestsStep
  <1>9. ASSUME NEW p \in Process, NEW h \in Host, Connect(p, h) PROVE PanelStep
    BY <1>9, StartStep DEF Connect, PanelStep
  <1>10. ASSUME NEW p \in Process, SwitchApp(p) PROVE PanelStep
    <2>1. window.current \in Host
      BY <1>10 DEF SwitchApp, ClientTypes, PanelTypes
    <2> QED BY <1>10, <2>1, StartStep DEF SwitchApp, PanelStep
  <1>11. CASE \/ TakesPrepared \/ TakesStreamEnded \/ TakesError \/ Disconnect
              \/ \E s \in Stream : StreamEnds(s)
    BY <1>11 DEF PanelStep
  <1>12. CASE UNCHANGED vars
    BY <1>12, SameConnects DEF vars, PanelStep, RestsStep
  <1> QED
    BY <1>1, <1>2, <1>3, <1>4, <1>5, <1>6, <1>8, <1>9, <1>10, <1>11, <1>12 DEF Next

LEMMA NextHistory == ClientTypes /\ [Next]_vars => HistoryTypes
  <1> SUFFICES ASSUME ClientTypes, [Next]_vars PROVE HistoryTypes
    OBVIOUS
  <1> USE DEF ClientTypes, PanelTypes, HistoryTypes
  <1>1. CASE history' = history
    BY <1>1
  <1>2. ASSUME NEW h \in Host, Forget(h) PROVE HistoryTypes
    BY <1>2 DEF Forget
  <1>3. CASE SaveSettings \/ TakesPrepared
    BY <1>3 DEF SaveSettings, TakesPrepared, Reloads
  <1>4. ASSUME NEW p \in Process, Saves(p) PROVE HistoryTypes
    BY <1>4 DEF Saves
  <1>5. ASSUME NEW p \in Process, NEW h \in Host, Command(p, h) PROVE HistoryTypes
    <2>1. history.begun + 1 \in Nat /\ history.forgotten \ {h} \in SUBSET Host
      OBVIOUS
    <2> QED BY <1>5, <2>1 DEF Command
  <1>6. ASSUME NEW p \in Process, NEW h, NEW may_type, NEW w, StartConnect(p, h, may_type, w)
        PROVE  HistoryTypes
    <2> DEFINE raced == history.late \/ \E i \in 1..Len(msgs) : msgs[i].kind = "StreamEnded"
    <2>1. /\ history.begun + 1 \in Nat /\ history.forgotten \ {h} \in SUBSET Host
          /\ raced \in BOOLEAN
      OBVIOUS
    <2>2. history' = [history EXCEPT !.begun = @ + 1, !.late = raced, !.forgotten = @ \ {h}]
      BY <1>6 DEF StartConnect
    <2> HIDE DEF raced
    <2> QED BY <2>1, <2>2
  <1>7. ASSUME NEW p \in Process, SwitchApp(p) \/ \E h \in Host : Connect(p, h)
        PROVE  HistoryTypes
    BY <1>6, <1>7 DEF SwitchApp, Connect
  <1>8. ASSUME NEW p \in Process, \/ LoadsIdentity(p) \/ Resolves(p) \/ Pairs(p) \/ Fails(p)
        PROVE  history' = history
    BY <1>8 DEF LoadsIdentity, Resolves, Pairs, Fails
  <1>9. CASE \/ \E h \in Host : OwnerSets(h) \/ Registered(h)
             \/ TakesStreamEnded \/ TakesError \/ Disconnect
             \/ \E s \in Stream : StreamEnds(s)
             \/ UNCHANGED vars
    BY <1>1, <1>9 DEF OwnerSets, Registered, TakesStreamEnded, TakesError, Disconnect,
                      StreamEnds, vars
  <1> QED BY <1>1, <1>2, <1>3, <1>4, <1>5, <1>7, <1>8, <1>9 DEF Next

LEMMA InitPanel == Init => PanelTypes
  <1>1. <<>> \in Seq(Message) /\ Len(<<>>) = 0
    BY EmptySeq
  <1> SUFFICES ASSUME Init PROVE PanelTypes
    OBVIOUS
  <1>2. window = [busy |-> FALSE, stream |-> None, current |-> None]
    BY DEF Init
  <1>3. history = [begun |-> 0, late |-> FALSE, outside |-> FALSE, forgotten |-> {}]
    BY DEF Init
  <1>4. /\ window \in [busy : BOOLEAN, stream : Stream \cup {None}, current : Host \cup {None}]
        /\ window.stream = None <=> window.current = None
    BY <1>2
  <1>5. history \in [begun : Nat, late : BOOLEAN, outside : BOOLEAN, forgotten : SUBSET Host]
    BY <1>3
  <1>6. msgs = <<>> /\ drawing = FALSE /\ streams = [s \in Stream |-> "none"]
    BY DEF Init
  <1>7. streams \in [Stream -> {"none", "running"}] /\ drawing \in BOOLEAN
    BY <1>6
  <1>8. msgs \in Seq(Message) /\ 1..Len(msgs) = {}
    BY <1>1, <1>6
  <1> QED BY <1>4, <1>5, <1>7, <1>8 DEF PanelTypes

LEMMA NextPanelTypes ==
    ASSUME ClientTypes, PanelStep, HistoryTypes
    PROVE  PanelTypes'
  <1> USE ClientAssumption DEF ClientTypes
  <1>1. CASE RestsStep
    BY <1>1 DEF RestsStep, PanelTypes, HistoryTypes
  <1>2. ASSUME NEW p \in Process, AnswersStep(p) PROVE PanelTypes'
    <2>1. PICK kind \in {"Prepared", "Error"} : Sends(kind, sessions[p].host)
      BY <1>2 DEF AnswersStep
    <2>2. sessions[p].host \in Host
      BY <1>2 DEF AnswersStep, Connects, MemoryTypes
    <2>3. msgs' \in Seq(Message) /\ PreparedHasHost' /\ drawing' \in BOOLEAN
      BY <2>1, <2>2, SendsEffect
    <2> QED BY <1>2, <2>3 DEF AnswersStep, PanelTypes, PreparedHasHost, HistoryTypes
  <1>3. ASSUME NEW p \in Process, NEW w, ConnectsStep(p, w),
               streams' \in [Stream -> {"none", "running"}],
               w \in [busy : BOOLEAN, stream : Stream \cup {None}, current : Host \cup {None}],
               w.stream = None <=> w.current = None
        PROVE  PanelTypes'
    BY <1>3 DEF ConnectsStep, Clicked, PanelTypes, HistoryTypes
  <1>4. /\ StreamOver(window) \in [busy : BOOLEAN, stream : Stream \cup {None},
                                   current : Host \cup {None}]
        /\ StreamOver(window).stream = None /\ StreamOver(window).current = None
        /\ ~StreamOver(window).busy
    BY DEF StreamOver, PanelTypes
  <1>5. LetGo(window) \in [Stream -> {"none", "running"}]
    BY DEF LetGo, PanelTypes
  <1>6. CASE TakesPrepared
    <2>1. /\ msgs' \in Seq(Message) /\ PreparedHasHost' /\ drawing' \in BOOLEAN
          /\ Head(msgs).host \in Host
      BY <1>6, TookEffect DEF TakesPrepared
    <2>2. ASSUME NEW s \in Stream, streams' = [streams EXCEPT ![s] = "running"],
                 window' = [window EXCEPT !.stream = s, !.current = Head(msgs).host]
          PROVE  PanelTypes'
      BY <2>1, <2>2 DEF PanelTypes, PreparedHasHost, HistoryTypes
    <2>3. ASSUME window' = [window EXCEPT !.busy = FALSE], streams' = streams PROVE PanelTypes'
      BY <2>1, <2>3 DEF PanelTypes, PreparedHasHost, HistoryTypes
    <2> QED BY <1>6, <2>2, <2>3 DEF TakesPrepared
  <1>7. CASE TakesStreamEnded \/ TakesError
    <2>1. msgs' \in Seq(Message) /\ PreparedHasHost' /\ drawing' \in BOOLEAN
      BY <1>7, TookEffect DEF TakesStreamEnded, TakesError
    <2>2. /\ window' \in [busy : BOOLEAN, stream : Stream \cup {None},
                          current : Host \cup {None}]
          /\ window'.stream = None <=> window'.current = None
      <3>1. CASE TakesStreamEnded
        BY <1>4, <3>1 DEF TakesStreamEnded
      <3>2. CASE TakesError
        BY <3>2 DEF TakesError, PanelTypes
      <3> QED BY <1>7, <3>1, <3>2
    <2> QED BY <1>7, <2>1, <2>2
            DEF TakesStreamEnded, TakesError, PanelTypes, PreparedHasHost, HistoryTypes
  <1>8. CASE Disconnect
    BY <1>4, <1>5, <1>8 DEF Disconnect, Clicked, PanelTypes, HistoryTypes
  <1>9. ASSUME NEW s \in Stream, StreamEnds(s) PROVE PanelTypes'
    <2>1. msgs' \in Seq(Message) /\ PreparedHasHost' /\ drawing' \in BOOLEAN
      BY <1>9, SendsEffect DEF StreamEnds
    <2> QED BY <1>9, <2>1 DEF StreamEnds, PanelTypes, PreparedHasHost, HistoryTypes
  <1>10. PanelTypes => /\ streams \in [Stream -> {"none", "running"}]
                       /\ window.stream = None <=> window.current = None
    BY DEF PanelTypes
  <1> QED BY <1>1, <1>2, <1>3, <1>4, <1>5, <1>6, <1>7, <1>8, <1>9, <1>10
          DEF PanelStep, PanelTypes

LEMMA InitClient == Init => ClientTypes
  BY InitIdentityTypes, InitMemory, InitPanel DEF ClientTypes, Init

LEMMA NextClient == ClientTypes /\ [Next]_vars => ClientTypes' /\ MemoryStep /\ PanelStep
  <1> SUFFICES ASSUME ClientTypes, [Next]_vars PROVE ClientTypes' /\ MemoryStep /\ PanelStep
    OBVIOUS
  <1>1. IdentityTypes'
    BY NextMovesIdentity, MoveIdentityTypes DEF ClientTypes
  <1>2. MemoryStep /\ PanelStep /\ HistoryTypes
    BY NextMemoryStep, NextPanelStep, NextHistory
  <1> QED BY <1>1, <1>2, NextMemoryTypes, NextPanelTypes DEF ClientTypes

\* The identity's files, what is remembered, the sessions and the panel have their
\* types; a process is in a session exactly while its loader is, and the window has a
\* current host exactly while it has a stream.
THEOREM ClientTypeCorrect == Spec => []TypeOK
  <1>1. Init => ClientTypes
    BY InitClient
  <1>2. ClientTypes /\ [Next]_vars => ClientTypes'
    BY NextClient
  <1>3. ClientTypes => TypeOK
    <2> SUFFICES ASSUME ClientTypes PROVE TypeOK
      OBVIOUS
    <2>1. IdentityTypeOK
      BY Todos DEF ClientTypes, IdentityTypes, LoaderTypes, IdentityTypeOK, Stored
    <2>2. ASSUME NEW p \in Process
          PROVE  /\ sessions[p].phase \in {"idle", "new", "pair", "save"}
                 /\ sessions[p].cfg \in [Host -> Entry]
                 /\ sessions[p].h1 \in H1 \cup {None}
                 /\ sessions[p].phase = "idle" <=> loader[p].phase = "idle"
      BY DEF ClientTypes, MemoryTypes, SessionTypes, Config
    <2> QED BY <2>1, <2>2 DEF TypeOK, ClientTypes, MemoryTypes, PanelTypes, Config
  <1> QED BY <1>1, <1>2, <1>3, PTL DEF Spec

\* An h1 that is remembered, or carried in a session's copy, with the salt of the host is
\* the one that its agent takes.
THEOREM RightRemembered == Spec => []RememberedIsRight
  <1>1. Init => ClientTypes /\ RightInv
    BY InitClient, InitRight
  <1>2. ClientTypes /\ RightInv /\ [Next]_vars => (ClientTypes /\ RightInv)'
    BY NextClient, NextRight
  <1>3. ClientTypes /\ RightInv => RememberedIsRight
    BY RightIsRemembered
  <1> QED BY <1>1, <1>2, <1>3, PTL DEF Spec

\* A host that was forgotten while no session was under way is in no copy that somebody
\* still saves, until somebody connects to it again.
THEOREM Forgotten == Spec => []ForgottenStays
  <1>1. Init => ClientTypes /\ ForgottenInv
    <2>1. Init => history.forgotten = {}
      BY DEF Init
    <2> QED BY <2>1, InitClient DEF ForgottenInv
  <1>2. ClientTypes /\ ForgottenInv /\ [Next]_vars => (ClientTypes /\ ForgottenInv)'
    BY NextClient, NextForgotten
  <1>3. ForgottenInv => ForgottenStays
    BY DEF ForgottenInv, ForgottenStays
  <1> QED BY <1>1, <1>2, <1>3, PTL DEF Spec

-----------------------------------------------------------------------------
(* The panel.                                                              *)

LEMMA NextBusy == ASSUME ClientTypes, BusyEnds, PanelStep PROVE BusyEnds'
  <1>1. CASE RestsStep
    BY <1>1 DEF RestsStep, BusyEnds
  <1>2. ASSUME NEW p \in Process, AnswersStep(p) PROVE BusyEnds'
    BY <1>2, SendsEffect DEF AnswersStep, BusyEnds, ClientTypes, MemoryTypes, Connects
  <1>3. ASSUME NEW p \in Process, NEW w, ConnectsStep(p, w) PROVE BusyEnds'
    BY <1>3 DEF ConnectsStep, BusyEnds
  <1>4. CASE TakesPrepared
    <2>1. ASSUME NEW s \in Stream, streams' = [streams EXCEPT ![s] = "running"],
                 window' = [window EXCEPT !.stream = s, !.current = Head(msgs).host]
          PROVE  BusyEnds'
      <3>1. window'.stream = s /\ s # None /\ streams'[s] = "running"
        BY <2>1, ClientAssumption DEF ClientTypes, PanelTypes
      <3> QED BY <3>1 DEF BusyEnds
    <2>2. ASSUME window' = [window EXCEPT !.busy = FALSE] PROVE BusyEnds'
      BY <2>2 DEF BusyEnds, ClientTypes, PanelTypes
    <2> QED BY <1>4, <2>1, <2>2 DEF TakesPrepared
  <1>5. CASE TakesStreamEnded \/ TakesError \/ Disconnect
    BY <1>5 DEF TakesStreamEnded, TakesError, Disconnect, Clicked, StreamOver, BusyEnds,
                ClientTypes, PanelTypes
  <1>6. ASSUME NEW s \in Stream, StreamEnds(s) PROVE BusyEnds'
    BY <1>6, SendsEffect DEF StreamEnds, BusyEnds, ClientTypes
  <1> QED BY <1>1, <1>2, <1>3, <1>4, <1>5, <1>6 DEF PanelStep

\* While the panel is busy there is something that will end it: every step that takes one
\* such thing away leaves another, or a panel that is not busy.
THEOREM Busy == Spec => []BusyEnds
  <1>1. Init => ClientTypes /\ BusyEnds
    <2>1. Init => ~window.busy
      BY DEF Init
    <2> QED BY <2>1, InitClient DEF BusyEnds
  <1>2. ClientTypes /\ BusyEnds /\ [Next]_vars => (ClientTypes /\ BusyEnds)'
    BY NextClient, NextBusy
  <1> QED BY <1>1, <1>2, PTL DEF Spec

\* As long as no app was switched while the end of a stream was on its way, the panel is
\* in one of six states: nothing is going on; a connect; its answer; a stream; its end;
\* and the end of a stream that was let go, which nothing may be started before.
Running == {s \in Stream : streams[s] = "running"}

Free == window.stream = None /\ ~window.busy
Waiting == window.stream = None /\ window.busy
Watching == window.stream \in Stream /\ window.busy

Nothing == Free /\ Connects = {} /\ msgs = <<>> /\ Running = {}
Connecting == Waiting /\ (\E p \in Process : Connects = {p}) /\ msgs = <<>> /\ Running = {}
Answered ==
    Waiting /\ Connects = {} /\ Len(msgs) = 1 /\ msgs[1].kind # "StreamEnded" /\ Running = {}
Streaming == Watching /\ Connects = {} /\ msgs = <<>> /\ Running = {window.stream}
AtAnEnd == Connects = {} /\ Len(msgs) = 1 /\ msgs[1].kind = "StreamEnded" /\ Running = {}
Ended == Watching /\ AtAnEnd
Dropped == Free /\ AtAnEnd /\ ~drawing

PanelState == Nothing \/ Connecting \/ Answered \/ Streaming \/ Ended \/ Dropped

PanelInv ==
    /\ drawing => msgs # <<>>
    /\ ~history.late => PanelState

LEMMA FirstMessage ==
    ASSUME PanelTypes
    PROVE  /\ \A kind \in {"Prepared", "Error", "StreamEnded"}, h \in Host \cup {None} :
                 /\ msgs = <<>> /\ Sends(kind, h) /\ (kind = "Prepared" => h \in Host)
                 => Len(msgs') = 1 /\ msgs'[1].kind = kind
           /\ \A kind : Took(kind) => msgs # <<>> /\ msgs[1].kind = kind
                                      /\ (Len(msgs) = 1 => msgs' = <<>>) /\ ~drawing'
           /\ Len(msgs) = 1 => msgs # <<>>
  <1>1. ASSUME NEW kind \in {"Prepared", "Error", "StreamEnded"}, NEW h \in Host \cup {None},
               msgs = <<>>, Sends(kind, h), kind = "Prepared" => h \in Host
        PROVE  Len(msgs') = 1 /\ msgs'[1].kind = kind
    <2>1. Len(msgs) = 0
      BY <1>1, NoMessage
    <2>2. Len(msgs') = Len(msgs) + 1 /\ msgs'[Len(msgs)'].kind = kind
      BY <1>1, SendsEffect
    <2> QED BY <2>1, <2>2
  <1>2. ASSUME NEW kind, Took(kind)
        PROVE  msgs # <<>> /\ msgs[1].kind = kind /\ (Len(msgs) = 1 => msgs' = <<>>) /\ ~drawing'
    <2>1. msgs' \in Seq(Message) /\ Len(msgs') = Len(msgs) - 1
      BY <1>2, TookEffect
    <2>2. Len(msgs) = 1 => msgs' = <<>>
      BY <2>1, EmptySeq
    <2> QED BY <1>2, <2>2, TookEffect
  <1> QED BY <1>1, <1>2, NoMessage

LEMMA NextPanel == ASSUME ClientTypes, PanelInv, PanelStep PROVE PanelInv'
  <1> USE DEF PanelInv
  <1>1. CASE RestsStep
    <2>1. drawing' => drawing
      BY <1>1 DEF RestsStep, ClientTypes, PanelTypes
    <2>2. /\ UNCHANGED <<window, msgs, streams>> /\ history'.late = history.late
          /\ Connects' = Connects
      BY <1>1 DEF RestsStep
    <2>3. Running' = Running
      BY <2>2 DEF Running
    <2> QED BY <2>1, <2>2, <2>3
            DEF PanelState, Nothing, Connecting, Answered, Streaming, Ended, Dropped, AtAnEnd,
                Free, Waiting, Watching
  <1>2. ASSUME NEW p \in Process, AnswersStep(p) PROVE PanelInv'
    <2>1. PICK kind \in {"Prepared", "Error"} : Sends(kind, sessions[p].host)
      BY <1>2 DEF AnswersStep
    <2>2. sessions[p].host \in Host /\ Connects # {} /\ Connects' = Connects \ {p}
          /\ p \in Connects
      BY <1>2 DEF AnswersStep, Connects, ClientTypes, MemoryTypes
    <2>3. msgs' # <<>> /\ UNCHANGED <<window, streams>> /\ history'.late = history.late
      BY <1>2, <2>1, <2>2, SendsEffect DEF AnswersStep, ClientTypes
    <2>4. CASE ~history.late
      <3>1. Connecting
        BY <2>2, <2>4 DEF PanelState, Nothing, Answered, Streaming, Ended, Dropped, AtAnEnd
      <3>2. Len(msgs') = 1 /\ msgs'[1].kind = kind
        BY <2>1, <2>2, <3>1, FirstMessage DEF Connecting, ClientTypes
      <3>3. Connects' = {}
        BY <2>2, <3>1 DEF Connecting
      <3>4. Answered'
        BY <2>3, <3>1, <3>2, <3>3 DEF Answered, Connecting, Waiting, Running
      <3> QED BY <2>3, <3>4 DEF PanelState
    <2> QED BY <2>3, <2>4
  <1>3. ASSUME NEW p \in Process, window.stream = None, ~window.busy, ConnectsStep(p, window),
               streams' = streams
        PROVE  PanelInv'
    <2>1. ~drawing' /\ window' = [window EXCEPT !.busy = TRUE] /\ msgs' = msgs
          /\ Connects' = Connects \cup {p} /\ (drawing \/ msgs = <<>>)
          /\ (~history'.late => ~history.late)
      BY <1>3 DEF ConnectsStep, Clicked
    <2>2. CASE ~history'.late
      <3>1. Nothing
        BY <1>3, <2>1, <2>2
        DEF PanelState, Connecting, Answered, Streaming, Ended, Dropped, AtAnEnd, Free,
            Waiting, Watching
      <3>2. Connecting'
        BY <1>3, <2>1, <3>1 DEF Connecting, Nothing, Waiting, Running, ClientTypes, PanelTypes
      <3> QED BY <2>1, <3>2 DEF PanelState
    <2> QED BY <2>1, <2>2
  <1>4. ASSUME NEW p \in Process, window.stream # None, ConnectsStep(p, StreamOver(window)),
               streams' = LetGo(window)
        PROVE  PanelInv'
    <2>1. ~drawing' /\ window' = [StreamOver(window) EXCEPT !.busy = TRUE] /\ msgs' = msgs
          /\ Connects' = Connects \cup {p} /\ (drawing \/ msgs = <<>>)
          /\ (~history'.late => /\ ~history.late
                                /\ \A i \in 1..Len(msgs) : msgs[i].kind # "StreamEnded")
      BY <1>4 DEF ConnectsStep, Clicked
    <2>2. CASE ~history'.late
      <3>1. Len(msgs) = 1 => msgs[1].kind # "StreamEnded"
        BY <2>1, <2>2
      <3>2. Streaming
        BY <1>4, <2>1, <2>2, <3>1
        DEF PanelState, Nothing, Connecting, Answered, Ended, Dropped, AtAnEnd, Free,
            Waiting, Watching
      <3>3. window'.stream = None /\ window'.busy
        BY <2>1 DEF StreamOver, ClientTypes, PanelTypes
      <3>4. Running' = {}
        BY <1>4, <3>2 DEF LetGo, Streaming, Watching, Running, ClientTypes, PanelTypes
      <3>5. Connecting'
        BY <2>1, <3>2, <3>3, <3>4 DEF Connecting, Streaming, Waiting
      <3> QED BY <2>1, <3>5 DEF PanelState
    <2> QED BY <2>1, <2>2
  <1>5. CASE TakesPrepared
    <2>1. Took("Prepared") /\ history'.late = history.late /\ sessions' = sessions
      BY <1>5 DEF TakesPrepared, Reloads, Took, ClientTypes, PanelTypes
    <2>2. /\ msgs # <<>> /\ msgs[1].kind = "Prepared" /\ ~drawing'
          /\ Len(msgs) = 1 => msgs' = <<>>
      BY <2>1, FirstMessage DEF ClientTypes
    <2>3. CASE ~history.late
      <3>1. Answered
        BY <2>2, <2>3 DEF PanelState, Nothing, Connecting, Streaming, Ended, Dropped, AtAnEnd
      <3>2. msgs' = <<>> /\ Connects' = {}
        BY <2>1, <2>2, <3>1, SameConnects DEF Answered
      <3>3. ASSUME NEW s \in Stream, streams' = [streams EXCEPT ![s] = "running"],
                   window' = [window EXCEPT !.stream = s, !.current = Head(msgs).host]
            PROVE  Streaming'
        <4>1. window'.stream = s /\ window'.busy
          BY <3>1, <3>3 DEF Answered, Waiting, ClientTypes, PanelTypes
        <4>2. Running' = {s}
          BY <3>1, <3>3 DEF Answered, Running, ClientTypes, PanelTypes
        <4> QED BY <3>2, <4>1, <4>2 DEF Streaming, Watching
      <3>4. ASSUME window' = [window EXCEPT !.busy = FALSE], streams' = streams PROVE Nothing'
        BY <3>1, <3>2, <3>4
        DEF Answered, Waiting, Nothing, Free, Running, ClientTypes, PanelTypes
      <3> QED BY <1>5, <2>2, <3>3, <3>4 DEF TakesPrepared, PanelState
    <2> QED BY <2>1, <2>2, <2>3
  <1>6. CASE TakesStreamEnded
    <2>1. Took("StreamEnded") /\ history' = history /\ sessions' = sessions /\ streams' = streams
          /\ window' = StreamOver(window)
      BY <1>6 DEF TakesStreamEnded, Took
    <2>2. /\ msgs # <<>> /\ msgs[1].kind = "StreamEnded" /\ ~drawing'
          /\ Len(msgs) = 1 => msgs' = <<>>
      BY <2>1, FirstMessage DEF ClientTypes
    <2>3. CASE ~history.late
      <3>1. AtAnEnd
        BY <2>2, <2>3 DEF PanelState, Nothing, Connecting, Streaming, Answered, Ended, Dropped
      <3>2. msgs' = <<>> /\ Connects' = {} /\ Running' = {}
        BY <2>1, <2>2, <3>1, SameConnects DEF AtAnEnd, Running
      <3>3. window'.stream = None /\ ~window'.busy
        BY <2>1 DEF StreamOver, ClientTypes, PanelTypes
      <3> QED BY <2>2, <3>2, <3>3 DEF PanelState, Nothing, Free
    <2> QED BY <2>1, <2>2, <2>3
  <1>7. CASE TakesError
    <2>1. Took("Error") /\ history' = history /\ sessions' = sessions /\ streams' = streams
          /\ window' = [window EXCEPT !.busy = FALSE]
      BY <1>7 DEF TakesError, Took
    <2>2. msgs # <<>> /\ msgs[1].kind = "Error" /\ ~drawing' /\ (Len(msgs) = 1 => msgs' = <<>>)
      BY <2>1, FirstMessage DEF ClientTypes
    <2>3. CASE ~history.late
      <3>1. Answered
        BY <2>2, <2>3 DEF PanelState, Nothing, Connecting, Streaming, Ended, Dropped, AtAnEnd
      <3>2. msgs' = <<>> /\ Connects' = {} /\ Running' = {}
        BY <2>1, <2>2, <3>1, SameConnects DEF Answered, Running
      <3>3. window'.stream = None /\ ~window'.busy
        BY <2>1, <3>1 DEF Answered, Waiting, ClientTypes, PanelTypes
      <3> QED BY <2>2, <3>2, <3>3 DEF PanelState, Nothing, Free
    <2> QED BY <2>1, <2>2, <2>3
  <1>8. CASE Disconnect
    <2>1. /\ window.stream # None /\ ~drawing' /\ window' = StreamOver(window) /\ msgs' = msgs
          /\ history' = history /\ sessions' = sessions /\ streams' = LetGo(window)
      BY <1>8 DEF Disconnect, Clicked
    <2>2. CASE ~history.late
      <3>1. Streaming \/ Ended
        BY <2>1, <2>2 DEF PanelState, Nothing, Connecting, Answered, Dropped, Free, Waiting
      <3>2. window'.stream = None /\ ~window'.busy /\ Connects' = Connects
        BY <2>1, SameConnects DEF StreamOver, ClientTypes, PanelTypes
      <3>3. Running' = {}
        BY <2>1, <3>1
        DEF LetGo, Streaming, Ended, AtAnEnd, Watching, Running, ClientTypes, PanelTypes
      <3> QED BY <2>1, <3>1, <3>2, <3>3
              DEF PanelState, Streaming, Ended, AtAnEnd, Nothing, Dropped, Free
    <2> QED BY <2>1, <2>2
  <1>9. ASSUME NEW s \in Stream, StreamEnds(s) PROVE PanelInv'
    <2>1. /\ streams[s] = "running" /\ streams' = [streams EXCEPT ![s] = "none"]
          /\ Sends("StreamEnded", None) /\ UNCHANGED <<sessions, window, history>>
      BY <1>9 DEF StreamEnds
    <2>2. msgs' # <<>>
      BY <2>1, SendsEffect DEF ClientTypes
    <2>3. CASE ~history.late
      <3>1. s \in Running
        BY <2>1 DEF Running
      <3>2. Streaming
        BY <2>3, <3>1 DEF PanelState, Nothing, Connecting, Answered, Ended, Dropped, AtAnEnd
      <3>3. Len(msgs') = 1 /\ msgs'[1].kind = "StreamEnded"
        BY <2>1, <3>2, FirstMessage DEF Streaming, ClientTypes
      <3>4. Running' = {} /\ Connects' = {}
        BY <2>1, <3>2, SameConnects DEF Streaming, Running, ClientTypes, PanelTypes
      <3> QED BY <2>1, <2>2, <3>2, <3>3, <3>4
              DEF PanelState, Streaming, Ended, AtAnEnd, Watching
    <2> QED BY <2>1, <2>2, <2>3
  <1> QED BY <1>1, <1>2, <1>3, <1>4, <1>5, <1>6, <1>7, <1>8, <1>9 DEF PanelStep

\* No stream runs that the window cannot disconnect, and it connects once at a time, as
\* long as no app was switched while the end of a stream was on its way.
THEOREM OneStreamAtATime == Spec => []OneStream
  <1>1. Init => ClientTypes /\ PanelInv
    <2> SUFFICES ASSUME Init PROVE PanelInv
      BY InitClient
    <2>1. window.stream = None /\ ~window.busy /\ msgs = <<>> /\ ~drawing
      BY DEF Init
    <2>2. Connects = {} /\ Running = {}
      BY NoSessionType DEF Init, Connects, InFlight, Running
    <2> QED BY <2>1, <2>2 DEF PanelInv, PanelState, Nothing, Free
  <1>2. ClientTypes /\ PanelInv /\ [Next]_vars => (ClientTypes /\ PanelInv)'
    BY NextClient, NextPanel
  <1>3. ClientTypes /\ PanelInv => OneStream
    <2> SUFFICES ASSUME ClientTypes, PanelState PROVE OneStream
      BY DEF PanelInv, OneStream
    <2>1. \A s \in Stream : streams[s] = "running" => window.stream = s
      BY DEF PanelState, Nothing, Connecting, Answered, Streaming, Ended, Dropped, AtAnEnd,
             Running
    <2>2. Connects # {} => Connecting
      BY DEF PanelState, Nothing, Answered, Streaming, Ended, Dropped, AtAnEnd
    <2>3. Cardinality(Connects) <= 1
      <3>1. CASE Connects = {}
        BY <3>1, FS_EmptySet
      <3>2. CASE Connects # {}
        <4>1. PICK p \in Process : Connects = {p}
          BY <2>2, <3>2 DEF Connecting
        <4>2. Cardinality({p}) = 1
          BY FS_Singleton
        <4> QED BY <4>1, <4>2
      <3> QED BY <3>1, <3>2
    <2> QED BY <2>1, <2>2, <2>3 DEF OneStream, Connecting, Waiting
  <1> QED BY <1>1, <1>2, <1>3, PTL DEF Spec

-----------------------------------------------------------------------------
(* The window's copy and the file.                                         *)

\* Only the save of a session makes the file differ from the copy; a connect then has its
\* answer on the way, and a command is remembered as having been outside.
LEMMA NextWindow ==
    ASSUME ClientTypes, WindowIsCurrent, [Next]_vars
    PROVE  WindowIsCurrent'
  <1>1. ASSUME UNCHANGED <<file, shown, history>>, NoPrepared' => NoPrepared
        PROVE  WindowIsCurrent'
    BY <1>1 DEF WindowIsCurrent, NoPrepared
  <1>2. ASSUME shown' = file' PROVE WindowIsCurrent'
    BY <1>2 DEF WindowIsCurrent
  <1>3. ASSUME UNCHANGED <<file, shown, msgs>>, ~history'.outside => ~history.outside
        PROVE  WindowIsCurrent'
    BY <1>3 DEF WindowIsCurrent
  <1>4. ASSUME NEW h \in Host, OwnerSets(h) \/ Registered(h) PROVE WindowIsCurrent'
    BY <1>3, <1>4 DEF OwnerSets, Registered, theWindow
  <1>5. ASSUME NEW h \in Host, Forget(h) PROVE WindowIsCurrent'
    BY <1>2, <1>5 DEF Forget, Written
  <1>6. ASSUME NEW p \in Process, LoadsIdentity(p) \/ Resolves(p) \/ Pairs(p)
        PROVE  WindowIsCurrent'
    BY <1>3, <1>6 DEF LoadsIdentity, Resolves, Pairs, theWindow
  <1>7. ASSUME NEW p \in Process, Saves(p) PROVE WindowIsCurrent'
    <2>1. CASE sessions[p].by = "window"
      <3>1. p \in InFlight /\ Sends("Prepared", sessions[p].host)
        BY <1>7, <2>1 DEF Saves, Reports, InFlight
      <3>2. sessions[p].host \in Host
        BY <3>1 DEF ClientTypes, MemoryTypes
      <3>3. ~NoPrepared'
        BY <3>1, <3>2, SendsEffect DEF ClientTypes
      <3> QED BY <3>3 DEF WindowIsCurrent, NoPrepared
    <2>2. CASE sessions[p].by # "window"
      <3>1. sessions[p].by = "command"
        BY <1>7, <2>2 DEF ClientTypes, MemoryTypes, SessionTypes
      <3>2. history'.outside
        BY <1>7, <3>1 DEF Saves, ClientTypes, PanelTypes
      <3> QED BY <3>2 DEF WindowIsCurrent
    <2> QED BY <2>1, <2>2
  <1>8. ASSUME NEW p \in Process, Fails(p) PROVE WindowIsCurrent'
    <2>1. CASE sessions[p].by = "window"
      <3>1. p \in InFlight /\ Sends("Error", sessions[p].host)
        BY <1>8, <2>1 DEF Fails, Reports, InFlight
      <3>2. sessions[p].host \in Host
        BY <3>1 DEF ClientTypes, MemoryTypes
      <3> QED BY <1>1, <1>8, <3>1, <3>2, SendsEffect DEF Fails, ClientTypes
    <2>2. CASE sessions[p].by # "window"
      BY <1>3, <1>8, <2>2 DEF Fails, Reports
    <2> QED BY <2>1, <2>2
  <1>9. ASSUME NEW p \in Process, NEW h \in Host, Command(p, h) PROVE WindowIsCurrent'
    <2>1. history'.outside = history.outside
      BY <1>9 DEF Command, ClientTypes, PanelTypes
    <2> QED BY <1>3, <1>9, <2>1 DEF Command, theWindow
  <1>10. ASSUME NEW p \in Process, NEW h, NEW may_type, NEW w, StartConnect(p, h, may_type, w)
         PROVE  WindowIsCurrent'
    <2>1. history'.outside = history.outside
      BY <1>10 DEF StartConnect, ClientTypes, PanelTypes
    <2> QED BY <1>3, <1>10, <2>1 DEF StartConnect
  <1>11. ASSUME NEW p \in Process, SwitchApp(p) \/ \E h \in Host : Connect(p, h)
         PROVE  WindowIsCurrent'
    BY <1>10, <1>11 DEF SwitchApp, Connect
  <1>12. CASE TakesPrepared
    <2>1. CASE shown' = Loaded
      BY <1>2, <1>12, <2>1 DEF TakesPrepared, Took, Loaded
    <2>2. CASE shown' # Loaded
      <3>1. history'.outside
        BY <1>12, <2>2 DEF TakesPrepared, Reloads, ClientTypes, PanelTypes
      <3> QED BY <3>1 DEF WindowIsCurrent
    <2> QED BY <2>1, <2>2
  <1>13. CASE TakesStreamEnded \/ TakesError
    BY <1>1, <1>13, TookEffect DEF TakesStreamEnded, TakesError, ClientTypes
  <1>14. CASE Disconnect
    BY <1>3, <1>14 DEF Disconnect
  <1>15. CASE SaveSettings
    BY <1>2, <1>15 DEF SaveSettings, Written
  <1>16. ASSUME NEW s \in Stream, StreamEnds(s) PROVE WindowIsCurrent'
    BY <1>1, <1>16, SendsEffect DEF StreamEnds, ClientTypes
  <1>17. CASE UNCHANGED vars
    BY <1>3, <1>17 DEF vars
  <1> QED BY <1>4, <1>5, <1>6, <1>7, <1>8, <1>9, <1>11, <1>12, <1>13, <1>14, <1>15, <1>16,
             <1>17 DEF Next

\* The window's copy is what is in the file, but for a connect that has saved and is about
\* to say so, a command that saved meanwhile and a file that did not load when it was read
\* again: what the window writes of its copy loses nothing else.
THEOREM WindowCopyIsCurrent == Spec => []WindowIsCurrent
  <1>1. Init => ClientTypes /\ WindowIsCurrent
    <2>1. Init => shown = file
      BY DEF Init
    <2> QED BY <2>1, InitClient DEF WindowIsCurrent
  <1>2. ClientTypes /\ WindowIsCurrent /\ [Next]_vars => (ClientTypes /\ WindowIsCurrent)'
    BY NextClient, NextWindow
  <1> QED BY <1>1, <1>2, PTL DEF Spec
=============================================================================
