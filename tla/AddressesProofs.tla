-------------------------- MODULE AddressesProofs --------------------------
(***************************************************************************)
(* The agent's loop and the addresses it tells, for all durations, batches *)
(* and routes: a lost call does not make the host look offline as long as  *)
(* the calls that may be lost in a row fit into OFFLINE_AFTER_SECS, and    *)
(* after two heartbeats the record is the one the host should have, and    *)
(* who can reach the host finds it.                                        *)
(***************************************************************************)
EXTENDS Addresses, FiniteSetTheorems, SequenceTheorems, TLAPS

-----------------------------------------------------------------------------
(* Type correctness of the loop.                                           *)

LEMMA SmallerOf ==
    ASSUME NEW a \in Nat, NEW b \in Nat
    PROVE  /\ Smaller(a, b) \in Nat /\ Smaller(a, b) <= a /\ Smaller(a, b) <= b
           /\ Smaller(a, b) = a \/ Smaller(a, b) = b
  BY DEF Smaller

LEMMA PowerType == ASSUME NEW n \in 0..6 PROVE 2 ^ n \in Nat
  <1> DEFINE Natural(k) == 2 ^ k \in Nat
  <1>1. 2 ^ 0 \in Nat /\ 2 ^ 1 \in Nat /\ 2 ^ 2 \in Nat /\ 2 ^ 3 \in Nat
    OBVIOUS
  <1>2. 2 ^ 4 \in Nat /\ 2 ^ 5 \in Nat /\ 2 ^ 6 \in Nat
    OBVIOUS
  <1>3. /\ Natural(0) /\ Natural(1) /\ Natural(2) /\ Natural(3) /\ Natural(4)
        /\ Natural(5) /\ Natural(6)
    BY <1>1, <1>2
  <1> HIDE DEF Natural
  <1>4. n \in {0, 1, 2, 3, 4, 5, 6}
    OBVIOUS
  <1>5. Natural(n)
    BY <1>3, <1>4
  <1> QED BY <1>5 DEF Natural

\* A backoff is a number of whole ticks of which all but the last fit into a
\* minute, however many passwords were wrong.
LEMMA DelayBound ==
    ASSUME NEW n \in Nat
    PROVE  Delay(n) \in Nat /\ (Delay(n) - 1) * TickSecs < 60
  <1> DEFINE secs == Smaller(2 ^ Smaller(n, 6), 60)
             rounded == (secs + TickSecs - 1) \div TickSecs
  <1>1. Smaller(n, 6) \in 0..6
    BY DEF Smaller
  <1>2. secs \in Nat /\ secs <= 60
    BY <1>1, PowerType, SmallerOf
  <1>3. Delay(n) = rounded
    BY DEF Delay
  <1>4. TickSecs \in Nat /\ TickSecs > 0
    BY LoopAssumption
  <1> HIDE DEF secs
  <1>5. secs + TickSecs - 1 \in Nat
    BY <1>2, <1>4
  <1>6. rounded \in Nat /\ rounded * TickSecs <= secs + TickSecs - 1
    BY <1>4, <1>5
  <1> HIDE DEF rounded
  <1>7. (rounded - 1) * TickSecs = rounded * TickSecs - TickSecs
    BY <1>4, <1>6
  <1>8. rounded * TickSecs \in Nat
    BY <1>4, <1>6
  <1> QED BY <1>2, <1>3, <1>4, <1>6, <1>7, <1>8

\* A batch is not empty while one of its requests is handled.
BatchInv == pc \in {"backoff", "pairing", "posting"} => batch > 0

LEMMA InitLoop == Init => TypeOK /\ BatchInv
  BY LoopAssumption DEF Init, TypeOK, BatchInv

LEMMA NextLoop == TypeOK /\ BatchInv /\ [Next]_vars => (TypeOK /\ BatchInv)'
  <1> SUFFICES ASSUME TypeOK, BatchInv, [Next]_vars PROVE (TypeOK /\ BatchInv)'
    OBVIOUS
  <1> USE LoopAssumption DEF TypeOK, BatchInv, Goto, NotHeard
  <1>1. CASE PollSent
    BY <1>1 DEF PollSent, Heard, Missed, CallTimeout
  <1>2. CASE PollReplied
    BY <1>2 DEF PollReplied
  <1>3. CASE PollReplyLost
    BY <1>3 DEF PollReplyLost, Missed, CallTimeout
  <1>4. CASE CallFailed
    BY <1>4 DEF CallFailed
  <1>5. CASE DealWrongPassword
    <2>1. failures + 1 \in Nat
      OBVIOUS
    <2>2. Smaller(failures + 1, 6) \in 0..6
      BY <2>1 DEF Smaller
    <2>3. Delay(failures + 1) \in Nat /\ (Delay(failures + 1) - 1) * TickSecs < 60
      BY <2>1, DelayBound
    <2> QED BY <1>5, <2>2, <2>3 DEF DealWrongPassword
  <1>6. CASE DealRightPassword
    BY <1>6 DEF DealRightPassword
  <1>7. CASE Dealt
    BY <1>7 DEF Dealt, CallTimeout
  <1>8. CASE Posted
    BY <1>8 DEF Posted
  <1>9. CASE Refused
    BY <1>9 DEF Refused, AfterRefusal
  <1>10. CASE Check
    BY <1>10 DEF Check
  <1>11. CASE RegisterHeard \/ RegisterMissed
    <2>1. known' \in BOOLEAN
      BY <1>11 DEF RegisterHeard, RegisterMissed
    <2>2. RegisterSent /\ (HeardInRecovery \/ Missed)
      BY <1>11 DEF RegisterHeard, RegisterMissed
    <2> QED BY <2>1, <2>2 DEF RegisterSent, HeardInRecovery, Missed, CallTimeout
  <1>12. CASE AdvertiseHeard \/ AdvertiseRefused \/ AdvertiseMissed
    BY <1>12 DEF AdvertiseHeard, AdvertiseRefused, AdvertiseMissed, Advertise, HeardInRecovery,
                 Missed, CallTimeout
  <1>13. CASE Reregistered
    BY <1>13 DEF Reregistered
  <1>14. CASE BeatHeard \/ BeatRefused \/ BeatUnanswered \/ BeatMissed
    BY <1>14 DEF BeatHeard, BeatRefused, BeatUnanswered, BeatMissed, BeatSent, Heard,
                 HeardUnanswered, Missed, CallTimeout
  <1>15. CASE Beaten
    BY <1>15 DEF Beaten
  <1>16. CASE Tick
    <2>1. left - 1 \in Nat
      BY <1>16 DEF Tick
    <2>2. Smaller(sinceBeat + 1, HeartbeatEvery) \in 0..HeartbeatEvery
          /\ Smaller(age + 1, OfflineAfter) \in 0..OfflineAfter
      BY DEF Smaller
    <2>3. (left - 1 - 1) * TickSecs = (left - 1) * TickSecs - TickSecs
          /\ (left - 1) * TickSecs \in Int
      BY <2>1
    <2> QED BY <1>16, <2>1, <2>2, <2>3 DEF Tick
  <1>17. CASE ServerRestarts
    <2>1. known' \in BOOLEAN
      BY <1>17 DEF ServerRestarts
    <2>2. pc = "polling" => CallTimeout - (PollWait - left) \in Nat
      BY DEF CallTimeout
    <2> QED BY <1>17, <2>1, <2>2 DEF ServerRestarts
  <1>18. CASE UNCHANGED vars
    BY <1>18 DEF vars
  <1> QED
    BY <1>1, <1>2, <1>3, <1>4, <1>5, <1>6, <1>7, <1>8, <1>9, <1>10, <1>11, <1>12, <1>13,
       <1>14, <1>15, <1>16, <1>17, <1>18
    DEF Next, AgentStep, PlainStep

\* The loop's variables keep their types, and a backoff its minute.
THEOREM LoopTypeCorrect == Spec => []TypeOK
  BY InitLoop, NextLoop, PTL DEF Spec

-----------------------------------------------------------------------------
(* How long the server may not have heard of a host.  What a lost call may *)
(* cost is its timeout and the pause after it.                             *)

Cost(n) == n * (HttpTimeout + ErrorPause)

LEMMA CostOf ==
    /\ Cost(0) = 0
    /\ \A n \in Nat : Cost(n) \in Nat /\ Cost(n + 1) = Cost(n) + HttpTimeout + ErrorPause
    /\ WithinBudget => \A n \in 0..MaxLost : Cost(n) < OfflineAfter
  <1> DEFINE one == HttpTimeout + ErrorPause
  <1>1. one \in Nat /\ MaxLost \in Nat /\ OfflineAfter \in Nat
    BY LoopAssumption
  <1>2. \A n : Cost(n) = n * one
    BY DEF Cost
  <1>3. one = HttpTimeout + ErrorPause /\ (WithinBudget => MaxLost * one < OfflineAfter)
    BY DEF WithinBudget
  <1> HIDE DEF one
  <1>4. ASSUME NEW n \in Nat PROVE Cost(n) \in Nat /\ Cost(n + 1) = Cost(n) + one
    BY <1>1, <1>2
  <1>5. ASSUME NEW n \in 0..MaxLost PROVE n * one <= MaxLost * one
    BY <1>1
  <1>6. ASSUME WithinBudget, NEW n \in 0..MaxLost PROVE Cost(n) < OfflineAfter
    <2>1. n * one \in Nat /\ MaxLost * one \in Nat
      BY <1>1
    <2> QED BY <1>1, <1>2, <1>3, <1>5, <1>6, <2>1
  <1>7. Cost(0) = 0 /\ HttpTimeout \in Nat /\ ErrorPause \in Nat
    BY <1>1, <1>2, LoopAssumption
  <1> QED BY <1>3, <1>4, <1>6, <1>7

\* Only a restarted server has not heard of the host, and has to be told.
RecoveryInv ==
    /\ pc \in {"refused", "register", "registering", "advertising"} => excuse = "restart"
    /\ ~known => excuse = "restart"

\* Without an excuse the silence is at most what the lost calls cost, counting
\* what the current await may still take.
BudgetInv ==
    excuse = "none" =>
        /\ pc \in {"poll", "polling", "lost", "pause", "deal", "beat", "beating"}
        /\ pc = "deal" => batch = 0
        /\ IF pc = "polling" THEN age + left <= PollWait
           ELSE age + left + (IF pc = "lost" THEN ErrorPause ELSE 0) <= Cost(lost)

SilenceInv == RecoveryInv /\ BudgetInv

LEMMA InitSilence == Init => SilenceInv
  BY CostOf DEF Init, SilenceInv, RecoveryInv, BudgetInv

LEMMA NextSilence == TypeOK /\ SilenceInv /\ [Next]_vars => SilenceInv'
  <1> SUFFICES ASSUME TypeOK, SilenceInv, [Next]_vars PROVE SilenceInv'
    OBVIOUS
  <1>1. /\ lost \in Nat /\ Cost(lost) \in Nat
        /\ Cost(lost + 1) = Cost(lost) + HttpTimeout + ErrorPause
        /\ Cost(1) = HttpTimeout + ErrorPause /\ Cost(0) = 0
    <2>1. Cost(0 + 1) = Cost(0) + HttpTimeout + ErrorPause /\ Cost(0) = 0
      BY CostOf
    <2>2. Cost(1) = HttpTimeout + ErrorPause
      BY <2>1, LoopAssumption
    <2> QED BY <2>1, <2>2, CostOf, LoopAssumption DEF TypeOK
  <1> USE LoopAssumption, <1>1
      DEF TypeOK, SilenceInv, RecoveryInv, BudgetInv, Goto, NotHeard, CallTimeout
  <1>2. CASE PollSent
    BY <1>2 DEF PollSent, Heard, Missed
  <1>3. CASE PollReplied
    BY <1>3 DEF PollReplied
  <1>4. CASE PollReplyLost
    BY <1>4 DEF PollReplyLost, Missed
  <1>5. CASE CallFailed
    BY <1>5 DEF CallFailed
  <1>6. CASE DealWrongPassword \/ DealRightPassword
    BY <1>6 DEF DealWrongPassword, DealRightPassword
  <1>7. CASE Dealt \/ Posted
    BY <1>7 DEF Dealt, Posted
  <1>8. CASE Refused
    BY <1>8 DEF Refused, AfterRefusal
  <1>9. CASE Check
    BY <1>9 DEF Check
  <1>10. CASE RegisterHeard \/ RegisterMissed
    BY <1>10 DEF RegisterHeard, RegisterMissed, RegisterSent, HeardInRecovery, Missed
  <1>11. CASE AdvertiseHeard \/ AdvertiseRefused \/ AdvertiseMissed
    BY <1>11 DEF AdvertiseHeard, AdvertiseRefused, AdvertiseMissed, Advertise,
                 HeardInRecovery, Missed
  <1>12. CASE Reregistered
    BY <1>12 DEF Reregistered
  <1>13. CASE BeatHeard \/ BeatRefused \/ BeatUnanswered \/ BeatMissed
    BY <1>13 DEF BeatHeard, BeatRefused, BeatUnanswered, BeatMissed, BeatSent, Heard,
                 HeardUnanswered, Missed
  <1>14. CASE Beaten
    BY <1>14 DEF Beaten
  <1>15. CASE Tick
    <2>1. Smaller(age + 1, OfflineAfter) <= age + 1 /\ Smaller(age + 1, OfflineAfter) \in Nat
      BY DEF Smaller
    <2> QED BY <1>15, <2>1 DEF Tick
  <1>16. CASE ServerRestarts
    BY <1>16 DEF ServerRestarts
  <1>17. CASE UNCHANGED vars
    BY <1>17 DEF vars
  <1> QED
    BY <1>2, <1>3, <1>4, <1>5, <1>6, <1>7, <1>8, <1>9, <1>10, <1>11, <1>12, <1>13, <1>14,
       <1>15, <1>16, <1>17
    DEF Next, AgentStep, PlainStep

\* If the calls that may be lost in a row fit into OFFLINE_AFTER_SECS, an agent that is
\* not at work on a request, and whose server did not restart, never looks offline.
THEOREM LostCall == WithinBudget => (Spec => []LostCallIsHarmless)
  <1> SUFFICES ASSUME WithinBudget PROVE Spec => []LostCallIsHarmless
    OBVIOUS
  <1>1. Init => TypeOK /\ BatchInv /\ SilenceInv
    BY InitLoop, InitSilence
  <1>2. TypeOK /\ BatchInv /\ SilenceInv /\ [Next]_vars => (TypeOK /\ BatchInv /\ SilenceInv)'
    BY NextLoop, NextSilence
  <1>3. TypeOK /\ SilenceInv => LostCallIsHarmless
    <2> SUFFICES ASSUME TypeOK, SilenceInv, age >= OfflineAfter, excuse = "none" PROVE FALSE
      BY DEF LostCallIsHarmless
    <2>1. Cost(lost) < OfflineAfter /\ PollWait < OfflineAfter
      BY CostOf DEF WithinBudget, TypeOK
    <2>2. Cost(lost) \in Nat
      BY CostOf, LoopAssumption DEF TypeOK
    <2> QED BY <2>1, <2>2, LoopAssumption DEF TypeOK, SilenceInv, BudgetInv
  <1> QED BY <1>1, <1>2, <1>3, PTL DEF Spec

-----------------------------------------------------------------------------
(* The addresses.  A moving host's loop is the loop above.                 *)

LEMMA MovingIsLooping == (InitMoving => Init) /\ ([NextMoving]_allVars => [Next]_vars)
  BY DEF InitMoving, NextMoving, AddressStep, Time, Moves, Restarts, Registers,
         RegistersInVain, SecondPass, RegisterEnds, Beats, BeatsUnanswered, BeatsInVain,
         BeatEnds, Next, AgentStep, allVars

AddressTypeInv ==
    /\ at \in 1..Len(Route)
    /\ observed \in Public
    /\ reply \in Public \cup {None}
    /\ published \in Records \cup {<<>>}
    /\ settled \in 0..2

LEMMA RouteFacts ==
    /\ Len(Route) \in Nat /\ 1 \in 1..Len(Route) /\ DOMAIN Route = 1..Len(Route)
    /\ \A i \in 1..Len(Route) : Route[i].public \in Public
    /\ None \notin Public
  <1>1. Len(Route) \in Nat /\ DOMAIN Route = 1..Len(Route) /\ Len(Route) # 0
    BY AddressAssumption, LenProperties, EmptySeq
  <1>2. \A i \in 1..Len(Route) : Route[i] \in ToSet(Route)
    BY <1>1 DEF ToSet
  <1>3. \A p \in ToSet(Route) : p.public # None
    BY AddressAssumption
  <1> QED BY <1>1, <1>2, <1>3 DEF Public

LEMMA RecordFacts ==
    \A i \in 1..Len(Route) : \A seen \in Public \cup {None} : Record[i][seen] \in Records
  BY RouteFacts DEF Records

LEMMA InitAddressTypes == InitMoving => AddressTypeInv
  <1> SUFFICES ASSUME InitMoving PROVE AddressTypeInv
    OBVIOUS
  <1>1. at \in 1..Len(Route) /\ observed \in Public
    BY RouteFacts DEF InitMoving, Here
  <1>2. published \in Records
    BY <1>1, RecordFacts DEF InitMoving, Here
  <1>3. reply = None /\ settled = 0
    BY DEF InitMoving
  <1> QED BY <1>1, <1>2, <1>3 DEF AddressTypeInv

LEMMA NextAddressTypes == AddressTypeInv /\ [NextMoving]_allVars => AddressTypeInv'
  <1> SUFFICES ASSUME AddressTypeInv, [NextMoving]_allVars PROVE AddressTypeInv'
    OBVIOUS
  <1>1. Here.public \in Public /\ Learned \in Public
    BY RouteFacts DEF AddressTypeInv, Here, Learned
  <1>2. \A seen \in Public \cup {None} : Record[at][seen] \in Records
    BY RecordFacts DEF AddressTypeInv
  <1> USE DEF AddressTypeInv, addresses, Publish, Answered, NotAnswered, Learns
  <1>3. CASE PlainStep /\ UNCHANGED addresses
    BY <1>3
  <1>4. CASE Registers \/ RegistersInVain
    BY <1>1, <1>2, <1>4 DEF Registers, RegistersInVain
  <1>5. CASE SecondPass \/ RegisterEnds
    BY <1>1, <1>2, <1>5 DEF SecondPass, RegisterEnds
  <1>6. CASE Beats \/ BeatsUnanswered
    <2>1. Smaller(settled + 1, 2) \in 0..2
      BY DEF Smaller
    <2> QED BY <1>1, <1>2, <1>6, <2>1 DEF Beats, BeatsUnanswered
  <1>7. CASE BeatsInVain \/ BeatEnds
    BY <1>1, <1>7 DEF BeatsInVain, BeatEnds
  <1>8. CASE Time
    BY <1>8 DEF Time
  <1>9. CASE Moves
    <2>1. at' \in 1..Len(Route)
      BY <1>9, RouteFacts DEF Moves
    <2> QED BY <1>9, <2>1 DEF Moves
  <1>10. CASE Restarts
    <2>1. Filed \subseteq Records \cup {<<>>}
      <3>1. 1..at \subseteq 1..Len(Route)
        BY RouteFacts
      <3>2. \A i \in 1..at : Route[i].public \in Public
        BY <3>1, RouteFacts
      <3>3. \A i \in 1..at, seen \in {None} \cup {Route[j].public : j \in 1..at} :
               Record[i][seen] \in Records
        BY <3>1, <3>2, RecordFacts
      <3> QED BY <3>3 DEF Filed
    <2> QED BY <1>10, <2>1 DEF Restarts
  <1>11. CASE UNCHANGED allVars
    BY <1>11 DEF allVars
  <1> QED
    BY <1>3, <1>4, <1>5, <1>6, <1>7, <1>8, <1>9, <1>10, <1>11 DEF NextMoving, AddressStep

\* With the addresses every variable keeps its type, whatever the route.
THEOREM AddressesTypeCorrect == MovingSpec => []AddressesTypeOK
  <1>1. InitMoving => TypeOK /\ BatchInv /\ AddressTypeInv
    BY InitLoop, InitAddressTypes, MovingIsLooping
  <1>2. TypeOK /\ BatchInv /\ AddressTypeInv /\ [NextMoving]_allVars
        => (TypeOK /\ BatchInv /\ AddressTypeInv)'
    BY NextLoop, NextAddressTypes, MovingIsLooping
  <1>3. TypeOK /\ AddressTypeInv => AddressesTypeOK
    BY DEF AddressTypeInv, AddressesTypeOK
  <1> QED BY <1>1, <1>2, <1>3, PTL DEF MovingSpec

-----------------------------------------------------------------------------
(* After two heartbeats the record is right.                               *)

\* Since the first heartbeat after a disturbance no registration is under way, so
\* that nothing is published that a heartbeat did not tell; its reply holds the
\* public address, and from the second one on the record has it.
SettledInv ==
    settled > 0 =>
        /\ known /\ pc \notin {"refused", "register", "registering", "advertising"}
        /\ reply \in {None, Here.public}
        /\ observed = Here.public \/ (reply = Here.public /\ pc = "beating")
        /\ settled = 2 => published = Truth

LEMMA NextSettled == AddressTypeInv /\ SettledInv /\ [NextMoving]_allVars => SettledInv'
  <1> SUFFICES ASSUME AddressTypeInv, SettledInv, [NextMoving]_allVars PROVE SettledInv'
    OBVIOUS
  <1>1. settled \in 0..2 /\ Here.public # None
    BY RouteFacts DEF AddressTypeInv, Here
  <1>2. at' = at => Here' = Here /\ Truth' = Truth
    BY DEF Here, Truth
  <1> USE <1>1, <1>2 DEF SettledInv, addresses, Publish, Answered, NotAnswered, Learns, Learned
  <1>3. CASE PlainStep /\ UNCHANGED addresses
    <2>1. known' = known
      BY <1>3 DEF PlainStep, PollSent, PollReplied, PollReplyLost, CallFailed,
          DealWrongPassword, DealRightPassword, Dealt, Posted, Refused, Check
    <2>2. known /\ pc' \in {"refused", "register"} => pc = "refused"
      BY <1>3 DEF PlainStep, PollSent, PollReplied, PollReplyLost, CallFailed,
          DealWrongPassword, DealRightPassword, Dealt, Posted, Refused, Check, Goto
    <2>3. pc # "beating" /\ pc' \notin {"registering", "advertising"}
      BY <1>3 DEF PlainStep, PollSent, PollReplied, PollReplyLost, CallFailed,
          DealWrongPassword, DealRightPassword, Dealt, Posted, Refused, Check, Goto,
          AfterRefusal
    <2> QED BY <1>3, <2>1, <2>2, <2>3
  <1>4. CASE Registers \/ RegistersInVain \/ SecondPass \/ RegisterEnds
    <2>1. pc \in {"register", "registering", "advertising"} /\ settled' = settled
      BY <1>4 DEF Registers, RegistersInVain, SecondPass, RegisterEnds, RegisterHeard,
          RegisterMissed, RegisterSent, AdvertiseHeard, AdvertiseRefused, AdvertiseMissed,
          Advertise, Reregistered
    <2> QED BY <2>1
  <1>5. CASE Beats
    <2>1. /\ pc = "beat" /\ known /\ pc' = "beating" /\ known' = known
          /\ at' = at /\ observed' = observed /\ reply' = Here.public
          /\ published' = Record[at][observed] /\ settled' = Smaller(settled + 1, 2)
      BY <1>5 DEF Beats, BeatHeard, BeatSent, Goto
    <2>2. settled' = 2 => settled > 0
      <3>1. settled = 0 => Smaller(settled + 1, 2) = 1
        BY DEF Smaller
      <3>2. settled = 0 => settled' = 1
        BY <2>1, <3>1
      <3> QED BY <3>2
    <2> QED BY <2>1, <2>2 DEF Truth
  <1>6. CASE BeatsUnanswered \/ BeatsInVain
    <2>1. /\ pc = "beat" /\ pc' = "beating" /\ known' = known
          /\ at' = at /\ observed' = observed /\ reply' = None /\ settled' = settled
          /\ published' = published \/ published' = Record[at][observed]
      BY <1>6 DEF BeatsUnanswered, BeatsInVain, BeatUnanswered, BeatRefused, BeatMissed,
                  BeatSent, Goto
    <2> QED BY <2>1 DEF Truth
  <1>7. CASE BeatEnds
    BY <1>7 DEF BeatEnds, Beaten, Goto
  <1>8. CASE Time
    BY <1>8 DEF Time, Tick
  <1>9. CASE Moves \/ Restarts
    BY <1>9 DEF Moves, Restarts
  <1>10. CASE UNCHANGED allVars
    BY <1>10 DEF allVars, vars
  <1> QED
    BY <1>3, <1>4, <1>5, <1>6, <1>7, <1>8, <1>9, <1>10 DEF NextMoving, AddressStep

\* Two heartbeats after the last move of the host and the last restart of the server
\* its record is what the agent would publish of where it is now.
THEOREM RecordSettles == MovingSpec => [](settled = 2 => known /\ published = Truth)
  <1>1. InitMoving => AddressTypeInv /\ SettledInv
    <2>1. InitMoving => settled = 0
      BY DEF InitMoving
    <2> QED BY <2>1, InitAddressTypes DEF SettledInv
  <1>2. AddressTypeInv /\ SettledInv /\ [NextMoving]_allVars => (AddressTypeInv /\ SettledInv)'
    BY NextAddressTypes, NextSettled
  <1>3. SettledInv => (settled = 2 => known /\ published = Truth)
    BY DEF SettledInv
  <1> QED BY <1>1, <1>2, <1>3, PTL DEF MovingSpec

\* A host that moves does not change what a lost call may do.
THEOREM MovingLostCall == WithinBudget => (MovingSpec => []LostCallIsHarmless)
  <1> SUFFICES ASSUME WithinBudget PROVE MovingSpec => []LostCallIsHarmless
    OBVIOUS
  <1>1. MovingSpec => Spec
    BY MovingIsLooping, PTL DEF MovingSpec, Spec
  <1> QED BY <1>1, LostCall, PTL

-----------------------------------------------------------------------------
(* What EndpointsOf lists.  Induction is by a least element, which the     *)
(* well-foundedness of strict inclusion of finite sets gives.              *)

LEMMA LeastNat == ASSUME NEW T \in SUBSET Nat, T # {} PROVE \E n \in T : \A m \in T : n <= m
  <1> DEFINE Below == {0..n : n \in T}
             R == StrictSubsetOrdering(Nat)
  <1>1. IsWellFoundedOn(R, FiniteSubsetsOf(Nat))
    BY FS_StrictSubsetOrderingWellFounded
  <1>2. Below \subseteq FiniteSubsetsOf(Nat) /\ Below # {}
    <2>1. \A n \in T : IsFiniteSet(0..n) /\ 0..n \subseteq Nat
      BY FS_Interval
    <2> QED BY <2>1 DEF FiniteSubsetsOf
  <1> HIDE DEF R, Below
  <1>3. PICK x \in Below : \A y \in Below : ~(<<y, x>> \in R)
    BY <1>1, <1>2, WFMin
  <1>4. PICK n \in T : x = 0..n
    BY DEF Below
  <1>5. ASSUME NEW m \in T, m < n PROVE FALSE
    <2>1. 0..m \in Below /\ 0..m \subseteq 0..n /\ 0..m # 0..n
      <3>1. n \in 0..n /\ n \notin 0..m /\ 0..m \subseteq 0..n
        BY <1>5
      <3> QED BY <3>1 DEF Below
    <2>2. <<0..m, 0..n>> \in R
      BY <2>1, <1>2, <1>4 DEF R, StrictSubsetOrdering, FiniteSubsetsOf
    <2> QED BY <1>3, <1>4, <2>1, <2>2
  <1> QED BY <1>5

\* Nth counts a finite set of numbers through, in their order.
LEMMA NthOf ==
    ASSUME NEW S \in SUBSET Nat, IsFiniteSet(S)
    PROVE  /\ Cardinality(S) \in Nat
           /\ \A k \in 1..Cardinality(S) : Nth(S, k) \in S
           /\ \A i \in S : \E k \in 1..Cardinality(S) : Nth(S, k) = i
  <1> DEFINE UpTo(i) == {j \in S : j <= i}
             pos == [i \in S |-> Cardinality(UpTo(i))]
             n == Cardinality(S)
  <1>1. n \in Nat
    BY FS_CardinalityType
  <1>2. ASSUME NEW i \in S
        PROVE  IsFiniteSet(UpTo(i)) /\ Cardinality(UpTo(i)) \in 1..n
    <2>1. UpTo(i) \in SUBSET S /\ i \in UpTo(i)
      OBVIOUS
    <2>2. IsFiniteSet(UpTo(i)) /\ Cardinality(UpTo(i)) <= n
      BY <2>1, FS_Subset
    <2>3. Cardinality(UpTo(i)) \in Nat /\ Cardinality(UpTo(i)) # 0
      BY <2>1, <2>2, FS_CardinalityType, FS_EmptySet
    <2> HIDE DEF UpTo, n
    <2> QED BY <1>1, <2>2, <2>3
  <1>3. ASSUME NEW i \in S, NEW j \in S, i < j PROVE Cardinality(UpTo(i)) # Cardinality(UpTo(j))
    <2>1. UpTo(i) \in SUBSET UpTo(j) /\ j \in UpTo(j) /\ j \notin UpTo(i)
      <3>1. i \in Nat /\ j \in Nat /\ \A x \in S : x \in Nat
        OBVIOUS
      <3>2. \A x \in S : x <= i => x <= j
        BY <1>3, <3>1
      <3>3. ~(j <= i) /\ j <= j
        BY <1>3, <3>1
      <3> QED BY <3>2, <3>3, Zenon
    <2>2. IsFiniteSet(UpTo(j))
      BY <1>2
    <2> HIDE DEF UpTo
    <2> QED BY <2>1, <2>2, FS_Subset
  <1>4. \A i, j \in S : Cardinality(UpTo(i)) = Cardinality(UpTo(j)) => i = j
    <2>1. \A i, j \in S : i < j => Cardinality(UpTo(i)) # Cardinality(UpTo(j))
      <3> HIDE DEF UpTo, pos, n
      <3> QED BY <1>3, Zenon
    <2>2. \A i, j \in S : i < j \/ j < i \/ i = j
      OBVIOUS
    <2> HIDE DEF UpTo
    <2> QED BY <2>1, <2>2
  <1>5. pos \in Injection(S, 1..n)
    <2>1. pos \in [S -> 1..n]
      <3> HIDE DEF UpTo, n
      <3> QED BY <1>2
    <2>2. \A i, j \in S : pos[i] = pos[j] => i = j
      <3> HIDE DEF UpTo
      <3> QED BY <1>4
    <2> HIDE DEF pos, n
    <2> QED BY <2>1, <2>2 DEF Injection, IsInjective
  <1>6. IsFiniteSet(1..n) /\ Cardinality(1..n) = n
    <2> HIDE DEF n
    <2> QED BY <1>1, FS_Interval
  <1>7. pos \in Surjection(S, 1..n)
    <2> HIDE DEF pos
    <2> QED BY <1>5, <1>6, FS_Injection
  <1>8. \A k \in 1..n : \E i \in S : Cardinality(UpTo(i)) = k
    <2>1. \A k \in 1..n : \E i \in S : pos[i] = k
      <3> HIDE DEF pos, n
      <3> QED BY <1>7 DEF Surjection
    <2> HIDE DEF UpTo, n
    <2> QED BY <2>1
  <1>9. \A k : Nth(S, k) = CHOOSE i \in S : Cardinality(UpTo(i)) = k
    BY DEF Nth
  <1> HIDE DEF UpTo, n, pos
  <1>10. \A k \in 1..n : Nth(S, k) \in S /\ Cardinality(UpTo(Nth(S, k))) = k
    BY <1>8, <1>9
  <1>11. ASSUME NEW i \in S PROVE \E k \in 1..n : Nth(S, k) = i
    <2>1. Cardinality(UpTo(i)) \in 1..n
      BY <1>2
    <2>2. Nth(S, Cardinality(UpTo(i))) = i
      BY <1>4, <1>10, <2>1
    <2> QED BY <2>1, <2>2
  <1> QED BY <1>1, <1>10, <1>11 DEF n

LEMMA BothInConcat ==
    ASSUME NEW X, NEW s \in Seq(X), NEW t \in Seq(X)
    PROVE  ToSet(s \o t) = ToSet(s) \cup ToSet(t)
  <1>1. /\ Len(s) \in Nat /\ DOMAIN s = 1..Len(s)
        /\ Len(t) \in Nat /\ DOMAIN t = 1..Len(t)
        /\ s \o t \in Seq(X) /\ Len(s \o t) = Len(s) + Len(t)
        /\ DOMAIN (s \o t) = 1..(Len(s) + Len(t))
        /\ \A i \in 1..(Len(s) + Len(t)) :
              (s \o t)[i] = IF i <= Len(s) THEN s[i] ELSE t[i - Len(s)]
    BY LenProperties, ConcatProperties
  <1>2. \A i \in 1..Len(s) : i \in DOMAIN (s \o t) /\ (s \o t)[i] = s[i]
    BY <1>1
  <1>3. \A i \in 1..Len(t) : Len(s) + i \in DOMAIN (s \o t) /\ (s \o t)[Len(s) + i] = t[i]
    BY <1>1
  <1>4. \A i \in DOMAIN (s \o t) : \/ i \in DOMAIN s /\ (s \o t)[i] = s[i]
                                   \/ i - Len(s) \in DOMAIN t /\ (s \o t)[i] = t[i - Len(s)]
    BY <1>1
  <1>5. ToSet(s \o t) \subseteq ToSet(s) \cup ToSet(t)
    BY <1>4, Zenon DEF ToSet
  <1>6. ToSet(s) \subseteq ToSet(s \o t)
    BY <1>1, <1>2, Zenon DEF ToSet
  <1>7. ToSet(t) \subseteq ToSet(s \o t)
    <2>1. \A i \in DOMAIN t : \E k \in DOMAIN (s \o t) : (s \o t)[k] = t[i]
      BY <1>1, <1>3, Zenon
    <2> QED BY <2>1, Zenon DEF ToSet
  <1> QED BY <1>5, <1>6, <1>7, Zenon

\* The host names that are of use.
Names(all) == {e.host : e \in {x \in ToSet(all) : Usable(x)}}

\* Each of them has one first entry.
LEMMA FirstsOf ==
    ASSUME NEW X, NEW all \in Seq(X)
    PROVE  /\ Firsts(all) \in SUBSET Nat /\ Firsts(all) \subseteq DOMAIN all
           /\ IsFiniteSet(Firsts(all))
           /\ \A h \in Names(all) : \E i \in Firsts(all) : all[i].host = h
           /\ \A i \in Firsts(all) : all[i].host \in Names(all)
           /\ Cardinality(Firsts(all)) = Cardinality(Names(all))
  <1> DEFINE F == Firsts(all)
             N == Names(all)
  <1>1. DOMAIN all = 1..Len(all) /\ Len(all) \in Nat
    BY LenProperties
  <1>2. F \in SUBSET Nat /\ F \subseteq DOMAIN all
    BY <1>1 DEF Firsts
  <1>3. IsFiniteSet(F)
    <2>1. IsFiniteSet(1..Len(all))
      BY <1>1, FS_Interval
    <2> HIDE DEF F
    <2> QED BY <1>1, <1>2, <2>1, FS_Subset
  <1>4. ASSUME NEW h \in N PROVE \E i \in F : all[i].host = h
    <2> DEFINE T == {i \in DOMAIN all : Usable(all[i]) /\ all[i].host = h}
    <2>1. T # {} /\ T \in SUBSET Nat
      BY <1>1 DEF Names, ToSet
    <2>2. PICK i \in T : \A j \in T : i <= j
      <3> HIDE DEF T
      <3> QED BY <2>1, LeastNat
    <2>3. \A j \in 1..(i - 1) : j \in DOMAIN all /\ ~(i <= j)
      BY <1>1
    <2> QED BY <2>2, <2>3 DEF Firsts
  <1>5. \A i \in F : all[i].host \in N
    BY DEF Firsts, Names, ToSet
  <1>6. ASSUME NEW i \in F, NEW j \in F, all[i].host = all[j].host PROVE i = j
    <2>1. \A k, m \in F : k < m => all[k].host # all[m].host
      <3> SUFFICES ASSUME NEW k \in F, NEW m \in F, k < m PROVE all[k].host # all[m].host
        OBVIOUS
      <3>1. k \in 1..(m - 1)
        BY <1>1, <1>2
      <3> QED BY <3>1 DEF Firsts
    <2>2. i \in Nat /\ j \in Nat
      BY <1>2
    <2> HIDE DEF F
    <2> QED BY <1>6, <2>1, <2>2
  <1> DEFINE name == [i \in F |-> all[i].host]
  <1>7. name \in Injection(F, N) /\ name \in Surjection(F, N)
    <2> HIDE DEF F, N
    <2> QED BY <1>4, <1>5, <1>6 DEF Injection, IsInjective, Surjection
  <1>8. Cardinality(F) = Cardinality(N)
    <2> HIDE DEF F, N, name
    <2> QED BY <1>3, <1>7, FS_Surjection
  <1> QED BY <1>2, <1>3, <1>4, <1>5, <1>8

\* A list that is not too long has them all.
LEMMA EndpointsList ==
    ASSUME NEW X, NEW place, NEW seen, Offered(place, seen) \in Seq(X)
    PROVE  /\ EndpointsOf(place, seen) \in Seq(X)
           /\ Cardinality(Names(Offered(place, seen))) <= Limit
                 => Names(Offered(place, seen)) \subseteq Hosts(EndpointsOf(place, seen))
  <1> DEFINE all == Offered(place, seen)
             F == Firsts(all)
             n == Smaller(Cardinality(F), Limit)
             list == EndpointsOf(place, seen)
  <1>1. list = [k \in 1..n |-> all[Nth(F, k)]]
    BY DEF EndpointsOf
  <1> HIDE DEF all, list
  <1>2. /\ F \in SUBSET Nat /\ F \subseteq DOMAIN all /\ IsFiniteSet(F)
        /\ \A h \in Names(all) : \E i \in F : all[i].host = h
        /\ Cardinality(F) = Cardinality(Names(all))
    BY FirstsOf DEF all
  <1> HIDE DEF F
  <1>3. /\ Cardinality(F) \in Nat /\ Limit \in Nat
        /\ \A k \in 1..Cardinality(F) : Nth(F, k) \in F
        /\ \A i \in F : \E k \in 1..Cardinality(F) : Nth(F, k) = i
    BY <1>2, NthOf, AddressAssumption
  <1>4. n \in Nat /\ n <= Cardinality(F) /\ (Cardinality(F) <= Limit => n = Cardinality(F))
    BY <1>3 DEF Smaller
  <1> HIDE DEF n
  <1>5. \A k \in 1..n : Nth(F, k) \in F
    BY <1>3, <1>4
  <1>6. \A k \in 1..n : all[Nth(F, k)] \in X
    BY <1>2, <1>5, ElementOfSeq, LenProperties DEF all
  <1>7. list \in Seq(X)
    BY <1>1, <1>4, <1>6, SeqDef
  <1>8. ASSUME Cardinality(Names(all)) <= Limit, NEW h \in Names(all) PROVE h \in Hosts(list)
    <2>1. n = Cardinality(F)
      BY <1>2, <1>4, <1>8
    <2>2. PICK i \in F : all[i].host = h
      BY <1>2
    <2>3. PICK k \in 1..n : Nth(F, k) = i
      BY <1>3, <2>1
    <2>4. list[k] = all[i] /\ k \in DOMAIN list
      BY <1>1, <2>3
    <2> QED BY <2>2, <2>4 DEF Hosts, ToSet
  <1> QED BY <1>7, <1>8 DEF all, list

\* A place's own addresses are what there is to tell of it.
LEMMA OfferedIsOwn ==
    ASSUME NEW place \in ToSet(Route)
    PROVE  /\ \E X : None \notin X /\ Offered(place, place.public) \in Seq(X)
           /\ Names(Offered(place, place.public)) = Own(place)
  <1> DEFINE X == (ToSet(place.interfaces) \cup ToSet(Extra) \cup {AsPublic(place.public)})
                      \ {None}
             told == place.interfaces \o Extra
             last == <<AsPublic(place.public)>>
  <1>1. /\ place.interfaces \in Seq(ToSet(place.interfaces) \ {None})
        /\ Extra \in Seq(ToSet(Extra) \ {None})
        /\ place.public # None /\ AsPublic(place.public) # None
    BY AddressAssumption
  <1>2. place.interfaces \in Seq(X) /\ Extra \in Seq(X)
    BY <1>1, SeqMonotonic
  <1>3. last \in Seq(X) /\ ToSet(last) = {AsPublic(place.public)}
    BY <1>1 DEF ToSet
  <1> HIDE DEF X, last
  <1>4. told \in Seq(X)
    BY <1>2, ConcatProperties
  <1> HIDE DEF told
  <1>5. Offered(place, place.public) = told \o last
    BY <1>1 DEF Offered, Ordered, told, last
  <1>6. told \o last \in Seq(X)
    BY <1>3, <1>4, ConcatProperties
  <1>7. ToSet(told \o last) = ToSet(told) \cup {AsPublic(place.public)}
    BY <1>3, <1>4, BothInConcat
  <1>8. Usable(AsPublic(place.public)) /\ AsPublic(place.public).host = place.public
    BY DEF Usable, AsPublic
  <1>9. Names(told \o last) = Own(place)
    BY <1>7, <1>8 DEF Names, Own, told
  <1>10. None \notin X
    BY DEF X
  <1> QED BY <1>5, <1>6, <1>9, <1>10

\* What a client picks answers, and is of the best rank of those that do.
LEMMA BestOf ==
    ASSUME NEW X, NEW eps \in Seq(X), NEW answering,
           \E i \in 1..Len(eps) : eps[i].host \in answering
    PROVE  \E i \in 1..Len(eps) :
               /\ Best(eps, answering) = eps[i] /\ eps[i].host \in answering
               /\ \A j \in 1..Len(eps) :
                      eps[j].host \in answering => Rank(eps[i].kind) <= Rank(eps[j].kind)
  <1> DEFINE Up == {i \in 1..Len(eps) : eps[i].host \in answering}
             r(i) == Rank(eps[i].kind)
             Ranks == {r(i) : i \in Up}
             First(i) == \A j \in Up :
                             ~Before(eps[j], eps[i]) /\ (j < i => Before(eps[i], eps[j]))
  <1>1. Up # {} /\ Up \in SUBSET Nat
    BY LenProperties
  <1>2. \A i \in Up : r(i) \in Nat
    BY DEF Rank
  <1> HIDE DEF Up
  <1>3. PICK least \in Ranks : \A n \in Ranks : least <= n
    <2>1. Ranks \in SUBSET Nat /\ Ranks # {}
      BY <1>1, <1>2
    <2> HIDE DEF Ranks
    <2> QED BY <2>1, LeastNat
  <1> DEFINE T == {i \in Up : r(i) = least}
  <1>4. PICK i \in T : \A j \in T : i <= j
    <2>1. T \in SUBSET Nat /\ T # {}
      BY <1>1, <1>3
    <2> HIDE DEF T
    <2> QED BY <2>1, LeastNat
  <1>5. \A a, b \in Up : Before(eps[a], eps[b]) <=> r(a) < r(b)
    BY DEF Before
  <1>6. i \in Up /\ r(i) = least /\ \A j \in Up : r(i) <= r(j) /\ (j < i => r(j) # least)
    <2>1. \A j \in Up : r(i) <= r(j)
      BY <1>3, <1>4
    <2>2. \A j \in Up : r(j) = least => i <= j
      BY <1>4
    <2>3. i \in Nat /\ \A j \in Up : j \in Nat
      BY <1>1, <1>4
    <2> HIDE DEF r
    <2> QED BY <1>4, <2>1, <2>2, <2>3
  <1> HIDE DEF r, T
  <1>7. First(i)
    BY <1>2, <1>5, <1>6
  <1>8. \A k \in Up : First(k) => \A j \in Up : r(k) <= r(j)
    <2>1. \A k, j \in Up : First(k) => ~(r(j) < r(k))
      BY <1>5
    <2> HIDE DEF First
    <2> QED BY <1>2, <2>1
  <1>9. Best(eps, answering) = eps[CHOOSE k \in Up : First(k)]
    BY <1>1 DEF Best, Up
  <1> HIDE DEF First
  <1> DEFINE k == CHOOSE x \in Up : First(x)
  <1>10. k \in Up /\ First(k)
    BY <1>6, <1>7
  <1> HIDE DEF k
  <1>11. Best(eps, answering) = eps[k] /\ \A j \in Up : r(k) <= r(j)
    BY <1>8, <1>9, <1>10 DEF k
  <1> QED BY <1>10, <1>11 DEF Up, r

LEMMA FoundBySettled ==
    ASSUME AddressTypeInv, SettledInv PROVE ReachableIsFound
  <1> SUFFICES ASSUME settled = 2, Cardinality(Own(Here)) <= Limit, NEW v \in Viewer,
                      Reached(v) # {}, v.others \cap Hosts(published) = {}
               PROVE  LET got == Best(published, Answering(v)) IN
                      /\ got # None /\ got.host \in Reached(v)
                      /\ \A e \in ToSet(Truth) :
                            e.host \in Reached(v) => Rank(got.kind) <= Rank(e.kind)
    BY DEF ReachableIsFound
  <1> DEFINE got == Best(published, Answering(v))
  <1>1. Here \in ToSet(Route) /\ Here.public \in Public
    BY RouteFacts DEF AddressTypeInv, Here, ToSet
  <1>2. published = Truth /\ Truth = EndpointsOf(Here, Here.public)
    <2>1. published = Truth
      BY DEF SettledInv
    <2>2. at \in DOMAIN Route
      BY RouteFacts DEF AddressTypeInv
    <2>3. Record[at][Here.public] = EndpointsOf(Route[at], Here.public)
      BY <1>1, <2>2 DEF Record
    <2> QED BY <2>1, <2>3 DEF Truth, Here
  <1>3. PICK X : None \notin X /\ Offered(Here, Here.public) \in Seq(X)
    BY <1>1, OfferedIsOwn
  <1>4. Truth \in Seq(X) /\ Own(Here) \subseteq Hosts(Truth)
    BY <1>1, <1>2, <1>3, OfferedIsOwn, EndpointsList
  <1>5. DOMAIN Truth = 1..Len(Truth) /\ \A i \in 1..Len(Truth) : Truth[i] \in X
    BY <1>4, LenProperties, ElementOfSeq
  <1>6. \E i \in 1..Len(Truth) : Truth[i].host \in Answering(v)
    BY <1>4, <1>5 DEF Reached, Answering, Hosts, ToSet
  <1>7. PICK i \in 1..Len(Truth) :
            /\ got = Truth[i] /\ Truth[i].host \in Answering(v)
            /\ \A j \in 1..Len(Truth) :
                   Truth[j].host \in Answering(v) => Rank(Truth[i].kind) <= Rank(Truth[j].kind)
    BY <1>2, <1>4, <1>6, BestOf
  <1> HIDE DEF got
  <1>8. got # None
    BY <1>3, <1>5, <1>7
  <1>9. got.host \in Reached(v)
    <2>1. got.host \in Hosts(Truth)
      BY <1>5, <1>7 DEF Hosts, ToSet
    <2> QED BY <1>2, <1>7, <2>1 DEF Answering
  <1>10. ASSUME NEW e \in ToSet(Truth), e.host \in Reached(v)
         PROVE  Rank(got.kind) <= Rank(e.kind)
    <2>1. PICK j \in 1..Len(Truth) : e = Truth[j]
      BY <1>5 DEF ToSet
    <2> QED BY <1>7, <1>10, <2>1 DEF Answering
  <1> QED BY <1>8, <1>9, <1>10 DEF got

\* Two heartbeats after a move or a restart, a client that reaches some address of the
\* host picks one of those, of the best kind: for any route, any extra endpoints, any
\* limit that they fit in, and any clients.
THEOREM Found == MovingSpec => []ReachableIsFound
  <1>1. InitMoving => AddressTypeInv /\ SettledInv
    <2>1. InitMoving => settled = 0
      BY DEF InitMoving
    <2> QED BY <2>1, InitAddressTypes DEF SettledInv
  <1>2. AddressTypeInv /\ SettledInv /\ [NextMoving]_allVars => (AddressTypeInv /\ SettledInv)'
    BY NextAddressTypes, NextSettled
  <1>3. AddressTypeInv /\ SettledInv => ReachableIsFound
    BY FoundBySettled
  <1> QED BY <1>1, <1>2, <1>3, PTL DEF MovingSpec
=============================================================================
