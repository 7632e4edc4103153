----------------------------- MODULE Handshake -----------------------------
(***************************************************************************)
(* The GameStream pairing handshake, its cryptography taken symbolically:  *)
(* the client of ra-gamestream's Pairing, and the host of FakeHost, which  *)
(* keeps the state of one handshake for all its clients.                   *)
(*                                                                         *)
(* A device stands for its certificate, its salt and its PIN.  The AES key *)
(* of a session is made of the salt and of the PIN that was entered, so a  *)
(* key is a pair of devices, and the two sides agree when both are the one *)
(* that talks.  What one key encrypts is garbage under any other.          *)
(***************************************************************************)
CONSTANTS Device, None

\* The requests of the five phases, in their order.
Steps == {"getservercert", "clientchallenge", "serverchallengeresp",
          "clientpairingsecret", "pairchallenge"}

StepAfter ==
    [s \in Steps |->
        CASE s = "getservercert" -> "clientchallenge"
          [] s = "clientchallenge" -> "serverchallengeresp"
          [] s = "serverchallengeresp" -> "clientpairingsecret"
          [] s = "clientpairingsecret" -> "pairchallenge"
          [] s = "pairchallenge" -> "done"]

-----------------------------------------------------------------------------
(* The host: the session key, the certificate that came with the last      *)
(* getservercert, and whose valid hash the third phase left, if any.       *)

HostState ==
    [key : (Device \X Device) \cup {None}, cert : Device \cup {None},
     hash : Device \cup {None}]

NoSession == [key |-> None, cert |-> None, hash |-> None]

\* getservercert of d, once a PIN has been entered for it.
Keyed(hs, d, pin) == [hs EXCEPT !.key = <<d, pin>>, !.cert = d]

BugSaltOnly(hs, d) == hs.key \in {d} \X Device
Agrees(hs, d) == hs.key = <<d, d>>

\* serverchallengeresp of d: its hash covers the challenge d was told in the
\* phase before, and arrives under d's key.
Hashed(hs, d, told) ==
    [hs EXCEPT !.hash = IF Agrees(hs, d) /\ told = "good" THEN d ELSE None]

\* clientpairingsecret of d: the hash is d's, the signature that of the
\* certificate at hand.
Proved(hs, d) == hs.hash = d /\ hs.cert = d

\* What the host answers to a request of d other than the first.
BodyFor(hs, d, step) ==
    CASE step = "clientchallenge" -> IF Agrees(hs, d) THEN "good" ELSE "garbage"
      [] step = "serverchallengeresp" -> "good"
      [] step = "clientpairingsecret" -> IF Proved(hs, d) THEN "good" ELSE "refused"
      [] step = "pairchallenge" -> "good"

\* Its state after that request.
StateAfter(hs, d, step, told) ==
    IF step = "serverchallengeresp" THEN Hashed(hs, d, told) ELSE hs

-----------------------------------------------------------------------------
(* The client.  In the second phase it cannot tell garbage from a proper   *)
(* answer; it compares the host's hash with its own in the third.          *)

BugAcceptsRefusal(step, told, body) == step = "serverchallengeresp" => told = "good"

Accepts(step, told, body) ==
    /\ body # "refused"
    /\ step = "serverchallengeresp" => told = "good"
=============================================================================
