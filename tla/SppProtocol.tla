---------------------------- MODULE SppProtocol ----------------------------
(***************************************************************************)
(* What BluetoothSppConnection promises to its receiver: an attempt to     *)
(* connect is reported as connected or as failed, once and never both; it  *)
(* is reported connected only if its link was established, and lost only   *)
(* then; and at any time at most one link, the carrier, brings new bytes.  *)
(* The reports connected and lost of a link may come in either order.      *)
(***************************************************************************)
EXTENDS Integers

CONSTANT MaxAttempts    \* bound: calls of connect that create a ConnectThread

Attempts == 1 .. MaxAttempts
NoAttempt == 0

VARIABLES
  asked,    \* attempts so far; they are numbered in this order
  links,    \* attempts whose link has been established
  carrier,  \* the attempt whose link brings bytes, or NoAttempt
  told      \* per attempt, the callbacks made: "connected", "failed", "lost"

ProtocolInit ==
  /\ asked = 0 /\ links = {} /\ carrier = NoAttempt
  /\ told = [a \in Attempts |-> {}]

(* A new attempt ends the link there was. *)
Ask ==
  /\ asked < MaxAttempts /\ asked' = asked + 1
  /\ carrier' = NoAttempt
  /\ UNCHANGED <<links, told>>

(* The link is cut, by stop, by a failure or by the device. *)
Cut == carrier' = NoAttempt /\ UNCHANGED <<asked, links, told>>

(* A link is established, perhaps on a socket that is closed already. *)
Establish(a) ==
  /\ a <= asked /\ a \notin links /\ told[a] = {}
  /\ links' = links \union {a}
  /\ carrier' \in {a, NoAttempt}
  /\ UNCHANGED <<asked, told>>

Tell(a, what) ==
  /\ a <= asked /\ what \notin told[a]
  /\ IF what = "failed" THEN a \notin links ELSE a \in links
  /\ told' = [told EXCEPT ![a] = @ \union {what}]
  /\ UNCHANGED <<asked, links, carrier>>

ProtocolNext ==
  \/ Ask \/ Cut
  \/ \E a \in Attempts : Establish(a) \/ \E w \in {"connected", "failed", "lost"} : Tell(a, w)

ProtocolSpec == ProtocolInit /\ [][ProtocolNext]_<<asked, links, carrier, told>>
=============================================================================
