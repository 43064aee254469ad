--------------------------- MODULE WriteAuthority ---------------------------
(***************************************************************************)
(* What the daemon promises the owner of the hardware, without devices     *)
(* lists, effects, streams or discoveries: a store of LED contents that is *)
(* written only on devices the user has authorised and only while writes   *)
(* are live.  Authority and liveness change in steps that write nothing.   *)
(***************************************************************************)
CONSTANT Device

VARIABLES
  hardware,    \* hardware[d]: whatever the LEDs of d show
  authorised,  \* devices that may be written now
  live         \* FALSE while dry-run is on

vars == <<hardware, authorised, live>>

Init == authorised = {}

Write(S) ==
  /\ live
  /\ S \subseteq authorised
  /\ \A d \in Device \ S : hardware'[d] = hardware[d]
  /\ UNCHANGED <<authorised, live>>

ChangeAuthority == UNCHANGED hardware

Next == ChangeAuthority \/ \E S \in SUBSET Device : Write(S)

Spec == Init /\ [][Next]_vars
=============================================================================
