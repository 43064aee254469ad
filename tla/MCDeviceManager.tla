--------------------------- MODULE MCDeviceManager ---------------------------
(***************************************************************************)
(* Instances of DeviceManager for TLC.  pulse changes with the clock;      *)
(* dark is an animated effect at brightness 0, whose frames are all equal. *)
(*                                                                         *)
(* A behaviour is one of the pair, the constants this module extends       *)
(* DeviceManager with, or one of the board, an instance with fewer lists   *)
(* and more zones.  The properties are the pair's; zone z1 is writable in  *)
(* both.                                                                   *)
(***************************************************************************)
EXTENDS DeviceManager

CONSTANTS asus, mock, z1, z2

VARIABLE part

MCStaticEffect   == {"off", "red"}
MCAnimatedEffect == {"pulse", "dark"}
MCColor   == {"black", "lit"}
MCColorAt ==
  [e \in MCStaticEffect \cup MCAnimatedEffect |->
     [p \in Phase |-> IF e = "red" \/ (e = "pulse" /\ p = 0) THEN "lit" ELSE "black"]]

(* A confirmation-gated ASUS controller and a mock board, one zone each,   *)
(* found in any combination and order.                                     *)
MCCapability == [d \in {asus, mock} |-> {"ZoneColorWrite", "ZoneEffectWrite"}]
MCPermission == [d \in {asus, mock} |->
                   IF d = asus THEN "RequiresConfirmation" ELSE "Granted"]
PairLists    == {<<>>, <<asus>>, <<asus, mock>>, <<mock, asus>>}

(* The ASUS controller alone, with an addressable zone z1 whose LED count  *)
(* can change and a read-only fixed zone z2.                               *)
Board == INSTANCE DeviceManager WITH
  DeviceLists <- {<<>>, <<asus>>}, Zone <- {z1, z2}, ReadOnlyZone <- {<<asus, z2>>},
  LedCount <- {1, 2}

MCInit == \/ part = "pair" /\ Init
          \/ part = "board" /\ Board!Init

PairNext  == part = "pair" /\ Next
BoardNext == part = "board" /\ Board!Next
MCNext    == UNCHANGED part /\ (PairNext \/ BoardNext)

MCSpec ==
  /\ MCInit /\ [][MCNext]_<<part, vars>>
  /\ WF_<<part, vars>>(UNCHANGED part /\ part = "pair" /\ Tick)
  /\ WF_<<part, vars>>(UNCHANGED part /\ part = "board" /\ Board!Tick)
==============================================================================
