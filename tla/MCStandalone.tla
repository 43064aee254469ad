----------------------------- MODULE MCStandalone -----------------------------
(***************************************************************************)
(* Five components that share no state with the other models, nor with one *)
(* another: a behaviour is one of part alone, and the others stay idle.    *)
(***************************************************************************)
EXTENDS AuraController, Profiles, DeviceTree, FrameCodec, DaemonLauncher

VARIABLE part

vars == <<part, auraVars, profileVars, treeVars, codecVars, launcherVars>>

-----------------------------------------------------------------------------
(* A controller: every table the parser can meet on one interface, and     *)
(* every order of two or three interfaces of one controller.               *)
Raws == [addressable : 0 .. 3, mainboard : 0 .. 4, headers : 0 .. 3]
Answers == {[addressable |-> 2, mainboard |-> 1, headers |-> 1],
            [addressable |-> 0, mainboard |-> 0, headers |-> 0]}
Found(p) == [path : {p}, score : {0, 10}, number : {-1, 0, 1}, raw : Answers]
MCProbe ==
  {<<[path |-> 1, score |-> 10, number |-> 0, raw |-> r]>> : r \in Raws}
  \cup {<<i1, i2>> : i1 \in Found(1), i2 \in Found(2)}
  \cup {<<i2, i1, i3>> : i1 \in Found(1), i2 \in Found(2), i3 \in Found(3)}

(* A board whose second zone is animated and a lamp that ignores the       *)
(* brightness of a wave; a profile of another installation with swapped,   *)
(* missing, unknown and unreadable zones, and one that has the lamp twice. *)
At(i, n, l, e) == [index |-> i, name |-> n, leds |-> l, effect |-> e]
Now(n, e) == [name |-> n, leds |-> 1, effect |-> e]
MCStartZones ==
  {[d \in {"board", "lamp"} |-> IF d = "board" THEN <<Now("A", "red"), Now("B", e)>>
                                ELSE <<Now("A", "wave")>>] : e \in {"red", "dimWave"}}
MCSupports ==
  {<<"board", 1, "red">>, <<"board", 2, "red">>, <<"board", 2, "wave">>,
   <<"board", 2, "dimWave">>, <<"lamp", 1, "red">>, <<"lamp", 1, "wave">>}
MCPlain ==
  [d \in {"board", "lamp"} |-> [e \in {"red", "wave", "dimWave"} |->
     IF d = "lamp" /\ e = "dimWave" THEN "wave" ELSE e]]
Other ==
  [name |-> "night", devices |->
    <<[id |-> "board", zones |-> <<At(2, "A", 2, "red"), At(1, "B", 1, "unknown"),
                                   At(3, "C", 1, "broken")>>],
      [id |-> "lamp", zones |-> <<At(2, "C", 2, "red"), At(1, "B", 1, "dimWave")>>]>>]
Twice ==
  [name |-> "day", devices |->
    <<[id |-> "lamp", zones |-> <<At(1, "A", 2, "red")>>],
      [id |-> "lamp", zones |-> <<At(1, "A", 1, "wave"), At(1, "B", 1, "dimWave")>>]>>]
MCForeign   == {Other, Twice}
MCNormalize == [n \in {"day", "day ", "night"} |-> IF n = "night" THEN "night" ELSE "day"]
MCLegacy    ==
  [n \in {"day", "night"} |-> IF n = "day" THEN [Other EXCEPT !.name = "day"] ELSE NoProfile]

(* A board whose first zone has no row, and a lamp. *)
MCHidden    == [d \in {"board", "lamp"} |-> <<d = "board", FALSE>>]
MCStartName == [d \in {"board", "lamp"} |-> <<"A", "B">>]

(* Messages of up to two bytes: none, blank, legal and too long. *)
Payloads == {<<>>, <<"blank">>, <<"a">>, <<"a", "b">>, <<"c", "c">>, <<"c", "blank", "c">>}
MCStream == UNION {[1 .. n -> Payloads] : n \in 0 .. 3}

ASSUME StandaloneAssumption ==
  /\ AuraAssumption /\ ProfilesAssumption /\ DeviceTreeAssumption
  /\ CodecAssumption /\ LauncherAssumption

-----------------------------------------------------------------------------
(* What the others are while they are idle: no controller, no device, no   *)
(* profile, nothing sent, no daemon.                                       *)
AuraIdle ==
  /\ found = <<>> /\ config = Invalid /\ auraZones = <<>>
  /\ hw = <<>> /\ told = <<>> /\ synced = <<>> /\ writes = 0
ProfilesIdle ==
  /\ present = {} /\ zones = <<>> /\ files = [n \in ProfileName |-> NoProfile]
  /\ migrated = FALSE /\ outside = {} /\ report = NoReport /\ profileSteps = 0
TreeIdle ==
  /\ devices = <<>> /\ override = <<>> /\ filter = "all" /\ rows = <<>> /\ shown = <<>>
  /\ selected = <<>> /\ daemonName = <<>> /\ lists = 0 /\ treeSteps = 0
CodecIdle ==
  /\ sent = <<>> /\ wire = <<>> /\ arrived = <<>> /\ buffer = <<>>
  /\ reading = FALSE /\ taken = <<>> /\ broken = FALSE
LauncherIdle == LauncherInit /\ foreign = "none"

Init ==
  \/ part = "aura" /\ AuraInit /\ ProfilesIdle /\ TreeIdle /\ CodecIdle /\ LauncherIdle
  \/ part = "profiles" /\ ProfilesInit /\ AuraIdle /\ TreeIdle /\ CodecIdle /\ LauncherIdle
  \/ part = "tree" /\ TreeInit /\ AuraIdle /\ ProfilesIdle /\ CodecIdle /\ LauncherIdle
  \/ part = "codec" /\ CodecInit /\ AuraIdle /\ ProfilesIdle /\ TreeIdle /\ LauncherIdle
  \/ part = "launcher" /\ LauncherInit /\ AuraIdle /\ ProfilesIdle /\ TreeIdle /\ CodecIdle

Next ==
  /\ UNCHANGED part
  /\ \/ /\ part = "aura" /\ AuraNext
        /\ UNCHANGED <<profileVars, treeVars, codecVars, launcherVars>>
     \/ /\ part = "profiles" /\ ProfilesNext
        /\ UNCHANGED <<auraVars, treeVars, codecVars, launcherVars>>
     \/ /\ part = "tree" /\ TreeNext
        /\ UNCHANGED <<auraVars, profileVars, codecVars, launcherVars>>
     \/ /\ part = "codec" /\ CodecNext
        /\ UNCHANGED <<auraVars, profileVars, treeVars, launcherVars>>
     \/ /\ part = "launcher" /\ LauncherNext
        /\ UNCHANGED <<auraVars, profileVars, treeVars, codecVars>>

Spec == Init /\ [][Next]_vars
=============================================================================
