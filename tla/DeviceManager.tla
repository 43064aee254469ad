---------------------------- MODULE DeviceManager ----------------------------
(***************************************************************************)
(* The daemon's DeviceManager: the device list and its discovery, the      *)
(* per-session write confirmations, dry-run, the write gate in front of    *)
(* every hardware write, and the EffectsEngine that repaints the zones of  *)
(* animated effects from a timer.                                          *)
(*                                                                         *)
(* Everything here runs on the daemon's one event-loop thread, so a        *)
(* request, a timer tick and the completion of a discovery are each one    *)
(* step.  Only the discovery itself runs on another thread; it touches     *)
(* nothing of this state until its completion is delivered to the loop.    *)
(*                                                                         *)
(* Device indices (1-based here) address m_devices and the engine's zone   *)
(* keys; confirmations are kept by device id.  A call that returns early   *)
(* without changing state is a stuttering step and has no action.          *)
(***************************************************************************)
EXTENDS Integers, Sequences

CONSTANTS
  Device,             \* ids of the controllers the active backend can find
  DeviceLists,        \* the lists of devices a discovery may come back with
  Zone,               \* zone indices of a device
  ReadOnlyZone,       \* the <<device, zone>> pairs of fixed mainboard zones
  Capability,         \* Capability[d]: the write operations d declares
  RuntimePermission,  \* RuntimePermission[d]: what d answers for one of them
  StaticEffect,       \* non-animated effects (a colour)
  AnimatedEffect,     \* animated effects
  OffEffect,          \* black at brightness 0, set by all-off
  DefaultEffect,      \* the effect a freshly discovered zone is built with
  Color,              \* what the LEDs of a zone can show
  ColorAt,            \* ColorAt[e][p]: what effect e shows at clock phase p
  Period,             \* number of phases of the effect clock
  LedCount,           \* LED counts a zone can be given
  DefaultLeds,        \* the LED count of a freshly discovered zone
  Garbled,            \* LEDs left half-written by a HID write that failed
  NoFrame             \* no entry in m_lastAcceptedFrames

Operation  == {"ZoneColorWrite", "ZoneEffectWrite"}
Permission == {"Granted", "RequiresConfirmation", "Denied"}
Effect     == StaticEffect \cup AnimatedEffect
Phase      == 0 .. Period - 1
Frame      == LedCount \X Color
Writer     == {"none", "daemon", "client", "failed"}
Outcome    == {"ok", "failed", "partial"}

(* A backend reports each controller at most once. *)
ASSUME DeviceAssumption ==
  /\ DeviceLists \subseteq Seq(Device)
  /\ \A found \in DeviceLists : \A i, j \in DOMAIN found : found[i] = found[j] => i = j
  /\ ReadOnlyZone \subseteq Device \X Zone
  /\ Capability \in [Device -> SUBSET Operation]
  /\ RuntimePermission \in [Device -> Permission]

ASSUME EffectAssumption ==
  /\ StaticEffect \cap AnimatedEffect = {}
  /\ OffEffect \in StaticEffect
  /\ DefaultEffect \in StaticEffect
  /\ Period \in Nat \ {0}
  /\ ColorAt \in [Effect -> [Phase -> Color]]
  /\ DefaultLeds \in LedCount
  /\ Garbled \notin Frame
  /\ NoFrame \notin Frame

VARIABLES
  devices,            \* m_devices, the ids in list order
  zones,              \* zones[i][z]: effect and LED count of a zone's model
  confirmed,          \* m_confirmedWriteDeviceIds
  dryRun,             \* m_dryRunEnabled
  discoveryComplete,  \* m_discoveryComplete
  discoveryInProgress,\* m_discoveryInProgress
  runnerActive,       \* the discovery runner's thread exists
  streaming,          \* m_activeZones: <<device index, zone>> pairs
  accepted,           \* m_lastAcceptedFrames
  clock,              \* phase of the effect clock at the next tick
  hardware,           \* hardware[d][z]: what the physical LEDs show
  writer              \* history: who wrote hardware[d][z] last in this session

session   == <<devices, confirmed, discoveryComplete, discoveryInProgress, runnerActive>>
vars == <<devices, zones, confirmed, dryRun, discoveryComplete,
          discoveryInProgress, runnerActive, streaming, accepted, clock,
          hardware, writer>>

Index == DOMAIN devices
Key   == Nat \X Zone

ZoneModel == [effect : Effect, leds : LedCount]

TypeOK ==
  /\ devices \in Seq(Device)
  /\ zones \in [1 .. Len(devices) -> [Zone -> ZoneModel]]
  /\ confirmed \subseteq Device
  /\ dryRun \in BOOLEAN
  /\ discoveryComplete \in BOOLEAN
  /\ discoveryInProgress \in BOOLEAN
  /\ runnerActive \in BOOLEAN
  /\ streaming \subseteq Index \X Zone
  /\ accepted \in [streaming -> Frame \cup {NoFrame}]
  /\ clock \in Phase
  /\ hardware \in [Device -> [Zone -> Frame \cup {Garbled}]]
  /\ writer \in [Device -> [Zone -> Writer]]

-----------------------------------------------------------------------------
(* PermissionGate and WriteGate. *)

CheckWrite(d, op) ==
  IF op \in Capability[d] THEN RuntimePermission[d] ELSE "Denied"

CheckAnyWrite(d) ==
  LET answers == {CheckWrite(d, op) : op \in Capability[d]}
  IN  IF "RequiresConfirmation" \in answers THEN "RequiresConfirmation"
      ELSE IF "Granted" \in answers THEN "Granted" ELSE "Denied"

(* The permission is granted, or it needs a confirmation that was given. *)
Authorised(d, op) ==
  \/ CheckWrite(d, op) = "Granted"
  \/ CheckWrite(d, op) = "RequiresConfirmation" /\ d \in confirmed

(* Mutant: the gate forgets that the permission still needs confirming. *)
GateForgetsConfirmation(d, op) == CheckWrite(d, op) # "Denied" /\ ~dryRun

(* WriteGate's Outcome.applyWrite; without it the call changes nothing,   *)
(* whether it reports success (dry-run) or failure.                       *)
GateApplies(d, op) == Authorised(d, op) /\ ~dryRun

Operates(e) == IF e \in AnimatedEffect THEN "ZoneEffectWrite" ELSE "ZoneColorWrite"

(* supportsZoneEffect: fixed zones are read-only, the rest follow the     *)
(* device's capabilities.                                                 *)
SupportsZoneEffect(d, z, e) ==
  /\ <<d, z>> \notin ReadOnlyZone
  /\ Operates(e) \in Capability[d]

-----------------------------------------------------------------------------
(* What a write leaves on the LEDs.  W maps the zone keys a step writes to *)
(* the new contents.                                                       *)

KeysOf(d, z, K) == {k \in K : devices[k[1]] = d /\ k[2] = z}

Overwrite(old, W) ==
  [d \in Device |-> [z \in Zone |->
     LET K == KeysOf(d, z, DOMAIN W)
     IN  IF K = {} THEN old[d][z] ELSE W[CHOOSE k \in K : TRUE]]]

(* A zone write that does not report success may still have sent some of   *)
(* its HID reports.                                                        *)
Sent(out, f) == IF out = "partial" THEN Garbled ELSE f

Wrote(out, who) == IF out = "ok" THEN who ELSE "failed"

(* Mutant: the effect clock is not passed on to the frame. *)
FrozenFrame(k, p) == <<zones[k[1]][k[2]].leds, ColorAt[zones[k[1]][k[2]].effect][0]>>

FrameOf(k, p) == <<zones[k[1]][k[2]].leds, ColorAt[zones[k[1]][k[2]].effect][p]>>

(* Mutant: only stopAll removes any. *)
StopAllOrNothing(K) ==
  IF K = streaming THEN streaming' = {} /\ accepted' = [k \in {} |-> NoFrame]
                   ELSE UNCHANGED <<streaming, accepted>>

(* Remove zone keys from the engine (stopZone, stopAll, stopDevice). *)
StopZones(K) ==
  /\ streaming' = streaming \ K
  /\ accepted' = [k \in streaming \ K |-> accepted[k]]

StartZone(k) ==
  /\ streaming' = streaming \cup {k}
  /\ accepted' = [j \in streaming \cup {k} |-> IF j = k THEN NoFrame ELSE accepted[j]]

-----------------------------------------------------------------------------
Init ==
  /\ devices = <<>>
  /\ zones = <<>>
  /\ confirmed = {}
  /\ dryRun \in BOOLEAN                \* --dry-run, or the platform's default
  /\ discoveryComplete = TRUE
  /\ discoveryInProgress = FALSE
  /\ runnerActive = FALSE
  /\ streaming = {}
  /\ accepted = <<>>
  /\ clock = 0
  /\ hardware = [d \in Device |-> [z \in Zone |-> <<DefaultLeds, ColorAt[OffEffect][0]>>]]
  /\ writer = [d \in Device |-> [z \in Zone |-> "none"]]

-----------------------------------------------------------------------------
(* Discovery. *)

(* The first thing every discovery does: forget devices, confirmations and *)
(* streams.                                                                *)
ClearDevices ==
  /\ confirmed' = {}
  /\ StopZones(streaming)
  /\ writer' = [d \in Device |-> [z \in Zone |-> "none"]]

NoDevices ==
  /\ devices' = <<>>
  /\ zones' = <<>>

SetDiscoveryState(complete, inProgress) ==
  /\ discoveryComplete' = complete
  /\ discoveryInProgress' = inProgress

NewZones(found) ==
  [i \in DOMAIN found |-> [z \in Zone |-> [effect |-> DefaultEffect, leds |-> DefaultLeds]]]

StartBackendDiscovery ==
  /\ ~runnerActive
  /\ ClearDevices
  /\ NoDevices
  /\ \/ /\ SetDiscoveryState(FALSE, TRUE)      \* the runner's thread starts
        /\ runnerActive' = TRUE
     \/ /\ SetDiscoveryState(TRUE, FALSE)      \* no backend, probe denied, ...
        /\ UNCHANGED runnerActive
  /\ UNCHANGED <<dryRun, clock, hardware>>

(* The runner's completion: register what the thread found behind whatever *)
(* the list holds.                                                         *)
FinishBackendDiscovery(found) ==
  /\ runnerActive
  /\ runnerActive' = FALSE
  /\ devices' = devices \o found
  /\ zones' = zones \o NewZones(found)
  /\ SetDiscoveryState(TRUE, FALSE)
  /\ UNCHANGED <<confirmed, dryRun, streaming, accepted, clock, hardware, writer>>

(* The synchronous form: prepare and finish in one call. *)
InitializeBackends(found) ==
  /\ ~runnerActive
  /\ ClearDevices
  /\ devices' = found
  /\ zones' = NewZones(found)
  /\ SetDiscoveryState(TRUE, FALSE)
  /\ UNCHANGED <<dryRun, runnerActive, clock, hardware>>

-----------------------------------------------------------------------------
(* Session state. *)

SetDryRunEnabled(enabled) ==
  /\ dryRun # enabled
  /\ dryRun' = enabled
  /\ UNCHANGED <<session, zones, streaming, accepted, clock, hardware, writer>>

ConfirmDeviceWrites(i) ==
  /\ i \in Index
  /\ CheckAnyWrite(devices[i]) # "Denied"
  /\ confirmed' = confirmed \cup {devices[i]}
  /\ UNCHANGED <<devices, zones, dryRun, discoveryComplete, discoveryInProgress,
                 runnerActive, streaming, accepted, clock, hardware, writer>>

(* Streams of the device are left to the next tick. *)
RevokeDeviceWrites(i) ==
  /\ i \in Index
  /\ confirmed' = confirmed \ {devices[i]}
  /\ UNCHANGED <<devices, zones, dryRun, discoveryComplete, discoveryInProgress,
                 runnerActive, streaming, accepted, clock, hardware, writer>>

-----------------------------------------------------------------------------
(* Zone operations. *)

(* Mutant: a resized zone is rebuilt with the default effect. *)
UpdateZoneRebuilds(i, z, n) ==
  /\ i \in Index
  /\ <<devices[i], z>> \notin ReadOnlyZone
  /\ zones' = [zones EXCEPT ![i][z] = [effect |-> DefaultEffect, leds |-> n]]
  /\ UNCHANGED <<session, dryRun, streaming, accepted, clock, hardware, writer>>

(* Zone metadata is not gated: it is the daemon's model, not hardware.  A  *)
(* fixed zone's LED count is defined by its config table.                  *)
UpdateZone(i, z, n) ==
  /\ i \in Index
  /\ <<devices[i], z>> \notin ReadOnlyZone
  /\ zones' = [zones EXCEPT ![i][z].leds = n]
  /\ UNCHANGED <<session, dryRun, streaming, accepted, clock, hardware, writer>>

(* The device write comes first; only when it succeeds are the zone's      *)
(* effect and its stream changed.                                          *)
ApplyZoneEffect(i, z, e, clientStreamsFrames) ==
  /\ i \in Index
  /\ SupportsZoneEffect(devices[i], z, e)
  /\ GateApplies(devices[i], Operates(e))
  /\ \E out \in Outcome :
       LET k == <<i, z>>
           f == <<zones[i][z].leds, ColorAt[e][0]>>
           written == IF out = "failed" THEN {} ELSE {k}
       IN  /\ hardware' = Overwrite(hardware, [j \in written |-> Sent(out, f)])
           /\ writer' = Overwrite(writer, [j \in written |-> Wrote(out, "daemon")])
           /\ IF out # "ok" THEN UNCHANGED <<zones, streaming, accepted>>
              ELSE /\ zones' = [zones EXCEPT ![i][z].effect = e]
                   /\ IF e \in AnimatedEffect /\ ~clientStreamsFrames
                      THEN StartZone(k)
                      ELSE StopZones({k})
  /\ UNCHANGED <<session, dryRun, clock>>

(* One report per addressable channel: a failed all-off may have switched  *)
(* off some of them.                                                       *)
ApplyAllOff(i) ==
  /\ i \in Index
  /\ GateApplies(devices[i], "ZoneColorWrite")
  /\ LET writable == {z \in Zone : <<devices[i], z>> \notin ReadOnlyZone}
         off(z)   == <<zones[i][z].leds, ColorAt[OffEffect][0]>>
         Put(Z, who) ==
           /\ hardware' = Overwrite(hardware, [k \in {i} \X Z |-> off(k[2])])
           /\ writer' = Overwrite(writer, [k \in {i} \X Z |-> who])
     IN  \/ /\ Put(writable, "daemon")
            /\ zones' = [zones EXCEPT ![i] =
                 [z \in Zone |-> IF z \in writable THEN [@[z] EXCEPT !.effect = OffEffect]
                                 ELSE @[z]]]
            /\ StopZones({i} \X Zone)
         \/ /\ \E Z \in SUBSET writable : Put(Z, "failed")
            /\ UNCHANGED <<zones, streaming, accepted>>
  /\ UNCHANGED <<session, dryRun, clock>>

(* A frame painted by a client that streams the zone itself.  Under        *)
(* dry-run only the LED colours of the zone model change (not kept here).  *)
(* A refused paint stops the zone's stream.                                *)
PaintZoneFrame(i, z, f) ==
  /\ i \in Index
  /\ ~dryRun
  /\ LET k == <<i, z>>
         d == devices[i]
     IN  \/ /\ ~Authorised(d, "ZoneEffectWrite")
            /\ StopZones({k})
            /\ UNCHANGED <<hardware, writer>>
         \/ /\ Authorised(d, "ZoneEffectWrite")
            /\ <<d, z>> \notin ReadOnlyZone
            /\ \E out \in {"ok", "partial"} :
                 /\ hardware' = Overwrite(hardware, [j \in {k} |-> Sent(out, f)])
                 /\ writer' = Overwrite(writer, [j \in {k} |-> Wrote(out, "client")])
            /\ UNCHANGED <<streaming, accepted>>
  /\ UNCHANGED <<session, zones, dryRun, clock>>

(* One timeout of the frame timer: every streamed zone whose frame differs *)
(* from the last one accepted is painted through paintZoneFrame.           *)
Tick ==
  /\ streaming # {}
  /\ LET due     == {k \in streaming : accepted[k] # FrameOf(k, clock)}
         refused == {k \in due : /\ ~dryRun
                                 /\ ~Authorised(devices[k[1]], "ZoneEffectWrite")}
         painted == IF dryRun THEN {} ELSE due \ refused
     IN  \E out \in [painted -> Outcome] :
           LET written == {k \in painted : out[k] # "failed"}
               took    == IF dryRun THEN due ELSE {k \in painted : out[k] = "ok"}
           IN  /\ hardware' = Overwrite(hardware,
                                [k \in written |-> Sent(out[k], FrameOf(k, clock))])
               /\ writer' = Overwrite(writer, [k \in written |-> Wrote(out[k], "daemon")])
               /\ streaming' = streaming \ refused
               /\ accepted' = [k \in streaming \ refused |->
                                 IF k \in took THEN FrameOf(k, clock) ELSE accepted[k]]
  /\ clock' = (clock + 1) % Period
  /\ UNCHANGED <<session, zones, dryRun>>

-----------------------------------------------------------------------------
Next ==
  \/ StartBackendDiscovery
  \/ \E found \in DeviceLists : FinishBackendDiscovery(found) \/ InitializeBackends(found)
  \/ \E enabled \in BOOLEAN : SetDryRunEnabled(enabled)
  \/ \E i \in Index : ConfirmDeviceWrites(i) \/ RevokeDeviceWrites(i) \/ ApplyAllOff(i)
  \/ \E i \in Index, z \in Zone, n \in LedCount : UpdateZone(i, z, n)
  \/ \E i \in Index, z \in Zone, e \in Effect, own \in BOOLEAN : ApplyZoneEffect(i, z, e, own)
  \/ \E i \in Index, z \in Zone, f \in Frame : PaintZoneFrame(i, z, f)
  \/ Tick

(* The timer fires as long as a zone streams, and the discovery thread     *)
(* ends.  Nobody is obliged to issue a request.                            *)
Fairness == WF_vars(Tick) /\ WF_vars(\E found \in DeviceLists : FinishBackendDiscovery(found))

Spec == Init /\ [][Next]_vars
FairSpec == Spec /\ Fairness

-----------------------------------------------------------------------------
(* Safety. *)

(* A discovery owns the session while it runs: the two flags and the       *)
(* runner's thread agree, and until it completes there is no device to     *)
(* address, no confirmation and no stream left over from the previous list. *)
DiscoveryIsExclusive ==
  /\ discoveryInProgress = runnerActive
  /\ discoveryComplete = ~runnerActive
  /\ runnerActive => devices = <<>> /\ confirmed = {} /\ streaming = {}

(* A confirmation never outlives the list it was given for: every          *)
(* confirmed id is a device of the current list that allows confirmable    *)
(* writes.  (Ids are stable over rescans, so a stale id would silently     *)
(* confirm the rediscovered controller.)                                   *)
ConfirmedPresent ==
  \A d \in confirmed : /\ \E i \in Index : devices[i] = d
                       /\ CheckAnyWrite(d) # "Denied"

(* The engine only repaints zones whose current effect is animated: no     *)
(* stream is left behind by a static apply, an all-off, a failed apply or  *)
(* a new device list, whatever the order they and the ticks come in.       *)
StreamsAnimated ==
  \A k \in streaming : /\ zones[k[1]][k[2]].effect \in AnimatedEffect
                       /\ <<devices[k[1]], k[2]>> \notin ReadOnlyZone

(* A zone set to a colour, or switched off, keeps showing it until another *)
(* command or a client's frame: no late tick of an earlier animation       *)
(* paints over it.                                                         *)
StaticZoneHolds ==
  \A i \in Index, z \in Zone :
    LET d == devices[i]  e == zones[i][z].effect
    IN  writer[d][z] = "daemon" /\ e \in StaticEffect
          => hardware[d][z][2] = ColorAt[e][0]

(* Fixed mainboard zones are read-only by policy: no path (apply, all-off, *)
(* client frame, tick) ever writes their LEDs.                             *)
FixedZonesUntouched ==
  [][\A dz \in ReadOnlyZone : hardware'[dz[1]][dz[2]] = hardware[dz[1]][dz[2]]]_vars

(* The devices a hardware write may reach: those of the current list that  *)
(* grant a write or whose required confirmation was given this session.    *)
Writable == {d \in Device : /\ \E i \in Index : devices[i] = d
                           /\ \E op \in Operation : Authorised(d, op)}

Guard == INSTANCE WriteAuthority WITH authorised <- Writable, live <- ~dryRun

(* Seen from the hardware, the whole manager is a guarded store: LEDs      *)
(* change only while dry-run is off, only on devices that are listed and   *)
(* granted or confirmed, and never in the step that changes who is.        *)
HardwareIsGuarded == Guard!Spec

-----------------------------------------------------------------------------
(* Liveness, under FairSpec. *)

Varies(e) == \A p \in Phase : \E q \in Phase : ColorAt[e][p] # ColorAt[e][q]

(* Revoking leaves a stream running, but it does not last: the next frame  *)
(* that would reach the hardware is refused and ends it.  (Effects whose   *)
(* frames never change produce no such frame; they write nothing either.)  *)
RevokedStreamEnds ==
  \A i \in UNION {DOMAIN found : found \in DeviceLists}, z \in Zone :
    LET Unauthorised == /\ <<i, z>> \in streaming
                        /\ Varies(zones[i][z].effect)
                        /\ ~dryRun
                        /\ ~Authorised(devices[i], "ZoneEffectWrite")
    IN  Unauthorised ~> ~Unauthorised
==============================================================================
