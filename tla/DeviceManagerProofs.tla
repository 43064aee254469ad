------------------------- MODULE DeviceManagerProofs -------------------------
(***************************************************************************)
(* Proofs about DeviceManager for every set of devices, zones and effects, *)
(* every permission table and every backend.                               *)
(***************************************************************************)
EXTENDS DeviceManager, SequenceTheorems, TLAPS

-----------------------------------------------------------------------------
(* What a hardware write leaves behind. *)

(* A zone none of the written keys addresses keeps its contents. *)
LEMMA OverwriteElsewhere ==
  ASSUME NEW old, NEW W, NEW d \in Device, NEW z \in Zone,
         \A k \in DOMAIN W : ~(devices[k[1]] = d /\ k[2] = z)
  PROVE  Overwrite(old, W)[d][z] = old[d][z]
BY DEF Overwrite, KeysOf

(* Contents stay in S when every written value is in S. *)
LEMMA OverwriteType ==
  ASSUME NEW S, NEW old \in [Device -> [Zone -> S]], NEW W,
         \A k \in DOMAIN W : W[k] \in S
  PROVE  Overwrite(old, W) \in [Device -> [Zone -> S]]
<1> SUFFICES ASSUME NEW d \in Device, NEW z \in Zone
             PROVE  Overwrite(old, W)[d][z] \in S
  BY DEF Overwrite
<1> DEFINE K == KeysOf(d, z, DOMAIN W)
<1>1. CASE K = {}
  BY <1>1 DEF Overwrite
<1>2. CASE K # {}
  <2>1. (CHOOSE k \in K : TRUE) \in DOMAIN W
    BY <1>2 DEF KeysOf
  <2>2. Overwrite(old, W)[d][z] = W[CHOOSE k \in K : TRUE]
    BY <1>2 DEF Overwrite
  <2> QED BY <2>1, <2>2
<1> QED BY <1>1, <1>2

(* A step that writes exactly the keys of a set T of listed zones changes *)
(* no LED of a device outside T's devices.                                 *)
LEMMA OverwriteDevices ==
  ASSUME NEW old \in [Device -> [Zone -> Frame \cup {Garbled}]], NEW W, NEW d \in Device,
         \A k \in DOMAIN W : devices[k[1]] # d
  PROVE  Overwrite(old, W)[d] = old[d]
<1>1. \A z \in Zone : Overwrite(old, W)[d][z] = old[d][z]
  BY OverwriteElsewhere
<1>2. Overwrite(old, W)[d] = [z \in Zone |-> Overwrite(old, W)[d][z]]
  BY DEF Overwrite
<1> QED BY <1>1, <1>2

-----------------------------------------------------------------------------
(* The inductive invariant: the checked invariants, that list entries are  *)
(* distinct, and that nothing was written in a session that has no devices *)
(* yet (a discovery in progress).                                          *)

Distinct == \A i, j \in Index : devices[i] = devices[j] => i = j

NothingWrittenYet ==
  runnerActive => \A d \in Device, z \in Zone : writer[d][z] = "none"

IInv == /\ TypeOK
        /\ DiscoveryIsExclusive
        /\ ConfirmedPresent
        /\ StreamsAnimated
        /\ StaticZoneHolds
        /\ Distinct
        /\ NothingWrittenYet

LEMMA InitIInv == Init => IInv
<1> SUFFICES ASSUME Init PROVE IInv
  OBVIOUS
<1> USE DeviceAssumption, EffectAssumption DEF Init, Index
<1>1. TypeOK
  <2>1. OffEffect \in Effect /\ 0 \in Phase
    BY DEF Effect, Phase
  <2>2. <<DefaultLeds, ColorAt[OffEffect][0]>> \in Frame
    BY <2>1 DEF Frame
  <2>3. hardware \in [Device -> [Zone -> Frame \cup {Garbled}]]
    BY <2>2
  <2>4. /\ zones \in [1 .. Len(devices) -> [Zone -> ZoneModel]]
        /\ accepted \in [streaming -> Frame \cup {NoFrame}]
    OBVIOUS
  <2>5. writer \in [Device -> [Zone -> Writer]]
    BY DEF Writer
  <2>6. /\ devices \in Seq(Device) /\ confirmed \subseteq Device
        /\ streaming \subseteq Index \X Zone /\ clock \in Phase
    BY <2>1
  <2>7. /\ dryRun \in BOOLEAN /\ discoveryComplete \in BOOLEAN
        /\ discoveryInProgress \in BOOLEAN /\ runnerActive \in BOOLEAN
    OBVIOUS
  <2> QED BY ONLY <2>3, <2>4, <2>5, <2>6, <2>7 DEF TypeOK, Index
<1>2. DiscoveryIsExclusive /\ ConfirmedPresent /\ StreamsAnimated
  BY DEF DiscoveryIsExclusive, ConfirmedPresent, StreamsAnimated
<1>3. StaticZoneHolds /\ Distinct /\ NothingWrittenYet
  BY DEF StaticZoneHolds, Distinct, NothingWrittenYet
<1> QED BY <1>1, <1>2, <1>3 DEF IInv

(* Discovery: the three ways the list changes. *)

LEMMA StartIInv == IInv /\ StartBackendDiscovery => IInv'
<1> SUFFICES ASSUME IInv, StartBackendDiscovery PROVE IInv'
  OBVIOUS
<1> USE DEF StartBackendDiscovery, ClearDevices, NoDevices, SetDiscoveryState,
            StopZones, Index
<1>1. TypeOK'
  <2>1. /\ devices' \in Seq(Device)
        /\ zones' \in [1 .. Len(devices') -> [Zone -> ZoneModel]]
        /\ accepted' \in [streaming' -> Frame \cup {NoFrame}]
    OBVIOUS
  <2>2. writer' \in [Device -> [Zone -> Writer]]
    BY DEF Writer
  <2> QED BY <2>1, <2>2 DEF IInv, TypeOK
<1>2. (DiscoveryIsExclusive /\ ConfirmedPresent /\ StreamsAnimated)'
  BY DEF IInv, TypeOK, DiscoveryIsExclusive, ConfirmedPresent, StreamsAnimated
<1>3. (StaticZoneHolds /\ Distinct /\ NothingWrittenYet)'
  BY DEF StaticZoneHolds, Distinct, NothingWrittenYet
<1> QED BY <1>1, <1>2, <1>3 DEF IInv

LEMMA NewZonesType ==
  ASSUME NEW found \in DeviceLists
  PROVE  /\ found \in Seq(Device)
         /\ NewZones(found) \in [1 .. Len(found) -> [Zone -> ZoneModel]]
BY DeviceAssumption, EffectAssumption DEF NewZones, ZoneModel, Effect

(* What the list looks like right after a discovery that found "found". *)
LEMMA FreshList ==
  ASSUME IInv, NEW found \in DeviceLists,
         devices' = found, zones' = NewZones(found),
         runnerActive' = FALSE, SetDiscoveryState(TRUE, FALSE),
         confirmed' = {}, streaming' = {}, accepted' = <<>>,
         \A d \in Device, z \in Zone : writer'[d][z] = "none",
         writer' \in [Device -> [Zone -> Writer]],
         UNCHANGED <<dryRun, clock, hardware>>
  PROVE  IInv'
<1>1. TypeOK'
  <2>1. /\ devices' \in Seq(Device)
        /\ zones' \in [1 .. Len(devices') -> [Zone -> ZoneModel]]
    BY NewZonesType
  <2>2. accepted' \in [streaming' -> Frame \cup {NoFrame}]
    OBVIOUS
  <2> QED BY <2>1, <2>2 DEF IInv, TypeOK, SetDiscoveryState, Index
<1>2. (DiscoveryIsExclusive /\ ConfirmedPresent /\ StreamsAnimated /\ NothingWrittenYet)'
  BY DEF SetDiscoveryState, DiscoveryIsExclusive, ConfirmedPresent, StreamsAnimated,
         NothingWrittenYet
<1>3. Distinct'
  BY DeviceAssumption DEF Distinct, Index
<1>4. StaticZoneHolds'
  <2> SUFFICES ASSUME NEW i \in Index', NEW z \in Zone
               PROVE  writer'[devices'[i]][z] # "daemon"
    BY DEF StaticZoneHolds
  <2>1. devices'[i] \in Device
    BY <1>1 DEF TypeOK, Index
  <2> QED BY <2>1
<1> QED BY <1>1, <1>2, <1>3, <1>4 DEF IInv

LEMMA FinishIInv ==
  ASSUME NEW found \in DeviceLists, IInv, FinishBackendDiscovery(found)
  PROVE  IInv'
<1>1. devices = <<>> /\ confirmed = {} /\ streaming = {}
  BY DEF IInv, DiscoveryIsExclusive, FinishBackendDiscovery
<1>2. devices' = found
  BY <1>1, ConcatEmptySeq, NewZonesType DEF FinishBackendDiscovery
<1>3. zones = <<>>
  BY <1>1 DEF IInv, TypeOK
<1>4. NewZones(found) \in Seq([Zone -> ZoneModel])
  BY NewZonesType
<1>5. zones' = NewZones(found)
  BY <1>3, <1>4, ConcatEmptySeq DEF FinishBackendDiscovery
<1>6. accepted = <<>>
  BY <1>1 DEF IInv, TypeOK
<1> QED
  BY <1>1, <1>2, <1>5, <1>6, FreshList
  DEF FinishBackendDiscovery, IInv, NothingWrittenYet, TypeOK

LEMMA InitializeIInv ==
  ASSUME NEW found \in DeviceLists, IInv, InitializeBackends(found)
  PROVE  IInv'
<1>1. streaming' = {} /\ accepted' = <<>> /\ confirmed' = {}
  BY DEF InitializeBackends, ClearDevices, StopZones
<1>2. /\ \A d \in Device, z \in Zone : writer'[d][z] = "none"
      /\ writer' \in [Device -> [Zone -> Writer]]
  BY DEF InitializeBackends, ClearDevices, Writer
<1>3. runnerActive' = FALSE
  BY DEF InitializeBackends, IInv, TypeOK
<1> QED BY <1>1, <1>2, <1>3, FreshList DEF InitializeBackends

(* Session state. *)

LEMMA SetDryRunIInv ==
  ASSUME NEW enabled \in BOOLEAN, IInv, SetDryRunEnabled(enabled)
  PROVE  IInv'
<1> USE DEF SetDryRunEnabled, session, IInv, Index
<1>1. TypeOK'
  BY DEF TypeOK, Index
<1> QED
  BY <1>1 DEF DiscoveryIsExclusive, ConfirmedPresent, StreamsAnimated, StaticZoneHolds,
              Distinct, NothingWrittenYet

LEMMA ConfirmIInv ==
  ASSUME NEW i \in Index, IInv, ConfirmDeviceWrites(i)
  PROVE  IInv'
<1> USE DEF ConfirmDeviceWrites, IInv, Index
<1>1. devices[i] \in Device /\ ~runnerActive
  BY DEF TypeOK, DiscoveryIsExclusive
<1>2. TypeOK'
  BY <1>1 DEF TypeOK, Index
<1> QED
  BY <1>1, <1>2 DEF DiscoveryIsExclusive, ConfirmedPresent, StreamsAnimated,
                    StaticZoneHolds, Distinct, NothingWrittenYet

LEMMA RevokeIInv ==
  ASSUME NEW i \in Index, IInv, RevokeDeviceWrites(i)
  PROVE  IInv'
<1> USE DEF RevokeDeviceWrites, IInv, Index
<1>1. TypeOK'
  BY DEF TypeOK, Index
<1> QED
  BY <1>1 DEF DiscoveryIsExclusive, ConfirmedPresent, StreamsAnimated, StaticZoneHolds,
              Distinct, NothingWrittenYet

LEMMA UpdateZoneIInv ==
  ASSUME NEW i \in Index, NEW z \in Zone, NEW n \in LedCount, IInv, UpdateZone(i, z, n)
  PROVE  IInv'
<1> USE DEF UpdateZone, session, IInv, Index
<1>1. TypeOK'
  <2>1. zones' \in [1 .. Len(devices) -> [Zone -> ZoneModel]]
    <3>1. zones[i][z] \in ZoneModel /\ zones[i] \in [Zone -> ZoneModel]
      BY DEF TypeOK
    <3>2. [zones[i][z] EXCEPT !.leds = n] \in ZoneModel
      BY <3>1 DEF ZoneModel
    <3> QED BY <3>1, <3>2 DEF TypeOK
  <2> QED BY <2>1 DEF TypeOK, Index
<1>2. \A j \in Index, y \in Zone : zones'[j][y].effect = zones[j][y].effect
  BY DEF TypeOK, ZoneModel
<1>3. StreamsAnimated' /\ StaticZoneHolds'
  BY <1>2 DEF StreamsAnimated, StaticZoneHolds, TypeOK
<1> QED
  BY <1>1, <1>3 DEF DiscoveryIsExclusive, ConfirmedPresent, Distinct, NothingWrittenYet

(* Zone operations. *)

LEMMA FrameType ==
  ASSUME TypeOK, NEW i \in Index, NEW z \in Zone, NEW e \in Effect, NEW p \in Phase
  PROVE  <<zones[i][z].leds, ColorAt[e][p]>> \in Frame
<1>1. zones[i][z] \in ZoneModel
  BY DEF TypeOK, Index
<1>2. ColorAt[e][p] \in Color
  BY EffectAssumption
<1> QED BY <1>1, <1>2 DEF ZoneModel, Frame

LEMMA KnownPhases == 0 \in Phase /\ \A p \in Phase : (p + 1) % Period \in Phase
BY EffectAssumption DEF Phase

(* Writing keys of listed zones: list entries are distinct, so every zone  *)
(* takes the value of its own key and of no other.                         *)
LEMMA OverwriteKeys ==
  ASSUME TypeOK, Distinct, NEW old, NEW W, DOMAIN W \subseteq Index \X Zone,
         NEW j \in Index, NEW y \in Zone
  PROVE  Overwrite(old, W)[devices[j]][y]
           = IF <<j, y>> \in DOMAIN W THEN W[<<j, y>>] ELSE old[devices[j]][y]
<1>1. devices[j] \in Device
  BY DEF TypeOK, Index
<1>2. CASE <<j, y>> \in DOMAIN W
  <2>1. KeysOf(devices[j], y, DOMAIN W) = {<<j, y>>}
    BY <1>2 DEF KeysOf, Distinct
  <2>2. (CHOOSE k \in {<<j, y>>} : TRUE) = <<j, y>>
    OBVIOUS
  <2>3. Overwrite(old, W)[devices[j]][y] = W[<<j, y>>]
    BY <1>1, <2>1, <2>2 DEF Overwrite
  <2> QED BY <1>2, <2>3
<1>3. CASE <<j, y>> \notin DOMAIN W
  <2>1. \A k \in DOMAIN W : ~(devices[k[1]] = devices[j] /\ k[2] = y)
    BY <1>3 DEF Distinct
  <2> QED BY <1>1, <1>3, <2>1, OverwriteElsewhere
<1> QED BY <1>2, <1>3

LEMMA ApplyIInv ==
  ASSUME NEW i \in Index, NEW z \in Zone, NEW e \in Effect, NEW own \in BOOLEAN,
         IInv, ApplyZoneEffect(i, z, e, own)
  PROVE  IInv'
<1> DEFINE d == devices[i]
           k == <<i, z>>
           f == <<zones[i][z].leds, ColorAt[e][0]>>
           written(out) == IF out = "failed" THEN {} ELSE {k}
<1>1. PICK out \in Outcome :
        /\ hardware' = Overwrite(hardware, [j \in written(out) |-> Sent(out, f)])
        /\ writer' = Overwrite(writer, [j \in written(out) |-> Wrote(out, "daemon")])
        /\ IF out # "ok" THEN UNCHANGED <<zones, streaming, accepted>>
           ELSE /\ zones' = [zones EXCEPT ![i][z].effect = e]
                /\ IF e \in AnimatedEffect /\ ~own THEN StartZone(k) ELSE StopZones({k})
  BY DEF ApplyZoneEffect
<1>2. /\ UNCHANGED <<session, dryRun, clock>>
      /\ <<d, z>> \notin ReadOnlyZone
  BY DEF ApplyZoneEffect, SupportsZoneEffect
<1>3. f \in Frame
  BY FrameType, KnownPhases DEF IInv
<1>4. hardware' \in [Device -> [Zone -> Frame \cup {Garbled}]]
  <2>1. Sent(out, f) \in Frame \cup {Garbled}
    BY <1>3 DEF Sent
  <2> QED BY <1>1, <2>1, OverwriteType DEF IInv, TypeOK
<1>5. writer' \in [Device -> [Zone -> Writer]]
  <2>1. Wrote(out, "daemon") \in Writer
    BY DEF Wrote, Writer
  <2> QED BY <1>1, <2>1, OverwriteType DEF IInv, TypeOK
<1>6. zones' \in [1 .. Len(devices) -> [Zone -> ZoneModel]]
  <2>1. zones[i] \in [Zone -> ZoneModel] /\ zones[i][z] \in ZoneModel
    BY DEF IInv, TypeOK, Index
  <2>2. [zones[i][z] EXCEPT !.effect = e] \in ZoneModel
    BY <2>1 DEF ZoneModel
  <2>3. zones \in [1 .. Len(devices) -> [Zone -> ZoneModel]] /\ i \in 1 .. Len(devices)
    BY DEF IInv, TypeOK, Index
  <2>4. [zones EXCEPT ![i][z].effect = e] \in [1 .. Len(devices) -> [Zone -> ZoneModel]]
    BY <2>1, <2>2, <2>3
  <2> QED BY <1>1, <2>3, <2>4
<1>7. /\ streaming' \subseteq Index \X Zone
      /\ accepted' \in [streaming' -> Frame \cup {NoFrame}]
  <2>1. CASE out # "ok"
    BY <1>1, <2>1 DEF IInv, TypeOK
  <2>2. CASE out = "ok" /\ e \in AnimatedEffect /\ ~own
    BY <1>1, <2>2 DEF IInv, TypeOK, StartZone
  <2>3. CASE out = "ok" /\ ~(e \in AnimatedEffect /\ ~own)
    BY <1>1, <2>3 DEF IInv, TypeOK, StopZones
  <2> QED BY <2>1, <2>2, <2>3
<1>8. TypeOK'
  BY <1>2, <1>4, <1>5, <1>6, <1>7 DEF IInv, TypeOK, session, Index
<1>9. (DiscoveryIsExclusive /\ ConfirmedPresent /\ Distinct /\ NothingWrittenYet)'
  <2>1. ~runnerActive
    BY DEF IInv, DiscoveryIsExclusive, Index, TypeOK
  <2> QED
    BY <1>2, <2>1 DEF IInv, session, DiscoveryIsExclusive, ConfirmedPresent, Distinct,
                      NothingWrittenYet, Index
<1>10. \A j \in Index, y \in Zone :
         zones'[j][y].effect = IF out = "ok" /\ j = i /\ y = z THEN e ELSE zones[j][y].effect
  BY <1>1 DEF IInv, TypeOK, Index, ZoneModel
<1>11. StreamsAnimated'
  <2> SUFFICES ASSUME NEW s \in streaming'
               PROVE  /\ zones'[s[1]][s[2]].effect \in AnimatedEffect
                      /\ <<devices[s[1]], s[2]>> \notin ReadOnlyZone
    BY <1>2 DEF StreamsAnimated, session
  <2>1. s[1] \in Index /\ s[2] \in Zone /\ s = <<s[1], s[2]>>
    BY <1>7
  <2>2. CASE s = k /\ out = "ok"
    BY <1>1, <1>2, <1>10, <2>1, <2>2 DEF StartZone, StopZones
  <2>3. CASE s # k \/ out # "ok"
    <3>1. s \in streaming
      BY <1>1, <2>3 DEF StartZone, StopZones
    <3> QED BY <1>10, <2>1, <2>3, <3>1 DEF IInv, StreamsAnimated
  <2> QED BY <2>2, <2>3
<1>12. StaticZoneHolds'
  <2> SUFFICES ASSUME NEW j \in Index, NEW y \in Zone,
                      writer'[devices[j]][y] = "daemon",
                      zones'[j][y].effect \in StaticEffect
               PROVE  hardware'[devices[j]][y][2] = ColorAt[zones'[j][y].effect][0]
    BY <1>2 DEF StaticZoneHolds, session, Index
  <2>1. CASE out = "failed"
    <3>1. devices[j] \in Device
      BY DEF IInv, TypeOK, Index
    <3>2. /\ hardware'[devices[j]][y] = hardware[devices[j]][y]
          /\ writer'[devices[j]][y] = writer[devices[j]][y]
      BY <1>1, <2>1, <3>1, OverwriteElsewhere
    <3> QED BY <1>10, <2>1, <3>2 DEF IInv, StaticZoneHolds
  <2>2. CASE out # "failed"
    <3>1. /\ hardware'[devices[j]][y]
               = IF j = i /\ y = z THEN Sent(out, f) ELSE hardware[devices[j]][y]
          /\ writer'[devices[j]][y]
               = IF j = i /\ y = z THEN Wrote(out, "daemon") ELSE writer[devices[j]][y]
      <4> DEFINE WH == [m \in {k} |-> Sent(out, f)]
                 WW == [m \in {k} |-> Wrote(out, "daemon")]
      <4>1. hardware' = Overwrite(hardware, WH) /\ writer' = Overwrite(writer, WW)
        BY <1>1, <2>2
      <4>2. TypeOK /\ Distinct /\ (<<j, y>> = k <=> j = i /\ y = z)
        BY DEF IInv
      <4>3. /\ DOMAIN WH = {k} /\ DOMAIN WW = {k} /\ {k} \subseteq Index \X Zone
            /\ WH[k] = Sent(out, f) /\ WW[k] = Wrote(out, "daemon")
        OBVIOUS
      <4> HIDE DEF WH, WW
      <4>4. /\ Overwrite(hardware, WH)[devices[j]][y]
                 = IF <<j, y>> \in DOMAIN WH THEN WH[<<j, y>>] ELSE hardware[devices[j]][y]
            /\ Overwrite(writer, WW)[devices[j]][y]
                 = IF <<j, y>> \in DOMAIN WW THEN WW[<<j, y>>] ELSE writer[devices[j]][y]
        BY ONLY <4>2, <4>3, OverwriteKeys
      <4> QED BY <4>1, <4>2, <4>3, <4>4
    <3>2. CASE j = i /\ y = z
      <4>1. out = "ok"
        BY <3>1, <3>2 DEF Wrote
      <4> QED BY <1>10, <3>1, <3>2, <4>1 DEF Sent
    <3>3. CASE ~(j = i /\ y = z)
      BY <1>10, <3>1, <3>3 DEF IInv, StaticZoneHolds
    <3> QED BY <3>2, <3>3
  <2> QED BY <2>1, <2>2
<1> QED BY <1>8, <1>9, <1>11, <1>12 DEF IInv

(* Every zone a step writes from the daemon shows its (new) static effect, *)
(* and the effect of the others stays: the static zones hold.              *)
LEMMA StaticHoldsAfter ==
  ASSUME IInv, UNCHANGED devices, NEW WH, NEW WW,
         DOMAIN WH = DOMAIN WW, DOMAIN WW \subseteq Index \X Zone,
         hardware' = Overwrite(hardware, WH), writer' = Overwrite(writer, WW),
         \A j \in Index, y \in Zone :
           IF <<j, y>> \in DOMAIN WW
           THEN WW[<<j, y>>] = "daemon" /\ zones'[j][y].effect \in StaticEffect
                  => WH[<<j, y>>][2] = ColorAt[zones'[j][y].effect][0]
           ELSE zones'[j][y].effect = zones[j][y].effect
  PROVE  StaticZoneHolds'
<1> SUFFICES ASSUME NEW j \in Index, NEW y \in Zone,
                    writer'[devices[j]][y] = "daemon",
                    zones'[j][y].effect \in StaticEffect
             PROVE  hardware'[devices[j]][y][2] = ColorAt[zones'[j][y].effect][0]
  BY DEF StaticZoneHolds, Index
<1>1. TypeOK /\ Distinct /\ StaticZoneHolds
  BY DEF IInv
<1>2. /\ hardware'[devices[j]][y]
           = IF <<j, y>> \in DOMAIN WH THEN WH[<<j, y>>] ELSE hardware[devices[j]][y]
      /\ writer'[devices[j]][y]
           = IF <<j, y>> \in DOMAIN WW THEN WW[<<j, y>>] ELSE writer[devices[j]][y]
  BY <1>1, OverwriteKeys
<1> QED BY <1>1, <1>2 DEF StaticZoneHolds

LEMMA WriteTypes ==
  ASSUME TypeOK, NEW WH, NEW WW,
         hardware' = Overwrite(hardware, WH), writer' = Overwrite(writer, WW),
         \A k \in DOMAIN WH : WH[k] \in Frame \cup {Garbled},
         \A k \in DOMAIN WW : WW[k] \in Writer
  PROVE  /\ hardware' \in [Device -> [Zone -> Frame \cup {Garbled}]]
         /\ writer' \in [Device -> [Zone -> Writer]]
BY OverwriteType DEF TypeOK

(* What a step that leaves the session alone cannot disturb. *)
LEMMA SessionKept ==
  ASSUME IInv, UNCHANGED session, Index # {}
  PROVE  (DiscoveryIsExclusive /\ ConfirmedPresent /\ Distinct /\ NothingWrittenYet)'
<1>1. ~runnerActive
  BY DEF IInv, DiscoveryIsExclusive, Index, TypeOK
<1> QED
  BY <1>1 DEF IInv, session, DiscoveryIsExclusive, ConfirmedPresent, Distinct,
              NothingWrittenYet, Index

LEMMA PaintIInv ==
  ASSUME NEW i \in Index, NEW z \in Zone, NEW f \in Frame, IInv, PaintZoneFrame(i, z, f)
  PROVE  IInv'
<1> DEFINE k == <<i, z>>
<1>1. UNCHANGED <<session, zones, dryRun, clock>> /\ UNCHANGED devices
  BY DEF PaintZoneFrame, session
<1>2. CASE ~Authorised(devices[i], "ZoneEffectWrite")
  <2>1. StopZones({k}) /\ UNCHANGED <<hardware, writer>>
    BY <1>2 DEF PaintZoneFrame
  <2>2. streaming' \subseteq streaming /\ accepted' \in [streaming' -> Frame \cup {NoFrame}]
    BY <2>1 DEF StopZones, IInv, TypeOK
  <2>3. TypeOK'
    BY <1>1, <2>1, <2>2 DEF IInv, TypeOK, session, Index
  <2>4. StreamsAnimated' /\ StaticZoneHolds'
    BY <1>1, <2>1, <2>2 DEF IInv, StreamsAnimated, StaticZoneHolds, Index
  <2> QED BY <1>1, <2>3, <2>4, SessionKept DEF IInv
<1>3. CASE Authorised(devices[i], "ZoneEffectWrite")
  <2>1. PICK out \in {"ok", "partial"} :
          /\ hardware' = Overwrite(hardware, [j \in {k} |-> Sent(out, f)])
          /\ writer' = Overwrite(writer, [j \in {k} |-> Wrote(out, "client")])
    BY <1>3 DEF PaintZoneFrame
  <2>2. UNCHANGED <<streaming, accepted>>
    BY <1>3 DEF PaintZoneFrame
  <2> DEFINE WH == [j \in {k} |-> Sent(out, f)]
             WW == [j \in {k} |-> Wrote(out, "client")]
  <2>3. /\ DOMAIN WH = {k} /\ DOMAIN WW = {k} /\ {k} \subseteq Index \X Zone
        /\ WH[k] \in Frame \cup {Garbled} /\ WW[k] \in Writer /\ WW[k] # "daemon"
    BY DEF Sent, Wrote, Writer
  <2>4. hardware' = Overwrite(hardware, WH) /\ writer' = Overwrite(writer, WW)
    BY <2>1
  <2> HIDE DEF WH, WW
  <2>5. StaticZoneHolds'
    <3>1. \A j \in Index, y \in Zone :
            IF <<j, y>> \in DOMAIN WW
            THEN WW[<<j, y>>] = "daemon" /\ zones'[j][y].effect \in StaticEffect
                   => WH[<<j, y>>][2] = ColorAt[zones'[j][y].effect][0]
            ELSE zones'[j][y].effect = zones[j][y].effect
      BY <1>1, <2>3
    <3> QED BY <1>1, <2>3, <2>4, <3>1, StaticHoldsAfter
  <2>6. /\ hardware' \in [Device -> [Zone -> Frame \cup {Garbled}]]
        /\ writer' \in [Device -> [Zone -> Writer]]
    BY <2>3, <2>4, WriteTypes DEF IInv
  <2>7. TypeOK'
    BY <1>1, <2>2, <2>6 DEF IInv, TypeOK, session, Index
  <2>8. StreamsAnimated'
    BY <1>1, <2>2 DEF IInv, StreamsAnimated
  <2> QED BY <1>1, <2>5, <2>7, <2>8, SessionKept DEF IInv
<1> QED BY <1>2, <1>3

LEMMA AllOffIInv ==
  ASSUME NEW i \in Index, IInv, ApplyAllOff(i)
  PROVE  IInv'
<1> DEFINE writable == {z \in Zone : <<devices[i], z>> \notin ReadOnlyZone}
           off(z)   == <<zones[i][z].leds, ColorAt[OffEffect][0]>>
           WH(Z)      == [k \in {i} \X Z |-> off(k[2])]
           WW(Z, who) == [k \in {i} \X Z |-> who]
<1>1. UNCHANGED <<session, dryRun, clock>> /\ UNCHANGED devices
  BY DEF ApplyAllOff, session
<1>2. /\ OffEffect \in Effect /\ OffEffect \in StaticEffect
      /\ StaticEffect \cap AnimatedEffect = {} /\ AnimatedEffect \subseteq Effect
  BY EffectAssumption DEF Effect
<1>3. PICK Z \in SUBSET writable, who \in {"daemon", "failed"} :
        /\ hardware' = Overwrite(hardware, WH(Z))
        /\ writer' = Overwrite(writer, WW(Z, who))
        /\ \/ /\ who = "daemon" /\ Z = writable
              /\ zones' = [zones EXCEPT ![i] =
                   [z \in Zone |-> IF z \in writable
                                   THEN [zones[i][z] EXCEPT !.effect = OffEffect]
                                   ELSE zones[i][z]]]
              /\ StopZones({i} \X Zone)
           \/ /\ who = "failed"
              /\ UNCHANGED <<zones, streaming, accepted>>
  <2>1. CASE /\ hardware' = Overwrite(hardware, WH(writable))
             /\ writer' = Overwrite(writer, WW(writable, "daemon"))
             /\ zones' = [zones EXCEPT ![i] =
                  [z \in Zone |-> IF z \in writable
                                  THEN [zones[i][z] EXCEPT !.effect = OffEffect]
                                  ELSE zones[i][z]]]
             /\ StopZones({i} \X Zone)
    BY <2>1
  <2>2. CASE /\ \E Z \in SUBSET writable :
                  /\ hardware' = Overwrite(hardware, WH(Z))
                  /\ writer' = Overwrite(writer, WW(Z, "failed"))
             /\ UNCHANGED <<zones, streaming, accepted>>
    BY <2>2
  <2> QED BY <2>1, <2>2 DEF ApplyAllOff
<1>4. /\ zones[i] \in [Zone -> ZoneModel] /\ i \in 1 .. Len(devices)
      /\ zones \in [1 .. Len(devices) -> [Zone -> ZoneModel]]
      /\ \A z \in Zone : zones[i][z] \in ZoneModel /\ off(z) \in Frame
  <2>1. \A z \in Zone : off(z) \in Frame
    BY <1>2, FrameType, KnownPhases DEF IInv
  <2> QED BY <2>1 DEF IInv, TypeOK, Index
<1>5. zones' \in [1 .. Len(devices) -> [Zone -> ZoneModel]]
  <2>1. \A z \in Zone : [zones[i][z] EXCEPT !.effect = OffEffect] \in ZoneModel
    BY <1>2, <1>4 DEF ZoneModel
  <2>2. [z \in Zone |-> IF z \in writable
                        THEN [zones[i][z] EXCEPT !.effect = OffEffect]
                        ELSE zones[i][z]] \in [Zone -> ZoneModel]
    BY <1>4, <2>1
  <2> QED BY <1>3, <1>4, <2>2
<1>6. \A j \in Index, y \in Zone :
        zones'[j][y].effect
          = IF who = "daemon" /\ j = i /\ y \in writable THEN OffEffect ELSE zones[j][y].effect
  BY <1>3, <1>4 DEF Index, ZoneModel
<1>7. /\ streaming' \subseteq streaming
      /\ accepted' \in [streaming' -> Frame \cup {NoFrame}]
      /\ who = "daemon" => streaming' \cap ({i} \X Zone) = {}
  BY <1>3 DEF StopZones, IInv, TypeOK
<1>8. /\ DOMAIN WH(Z) = {i} \X Z /\ DOMAIN WW(Z, who) = {i} \X Z
      /\ {i} \X Z \subseteq Index \X Zone
      /\ \A k \in {i} \X Z : WH(Z)[k] = off(k[2]) /\ WW(Z, who)[k] = who
  OBVIOUS
<1>9. /\ hardware' \in [Device -> [Zone -> Frame \cup {Garbled}]]
      /\ writer' \in [Device -> [Zone -> Writer]]
  <2>1. /\ \A k \in DOMAIN WH(Z) : WH(Z)[k] \in Frame \cup {Garbled}
        /\ \A k \in DOMAIN WW(Z, who) : WW(Z, who)[k] \in Writer
    BY <1>4, <1>8 DEF Writer
  <2> HIDE DEF WH, WW
  <2> QED BY <1>3, <2>1, WriteTypes DEF IInv
<1>10. TypeOK'
  BY <1>1, <1>5, <1>7, <1>9 DEF IInv, TypeOK, session, Index
<1>11. StreamsAnimated'
  <2> SUFFICES ASSUME NEW s \in streaming'
               PROVE  /\ zones'[s[1]][s[2]].effect \in AnimatedEffect
                      /\ <<devices[s[1]], s[2]>> \notin ReadOnlyZone
    BY <1>1 DEF StreamsAnimated
  <2>1. s \in streaming /\ s[1] \in Index /\ s[2] \in Zone /\ s = <<s[1], s[2]>>
    BY <1>7 DEF IInv, TypeOK
  <2>2. ~(who = "daemon" /\ s[1] = i)
    BY <1>7, <2>1
  <2> QED BY <1>6, <2>1, <2>2 DEF IInv, StreamsAnimated
<1>12. StaticZoneHolds'
  <2>1. \A j \in Index, y \in Zone :
          IF <<j, y>> \in DOMAIN WW(Z, who)
          THEN WW(Z, who)[<<j, y>>] = "daemon" /\ zones'[j][y].effect \in StaticEffect
                 => WH(Z)[<<j, y>>][2] = ColorAt[zones'[j][y].effect][0]
          ELSE zones'[j][y].effect = zones[j][y].effect
    <3> SUFFICES ASSUME NEW j \in Index, NEW y \in Zone
                 PROVE  IF <<j, y>> \in DOMAIN WW(Z, who)
                        THEN WW(Z, who)[<<j, y>>] = "daemon"
                               /\ zones'[j][y].effect \in StaticEffect
                               => WH(Z)[<<j, y>>][2] = ColorAt[zones'[j][y].effect][0]
                        ELSE zones'[j][y].effect = zones[j][y].effect
      OBVIOUS
    <3>1. CASE <<j, y>> \in {i} \X Z
      <4>1. WW(Z, who)[<<j, y>>] = who /\ WH(Z)[<<j, y>>] = off(y) /\ j = i /\ y \in Z
        BY <3>1
      <4> QED BY <1>3, <1>6, <1>8, <3>1, <4>1
    <3>2. CASE <<j, y>> \notin {i} \X Z
      BY <1>3, <1>6, <1>8, <3>2, ZenonT(60)
    <3> QED BY <3>1, <3>2
  <2> HIDE DEF WH, WW
  <2> QED BY <1>1, <1>3, <1>8, <2>1, StaticHoldsAfter
<1> QED BY <1>1, <1>10, <1>11, <1>12, SessionKept DEF IInv

LEMMA TickIInv == IInv /\ Tick => IInv'
<1> SUFFICES ASSUME IInv, Tick PROVE IInv'
  OBVIOUS
<1> DEFINE due     == {k \in streaming : accepted[k] # FrameOf(k, clock)}
           refused == {k \in due : /\ ~dryRun
                                   /\ ~Authorised(devices[k[1]], "ZoneEffectWrite")}
           painted == IF dryRun THEN {} ELSE due \ refused
           written(out) == {k \in painted : out[k] # "failed"}
           took(out)    == IF dryRun THEN due ELSE {k \in painted : out[k] = "ok"}
           WH(out) == [k \in written(out) |-> Sent(out[k], FrameOf(k, clock))]
           WW(out) == [k \in written(out) |-> Wrote(out[k], "daemon")]
<1>1. PICK out \in [painted -> Outcome] :
        /\ hardware' = Overwrite(hardware, WH(out))
        /\ writer' = Overwrite(writer, WW(out))
        /\ streaming' = streaming \ refused
        /\ accepted' = [k \in streaming \ refused |->
                          IF k \in took(out) THEN FrameOf(k, clock) ELSE accepted[k]]
  BY DEF Tick
<1>2. UNCHANGED <<session, zones, dryRun>> /\ UNCHANGED devices
  BY DEF Tick, session
<1>3. clock' \in Phase
  BY KnownPhases DEF Tick, IInv, TypeOK
<1>4. /\ streaming \subseteq Index \X Zone /\ streaming # {}
      /\ \A k \in streaming : FrameOf(k, clock) \in Frame
  <2>1. \A k \in streaming : FrameOf(k, clock) \in Frame
    <3> SUFFICES ASSUME NEW k \in streaming PROVE FrameOf(k, clock) \in Frame
      OBVIOUS
    <3>1. k[1] \in Index /\ k[2] \in Zone /\ clock \in Phase /\ TypeOK
      BY DEF IInv, TypeOK
    <3>2. zones[k[1]][k[2]].effect \in Effect
      BY <3>1 DEF TypeOK, ZoneModel, Index
    <3>3. <<zones[k[1]][k[2]].leds, ColorAt[zones[k[1]][k[2]].effect][clock]>> \in Frame
      BY <3>1, <3>2, FrameType
    <3> QED BY <3>3 DEF FrameOf
  <2>2. streaming \subseteq Index \X Zone
    BY DEF IInv, TypeOK
  <2>3. streaming # {}
    BY DEF Tick
  <2> QED BY <2>1, <2>2, <2>3
<1>5. /\ written(out) \subseteq streaming
      /\ DOMAIN WH(out) = written(out) /\ DOMAIN WW(out) = written(out)
      /\ \A k \in written(out) : WH(out)[k] \in Frame \cup {Garbled} /\ WW(out)[k] \in Writer
  BY <1>4 DEF Sent, Wrote, Writer
<1>6. \A j \in Index, y \in Zone :
        <<j, y>> \in streaming => zones'[j][y].effect \notin StaticEffect
  BY <1>2, EffectAssumption DEF IInv, StreamsAnimated
<1>7. /\ streaming' \subseteq streaming
      /\ accepted' \in [streaming' -> Frame \cup {NoFrame}]
  BY <1>1, <1>4 DEF IInv, TypeOK
<1> HIDE DEF WH, WW, written, took, refused
<1>8. TypeOK'
  <2>1. /\ hardware' \in [Device -> [Zone -> Frame \cup {Garbled}]]
        /\ writer' \in [Device -> [Zone -> Writer]]
    BY <1>1, <1>5, WriteTypes DEF IInv
  <2> QED BY <1>2, <1>3, <1>7, <2>1 DEF IInv, TypeOK, session, Index
<1>9. StreamsAnimated'
  BY <1>2, <1>7 DEF IInv, StreamsAnimated
<1>10. StaticZoneHolds'
  <2>1. \A j \in Index, y \in Zone :
          IF <<j, y>> \in DOMAIN WW(out)
          THEN WW(out)[<<j, y>>] = "daemon" /\ zones'[j][y].effect \in StaticEffect
                 => WH(out)[<<j, y>>][2] = ColorAt[zones'[j][y].effect][0]
          ELSE zones'[j][y].effect = zones[j][y].effect
    BY <1>2, <1>5, <1>6
  <2>2. DOMAIN WH(out) = DOMAIN WW(out) /\ DOMAIN WW(out) \subseteq Index \X Zone
    BY <1>4, <1>5
  <2> QED BY <1>1, <1>2, <2>1, <2>2, StaticHoldsAfter
<1>11. Index # {}
  BY <1>4
<1> QED BY <1>2, <1>8, <1>9, <1>10, <1>11, SessionKept DEF IInv

-----------------------------------------------------------------------------
(* Safety. *)

LEMMA NextIInv == IInv /\ [Next]_vars => IInv'
<1> SUFFICES ASSUME IInv, [Next]_vars PROVE IInv'
  OBVIOUS
<1>1. CASE UNCHANGED vars
  BY <1>1 DEF vars, IInv, TypeOK, DiscoveryIsExclusive, ConfirmedPresent, StreamsAnimated,
              StaticZoneHolds, Distinct, NothingWrittenYet, Index
<1>2. CASE StartBackendDiscovery
  BY <1>2, StartIInv
<1>3. ASSUME NEW found \in DeviceLists,
             FinishBackendDiscovery(found) \/ InitializeBackends(found)
      PROVE  IInv'
  BY <1>3, FinishIInv, InitializeIInv
<1>4. ASSUME NEW enabled \in BOOLEAN, SetDryRunEnabled(enabled) PROVE IInv'
  BY <1>4, SetDryRunIInv
<1>5. ASSUME NEW i \in Index,
             ConfirmDeviceWrites(i) \/ RevokeDeviceWrites(i) \/ ApplyAllOff(i)
      PROVE  IInv'
  BY <1>5, ConfirmIInv, RevokeIInv, AllOffIInv
<1>6. ASSUME NEW i \in Index, NEW z \in Zone, NEW n \in LedCount, UpdateZone(i, z, n)
      PROVE  IInv'
  BY <1>6, UpdateZoneIInv
<1>7. ASSUME NEW i \in Index, NEW z \in Zone, NEW e \in Effect, NEW own \in BOOLEAN,
             ApplyZoneEffect(i, z, e, own)
      PROVE  IInv'
  BY <1>7, ApplyIInv
<1>8. ASSUME NEW i \in Index, NEW z \in Zone, NEW f \in Frame, PaintZoneFrame(i, z, f)
      PROVE  IInv'
  BY <1>8, PaintIInv
<1>9. CASE Tick
  BY <1>9, TickIInv
<1> QED BY <1>1, <1>2, <1>3, <1>4, <1>5, <1>6, <1>7, <1>8, <1>9 DEF Next

LEMMA Inductive == Spec => []IInv
<1> QED BY InitIInv, NextIInv, PTL DEF Spec

(* Every variable keeps its type. *)
THEOREM TypeCorrect == Spec => []TypeOK
BY Inductive, PTL DEF IInv

(* While a discovery runs there is no device, confirmation or stream, and  *)
(* the completion flags tell the truth about the runner's thread.          *)
THEOREM DiscoveryExclusion == Spec => []DiscoveryIsExclusive
BY Inductive, PTL DEF IInv

(* No confirmation outlives its device list, for any permission table. *)
THEOREM ConfirmationsCurrent == Spec => []ConfirmedPresent
BY Inductive, PTL DEF IInv

(* The engine streams only writable zones whose effect is animated. *)
THEOREM OnlyAnimatedStream == Spec => []StreamsAnimated
BY Inductive, PTL DEF IInv

(* A static effect set by the daemon stays on the LEDs: no later tick, for *)
(* any number of devices and zones, paints over it.                        *)
THEOREM StaticEffectsHold == Spec => []StaticZoneHolds
BY Inductive, PTL DEF IInv

-----------------------------------------------------------------------------
(* The manager implements WriteAuthority: every step that changes LEDs is  *)
(* a Write to listed, authorised devices while dry-run is off.             *)

(* The three ways a step writes hardware, as one: a set T of keys of       *)
(* listed, authorised, writable zones is overwritten and the session, the  *)
(* list and dry-run stay.                                                  *)
WritesOnly(T) ==
  /\ T \subseteq Index \X Zone
  /\ \A k \in T : /\ <<devices[k[1]], k[2]>> \notin ReadOnlyZone
                  /\ \E op \in Operation : Authorised(devices[k[1]], op)
  /\ ~dryRun
  /\ UNCHANGED <<devices, confirmed, dryRun>>
  /\ \E W : DOMAIN W = T /\ hardware' = Overwrite(hardware, W)

LEMMA ApplyWrites ==
  ASSUME NEW i \in Index, NEW z \in Zone, NEW e \in Effect, NEW own \in BOOLEAN,
         IInv, ApplyZoneEffect(i, z, e, own)
  PROVE  \E T : WritesOnly(T)
<1>1. PICK out \in Outcome :
        hardware' = Overwrite(hardware,
                      [j \in IF out = "failed" THEN {} ELSE {<<i, z>>} |->
                         Sent(out, <<zones[i][z].leds, ColorAt[e][0]>>)])
  BY DEF ApplyZoneEffect
<1> DEFINE T == IF out = "failed" THEN {} ELSE {<<i, z>>}
           W == [j \in T |-> Sent(out, <<zones[i][z].leds, ColorAt[e][0]>>)]
<1>2. DOMAIN W = T /\ hardware' = Overwrite(hardware, W)
  BY <1>1
<1>3. T \subseteq Index \X Zone /\ \A k \in T : k[1] = i /\ k[2] = z
  OBVIOUS
<1>4. /\ ~dryRun /\ <<devices[i], z>> \notin ReadOnlyZone
      /\ \E op \in Operation : Authorised(devices[i], op)
  BY DEF ApplyZoneEffect, SupportsZoneEffect, GateApplies, Operates, Operation
<1>5. UNCHANGED <<devices, confirmed, dryRun>>
  BY DEF ApplyZoneEffect, session
<1> HIDE DEF T, W
<1>6. WritesOnly(T)
  BY <1>2, <1>3, <1>4, <1>5 DEF WritesOnly
<1> QED BY <1>6

LEMMA AllOffWrites ==
  ASSUME NEW i \in Index, IInv, ApplyAllOff(i)
  PROVE  \E T : WritesOnly(T)
<1> DEFINE writable == {z \in Zone : <<devices[i], z>> \notin ReadOnlyZone}
           W(Z) == [k \in {i} \X Z |-> <<zones[i][k[2]].leds, ColorAt[OffEffect][0]>>]
<1>1. PICK Z \in SUBSET writable : hardware' = Overwrite(hardware, W(Z))
  BY DEF ApplyAllOff
<1>2. /\ DOMAIN W(Z) = {i} \X Z /\ {i} \X Z \subseteq Index \X Zone
      /\ \A k \in {i} \X Z : k[1] = i /\ <<devices[i], k[2]>> \notin ReadOnlyZone
  OBVIOUS
<1>3. ~dryRun /\ \E op \in Operation : Authorised(devices[i], op)
  BY DEF ApplyAllOff, GateApplies, Operation
<1>4. UNCHANGED <<devices, confirmed, dryRun>>
  BY DEF ApplyAllOff, session
<1> HIDE DEF W
<1>5. WritesOnly({i} \X Z)
  BY <1>1, <1>2, <1>3, <1>4 DEF WritesOnly
<1> QED BY <1>5

LEMMA PaintWrites ==
  ASSUME NEW i \in Index, NEW z \in Zone, NEW f \in Frame, IInv, PaintZoneFrame(i, z, f)
  PROVE  UNCHANGED hardware \/ \E T : WritesOnly(T)
<1>1. CASE ~Authorised(devices[i], "ZoneEffectWrite")
  BY <1>1 DEF PaintZoneFrame
<1>2. CASE Authorised(devices[i], "ZoneEffectWrite")
  <2>1. PICK out \in {"ok", "partial"} :
          hardware' = Overwrite(hardware, [j \in {<<i, z>>} |-> Sent(out, f)])
    BY <1>2 DEF PaintZoneFrame
  <2> DEFINE W == [j \in {<<i, z>>} |-> Sent(out, f)]
  <2>2. DOMAIN W = {<<i, z>>} /\ hardware' = Overwrite(hardware, W)
    BY <2>1
  <2>3. <<devices[i], z>> \notin ReadOnlyZone /\ ~dryRun
        /\ UNCHANGED <<devices, confirmed, dryRun>>
    BY <1>2 DEF PaintZoneFrame, session
  <2> HIDE DEF W
  <2>4. WritesOnly({<<i, z>>})
    BY <1>2, <2>2, <2>3 DEF WritesOnly, Operation
  <2> QED BY <2>4
<1> QED BY <1>1, <1>2

LEMMA TickWrites ==
  ASSUME IInv, Tick
  PROVE  UNCHANGED hardware \/ \E T : WritesOnly(T)
<1> DEFINE due     == {k \in streaming : accepted[k] # FrameOf(k, clock)}
           refused == {k \in due : /\ ~dryRun
                                   /\ ~Authorised(devices[k[1]], "ZoneEffectWrite")}
           painted == IF dryRun THEN {} ELSE due \ refused
           T(out) == {k \in painted : out[k] # "failed"}
           W(out) == [k \in T(out) |-> Sent(out[k], FrameOf(k, clock))]
<1>1. PICK out \in [painted -> Outcome] : hardware' = Overwrite(hardware, W(out))
  BY DEF Tick
<1>2. DOMAIN W(out) = T(out)
  OBVIOUS
<1>3. T(out) \subseteq Index \X Zone
  BY DEF IInv, TypeOK
<1>4. UNCHANGED <<devices, confirmed, dryRun>>
  BY DEF Tick, session
<1>5. CASE dryRun
  <2>1. hardware' = [d \in Device |-> [z \in Zone |-> hardware[d][z]]]
    BY <1>1, <1>5 DEF Overwrite, KeysOf
  <2> QED BY <2>1 DEF IInv, TypeOK
<1>6. CASE ~dryRun
  <2>1. \A k \in T(out) : /\ <<devices[k[1]], k[2]>> \notin ReadOnlyZone
                          /\ Authorised(devices[k[1]], "ZoneEffectWrite")
    BY <1>6 DEF IInv, StreamsAnimated
  <2> HIDE DEF T, W
  <2>2. WritesOnly(T(out))
    BY <1>1, <1>2, <1>3, <1>4, <1>6, <2>1 DEF WritesOnly, Operation
  <2> QED BY <2>2
<1> QED BY <1>5, <1>6

(* Every step either leaves the LEDs alone or is one of those writes. *)
LEMMA StepWrites ==
  ASSUME IInv, [Next]_vars
  PROVE  UNCHANGED hardware \/ \E T : WritesOnly(T)
<1>1. CASE UNCHANGED vars
  BY <1>1 DEF vars
<1>2. CASE StartBackendDiscovery
  BY <1>2 DEF StartBackendDiscovery
<1>3. ASSUME NEW found \in DeviceLists,
             FinishBackendDiscovery(found) \/ InitializeBackends(found)
      PROVE  UNCHANGED hardware
  BY <1>3 DEF FinishBackendDiscovery, InitializeBackends
<1>4. ASSUME NEW enabled \in BOOLEAN, SetDryRunEnabled(enabled) PROVE UNCHANGED hardware
  BY <1>4 DEF SetDryRunEnabled
<1>5. ASSUME NEW i \in Index, ConfirmDeviceWrites(i) \/ RevokeDeviceWrites(i)
      PROVE  UNCHANGED hardware
  BY <1>5 DEF ConfirmDeviceWrites, RevokeDeviceWrites
<1>6. ASSUME NEW i \in Index, ApplyAllOff(i) PROVE \E T : WritesOnly(T)
  BY <1>6, AllOffWrites
<1>7. ASSUME NEW i \in Index, NEW z \in Zone, NEW n \in LedCount, UpdateZone(i, z, n)
      PROVE  UNCHANGED hardware
  BY <1>7 DEF UpdateZone
<1>8. ASSUME NEW i \in Index, NEW z \in Zone, NEW e \in Effect, NEW own \in BOOLEAN,
             ApplyZoneEffect(i, z, e, own)
      PROVE  \E T : WritesOnly(T)
  BY <1>8, ApplyWrites
<1>9. ASSUME NEW i \in Index, NEW z \in Zone, NEW f \in Frame, PaintZoneFrame(i, z, f)
      PROVE  UNCHANGED hardware \/ \E T : WritesOnly(T)
  BY <1>9, PaintWrites
<1>10. CASE Tick
  BY <1>10, TickWrites
<1> QED
  BY <1>1, <1>2, <1>3, <1>4, <1>5, <1>6, <1>7, <1>8, <1>9, <1>10 DEF Next

LEMMA GuardInit == Init => Guard!Init
BY DEF Init, Guard!Init, Writable, Index

LEMMA GuardStep == IInv /\ [Next]_vars => [Guard!Next]_(Guard!vars)
<1> SUFFICES ASSUME IInv, [Next]_vars PROVE Guard!Next
  OBVIOUS
<1>1. CASE UNCHANGED hardware
  BY <1>1 DEF Guard!Next, Guard!ChangeAuthority
<1>2. CASE \E T : WritesOnly(T)
  <2>1. PICK T : WritesOnly(T)
    BY <1>2
  <2>2. PICK W : DOMAIN W = T /\ hardware' = Overwrite(hardware, W)
    BY <2>1 DEF WritesOnly
  <2> DEFINE S == {devices[k[1]] : k \in T}
  <2>3. S \subseteq Writable
    <3> SUFFICES ASSUME NEW k \in T PROVE devices[k[1]] \in Writable
      OBVIOUS
    <3>1. k[1] \in Index /\ \E op \in Operation : Authorised(devices[k[1]], op)
      BY <2>1 DEF WritesOnly
    <3>2. devices[k[1]] \in Device
      BY <3>1 DEF IInv, TypeOK, Index
    <3> QED BY <3>1, <3>2 DEF Writable
  <2>4. \A d \in Device \ S : hardware'[d] = hardware[d]
    <3> SUFFICES ASSUME NEW d \in Device, d \notin S
                 PROVE  Overwrite(hardware, W)[d] = hardware[d]
      BY <2>2
    <3>1. \A k \in DOMAIN W : devices[k[1]] # d
      BY <2>2
    <3> QED BY <3>1, OverwriteDevices DEF IInv, TypeOK
  <2>5. Writable' = Writable
    BY <2>1 DEF WritesOnly, Writable, Index, Authorised
  <2>6. ~dryRun /\ UNCHANGED dryRun
    BY <2>1 DEF WritesOnly
  <2>7. S \in SUBSET Device
    BY <2>3 DEF Writable
  <2>8. Guard!Write(S)
    BY <2>3, <2>4, <2>5, <2>6 DEF Guard!Write
  <2> QED BY <2>7, <2>8 DEF Guard!Next
<1> QED BY <1>1, <1>2, StepWrites

(* For every set of devices and every permission table, the LEDs change    *)
(* only as WriteAuthority allows: the manager implements the guarded store. *)
THEOREM ManagerIsGuarded == Spec => HardwareIsGuarded
<1>1. Spec => Guard!Init /\ [][Guard!Next]_(Guard!vars)
  BY Inductive, GuardInit, GuardStep, PTL DEF Spec
<1> QED BY <1>1 DEF HardwareIsGuarded, Guard!Spec

(* No step, whatever it is, changes the LEDs of a fixed mainboard zone. *)
THEOREM FixedZonesNeverWritten == Spec => FixedZonesUntouched
<1> DEFINE Untouched == \A dz \in ReadOnlyZone : hardware'[dz[1]][dz[2]] = hardware[dz[1]][dz[2]]
<1>1. IInv /\ [Next]_vars => Untouched
  <2> SUFFICES ASSUME IInv, [Next]_vars, NEW dz \in ReadOnlyZone
               PROVE  hardware'[dz[1]][dz[2]] = hardware[dz[1]][dz[2]]
    OBVIOUS
  <2>1. CASE UNCHANGED hardware
    BY <2>1
  <2>2. ASSUME NEW T, WritesOnly(T)
        PROVE  hardware'[dz[1]][dz[2]] = hardware[dz[1]][dz[2]]
    <3>1. PICK W : DOMAIN W = T /\ hardware' = Overwrite(hardware, W)
      BY <2>2 DEF WritesOnly
    <3>2. dz[1] \in Device /\ dz[2] \in Zone /\ dz = <<dz[1], dz[2]>>
      BY DeviceAssumption
    <3>3. \A k \in DOMAIN W : ~(devices[k[1]] = dz[1] /\ k[2] = dz[2])
      BY <2>2, <3>1, <3>2 DEF WritesOnly
    <3> QED BY <3>1, <3>2, <3>3, OverwriteElsewhere
  <2> QED BY <2>1, <2>2, StepWrites
<1>2. IInv /\ [Next]_vars => [Untouched]_vars
  BY <1>1
<1>3. Spec => [][Untouched]_vars
  BY <1>2, Inductive, PTL DEF Spec
<1> QED BY <1>3 DEF FixedZonesUntouched

=============================================================================
