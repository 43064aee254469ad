--------------------------- MODULE StandaloneProofs ---------------------------
(***************************************************************************)
(* Proofs about the components that MCStandalone checks on instances: the  *)
(* device tree, the launcher, the Aura controller, the frame codec and the *)
(* profiles, for all values of their constants.                            *)
(***************************************************************************)
EXTENDS DeviceTree, DaemonLauncher, AuraController, FrameCodec, Profiles, IndicesProofs

-----------------------------------------------------------------------------
(* The lists of devices the daemon sends and the rows made of them.        *)

ListedZone == [name : Name, color : Color]
ListedDevice == [id : Id, confirmed : BOOLEAN, controller : BOOLEAN, zones : Seq(ListedZone)]

Row == [device : Nat \ {0}, zones : Seq(Nat)]
View == [confirmed : BOOLEAN, zones : Seq(ListedZone)]

NamesOK ==
  /\ daemonName \in [Id -> Seq(Name)]
  /\ \A d \in Id : Len(daemonName[d]) = Len(Hidden[d])

LEMMA OrderOK ==
  ASSUME DeviceTreeAssumption, NEW order \in Orders
  PROVE  order \in Seq(Id) /\ \A i, j \in DOMAIN order : order[i] = order[j] => i = j
<1>1. PICK S \in SUBSET Id : order \in SetToSeqs(S)
  BY DEF Orders
<1>2. IsFiniteSet(Id)
  BY DEF DeviceTreeAssumption
<1>3. Cardinality(S) \in Nat
  BY <1>2, FS_Subset, FS_CardinalityType
<1>4. /\ order \in [1 .. Cardinality(S) -> S]
      /\ \A i, j \in 1 .. Cardinality(S) : i # j => order[i] # order[j]
  BY <1>1, Zenon DEF SetToSeqs
<1> QED BY <1>3, <1>4

LEMMA ListingOK ==
  ASSUME DeviceTreeAssumption, NamesOK, NEW order \in Orders
  PROVE  /\ Listing(order) \in Seq(ListedDevice)
         /\ DOMAIN Listing(order) = DOMAIN order
         /\ \A i \in DOMAIN order : Listing(order)[i].id = order[i]
<1> DEFINE c == CHOOSE c \in Color : TRUE
           zonesOf(d) == [z \in DOMAIN Hidden[d] |-> [name |-> daemonName[d][z], color |-> c]]
<1>1. order \in Seq(Id)
  BY OrderOK
<1>2. c \in Color
  BY DEF DeviceTreeAssumption
<1>3. ASSUME NEW d \in Id PROVE zonesOf(d) \in Seq(ListedZone)
  <2>1. Hidden[d] \in Seq(BOOLEAN) /\ daemonName[d] \in Seq(Name)
        /\ Len(daemonName[d]) = Len(Hidden[d])
    BY DEF NamesOK, DeviceTreeAssumption
  <2> HIDE DEF c
  <2>2. ASSUME NEW z \in DOMAIN Hidden[d]
        PROVE  [name |-> daemonName[d][z], color |-> c] \in ListedZone
    <3>1. daemonName[d][z] \in Name
      BY <2>1
    <3> QED BY <1>2, <3>1 DEF ListedZone
  <2>3. DOMAIN Hidden[d] = 1 .. Len(Hidden[d]) /\ Len(Hidden[d]) \in Nat
    BY <2>1
  <2>4. [z \in DOMAIN Hidden[d] |-> [name |-> daemonName[d][z], color |-> c]]
          \in [1 .. Len(Hidden[d]) -> ListedZone]
    BY <2>2, <2>3
  <2> QED BY <2>3, <2>4
<1>4. ASSUME NEW d \in Id, NEW choice PROVE IsRgbController(d, choice) \in BOOLEAN
  <2>1. CASE choice = "none"
    BY <2>1 DEF IsRgbController
  <2>2. CASE choice # "none"
    BY <2>2 DEF IsRgbController
  <2> QED BY <2>1, <2>2
<1>5. Listing(order) =
        [k \in DOMAIN order |->
           [id |-> order[k], confirmed |-> FALSE,
            controller |-> IsRgbController(order[k], override[order[k]]),
            zones |-> zonesOf(order[k])]]
  BY DEF Listing
<1> HIDE DEF zonesOf
<1>6. ASSUME NEW k \in DOMAIN order
      PROVE  Listing(order)[k] \in ListedDevice /\ Listing(order)[k].id = order[k]
  <2>1. order[k] \in Id
    BY <1>1
  <2>2. IsRgbController(order[k], override[order[k]]) \in BOOLEAN
    BY <1>4, <2>1
  <2>3. zonesOf(order[k]) \in Seq(ListedZone)
    BY <1>3, <2>1
  <2> QED BY <1>5, <2>1, <2>2, <2>3 DEF ListedDevice
<1> QED BY <1>1, <1>5, <1>6

RowsOK(list, f, rs) ==
  /\ rs \in Seq(Row)
  /\ \A r \in DOMAIN rs :
       /\ IsDeviceVisible(list, f, rs[r].device)
       /\ \A k \in DOMAIN rs[r].zones : rs[r].zones[k] \in DOMAIN list[rs[r].device].zones
  /\ \A r, q \in DOMAIN rs : rs[r].device = rs[q].device => r = q

LEMMA RowTypes ==
  ASSUME NEW list \in Seq(ListedDevice), NEW f, NEW rs, RowsOK(list, f, rs), NEW r \in DOMAIN rs
  PROVE  /\ rs[r].device \in DOMAIN list /\ rs[r].device \in Nat \ {0}
         /\ rs[r].zones \in Seq(Nat)
         /\ list[rs[r].device] \in ListedDevice
<1>1. rs \in Seq(Row)
  BY DEF RowsOK
<1>2. rs[r] \in Row
  BY <1>1
<1>3. rs[r].device \in DOMAIN list
  BY DEF RowsOK, IsDeviceVisible
<1> QED BY <1>2, <1>3 DEF Row

LEMMA RowsListed ==
  ASSUME NEW list \in Seq(ListedDevice), NEW f
  PROVE  RowsOK(list, f, Rows(list, f))
<1> DEFINE S == {i \in DOMAIN list : IsDeviceVisible(list, f, i)}
           visible == Ascending(S)
           rs == Rows(list, f)
<1>1. S \in SUBSET (1 .. Len(list)) /\ Len(list) \in Nat
  OBVIOUS
<1>2. visible \in Seq(S) /\ \A j, k \in DOMAIN visible : visible[j] = visible[k] => j = k
  <2> HIDE DEF S
  <2> QED BY <1>1, AscendingCollects
<1>3. ASSUME NEW i \in S
      PROVE  Ascending(VisibleZones(list, f, i)) \in Seq(DOMAIN list[i].zones)
  <2>1. list[i] \in ListedDevice
    OBVIOUS
  <2>2. list[i].zones \in Seq(ListedZone)
    BY <2>1 DEF ListedDevice
  <2>3. VisibleZones(list, f, i) \in SUBSET (1 .. Len(list[i].zones)) /\ Len(list[i].zones) \in Nat
    BY <2>2 DEF VisibleZones
  <2>4. Ascending(VisibleZones(list, f, i)) \in Seq(VisibleZones(list, f, i))
    BY <2>3, AscendingCollects
  <2>5. VisibleZones(list, f, i) \subseteq DOMAIN list[i].zones
    BY DEF VisibleZones
  <2> QED BY <2>4, <2>5
<1>4. ASSUME NEW i \in S PROVE DOMAIN list[i].zones \subseteq Nat
  <2>1. list[i] \in ListedDevice
    OBVIOUS
  <2>2. list[i].zones \in Seq(ListedZone)
    BY <2>1 DEF ListedDevice
  <2> QED BY <2>2
<1>5. rs = [r \in DOMAIN visible |->
              [device |-> visible[r],
               zones |-> Ascending(VisibleZones(list, f, visible[r]))]]
  BY DEF Rows
<1>6. \A i \in S : i \in Nat \ {0} /\ IsDeviceVisible(list, f, i)
  OBVIOUS
<1> HIDE DEF S, visible, rs
<1>7. \A i \in S : Ascending(VisibleZones(list, f, i)) \in Seq(Nat)
  BY <1>3, <1>4
<1>8. DOMAIN rs = 1 .. Len(visible) /\ Len(visible) \in Nat
  BY <1>2, <1>5
<1>9. ASSUME NEW r \in DOMAIN rs
      PROVE  /\ visible[r] \in S
             /\ rs[r] = [device |-> visible[r],
                         zones |-> Ascending(VisibleZones(list, f, visible[r]))]
  BY <1>2, <1>5, <1>8
<1>10. \A r \in DOMAIN rs : rs[r] \in Row
  BY <1>6, <1>7, <1>9 DEF Row
<1>11. rs \in Seq(Row)
  BY <1>5, <1>8, <1>10
<1>12. ASSUME NEW r \in DOMAIN rs
       PROVE  /\ IsDeviceVisible(list, f, rs[r].device)
              /\ \A k \in DOMAIN rs[r].zones : rs[r].zones[k] \in DOMAIN list[rs[r].device].zones
  <2>1. rs[r].device = visible[r] /\ visible[r] \in S
    BY <1>9
  <2>2. rs[r].zones \in Seq(DOMAIN list[visible[r]].zones)
    BY <1>3, <1>9
  <2> QED BY <1>6, <2>1, <2>2
<1>13. \A r, q \in DOMAIN rs : rs[r].device = rs[q].device => r = q
  BY <1>2, <1>5, <1>9
<1> QED BY <1>11, <1>12, <1>13 DEF RowsOK, rs

(* A view of the rows is current, as far as RowsAreCurrent claims.         *)
Current(list, rs, view) ==
  /\ view \in [DOMAIN rs -> View]
  /\ \A r \in DOMAIN rs :
       /\ DOMAIN view[r].zones = DOMAIN rs[r].zones
       /\ view[r].confirmed = list[rs[r].device].confirmed
       /\ \A k \in DOMAIN rs[r].zones :
            rs[r].zones[k] = k => view[r].zones[k] = list[rs[r].device].zones[k]

LEMMA ReadIsCurrent ==
  ASSUME NEW list \in Seq(ListedDevice), NEW f, NEW rs, RowsOK(list, f, rs)
  PROVE  Current(list, rs, ReadRows(list, rs))
<1> DEFINE view == ReadRows(list, rs)
<1>1. ASSUME NEW r \in DOMAIN rs
      PROVE  /\ view[r] \in View
             /\ DOMAIN view[r].zones = DOMAIN rs[r].zones
             /\ view[r].confirmed = list[rs[r].device].confirmed
             /\ \A k \in DOMAIN rs[r].zones :
                  view[r].zones[k] = list[rs[r].device].zones[rs[r].zones[k]]
  <2> DEFINE device == list[rs[r].device]
             read == [k \in DOMAIN rs[r].zones |-> device.zones[rs[r].zones[k]]]
  <2>1. device \in ListedDevice
    BY RowTypes
  <2>2. device.confirmed \in BOOLEAN /\ device.zones \in Seq(ListedZone)
    BY <2>1 DEF ListedDevice
  <2>3. rs[r].zones \in Seq(Nat)
    BY RowTypes
  <2>4. \A k \in DOMAIN rs[r].zones : rs[r].zones[k] \in DOMAIN device.zones
    BY DEF RowsOK
  <2>5. view[r] = [confirmed |-> device.confirmed, zones |-> read]
    BY DEF ReadRows
  <2> HIDE DEF device, view
  <2>6. read \in Seq(ListedZone)
    BY <2>2, <2>3, <2>4
  <2> QED BY <2>2, <2>5, <2>6 DEF device, View
<1>2. view = [r \in DOMAIN rs |-> view[r]]
  BY DEF ReadRows
<1> HIDE DEF view
<1>3. view \in [DOMAIN rs -> View]
  BY <1>1, <1>2
<1> QED BY <1>1, <1>3 DEF Current, view

-----------------------------------------------------------------------------
(* What a step makes of the rows.                                          *)

TreeInv ==
  /\ devices \in Seq(ListedDevice)
  /\ NamesOK
  /\ RowsOK(devices, filter, rows)
  /\ Current(devices, rows, shown)

LEMMA RebuildOK ==
  ASSUME devices' \in Seq(ListedDevice), Rebuild
  PROVE  RowsOK(devices', filter', rows') /\ Current(devices', rows', shown')
<1>1. rows' = Rows(devices', filter') /\ shown' = ReadRows(devices', rows')
  BY DEF Rebuild
<1>2. RowsOK(devices', filter', rows')
  BY <1>1, RowsListed
<1> QED BY <1>1, <1>2, ReadIsCurrent

(* ListedDevice i keeps its shape, the others stay as they are.                  *)
SameShape(i) ==
  /\ devices' \in Seq(ListedDevice) /\ DOMAIN devices' = DOMAIN devices
  /\ \A d \in DOMAIN devices :
       /\ DOMAIN devices'[d].zones = DOMAIN devices[d].zones
       /\ devices'[d].controller = devices[d].controller
       /\ d # i => devices'[d] = devices[d]

Changes(i, Z) ==
  /\ SameShape(i)
  /\ devices'[i].confirmed = devices[i].confirmed
  /\ \A z \in DOMAIN devices[i].zones : z \notin Z => devices'[i].zones[z] = devices[i].zones[z]

LEMMA RowsStay ==
  ASSUME TreeInv, NEW i, SameShape(i)
  PROVE  RowsOK(devices', filter, rows)
<1>1. ASSUME NEW r \in DOMAIN rows
      PROVE  /\ IsDeviceVisible(devices', filter, rows[r].device)
             /\ \A k \in DOMAIN rows[r].zones :
                  rows[r].zones[k] \in DOMAIN devices'[rows[r].device].zones
  <2>1. /\ IsDeviceVisible(devices, filter, rows[r].device)
        /\ \A k \in DOMAIN rows[r].zones :
             rows[r].zones[k] \in DOMAIN devices[rows[r].device].zones
    BY DEF TreeInv, RowsOK
  <2>2. rows[r].device \in DOMAIN devices
    BY <2>1 DEF IsDeviceVisible
  <2> QED BY <2>1, <2>2 DEF SameShape, IsDeviceVisible
<1> QED BY <1>1 DEF TreeInv, RowsOK

LEMMA RowOf ==
  ASSUME TreeInv, NEW i
  PROVE  \/ IndexForDevice(i) = 0 /\ \A q \in DOMAIN rows : rows[q].device # i
         \/ /\ IndexForDevice(i) \in DOMAIN rows /\ IndexForDevice(i) # 0
            /\ \A q \in DOMAIN rows : rows[q].device = i <=> q = IndexForDevice(i)
<1> DEFINE S == {r \in DOMAIN rows : rows[r].device = i}
<1>1. rows \in Seq(Row) /\ \A r, q \in DOMAIN rows : rows[r].device = rows[q].device => r = q
  BY DEF TreeInv, RowsOK
<1>2. S \in SUBSET (Nat \ {0})
  BY <1>1
<1>3. IndexForDevice(i) = First(S)
  BY DEF IndexForDevice
<1>4. CASE S = {}
  BY <1>2, <1>3, <1>4, FirstIsLeast
<1>5. CASE S # {}
  <2>1. First(S) \in S /\ First(S) # 0
    BY <1>2, <1>5, FirstIsLeast
  <2> QED BY <1>1, <1>3, <2>1
<1> QED BY <1>4, <1>5

LEMMA ZoneNotified ==
  ASSUME TreeInv, NEW i \in DOMAIN devices, NEW Z, Changes(i, Z), NotifyZoneChanged(i, Z)
  PROVE  Current(devices', rows, shown')
<1> DEFINE r == IndexForDevice(i)
<1>1. /\ Current(devices, rows, shown) /\ RowsOK(devices, filter, rows)
      /\ devices \in Seq(ListedDevice)
  BY DEF TreeInv
<1>2. RowsOK(devices', filter, rows) /\ devices' \in Seq(ListedDevice)
  BY RowsStay DEF Changes, SameShape
<1>3. ASSUME NEW q \in DOMAIN rows, rows[q].device # i
      PROVE  devices'[rows[q].device] = devices[rows[q].device]
  BY <1>1, <1>3, RowTypes DEF Changes, SameShape
<1>4. CASE r = 0
  <2>1. \A q \in DOMAIN rows : rows[q].device # i
    BY <1>4, RowOf
  <2>2. shown' = shown
    BY <1>4 DEF NotifyZoneChanged
  <2> QED BY <1>1, <1>3, <2>1, <2>2 DEF Current
<1>5. CASE r # 0 /\ Z = {}
  <2>1. shown' = shown
    BY <1>5 DEF NotifyZoneChanged
  <2>2. ASSUME NEW q \in DOMAIN rows, rows[q].device = i
        PROVE  /\ devices'[i].confirmed = devices[i].confirmed
               /\ \A k \in DOMAIN rows[q].zones : rows[q].zones[k] \in DOMAIN devices[i].zones
               /\ \A z \in DOMAIN devices[i].zones : devices'[i].zones[z] = devices[i].zones[z]
    BY <1>1, <1>5, <2>2 DEF Changes, RowsOK
  <2>3. ASSUME NEW q \in DOMAIN rows
        PROVE  /\ DOMAIN shown'[q].zones = DOMAIN rows[q].zones
               /\ shown'[q].confirmed = devices'[rows[q].device].confirmed
               /\ \A k \in DOMAIN rows[q].zones :
                    rows[q].zones[k] = k => shown'[q].zones[k] = devices'[rows[q].device].zones[k]
    <3>1. CASE rows[q].device # i
      BY <1>1, <1>3, <2>1, <3>1 DEF Current
    <3>2. CASE rows[q].device = i
      BY <1>1, <2>1, <2>2, <3>2 DEF Current
    <3> QED BY <3>1, <3>2
  <2> QED BY <1>1, <2>1, <2>3 DEF Current
<1>6. CASE r # 0 /\ Z # {}
  <2> DEFINE zs == [k \in DOMAIN shown[r].zones |->
                      IF k \in Z THEN ZoneRead(<<r, k>>) ELSE shown[r].zones[k]]
             read == [confirmed |-> devices'[rows[r].device].confirmed, zones |-> zs]
  <2>1. r \in DOMAIN rows /\ \A q \in DOMAIN rows : rows[q].device = i <=> q = r
    BY <1>6, RowOf
  <2>2. shown' = [shown EXCEPT ![r] = read]
    BY <1>6 DEF NotifyZoneChanged
  <2> HIDE DEF r
  <2>3. rows[r].device = i
    BY <2>1
  <2>4. shown[r] \in View /\ DOMAIN shown[r].zones = DOMAIN rows[r].zones
        /\ shown[r].zones \in Seq(ListedZone)
    BY <1>1, <2>1 DEF Current, View
  <2>5. devices'[i] \in ListedDevice
    BY <1>2, <2>1, <2>3, RowTypes
  <2>6. devices'[i].confirmed \in BOOLEAN /\ devices'[i].zones \in Seq(ListedZone)
    BY <2>5 DEF ListedDevice
  <2>7. ASSUME NEW k \in DOMAIN rows[r].zones
        PROVE  /\ rows[r].zones[k] \in DOMAIN devices'[i].zones
               /\ ZoneRead(<<r, k>>) = devices'[i].zones[rows[r].zones[k]]
    <3>1. rows[r].zones[k] \in DOMAIN devices'[i].zones
      BY <1>2, <2>1, <2>3 DEF RowsOK
    <3>2. ZoneRead(<<r, k>>) = devices'[rows[r].device].zones[rows[r].zones[k]]
      BY DEF ZoneRead
    <3> QED BY <2>3, <3>1, <3>2
  <2>8. \A k \in DOMAIN rows[r].zones : zs[k] \in ListedZone
    BY <2>4, <2>6, <2>7
  <2>9. zs \in Seq(ListedZone)
    <3>1. DOMAIN shown[r].zones = 1 .. Len(shown[r].zones) /\ Len(shown[r].zones) \in Nat
      BY <2>4
    <3>2. DOMAIN zs = DOMAIN shown[r].zones /\ zs = [k \in DOMAIN shown[r].zones |-> zs[k]]
      OBVIOUS
    <3> HIDE DEF zs
    <3>3. zs \in [1 .. Len(shown[r].zones) -> ListedZone]
      BY <2>4, <2>8, <3>1, <3>2
    <3> QED BY <3>1, <3>3
  <2>10. ASSUME NEW k \in DOMAIN rows[r].zones, rows[r].zones[k] = k
         PROVE  zs[k] = devices'[i].zones[k]
    <3>1. CASE k \in Z
      BY <2>4, <2>7, <2>10, <3>1
    <3>2. CASE k \notin Z
      <4>1. shown[r].zones[k] = devices[i].zones[k]
        BY <1>1, <2>1, <2>3, <2>10 DEF Current
      <4>2. k \in DOMAIN devices[i].zones
        BY <1>1, <2>1, <2>3, <2>10 DEF RowsOK
      <4>3. devices'[i].zones[k] = devices[i].zones[k]
        BY <3>2, <4>2 DEF Changes
      <4> QED BY <2>4, <3>2, <4>1, <4>3
    <3> QED BY <3>1, <3>2
  <2>11. /\ read.confirmed = devices'[i].confirmed
         /\ read.zones = zs /\ DOMAIN zs = DOMAIN rows[r].zones
         /\ read \in View
    BY <2>3, <2>4, <2>6, <2>9 DEF View
  <2>12. shown \in [DOMAIN rows -> View]
    BY <1>1 DEF Current
  <2> HIDE DEF read, zs
  <2>13. shown' \in [DOMAIN rows -> View] /\ shown'[r] = read
         /\ \A q \in DOMAIN rows : q # r => shown'[q] = shown[q]
    BY <2>1, <2>2, <2>11, <2>12
  <2>14. ASSUME NEW q \in DOMAIN rows
        PROVE  /\ DOMAIN shown'[q].zones = DOMAIN rows[q].zones
               /\ shown'[q].confirmed = devices'[rows[q].device].confirmed
               /\ \A k \in DOMAIN rows[q].zones :
                    rows[q].zones[k] = k => shown'[q].zones[k] = devices'[rows[q].device].zones[k]
    <3>1. CASE q # r
      <4>1. rows[q].device # i
        BY <2>1, <3>1
      <4> QED BY <1>1, <1>3, <2>13, <3>1, <4>1 DEF Current
    <3>2. CASE q = r
      BY <2>3, <2>10, <2>11, <2>13, <3>2
    <3> QED BY <3>1, <3>2
  <2> QED BY <2>13, <2>14 DEF Current
<1> QED BY <1>4, <1>5, <1>6

LEMMA FrameNotified ==
  ASSUME TreeInv, NEW i \in DOMAIN devices, NEW z \in DOMAIN devices[i].zones, NEW color \in Color,
         Changes(i, {z}), devices'[i].zones[z] = [devices[i].zones[z] EXCEPT !.color = color],
         NotifyZoneFrameUpdated(i, z)
  PROVE  Current(devices', rows, shown')
<1> DEFINE r == IndexForDevice(i)
           at == IndexForZone(i, z)
<1>1. /\ Current(devices, rows, shown) /\ RowsOK(devices, filter, rows)
      /\ devices \in Seq(ListedDevice)
  BY DEF TreeInv
<1>2. RowsOK(devices', filter, rows) /\ devices' \in Seq(ListedDevice)
  BY RowsStay DEF Changes, SameShape
<1>3. ASSUME NEW q \in DOMAIN rows, rows[q].device # i
      PROVE  devices'[rows[q].device] = devices[rows[q].device]
  BY <1>1, <1>3, RowTypes DEF Changes, SameShape
(* No row of another zone shows this one. *)
<1>4. ASSUME NEW q \in DOMAIN rows, rows[q].device = i, NEW k \in DOMAIN rows[q].zones,
             rows[q].zones[k] = k, k # z
      PROVE  devices'[i].zones[k] = devices[i].zones[k]
  <2>1. k \in DOMAIN devices[i].zones
    BY <1>1, <1>4 DEF RowsOK
  <2> QED BY <1>4, <2>1 DEF Changes
<1>5. devices'[i].confirmed = devices[i].confirmed
  BY DEF Changes
<1>6. CASE r = 0 \/ z \notin DOMAIN rows[r].zones
  <2>1. at = <<>>
    BY <1>6 DEF IndexForZone
  <2>2. shown' = shown
    BY <2>1 DEF NotifyZoneFrameUpdated
  <2>3. \A q \in DOMAIN rows : rows[q].device = i => z \notin DOMAIN rows[q].zones
    BY <1>6, RowOf
  <2>4. ASSUME NEW q \in DOMAIN rows
        PROVE  /\ DOMAIN shown'[q].zones = DOMAIN rows[q].zones
               /\ shown'[q].confirmed = devices'[rows[q].device].confirmed
               /\ \A k \in DOMAIN rows[q].zones :
                    rows[q].zones[k] = k => shown'[q].zones[k] = devices'[rows[q].device].zones[k]
    <3>1. CASE rows[q].device # i
      BY <1>1, <1>3, <2>2, <3>1 DEF Current
    <3>2. CASE rows[q].device = i
      BY <1>1, <1>4, <1>5, <2>2, <2>3, <3>2 DEF Current
    <3> QED BY <3>1, <3>2
  <2> QED BY <1>1, <2>2, <2>4 DEF Current
<1>7. CASE r # 0 /\ z \in DOMAIN rows[r].zones
  <2>1. r \in DOMAIN rows /\ \A q \in DOMAIN rows : rows[q].device = i <=> q = r
    BY <1>7, RowOf
  <2>2. at = <<r, z>>
    BY <1>7 DEF IndexForZone
  <2>3. ZoneRead(at) = devices'[rows[r].device].zones[rows[r].zones[z]]
    BY <2>2 DEF ZoneRead
  <2> DEFINE new == ZoneRead(at).color
             zs  == [shown[r].zones EXCEPT ![z] = [@ EXCEPT !.color = new]]
             read == [shown[r] EXCEPT !.zones = zs]
  <2>4. shown' = [shown EXCEPT ![r].zones[z].color = new]
    <3>1. at # <<>> /\ at[1] = r /\ at[2] = z
      BY <2>2
    <3> QED BY <3>1 DEF NotifyZoneFrameUpdated
  <2> HIDE DEF r, at
  <2>5. rows[r].device = i
    BY <2>1
  <2>6. shown[r] \in View /\ DOMAIN shown[r].zones = DOMAIN rows[r].zones
        /\ shown[r].zones \in Seq(ListedZone)
    BY <1>1, <2>1 DEF Current, View
  <2>7. devices'[i] \in ListedDevice
    BY <1>2, <2>1, <2>5, RowTypes
  <2>8. devices'[i].zones \in Seq(ListedZone) /\ rows[r].zones[z] \in DOMAIN devices'[i].zones
    BY <1>2, <1>7, <2>1, <2>5, <2>7 DEF ListedDevice, RowsOK
  <2>9. devices'[i].zones[rows[r].zones[z]] \in ListedZone
    BY <2>8
  <2>10. new \in Color
    BY <2>3, <2>5, <2>9 DEF ListedZone
  <2>11. shown \in [DOMAIN rows -> View]
    BY <1>1 DEF Current
  <2>12. shown' = [shown EXCEPT ![r] = read]
    BY <2>1, <2>4, <2>6, <2>11
  <2> HIDE DEF new
  <2>13. shown[r].zones[z] \in ListedZone
    BY <1>7, <2>6
  <2>14. [shown[r].zones[z] EXCEPT !.color = new] \in ListedZone
    BY <2>10, <2>13 DEF ListedZone
  <2>15. zs \in Seq(ListedZone) /\ DOMAIN zs = DOMAIN rows[r].zones
         /\ zs[z] = [shown[r].zones[z] EXCEPT !.color = new]
         /\ \A k \in DOMAIN rows[r].zones : k # z => zs[k] = shown[r].zones[k]
    BY <1>7, <2>6, <2>14
  <2> HIDE DEF zs
  <2>16. read \in View /\ read.zones = zs /\ read.confirmed = shown[r].confirmed
    BY <2>6, <2>15 DEF View
  <2> HIDE DEF read
  <2>17. shown' \in [DOMAIN rows -> View] /\ shown'[r] = read
         /\ \A q \in DOMAIN rows : q # r => shown'[q] = shown[q]
    BY <2>1, <2>11, <2>12, <2>16
  <2>18. ASSUME NEW k \in DOMAIN rows[r].zones, rows[r].zones[k] = k
         PROVE  zs[k] = devices'[i].zones[k]
    <3>1. shown[r].zones[k] = devices[i].zones[k]
      BY <1>1, <2>1, <2>5, <2>18 DEF Current
    <3>2. CASE k # z
      BY <1>4, <2>1, <2>5, <2>15, <2>18, <3>1, <3>2
    <3>3. CASE k = z
      <4>1. new = devices'[i].zones[z].color
        BY <2>3, <2>5, <2>18, <3>3 DEF new
      <4>2. devices[i].zones[z] \in ListedZone
        BY <2>13, <3>1, <3>3
      <4>3. devices'[i].zones[z].color = color
        BY <4>2 DEF ListedZone
      <4> QED BY <2>15, <3>1, <3>3, <4>1, <4>3
    <3> QED BY <3>2, <3>3
  <2>19. ASSUME NEW q \in DOMAIN rows
        PROVE  /\ DOMAIN shown'[q].zones = DOMAIN rows[q].zones
               /\ shown'[q].confirmed = devices'[rows[q].device].confirmed
               /\ \A k \in DOMAIN rows[q].zones :
                    rows[q].zones[k] = k => shown'[q].zones[k] = devices'[rows[q].device].zones[k]
    <3>1. CASE q # r
      <4>1. rows[q].device # i
        BY <2>1, <3>1
      <4> QED BY <1>1, <1>3, <2>17, <3>1, <4>1 DEF Current
    <3>2. CASE q = r
      <4>1. shown[r].confirmed = devices[i].confirmed
        BY <1>1, <2>1, <2>5 DEF Current
      <4> QED BY <1>5, <2>5, <2>15, <2>16, <2>17, <2>18, <3>2, <4>1
    <3> QED BY <3>1, <3>2
  <2> QED BY <2>17, <2>19 DEF Current
<1> QED BY <1>6, <1>7

LEMMA BadgeRefreshed ==
  ASSUME TreeInv, NEW i \in DOMAIN devices, NEW confirmed \in BOOLEAN, SameShape(i),
         devices' = [devices EXCEPT ![i].confirmed = confirmed], RefreshDeviceBadges(i)
  PROVE  Current(devices', rows, shown')
<1> DEFINE r == IndexForDevice(i)
<1>1. /\ Current(devices, rows, shown) /\ RowsOK(devices, filter, rows)
      /\ devices \in Seq(ListedDevice)
  BY DEF TreeInv
<1>2. ASSUME NEW q \in DOMAIN rows, rows[q].device # i
      PROVE  devices'[rows[q].device] = devices[rows[q].device]
  BY <1>1, <1>2, RowTypes DEF SameShape
<1>3. shown \in [DOMAIN rows -> View]
  BY <1>1 DEF Current
<1>4. devices'[i].confirmed = confirmed /\ devices'[i].zones = devices[i].zones
  <2>1. devices[i] \in ListedDevice
    BY <1>1
  <2> QED BY <1>1, <2>1 DEF ListedDevice
<1>5. CASE r = 0 \/ ~IsDeviceVisible(devices, filter, i)
  <2>1. \A q \in DOMAIN rows : rows[q].device # i
    BY <1>1, <1>5, RowOf DEF RowsOK
  <2>2. shown' = shown
    BY <1>5 DEF RefreshDeviceBadges
  <2> QED BY <1>1, <1>2, <2>1, <2>2 DEF Current
<1>6. CASE r # 0 /\ IsDeviceVisible(devices, filter, i)
  <2>1. r \in DOMAIN rows /\ \A q \in DOMAIN rows : rows[q].device = i <=> q = r
    BY <1>6, RowOf
  <2>2. shown' = [shown EXCEPT ![r].confirmed = devices'[rows[r].device].confirmed]
    BY <1>6 DEF RefreshDeviceBadges
  <2> HIDE DEF r
  <2>3. rows[r].device = i
    BY <2>1
  <2>4. shown[r] \in View
    BY <1>3, <2>1
  <2>5. /\ shown' \in [DOMAIN rows -> View]
        /\ shown'[r].confirmed = confirmed /\ shown'[r].zones = shown[r].zones
        /\ \A q \in DOMAIN rows : q # r => shown'[q] = shown[q]
    BY <1>3, <1>4, <2>1, <2>2, <2>3, <2>4 DEF View
  <2>6. ASSUME NEW q \in DOMAIN rows
        PROVE  /\ DOMAIN shown'[q].zones = DOMAIN rows[q].zones
               /\ shown'[q].confirmed = devices'[rows[q].device].confirmed
               /\ \A k \in DOMAIN rows[q].zones :
                    rows[q].zones[k] = k => shown'[q].zones[k] = devices'[rows[q].device].zones[k]
    <3>1. CASE q # r
      <4>1. rows[q].device # i
        BY <2>1, <3>1
      <4> QED BY <1>1, <1>2, <2>5, <3>1, <4>1 DEF Current
    <3>2. CASE q = r
      BY <1>1, <1>4, <2>3, <2>5, <3>2 DEF Current
    <3> QED BY <3>1, <3>2
  <2> QED BY <2>5, <2>6 DEF Current
<1> QED BY <1>5, <1>6

LEMMA DeviceReplaced ==
  ASSUME devices \in Seq(ListedDevice), NEW i \in DOMAIN devices, NEW d \in ListedDevice,
         DOMAIN d.zones = DOMAIN devices[i].zones, d.controller = devices[i].controller,
         devices' = [devices EXCEPT ![i] = d]
  PROVE  SameShape(i) /\ devices'[i] = d
BY DEF SameShape

LEMMA ZoneReplaced ==
  ASSUME devices \in Seq(ListedDevice), NEW i \in DOMAIN devices, NEW z \in DOMAIN devices[i].zones,
         NEW new \in ListedZone, devices' = [devices EXCEPT ![i].zones[z] = new]
  PROVE  Changes(i, {z}) /\ devices'[i].zones[z] = new
<1> DEFINE zs == [devices[i].zones EXCEPT ![z] = new]
           d  == [devices[i] EXCEPT !.zones = zs]
<1>1. devices[i] \in ListedDevice
  OBVIOUS
<1>2. devices[i].zones \in Seq(ListedZone)
  BY <1>1 DEF ListedDevice
<1>3. /\ zs \in Seq(ListedZone) /\ DOMAIN zs = DOMAIN devices[i].zones /\ zs[z] = new
      /\ \A k \in DOMAIN devices[i].zones : k # z => zs[k] = devices[i].zones[k]
  BY <1>2
<1>4. devices' = [devices EXCEPT ![i] = d]
  OBVIOUS
<1> HIDE DEF zs
<1>5. /\ d \in ListedDevice /\ d.zones = zs
      /\ d.controller = devices[i].controller /\ d.confirmed = devices[i].confirmed
  BY <1>1, <1>3 DEF ListedDevice
<1> HIDE DEF d
<1>6. SameShape(i) /\ devices'[i] = d
  BY <1>3, <1>4, <1>5, DeviceReplaced
<1> QED BY <1>3, <1>5, <1>6 DEF Changes

LEMMA ZonesPainted ==
  ASSUME devices \in Seq(ListedDevice), NEW i \in DOMAIN devices, NEW color \in Color,
         devices' = [devices EXCEPT ![i].zones = [z \in DOMAIN @ |-> [@[z] EXCEPT !.color = color]]]
  PROVE  Changes(i, DOMAIN devices[i].zones)
<1> DEFINE zs == [z \in DOMAIN devices[i].zones |-> [devices[i].zones[z] EXCEPT !.color = color]]
           d  == [devices[i] EXCEPT !.zones = zs]
<1>1. devices[i] \in ListedDevice
  OBVIOUS
<1>2. devices[i].zones \in Seq(ListedZone)
  BY <1>1 DEF ListedDevice
<1>3. ASSUME NEW z \in DOMAIN devices[i].zones
      PROVE  [devices[i].zones[z] EXCEPT !.color = color] \in ListedZone
  <2>1. devices[i].zones[z] \in ListedZone
    BY <1>2
  <2> QED BY <2>1 DEF ListedZone
<1>4. zs \in Seq(ListedZone) /\ DOMAIN zs = DOMAIN devices[i].zones
  <2>1. DOMAIN devices[i].zones = 1 .. Len(devices[i].zones) /\ Len(devices[i].zones) \in Nat
    BY <1>2
  <2>2. zs \in [1 .. Len(devices[i].zones) -> ListedZone]
    BY <1>3, <2>1
  <2> QED BY <2>1, <2>2
<1>5. devices' = [devices EXCEPT ![i] = d]
  OBVIOUS
<1> HIDE DEF zs
<1>6. d \in ListedDevice /\ d.zones = zs /\ d.controller = devices[i].controller
      /\ d.confirmed = devices[i].confirmed
  BY <1>1, <1>4 DEF ListedDevice
<1> HIDE DEF d
<1>7. SameShape(i) /\ devices'[i] = d
  BY <1>4, <1>5, <1>6, DeviceReplaced
<1> QED BY <1>6, <1>7 DEF Changes

-----------------------------------------------------------------------------
(* The steps of the tree.                                                  *)

LEMMA InitTree == DeviceTreeAssumption /\ TreeInit => TreeInv
<1> SUFFICES ASSUME DeviceTreeAssumption, TreeInit PROVE TreeInv
  OBVIOUS
<1>1. NamesOK
  BY DEF TreeInit, DeviceTreeAssumption, NamesOK
<1>2. devices \in Seq(ListedDevice)
  BY <1>1, ListingOK DEF TreeInit
<1>3. RowsOK(devices, filter, rows)
  BY <1>2, RowsListed DEF TreeInit
<1>4. Current(devices, rows, shown)
  BY <1>2, <1>3, ReadIsCurrent DEF TreeInit
<1> QED BY <1>1, <1>2, <1>3, <1>4 DEF TreeInv

LEMMA ReplacedTree ==
  ASSUME DeviceTreeAssumption, TreeInv, NEW order \in Orders, NEW complete,
         ReplaceDevices(order, complete)
  PROVE  TreeInv'
<1>1. NamesOK /\ daemonName' = daemonName /\ Rebuild
  BY DEF TreeInv, ReplaceDevices
<1>2. devices' \in Seq(ListedDevice)
  BY <1>1, ListingOK DEF ReplaceDevices
<1> QED BY <1>1, <1>2, RebuildOK DEF TreeInv, NamesOK

LEMMA FilteredTree ==
  ASSUME TreeInv, SetDeviceFilter
  PROVE  TreeInv'
<1>1. daemonName' = daemonName /\ devices' = devices /\ Rebuild
  BY DEF SetDeviceFilter
<1> QED BY <1>1, RebuildOK DEF TreeInv, NamesOK

LEMMA OverriddenTree ==
  ASSUME TreeInv, NEW i \in DOMAIN devices, NEW choice, SetRgbControllerOverride(i, choice)
  PROVE  TreeInv'
<1> DEFINE controller == IsRgbController(devices[i].id, choice)
<1>1. daemonName' = daemonName /\ Rebuild
  BY DEF SetRgbControllerOverride
<1>2. controller \in BOOLEAN
  <2>1. CASE choice = "none"
    BY <2>1 DEF IsRgbController
  <2>2. CASE choice # "none"
    BY <2>2 DEF IsRgbController
  <2> QED BY <2>1, <2>2
<1>3. devices' = [devices EXCEPT ![i].controller = controller]
  BY DEF SetRgbControllerOverride
<1> HIDE DEF controller
<1>4. devices' \in Seq(ListedDevice)
  <2>1. devices \in Seq(ListedDevice) /\ devices[i] \in ListedDevice
    BY DEF TreeInv
  <2>2. [devices[i] EXCEPT !.controller = controller] \in ListedDevice
    BY <1>2, <2>1 DEF ListedDevice
  <2> QED BY <1>3, <2>1, <2>2
<1> QED BY <1>1, <1>4, RebuildOK DEF TreeInv, NamesOK

(* Steps that keep the rows and announce what changed in device i.         *)
LEMMA AnnouncedTree ==
  ASSUME TreeInv, NEW i, SameShape(i), NamesOK', UNCHANGED <<filter, rows>>,
         Current(devices', rows, shown')
  PROVE  TreeInv'
<1>1. RowsOK(devices', filter, rows) /\ devices' \in Seq(ListedDevice)
  BY RowsStay DEF SameShape
<1> QED BY <1>1 DEF TreeInv

LEMMA RenamedTree ==
  ASSUME TreeInv, NEW i \in DOMAIN devices, NEW z \in DOMAIN devices[i].zones, NEW name \in Name,
         NEW dryRun \in BOOLEAN, RenameZone(i, z, name, dryRun)
  PROVE  TreeInv'
<1> DEFINE new == [devices[i].zones[z] EXCEPT !.name = name]
<1>1. devices \in Seq(ListedDevice) /\ devices[i] \in ListedDevice
  BY DEF TreeInv
<1>2. devices[i].id \in Id /\ devices[i].zones \in Seq(ListedZone)
  BY <1>1 DEF ListedDevice
<1>3. new \in ListedZone
  <2>1. devices[i].zones[z] \in ListedZone
    BY <1>2
  <2> QED BY <2>1 DEF ListedZone
<1>4. devices' = [devices EXCEPT ![i].zones[z] = new]
  BY DEF RenameZone
<1> HIDE DEF new
<1>5. Changes(i, {z})
  BY <1>1, <1>3, <1>4, ZoneReplaced
<1>6. NamesOK'
  <2>1. NamesOK
    BY DEF TreeInv
  <2>2. CASE dryRun
    BY <2>1, <2>2 DEF RenameZone, NamesOK
  <2>3. CASE ~dryRun
    <3>1. daemonName' = [daemonName EXCEPT ![devices[i].id][z] = name]
      BY <2>3 DEF RenameZone
    <3>2. daemonName[devices[i].id] \in Seq(Name)
      BY <1>2, <2>1 DEF NamesOK
    <3> DEFINE named == [daemonName[devices[i].id] EXCEPT ![z] = name]
    <3>3. named \in Seq(Name) /\ Len(named) = Len(daemonName[devices[i].id])
      <4> DEFINE f == daemonName[devices[i].id]
      <4>1. f \in Seq(Name) /\ named = [f EXCEPT ![z] = name]
        BY <3>2
      <4> HIDE DEF f, named
      <4>2. DOMAIN f = 1 .. Len(f) /\ Len(f) \in Nat
        BY <4>1
      <4>3. f \in [1 .. Len(f) -> Name]
        BY <4>1, <4>2
      <4>4. ASSUME NEW n \in Nat, NEW g \in [1 .. n -> Name]
            PROVE  [g EXCEPT ![z] = name] \in [1 .. n -> Name]
        OBVIOUS
      <4>5. named \in [1 .. Len(f) -> Name]
        BY <4>1, <4>2, <4>3, <4>4
      <4> QED BY <4>2, <4>5 DEF f
    <3>4. daemonName' = [daemonName EXCEPT ![devices[i].id] = named]
      BY <3>1
    <3> HIDE DEF named
    <3> QED BY <1>2, <2>1, <3>3, <3>4 DEF NamesOK
  <2> QED BY <2>2, <2>3
<1>7. Current(devices', rows, shown')
  BY <1>5, ZoneNotified DEF RenameZone
<1> QED BY <1>5, <1>6, <1>7, AnnouncedTree DEF RenameZone, Changes

LEMMA PaintedTree ==
  ASSUME TreeInv, NEW i \in DOMAIN devices, NEW z \in DOMAIN devices[i].zones, NEW color \in Color,
         ApplyEffect(i, z, color) \/ PaintZoneFrame(i, z, color)
  PROVE  TreeInv'
<1> DEFINE new == [devices[i].zones[z] EXCEPT !.color = color]
<1>1. devices \in Seq(ListedDevice) /\ devices[i] \in ListedDevice
  BY DEF TreeInv
<1>2. new \in ListedZone
  <2>1. devices[i].zones \in Seq(ListedZone)
    BY <1>1 DEF ListedDevice
  <2>2. devices[i].zones[z] \in ListedZone
    BY <2>1
  <2> QED BY <2>2 DEF ListedZone
<1>3. devices' = [devices EXCEPT ![i].zones[z] = new]
  BY DEF ApplyEffect, PaintZoneFrame
<1> HIDE DEF new
<1>4. Changes(i, {z}) /\ devices'[i].zones[z] = new
  BY <1>1, <1>2, <1>3, ZoneReplaced
<1>5. NamesOK' /\ UNCHANGED <<filter, rows>>
  BY DEF TreeInv, ApplyEffect, PaintZoneFrame, NamesOK
<1>6. Current(devices', rows, shown')
  <2>1. CASE ApplyEffect(i, z, color)
    BY <1>4, <2>1, ZoneNotified DEF ApplyEffect
  <2>2. CASE PaintZoneFrame(i, z, color)
    BY <1>4, <2>2, FrameNotified DEF PaintZoneFrame, new
  <2> QED BY <2>1, <2>2
<1> QED BY <1>4, <1>5, <1>6, AnnouncedTree DEF Changes

LEMMA DarkTree ==
  ASSUME TreeInv, NEW i \in DOMAIN devices, NEW color \in Color, AllOff(i, color)
  PROVE  TreeInv'
<1>1. devices \in Seq(ListedDevice)
  BY DEF TreeInv
<1>2. Changes(i, DOMAIN devices[i].zones)
  BY <1>1, ZonesPainted DEF AllOff
<1>3. Current(devices', rows, shown')
  BY <1>2, ZoneNotified DEF AllOff
<1>4. NamesOK' /\ UNCHANGED <<filter, rows>>
  BY DEF TreeInv, AllOff, NamesOK
<1> QED BY <1>2, <1>3, <1>4, AnnouncedTree DEF Changes

LEMMA ConfirmedTree ==
  ASSUME TreeInv, NEW i \in DOMAIN devices, NEW confirmed \in BOOLEAN,
         SetWriteConfirmed(i, confirmed)
  PROVE  TreeInv'
<1> DEFINE d == [devices[i] EXCEPT !.confirmed = confirmed]
<1>1. devices \in Seq(ListedDevice) /\ devices[i] \in ListedDevice
  BY DEF TreeInv
<1>2. d \in ListedDevice /\ d.zones = devices[i].zones /\ d.controller = devices[i].controller
  BY <1>1 DEF ListedDevice
<1>3. devices' = [devices EXCEPT ![i].confirmed = confirmed] /\ devices' = [devices EXCEPT ![i] = d]
  BY DEF SetWriteConfirmed
<1> HIDE DEF d
<1>4. SameShape(i)
  BY <1>1, <1>2, <1>3, DeviceReplaced
<1>5. Current(devices', rows, shown')
  BY <1>3, <1>4, BadgeRefreshed DEF SetWriteConfirmed
<1>6. NamesOK' /\ UNCHANGED <<filter, rows>>
  BY DEF TreeInv, SetWriteConfirmed, NamesOK
<1> QED BY <1>4, <1>5, <1>6, AnnouncedTree

LEMMA NextTree ==
  ASSUME DeviceTreeAssumption, TreeInv, [TreeNext]_treeVars
  PROVE  TreeInv'
<1>1. CASE UNCHANGED <<devices, filter, rows, shown, daemonName>>
  BY <1>1 DEF TreeInv, NamesOK
<1>2. CASE Click
  <2>1. UNCHANGED <<devices, filter, rows, shown, daemonName>>
    BY <1>2 DEF Click, SelectDevice, SelectZone, tree
  <2> QED BY <1>1, <2>1
<1>3. CASE TreeNext
  BY <1>2, <1>3, ReplacedTree, FilteredTree, OverriddenTree, RenamedTree, PaintedTree, DarkTree,
     ConfirmedTree DEF TreeNext
<1> QED BY <1>1, <1>3 DEF treeVars, tree

LEMMA TreeIsCurrent == TreeInv => RowsAreCurrent
<1> SUFFICES ASSUME TreeInv, NEW r \in DOMAIN rows
             PROVE  /\ shown[r].confirmed = devices[rows[r].device].confirmed
                    /\ \A k \in DOMAIN rows[r].zones : rows[r].zones[k] = k => RowShows(r, k)
  BY DEF RowsAreCurrent
<1> QED BY DEF TreeInv, Current, RowShows

(* A row of the tree shows what its device and, with no hidden zone before *)
(* it, its zone are now: after resets, changes, frames, badges and filters *)
(* in any order, for any devices and zones.                                *)
THEOREM TreeRowsAreCurrent ==
  ASSUME DeviceTreeAssumption
  PROVE  TreeSpec => []RowsAreCurrent
<1>1. TreeInit => TreeInv
  BY InitTree
<1>2. TreeInv /\ [TreeNext]_treeVars => TreeInv'
  BY NextTree
<1>3. TreeInv => RowsAreCurrent
  BY TreeIsCurrent
<1> QED BY <1>1, <1>2, <1>3, PTL DEF TreeSpec

LEMMA FirstVisible ==
  ASSUME NEW list \in Seq(ListedDevice), NEW f, NEW i \in DOMAIN list,
         FirstVisibleZoneIndex(list, f, i) # 0
  PROVE  IsZoneVisible(list, f, i, FirstVisibleZoneIndex(list, f, i))
<1> DEFINE S == VisibleZones(list, f, i)
<1>1. list[i] \in ListedDevice
  OBVIOUS
<1>2. list[i].zones \in Seq(ListedZone)
  BY <1>1 DEF ListedDevice
<1>3. S \in SUBSET (Nat \ {0})
  BY <1>2 DEF VisibleZones
<1>4. FirstVisibleZoneIndex(list, f, i) = First(S)
  BY DEF FirstVisibleZoneIndex
<1>5. First(S) \in S
  BY <1>3, <1>4, FirstIsLeast
<1> QED BY <1>4, <1>5 DEF VisibleZones

(* What restoreSelection makes of the list of a discovery.                 *)
LEMMA RestoredFollows ==
  ASSUME NEW list \in Seq(ListedDevice), NEW f, list # <<>>,
         \A i, j \in DOMAIN list : list[i].id = list[j].id => i = j
  PROVE  LET restored == Restored(list, f)
         IN  /\ restored.device \in DOMAIN list
             /\ restored.zone # 0 => IsZoneVisible(list, f, restored.device, restored.zone)
             /\ \A i \in DOMAIN list :
                  LET listed == list[i].zones
                  IN  /\ list[i].id = selected.id
                      /\ selected.zone \in DOMAIN listed
                      /\ IsZoneVisible(list, f, i, selected.zone)
                      /\ listed[selected.zone].name = selected.name
                      /\ \A z \in DOMAIN listed : listed[z].name = selected.name => z = selected.zone
                      => restored.device = i /\ restored.zone = selected.zone
<1> DEFINE Same  == {i \in DOMAIN list : list[i].id = selected.id}
           same  == First(Same)
           d     == IF same # 0 THEN same ELSE 1
           Named == {z \in DOMAIN list[d].zones : list[d].zones[z].name = selected.name}
           named == First(Named)
           z0    == IF same = 0 THEN 0 ELSE IF named # 0 THEN named ELSE selected.fallback
           zone  == IF IsZoneVisible(list, f, d, z0) THEN z0
                    ELSE FirstVisibleZoneIndex(list, f, d)
<1>1. Restored(list, f) = Selection(list, d, zone)
  BY DEF Restored
<1> HIDE DEF zone
<1>2. Restored(list, f).device = d /\ Restored(list, f).zone = zone
  BY <1>1 DEF Selection
<1>3. Same \in SUBSET (Nat \ {0}) /\ 1 \in DOMAIN list
  OBVIOUS
<1>4. d \in DOMAIN list
  <2>1. CASE Same = {}
    BY <1>3, <2>1, FirstIsLeast
  <2>2. CASE Same # {}
    <3>1. same \in Same
      BY <1>3, <2>2, FirstIsLeast
    <3> QED BY <1>3, <3>1
  <2> QED BY <2>1, <2>2
<1>5. zone # 0 => IsZoneVisible(list, f, d, zone)
  <2> HIDE DEF d, z0
  <2> QED BY <1>4, FirstVisible DEF zone
<1>6. ASSUME NEW i \in DOMAIN list, list[i].id = selected.id,
             selected.zone \in DOMAIN list[i].zones,
             IsZoneVisible(list, f, i, selected.zone),
             list[i].zones[selected.zone].name = selected.name,
             \A z \in DOMAIN list[i].zones :
               list[i].zones[z].name = selected.name => z = selected.zone
      PROVE  d = i /\ zone = selected.zone
  <2>1. Same = {i}
    BY <1>6
  <2>2. i \in Nat \ {0}
    OBVIOUS
  <2>3. same = i
    BY <2>1, <2>2, FirstOfOne
  <2>4. d = i /\ same # 0
    BY <2>2, <2>3
  <2> HIDE DEF same, d
  <2>5. Named = {selected.zone}
    BY <1>6, <2>4
  <2>6. selected.zone \in Nat \ {0}
    <3>1. list[i] \in ListedDevice
      OBVIOUS
    <3>2. list[i].zones \in Seq(ListedZone)
      BY <3>1 DEF ListedDevice
    <3> QED BY <1>6, <3>2
  <2>7. named = selected.zone
    BY <2>5, <2>6, FirstOfOne
  <2>8. z0 = selected.zone
    BY <2>4, <2>6, <2>7
  <2> HIDE DEF z0
  <2> QED BY <1>6, <2>4, <2>8 DEF zone
<1> HIDE DEF d
<1> QED BY <1>2, <1>4, <1>5, <1>6

LEMMA StepFollows ==
  ASSUME DeviceTreeAssumption, TreeInv, [TreeNext]_treeVars
  PROVE  SelectionFollowsStep
<1> SUFFICES ASSUME lists' # lists, devices' # <<>> PROVE SelectionFollowsStep
  BY DEF SelectionFollowsStep
<1>1. PICK order \in Orders, complete \in BOOLEAN : ReplaceDevices(order, complete)
  BY DEF TreeNext, treeVars, tree, Click, SelectDevice, SelectZone,
         SetDeviceFilter, SetRgbControllerOverride, SetWriteConfirmed, AllOff,
         RenameZone, ApplyEffect, PaintZoneFrame
<1>2. devices' = Listing(order) /\ NamesOK
  BY <1>1 DEF TreeInv, ReplaceDevices
<1>3. /\ devices' \in Seq(ListedDevice) /\ DOMAIN devices' = DOMAIN order
      /\ \A i \in DOMAIN order : devices'[i].id = order[i]
  BY <1>2, ListingOK
<1>4. order \in Seq(Id) /\ \A i, j \in DOMAIN order : order[i] = order[j] => i = j
  BY OrderOK
<1>5. order # <<>>
  BY <1>3
<1>6. selected' = Restored(devices', filter')
  BY <1>1, <1>5 DEF ReplaceDevices
<1>7. \A i, j \in DOMAIN devices' : devices'[i].id = devices'[j].id => i = j
  BY <1>3, <1>4
<1> QED BY <1>3, <1>6, <1>7, RestoredFollows DEF SelectionFollowsStep

(* Across device lists, discoveries and renames the selection names the    *)
(* zone it named, if that is listed and its name its own; otherwise it     *)
(* goes to a zone that has a row, for any devices in any order.            *)
THEOREM SelectionStays ==
  ASSUME DeviceTreeAssumption
  PROVE  TreeSpec => SelectionFollows
<1>1. TreeInit => TreeInv
  BY InitTree
<1>2. TreeInv /\ [TreeNext]_treeVars => TreeInv'
  BY NextTree
<1>3. TreeInv /\ [TreeNext]_treeVars => [SelectionFollowsStep]_treeVars
  BY StepFollows
<1> QED BY <1>1, <1>2, <1>3, PTL DEF TreeSpec, SelectionFollows

-----------------------------------------------------------------------------
(* The launcher and its daemon.                                            *)

(* Who was told what: the launcher holds a daemon it started until its end *)
(* is reported, nothing is launched or connected before the GUI runs, a    *)
(* connection beside a launched daemon has been seen, and the daemon is    *)
(* gone with the GUI, whoever is connected to it.                          *)
LaunchInv ==
  /\ gui \in {"starting", "running", "leaving", "closed"}
  /\ launched \in {"none", "booting", "listening", "exited"}
  /\ gui = "starting" => launched = "none" /\ connected = "none"
  /\ gui = "closed" => launched \in {"none", "exited"}
  /\ launched \in {"booting", "listening"} => startedDaemon
  /\ finished => launched = "exited"
  /\ connected # "none" => sawConnection \/ launched = "none"
  /\ LaunchIsAccountedFor

LEMMA InitLaunch == LauncherInit => LaunchInv
BY DEF LauncherInit, LaunchInv, LaunchIsAccountedFor, StartFailure

(* A lost connection shows no start that had not been shown.               *)
LEMMA LostConnection ==
  ASSUME NEW d, Loses(d)
  PROVE  /\ connected' # "none" => connected' = connected
         /\ error' \in StartFailure => error' = error
BY DEF Loses, StartFailure

LEMMA NextLaunch == LaunchInv /\ [LauncherNext]_launcherVars => LaunchInv'
<1> SUFFICES ASSUME LaunchInv, [LauncherNext]_launcherVars PROVE LaunchInv'
  OBVIOUS
<1> USE DEF LaunchInv, LaunchIsAccountedFor, StartFailure
<1>1. CASE EnsureAvailableAsync
  BY <1>1 DEF EnsureAvailableAsync
<1>2. ASSUME NEW d \in {"launched", "foreign"}, Connects(d) PROVE LaunchInv'
  <2>1. /\ gui = "running" /\ gui' = gui /\ error' = "none"
        /\ UNCHANGED <<launched, finished, startedDaemon, lastError>>
    BY <1>2 DEF Connects
  <2>2. sawConnection' \/ launched = "none"
    <3>1. sawConnection' = (sawConnection \/ launched # "none")
      BY <1>2 DEF Connects
    <3> QED BY <3>1, Zenon
  <2> QED BY <2>1, <2>2
<1>3. CASE Finished
  <2>1. UNCHANGED <<gui, launched, connected, second, sawConnection>> /\ ~finished'
    BY <1>3 DEF Finished, world
  <2>2. CASE sawConnection
    BY <1>3, <2>1, <2>2 DEF Finished
  <2>3. CASE ~sawConnection
    <3>1. connected = "none"
      BY <1>3, <2>3 DEF Finished
    <3> QED BY <1>3, <2>1, <2>3, <3>1 DEF Finished
  <2> QED BY <2>2, <2>3
<1>4. CASE Leaves
  BY <1>4 DEF Leaves, world, launcher
<1>5. CASE StopStartedProcess
  <2>1. launched' \in {"none", "exited"}
    BY <1>5 DEF StopStartedProcess
  <2>2. /\ gui = "leaving" /\ gui' = "closed" /\ launched' \in {launched, "exited"}
        /\ UNCHANGED <<connected, finished, sawConnection, startedDaemon, lastError, error>>
    BY <1>5 DEF StopStartedProcess, launcher
  <2>3. connected # "none" /\ launched' = "exited" => sawConnection
    BY <1>5 DEF StopStartedProcess
  <2> QED BY <2>1, <2>2, <2>3
<1>6. ASSUME launched \in {"booting", "listening"}, Exits PROVE LaunchInv'
  <2>1. Loses("launched") /\ UNCHANGED <<gui, startedDaemon, sawConnection, lastError>>
        /\ launched' = "exited" /\ finished'
    BY <1>6 DEF Exits, launcher
  <2>2. /\ connected' # "none" => connected' = connected
        /\ error' \in StartFailure => error' = error
    BY <2>1, LostConnection
  <2> QED BY <1>6, <2>1, <2>2
<1>7. CASE Boots
  <2>1. CASE foreign = "listening"
    BY <1>6, <1>7, <2>1 DEF Boots
  <2>2. CASE foreign # "listening"
    BY <1>7, <2>2 DEF Boots, launcher
  <2> QED BY <2>1, <2>2
<1>8. CASE Crashes \/ ExitsIdle
  BY <1>6, <1>8 DEF Crashes, ExitsIdle
<1>9. CASE ForeignStarts
  BY <1>9 DEF ForeignStarts, launcher
<1>10. CASE ForeignStops
  <2>1. Loses("foreign")
        /\ UNCHANGED <<gui, launched, finished, startedDaemon, sawConnection, lastError>>
    BY <1>10 DEF ForeignStops, launcher
  <2>2. /\ connected' # "none" => connected' = connected
        /\ error' \in StartFailure => error' = error
    BY <2>1, LostConnection
  <2> QED BY <2>1, <2>2
<1>11. CASE ClientFails \/ CallSucceeds
  BY <1>11 DEF ClientFails, CallSucceeds, world, launcher
<1>12. ASSUME NEW d \in {"launched", "foreign"}, SecondConnects(d) PROVE LaunchInv'
  <2>1. Loses(d)
        /\ UNCHANGED <<gui, launched, finished, startedDaemon, sawConnection, lastError>>
    BY <1>12 DEF SecondConnects, launcher
  <2>2. /\ connected' # "none" => connected' = connected
        /\ error' \in StartFailure => error' = error
    BY <2>1, LostConnection
  <2> QED BY <2>1, <2>2
<1>13. CASE SecondStarts \/ SecondCloses
  BY <1>13 DEF SecondStarts, SecondCloses, world, launcher
<1>14. CASE UNCHANGED launcherVars
  BY <1>14 DEF launcherVars, world, launcher
<1> QED
  BY <1>1, <1>2, <1>3, <1>4, <1>5, <1>7, <1>8, <1>9, <1>10, <1>11, <1>12, <1>13, <1>14
  DEF LauncherNext

(* The end of the launched daemon is on record if no connection was made;  *)
(* what is shown of a failed start is that record, and beside a connection *)
(* nothing; and no daemon is left without a GUI, however often other       *)
(* daemons and another GUI come and go and whatever errors the client has. *)
THEOREM LaunchAccounted == LauncherSpec => []LaunchIsAccountedFor
<1>1. LaunchInv => LaunchIsAccountedFor
  BY DEF LaunchInv
<1> QED BY <1>1, InitLaunch, NextLaunch, PTL DEF LauncherSpec

-----------------------------------------------------------------------------
(* The interface that discovery takes.                                     *)

LEMMA ParsedValid == ASSUME NEW raw PROVE ParseConfig(raw).valid \in BOOLEAN
BY DEF ParseConfig, Invalid

(* Being better is a strict order. *)
LEMMA BetterIsStrict ==
  ASSUME NEW a \in Interface, NEW b \in Interface, NEW c \in Interface
  PROVE  ~Better(a, a) /\ (Better(a, b) /\ Better(b, c) => Better(a, c))
<1> DEFINE va == ParseConfig(a.raw).valid
           vb == ParseConfig(b.raw).valid
           vc == ParseConfig(c.raw).valid
<1>1. va \in BOOLEAN /\ vb \in BOOLEAN /\ vc \in BOOLEAN
  BY ParsedValid
<1>2. /\ a.score \in Nat /\ a.number \in Int /\ a.path \in Nat
      /\ b.score \in Nat /\ b.number \in Int /\ b.path \in Nat
      /\ c.score \in Nat /\ c.number \in Int /\ c.path \in Nat
  BY DEF Interface
<1> DEFINE After(p, q) ==
             IF p.score # q.score THEN p.score > q.score
             ELSE IF p.number = q.number THEN p.path < q.path
             ELSE IF p.number < 0 \/ q.number < 0 THEN p.number >= 0
             ELSE p.number < q.number
<1>3. ~After(a, a) /\ (After(a, b) /\ After(b, c) => After(a, c))
  BY <1>2
<1>4. /\ Better(a, a) = After(a, a)
      /\ Better(a, b) = IF va # vb THEN va ELSE After(a, b)
      /\ Better(b, c) = IF vb # vc THEN vb ELSE After(b, c)
      /\ Better(a, c) = IF va # vc THEN va ELSE After(a, c)
  BY DEF Better
<1> HIDE DEF va, vb, vc, After
<1>5. CASE va # vb
  BY <1>1, <1>3, <1>4, <1>5
<1>6. CASE va = vb
  BY <1>1, <1>3, <1>4, <1>6
<1> QED BY <1>5, <1>6

(* The loop keeps an interface that none of those before it beats.         *)
LEMMA SelectedIsBest ==
  ASSUME NEW s \in Seq(Interface), s # <<>>
  PROVE  /\ Selected(s) \in Interface
         /\ \A i \in DOMAIN s : ~Better(s[i], Selected(s))
<1> DEFINE n == Len(s)
           Keep(i, kept) == IF i = 1 THEN s[1] ELSE IF Better(s[i], kept) THEN s[i] ELSE kept
           step == [i \in 1 .. n |-> [kept \in Interface |-> Keep(i, kept)]]
           IsBest(b) == b = [i \in DOMAIN s |->
                          IF i = 1 THEN s[1]
                          ELSE IF Better(s[i], b[i - 1]) THEN s[i] ELSE b[i - 1]]
           best == CHOOSE b : IsBest(b)
<1>1. n \in Nat /\ 1 <= n /\ DOMAIN s = 1 .. n /\ \A i \in 1 .. n : s[i] \in Interface
  OBVIOUS
<1>2. Selected(s) = best[n]
  BY DEF Selected
<1> HIDE DEF n
<1>3. step \in [1 .. n -> [Interface -> Interface]]
  BY <1>1
<1> HIDE DEF step
<1>4. PICK f : IsIteration(f, n, Interface, s[1], step)
  <2>1. s[1] \in Interface
    BY <1>1
  <2> QED BY <1>1, <1>3, <2>1, IterationExists
<1>5. f \in [0 .. n -> Interface] /\ \A k \in 1 .. n : f[k] = Keep(k, f[k - 1])
  <2>1. f \in [0 .. n -> Interface] /\ \A k \in 1 .. n : f[k] = step[k][f[k - 1]]
    BY <1>4 DEF IsIteration
  <2>2. ASSUME NEW k \in 1 .. n PROVE f[k] = Keep(k, f[k - 1])
    <3>1. f[k - 1] \in Interface
      BY <1>1, <2>1
    <3> QED BY <2>1, <3>1 DEF step
  <2> QED BY <2>1, <2>2
<1>6. IsBest([i \in 1 .. n |-> f[i]])
  BY <1>1, <1>5
<1>7. IsBest(best)
  <2> HIDE DEF IsBest
  <2> QED BY <1>6
<1>8. best = [i \in 1 .. n |-> best[i]] /\ \A i \in 1 .. n : best[i] = Keep(i, best[i - 1])
  BY <1>1, <1>7
<1> HIDE DEF best, IsBest
<1> DEFINE S == {k \in 0 .. n : k # 0 =>
                   best[k] \in Interface /\ \A i \in 1 .. k : ~Better(s[i], best[k])}
<1>9. 0 \in S
  BY <1>1
<1>10. ASSUME NEW k \in 0 .. n, k \in S, k < n PROVE k + 1 \in S
  <2>1. k + 1 \in 1 .. n /\ (k + 1) - 1 = k
    BY <1>1, <1>10
  <2>2. CASE k = 0
    <3>1. best[1] = s[1]
      BY <1>8, <2>1, <2>2
    <3>2. ~Better(s[1], s[1])
      BY <1>1, BetterIsStrict
    <3> QED BY <1>1, <2>1, <2>2, <3>1, <3>2
  <2>3. CASE k # 0
    <3>1. best[k] \in Interface /\ \A i \in 1 .. k : ~Better(s[i], best[k])
      BY <1>10, <2>3
    <3>2. s[k + 1] \in Interface
      BY <1>1, <2>1
    <3>3. best[k + 1] = IF Better(s[k + 1], best[k]) THEN s[k + 1] ELSE best[k]
      <4>1. k + 1 # 1
        BY <2>3
      <4> QED BY <1>8, <2>1, <4>1
    <3>4. best[k + 1] \in Interface
      BY <3>1, <3>2, <3>3
    <3>5. ASSUME NEW i \in 1 .. k PROVE ~Better(s[i], best[k + 1])
      <4>1. s[i] \in Interface /\ ~Better(s[i], best[k])
        BY <1>1, <3>1
      <4> QED BY <3>1, <3>2, <3>3, <4>1, BetterIsStrict
    <3>6. ~Better(s[k + 1], best[k + 1])
      BY <3>1, <3>2, <3>3, BetterIsStrict
    <3> QED BY <2>1, <3>4, <3>5, <3>6
  <2> QED BY <2>2, <2>3
<1> HIDE DEF S
<1>11. \A k \in 0 .. n : k \in S
  BY <1>1, <1>9, <1>10, UpTo
<1>12. n \in S /\ n # 0
  BY <1>1, <1>11
<1> QED BY <1>1, <1>2, <1>12 DEF S

-----------------------------------------------------------------------------
(* Config tables, their channels and the zones over them.                  *)

Channel ==
  [type : {"fixed", "addressable"}, effect : 0 .. MaxChannels, direct : Nat, leds : Nat,
   headers : Nat]

ConfigOK(c) ==
  /\ c.valid \in BOOLEAN
  /\ c.valid => c.channels \in Seq(Channel) /\ ConfigIsValid(c)

LEMMA ParsedConfig ==
  ASSUME AuraAssumption, NEW raw \in [addressable : Nat, mainboard : Nat, headers : Nat]
  PROVE  ConfigOK(ParseConfig(raw))
<1> DEFINE headers == IF raw.headers > raw.mainboard THEN 0 ELSE raw.headers
           fixed   == IF raw.mainboard = 0 THEN <<>>
                      ELSE <<[type |-> "fixed", effect |-> 0, direct |-> 4,
                              leds |-> raw.mainboard, headers |-> headers]>>
           direct  == [i \in 1 .. raw.addressable |->
                         [type |-> "addressable", effect |-> Len(fixed) + i - 1, direct |-> i - 1,
                          leds |-> MaxLeds, headers |-> 0]]
           table   == [valid |-> TRUE, channels |-> fixed \o direct]
           refused == \/ raw.addressable > MaxChannels
                      \/ headers > HeaderCount
                      \/ headers > 0 /\ raw.mainboard > MaskLeds
                      \/ ~ConfigIsValid(table)
<1>0. ParseConfig(raw) = IF refused THEN Invalid ELSE table
  BY Zenon DEF ParseConfig
<1>1. MaxChannels \in Nat \ {0} /\ MaxLeds \in Nat \ {0}
  BY DEF AuraAssumption
<1>2. raw.addressable \in Nat /\ raw.mainboard \in Nat /\ headers \in Nat
  OBVIOUS
<1>3. CASE raw.addressable > MaxChannels
  BY <1>3 DEF ParseConfig, ConfigOK, Invalid
<1>4. CASE raw.addressable <= MaxChannels
  <2> HIDE DEF headers
  <2>1. fixed \in Seq(Channel) /\ Len(fixed) \in 0 .. 1
    <3>1. CASE raw.mainboard = 0
      BY <3>1
    <3>2. CASE raw.mainboard # 0
      <4> DEFINE one == [type |-> "fixed", effect |-> 0, direct |-> 4,
                         leds |-> raw.mainboard, headers |-> headers]
      <4>1. one \in Channel
        BY <1>1, <1>2 DEF Channel
      <4>2. fixed = <<one>>
        BY <3>2
      <4> HIDE DEF one, fixed
      <4> QED BY <4>1, <4>2
    <3> QED BY <3>1, <3>2
  <2> HIDE DEF fixed
  <2>2. direct \in Seq(Channel)
    <3>1. ASSUME NEW i \in 1 .. raw.addressable
          PROVE  [type |-> "addressable", effect |-> Len(fixed) + i - 1, direct |-> i - 1,
                  leds |-> MaxLeds, headers |-> 0] \in Channel
      <4>1. Len(fixed) + i - 1 \in 0 .. MaxChannels
        <5>1. ASSUME NEW l \in 0 .. 1, NEW n \in Nat, n <= MaxChannels, NEW j \in 1 .. n
              PROVE  l + j - 1 \in 0 .. MaxChannels
          BY <1>1, <5>1
        <5> QED BY <1>2, <1>4, <2>1, <5>1
      <4>2. i - 1 \in Nat
        BY <1>2
      <4>3. ASSUME NEW e \in 0 .. MaxChannels, NEW d \in Nat
            PROVE  [type |-> "addressable", effect |-> e, direct |-> d,
                    leds |-> MaxLeds, headers |-> 0] \in Channel
        BY <1>1 DEF Channel
      <4> QED BY <4>1, <4>2, <4>3
    <3>2. direct \in [1 .. raw.addressable -> Channel]
      BY <3>1
    <3> HIDE DEF direct
    <3> QED BY <1>2, <3>2
  <2> HIDE DEF direct
  <2>3. table.channels \in Seq(Channel) /\ table.valid = TRUE
    BY <2>1, <2>2
  <2> HIDE DEF table
  <2>4. ParseConfig(raw) = Invalid \/ (ConfigIsValid(table) /\ ParseConfig(raw) = table)
    BY <1>0
  <2>5. CASE ParseConfig(raw) = Invalid
    BY <2>5 DEF ConfigOK, Invalid
  <2>6. CASE ConfigIsValid(table) /\ ParseConfig(raw) = table
    BY <2>3, <2>6 DEF ConfigOK
  <2> QED BY <2>4, <2>5, <2>6
<1> QED BY <1>1, <1>2, <1>3, <1>4

(* What the writes rest on: addressable zones have addressable channels,   *)
(* each its own, and none is written as the fixed channel is.              *)
Addressed(c) == FixedExposedZoneCount(c) + 1 .. ExposedZoneCount(c)

ChannelsOK(c) ==
  /\ Addressable(c) \in Seq(Channel)
  /\ FixedExposedZoneCount(c) \in Nat /\ ExposedZoneCount(c) \in Nat
  /\ FixedExposedZoneCount(c) <= ExposedZoneCount(c)
  /\ \A z \in 1 .. FixedExposedZoneCount(c) :
       ChannelOf(c, z).type = "fixed" /\ Fixed(c).leds \in Nat \ {0}
  /\ \A z \in Addressed(c) :
       /\ ChannelOf(c, z).type = "addressable"
       /\ ChannelOf(c, z).effect \in 0 .. MaxChannels
       /\ ChannelOf(c, z).direct \in 0 .. MaxChannels - 1
  /\ \A y, z \in Addressed(c) : y # z =>
       /\ ChannelOf(c, y).effect # ChannelOf(c, z).effect
       /\ ChannelOf(c, y).direct # ChannelOf(c, z).direct
  /\ \A i \in FixedLeds(c) :
       /\ c.channels[i].effect \in 0 .. MaxChannels
       /\ \A z \in Addressed(c) : ChannelOf(c, z).effect # c.channels[i].effect

LEMMA FixedZones ==
  ASSUME AuraAssumption, NEW c, ConfigOK(c), c.valid
  PROVE  /\ FixedExposedZoneCount(c) \in Nat
         /\ FixedExposedZoneCount(c) > 0 =>
              Fixed(c).type = "fixed" /\ Fixed(c).leds \in Nat \ {0}
<1>1. c.channels \in Seq(Channel) /\ ConfigIsValid(c)
  BY DEF ConfigOK
<1>2. HeaderCount \in Nat \ {0}
  BY DEF AuraAssumption
<1>3. CASE FixedLeds(c) = {}
  BY <1>3 DEF FixedExposedZoneCount
<1>4. CASE FixedLeds(c) # {}
  <2>1. FixedLeds(c) \in SUBSET (Nat \ {0})
    BY <1>1 DEF FixedLeds
  <2>2. First(FixedLeds(c)) \in FixedLeds(c)
    BY <1>4, <2>1, FirstIsLeast
  <2>3. Fixed(c) \in Channel /\ Fixed(c).type = "fixed"
    <3>1. First(FixedLeds(c)) \in DOMAIN c.channels /\ Fixed(c).type = "fixed"
      BY <2>2 DEF Fixed, FixedLeds
    <3> QED BY <1>1, <3>1 DEF Fixed
  <2>4. Fixed(c).leds >= 1
    BY <1>1, <2>2 DEF ConfigIsValid, Fixed
  <2>5. Fixed(c).headers \in Nat /\ Fixed(c).leds \in Nat
    BY <2>3 DEF Channel
  <2> QED BY <1>2, <2>3, <2>4, <2>5 DEF FixedExposedZoneCount, Min2
<1> QED BY <1>3, <1>4

LEMMA ConfigChannels ==
  ASSUME AuraAssumption, NEW c, ConfigOK(c), c.valid
  PROVE  ChannelsOK(c)
<1> DEFINE ch == c.channels
           asc == Ascending(DirectLeds(c))
           f == FixedExposedZoneCount(c)
<1>1. ch \in Seq(Channel) /\ ConfigIsValid(c)
  BY DEF ConfigOK
<1>2. f \in Nat /\ (f > 0 => Fixed(c).type = "fixed" /\ Fixed(c).leds \in Nat \ {0})
  BY FixedZones
<1>3. DirectLeds(c) \in SUBSET (1 .. Len(ch)) /\ Len(ch) \in Nat
  BY <1>1 DEF DirectLeds
<1>4. asc \in Seq(DirectLeds(c)) /\ \A j, k \in DOMAIN asc : asc[j] = asc[k] => j = k
  BY <1>3, AscendingCollects
<1>5. Addressable(c) = [k \in DOMAIN asc |-> ch[asc[k]]]
  BY DEF Addressable
<1> HIDE DEF asc
<1>6. DOMAIN asc = 1 .. Len(asc) /\ Len(asc) \in Nat /\ \A k \in DOMAIN asc : asc[k] \in DirectLeds(c)
  BY <1>4
<1>7. Len(Addressable(c)) = Len(asc)
  BY <1>5, <1>6
<1>8. ExposedZoneCount(c) = f + Len(asc)
  BY <1>7 DEF ExposedZoneCount
<1> HIDE DEF f
<1>9. ASSUME NEW z \in Addressed(c)
      PROVE  z - f \in DOMAIN asc /\ ChannelOf(c, z) = ch[asc[z - f]]
  <2>1. z \in f + 1 .. f + Len(asc)
    BY <1>8 DEF Addressed, f
  <2>2. z - f \in DOMAIN asc /\ ~(z <= f)
    BY <1>2, <1>6, <2>1
  <2>3. ChannelOf(c, z) = Addressable(c)[z - f]
    BY <2>2 DEF ChannelOf, f
  <2> QED BY <1>5, <2>2, <2>3
<1>10. ASSUME NEW i \in DirectLeds(c)
       PROVE  /\ ch[i].type = "addressable" /\ ch[i].effect \in 0 .. MaxChannels
              /\ ch[i].direct \in 0 .. MaxChannels - 1
  <2>1. ch[i] \in Channel /\ ch[i].type = "addressable"
    BY <1>1 DEF DirectLeds
  <2>2. ch[i].direct \in 0 .. MaxChannels - 1
    BY <1>1 DEF ConfigIsValid
  <2> QED BY <2>1, <2>2 DEF Channel
<1>11. ASSUME NEW i \in DOMAIN ch, NEW j \in DOMAIN ch, ch[i].effect = ch[j].effect PROVE i = j
  BY <1>1, <1>11 DEF ConfigIsValid
<1>12. ASSUME NEW i \in DirectLeds(c), NEW j \in DirectLeds(c), ch[i].direct = ch[j].direct
       PROVE  i = j
  BY <1>1, <1>12 DEF ConfigIsValid
<1>13. DirectLeds(c) \subseteq DOMAIN ch /\ FixedLeds(c) \subseteq DOMAIN ch
       /\ \A i \in FixedLeds(c) : i \notin DirectLeds(c)
  BY DEF DirectLeds, FixedLeds
<1>14. ASSUME NEW y \in Addressed(c), NEW z \in Addressed(c), y # z
       PROVE  /\ ChannelOf(c, y).effect # ChannelOf(c, z).effect
              /\ ChannelOf(c, y).direct # ChannelOf(c, z).direct
  <2>1. y \in Int /\ z \in Int
    BY <1>2, <1>6, <1>8 DEF Addressed, f
  <2>2. y - f # z - f
    BY <1>2, <1>14, <2>1
  <2>3. asc[y - f] # asc[z - f]
    BY <1>4, <1>9, <2>2
  <2> QED BY <1>6, <1>9, <1>11, <1>12, <1>13, <2>3
<1>15. ASSUME NEW i \in FixedLeds(c)
       PROVE  /\ ch[i].effect \in 0 .. MaxChannels
              /\ \A z \in Addressed(c) : ChannelOf(c, z).effect # ch[i].effect
  <2>1. ch[i] \in Channel
    BY <1>1, <1>13
  <2> QED BY <1>6, <1>9, <1>11, <1>13, <2>1 DEF Channel
<1>16. ASSUME NEW z \in 1 .. f PROVE ChannelOf(c, z).type = "fixed" /\ Fixed(c).leds \in Nat \ {0}
  <2>1. f > 0 /\ z <= f
    BY <1>2
  <2> QED BY <1>2, <2>1 DEF ChannelOf, f
<1>17. f + Len(asc) \in Nat /\ f <= f + Len(asc)
  BY <1>2, <1>6
<1>18. ASSUME NEW z \in Addressed(c)
       PROVE  /\ ChannelOf(c, z).type = "addressable"
              /\ ChannelOf(c, z).effect \in 0 .. MaxChannels
              /\ ChannelOf(c, z).direct \in 0 .. MaxChannels - 1
  BY <1>6, <1>9, <1>10
<1>19. Addressable(c) \in Seq(Channel)
  <2>1. \A k \in 1 .. Len(asc) : ch[asc[k]] \in Channel
    BY <1>1, <1>6, <1>13
  <2> QED BY <1>5, <1>6, <2>1
<1> QED BY <1>2, <1>8, <1>14, <1>15, <1>16, <1>17, <1>18, <1>19 DEF ChannelsOK, f

-----------------------------------------------------------------------------
(* Reports and what the controller makes of them.                          *)

Led  == (Picture \cup {"preview", "black", "initial"}) \X Nat
Leds == [1 .. MaxLeds -> Led]
Hardware ==
  [mode : [0 .. MaxChannels -> {"initial", "direct", "off"}],
   lit : [0 .. MaxChannels - 1 -> Leds], buffer : [0 .. MaxChannels - 1 -> Leds]]

(* A report that sets modes of the channels in E, or LEDs of those in D.   *)
IsReport(r, E, D) ==
  \/ r.kind = "gen1"
  \/ r.kind = "mode" /\ r.channel \in E /\ r.mode \in {"initial", "direct", "off"}
  \/ /\ r.kind = "direct" /\ r.channel \in D /\ r.start \in Nat /\ r.colors \in Seq(Led)
     /\ r.apply \in BOOLEAN

Buffered(h, r) ==
  [i \in 1 .. MaxLeds |->
     IF i - r.start \in DOMAIN r.colors THEN r.colors[i - r.start] ELSE h.buffer[r.channel][i]]

LEMMA ModeReceived ==
  ASSUME NEW h \in Hardware, NEW r, r.kind = "mode", NEW e \in 0 .. MaxChannels, r.channel = e,
         r.mode \in {"initial", "direct", "off"}
  PROVE  /\ Receive(h, r) \in Hardware
         /\ Receive(h, r).lit = h.lit /\ Receive(h, r).buffer = h.buffer
         /\ Receive(h, r).mode = [h.mode EXCEPT ![e] = r.mode]
<1>1. Receive(h, r) = [h EXCEPT !.mode[e] = r.mode]
  BY DEF Receive
<1>2. Receive(h, r) = [h EXCEPT !.mode = [h.mode EXCEPT ![e] = r.mode]]
  BY <1>1
<1>3. [h.mode EXCEPT ![e] = r.mode] \in [0 .. MaxChannels -> {"initial", "direct", "off"}]
  BY DEF Hardware
<1> QED BY <1>2, <1>3 DEF Hardware

LEMMA LedsReceived ==
  ASSUME NEW h \in Hardware, NEW r, r.kind = "direct", NEW d \in 0 .. MaxChannels - 1,
         r.channel = d, r.start \in Nat, r.colors \in Seq(Led), r.apply \in BOOLEAN
  PROVE  /\ Receive(h, r) \in Hardware
         /\ Receive(h, r).mode = h.mode
         /\ Receive(h, r).buffer = [h.buffer EXCEPT ![d] = Buffered(h, r)]
         /\ Receive(h, r).lit = IF r.apply THEN [h.lit EXCEPT ![d] = Buffered(h, r)] ELSE h.lit
<1> DEFINE b == Buffered(h, r)
<1>1. /\ h.lit \in [0 .. MaxChannels - 1 -> Leds] /\ h.buffer \in [0 .. MaxChannels - 1 -> Leds]
      /\ h = [mode |-> h.mode, lit |-> h.lit, buffer |-> h.buffer]
  BY DEF Hardware
<1>2. b \in Leds
  <2>1. h.buffer[d] \in [1 .. MaxLeds -> Led]
    BY <1>1 DEF Leds
  <2>2. ASSUME NEW i \in 1 .. MaxLeds
        PROVE  (IF i - r.start \in DOMAIN r.colors THEN r.colors[i - r.start]
                ELSE h.buffer[d][i]) \in Led
    <3>1. i - r.start \in DOMAIN r.colors => r.colors[i - r.start] \in Led
      OBVIOUS
    <3>2. h.buffer[d][i] \in Led
      BY <2>1
    <3> QED BY <3>1, <3>2
  <2> QED BY <2>2 DEF Buffered, Leds
<1>3. Receive(h, r) =
        [h EXCEPT !.buffer[d] = b, !.lit[d] = IF r.apply THEN b ELSE @]
  BY DEF Receive, Buffered
<1> HIDE DEF b
<1>4. Receive(h, r).mode = h.mode /\ Receive(h, r).buffer = [h.buffer EXCEPT ![d] = b]
  BY <1>1, <1>3
<1>5. Receive(h, r).lit = [h.lit EXCEPT ![d] = IF r.apply THEN b ELSE h.lit[d]]
  BY <1>1, <1>3
<1>6. Receive(h, r).lit = IF r.apply THEN [h.lit EXCEPT ![d] = b] ELSE h.lit
  BY <1>1, <1>5
<1>7. Receive(h, r) = [mode |-> h.mode, lit |-> Receive(h, r).lit, buffer |-> Receive(h, r).buffer]
  BY <1>1, <1>3
<1>8. /\ Receive(h, r).lit \in [0 .. MaxChannels - 1 -> Leds]
      /\ Receive(h, r).buffer \in [0 .. MaxChannels - 1 -> Leds]
  BY <1>1, <1>2, <1>4, <1>6
<1>9. Receive(h, r) \in Hardware
  BY <1>7, <1>8 DEF Hardware
<1> QED BY <1>4, <1>6, <1>9 DEF b

(* The channels that no report names stay as they are.                     *)
Untouched(h, g, E, D) ==
  /\ \A x \in 0 .. MaxChannels : x \notin E => g.mode[x] = h.mode[x]
  /\ \A x \in 0 .. MaxChannels - 1 : x \notin D => g.lit[x] = h.lit[x]

LEMMA ReceiveOK ==
  ASSUME NEW E \in SUBSET (0 .. MaxChannels), NEW D \in SUBSET (0 .. MaxChannels - 1),
         NEW h \in Hardware, NEW r, IsReport(r, E, D)
  PROVE  Receive(h, r) \in Hardware /\ Untouched(h, Receive(h, r), E, D)
<1>1. CASE r.kind = "gen1"
  BY <1>1 DEF Receive, Untouched
<1>2. CASE r.kind = "mode" /\ r.channel \in E /\ r.mode \in {"initial", "direct", "off"}
  <2>1. /\ Receive(h, r) \in Hardware /\ Receive(h, r).lit = h.lit
        /\ Receive(h, r).mode = [h.mode EXCEPT ![r.channel] = r.mode]
    BY <1>2, ModeReceived, ZenonT(60)
  <2>2. h.mode \in [0 .. MaxChannels -> {"initial", "direct", "off"}]
    BY DEF Hardware
  <2> QED BY <1>2, <2>1, <2>2 DEF Untouched
<1>3. CASE /\ r.kind = "direct" /\ r.channel \in D /\ r.start \in Nat /\ r.colors \in Seq(Led)
           /\ r.apply \in BOOLEAN
  <2>1. /\ Receive(h, r) \in Hardware /\ Receive(h, r).mode = h.mode
        /\ Receive(h, r).lit =
             IF r.apply THEN [h.lit EXCEPT ![r.channel] = Buffered(h, r)] ELSE h.lit
    BY <1>3, LedsReceived
  <2>2. h.lit \in [0 .. MaxChannels - 1 -> Leds]
    BY DEF Hardware
  <2> QED BY <1>3, <2>1, <2>2 DEF Untouched
<1> QED BY <1>1, <1>2, <1>3 DEF IsReport

AreReports(reports, E, D) == \A k \in 1 .. Len(reports) : IsReport(reports[k], E, D)

LEMMA ReceivedStates ==
  ASSUME NEW E \in SUBSET (0 .. MaxChannels), NEW D \in SUBSET (0 .. MaxChannels - 1),
         NEW h \in Hardware, NEW reports, Len(reports) \in Nat, AreReports(reports, E, D)
  PROVE  /\ Received(h, reports)[0] = h
         /\ \A k \in 1 .. Len(reports) :
              Received(h, reports)[k] = Receive(Received(h, reports)[k - 1], reports[k])
         /\ \A k \in 0 .. Len(reports) :
              /\ Received(h, reports)[k] \in Hardware
              /\ Untouched(h, Received(h, reports)[k], E, D)
<1> DEFINE n == Len(reports)
           step == [k \in 1 .. n |-> [g \in Hardware |-> Receive(g, reports[k])]]
           IsRun(a) == a = [k \in 0 .. n |-> IF k = 0 THEN h ELSE Receive(a[k - 1], reports[k])]
           run == CHOOSE a : IsRun(a)
<1>1. Received(h, reports) = run
  BY DEF Received
<1>2. n \in Nat
  OBVIOUS
<1>3. \A k \in 1 .. n : IsReport(reports[k], E, D)
  BY DEF AreReports
<1> HIDE DEF n
<1>4. step \in [1 .. n -> [Hardware -> Hardware]]
  BY <1>3, ReceiveOK
<1>5. \A k \in 1 .. n : \A g \in Hardware : step[k][g] = Receive(g, reports[k])
  OBVIOUS
<1> HIDE DEF step
<1>6. PICK f : IsIteration(f, n, Hardware, h, step)
  BY <1>2, <1>4, IterationExists
<1>7. f \in [0 .. n -> Hardware] /\ f[0] = h /\ \A k \in 1 .. n : f[k] = Receive(f[k - 1], reports[k])
  <2>1. /\ f \in [0 .. n -> Hardware] /\ f[0] = h
        /\ \A k \in 1 .. n : f[k] = step[k][f[k - 1]]
    BY <1>6 DEF IsIteration
  <2>2. ASSUME NEW k \in 1 .. n PROVE f[k] = Receive(f[k - 1], reports[k])
    <3>1. f[k - 1] \in Hardware
      BY <1>2, <2>1
    <3> QED BY <1>5, <2>1, <3>1
  <2> QED BY <2>1, <2>2
<1>8. IsRun(f)
  BY <1>2, <1>7
<1>9. IsRun(run)
  <2> HIDE DEF IsRun
  <2> QED BY <1>8
<1>10. run[0] = h /\ \A k \in 1 .. n : run[k] = Receive(run[k - 1], reports[k])
  <2> HIDE DEF run
  <2>1. run = [k \in 0 .. n |-> IF k = 0 THEN h ELSE Receive(run[k - 1], reports[k])]
    BY <1>9
  <2>2. ASSUME NEW k \in 1 .. n PROVE run[k] = Receive(run[k - 1], reports[k])
    <3>1. k \in 0 .. n /\ k # 0
      BY <1>2
    <3> QED BY <2>1, <3>1
  <2> QED BY <1>2, <2>1, <2>2
<1> HIDE DEF run, IsRun
<1> DEFINE S == {k \in 0 .. n : run[k] \in Hardware /\ Untouched(h, run[k], E, D)}
<1>11. 0 \in S
  BY <1>2, <1>10 DEF Untouched
<1>12. ASSUME NEW k \in 0 .. n, k \in S, k < n PROVE k + 1 \in S
  <2>1. k + 1 \in 1 .. n /\ (k + 1) - 1 = k /\ k + 1 \in 0 .. n
    BY <1>2, <1>12
  <2>2. run[k + 1] = Receive(run[k], reports[k + 1])
    BY <1>10, <2>1
  <2>3. run[k] \in Hardware /\ Untouched(h, run[k], E, D)
    BY <1>12
  <2>4. run[k + 1] \in Hardware /\ Untouched(run[k], run[k + 1], E, D)
    BY <1>3, <2>1, <2>2, <2>3, ReceiveOK
  <2>5. Untouched(h, run[k + 1], E, D)
    BY <2>3, <2>4 DEF Untouched
  <2> QED BY <2>1, <2>4, <2>5
<1> HIDE DEF S
<1>13. \A k \in 0 .. n : k \in S
  BY <1>2, <1>11, <1>12, UpTo
<1> QED BY <1>1, <1>10, <1>13 DEF S, n

-----------------------------------------------------------------------------
(* A frame, in packets.                                                    *)

LEMMA Times ==
  ASSUME NEW l \in Nat, NEW a \in Nat, NEW b \in Nat
  PROVE  /\ a * l \in Nat /\ (a + 1) * l = a * l + l
         /\ a <= b => a * l <= b * l
OBVIOUS

LEMMA PacketsEnough ==
  ASSUME AuraAssumption, NEW n \in Nat \ {0}
  PROVE  /\ Packets(n) \in 1 .. n
         /\ (Packets(n) - 1) * LedsPerPacket < n /\ n <= Packets(n) * LedsPerPacket
<1> DEFINE T == {m \in Nat : n <= m * LedsPerPacket}
<1>1. LedsPerPacket \in Nat /\ LedsPerPacket >= 1
  BY DEF AuraAssumption
<1>2. n * 1 <= n * LedsPerPacket
  BY <1>1
<1>3. n \in T
  BY <1>2
<1>4. PICK m \in T : \A k \in T : m <= k
  BY <1>3, LeastNat
<1>5. m \in Nat /\ n <= m * LedsPerPacket /\ m <= n
  BY <1>3, <1>4
<1>6. m # 0
  <2>1. 0 * LedsPerPacket = 0
    BY <1>1
  <2> QED BY <1>5, <2>1
<1>7. m - 1 \in Nat /\ m - 1 \notin T
  BY <1>4, <1>5, <1>6
<1>8. (m - 1) * LedsPerPacket < n
  <2>1. (m - 1) * LedsPerPacket \in Nat /\ ~(n <= (m - 1) * LedsPerPacket)
    BY <1>1, <1>7, Times
  <2> QED BY <2>1
<1>9. \E k \in 1 .. n : (k - 1) * LedsPerPacket < n /\ n <= k * LedsPerPacket
  BY <1>5, <1>6, <1>8
<1> QED BY <1>9 DEF Packets

(* Packet k brings the LEDs after the (k - 1) * LedsPerPacket of those     *)
(* before it, up to k * LedsPerPacket.                                     *)
Brings(r, colors, k) ==
  \A i \in 1 .. Len(colors) :
    /\ i <= (k - 1) * LedsPerPacket => i - r.start \notin DOMAIN r.colors
    /\ (k - 1) * LedsPerPacket < i /\ i <= k * LedsPerPacket =>
         i - r.start \in DOMAIN r.colors /\ r.colors[i - r.start] = colors[i]

LEMMA PacketOK ==
  ASSUME AuraAssumption, NEW d, NEW colors \in Seq(Led), Len(colors) # 0,
         NEW k \in 1 .. Packets(Len(colors)), NEW apply \in BOOLEAN
  PROVE  /\ Packet(d, colors, k, apply).kind = "direct"
         /\ Packet(d, colors, k, apply).channel = d
         /\ Packet(d, colors, k, apply).apply = apply
         /\ Packet(d, colors, k, apply).start \in Nat
         /\ Packet(d, colors, k, apply).colors \in Seq(Led)
         /\ Brings(Packet(d, colors, k, apply), colors, k)
<1> DEFINE r == Packet(d, colors, k, apply)
           n == Len(colors)
           o == (k - 1) * LedsPerPacket
           m == Min2(LedsPerPacket, n - o)
<1>1. LedsPerPacket \in Nat /\ LedsPerPacket >= 1 /\ n \in Nat \ {0}
  BY DEF AuraAssumption
<1>2. r = [kind |-> "direct", channel |-> d, start |-> o, apply |-> apply,
           colors |-> [i \in 1 .. m |-> colors[o + i]]]
  BY DEF Packet
<1>3. \A i \in 1 .. n : colors[i] \in Led
  OBVIOUS
<1>4. Packets(n) \in Nat /\ (Packets(n) - 1) * LedsPerPacket < n
  BY <1>1, PacketsEnough
<1> HIDE DEF n, r
<1>5. k \in Nat /\ k - 1 \in Nat /\ Packets(n) - 1 \in Nat /\ k - 1 <= Packets(n) - 1
  BY <1>4 DEF n
<1>6. o \in Nat /\ o < n /\ k * LedsPerPacket = o + LedsPerPacket
  <2>1. o \in Nat /\ o <= (Packets(n) - 1) * LedsPerPacket
    BY <1>1, <1>5, Times
  <2>2. (Packets(n) - 1) * LedsPerPacket \in Nat
    BY <1>1, <1>5, Times
  <2>3. ((k - 1) + 1) * LedsPerPacket = o + LedsPerPacket /\ (k - 1) + 1 = k
    BY <1>1, <1>5, Times
  <2> HIDE DEF o
  <2> QED BY <1>1, <1>4, <2>1, <2>2, <2>3
<1> HIDE DEF o
<1>7. m \in Nat /\ m >= 1 /\ m <= LedsPerPacket /\ o + m <= n
      /\ (m = LedsPerPacket \/ o + m = n)
  BY <1>1, <1>6 DEF Min2
<1> HIDE DEF m
<1>8. [i \in 1 .. m |-> colors[o + i]] \in Seq(Led)
  <2>1. ASSUME NEW i \in 1 .. m PROVE colors[o + i] \in Led
    <3>1. o + i \in 1 .. n
      BY <1>1, <1>6, <1>7
    <3> QED BY <1>3, <3>1
  <2>2. [i \in 1 .. m |-> colors[o + i]] \in [1 .. m -> Led]
    BY <2>1
  <2> QED BY <1>7, <2>2
<1>9. r.start = o /\ r.colors = [i \in 1 .. m |-> colors[o + i]]
  BY <1>2
<1>10. ASSUME NEW i \in 1 .. n
       PROVE  /\ i <= o => i - r.start \notin DOMAIN r.colors
              /\ o < i /\ i <= o + LedsPerPacket =>
                   i - r.start \in DOMAIN r.colors /\ r.colors[i - r.start] = colors[i]
  <2>1. i \in Nat
    BY <1>1
  <2>2. i <= o => i - o \notin 1 .. m
    BY <1>6, <2>1
  <2>3. ASSUME o < i, i <= o + LedsPerPacket PROVE i - o \in 1 .. m /\ o + (i - o) = i
    BY <1>1, <1>6, <1>7, <2>1, <2>3
  <2> QED BY <1>9, <2>2, <2>3
<1>11. Brings(r, colors, k)
  BY <1>6, <1>10 DEF Brings, n, o
<1>12. r.kind = "direct" /\ r.channel = d /\ r.apply = apply
  BY <1>2
<1> QED BY <1>6, <1>8, <1>9, <1>11, <1>12 DEF r

(* What the reports of a frame make of h, sent up to the k-th: only the    *)
(* channel of the frame changes; it shows what it showed until the last    *)
(* packet, and then the frame.                                             *)
Sent(h, g, e, d, colors, primes, all) ==
  /\ g \in Hardware /\ Untouched(h, g, {e}, {d})
  /\ ~primes => g.mode = h.mode
  /\ ~all => g.lit = h.lit
  /\ all => (primes => g.mode[e] = "direct")
            /\ \A i \in 1 .. Len(colors) : g.lit[d][i] = colors[i]

LEMMA FrameIsReports ==
  ASSUME AuraAssumption, NEW channel, channel.effect \in 0 .. MaxChannels,
         channel.direct \in 0 .. MaxChannels - 1, NEW primes \in BOOLEAN,
         NEW colors \in Seq(Led), Len(colors) # 0
  PROVE  LET reports == FrameReports(channel, colors, primes)
             pre     == IF primes THEN 2 ELSE 0
             P       == Packets(Len(colors))
         IN  /\ Len(reports) = pre + P
             /\ primes => reports[1] = Gen1 /\ reports[2] = Mode(channel.effect, "direct")
             /\ \A k \in 1 .. P : reports[pre + k] = Packet(channel.direct, colors, k, k = P)
             /\ AreReports(reports, {channel.effect}, {channel.direct})
<1> DEFINE reports == FrameReports(channel, colors, primes)
           P == Packets(Len(colors))
           direct == [k \in 1 .. P |-> Packet(channel.direct, colors, k, k = P)]
           R == {Gen1, Mode(channel.effect, "direct")} \cup {direct[k] : k \in 1 .. P}
<1>1. P \in Nat
  BY PacketsEnough
<1>2. DirectReports(channel.direct, colors) = direct
  BY DEF DirectReports
<1>3. direct \in Seq(R) /\ Len(direct) = P
  BY <1>1
<1>4. ASSUME NEW k \in 1 .. P
      PROVE  direct[k] = Packet(channel.direct, colors, k, k = P)
             /\ IsReport(direct[k], {channel.effect}, {channel.direct})
  <2> DEFINE r == Packet(channel.direct, colors, k, k = P)
  <2>1. /\ r.kind = "direct" /\ r.channel = channel.direct /\ r.apply = (k = P)
        /\ r.start \in Nat /\ r.colors \in Seq(Led)
    <3> DEFINE b == (k = P)
               q == Packet(channel.direct, colors, k, b)
    <3>1. b \in BOOLEAN /\ k \in 1 .. Packets(Len(colors))
      OBVIOUS
    <3> HIDE DEF b, P
    <3>2. /\ q.kind = "direct" /\ q.channel = channel.direct /\ q.apply = b
          /\ q.start \in Nat /\ q.colors \in Seq(Led)
      BY <3>1, PacketOK
    <3> HIDE DEF q, r
    <3>3. q = r
      BY DEF q, r, b
    <3> QED BY <3>2, <3>3 DEF b
  <2>2. direct[k] = r
    OBVIOUS
  <2> HIDE DEF direct, r
  <2>3. IsReport(r, {channel.effect}, {channel.direct})
    BY <2>1 DEF IsReport
  <2> QED BY <2>2, <2>3 DEF r
<1>5. IsReport(Gen1, {channel.effect}, {channel.direct})
  BY DEF IsReport, Gen1
<1>6. IsReport(Mode(channel.effect, "direct"), {channel.effect}, {channel.direct})
  BY DEF IsReport, Mode
<1> HIDE DEF direct, P
<1>7. CASE primes
  <2> DEFINE prefix == <<Gen1, Mode(channel.effect, "direct")>>
  <2>1. prefix \in Seq(R) /\ Len(prefix) = 2 /\ prefix[1] = Gen1
        /\ prefix[2] = Mode(channel.effect, "direct")
    OBVIOUS
  <2>2. reports = prefix \o direct
    BY <1>2, <1>7 DEF FrameReports
  <2> HIDE DEF prefix, R, reports
  <2>3. Len(reports) = 2 + P /\ \A k \in 1 .. 2 + P :
          reports[k] = IF k <= 2 THEN prefix[k] ELSE direct[k - 2]
    <3>1. /\ Len(prefix \o direct) = Len(prefix) + Len(direct)
          /\ \A k \in 1 .. Len(prefix) + Len(direct) :
               (prefix \o direct)[k] = IF k <= Len(prefix) THEN prefix[k] ELSE direct[k - Len(prefix)]
      BY <1>3, <2>1, ConcatProperties
    <3> QED BY <1>3, <2>1, <2>2, <3>1
  <2>4. reports[1] = Gen1 /\ reports[2] = Mode(channel.effect, "direct")
    BY <1>1, <2>1, <2>3
  <2>5. ASSUME NEW k \in 1 .. P PROVE reports[2 + k] = direct[k]
    <3>1. 2 + k \in 1 .. 2 + P /\ ~(2 + k <= 2) /\ (2 + k) - 2 = k
      BY <1>1
    <3> QED BY <2>3, <3>1
  <2>6. ASSUME NEW k \in 1 .. 2 + P PROVE IsReport(reports[k], {channel.effect}, {channel.direct})
    <3>1. k = 1 \/ k = 2 \/ (k - 2 \in 1 .. P /\ k = 2 + (k - 2))
      BY <1>1
    <3> QED BY <1>4, <1>5, <1>6, <2>4, <2>5, <3>1
  <2>7. AreReports(reports, {channel.effect}, {channel.direct})
    BY <2>3, <2>6 DEF AreReports
  <2> QED BY <1>4, <1>7, <2>3, <2>4, <2>5, <2>7 DEF P, reports
<1>8. CASE ~primes
  <2>1. reports = <<>> \o direct
    BY <1>2, <1>8 DEF FrameReports
  <2>2. reports = direct
    BY <1>3, <2>1
  <2>3. AreReports(reports, {channel.effect}, {channel.direct})
    BY <1>3, <1>4, <2>2 DEF AreReports
  <2>4. \A k \in 1 .. P : 0 + k = k
    BY <1>1
  <2> QED BY <1>1, <1>3, <1>4, <1>8, <2>2, <2>3, <2>4 DEF P, reports
<1> QED BY <1>7, <1>8

LEMMA FrameSent ==
  ASSUME AuraAssumption, NEW h \in Hardware, NEW channel, channel.effect \in 0 .. MaxChannels,
         channel.direct \in 0 .. MaxChannels - 1, NEW primes \in BOOLEAN,
         NEW colors \in Seq(Led), Len(colors) \in 1 .. MaxLeds,
         NEW k \in 0 .. Len(FrameReports(channel, colors, primes))
  PROVE  Sent(h, Received(h, FrameReports(channel, colors, primes))[k], channel.effect,
              channel.direct, colors, primes, k = Len(FrameReports(channel, colors, primes)))
<1> DEFINE reports == FrameReports(channel, colors, primes)
           e == channel.effect
           d == channel.direct
           pre == IF primes THEN 2 ELSE 0
           n == Len(colors)
           P == Packets(n)
           run == Received(h, reports)
<1>1. n \in Nat \ {0} /\ n <= MaxLeds /\ MaxLeds \in Nat /\ LedsPerPacket \in Nat
  BY DEF AuraAssumption
<1>2. P \in Nat /\ P >= 1 /\ n <= P * LedsPerPacket
  BY <1>1, PacketsEnough
<1>3. /\ Len(reports) = pre + P /\ AreReports(reports, {e}, {d})
      /\ primes => reports[1] = Gen1 /\ reports[2] = Mode(e, "direct")
      /\ \A j \in 1 .. P : reports[pre + j] = Packet(d, colors, j, j = P)
  BY <1>1, FrameIsReports, ZenonT(60)
<1>4. pre \in Nat /\ (primes => pre = 2) /\ (~primes => pre = 0)
  OBVIOUS
<1>5. /\ run[0] = h
      /\ \A j \in 1 .. pre + P : run[j] = Receive(run[j - 1], reports[j])
      /\ \A j \in 0 .. pre + P : run[j] \in Hardware /\ Untouched(h, run[j], {e}, {d})
  <2>1. {e} \in SUBSET (0 .. MaxChannels) /\ {d} \in SUBSET (0 .. MaxChannels - 1)
    OBVIOUS
  <2>2. Len(reports) \in Nat
    BY <1>2, <1>3, <1>4
  <2> HIDE DEF reports, e, d, pre
  <2>3. /\ Received(h, reports)[0] = h
        /\ \A j \in 1 .. Len(reports) :
             Received(h, reports)[j] = Receive(Received(h, reports)[j - 1], reports[j])
        /\ \A j \in 0 .. Len(reports) :
             /\ Received(h, reports)[j] \in Hardware
             /\ Untouched(h, Received(h, reports)[j], {e}, {d})
    BY <1>3, <2>1, <2>2, ReceivedStates
  <2> QED BY <1>3, <2>3
<1>6. \A j \in 1 .. P : LET r == Packet(d, colors, j, j = P)
                        IN  /\ r.kind = "direct" /\ r.channel = d /\ r.apply = (j = P)
                            /\ r.start \in Nat /\ r.colors \in Seq(Led) /\ Brings(r, colors, j)
  <2>1. ASSUME NEW j \in 1 .. P
        PROVE  LET r == Packet(d, colors, j, j = P)
               IN  /\ r.kind = "direct" /\ r.channel = d /\ r.apply = (j = P)
                   /\ r.start \in Nat /\ r.colors \in Seq(Led) /\ Brings(r, colors, j)
    <3> DEFINE b == (j = P)
               q == Packet(d, colors, j, b)
    <3>1. b \in BOOLEAN /\ j \in 1 .. Packets(Len(colors)) /\ Len(colors) # 0
      BY <1>1
    <3> HIDE DEF b, P, d
    <3>2. /\ q.kind = "direct" /\ q.channel = d /\ q.apply = b
          /\ q.start \in Nat /\ q.colors \in Seq(Led) /\ Brings(q, colors, j)
      BY <3>1, PacketOK
    <3> HIDE DEF q
    <3>3. Packet(d, colors, j, j = P) = q
      BY DEF q, b
    <3> QED BY <3>2, <3>3 DEF b
  <2> QED BY <2>1
<1>7. e \in 0 .. MaxChannels /\ d \in 0 .. MaxChannels - 1 /\ k \in 0 .. pre + P
  BY <1>3
<1> HIDE DEF reports, e, d, pre, n, P, run
<1>received. ASSUME NEW j \in 1 .. pre + P PROVE run[j] = Receive(run[j - 1], reports[j])
  BY <1>5
(* After the first reports the mode is set, and the LEDs are as before.    *)
<1>8. /\ run[pre].lit = h.lit
      /\ IF primes THEN run[pre].mode[e] = "direct" ELSE run[pre].mode = h.mode
      /\ \A j \in 0 .. pre : run[j].lit = h.lit
  <2>1. CASE ~primes
    BY <1>4, <1>5, <2>1
  <2>2. CASE primes
    <3>1. run[1] = Receive(h, Gen1)
      <4>1. 1 \in 1 .. pre + P /\ 1 - 1 = 0
        BY <1>2, <1>4, <2>2
      <4> QED BY <1>3, <1>5, <2>2, <4>1
    <3>2. run[1] = h
      BY <3>1 DEF Receive, Gen1
    <3>3. run[2] = Receive(h, Mode(e, "direct"))
      <4>1. 2 \in 1 .. pre + P /\ 2 - 1 = 1
        BY <1>2, <1>4, <2>2
      <4>2. run[2] = Receive(run[2 - 1], reports[2])
        BY <1>received, <4>1
      <4>3. reports[2] = Mode(e, "direct")
        BY <1>3, <2>2
      <4> QED BY <3>2, <4>1, <4>2, <4>3
    <3>4. /\ Receive(h, Mode(e, "direct")).lit = h.lit
          /\ Receive(h, Mode(e, "direct")).mode = [h.mode EXCEPT ![e] = "direct"]
      <4> DEFINE r == Mode(e, "direct")
      <4>1. /\ r.kind = "mode" /\ r.channel = e /\ r.mode = "direct"
            /\ r.mode \in {"initial", "direct", "off"}
        BY DEF Mode
      <4> HIDE DEF r
      <4>2. Receive(h, r).lit = h.lit /\ Receive(h, r).mode = [h.mode EXCEPT ![e] = r.mode]
        BY <1>7, <4>1, ModeReceived, ZenonT(60)
      <4> QED BY <4>1, <4>2 DEF r
    <3>5. h.mode \in [0 .. MaxChannels -> {"initial", "direct", "off"}]
      BY DEF Hardware
    <3>6. run[2].lit = h.lit /\ run[2].mode[e] = "direct"
      BY <1>7, <3>3, <3>4, <3>5
    <3>7. \A j \in 0 .. 2 : j = 0 \/ j = 1 \/ j = 2
      OBVIOUS
    <3> QED BY <1>4, <1>5, <2>2, <3>2, <3>6, <3>7
  <2> QED BY <2>1, <2>2
(* After j packets the buffer holds the LEDs of those.                     *)
<1> DEFINE Filled(j) == \A i \in 1 .. n : i <= j * LedsPerPacket => run[pre + j].buffer[d][i] = colors[i]
           S == {j \in 0 .. P :
                  /\ run[pre + j].mode = run[pre].mode
                  /\ j < P => run[pre + j].lit = h.lit
                  /\ j = P => run[pre + j].lit[d] = run[pre + j].buffer[d]
                  /\ Filled(j)}
<1>9. 0 \in S
  <2>1. 0 * LedsPerPacket = 0 /\ pre + 0 = pre
    BY <1>1, <1>4
  <2>2. Filled(0)
    BY <1>1, <2>1
  <2> QED BY <1>2, <1>8, <2>1, <2>2
<1>10. ASSUME NEW j \in 0 .. P, j \in S, j < P PROVE j + 1 \in S
  <2> DEFINE r == Packet(d, colors, j + 1, j + 1 = P)
             g == run[pre + j]
  <2>1. /\ j \in Nat /\ j + 1 \in 1 .. P /\ j + 1 \in 0 .. P /\ (j + 1) - 1 = j
        /\ pre + (j + 1) \in 1 .. pre + P /\ pre + j \in 0 .. pre + P
        /\ (pre + (j + 1)) - 1 = pre + j
    BY <1>2, <1>4, <1>10, SMTT(60)
  <2>2. /\ r.kind = "direct" /\ r.channel = d /\ r.apply = (j + 1 = P)
        /\ r.start \in Nat /\ r.colors \in Seq(Led) /\ Brings(r, colors, j + 1)
    BY <1>6, <2>1
  <2>3. reports[pre + (j + 1)] = r
    BY <1>3, <2>1
  <2> HIDE DEF r
  <2>4. run[pre + (j + 1)] = Receive(g, r) /\ g \in Hardware
    <3>1. run[pre + (j + 1)] = Receive(run[(pre + (j + 1)) - 1], reports[pre + (j + 1)])
      BY <1>received, <2>1
    <3>2. g \in Hardware
      BY <1>5, <2>1
    <3> QED BY <2>1, <2>3, <3>1, <3>2
  <2> HIDE DEF g
  <2>5. /\ Receive(g, r).mode = g.mode
        /\ Receive(g, r).buffer = [g.buffer EXCEPT ![d] = Buffered(g, r)]
        /\ Receive(g, r).lit = IF r.apply THEN [g.lit EXCEPT ![d] = Buffered(g, r)] ELSE g.lit
    <3>1. r.apply \in BOOLEAN
      BY <2>2
    <3> QED BY <1>7, <2>2, <2>4, <3>1, LedsReceived, ZenonT(60)
  <2>6. /\ g.lit \in [0 .. MaxChannels - 1 -> Leds] /\ g.buffer \in [0 .. MaxChannels - 1 -> Leds]
    BY <2>4 DEF Hardware
  <2>7. Receive(g, r).buffer[d] = Buffered(g, r)
    BY <1>7, <2>5, <2>6
  <2>8. g.mode = run[pre].mode /\ g.lit = h.lit /\ Filled(j)
    BY <1>10 DEF g
  <2>9. ASSUME NEW i \in 1 .. n, i <= (j + 1) * LedsPerPacket
        PROVE  Buffered(g, r)[i] = colors[i]
    <3>1. i \in 1 .. MaxLeds /\ i \in Nat
      BY <1>1
    <3>2. Buffered(g, r)[i] =
            IF i - r.start \in DOMAIN r.colors THEN r.colors[i - r.start] ELSE g.buffer[d][i]
      BY <2>2, <3>1 DEF Buffered
    <3>3. CASE i <= j * LedsPerPacket
      <4>1. i - r.start \notin DOMAIN r.colors
        BY <2>1, <2>2, <3>3 DEF Brings, n
      <4>2. g.buffer[d][i] = colors[i]
        BY <2>8, <3>3 DEF g
      <4> QED BY <3>2, <4>1, <4>2
    <3>4. CASE ~(i <= j * LedsPerPacket)
      <4>1. j * LedsPerPacket \in Nat
        BY <1>1, <2>1, Times
      <4>2. j * LedsPerPacket < i
        BY <3>1, <3>4, <4>1
      <4>3. i - r.start \in DOMAIN r.colors /\ r.colors[i - r.start] = colors[i]
        BY <2>1, <2>2, <2>9, <4>2 DEF Brings, n
      <4> QED BY <3>2, <4>3
    <3> QED BY <3>3, <3>4
  <2>10. Filled(j + 1)
    BY <2>4, <2>7, <2>9
  <2>11. run[pre + (j + 1)].mode = run[pre].mode
    BY <2>4, <2>5, <2>8
  <2>12. j + 1 < P => run[pre + (j + 1)].lit = h.lit
    <3>1. ASSUME j + 1 < P PROVE ~r.apply
      <4>1. (j + 1 = P) = FALSE
        BY <1>2, <2>1, <3>1
      <4> QED BY <2>2, <4>1
    <3> QED BY <2>4, <2>5, <2>8, <3>1
  <2>13. j + 1 = P => run[pre + (j + 1)].lit[d] = run[pre + (j + 1)].buffer[d]
    <3>1. j + 1 = P => r.apply
      BY <2>2
    <3>2. ASSUME r.apply PROVE Receive(g, r).lit[d] = Buffered(g, r)
      BY <1>7, <2>5, <2>6, <3>2
    <3> QED BY <2>4, <2>7, <3>1, <3>2
  <2> HIDE DEF Filled
  <2> QED BY <2>1, <2>10, <2>11, <2>12, <2>13
<1> HIDE DEF S
<1>11. \A j \in 0 .. P : j \in S
  BY <1>2, <1>9, <1>10, UpTo
<1>12. CASE k < pre
  <2>1. primes /\ k \in 0 .. pre /\ k # pre + P
    BY <1>2, <1>4, <1>7, <1>12
  <2> QED BY <1>3, <1>5, <1>7, <1>8, <2>1 DEF Sent, reports, run, e, d
<1>13. CASE ~(k < pre)
  <2> DEFINE j == k - pre
  <2>1. j \in 0 .. P /\ pre + j = k /\ (k = pre + P <=> j = P) /\ (j # P => j < P)
    BY <1>2, <1>4, <1>7, <1>13
  <2> HIDE DEF j
  <2>2. /\ run[k].mode = run[pre].mode
        /\ j < P => run[k].lit = h.lit
        /\ j = P => run[k].lit[d] = run[k].buffer[d]
        /\ \A i \in 1 .. n : i <= j * LedsPerPacket => run[k].buffer[d][i] = colors[i]
    BY <1>11, <2>1 DEF S
  <2>3. ASSUME j = P, NEW i \in 1 .. n PROVE run[k].lit[d][i] = colors[i]
    <3>1. i <= P * LedsPerPacket
      <4>1. P * LedsPerPacket \in Nat
        BY <1>1, <1>2, Times
      <4> QED BY <1>1, <1>2, <4>1
    <3> QED BY <2>2, <2>3, <3>1
  <2>4. run[k] \in Hardware /\ Untouched(h, run[k], {e}, {d})
    BY <1>5, <1>7
  <2>5. Sent(h, run[k], e, d, colors, primes, k = pre + P)
    BY <1>8, <2>1, <2>2, <2>3, <2>4 DEF Sent, n
  <2> QED BY <1>3, <2>5 DEF reports, run, e, d
<1> QED BY <1>4, <1>7, <1>12, <1>13

-----------------------------------------------------------------------------
(* All-off.                                                                *)

Effects(c) == {ChannelOf(c, z).effect : z \in Addressed(c)}

LEMMA AddressedChannel ==
  ASSUME NEW c, ChannelsOK(c)
  PROVE  /\ Len(Addressable(c)) \in Nat /\ DOMAIN Addressable(c) = 1 .. Len(Addressable(c))
         /\ \A i \in 1 .. Len(Addressable(c)) :
              /\ FixedExposedZoneCount(c) + i \in Addressed(c)
              /\ ChannelOf(c, FixedExposedZoneCount(c) + i) = Addressable(c)[i]
         /\ \A z \in Addressed(c) :
              /\ z - FixedExposedZoneCount(c) \in 1 .. Len(Addressable(c))
              /\ ChannelOf(c, z) = Addressable(c)[z - FixedExposedZoneCount(c)]
<1> DEFINE f == FixedExposedZoneCount(c)
           n == Len(Addressable(c))
<1>1. f \in Nat /\ n \in Nat /\ DOMAIN Addressable(c) = 1 .. n
  BY DEF ChannelsOK
<1>2. Addressed(c) = f + 1 .. f + n
  BY DEF Addressed, ExposedZoneCount
<1>3. \A z : ChannelOf(c, z) = IF z <= f THEN Fixed(c) ELSE Addressable(c)[z - f]
  BY DEF ChannelOf
<1> HIDE DEF f, n
<1>4. ASSUME NEW i \in 1 .. n
      PROVE  f + i \in Addressed(c) /\ ChannelOf(c, f + i) = Addressable(c)[i]
  <2>1. f + i \in f + 1 .. f + n /\ ~(f + i <= f) /\ (f + i) - f = i
    BY <1>1
  <2> QED BY <1>2, <1>3, <2>1
<1>5. ASSUME NEW z \in Addressed(c)
      PROVE  z - f \in 1 .. n /\ ChannelOf(c, z) = Addressable(c)[z - f]
  <2>1. z - f \in 1 .. n /\ ~(z <= f)
    BY <1>1, <1>2
  <2> QED BY <1>3, <2>1
<1> QED BY <1>1, <1>4, <1>5 DEF f, n

LEMMA AllOffSent ==
  ASSUME NEW c, ChannelsOK(c), NEW h \in Hardware, NEW k \in 0 .. Len(AllOffReports(c))
  PROVE  LET g == Received(h, AllOffReports(c))[k]
         IN  /\ g \in Hardware /\ Untouched(h, g, Effects(c), {})
             /\ k = Len(AllOffReports(c)) =>
                  \A z \in Addressed(c) : g.mode[ChannelOf(c, z).effect] = "off"
<1> DEFINE reports == AllOffReports(c)
           a == Addressable(c)
           n == Len(a)
           run == Received(h, reports)
<1>1. /\ n \in Nat /\ DOMAIN a = 1 .. n
      /\ \A i \in 1 .. n : \E z \in Addressed(c) : a[i] = ChannelOf(c, z)
      /\ \A z \in Addressed(c) : \E i \in 1 .. n : ChannelOf(c, z) = a[i]
  BY AddressedChannel
<1>2. \A z \in Addressed(c) : ChannelOf(c, z).effect \in 0 .. MaxChannels
  BY DEF ChannelsOK
<1>3. /\ Effects(c) \in SUBSET (0 .. MaxChannels)
      /\ \A i \in 1 .. n : a[i].effect \in Effects(c)
  BY <1>1, <1>2 DEF Effects
<1> HIDE DEF a, n
<1>4. Len(reports) = 1 + n /\ \A i \in 1 .. n : reports[i + 1] = Mode(a[i].effect, "off")
  <2> DEFINE modes == [i \in 1 .. n |-> Mode(a[i].effect, "off")]
             R == {Gen1} \cup {modes[i] : i \in 1 .. n}
  <2>1. reports = <<Gen1>> \o modes
    BY <1>1 DEF AllOffReports, a
  <2>2. modes \in Seq(R) /\ Len(modes) = n /\ <<Gen1>> \in Seq(R) /\ Len(<<Gen1>>) = 1
    BY <1>1, SMTT(60)
  <2>3. \A i \in 1 .. n : modes[i] = Mode(a[i].effect, "off")
    OBVIOUS
  <2> HIDE DEF modes, R, reports
  <2>4. /\ Len(reports) = 1 + n
        /\ \A i \in 1 .. 1 + n : reports[i] = IF i <= 1 THEN <<Gen1>>[i] ELSE modes[i - 1]
    BY <2>1, <2>2, ConcatProperties
  <2>5. ASSUME NEW i \in 1 .. n PROVE reports[i + 1] = modes[i]
    <3>1. i + 1 \in 1 .. 1 + n /\ ~(i + 1 <= 1) /\ (i + 1) - 1 = i
      BY <1>1
    <3> QED BY <2>4, <3>1
  <2> QED BY <2>3, <2>4, <2>5
<1>5. reports[1] = Gen1
  BY <1>1 DEF AllOffReports, a
<1> HIDE DEF reports
<1>6. AreReports(reports, Effects(c), {})
  <2>1. ASSUME NEW j \in 1 .. Len(reports) PROVE IsReport(reports[j], Effects(c), {})
    <3>1. CASE j = 1
      BY <1>5, <3>1 DEF IsReport, Gen1
    <3>2. CASE j # 1
      <4>1. j - 1 \in 1 .. n /\ (j - 1) + 1 = j
        BY <1>1, <1>4, <3>2
      <4>2. reports[j] = Mode(a[j - 1].effect, "off")
        BY <1>4, <4>1
      <4> QED BY <1>3, <4>1, <4>2 DEF IsReport, Mode
    <3> QED BY <3>1, <3>2
  <2> QED BY <2>1 DEF AreReports
<1>7. /\ run[0] = h
      /\ \A j \in 1 .. 1 + n : run[j] = Receive(run[j - 1], reports[j])
      /\ \A j \in 0 .. 1 + n : run[j] \in Hardware /\ Untouched(h, run[j], Effects(c), {})
  <2>1. Len(reports) \in Nat /\ {} \in SUBSET (0 .. MaxChannels - 1)
    BY <1>1, <1>4
  <2>2. /\ Received(h, reports)[0] = h
        /\ \A j \in 1 .. Len(reports) :
             Received(h, reports)[j] = Receive(Received(h, reports)[j - 1], reports[j])
        /\ \A j \in 0 .. Len(reports) :
             /\ Received(h, reports)[j] \in Hardware
             /\ Untouched(h, Received(h, reports)[j], Effects(c), {})
    BY <1>3, <1>6, <2>1, ReceivedStates
  <2> QED BY <1>4, <2>2
<1> HIDE DEF run
<1> DEFINE S == {j \in 0 .. n : \A i \in 1 .. j : run[j + 1].mode[a[i].effect] = "off"}
<1>8. 0 \in S
  BY <1>1
<1>9. ASSUME NEW j \in 0 .. n, j \in S, j < n PROVE j + 1 \in S
  <2> DEFINE g == run[j + 1]
             r == Mode(a[j + 1].effect, "off")
             e == a[j + 1].effect
  <2>1. /\ j \in Nat /\ j + 1 \in 1 .. n /\ j + 1 \in 0 .. n
        /\ (j + 1) + 1 \in 1 .. 1 + n /\ j + 1 \in 0 .. 1 + n /\ ((j + 1) + 1) - 1 = j + 1
    BY <1>1, <1>9
  <2>2. e \in 0 .. MaxChannels
    BY <1>3, <2>1
  <2>3. /\ r.kind = "mode" /\ r.channel = e /\ r.mode = "off"
        /\ r.mode \in {"initial", "direct", "off"}
    BY DEF Mode
  <2>4. run[(j + 1) + 1] = Receive(g, r) /\ g \in Hardware
    BY <1>4, <1>7, <2>1
  <2>5. \A i \in 1 .. j : g.mode[a[i].effect] = "off"
    BY <1>9
  <2> HIDE DEF g, r, e
  <2>6. Receive(g, r).mode = [g.mode EXCEPT ![e] = r.mode]
    BY <2>2, <2>3, <2>4, ModeReceived
  <2>7. g.mode \in [0 .. MaxChannels -> {"initial", "direct", "off"}]
    BY <2>4 DEF Hardware
  <2>8. ASSUME NEW i \in 1 .. j + 1 PROVE Receive(g, r).mode[a[i].effect] = "off"
    <3>1. i \in 1 .. n /\ (i \in 1 .. j \/ i = j + 1)
      BY <1>1, <2>1
    <3>2. a[i].effect \in 0 .. MaxChannels
      BY <1>3, <3>1
    <3> QED BY <2>3, <2>5, <2>6, <2>7, <3>1, <3>2 DEF e
  <2> QED BY <2>1, <2>4, <2>8
<1> HIDE DEF S
<1>10. \A j \in 0 .. n : j \in S
  BY <1>1, <1>8, <1>9, UpTo
<1>11. ASSUME k = 1 + n, NEW z \in Addressed(c) PROVE run[k].mode[ChannelOf(c, z).effect] = "off"
  <2>1. PICK i \in 1 .. n : ChannelOf(c, z) = a[i]
    BY <1>1
  <2>2. n \in S /\ n + 1 = k
    BY <1>1, <1>10, <1>11
  <2> QED BY <2>1, <2>2 DEF S
<1>12. run[k] \in Hardware /\ Untouched(h, run[k], Effects(c), {})
  <2>1. k \in 0 .. 1 + n
    BY <1>4 DEF reports
  <2> QED BY <1>7, <2>1
<1> QED BY <1>4, <1>11, <1>12 DEF run, reports

-----------------------------------------------------------------------------
(* Zones and what they show.                                               *)

ZoneRecord ==
  [type : {"Motherboard", "AddressableHeader"}, leds : Nat \ {0}, current : Led,
   colors : Seq(Led)]

(* A function of the zones. *)
PerZone(f, zs) == DOMAIN f = DOMAIN zs /\ f = [z \in DOMAIN zs |-> f[z]]

ZonesOK(c, zs, to, sy) ==
  /\ zs \in Seq(ZoneRecord)
  /\ PerZone(to, zs) /\ PerZone(sy, zs)
  /\ \A z \in DOMAIN zs : Len(zs[z].colors) = zs[z].leds /\ sy[z] \in 0 .. zs[z].leds
  /\ c.valid =>
       /\ DOMAIN zs = 1 .. ExposedZoneCount(c)
       /\ \A z \in 1 .. FixedExposedZoneCount(c) : zs[z].type = "Motherboard"
       /\ \A z \in Addressed(c) : zs[z].type = "AddressableHeader" /\ zs[z].leds \in 1 .. MaxLeds

(* What ShowsTheModel claims of a zone.                                    *)
ZoneShown(ch, zone, t, s, h) ==
  t # "unknown" =>
    /\ h.mode[ch.effect] = t
    /\ t = "direct" => \A i \in 1 .. s : h.lit[ch.direct][i] = zone.colors[i]
    /\ t = "off" => \A i \in 1 .. s : zone.colors[i] = <<Black, 0>>

FixedUntouched(c, h) == \A i \in FixedLeds(c) : h.mode[c.channels[i].effect] = "initial"

AuraInv ==
  /\ found \in Seq(Interface)
  /\ hw \in Hardware
  /\ found # <<>> => \A x \in 0 .. MaxChannels : hw.mode[x] = "initial"
  /\ ConfigOK(config)
  /\ ZonesOK(config, auraZones, told, synced)
  /\ config.valid =>
       /\ FixedUntouched(config, hw)
       /\ \A z \in Addressed(config) :
            ZoneShown(ChannelOf(config, z), auraZones[z], told[z], synced[z], hw)

LEMMA PictureLeds ==
  ASSUME NEW p \in Picture \cup {"preview", "black", "initial"}, NEW n \in Nat
  PROVE  /\ Solid(p, n) \in Seq(Led) /\ Len(Solid(p, n)) = n
         /\ Frame(p, n) \in Seq(Led) /\ Len(Frame(p, n)) = n
<1>1. Solid(p, n) \in [1 .. n -> Led]
  BY DEF Solid, Led
<1>2. Frame(p, n) \in [1 .. n -> Led]
  BY DEF Frame, Led
<1> QED BY <1>1, <1>2

LEMMA NewZone ==
  ASSUME NEW type \in {"Motherboard", "AddressableHeader"}, NEW n \in Nat \ {0}
  PROVE  /\ Zone(type, n) \in ZoneRecord /\ Len(Zone(type, n).colors) = n
         /\ Zone(type, n).leds = n /\ Zone(type, n).type = type
<1>1. Solid("preview", n) \in Seq(Led) /\ Len(Solid("preview", n)) = n
  BY PictureLeds
<1>2. <<"preview", 0>> \in Led
  BY DEF Led
<1> QED BY <1>1, <1>2 DEF Zone, ZoneRecord

LEMMA ZonesInitialized ==
  ASSUME AuraAssumption, NEW c, ConfigOK(c), NEW to, NEW sy,
         to = [z \in DOMAIN InitializeZones(c) |-> "initial"],
         sy = [z \in DOMAIN InitializeZones(c) |-> 0]
  PROVE  /\ ZonesOK(c, InitializeZones(c), to, sy)
         /\ c.valid => \A z \in Addressed(c) : z \in DOMAIN InitializeZones(c)
<1> DEFINE zs == InitializeZones(c)
<1>1. MaxLeds \in Nat \ {0}
  BY DEF AuraAssumption
<1>2. CASE ~c.valid
  <2>1. Min2(2, MaxLeds) \in Nat \ {0}
    BY <1>1 DEF Min2
  <2>2. zs = <<Zone("Motherboard", Min2(2, MaxLeds)), Zone("AddressableHeader", MaxLeds)>>
    BY <1>2 DEF InitializeZones
  <2> HIDE DEF zs
  <2>3. zs \in Seq(ZoneRecord) /\ DOMAIN zs = 1 .. 2
    BY <1>1, <2>1, <2>2, NewZone
  <2>4. \A z \in DOMAIN zs : Len(zs[z].colors) = zs[z].leds /\ zs[z].leds \in Nat
    BY <1>1, <2>1, <2>2, <2>3, NewZone
  <2> QED BY <1>2, <2>3, <2>4 DEF ZonesOK, PerZone, zs
<1>3. CASE c.valid
  <2> DEFINE f == FixedExposedZoneCount(c)
             n == Len(Addressable(c))
             l == IF Fixed(c).headers > 0 THEN 1 ELSE Fixed(c).leds
             fixed == [i \in 1 .. f |-> Zone("Motherboard", l)]
             direct == [i \in 1 .. n |-> Zone("AddressableHeader", MaxLeds)]
  <2>1. ChannelsOK(c)
    BY <1>3, ConfigChannels
  <2>2. /\ f \in Nat /\ n \in Nat /\ ExposedZoneCount(c) = f + n
        /\ \A i \in 1 .. f : Fixed(c).leds \in Nat \ {0}
    BY <2>1, AddressedChannel DEF ChannelsOK, ExposedZoneCount
  <2>3. zs = fixed \o direct
    BY <1>3 DEF InitializeZones
  <2>4. Addressed(c) = f + 1 .. f + n
    BY <2>2 DEF Addressed
  <2> HIDE DEF zs, f, n
  <2>5. \A i \in 1 .. f : l \in Nat \ {0}
    BY <2>2
  <2> HIDE DEF l
  <2>6. fixed \in Seq(ZoneRecord) /\ Len(fixed) = f
    <3>1. ASSUME NEW i \in 1 .. f PROVE Zone("Motherboard", l) \in ZoneRecord
      BY <2>5, NewZone
    <3> QED BY <2>2, <3>1
  <2>7. direct \in Seq(ZoneRecord) /\ Len(direct) = n
    BY <1>1, <2>2, NewZone
  <2>8. \A i \in 1 .. f : /\ fixed[i].type = "Motherboard" /\ Len(fixed[i].colors) = fixed[i].leds
                          /\ fixed[i].leds \in Nat
    BY <2>5, NewZone
  <2>9. \A i \in 1 .. n : /\ direct[i].type = "AddressableHeader" /\ direct[i].leds = MaxLeds
                          /\ Len(direct[i].colors) = MaxLeds
    BY <1>1, NewZone
  <2> HIDE DEF fixed, direct
  <2>10. /\ zs \in Seq(ZoneRecord) /\ Len(zs) = f + n
         /\ \A i \in 1 .. f + n : zs[i] = IF i <= f THEN fixed[i] ELSE direct[i - f]
    BY <2>3, <2>6, <2>7, ConcatProperties
  <2>11. DOMAIN zs = 1 .. f + n
    BY <2>10
  <2>12. ASSUME NEW z \in 1 .. f
         PROVE  z \in 1 .. f + n /\ zs[z] = fixed[z]
    BY <2>2, <2>10
  <2>13. ASSUME NEW z \in f + 1 .. f + n
         PROVE  z \in 1 .. f + n /\ z - f \in 1 .. n /\ zs[z] = direct[z - f]
    <3>1. z \in 1 .. f + n /\ z - f \in 1 .. n /\ ~(z <= f)
      BY <2>2
    <3> QED BY <2>10, <3>1
  <2>14. ASSUME NEW z \in 1 .. f + n
         PROVE  Len(zs[z].colors) = zs[z].leds /\ sy[z] \in 0 .. zs[z].leds
    <3>1. z \in 1 .. f \/ z \in f + 1 .. f + n
      BY <2>2
    <3>2. Len(zs[z].colors) = zs[z].leds /\ zs[z].leds \in Nat
      BY <1>1, <2>8, <2>9, <2>12, <2>13, <3>1
    <3>3. sy[z] = 0
      BY <2>11 DEF zs
    <3> QED BY <3>2, <3>3
  <2>15. PerZone(to, zs) /\ PerZone(sy, zs)
    BY DEF zs, PerZone
  <2>16. /\ \A z \in 1 .. f : zs[z].type = "Motherboard"
         /\ \A z \in f + 1 .. f + n : /\ zs[z].type = "AddressableHeader"
                                      /\ zs[z].leds \in 1 .. MaxLeds
    BY <1>1, <2>8, <2>9, <2>12, <2>13
  <2>17. ZonesOK(c, zs, to, sy)
    BY <2>2, <2>4, <2>10, <2>11, <2>14, <2>15, <2>16 DEF ZonesOK, f
  <2> QED BY <2>4, <2>11, <2>13, <2>16, <2>17 DEF zs
<1> QED BY <1>2, <1>3

LEMMA PerZoneSet ==
  ASSUME NEW zs, NEW zs2, DOMAIN zs2 = DOMAIN zs, NEW f, PerZone(f, zs), NEW z \in DOMAIN zs, NEW v
  PROVE  /\ PerZone([f EXCEPT ![z] = v], zs2) /\ [f EXCEPT ![z] = v][z] = v
         /\ \A x \in DOMAIN zs : x # z => [f EXCEPT ![z] = v][x] = f[x]
BY DEF PerZone

LEMMA ZoneSet ==
  ASSUME NEW c, NEW zs, NEW to, NEW sy, ZonesOK(c, zs, to, sy), NEW z \in DOMAIN zs,
         NEW new \in ZoneRecord, new.type = zs[z].type, Len(new.colors) = new.leds,
         c.valid /\ z \in Addressed(c) => new.leds \in 1 .. MaxLeds,
         NEW t, NEW s \in 0 .. new.leds
  PROVE  ZonesOK(c, [zs EXCEPT ![z] = new], [to EXCEPT ![z] = t], [sy EXCEPT ![z] = s])
<1> DEFINE zs2 == [zs EXCEPT ![z] = new]
           to2 == [to EXCEPT ![z] = t]
           sy2 == [sy EXCEPT ![z] = s]
<1>1. zs \in Seq(ZoneRecord) /\ PerZone(to, zs) /\ PerZone(sy, zs)
  BY DEF ZonesOK
<1>2. /\ zs2 \in Seq(ZoneRecord) /\ DOMAIN zs2 = DOMAIN zs /\ zs2[z] = new
      /\ PerZone(to2, zs2) /\ PerZone(sy2, zs2) /\ sy2[z] = s
      /\ \A x \in DOMAIN zs : x # z => zs2[x] = zs[x] /\ sy2[x] = sy[x]
  <2>1. Len(zs) \in Nat /\ DOMAIN zs = 1 .. Len(zs) /\ zs \in [1 .. Len(zs) -> ZoneRecord]
    BY <1>1
  <2>2. zs2 \in [1 .. Len(zs) -> ZoneRecord]
    BY <2>1
  <2>3. zs2 \in Seq(ZoneRecord) /\ DOMAIN zs2 = DOMAIN zs /\ zs2[z] = new
    BY <2>1, <2>2
  <2>4. \A x \in DOMAIN zs : x # z => zs2[x] = zs[x]
    BY <2>1
  <2> HIDE DEF zs2
  <2>5. PerZone(to2, zs2)
    BY <1>1, <2>3, PerZoneSet
  <2>6. PerZone(sy2, zs2)
    BY <1>1, <2>3, PerZoneSet
  <2>7. sy2[z] = s /\ \A x \in DOMAIN zs : x # z => sy2[x] = sy[x]
    BY <1>1 DEF PerZone
  <2> QED BY <2>3, <2>4, <2>5, <2>6, <2>7
<1> HIDE DEF zs2, to2, sy2
<1>3. ASSUME NEW x \in DOMAIN zs
      PROVE  Len(zs2[x].colors) = zs2[x].leds /\ sy2[x] \in 0 .. zs2[x].leds
  BY <1>2 DEF ZonesOK
<1>4. ASSUME c.valid
      PROVE  /\ DOMAIN zs2 = 1 .. ExposedZoneCount(c)
             /\ \A x \in 1 .. FixedExposedZoneCount(c) : x \in DOMAIN zs => zs2[x].type = "Motherboard"
             /\ \A x \in Addressed(c) : x \in DOMAIN zs =>
                  zs2[x].type = "AddressableHeader" /\ zs2[x].leds \in 1 .. MaxLeds
  BY <1>2, <1>4 DEF ZonesOK
<1> QED BY <1>2, <1>3, <1>4 DEF ZonesOK, zs2, to2, sy2

LEMMA ShownKept ==
  ASSUME NEW ch, NEW zone, NEW t, NEW s, NEW h, NEW g, ZoneShown(ch, zone, t, s, h),
         g.mode[ch.effect] = h.mode[ch.effect], g.lit[ch.direct] = h.lit[ch.direct]
  PROVE  ZoneShown(ch, zone, t, s, g)
BY DEF ZoneShown

-----------------------------------------------------------------------------
(* The invariant, kept by every step.                                      *)

(* What a step may do to one zone: write its channel, if it has one, so    *)
(* that it shows what is claimed.                                          *)
MayWrite(z, new, t, s, h) ==
  IF config.valid /\ z \in Addressed(config)
  THEN LET ch == ChannelOf(config, z)
       IN  /\ new.leds \in 1 .. MaxLeds
           /\ Untouched(hw, h, {ch.effect}, {ch.direct})
           /\ ZoneShown(ch, new, t, s, h)
  ELSE h = hw

(* A write to one zone leaves what the others show. *)
LEMMA ZoneWritten ==
  ASSUME AuraAssumption, AuraInv, found = <<>>, found' = found, config' = config,
         NEW z \in DOMAIN auraZones, NEW new \in ZoneRecord, new.type = auraZones[z].type,
         Len(new.colors) = new.leds, NEW t, NEW s \in 0 .. new.leds,
         hw' \in Hardware, MayWrite(z, new, t, s, hw'),
         auraZones' = [auraZones EXCEPT ![z] = new], told' = [told EXCEPT ![z] = t],
         synced' = [synced EXCEPT ![z] = s]
  PROVE  AuraInv'
<1> DEFINE c == config
           ch(y) == ChannelOf(c, y)
<1>1. ConfigOK(c) /\ ZonesOK(c, auraZones, told, synced) /\ found \in Seq(Interface)
  BY DEF AuraInv
<1>2. ZonesOK(c, auraZones', told', synced')
  BY <1>1, ZoneSet DEF MayWrite
<1>3. ASSUME c.valid
      PROVE  /\ FixedUntouched(c, hw')
             /\ \A y \in Addressed(c) : ZoneShown(ch(y), auraZones'[y], told'[y], synced'[y], hw')
  <2>1. ChannelsOK(c)
    BY <1>1, <1>3, ConfigChannels
  <2>2. FixedUntouched(c, hw')
    <3>1. FixedUntouched(c, hw)
      BY <1>3 DEF AuraInv
    <3>2. \A i \in FixedLeds(c) :
            /\ c.channels[i].effect \in 0 .. MaxChannels
            /\ z \in Addressed(c) => c.channels[i].effect \notin {ch(z).effect}
      BY <2>1 DEF ChannelsOK
    <3>3. CASE z \in Addressed(c)
      BY <1>3, <3>1, <3>2, <3>3 DEF FixedUntouched, Untouched, MayWrite
    <3>4. CASE z \notin Addressed(c)
      BY <3>1, <3>4 DEF MayWrite
    <3> QED BY <3>3, <3>4
  <2>3. ASSUME NEW y \in Addressed(c)
        PROVE  ZoneShown(ch(y), auraZones'[y], told'[y], synced'[y], hw')
    <3>1. DOMAIN told = DOMAIN auraZones /\ DOMAIN synced = DOMAIN auraZones
      BY <1>1 DEF ZonesOK, PerZone
    <3>2. y \in DOMAIN auraZones
      <4>1. DOMAIN auraZones = 1 .. ExposedZoneCount(c)
        BY <1>1, <1>3 DEF ZonesOK
      <4>2. FixedExposedZoneCount(c) \in Nat /\ ExposedZoneCount(c) \in Nat
        BY <2>1 DEF ChannelsOK
      <4> HIDE DEF c
      <4> QED BY <4>1, <4>2 DEF Addressed
    <3>3. CASE y = z
      <4>1. auraZones'[z] = new /\ told'[z] = t /\ synced'[z] = s
        BY <3>1
      <4> QED BY <1>3, <3>3, <4>1 DEF MayWrite
    <3>4. CASE y # z
      <4>1. ZoneShown(ch(y), auraZones[y], told[y], synced[y], hw)
        BY <1>3 DEF AuraInv
      <4>2. /\ ch(y).effect \in 0 .. MaxChannels /\ ch(y).direct \in 0 .. MaxChannels - 1
            /\ z \in Addressed(c) =>
                 ch(y).effect \notin {ch(z).effect} /\ ch(y).direct \notin {ch(z).direct}
        BY <2>1, <3>4 DEF ChannelsOK
      <4>3. /\ hw'.mode[ch(y).effect] = hw.mode[ch(y).effect]
            /\ hw'.lit[ch(y).direct] = hw.lit[ch(y).direct]
        <5>1. CASE z \in Addressed(c)
          BY <1>3, <4>2, <5>1 DEF Untouched, MayWrite
        <5>2. CASE z \notin Addressed(c)
          BY <5>2 DEF MayWrite
        <5> QED BY <5>1, <5>2
      <4>4. auraZones'[y] = auraZones[y] /\ told'[y] = told[y] /\ synced'[y] = synced[y]
        BY <3>1, <3>2, <3>4
      <4>5. ZoneShown(ch(y), auraZones[y], told[y], synced[y], hw')
        BY <4>1, <4>3, ShownKept
      <4> QED BY <4>4, <4>5
    <3> QED BY <3>3, <3>4
  <2> QED BY <2>2, <2>3
<1> QED BY <1>1, <1>2, <1>3 DEF AuraInv

LEMMA InitAura == ASSUME AuraAssumption PROVE AuraInit => AuraInv
<1> SUFFICES ASSUME AuraInit PROVE AuraInv
  OBVIOUS
<1>1. found \in Seq(Interface) /\ config = Invalid /\ auraZones = <<>>
      /\ told = <<>> /\ synced = <<>>
  BY DEF AuraAssumption, AuraInit
<1>2. Dark \in Leds
  BY DEF Dark, Leds, Led
<1>3. hw \in Hardware /\ \A x \in 0 .. MaxChannels : hw.mode[x] = "initial"
  BY <1>2 DEF AuraInit, Hardware
<1>4. ~config.valid /\ ConfigOK(config)
  BY <1>1 DEF Invalid, ConfigOK
<1>5. ZonesOK(config, auraZones, told, synced)
  BY <1>1, <1>4 DEF ZonesOK, PerZone
<1> QED BY <1>1, <1>3, <1>4, <1>5 DEF AuraInv

LEMMA DiscoverKeeps == ASSUME AuraAssumption, AuraInv, DiscoverDevices PROVE AuraInv'
<1>1. found \in Seq(Interface) /\ found # <<>> /\ hw \in Hardware
      /\ \A x \in 0 .. MaxChannels : hw.mode[x] = "initial"
  BY DEF AuraInv, DiscoverDevices
<1>2. found' = <<>> /\ config' = ParseConfig(Selected(found).raw) /\ hw' = hw
      /\ auraZones' = InitializeZones(config') /\ synced' = [z \in DOMAIN auraZones' |-> 0]
      /\ told' = [z \in DOMAIN auraZones' |-> "initial"]
  BY DEF DiscoverDevices
<1>3. Selected(found) \in Interface
  BY <1>1, SelectedIsBest
<1>4. Selected(found).raw \in [addressable : Nat, mainboard : Nat, headers : Nat]
  BY <1>3 DEF Interface
<1>5. ConfigOK(config')
  BY <1>2, <1>4, ParsedConfig
<1>6. /\ ZonesOK(config', auraZones', told', synced')
      /\ config'.valid => \A z \in Addressed(config') : z \in DOMAIN auraZones'
  BY <1>2, <1>5, ZonesInitialized
<1>7. ASSUME config'.valid
      PROVE  /\ FixedUntouched(config', hw')
             /\ \A z \in Addressed(config') :
                  ZoneShown(ChannelOf(config', z), auraZones'[z], told'[z], synced'[z], hw')
  <2>1. ChannelsOK(config')
    BY <1>5, <1>7, ConfigChannels
  <2>2. FixedUntouched(config', hw')
    BY <1>1, <1>2, <2>1 DEF FixedUntouched, ChannelsOK
  <2>3. ASSUME NEW z \in Addressed(config')
        PROVE  ZoneShown(ChannelOf(config', z), auraZones'[z], told'[z], synced'[z], hw')
    <3>1. told'[z] = "initial"
      BY <1>2, <1>6, <1>7
    <3>2. hw'.mode[ChannelOf(config', z).effect] = "initial"
      BY <1>1, <1>2, <2>1 DEF ChannelsOK
    <3> QED BY <3>1, <3>2 DEF ZoneShown
  <2> QED BY <2>2, <2>3
<1>8. found' \in Seq(Interface)
  BY <1>2
<1> QED BY <1>1, <1>2, <1>5, <1>6, <1>7, <1>8 DEF AuraInv

(* What an operation on a zone may take for granted. *)
Known(z) ==
  /\ auraZones[z] \in ZoneRecord /\ Len(auraZones[z].colors) = auraZones[z].leds
  /\ synced[z] \in 0 .. auraZones[z].leds
  /\ hw \in Hardware
  /\ auraZones = [auraZones EXCEPT ![z] = auraZones[z]]
  /\ told = [told EXCEPT ![z] = told[z]] /\ synced = [synced EXCEPT ![z] = synced[z]]

LEMMA ZoneIsKnown == ASSUME AuraInv, NEW z \in DOMAIN auraZones PROVE Known(z)
<1>1. ZonesOK(config, auraZones, told, synced) /\ hw \in Hardware
  BY DEF AuraInv
<1>2. auraZones \in Seq(ZoneRecord)
  BY <1>1 DEF ZonesOK
<1>3. auraZones[z] \in ZoneRecord
  BY <1>2
<1>4. auraZones = [auraZones EXCEPT ![z] = auraZones[z]]
  BY <1>2
<1>5. told = [told EXCEPT ![z] = told[z]] /\ synced = [synced EXCEPT ![z] = synced[z]]
  BY <1>1 DEF ZonesOK, PerZone
<1>6. Len(auraZones[z].colors) = auraZones[z].leds /\ synced[z] \in 0 .. auraZones[z].leds
  BY <1>1 DEF ZonesOK
<1> QED BY <1>1, <1>3, <1>4, <1>5, <1>6 DEF Known

(* And on an addressable one. *)
Writable(z) ==
  LET ch == ChannelOf(config, z)
  IN  /\ config.valid /\ z \in Addressed(config) /\ z \in DOMAIN auraZones /\ Known(z)
      /\ auraZones[z].leds \in 1 .. MaxLeds
      /\ ch.effect \in 0 .. MaxChannels /\ ch.direct \in 0 .. MaxChannels - 1
      /\ ZoneShown(ch, auraZones[z], told[z], synced[z], hw)

LEMMA AddressableIsWritable ==
  ASSUME AuraAssumption, AuraInv, NEW z, IsAddressableZone(z)
  PROVE  Writable(z)
<1>1. config.valid /\ z \in DOMAIN auraZones /\ z > FixedExposedZoneCount(config)
  BY DEF IsAddressableZone
<1>2. ConfigOK(config) /\ ZonesOK(config, auraZones, told, synced) /\ Known(z)
  BY <1>1, ZoneIsKnown DEF AuraInv
<1>3. ChannelsOK(config)
  BY <1>1, <1>2, ConfigChannels
<1>4. z \in Addressed(config)
  <2>1. FixedExposedZoneCount(config) \in Nat /\ ExposedZoneCount(config) \in Nat
    BY <1>3 DEF ChannelsOK
  <2>2. DOMAIN auraZones = 1 .. ExposedZoneCount(config)
    BY <1>1, <1>2 DEF ZonesOK
  <2> QED BY <1>1, <2>1, <2>2 DEF Addressed
<1>5. auraZones[z].leds \in 1 .. MaxLeds
  BY <1>1, <1>2, <1>4 DEF ZonesOK
<1>6. ZoneShown(ChannelOf(config, z), auraZones[z], told[z], synced[z], hw)
  BY <1>1, <1>4 DEF AuraInv
<1>7. /\ ChannelOf(config, z).effect \in 0 .. MaxChannels
      /\ ChannelOf(config, z).direct \in 0 .. MaxChannels - 1
  BY <1>3, <1>4 DEF ChannelsOK
<1> QED BY <1>1, <1>2, <1>4, <1>5, <1>6, <1>7 DEF Writable

LEMMA ZonePainted ==
  ASSUME NEW zone \in ZoneRecord, NEW colors \in Seq(Led), Len(colors) = zone.leds,
         NEW current \in Led
  PROVE  LET new == Painted(zone, colors, current)
         IN  /\ new \in ZoneRecord /\ new.type = zone.type /\ new.leds = zone.leds
             /\ new.colors = colors /\ Len(new.colors) = new.leds /\ new.current = current
BY DEF Painted, ZoneRecord

LEMMA MiddleLed == ASSUME NEW colors \in Seq(Led), colors # <<>> PROVE Middle(colors) \in Led
<1> DEFINE n == Len(colors)
<1>1. n \in Nat \ {0} /\ \A i \in 1 .. n : colors[i] \in Led
  OBVIOUS
<1> HIDE DEF n
<1>2. (n \div 2) + 1 \in 1 .. n
  BY <1>1
<1> QED BY <1>1, <1>2 DEF Middle, n

LEMMA EffectKeeps ==
  ASSUME AuraAssumption, AuraInv, NEW z, NEW colors \in Seq(Led),
         IsAddressableZone(z), Len(colors) = auraZones[z].leds,
         ApplyZoneEffect(z, colors)
  PROVE  AuraInv'
<1> DEFINE ch == ChannelOf(config, z)
           reports == FrameReports(ch, colors, TRUE)
           zone == auraZones[z]
           new == Painted(zone, colors, Middle(colors))
<1>1. Writable(z)
  BY AddressableIsWritable
<1>2. found = <<>> /\ found' = found /\ config' = config
  BY DEF ApplyZoneEffect, DeviceOperation
<1>3. PICK k \in 0 .. Len(reports) :
        /\ hw' = Received(hw, reports)[k]
        /\ IF k = Len(reports)
           THEN /\ auraZones' = [auraZones EXCEPT ![z] = Painted(@, colors, Middle(colors))]
                /\ told' = [told EXCEPT ![z] = "direct"]
                /\ synced' = [synced EXCEPT ![z] = Len(colors)]
           ELSE /\ UNCHANGED auraZones
                /\ told' = [told EXCEPT ![z] = "unknown"]
                /\ synced' = [synced EXCEPT ![z] = 0]
  BY DEF ApplyZoneEffect, Send
<1>4. Sent(hw, hw', ch.effect, ch.direct, colors, TRUE, k = Len(reports))
  <2>1. /\ hw \in Hardware /\ ch.effect \in 0 .. MaxChannels /\ ch.direct \in 0 .. MaxChannels - 1
        /\ Len(colors) \in 1 .. MaxLeds
    BY <1>1 DEF Writable, Known
  <2> HIDE DEF ch
  <2>2. Sent(hw, Received(hw, reports)[k], ch.effect, ch.direct, colors, TRUE, k = Len(reports))
    BY <1>3, <2>1, FrameSent
  <2> QED BY <1>3, <2>2
<1>5. /\ zone \in ZoneRecord /\ zone.leds \in 1 .. MaxLeds /\ Len(zone.colors) = zone.leds
      /\ config.valid /\ z \in Addressed(config) /\ z \in DOMAIN auraZones
  BY <1>1 DEF Writable, Known
<1>6. hw' \in Hardware /\ Untouched(hw, hw', {ch.effect}, {ch.direct})
  BY <1>4 DEF Sent
<1> HIDE DEF ch
<1>7. CASE k = Len(reports)
  <2>1. colors # <<>> /\ Middle(colors) \in Led
    BY <1>5, MiddleLed
  <2>2. /\ new \in ZoneRecord /\ new.type = zone.type /\ new.leds = zone.leds
        /\ new.colors = colors /\ Len(new.colors) = new.leds
    BY <1>5, <2>1, ZonePainted
  <2>3. auraZones' = [auraZones EXCEPT ![z] = new]
    BY <1>3, <1>5, <1>7
  <2>4. told' = [told EXCEPT ![z] = "direct"] /\ synced' = [synced EXCEPT ![z] = zone.leds]
    BY <1>3, <1>7
  <2>5. hw'.mode[ch.effect] = "direct" /\ \A i \in 1 .. Len(colors) : hw'.lit[ch.direct][i] = colors[i]
    BY <1>4, <1>7 DEF Sent
  <2> HIDE DEF new, zone
  <2>6. ZoneShown(ch, new, "direct", zone.leds, hw')
    BY <2>2, <2>5 DEF ZoneShown, zone
  <2>7. MayWrite(z, new, "direct", zone.leds, hw')
    BY <1>5, <1>6, <2>2, <2>6 DEF MayWrite, ch
  <2>8. zone.leds \in 0 .. new.leds
    BY <1>5, <2>2
  <2> QED BY <1>2, <1>5, <1>6, <2>2, <2>3, <2>4, <2>7, <2>8, ZoneWritten DEF zone
<1>8. CASE k # Len(reports)
  <2>1. /\ auraZones' = [auraZones EXCEPT ![z] = zone]
        /\ told' = [told EXCEPT ![z] = "unknown"] /\ synced' = [synced EXCEPT ![z] = 0]
    BY <1>1, <1>3, <1>8 DEF Writable, Known
  <2> HIDE DEF zone
  <2>2. MayWrite(z, zone, "unknown", 0, hw')
    BY <1>5, <1>6 DEF MayWrite, ZoneShown, ch
  <2>3. 0 \in 0 .. zone.leds
    BY <1>5
  <2> QED BY <1>2, <1>5, <1>6, <2>1, <2>2, <2>3, ZoneWritten DEF zone
<1> QED BY <1>7, <1>8

LEMMA RepeatedLeds ==
  ASSUME NEW colors \in Seq(Led), colors # <<>>, NEW n \in Nat
  PROVE  /\ Repeated(colors, n) \in Seq(Led) /\ Len(Repeated(colors, n)) = n
         /\ \A i \in 1 .. Min2(Len(colors), n) : Repeated(colors, n)[i] = colors[i]
<1> DEFINE m == Len(colors)
<1>1. m \in Nat \ {0} /\ \A i \in 1 .. m : colors[i] \in Led
  OBVIOUS
<1>2. Repeated(colors, n) = [i \in 1 .. n |-> colors[((i - 1) % m) + 1]]
  BY DEF Repeated
<1> HIDE DEF m
<1>3. ASSUME NEW i \in 1 .. n PROVE ((i - 1) % m) + 1 \in 1 .. m
  BY <1>1
<1>4. [i \in 1 .. n |-> colors[((i - 1) % m) + 1]] \in [1 .. n -> Led]
  BY <1>1, <1>3
<1>5. ASSUME NEW i \in 1 .. Min2(m, n)
      PROVE  i \in 1 .. n /\ ((i - 1) % m) + 1 = i
  <2>1. i \in 1 .. n /\ i - 1 \in 0 .. m - 1
    BY <1>1 DEF Min2
  <2>2. (i - 1) % m = i - 1
    BY <1>1, <2>1, SMTT(60)
  <2> QED BY <2>1, <2>2
<1>6. \A i \in 1 .. Min2(m, n) : Repeated(colors, n)[i] = colors[i]
  BY <1>2, <1>5
<1>7. Repeated(colors, n) \in [1 .. n -> Led]
  BY <1>2, <1>4
<1>8. Repeated(colors, n) \in Seq(Led) /\ Len(Repeated(colors, n)) = n
  BY <1>7
<1> QED BY <1>6, <1>8 DEF m

LEMMA LedColorsSet ==
  ASSUME NEW zone \in ZoneRecord, NEW colors \in Seq(Led), Len(colors) \in Nat \ {0}
  PROVE  LET new == SetLedColors(zone, colors)
         IN  /\ new \in ZoneRecord /\ new.type = zone.type /\ new.leds = zone.leds
             /\ Len(new.colors) = new.leds
             /\ \A i \in 1 .. Min2(Len(colors), new.leds) : new.colors[i] = colors[i]
<1> DEFINE repeated == Repeated(colors, zone.leds)
<1>1. colors # <<>> /\ Middle(colors) \in Led
  BY MiddleLed
<1>2. zone.leds \in Nat
  BY DEF ZoneRecord
<1>3. /\ repeated \in Seq(Led) /\ Len(repeated) = zone.leds
      /\ \A i \in 1 .. Min2(Len(colors), zone.leds) : repeated[i] = colors[i]
  BY <1>1, <1>2, RepeatedLeds
<1> HIDE DEF repeated
<1>4. LET new == Painted(zone, repeated, Middle(colors))
      IN  /\ new \in ZoneRecord /\ new.type = zone.type /\ new.leds = zone.leds
          /\ new.colors = repeated /\ Len(new.colors) = new.leds
  BY <1>1, <1>3, ZonePainted
<1> QED BY <1>3, <1>4 DEF SetLedColors, repeated

LEMMA FrameKeeps ==
  ASSUME AuraAssumption, AuraInv, NEW z, NEW colors \in Seq(Led), Len(colors) \in 1 .. MaxLeds,
         ApplyZoneFrame(z, colors)
  PROVE  AuraInv'
<1> DEFINE ch == ChannelOf(config, z)
           reports == FrameReports(ch, colors, FALSE)
           zone == auraZones[z]
           new == SetLedColors(zone, colors)
           s == IF told[z] = "direct" THEN Min2(Len(colors), zone.leds) ELSE 0
<1>1. Writable(z) /\ Known(z)
  BY AddressableIsWritable DEF ApplyZoneFrame, Writable
<1>2. found = <<>> /\ found' = found /\ config' = config /\ told' = told
  BY DEF ApplyZoneFrame, DeviceOperation
<1>3. PICK k \in 0 .. Len(reports) :
        /\ hw' = Received(hw, reports)[k]
        /\ IF k = Len(reports)
           THEN /\ auraZones' = [auraZones EXCEPT ![z] = SetLedColors(@, colors)]
                /\ synced' = [synced EXCEPT ![z] =
                     IF told[z] = "direct" THEN Min2(Len(colors), auraZones[z].leds) ELSE 0]
           ELSE UNCHANGED <<auraZones, synced>>
  BY DEF ApplyZoneFrame, Send
<1>4. Sent(hw, hw', ch.effect, ch.direct, colors, FALSE, k = Len(reports))
  <2>1. hw \in Hardware /\ ch.effect \in 0 .. MaxChannels /\ ch.direct \in 0 .. MaxChannels - 1
    BY <1>1 DEF Writable, Known
  <2> HIDE DEF ch
  <2>2. Sent(hw, Received(hw, reports)[k], ch.effect, ch.direct, colors, FALSE, k = Len(reports))
    BY <1>3, <2>1, FrameSent
  <2> QED BY <1>3, <2>2
<1>5. /\ zone \in ZoneRecord /\ zone.leds \in 1 .. MaxLeds /\ Len(zone.colors) = zone.leds
      /\ config.valid /\ z \in Addressed(config) /\ z \in DOMAIN auraZones
      /\ synced[z] \in 0 .. zone.leds /\ ZoneShown(ch, zone, told[z], synced[z], hw)
      /\ told' = [told EXCEPT ![z] = told[z]]
  BY <1>1, <1>2 DEF Writable, Known
<1>6. /\ hw' \in Hardware /\ Untouched(hw, hw', {ch.effect}, {ch.direct})
      /\ hw'.mode = hw.mode
  BY <1>4 DEF Sent
<1> HIDE DEF ch
<1>7. CASE k = Len(reports)
  <2>1. auraZones' = [auraZones EXCEPT ![z] = new]
    BY <1>3, <1>7
  <2> HIDE DEF zone
  <2>2. /\ new \in ZoneRecord /\ new.type = zone.type /\ new.leds = zone.leds
        /\ Len(new.colors) = new.leds
        /\ \A i \in 1 .. Min2(Len(colors), new.leds) : new.colors[i] = colors[i]
    BY <1>5, LedColorsSet
  <2> HIDE DEF new
  <2>3. synced' = [synced EXCEPT ![z] = s]
    BY <1>3, <1>7 DEF zone
  <2>4. \A i \in 1 .. Len(colors) : hw'.lit[ch.direct][i] = colors[i]
    BY <1>4, <1>7 DEF Sent
  <2>5. Min2(Len(colors), zone.leds) \in 0 .. zone.leds
        /\ \A i \in 1 .. Min2(Len(colors), zone.leds) : i \in 1 .. Len(colors)
    <3>1. Len(colors) \in Nat /\ zone.leds \in Nat
      BY <1>5
    <3> QED BY <3>1 DEF Min2
  <2>6. told[z] # "unknown" => hw'.mode[ch.effect] = told[z]
    BY <1>5, <1>6 DEF ZoneShown
  <2>7. zone.leds \in Nat
    BY <1>5
  <2>8. s \in 0 .. new.leds
    BY <2>2, <2>5, <2>7
  <2>9. ZoneShown(ch, new, told[z], s, hw')
    <3>1. told[z] = "direct" => \A i \in 1 .. s : hw'.lit[ch.direct][i] = new.colors[i]
      BY <2>2, <2>4, <2>5
    <3>2. told[z] = "off" => s = 0
      OBVIOUS
    <3> HIDE DEF s
    <3> QED BY <2>6, <3>1, <3>2 DEF ZoneShown
  <2> HIDE DEF s
  <2>10. MayWrite(z, new, told[z], s, hw')
    BY <1>5, <1>6, <2>2, <2>9 DEF MayWrite, ch
  <2> QED BY <1>2, <1>5, <1>6, <2>1, <2>2, <2>3, <2>8, <2>10, ZoneWritten DEF zone
<1>8. CASE k # Len(reports)
  <2>1. auraZones' = [auraZones EXCEPT ![z] = zone] /\ synced' = [synced EXCEPT ![z] = synced[z]]
    BY <1>1, <1>3, <1>8 DEF Known
  <2>2. hw'.lit = hw.lit
    BY <1>4, <1>8 DEF Sent
  <2>3. ZoneShown(ch, zone, told[z], synced[z], hw')
    <3>1. hw'.mode[ch.effect] = hw.mode[ch.effect] /\ hw'.lit[ch.direct] = hw.lit[ch.direct]
      BY <1>6, <2>2
    <3> HIDE DEF zone
    <3> QED BY <1>5, <3>1, ShownKept
  <2>4. MayWrite(z, zone, told[z], synced[z], hw')
    BY <1>5, <1>6, <2>3 DEF MayWrite, ch
  <2> HIDE DEF zone
  <2> QED BY <1>2, <1>5, <1>6, <2>1, <2>4, ZoneWritten DEF zone
<1> QED BY <1>7, <1>8

LEMMA PreviewKeeps ==
  ASSUME AuraAssumption, AuraInv, NEW z, NEW colors \in Seq(Led), Len(colors) \in Nat \ {0},
         PreviewZoneFrame(z, colors)
  PROVE  AuraInv'
<1> DEFINE zone == auraZones[z]
           new == SetLedColors(zone, colors)
<1>1. /\ z \in DOMAIN auraZones /\ auraZones' = [auraZones EXCEPT ![z] = new]
      /\ synced' = [synced EXCEPT ![z] = 0]
      /\ found = <<>> /\ found' = found /\ config' = config /\ hw' = hw /\ told' = told
  BY DEF PreviewZoneFrame, DeviceOperation
<1>2. Known(z)
  BY <1>1, ZoneIsKnown
<1>3. zone \in ZoneRecord
  BY <1>2 DEF Known
<1> HIDE DEF zone
<1>4. /\ new \in ZoneRecord /\ new.type = zone.type /\ new.leds = zone.leds
      /\ Len(new.colors) = new.leds
  BY <1>3, LedColorsSet
<1> HIDE DEF new
<1>5. /\ told' = [told EXCEPT ![z] = told[z]] /\ hw' \in Hardware
  BY <1>1, <1>2 DEF Known
<1>6. MayWrite(z, new, told[z], 0, hw')
  <2>1. ASSUME config.valid, z \in Addressed(config)
        PROVE  /\ new.leds \in 1 .. MaxLeds
               /\ ZoneShown(ChannelOf(config, z), new, told[z], 0, hw')
    <3>1. ZoneShown(ChannelOf(config, z), zone, told[z], synced[z], hw)
      BY <2>1 DEF AuraInv, zone
    <3>2. new.leds \in 1 .. MaxLeds
      BY <1>4, <2>1 DEF AuraInv, ZonesOK, zone
    <3> QED BY <1>1, <3>1, <3>2 DEF ZoneShown
  <2> QED BY <1>1, <2>1 DEF MayWrite, Untouched
<1>7. 0 \in 0 .. new.leds
  BY <1>4 DEF ZoneRecord
<1> QED BY <1>1, <1>4, <1>5, <1>6, <1>7, ZoneWritten DEF zone

LEMMA AllOffKeeps == ASSUME AuraAssumption, AuraInv, ApplyAllOff PROVE AuraInv'
<1> DEFINE c == config
           f == FixedExposedZoneCount(c)
           reports == AllOffReports(c)
<1>1. c.valid /\ found = <<>> /\ found' = found /\ config' = c
  BY DEF ApplyAllOff, DeviceOperation
<1>2. PICK k \in 0 .. Len(reports) :
        /\ hw' = Received(hw, reports)[k]
        /\ auraZones' = [z \in DOMAIN auraZones |->
             IF k = Len(reports) /\ z \in AddressableZones THEN SwitchedOff(auraZones[z])
             ELSE auraZones[z]]
        /\ told' = [z \in DOMAIN auraZones |->
             IF z \notin AddressableZones THEN told[z]
             ELSE IF k = Len(reports) THEN "off" ELSE "unknown"]
        /\ synced' = [z \in DOMAIN auraZones |->
             IF z \notin AddressableZones THEN synced[z]
             ELSE IF k = Len(reports) THEN auraZones[z].leds ELSE 0]
  BY DEF ApplyAllOff, Send
<1>3. ConfigOK(c) /\ ZonesOK(c, auraZones, told, synced) /\ hw \in Hardware
      /\ found \in Seq(Interface) /\ FixedUntouched(c, hw)
  BY <1>1 DEF AuraInv
<1>4. ChannelsOK(c)
  BY <1>1, <1>3, ConfigChannels
<1>5. /\ hw' \in Hardware /\ Untouched(hw, hw', Effects(c), {})
      /\ k = Len(reports) => \A z \in Addressed(c) : hw'.mode[ChannelOf(c, z).effect] = "off"
  <2>1. LET g == Received(hw, reports)[k]
        IN  /\ g \in Hardware /\ Untouched(hw, g, Effects(c), {})
            /\ k = Len(reports) =>
                 \A z \in Addressed(c) : g.mode[ChannelOf(c, z).effect] = "off"
    BY <1>2, <1>3, <1>4, AllOffSent
  <2> QED BY <1>2, <2>1
<1>6. /\ f \in Nat /\ ExposedZoneCount(c) \in Nat /\ DOMAIN auraZones = 1 .. ExposedZoneCount(c)
      /\ auraZones \in Seq(ZoneRecord) /\ Addressed(c) = f + 1 .. ExposedZoneCount(c)
      /\ \A z \in DOMAIN auraZones :
           /\ Len(auraZones[z].colors) = auraZones[z].leds /\ synced[z] \in 0 .. auraZones[z].leds
      /\ \A z \in 1 .. f : auraZones[z].type = "Motherboard"
      /\ \A z \in Addressed(c) :
           auraZones[z].type = "AddressableHeader" /\ auraZones[z].leds \in 1 .. MaxLeds
  BY <1>1, <1>3, <1>4 DEF ZonesOK, ChannelsOK, Addressed
<1>7. \A z \in DOMAIN auraZones : auraZones[z] \in ZoneRecord
  <2>1. auraZones \in Seq(ZoneRecord)
    BY <1>6
  <2> QED BY <2>1
<1>8. AddressableZones = Addressed(c)
  <2>1. AddressableZones = {z \in DOMAIN auraZones : z > f}
    BY DEF AddressableZones
  <2> HIDE DEF f, c
  <2> QED BY <1>6, <2>1
<1> DEFINE off(z) == SwitchedOff(auraZones[z])
<1>9. ASSUME NEW z \in DOMAIN auraZones
      PROVE  /\ off(z) \in ZoneRecord /\ off(z).type = auraZones[z].type
             /\ off(z).leds = auraZones[z].leds /\ Len(off(z).colors) = off(z).leds
             /\ \A i \in 1 .. off(z).leds : off(z).colors[i] = <<Black, 0>>
  <2> DEFINE zone == auraZones[z]
             black == Solid(Black, zone.leds)
  <2>1. zone \in ZoneRecord /\ zone.leds \in Nat
    BY <1>7 DEF ZoneRecord
  <2> HIDE DEF zone
  <2>2. black \in Seq(Led) /\ Len(black) = zone.leds
    BY <2>1, PictureLeds DEF Black
  <2>3. \A i \in 1 .. zone.leds : black[i] = <<Black, 0>>
    BY DEF Solid
  <2>4. <<Black, 0>> \in Led
    BY DEF Led, Black
  <2> HIDE DEF black
  <2>5. LET new == Painted(zone, black, <<Black, 0>>)
        IN  /\ new \in ZoneRecord /\ new.type = zone.type /\ new.leds = zone.leds
            /\ new.colors = black /\ Len(new.colors) = new.leds
    BY <2>1, <2>2, <2>4, ZonePainted
  <2>6. off(z) = Painted(zone, black, <<Black, 0>>)
    BY DEF SwitchedOff, zone, black
  <2> HIDE DEF off
  <2> QED BY <2>3, <2>5, <2>6 DEF zone
<1> HIDE DEF off
<1>10. /\ PerZone(told', auraZones') /\ PerZone(synced', auraZones')
       /\ DOMAIN auraZones' = DOMAIN auraZones
  <2>1. DOMAIN auraZones' = DOMAIN auraZones
    BY <1>2
  <2>2. PerZone(told', auraZones')
    BY <1>2, <2>1 DEF PerZone
  <2>3. PerZone(synced', auraZones')
    BY <1>2, <2>1 DEF PerZone
  <2> QED BY <2>1, <2>2, <2>3
<1>11. \A z \in DOMAIN auraZones :
         /\ auraZones'[z] = IF k = Len(reports) /\ z \in AddressableZones THEN off(z) ELSE auraZones[z]
         /\ told'[z] = IF z \notin AddressableZones THEN told[z]
                       ELSE IF k = Len(reports) THEN "off" ELSE "unknown"
         /\ synced'[z] = IF z \notin AddressableZones THEN synced[z]
                         ELSE IF k = Len(reports) THEN auraZones[z].leds ELSE 0
  BY <1>2 DEF off
<1> HIDE DEF reports
<1>12. ASSUME NEW z \in DOMAIN auraZones
       PROVE  /\ auraZones'[z] \in ZoneRecord
              /\ auraZones'[z].leds = auraZones[z].leds /\ auraZones'[z].type = auraZones[z].type
              /\ Len(auraZones'[z].colors) = auraZones'[z].leds
              /\ synced'[z] \in 0 .. auraZones'[z].leds
  <2>1. auraZones[z].leds \in Nat
    BY <1>7 DEF ZoneRecord
  <2>2. auraZones'[z] \in {off(z), auraZones[z]} /\ synced'[z] \in {synced[z], auraZones[z].leds, 0}
    BY <1>11
  <2>3. synced'[z] \in 0 .. auraZones[z].leds
    <3> HIDE DEF f, c
    <3> QED BY <1>6, <2>1, <2>2
  <2> QED BY <1>6, <1>7, <1>9, <2>2, <2>3
<1>13. auraZones' \in Seq(ZoneRecord)
  <2>1. auraZones' = [z \in DOMAIN auraZones |->
                       IF k = Len(reports) /\ z \in AddressableZones THEN off(z) ELSE auraZones[z]]
    BY <1>2 DEF off
  <2>2. auraZones' \in [1 .. ExposedZoneCount(c) -> ZoneRecord]
    BY <1>6, <1>12, <2>1
  <2> HIDE DEF c
  <2> QED BY <1>6, <2>2
<1>14. ZonesOK(c, auraZones', told', synced')
  <2>1. /\ \A z \in Addressed(c) : z \in DOMAIN auraZones
        /\ \A z \in 1 .. f : z \in DOMAIN auraZones
    <3>1. f <= ExposedZoneCount(c)
      BY <1>4 DEF ChannelsOK
    <3> HIDE DEF f, c
    <3> QED BY <1>6, <3>1
  <2>2. \A z \in 1 .. f : auraZones'[z].type = "Motherboard"
    BY <1>6, <1>12, <2>1
  <2>3. \A z \in Addressed(c) :
          auraZones'[z].type = "AddressableHeader" /\ auraZones'[z].leds \in 1 .. MaxLeds
    BY <1>6, <1>12, <2>1
  <2>4. \A z \in DOMAIN auraZones' :
          Len(auraZones'[z].colors) = auraZones'[z].leds /\ synced'[z] \in 0 .. auraZones'[z].leds
    BY <1>10, <1>12
  <2>5. DOMAIN auraZones' = 1 .. ExposedZoneCount(c)
    BY <1>6, <1>10
  <2> QED BY <1>10, <1>13, <2>2, <2>3, <2>4, <2>5 DEF ZonesOK, f
<1>15. FixedUntouched(c, hw')
  <2>1. \A i \in FixedLeds(c) :
          c.channels[i].effect \in 0 .. MaxChannels /\ c.channels[i].effect \notin Effects(c)
    BY <1>4 DEF ChannelsOK, Effects
  <2> QED BY <1>3, <1>5, <2>1 DEF FixedUntouched, Untouched
<1>16. ASSUME NEW z \in Addressed(c)
       PROVE  ZoneShown(ChannelOf(c, z), auraZones'[z], told'[z], synced'[z], hw')
  <2>1. z \in DOMAIN auraZones /\ z \in AddressableZones
    <3>1. z \in AddressableZones
      BY <1>8
    <3> QED BY <3>1 DEF AddressableZones
  <2>2. CASE k = Len(reports)
    <3>1. auraZones'[z] = off(z) /\ told'[z] = "off" /\ synced'[z] = off(z).leds
      BY <1>9, <1>11, <2>1, <2>2
    <3>2. hw'.mode[ChannelOf(c, z).effect] = "off"
      BY <1>5, <2>2
    <3> QED BY <1>9, <2>1, <3>1, <3>2 DEF ZoneShown
  <2>3. CASE k # Len(reports)
    <3>1. told'[z] = "unknown"
      BY <1>11, <2>1, <2>3
    <3> QED BY <3>1 DEF ZoneShown
  <2> QED BY <2>2, <2>3
<1> QED BY <1>1, <1>3, <1>5, <1>14, <1>15, <1>16 DEF AuraInv

LEMMA MetadataKeeps ==
  ASSUME AuraAssumption, AuraInv, NEW z \in DOMAIN auraZones, NEW n \in 1 .. MaxLeds,
         UpdateZoneMetadata(z, n)
  PROVE  AuraInv'
<1> DEFINE zone == auraZones[z]
           grown == [i \in 1 .. n |-> IF i \in 1 .. zone.leds THEN zone.colors[i]
                                      ELSE zone.current]
           s == Min2(synced[z], n)
           new == SetLedCount(zone, n)
<1>1. /\ found = <<>> /\ found' = found /\ config' = config /\ hw' = hw /\ told' = told
      /\ synced' = [synced EXCEPT ![z] = s]
  BY DEF UpdateZoneMetadata, DeviceOperation
<1>2. Known(z) /\ told' = [told EXCEPT ![z] = told[z]] /\ hw \in Hardware
  BY <1>1, ZoneIsKnown DEF Known
<1>3. auraZones' = [auraZones EXCEPT ![z] = new]
  BY DEF UpdateZoneMetadata
<1>4. /\ zone \in ZoneRecord /\ Len(zone.colors) = zone.leds /\ synced[z] \in 0 .. zone.leds
  BY <1>2 DEF Known
<1>5. n \in Nat \ {0}
  BY DEF AuraAssumption
<1> HIDE DEF zone
<1>6. /\ zone.leds \in Nat \ {0} /\ zone.colors \in Seq(Led) /\ zone.current \in Led
      /\ DOMAIN zone.colors = 1 .. zone.leds
  <2>1. zone.leds \in Nat \ {0} /\ zone.colors \in Seq(Led) /\ zone.current \in Led
    BY <1>4 DEF ZoneRecord
  <2>2. DOMAIN zone.colors = 1 .. zone.leds
    BY <1>4, <2>1, SMTT(60)
  <2> QED BY <2>1, <2>2
<1>7. grown \in Seq(Led) /\ Len(grown) = n
  <2>1. \A i \in 1 .. zone.leds : zone.colors[i] \in Led
    BY <1>6
  <2>2. grown \in [1 .. n -> Led]
    BY <1>6, <2>1
  <2> QED BY <1>5, <2>2
<1>8. s \in 0 .. n /\ s <= synced[z] /\ s <= zone.leds
  BY <1>4, <1>5, <1>6 DEF Min2
<1>9. \A i \in 1 .. s : i \in 1 .. synced[z] /\ grown[i] = zone.colors[i]
  BY <1>4, <1>5, <1>6, <1>8
<1> HIDE DEF grown
<1>10. /\ new \in ZoneRecord /\ new.leds = n /\ new.colors = grown /\ new.type = zone.type
       /\ Len(new.colors) = new.leds
  <2>1. new = [zone EXCEPT !.leds = n, !.colors = grown]
    BY DEF SetLedCount, grown
  <2> QED BY <1>4, <1>5, <1>7, <2>1 DEF ZoneRecord
<1> HIDE DEF new, s
<1>11. MayWrite(z, new, told[z], s, hw')
  <2>1. ASSUME config.valid, z \in Addressed(config)
        PROVE  ZoneShown(ChannelOf(config, z), new, told[z], s, hw')
    <3>1. ZoneShown(ChannelOf(config, z), zone, told[z], synced[z], hw)
      BY <2>1 DEF AuraInv, zone
    <3>2. \A i \in 1 .. s : i \in 1 .. synced[z] /\ new.colors[i] = zone.colors[i]
      BY <1>9, <1>10
    <3> QED BY <1>1, <3>1, <3>2 DEF ZoneShown
  <2> QED BY <1>1, <1>10, <2>1 DEF MayWrite, Untouched
<1> QED BY <1>1, <1>2, <1>3, <1>8, <1>10, <1>11, ZoneWritten DEF zone

LEMMA NextAura == ASSUME AuraAssumption PROVE AuraInv /\ [AuraNext]_auraVars => AuraInv'
<1> SUFFICES ASSUME AuraInv, [AuraNext]_auraVars PROVE AuraInv'
  OBVIOUS
<1>1. CASE DiscoverDevices
  BY <1>1, DiscoverKeeps
<1>2. ASSUME NEW z \in DOMAIN auraZones, NEW p \in Picture,
             NEW colors \in {Solid(p, auraZones[z].leds), Frame(p, auraZones[z].leds)},
             ApplyZoneEffect(z, colors)
      PROVE  AuraInv'
  <2>1. IsAddressableZone(z)
    BY <1>2 DEF ApplyZoneEffect
  <2>2. auraZones[z].leds \in 1 .. MaxLeds
    BY <2>1, AddressableIsWritable DEF Writable
  <2>3. auraZones[z].leds \in Nat
    BY <2>2
  <2>4. colors \in Seq(Led) /\ Len(colors) = auraZones[z].leds
    BY <2>3, PictureLeds
  <2> QED BY <1>2, <2>1, <2>4, EffectKeeps
<1>3. ASSUME NEW z \in DOMAIN auraZones, NEW p \in Picture, NEW n \in 1 .. MaxLeds,
             ApplyZoneFrame(z, Frame(p, n)) \/ PreviewZoneFrame(z, Frame(p, n))
      PROVE  AuraInv'
  <2>1. n \in Nat \ {0}
    BY DEF AuraAssumption
  <2>2. Frame(p, n) \in Seq(Led) /\ Len(Frame(p, n)) = n
    BY <2>1, PictureLeds
  <2> QED BY <1>3, <2>1, <2>2, FrameKeeps, PreviewKeeps
<1>4. CASE ApplyAllOff
  BY <1>4, AllOffKeeps
<1>5. ASSUME NEW z \in DOMAIN auraZones, NEW n \in 1 .. MaxLeds, UpdateZoneMetadata(z, n)
      PROVE  AuraInv'
  BY <1>5, MetadataKeeps
<1>6. CASE UNCHANGED auraVars
  BY <1>6 DEF auraVars, AuraInv, ConfigOK
<1> QED BY <1>1, <1>2, <1>3, <1>4, <1>5, <1>6 DEF AuraNext

LEMMA BestOfFound == AuraInv => SelectionIsBest
<1> SUFFICES ASSUME AuraInv, NEW i \in DOMAIN found PROVE ~Better(found[i], Selected(found))
  BY DEF SelectionIsBest
<1>1. found \in Seq(Interface) /\ found # <<>>
  BY DEF AuraInv
<1> QED BY <1>1, SelectedIsBest

LEMMA OwnChannels == ASSUME AuraAssumption, AuraInv PROVE ZonesOwnTheirChannels
<1> SUFFICES ASSUME config.valid PROVE ZonesOwnTheirChannels
  BY DEF ZonesOwnTheirChannels
<1> DEFINE f == FixedExposedZoneCount(config)
           e == ExposedZoneCount(config)
<1>1. ConfigOK(config) /\ ZonesOK(config, auraZones, told, synced) /\ FixedUntouched(config, hw)
  BY DEF AuraInv
<1>2. ChannelsOK(config)
  BY <1>1, ConfigChannels
<1>3. f \in Nat /\ e \in Nat /\ DOMAIN auraZones = 1 .. e /\ Addressed(config) = f + 1 .. e
  BY <1>1, <1>2 DEF ChannelsOK, ZonesOK, Addressed
<1> HIDE DEF f, e
<1>4. \A z \in DOMAIN auraZones : (z > f => z \in Addressed(config)) /\ (z <= f => z \in 1 .. f)
  BY <1>3
<1>5. ASSUME NEW z \in DOMAIN auraZones
      PROVE  auraZones[z].type = "AddressableHeader" <=> ChannelOf(config, z).type = "addressable"
  <2>1. z \in Addressed(config) \/ z \in 1 .. f
    BY <1>3, <1>4
  <2>2. z \in Addressed(config) =>
          auraZones[z].type = "AddressableHeader" /\ ChannelOf(config, z).type = "addressable"
    BY <1>1, <1>2 DEF ZonesOK, ChannelsOK
  <2>3. z \in 1 .. f => auraZones[z].type = "Motherboard" /\ ChannelOf(config, z).type = "fixed"
    BY <1>1, <1>2 DEF ZonesOK, ChannelsOK, f
  <2> QED BY <2>1, <2>2, <2>3
<1>6. ASSUME NEW y \in DOMAIN auraZones, NEW z \in DOMAIN auraZones, IsAddressableZone(y),
             IsAddressableZone(z), y # z
      PROVE  ChannelOf(config, y) # ChannelOf(config, z)
  <2>1. y \in Addressed(config) /\ z \in Addressed(config)
    BY <1>4, <1>6 DEF IsAddressableZone, f
  <2> QED BY <1>2, <1>6, <2>1 DEF ChannelsOK
<1> QED BY <1>1, <1>5, <1>6 DEF ZonesOwnTheirChannels, FixedUntouched

LEMMA ModelShown == ASSUME AuraAssumption, AuraInv PROVE ShowsTheModel
<1>1. ASSUME NEW z \in DOMAIN auraZones, IsAddressableZone(z)
      PROVE  ZoneShown(ChannelOf(config, z), auraZones[z], told[z], synced[z], hw)
  BY <1>1, AddressableIsWritable DEF Writable
<1> QED BY <1>1 DEF ShowsTheModel, ZoneShown

(* Whatever interfaces a probe finds, and in whatever order, the device is *)
(* opened on one that no other beats (discoverDevices,                     *)
(* isBetterAuraCandidate): the loop compares each only with the best so    *)
(* far, which is enough because being better is a strict order.            *)
THEOREM BestIsSelected == ASSUME AuraAssumption PROVE AuraSpec => []SelectionIsBest
<1>1. AuraInit => AuraInv
  BY InitAura
<1>2. AuraInv /\ [AuraNext]_auraVars => AuraInv'
  BY NextAura
<1>3. AuraInv => SelectionIsBest
  BY BestOfFound
<1> QED BY <1>1, <1>2, <1>3, PTL DEF AuraSpec

(* For every config table the parser lets pass, each addressable zone is   *)
(* written through an addressable channel of its own, and no operation     *)
(* touches the fixed channel's mode (parseAsusAuraConfigTable,             *)
(* resolveEffectTarget).                                                   *)
THEOREM ChannelsAreOwned == ASSUME AuraAssumption PROVE AuraSpec => []ZonesOwnTheirChannels
<1>1. AuraInit => AuraInv
  BY InitAura
<1>2. AuraInv /\ [AuraNext]_auraVars => AuraInv'
  BY NextAura
<1>3. AuraInv => ZonesOwnTheirChannels
  BY OwnChannels
<1> QED BY <1>1, <1>2, <1>3, PTL DEF AuraSpec

(* For every number of LEDs, channels and LEDs per packet, and for frames  *)
(* of any client on any zone: a channel stays in the mode the last         *)
(* acknowledged effect or all-off set, so that a zone switched off stays   *)
(* dark, and in direct mode the LEDs sent show what the model says, over   *)
(* frames cut off at any report, previews, all-off and changed LED counts  *)
(* (applyZoneEffect, applyZoneFrame, applyAllOff, updateZoneMetadata).     *)
THEOREM ModelIsShown == ASSUME AuraAssumption PROVE AuraSpec => []ShowsTheModel
<1>1. AuraInit => AuraInv
  BY InitAura
<1>2. AuraInv /\ [AuraNext]_auraVars => AuraInv'
  BY NextAura
<1>3. AuraInv => ShowsTheModel
  BY ModelShown
<1> QED BY <1>1, <1>2, <1>3, PTL DEF AuraSpec

-----------------------------------------------------------------------------
(* Frames.                                                                 *)

Symbol == Byte \cup {Newline}

Encoded(s) == FlattenSeq([i \in DOMAIN s |-> Append(s[i], Newline)])

(* off[j] is where the j-th frame of s ends in its encoding. *)
IsFramed(off, s) ==
  /\ Encoded(s) \in Seq(Symbol) /\ off \in [0 .. Len(s) -> Nat]
  /\ off[0] = 0 /\ off[Len(s)] = Len(Encoded(s))
  /\ \A j \in 1 .. Len(s) :
       /\ off[j] = off[j - 1] + Len(s[j]) + 1 /\ off[j] <= Len(Encoded(s))
       /\ Encoded(s)[off[j]] = Newline
       /\ \A i \in 1 .. Len(s[j]) :
            Encoded(s)[off[j - 1] + i] = s[j][i] /\ s[j][i] # Newline

LEMMA Framed ==
  ASSUME CodecAssumption, NEW s \in Stream
  PROVE  s \in Seq(Seq(Byte)) /\ \E off : IsFramed(off, s)
<1> DEFINE frames == [i \in DOMAIN s |-> Append(s[i], Newline)]
           T == FlattenSeq(frames)
           n == Len(s)
<1>1. s \in Seq(Seq(Byte)) /\ Newline \notin Byte
  BY DEF CodecAssumption
<1>2. n \in Nat /\ DOMAIN s = 1 .. n
  BY <1>1
<1> HIDE DEF n
<1>3. ASSUME NEW j \in 1 .. n
      PROVE  /\ s[j] \in Seq(Byte) /\ Len(s[j]) \in Nat
             /\ frames[j] \in Seq(Symbol) /\ Len(frames[j]) = Len(s[j]) + 1
             /\ frames[j][Len(s[j]) + 1] = Newline
             /\ \A i \in 1 .. Len(s[j]) : frames[j][i] = s[j][i] /\ s[j][i] # Newline
  <2>1. s[j] \in Seq(Byte)
    BY <1>1, <1>2
  <2>2. frames[j] = Append(s[j], Newline)
    BY <1>2
  <2> DEFINE p == s[j]
  <2>3. p \in Seq(Byte) /\ p \in Seq(Symbol) /\ Newline \in Symbol
    BY <2>1 DEF Symbol
  <2> HIDE DEF p
  <2>4. /\ Append(p, Newline) \in Seq(Symbol) /\ Len(p) \in Nat
        /\ Len(Append(p, Newline)) = Len(p) + 1 /\ Append(p, Newline)[Len(p) + 1] = Newline
        /\ \A i \in 1 .. Len(p) : Append(p, Newline)[i] = p[i] /\ p[i] \in Byte
    BY <2>3
  <2> QED BY <1>1, <2>2, <2>3, <2>4 DEF p
<1>4. frames \in Seq(Seq(Symbol)) /\ Len(frames) = n
  <2>1. frames \in [1 .. n -> Seq(Symbol)]
    BY <1>2, <1>3
  <2> QED BY <1>2, <2>1
<1> HIDE DEF frames
<1>5. PICK off : IsFlattened(T, frames, Symbol, off)
  BY <1>4, Flattened
<1>6. /\ T \in Seq(Symbol) /\ off \in [0 .. n -> Nat] /\ off[0] = 0 /\ off[n] = Len(T)
      /\ \A j \in 1 .. n :
           /\ off[j] = off[j - 1] + Len(frames[j])
           /\ \A i \in 1 .. Len(frames[j]) :
                off[j - 1] + i \in 1 .. Len(T) /\ T[off[j - 1] + i] = frames[j][i]
  BY <1>4, <1>5 DEF IsFlattened
<1>7. Encoded(s) = T
  BY DEF Encoded, frames
<1> HIDE DEF T
<1>8. ASSUME NEW j \in 1 .. n
      PROVE  /\ off[j] = off[j - 1] + Len(s[j]) + 1 /\ off[j] <= Len(T)
             /\ T[off[j]] = Newline
             /\ \A i \in 1 .. Len(s[j]) : T[off[j - 1] + i] = s[j][i] /\ s[j][i] # Newline
  <2> DEFINE l == Len(s[j])
  <2>1. /\ l \in Nat /\ Len(frames[j]) = l + 1 /\ frames[j][l + 1] = Newline
        /\ \A i \in 1 .. l : frames[j][i] = s[j][i] /\ s[j][i] # Newline
    BY <1>3
  <2>2. off[j - 1] \in Nat /\ off[j] \in Nat /\ Len(T) \in Nat
    <3>1. j - 1 \in 0 .. n /\ j \in 0 .. n
      BY <1>2
    <3> QED BY <1>6, <3>1
  <2> HIDE DEF l
  <2>3. l + 1 \in 1 .. l + 1 /\ \A i \in 1 .. l : i \in 1 .. l + 1
    BY <2>1
  <2>4. off[j] = off[j - 1] + (l + 1)
        /\ \A i \in 1 .. l + 1 :
             off[j - 1] + i \in 1 .. Len(T) /\ T[off[j - 1] + i] = frames[j][i]
    BY <1>6, <2>1
  <2>5. off[j] \in 1 .. Len(T) /\ T[off[j]] = Newline
    <3>1. off[j - 1] + (l + 1) \in 1 .. Len(T) /\ T[off[j - 1] + (l + 1)] = frames[j][l + 1]
      BY <2>3, <2>4
    <3> QED BY <2>1, <2>4, <3>1
  <2>6. off[j - 1] + (l + 1) = off[j - 1] + l + 1 /\ off[j] <= Len(T)
    <3> DEFINE a == off[j - 1]
               b == off[j]
               t == Len(T)
    <3>1. a \in Nat /\ b \in 1 .. t /\ t \in Nat /\ l \in Nat
      BY <2>1, <2>2, <2>5
    <3> HIDE DEF a, b, t
    <3>2. a + (l + 1) = a + l + 1 /\ b <= t
      BY <3>1
    <3> QED BY <3>2 DEF a, b, t
  <2>8. off[j] = off[j - 1] + l + 1
    BY <2>4, <2>6
  <2>7. ASSUME NEW i \in 1 .. l PROVE T[off[j - 1] + i] = s[j][i] /\ s[j][i] # Newline
    <3>1. T[off[j - 1] + i] = frames[j][i]
      BY <2>3, <2>4
    <3> QED BY <2>1, <3>1
  <2> QED BY <2>5, <2>6, <2>7, <2>8 DEF l
<1>9. Encoded(s) \in Seq(Symbol) /\ off[n] = Len(Encoded(s))
  BY <1>6, <1>7
<1>10. \A j \in 1 .. n :
         /\ off[j] = off[j - 1] + Len(s[j]) + 1 /\ off[j] <= Len(Encoded(s))
         /\ Encoded(s)[off[j]] = Newline
         /\ \A i \in 1 .. Len(s[j]) :
              Encoded(s)[off[j - 1] + i] = s[j][i] /\ s[j][i] # Newline
  BY <1>7, <1>8, Zenon
<1>11. IsFramed(off, s)
  BY <1>6, <1>9, <1>10, Zenon DEF IsFramed, n
<1> QED BY <1>1, <1>11

LEMMA KeptIs ==
  ASSUME CodecAssumption, sent \in Stream
  PROVE  /\ Kept[0] = <<>>
         /\ \A n \in 0 .. Len(sent) : Kept[n] \in Seq(Seq(Byte))
         /\ \A n \in 1 .. Len(sent) :
              Kept[n] = IF IsEmpty(sent[n]) THEN Kept[n - 1] ELSE Append(Kept[n - 1], sent[n])
<1> DEFINE N == Len(sent)
           X == Seq(Seq(Byte))
           Next1(n, a) == IF IsEmpty(sent[n]) THEN a ELSE Append(a, sent[n])
           step == [n \in 1 .. N |-> [a \in X |-> Next1(n, a)]]
           IsRun(g) == g = [n \in 0 .. N |->
                              IF n = 0 THEN <<>>
                              ELSE IF IsEmpty(sent[n]) THEN g[n - 1] ELSE Append(g[n - 1], sent[n])]
           run == CHOOSE g : IsRun(g)
<1>1. Kept = run
  BY DEF Kept
<1>2. N \in Nat /\ sent \in Seq(Seq(Byte)) /\ \A n \in 1 .. N : sent[n] \in Seq(Byte)
  BY DEF CodecAssumption
<1> HIDE DEF N
<1>3. step \in [1 .. N -> [X -> X]]
  <2>1. ASSUME NEW n \in 1 .. N, NEW a \in X PROVE Next1(n, a) \in X
    <3>1. sent[n] \in Seq(Byte)
      BY <1>2
    <3> QED BY <3>1
  <2> HIDE DEF Next1
  <2> QED BY <2>1
<1>4. PICK f : IsIteration(f, N, X, <<>>, step)
  <2>1. <<>> \in X
    OBVIOUS
  <2> HIDE DEF step, X
  <2> QED BY <1>2, <1>3, <2>1, IterationExists
<1>5. /\ f \in [0 .. N -> X] /\ f[0] = <<>>
      /\ \A n \in 1 .. N : f[n] = IF IsEmpty(sent[n]) THEN f[n - 1] ELSE Append(f[n - 1], sent[n])
  <2>1. f \in [0 .. N -> X] /\ f[0] = <<>> /\ \A n \in 1 .. N : f[n] = step[n][f[n - 1]]
    BY <1>4 DEF IsIteration
  <2>2. ASSUME NEW n \in 1 .. N PROVE step[n][f[n - 1]] = Next1(n, f[n - 1])
    <3>1. n - 1 \in 0 .. N
      BY <1>2
    <3>2. f[n - 1] \in X
      BY <2>1, <3>1
    <3> HIDE DEF Next1, X
    <3> QED BY <3>2
  <2> QED BY <2>1, <2>2
<1>6. IsRun(f)
  <2>1. ASSUME NEW n \in 0 .. N
        PROVE  f[n] = IF n = 0 THEN <<>>
                      ELSE IF IsEmpty(sent[n]) THEN f[n - 1] ELSE Append(f[n - 1], sent[n])
    <3>1. n = 0 \/ n \in 1 .. N
      BY <1>2
    <3> QED BY <1>5, <3>1
  <2> QED BY <1>5, <2>1
<1>7. IsRun(run)
  <2> HIDE DEF IsRun
  <2> QED BY <1>6
<1>8. \A n \in 0 .. N : run[n] = IF n = 0 THEN <<>>
        ELSE IF IsEmpty(sent[n]) THEN run[n - 1] ELSE Append(run[n - 1], sent[n])
  <2> HIDE DEF run
  <2> QED BY <1>7
<1> HIDE DEF run, IsRun
<1> DEFINE S == {n \in 0 .. N : run[n] \in X}
<1>9. 0 \in S
  <2>1. 0 \in 0 .. N /\ <<>> \in X
    BY <1>2
  <2>2. run[0] = <<>>
    BY <1>8, <2>1
  <2> QED BY <2>1, <2>2
<1>10. ASSUME NEW n \in 0 .. N, n \in S, n < N PROVE n + 1 \in S
  <2>1. n + 1 \in 0 .. N /\ n + 1 # 0 /\ (n + 1) - 1 = n /\ n + 1 \in 1 .. N
    BY <1>2, <1>10
  <2>2. run[n + 1] = IF IsEmpty(sent[n + 1]) THEN run[n] ELSE Append(run[n], sent[n + 1])
    BY <1>8, <2>1
  <2>3. run[n] \in X /\ sent[n + 1] \in Seq(Byte)
    BY <1>2, <1>10, <2>1
  <2>4. run[n + 1] \in X
    BY <2>2, <2>3
  <2> QED BY <2>1, <2>4
<1> HIDE DEF S
<1>11. \A n \in 0 .. N : n \in S
  BY <1>2, <1>9, <1>10, UpTo
<1>12. \A n \in 1 .. N : n \in 0 .. N /\ n # 0
  BY <1>2
<1>13. \A n \in 0 .. N : run[n] \in X
  BY <1>11 DEF S
<1>14. run[0] = <<>>
  <2>1. 0 \in 0 .. N
    BY <1>2
  <2> QED BY <1>8, <2>1
<1>15. \A n \in 1 .. N : run[n] = IF IsEmpty(sent[n]) THEN run[n - 1] ELSE Append(run[n - 1], sent[n])
  BY <1>8, <1>12
<1>16. \A n \in 0 .. N : run[n] \in Seq(Seq(Byte))
  BY <1>13
<1> HIDE DEF X, S
<1> QED BY <1>1, <1>14, <1>15, <1>16 DEF N

LEMMA PrefixTransitive ==
  ASSUME NEW X, NEW s \in Seq(X), NEW t \in Seq(X), NEW u \in Seq(X), IsPrefix(s, t), IsPrefix(t, u)
  PROVE  IsPrefix(s, u)
<1>1. ASSUME NEW a \in Seq(X), NEW b \in Seq(X)
      PROVE  IsPrefix(a, b) <=> Len(a) <= Len(b) /\ \A i \in 1 .. Len(a) : a[i] = b[i]
  <2>1. Len(a) \in Nat /\ Len(b) \in Nat
    OBVIOUS
  <2>2. CASE Len(a) <= Len(b)
    <3>1. SubSeq(a, 1, Len(a)) = [i \in 1 .. Len(a) |-> a[i]]
      BY <2>1
    <3>2. SubSeq(b, 1, Len(a)) = [i \in 1 .. Len(a) |-> b[i]]
      BY <2>1, <2>2
    <3> QED BY <2>2, <3>1, <3>2 DEF IsPrefix
  <2> QED BY <2>1, <2>2 DEF IsPrefix
<1>2. Len(s) \in Nat /\ Len(t) \in Nat /\ Len(u) \in Nat
  OBVIOUS
<1>3. Len(s) <= Len(t) /\ Len(t) <= Len(u) /\ (\A i \in 1 .. Len(s) : s[i] = t[i])
      /\ \A i \in 1 .. Len(t) : t[i] = u[i]
  BY <1>1
<1>4. Len(s) <= Len(u) /\ \A i \in 1 .. Len(s) : s[i] = u[i]
  BY <1>2, <1>3
<1> QED BY <1>1, <1>4

LEMMA KeptGrows ==
  ASSUME CodecAssumption, sent \in Stream, NEW n \in 0 .. Len(sent), NEW m \in 0 .. n
  PROVE  IsPrefix(Kept[m], Kept[n])
<1> DEFINE N == Len(sent)
           X == Seq(Byte)
           S == {k \in 0 .. N : m <= k => IsPrefix(Kept[m], Kept[k])}
<1>1. N \in Nat
  BY DEF CodecAssumption
<1>2. \A k \in 0 .. N : Kept[k] \in Seq(X)
  BY KeptIs
<1>3. \A k \in 1 .. N : Kept[k] = IF IsEmpty(sent[k]) THEN Kept[k - 1] ELSE Append(Kept[k - 1], sent[k])
  BY KeptIs
<1>4. \A k \in 1 .. N : sent[k] \in X
  BY DEF CodecAssumption
<1> HIDE DEF N, X
<1>5. ASSUME NEW s \in Seq(X) PROVE IsPrefix(s, s) /\ \A x \in X : IsPrefix(s, Append(s, x))
  <2>1. IsPrefix(s, s)
    BY DEF IsPrefix
  <2>2. ASSUME NEW x \in X PROVE IsPrefix(s, Append(s, x))
    <3>1. Len(s) \in Nat /\ Len(Append(s, x)) = Len(s) + 1 /\ Append(s, x) \in Seq(X)
      OBVIOUS
    <3>2. SubSeq(s, 1, Len(s)) = [i \in 1 .. Len(s) |-> s[i]]
      BY <3>1
    <3>3. SubSeq(Append(s, x), 1, Len(s)) = [i \in 1 .. Len(s) |-> Append(s, x)[i]]
      BY <3>1
    <3>4. \A i \in 1 .. Len(s) : Append(s, x)[i] = s[i]
      OBVIOUS
    <3> QED BY <3>1, <3>2, <3>3, <3>4 DEF IsPrefix
  <2> QED BY <2>1, <2>2
<1>6. m \in 0 .. N /\ n \in 0 .. N
  BY <1>1 DEF N
<1>7. 0 \in S
  <2>1. m <= 0 => m = 0
    BY <1>6
  <2> QED BY <1>1, <1>2, <1>5, <1>6, <2>1
<1>8. ASSUME NEW k \in 0 .. N, k \in S, k < N PROVE k + 1 \in S
  <2>1. k + 1 \in 1 .. N /\ k + 1 \in 0 .. N /\ (k + 1) - 1 = k
    BY <1>1, <1>8
  <2>2. CASE m <= k
    <3>1. IsPrefix(Kept[m], Kept[k])
      BY <1>8, <2>2
    <3>2. IsPrefix(Kept[k], Kept[k + 1])
      <4>1. Kept[k + 1] = IF IsEmpty(sent[k + 1]) THEN Kept[k] ELSE Append(Kept[k], sent[k + 1])
        BY <1>3, <2>1
      <4> QED BY <1>2, <1>4, <1>5, <2>1, <4>1
    <3>3. IsPrefix(Kept[m], Kept[k + 1])
      BY <1>2, <1>6, <2>1, <3>1, <3>2, PrefixTransitive
    <3> QED BY <2>1, <3>3
  <2>3. CASE ~(m <= k)
    <3>1. m <= k + 1 => m = k + 1
      BY <1>6, <2>3
    <3>2. IsPrefix(Kept[k + 1], Kept[k + 1])
      BY <1>2, <1>5, <2>1
    <3> QED BY <2>1, <3>1, <3>2
  <2> QED BY <2>2, <2>3
<1> HIDE DEF S
<1>9. n \in S
  BY <1>1, <1>6, <1>7, <1>8, UpTo
<1> QED BY <1>9 DEF S

-----------------------------------------------------------------------------
(* Where the bytes are.                                                    *)

(* q holds the bytes of T from c + 1 on. *)
At(q, c, T) == \A i \in 1 .. Len(q) : q[i] = T[c + i]

(* k bytes go from the front of w to the end of a. *)
Movable(a, w, c, T, k) ==
  /\ c \in Nat /\ a \in Seq(Symbol) /\ w \in Seq(Symbol) /\ k \in 0 .. Len(w)
  /\ At(a, c, T) /\ At(w, c + Len(a), T)

HasMoved(a, w, c, T, k) ==
  /\ a \o SubSeq(w, 1, k) \in Seq(Symbol) /\ Len(a \o SubSeq(w, 1, k)) = Len(a) + k
  /\ SubSeq(w, k + 1, Len(w)) \in Seq(Symbol) /\ Len(SubSeq(w, k + 1, Len(w))) = Len(w) - k
  /\ At(a \o SubSeq(w, 1, k), c, T)
  /\ At(SubSeq(w, k + 1, Len(w)), c + Len(a) + k, T)

LEMMA Moved ==
  ASSUME NEW T, NEW c, NEW a, NEW w, NEW k, Movable(a, w, c, T, k)
  PROVE  HasMoved(a, w, c, T, k)
<1> DEFINE X == Symbol
           x == SubSeq(w, 1, k)
           y == SubSeq(w, k + 1, Len(w))
           n == Len(w)
           l == Len(a)
<1>1. /\ n \in Nat /\ l \in Nat /\ k \in 0 .. n /\ w \in Seq(X) /\ a \in Seq(X)
      /\ c \in Nat
  BY DEF Movable
<1>2. /\ x \in Seq(X) /\ Len(x) = k /\ \A i \in 1 .. k : x[i] = w[i]
      /\ y \in Seq(X) /\ Len(y) = n - k /\ \A i \in 1 .. n - k : y[i] = w[k + i]
  <2>1. x = [i \in 1 .. k |-> w[i]]
    BY <1>1
  <2>2. y = [i \in 1 .. n - k |-> w[k + i]]
    BY <1>1
  <2>3. \A i \in 1 .. n : w[i] \in X
    BY <1>1
  <2>4. (\A i \in 1 .. k : i \in 1 .. n) /\ \A i \in 1 .. n - k : k + i \in 1 .. n
    BY <1>1
  <2>5. k \in Nat /\ n - k \in Nat
    BY <1>1
  <2> HIDE DEF x, y, n
  <2>6. x \in [1 .. k -> X] /\ y \in [1 .. n - k -> X]
    BY <2>1, <2>2, <2>3, <2>4
  <2>7. \A m \in Nat : \A q \in [1 .. m -> X] : q \in Seq(X) /\ Len(q) = m
    OBVIOUS
  <2>8. x \in Seq(X) /\ y \in Seq(X) /\ Len(x) = k /\ Len(y) = n - k
    BY <2>5, <2>6, <2>7
  <2> QED BY <2>1, <2>2, <2>8
<1> HIDE DEF x, y, n
<1>3. /\ a \o x \in Seq(X) /\ Len(a \o x) = l + k
      /\ \A i \in 1 .. l + k : (a \o x)[i] = IF i <= l THEN a[i] ELSE x[i - l]
  BY <1>1, <1>2, ConcatProperties
<1>4. (\A i \in 1 .. l : a[i] = T[c + i]) /\ \A i \in 1 .. n : w[i] = T[c + l + i]
  BY DEF Movable, At, n
<1> HIDE DEF l
<1>5. ASSUME NEW i \in 1 .. l + k PROVE (a \o x)[i] = T[c + i]
  <2>1. CASE i <= l
    <3>1. i \in 1 .. l
      BY <1>1, <2>1
    <3> QED BY <1>3, <1>4, <2>1, <3>1
  <2>2. CASE ~(i <= l)
    <3>1. i - l \in 1 .. k /\ i - l \in 1 .. n /\ c + l + (i - l) = c + i
      BY <1>1, <2>2
    <3>2. (a \o x)[i] = w[i - l]
      BY <1>2, <1>3, <2>2, <3>1
    <3> QED BY <1>4, <3>1, <3>2
  <2> QED BY <2>1, <2>2
<1>6. ASSUME NEW i \in 1 .. n - k PROVE y[i] = T[c + l + k + i]
  <2>1. k + i \in 1 .. n /\ c + l + (k + i) = c + l + k + i
    BY <1>1
  <2> QED BY <1>2, <1>4, <2>1
<1>7. At(a \o x, c, T) /\ At(y, c + l + k, T)
  BY <1>2, <1>3, <1>5, <1>6 DEF At
<1> QED BY <1>2, <1>3, <1>7 DEF HasMoved, x, y, n, l

(* The bytes from c + 1 on are in the buffer, the socket and on the wire.  *)
Held(b, a, w, c, T) ==
  /\ b \in Seq(Symbol) /\ a \in Seq(Symbol) /\ w \in Seq(Symbol)
  /\ c \in Nat /\ c + Len(b) + Len(a) + Len(w) = Len(T)
  /\ At(b, c, T) /\ At(a, c + Len(b), T) /\ At(w, c + Len(b) + Len(a), T)

LEMMA ArrivedHeld ==
  ASSUME NEW b, NEW a, NEW w, NEW c, NEW T, Held(b, a, w, c, T), NEW k \in 0 .. Len(w)
  PROVE  /\ Held(b, a \o SubSeq(w, 1, k), SubSeq(w, k + 1, Len(w)), c, T)
         /\ Len(a \o SubSeq(w, 1, k)) = Len(a) + k
<1> DEFINE a2 == a \o SubSeq(w, 1, k)
           w2 == SubSeq(w, k + 1, Len(w))
           lb == Len(b)
           la == Len(a)
           lw == Len(w)
<1>1. /\ b \in Seq(Symbol) /\ a \in Seq(Symbol) /\ w \in Seq(Symbol) /\ c \in Nat
      /\ c + lb + la + lw = Len(T) /\ At(b, c, T) /\ At(a, c + lb, T) /\ At(w, c + lb + la, T)
  BY DEF Held
<1>2. lb \in Nat /\ la \in Nat /\ lw \in Nat /\ k \in 0 .. lw
  BY <1>1
<1>3. /\ a2 \in Seq(Symbol) /\ Len(a2) = la + k /\ w2 \in Seq(Symbol) /\ Len(w2) = lw - k
      /\ At(a2, c + lb, T) /\ At(w2, c + lb + la + k, T)
  <2>1. c + lb \in Nat
    BY <1>1, <1>2
  <2>2. Movable(a, w, c + lb, T, k)
    BY <1>1, <1>2, <2>1 DEF Movable
  <2> HIDE DEF lb
  <2>3. HasMoved(a, w, c + lb, T, k)
    BY <2>2, Moved
  <2> QED BY <2>3 DEF HasMoved
<1> HIDE DEF a2, w2, lb, la, lw
<1>4. c + lb + (la + k) + (lw - k) = c + lb + la + lw /\ c + lb + la + k = c + lb + (la + k)
  BY <1>1, <1>2
<1>5. c + lb + Len(a2) + Len(w2) = Len(T) /\ At(w2, c + lb + Len(a2), T)
  BY <1>1, <1>3, <1>4
<1> QED BY <1>1, <1>3, <1>5 DEF Held, a2, w2, lb, la

LEMMA ReadHeld ==
  ASSUME NEW b, NEW a, NEW w, NEW c, NEW T, Held(b, a, w, c, T), NEW n \in 0 .. Len(a)
  PROVE  /\ Held(b \o SubSeq(a, 1, n), SubSeq(a, n + 1, Len(a)), w, c, T)
         /\ Len(b \o SubSeq(a, 1, n)) = Len(b) + n
         /\ Len(SubSeq(a, n + 1, Len(a))) = Len(a) - n
<1> DEFINE b2 == b \o SubSeq(a, 1, n)
           a2 == SubSeq(a, n + 1, Len(a))
           lb == Len(b)
           la == Len(a)
           lw == Len(w)
<1>1. /\ b \in Seq(Symbol) /\ a \in Seq(Symbol) /\ w \in Seq(Symbol) /\ c \in Nat
      /\ c + lb + la + lw = Len(T) /\ At(b, c, T) /\ At(a, c + lb, T) /\ At(w, c + lb + la, T)
  BY DEF Held
<1>2. lb \in Nat /\ la \in Nat /\ lw \in Nat /\ n \in 0 .. la
  BY <1>1
<1>3. /\ b2 \in Seq(Symbol) /\ Len(b2) = lb + n /\ a2 \in Seq(Symbol) /\ Len(a2) = la - n
      /\ At(b2, c, T) /\ At(a2, c + lb + n, T)
  <2>1. Movable(b, a, c, T, n)
    BY <1>1, <1>2 DEF Movable
  <2>2. HasMoved(b, a, c, T, n)
    BY <2>1, Moved
  <2> QED BY <2>2 DEF HasMoved
<1> HIDE DEF b2, a2, lb, la, lw
<1>4. /\ c + (lb + n) + (la - n) + lw = c + lb + la + lw /\ c + lb + n = c + (lb + n)
      /\ c + (lb + n) + (la - n) = c + lb + la
  BY <1>1, <1>2
<1>5. /\ c + Len(b2) + Len(a2) + lw = Len(T) /\ At(a2, c + Len(b2), T)
      /\ At(w, c + Len(b2) + Len(a2), T)
  BY <1>1, <1>3, <1>4
<1> QED BY <1>1, <1>3, <1>5 DEF Held, b2, a2, lb, la, lw

(* What the buffer shows of the next frame. *)
LEMMA NextFrame ==
  ASSUME CodecAssumption, sent \in Stream, NEW off, IsFramed(off, sent), NEW j \in 0 .. Len(sent),
         Held(buffer, arrived, wire, off[j], Encoded(sent))
  PROVE  /\ buffer # <<>> \/ wire # <<>> \/ arrived # <<>> => j < Len(sent)
         /\ j < Len(sent) => LET p == Len(sent[j + 1]) + 1
                             IN  /\ p \in Nat /\ off[j] + p = off[j + 1] /\ j + 1 \in 0 .. Len(sent)
                                 /\ HasNewline <=> p <= Len(buffer)
                                 /\ HasNewline => NewlineAt = p
                                                  /\ SubSeq(buffer, 1, p - 1) = sent[j + 1]
                                 /\ off[j + 1] <= Len(Encoded(sent))
<1> DEFINE T == Encoded(sent)
           N == Len(sent)
           c == off[j]
           lb == Len(buffer)
           la == Len(arrived)
           lw == Len(wire)
<1>1. /\ off \in [0 .. N -> Nat] /\ off[N] = Len(T)
      /\ \A i \in 1 .. N :
           /\ off[i] = off[i - 1] + Len(sent[i]) + 1 /\ off[i] <= Len(T) /\ T[off[i]] = Newline
           /\ \A k \in 1 .. Len(sent[i]) : T[off[i - 1] + k] = sent[i][k] /\ sent[i][k] # Newline
  BY DEF IsFramed
<1>2. /\ buffer \in Seq(Symbol) /\ arrived \in Seq(Symbol) /\ wire \in Seq(Symbol)
      /\ c \in Nat /\ c + lb + la + lw = Len(T)
      /\ \A i \in 1 .. lb : buffer[i] = T[c + i]
  BY DEF Held, At
<1>3. lb \in Nat /\ la \in Nat /\ lw \in Nat
  BY <1>2
<1>4. N \in Nat /\ sent \in Seq(Seq(Byte)) /\ j \in 0 .. N
  BY DEF CodecAssumption
<1> HIDE DEF T, N, c
<1>5. buffer # <<>> \/ wire # <<>> \/ arrived # <<>> => j < N
  <2>1. lb + la + lw # 0 => c # Len(T)
    <3> HIDE DEF lb, la, lw
    <3> QED BY <1>2, <1>3
  <2>2. buffer # <<>> \/ wire # <<>> \/ arrived # <<>> => lb + la + lw # 0
    <3>1. (buffer # <<>> => lb # 0) /\ (arrived # <<>> => la # 0) /\ (wire # <<>> => lw # 0)
      BY <1>2
    <3> HIDE DEF lb, la, lw
    <3> QED BY <1>3, <3>1
  <2>3. j = N => c = Len(T)
    BY <1>1 DEF c
  <2> HIDE DEF lb, la, lw
  <2> QED BY <1>4, <2>1, <2>2, <2>3
<1>6. ASSUME j < N
      PROVE  LET p == Len(sent[j + 1]) + 1
             IN  /\ p \in Nat /\ c + p = off[j + 1] /\ j + 1 \in 0 .. N
                 /\ HasNewline <=> p <= lb
                 /\ HasNewline => NewlineAt = p /\ SubSeq(buffer, 1, p - 1) = sent[j + 1]
                 /\ off[j + 1] <= Len(T)
  <2> DEFINE s == sent[j + 1]
             l == Len(s)
             p == l + 1
             S == {i \in DOMAIN buffer : buffer[i] = Newline}
  <2>1. j + 1 \in 1 .. N /\ j + 1 \in 0 .. N /\ (j + 1) - 1 = j
    BY <1>4, <1>6
  <2>2. s \in Seq(Byte) /\ l \in Nat
    <3>1. s \in Seq(Byte)
      BY <1>4, <2>1 DEF N
    <3> QED BY <3>1
  <2>3. /\ off[j + 1] = c + l + 1 /\ off[j + 1] <= Len(T) /\ T[off[j + 1]] = Newline
        /\ \A k \in 1 .. l : T[c + k] = s[k] /\ s[k] # Newline
    BY <1>1, <2>1 DEF c
  <2> HIDE DEF s, l
  <2>4. p \in Nat /\ c + p = off[j + 1] /\ T[c + p] = Newline
    <3>1. c + p = c + l + 1
      BY <1>2, <2>2
    <3> QED BY <2>2, <2>3, <3>1
  <2>5. DOMAIN buffer = 1 .. lb
    BY <1>2
  <2> HIDE DEF lb
  <2>6. ASSUME NEW i \in 1 .. lb
        PROVE  (i = p => buffer[i] = Newline)
               /\ (i < p => buffer[i] # Newline /\ buffer[i] = s[i] /\ i \in 1 .. l)
    <3>1. buffer[i] = T[c + i]
      BY <1>2
    <3>2. i < p => i \in 1 .. l
      BY <1>3, <2>2
    <3> QED BY <2>3, <2>4, <3>1, <3>2
  <2>7. HasNewline <=> p <= lb
    <3>1. ASSUME HasNewline PROVE p <= lb
      <4>1. PICK i \in 1 .. lb : buffer[i] = Newline
        BY <2>5, <3>1 DEF HasNewline
      <4>2. ~(i < p)
        BY <2>6, <4>1
      <4> QED BY <1>3, <2>4, <4>2
    <3>2. ASSUME p <= lb PROVE HasNewline
      <4>1. p \in 1 .. lb
        BY <1>3, <2>2, <3>2
      <4> QED BY <2>5, <2>6, <4>1 DEF HasNewline
    <3> QED BY <3>1, <3>2
  <2>8. ASSUME HasNewline PROVE NewlineAt = p /\ SubSeq(buffer, 1, p - 1) = s
    <3>1. p \in 1 .. lb
      BY <1>3, <2>2, <2>7, <2>8
    <3>2. p \in S
      BY <2>5, <2>6, <3>1
    <3>3. S \in SUBSET (Nat \ {0}) /\ \A i \in S : i \in 1 .. lb /\ buffer[i] = Newline
      BY <1>3, <2>5
    <3>4. NewlineAt = First(S)
      BY DEF NewlineAt
    <3> HIDE DEF S
    <3>5. First(S) \in S /\ First(S) <= p
      BY <3>2, <3>3, FirstIsLeast
    <3>6. ~(First(S) < p)
      BY <2>6, <3>3, <3>5
    <3>7. First(S) = p
      <4> DEFINE q == First(S)
      <4>1. q \in 1 .. lb /\ q <= p /\ ~(q < p)
        BY <3>3, <3>5, <3>6
      <4> HIDE DEF q
      <4>2. q = p
        BY <1>3, <2>4, <4>1
      <4> QED BY <4>2 DEF q
    <3>8. SubSeq(buffer, 1, l) = [i \in 1 .. l |-> buffer[i]]
      <4>1. l \in Nat /\ l <= lb
        BY <1>3, <2>2, <3>1
      <4> QED BY <1>2, <4>1 DEF lb
    <3>9. \A i \in 1 .. l : buffer[i] = s[i]
      <4>1. \A i \in 1 .. l : i \in 1 .. lb /\ i < p
        BY <1>3, <2>2, <3>1
      <4> QED BY <2>6, <4>1
    <3>10. s = [i \in 1 .. l |-> s[i]]
      BY <2>2 DEF l
    <3>11. p - 1 = l
      BY <2>2
    <3> QED BY <3>4, <3>7, <3>8, <3>9, <3>10, <3>11
  <2> QED BY <2>1, <2>3, <2>4, <2>7, <2>8 DEF s, l
<1> QED BY <1>5, <1>6 DEF T, N, c, lb

-----------------------------------------------------------------------------
(* The invariant: some number of frames, all legal, have been taken, and   *)
(* the bytes behind them are in their places; or the next one is too long. *)

FramesTaken(off, j) ==
  /\ \A i \in 1 .. j : Fits(sent[i])
  /\ taken = Kept[j]
  /\ ~broken => Held(buffer, arrived, wire, off[j], Encoded(sent))
  /\ broken => j < Len(sent) /\ ~Fits(sent[j + 1])

CodecInv ==
  /\ sent \in Stream /\ reading \in BOOLEAN /\ broken \in BOOLEAN
  /\ Len(buffer) <= MaxFrame
  /\ broken => buffer = <<>> /\ arrived = <<>> /\ ~reading
  /\ HasNewline \/ reading \/ arrived = <<>> \/ Len(buffer) = MaxFrame
  /\ \E off : IsFramed(off, sent) /\ \E j \in 0 .. Len(sent) : FramesTaken(off, j)

LEMMA InitCodec == ASSUME CodecAssumption, CodecInit PROVE CodecInv
<1>1. PICK off : IsFramed(off, sent)
  BY Framed DEF CodecInit
<1>2. /\ sent \in Stream /\ wire = Encoded(sent) /\ arrived = <<>> /\ buffer = <<>>
      /\ taken = <<>> /\ reading = FALSE /\ broken = FALSE
  BY DEF CodecInit, Encoded
<1>3. Encoded(sent) \in Seq(Symbol) /\ off[0] = 0
  BY <1>1 DEF IsFramed
<1> DEFINE T == Encoded(sent)
<1>4. Held(<<>>, <<>>, T, 0, T)
  <2> HIDE DEF T
  <2>1. T \in Seq(Symbol)
    BY <1>3 DEF T
  <2>2. Len(T) \in Nat /\ <<>> \in Seq(Symbol) /\ Len(<<>>) = 0
    BY <2>1
  <2>3. 0 + 0 + 0 + Len(T) = Len(T) /\ (\A i \in 1 .. Len(T) : 0 + 0 + 0 + i = i)
    BY <2>2
  <2>4. At(<<>>, 0, T) /\ At(<<>>, 0 + 0, T)
    BY DEF At
  <2>5. At(T, 0 + 0 + 0, T)
    BY <2>3 DEF At
  <2> QED BY <2>1, <2>2, <2>3, <2>4, <2>5 DEF Held
<1>5. Kept[0] = <<>>
  BY <1>2, KeptIs
<1>6. Len(sent) \in Nat
  BY <1>2 DEF CodecAssumption
<1>7. 0 \in 0 .. Len(sent) /\ FramesTaken(off, 0)
  BY <1>2, <1>3, <1>4, <1>5, <1>6 DEF FramesTaken
<1>8. Len(buffer) <= MaxFrame
  BY <1>2 DEF CodecAssumption, MaxFrame
<1> QED BY <1>1, <1>2, <1>7, <1>8 DEF CodecInv

(* What a step may leave to its taken frames, where the sent stay. *)
LEMMA SameKept == ASSUME sent' = sent PROVE Kept' = Kept
BY DEF Kept

LEMMA ArrivesKeeps ==
  ASSUME CodecAssumption, CodecInv, NEW k, NEW reader, Arrives(k, reader)
  PROVE  CodecInv'
<1>1. PICK off : IsFramed(off, sent) /\ \E j \in 0 .. Len(sent) : FramesTaken(off, j)
  BY DEF CodecInv
<1>2. PICK j \in 0 .. Len(sent) : FramesTaken(off, j)
  BY <1>1
<1> DEFINE T == Encoded(sent)
           c == off[j]
           available == arrived \o SubSeq(wire, 1, k)
           rest == SubSeq(wire, k + 1, Len(wire))
           n == Least(ReadCapacity, Len(available))
<1>3. /\ ~reading /\ ~broken /\ k \in 1 .. Len(wire) /\ wire' = rest
      /\ sent' = sent /\ taken' = taken /\ broken' = broken
      /\ reading' = (reader # "idleClient")
      /\ IF reader = "server" THEN arrived' = available /\ buffer' = buffer
         ELSE /\ buffer' = buffer \o SubSeq(available, 1, n)
              /\ arrived' = SubSeq(available, n + 1, Len(available))
  BY DEF Arrives, Read
<1>4. Held(buffer, arrived, wire, c, T)
  BY <1>2, <1>3 DEF FramesTaken
<1>5. Held(buffer, available, rest, c, T)
  <2>1. k \in 0 .. Len(wire)
    <3>1. Len(wire) \in Nat
      BY <1>4 DEF Held
    <3> QED BY <1>3, <3>1
  <2> HIDE DEF T, c
  <2> QED BY <1>4, <2>1, ArrivedHeld
<1> HIDE DEF available, rest, T, c
<1>6. /\ Len(buffer) \in Nat /\ Len(available) \in Nat /\ Len(buffer) <= MaxFrame
      /\ MaxFrame \in Nat
  BY <1>5 DEF Held, CodecInv, CodecAssumption, MaxFrame
<1>7. /\ n \in 0 .. Len(available) /\ Len(buffer) + n <= MaxFrame
      /\ Len(buffer) + n = MaxFrame \/ n = Len(available)
  BY <1>6 DEF Least, ReadCapacity
<1> HIDE DEF n
<1>8. /\ Held(buffer \o SubSeq(available, 1, n), SubSeq(available, n + 1, Len(available)),
              rest, c, T)
      /\ Len(buffer \o SubSeq(available, 1, n)) = Len(buffer) + n
      /\ Len(SubSeq(available, n + 1, Len(available))) = Len(available) - n
  BY <1>5, <1>7, ReadHeld
<1>9. /\ Held(buffer', arrived', wire', c, T) /\ Len(buffer') <= MaxFrame
      /\ reading' \/ arrived' = <<>> \/ Len(buffer') = MaxFrame
  <2>1. CASE reader = "server"
    BY <1>3, <1>5, <1>6, <2>1
  <2>2. CASE reader # "server"
    <3>1. Held(buffer', arrived', wire', c, T)
      BY <1>3, <1>8, <2>2
    <3>2. Len(buffer') = Len(buffer) + n /\ Len(arrived') = Len(available) - n
      BY <1>3, <1>8, <2>2
    <3>3. n = Len(available) => Len(arrived') = 0
      BY <1>6, <3>2
    <3>4. arrived' \in Seq(Symbol)
      BY <3>1 DEF Held
    <3>5. n = Len(available) => arrived' = <<>>
      BY <3>3, <3>4
    <3> QED BY <1>7, <3>1, <3>2, <3>5
  <2> QED BY <2>1, <2>2
<1>10. FramesTaken(off, j)'
  BY <1>2, <1>3, <1>9, SameKept DEF FramesTaken, Fits, T, c
<1> QED BY <1>1, <1>3, <1>9, <1>10 DEF CodecInv

LEMMA TakesFrameKeeps == ASSUME CodecAssumption, CodecInv, TakesFrame PROVE CodecInv'
<1>1. PICK off : IsFramed(off, sent) /\ \E j \in 0 .. Len(sent) : FramesTaken(off, j)
  BY DEF CodecInv
<1>2. PICK j \in 0 .. Len(sent) : FramesTaken(off, j)
  BY <1>1
<1> DEFINE T == Encoded(sent)
           p == NewlineAt
           payload == SubSeq(buffer, 1, p - 1)
<1>3. /\ reading /\ HasNewline /\ ~OversizedFrame
      /\ taken' = IF IsEmpty(payload) THEN taken ELSE Append(taken, payload)
      /\ buffer' = SubSeq(buffer, p + 1, Len(buffer))
      /\ sent' = sent /\ wire' = wire /\ arrived' = arrived /\ reading' = reading
      /\ broken' = broken
  BY DEF TakesFrame
<1>4. ~broken /\ sent \in Stream /\ Len(sent) \in Nat
  BY <1>3 DEF CodecInv, CodecAssumption
<1>5. Held(buffer, arrived, wire, off[j], T)
  BY <1>2, <1>4 DEF FramesTaken
<1>6. buffer # <<>>
  BY <1>3 DEF HasNewline
<1>7. j < Len(sent)
  BY <1>1, <1>4, <1>5, <1>6, NextFrame
<1>8. /\ p = Len(sent[j + 1]) + 1 /\ p \in Nat /\ off[j] + p = off[j + 1]
      /\ p <= Len(buffer) /\ payload = sent[j + 1] /\ off[j + 1] <= Len(T)
  BY <1>1, <1>3, <1>4, <1>5, <1>7, NextFrame, SMTT(60)
<1>9. j + 1 \in 0 .. Len(sent) /\ j + 1 \in 1 .. Len(sent) /\ (j + 1) - 1 = j
      /\ \A i \in 1 .. j + 1 : i \in 1 .. j \/ i = j + 1
  BY <1>4, <1>7
<1>10. Fits(sent[j + 1])
  <2>1. ~(p - 1 > MaxMessage)
    BY <1>3 DEF OversizedFrame
  <2>2. Len(sent[j + 1]) \in Nat
    <3>1. sent[j + 1] \in Seq(Byte)
      BY <1>4, <1>9 DEF CodecAssumption
    <3> QED BY <3>1
  <2> DEFINE l == Len(sent[j + 1])
  <2>3. l \in Nat /\ ~((l + 1) - 1 > MaxMessage)
    BY <1>8, <2>1, <2>2
  <2> HIDE DEF l
  <2>4. l <= MaxMessage
    BY <2>3 DEF CodecAssumption
  <2> QED BY <2>4 DEF Fits, l
<1>11. taken' = Kept[j + 1]
  <2>1. taken = Kept[j]
    BY <1>2 DEF FramesTaken
  <2>2. Kept[j + 1] = IF IsEmpty(sent[j + 1]) THEN Kept[j] ELSE Append(Kept[j], sent[j + 1])
    BY <1>4, <1>9, KeptIs
  <2> QED BY <1>3, <1>8, <2>1, <2>2
<1>12. Held(buffer', arrived, wire, off[j + 1], T) /\ Len(buffer') = Len(buffer) - p
  <2> DEFINE c == off[j]
             lb == Len(buffer)
             la == Len(arrived)
             lw == Len(wire)
  <2>1. /\ buffer \in Seq(Symbol) /\ arrived \in Seq(Symbol) /\ wire \in Seq(Symbol)
        /\ c \in Nat /\ c + lb + la + lw = Len(T)
        /\ At(buffer, c, T) /\ At(arrived, c + lb, T) /\ At(wire, c + lb + la, T)
    BY <1>5 DEF Held
  <2>2. lb \in Nat /\ la \in Nat /\ lw \in Nat
    BY <2>1
  <2>3. Movable(<<>>, buffer, c, T, p)
    <3>1. p \in 0 .. lb /\ <<>> \in Seq(Symbol) /\ Len(<<>>) = 0 /\ c + 0 = c
      BY <1>8, <2>1, <2>2
    <3>2. At(<<>>, c, T)
      BY DEF At
    <3> QED BY <2>1, <3>1, <3>2 DEF Movable
  <2> HIDE DEF p
  <2>4. HasMoved(<<>>, buffer, c, T, p)
    BY <2>3, Moved
  <2>5. /\ buffer' \in Seq(Symbol) /\ Len(buffer') = lb - p /\ At(buffer', c + 0 + p, T)
    BY <1>3, <2>4 DEF HasMoved
  <2> HIDE DEF lb, la, lw, c
  <2>6. /\ c + 0 + p = c + p /\ (c + p) + (lb - p) = c + lb /\ c + p \in Nat
        /\ (c + p) + (lb - p) + la = c + lb + la /\ (c + p) + (lb - p) + la + lw = c + lb + la + lw
    <3>1. p \in Nat /\ c \in Nat
      BY <1>8, <2>1
    <3> QED BY <2>2, <3>1
  <2>7. /\ At(buffer', c + p, T) /\ At(arrived, (c + p) + Len(buffer'), T)
        /\ At(wire, (c + p) + Len(buffer') + la, T)
        /\ (c + p) + Len(buffer') + la + lw = Len(T)
    BY <2>1, <2>5, <2>6
  <2>8. off[j + 1] = c + p
    BY <1>8 DEF c
  <2> QED BY <2>1, <2>5, <2>6, <2>7, <2>8 DEF Held, lb, la, lw
<1>13. FramesTaken(off, j + 1)'
  <2>1. \A i \in 1 .. j + 1 : Fits(sent[i])
    BY <1>2, <1>9, <1>10 DEF FramesTaken
  <2> QED BY <1>3, <1>4, <1>11, <1>12, <2>1, SameKept DEF FramesTaken, Fits
<1>14. Len(buffer') <= MaxFrame
  <2>1. Len(buffer) \in Nat /\ Len(buffer) <= MaxFrame /\ MaxFrame \in Nat
    BY <1>5 DEF Held, CodecInv, CodecAssumption, MaxFrame
  <2> DEFINE lb == Len(buffer)
  <2>2. p \in Nat /\ lb \in Nat /\ lb <= MaxFrame /\ Len(buffer') = lb - p
    BY <1>8, <1>12, <2>1
  <2> HIDE DEF p, lb
  <2> QED BY <2>1, <2>2
<1> QED BY <1>1, <1>3, <1>4, <1>9, <1>13, <1>14 DEF CodecInv

LEMMA ReadsOnKeeps == ASSUME CodecAssumption, CodecInv, ReadsOn PROVE CodecInv'
<1>1. PICK off : IsFramed(off, sent) /\ \E j \in 0 .. Len(sent) : FramesTaken(off, j)
  BY DEF CodecInv
<1>2. PICK j \in 0 .. Len(sent) : FramesTaken(off, j)
  BY <1>1
<1> DEFINE T == Encoded(sent)
           c == off[j]
           n == Least(ReadCapacity, Len(arrived))
<1>3. /\ reading /\ ~HasNewline /\ ~OversizedFrame
      /\ sent' = sent /\ wire' = wire /\ taken' = taken /\ broken' = broken
  BY DEF ReadsOn
<1>4. ~broken /\ sent \in Stream
  BY <1>3 DEF CodecInv
<1>5. Held(buffer, arrived, wire, c, T)
  BY <1>2, <1>4 DEF FramesTaken
<1>6. /\ Len(buffer) \in Nat /\ Len(arrived) \in Nat /\ Len(buffer) <= MaxMessage
      /\ Len(buffer) < MaxFrame /\ MaxFrame \in Nat /\ ReadCapacity > 0
  <2>1. Len(buffer) \in Nat /\ Len(arrived) \in Nat
    BY <1>5 DEF Held
  <2>2. ~(Len(buffer) > MaxMessage) /\ MaxMessage \in Nat
    BY <1>3 DEF OversizedFrame, CodecAssumption
  <2> QED BY <2>1, <2>2 DEF MaxFrame, ReadCapacity
<1>7. CASE arrived # <<>>
  <2>1. /\ buffer' = buffer \o SubSeq(arrived, 1, n)
        /\ arrived' = SubSeq(arrived, n + 1, Len(arrived)) /\ reading' = reading
    BY <1>6, <1>7 DEF ReadsOn, Read
  <2>2. n \in 0 .. Len(arrived) /\ Len(buffer) + n <= MaxFrame
    BY <1>6 DEF Least, ReadCapacity
  <2> HIDE DEF n, c, T
  <2>3. /\ Held(buffer \o SubSeq(arrived, 1, n), SubSeq(arrived, n + 1, Len(arrived)), wire, c, T)
        /\ Len(buffer \o SubSeq(arrived, 1, n)) = Len(buffer) + n
    BY <1>5, <2>2, ReadHeld
  <2>4. Held(buffer', arrived', wire', c, T) /\ Len(buffer') <= MaxFrame
    BY <1>3, <2>1, <2>2, <2>3
  <2>5. FramesTaken(off, j)'
    BY <1>2, <1>3, <1>4, <2>4, SameKept DEF FramesTaken, Fits, T, c
  <2> QED BY <1>1, <1>3, <1>4, <2>1, <2>4, <2>5 DEF CodecInv
<1>8. CASE arrived = <<>>
  <2>1. reading' = FALSE /\ buffer' = buffer /\ arrived' = arrived
    BY <1>8 DEF ReadsOn
  <2>2. FramesTaken(off, j)'
    BY <1>2, <1>3, <1>4, <2>1, SameKept DEF FramesTaken, Fits
  <2> QED BY <1>1, <1>3, <1>4, <1>8, <2>1, <2>2 DEF CodecInv
<1> QED BY <1>7, <1>8

LEMMA GivesUpKeeps == ASSUME CodecAssumption, CodecInv, GivesUp PROVE CodecInv'
<1>1. PICK off : IsFramed(off, sent) /\ \E j \in 0 .. Len(sent) : FramesTaken(off, j)
  BY DEF CodecInv
<1>2. PICK j \in 0 .. Len(sent) : FramesTaken(off, j)
  BY <1>1
<1>3. /\ reading /\ OversizedFrame /\ broken' = TRUE /\ reading' = FALSE
      /\ buffer' = <<>> /\ arrived' = <<>> /\ sent' = sent /\ wire' = wire /\ taken' = taken
  BY DEF GivesUp
<1>4. ~broken /\ sent \in Stream /\ Len(sent) \in Nat /\ MaxMessage \in Nat
  BY <1>3 DEF CodecInv, CodecAssumption
<1>5. Held(buffer, arrived, wire, off[j], Encoded(sent))
  BY <1>2, <1>4 DEF FramesTaken
<1>6. Len(buffer) \in Nat
  BY <1>5 DEF Held
<1>7. buffer # <<>>
  <2>1. CASE HasNewline
    BY <2>1 DEF HasNewline
  <2>2. CASE ~HasNewline
    <3>1. Len(buffer) > MaxMessage
      BY <1>3, <2>2 DEF OversizedFrame
    <3> QED BY <1>4, <3>1
  <2> QED BY <2>1, <2>2
<1>8. j < Len(sent)
  BY <1>1, <1>4, <1>5, <1>7, NextFrame
<1> DEFINE l == Len(sent[j + 1])
<1>9. /\ l + 1 \in Nat /\ (HasNewline <=> l + 1 <= Len(buffer))
      /\ HasNewline => NewlineAt = l + 1
  BY <1>1, <1>4, <1>5, <1>8, NextFrame
<1>10. l \in Nat
  <2>1. j + 1 \in 1 .. Len(sent)
    BY <1>4, <1>8
  <2>2. sent[j + 1] \in Seq(Byte)
    BY <1>4, <2>1 DEF CodecAssumption
  <2> QED BY <2>2
<1> HIDE DEF l
<1>11. l > MaxMessage
  <2>1. CASE HasNewline
    BY <1>3, <1>4, <1>9, <1>10, <2>1 DEF OversizedFrame
  <2>2. CASE ~HasNewline
    <3>1. Len(buffer) > MaxMessage
      BY <1>3, <2>2 DEF OversizedFrame
    <3> QED BY <1>4, <1>6, <1>9, <1>10, <2>2, <3>1
  <2> QED BY <2>1, <2>2
<1>12. ~Fits(sent[j + 1])
  BY <1>4, <1>10, <1>11 DEF Fits, l
<1>13. FramesTaken(off, j)'
  BY <1>2, <1>3, <1>8, <1>12, SameKept DEF FramesTaken, Fits
<1>14. Len(buffer') <= MaxFrame
  BY <1>3, <1>4 DEF MaxFrame
<1> QED BY <1>1, <1>3, <1>4, <1>13, <1>14 DEF CodecInv

LEMMA NextCodec == ASSUME CodecAssumption PROVE CodecInv /\ [CodecNext]_codecVars => CodecInv'
<1> SUFFICES ASSUME CodecInv, [CodecNext]_codecVars PROVE CodecInv'
  OBVIOUS
<1>1. ASSUME NEW k \in 1 .. Len(wire), NEW reader \in {"server", "client", "idleClient"},
             Arrives(k, reader)
      PROVE  CodecInv'
  BY <1>1, ArrivesKeeps
<1>2. CASE TakesFrame
  BY <1>2, TakesFrameKeeps
<1>3. CASE ReadsOn
  BY <1>3, ReadsOnKeeps
<1>4. CASE GivesUp
  BY <1>4, GivesUpKeeps
<1>5. CASE UNCHANGED codecVars
  <2>1. /\ sent' = sent /\ wire' = wire /\ arrived' = arrived /\ buffer' = buffer
        /\ reading' = reading /\ taken' = taken /\ broken' = broken
    BY <1>5 DEF codecVars
  <2>2. Kept' = Kept
    BY <2>1, SameKept
  <2> QED BY <2>1, <2>2 DEF CodecInv, FramesTaken, Fits, HasNewline
<1> QED BY <1>1, <1>2, <1>3, <1>4, <1>5 DEF CodecNext

LEMMA CodecReads == ASSUME CodecAssumption, CodecInv PROVE FramesAreRead
<1>1. PICK off : IsFramed(off, sent) /\ \E j \in 0 .. Len(sent) : FramesTaken(off, j)
  BY DEF CodecInv
<1>2. PICK j \in 0 .. Len(sent) : FramesTaken(off, j)
  BY <1>1
<1> DEFINE N == Len(sent)
           tooLong == {i \in DOMAIN sent : ~Fits(sent[i])}
           last == IF tooLong = {} THEN N ELSE First(tooLong) - 1
<1>3. /\ sent \in Stream /\ N \in Nat /\ DOMAIN sent = 1 .. N
      /\ taken = Kept[j] /\ \A i \in 1 .. j : Fits(sent[i])
      /\ ~broken => Held(buffer, arrived, wire, off[j], Encoded(sent))
      /\ broken => j < N /\ ~Fits(sent[j + 1])
  BY <1>2 DEF CodecInv, CodecAssumption, FramesTaken
<1>4. Readable = Kept[last]
  BY DEF Readable
<1> HIDE DEF N
<1>5. /\ tooLong \in SUBSET (Nat \ {0}) /\ \A i \in tooLong : i \in 1 .. N /\ ~Fits(sent[i])
      /\ \A i \in 1 .. N : ~Fits(sent[i]) => i \in tooLong
  BY <1>3
<1> HIDE DEF tooLong
<1>6. tooLong # {} => First(tooLong) \in tooLong /\ \A i \in tooLong : First(tooLong) <= i
  BY <1>5, FirstIsLeast
<1> DEFINE q == First(tooLong)
<1>7. /\ last \in 0 .. N /\ j \in 0 .. last
      /\ j < N /\ ~Fits(sent[j + 1]) => last = j
      /\ j = N => last = N /\ tooLong = {}
  <2>1. j \in 0 .. N
    BY DEF N
  <2>2. CASE tooLong = {}
    <3>1. j < N => j + 1 \in 1 .. N
      BY <1>3, <2>1
    <3> QED BY <1>3, <1>5, <2>1, <2>2, <3>1
  <2>3. CASE tooLong # {}
    <3>1. q \in 1 .. N /\ ~Fits(sent[q]) /\ \A i \in tooLong : q <= i
      BY <1>5, <1>6, <2>3
    <3>2. last = q - 1
      BY <2>3
    <3> HIDE DEF q, last
    <3>3. q \notin 1 .. j
      BY <1>3, <3>1
    <3>4. last \in 0 .. N /\ j \in 0 .. last /\ j # N
      BY <1>3, <2>1, <3>1, <3>2, <3>3
    <3>5. j < N /\ ~Fits(sent[j + 1]) => q <= j + 1
      <4>1. j < N => j + 1 \in 1 .. N
        BY <1>3, <2>1
      <4> QED BY <1>5, <3>1, <4>1, SMTT(60)
    <3> QED BY <1>3, <2>1, <3>1, <3>2, <3>4, <3>5
  <2> QED BY <2>2, <2>3
<1> HIDE DEF last, q
<1>8. IsPrefix(taken, Readable)
  BY <1>3, <1>4, <1>7, KeptGrows DEF N
<1>9. ASSUME broken
      PROVE  taken = Readable /\ \E i \in DOMAIN sent : ~Fits(sent[i])
  <2>1. j < N /\ ~Fits(sent[j + 1]) /\ j + 1 \in DOMAIN sent
    <3>1. j \in 0 .. N
      BY DEF N
    <3> QED BY <1>3, <1>9, <3>1
  <2> QED BY <1>3, <1>4, <1>7, <2>1
<1>10. HasNewline \/ reading \/ arrived = <<>> \/ Len(buffer) = MaxFrame
  BY DEF CodecInv
<1>11. ASSUME wire = <<>>, ~reading, ~broken, ~HasNewline, Len(buffer) < MaxFrame
       PROVE  taken = Readable /\ \A i \in DOMAIN sent : Fits(sent[i])
  <2>1. Held(buffer, arrived, wire, off[j], Encoded(sent))
    BY <1>3, <1>11
  <2>2. arrived = <<>>
    <3>1. Len(buffer) \in Nat /\ MaxFrame \in Nat
      BY <2>1 DEF Held, CodecAssumption, MaxFrame
    <3> QED BY <1>10, <1>11, <3>1
  <2>3. ~(j < N)
    <3> SUFFICES ASSUME j < N PROVE FALSE
      OBVIOUS
    <3> DEFINE p == Len(sent[j + 1]) + 1
               c == off[j]
               lb == Len(buffer)
    <3>1. /\ p \in Nat /\ c + p = off[j + 1] /\ ~(p <= lb)
          /\ off[j + 1] <= Len(Encoded(sent))
      BY <1>1, <1>3, <1>11, <2>1, NextFrame DEF N
    <3>2. c + lb + 0 + 0 = Len(Encoded(sent)) /\ c \in Nat /\ lb \in Nat
      BY <1>11, <2>1, <2>2 DEF Held
    <3> HIDE DEF p, c, lb
    <3> QED BY <3>1, <3>2
  <2>4. j = N
    <3>1. j \in 0 .. N
      BY DEF N
    <3> QED BY <1>3, <2>3, <3>1
  <2> QED BY <1>3, <1>4, <1>7, <2>4
<1> QED BY <1>8, <1>9, <1>10, <1>11 DEF FramesAreRead

(* For every message limit, every stream of payloads and every way its     *)
(* bytes arrive, exactly the frames sent are read, in order, up to the     *)
(* first that is too long (daemonFrameReadCapacity, takeNextDaemonFrame    *)
(* and the two readyRead handlers that call them).                         *)
THEOREM ExactlyTheFrames == ASSUME CodecAssumption PROVE CodecSpec => []FramesAreRead
<1>1. CodecInit => CodecInv
  BY InitCodec
<1>2. CodecInv /\ [CodecNext]_codecVars => CodecInv'
  BY NextCodec
<1>3. CodecInv => FramesAreRead
  BY CodecReads
<1> QED BY <1>1, <1>2, <1>3, PTL DEF CodecSpec

-----------------------------------------------------------------------------
(* Profiles.                                                               *)

ZoneLists == [Device -> Seq(DeviceZone)]
Entry == [device : Device, zone : StoredZone]
TargetStep ==
  [kind : {"target"}, device : Device, zone : Nat \ {0}, name : ZoneName, leds : Nat,
   effect : Effect]
Outcome == {"written", "metadataOnly", "nothing"}

ProfilesTypeOK ==
  /\ present \in SUBSET Device /\ zones \in ZoneLists
  /\ files \in [ProfileName -> Profile \cup {NoProfile}] /\ outside \in SUBSET Profile

(* ends[i - 1] + k is the place of the k-th zone of the i-th device.       *)
IsListed(p, ends) ==
  /\ Entries(p) \in Seq(Entry) /\ ends \in [0 .. Len(p.devices) -> Nat]
  /\ \A i \in 1 .. Len(p.devices) : \A k \in 1 .. Len(p.devices[i].zones) :
       /\ ends[i - 1] + k \in 1 .. Len(Entries(p))
       /\ Entries(p)[ends[i - 1] + k] =
            [device |-> p.devices[i].id, zone |-> p.devices[i].zones[k]]
  /\ \A e \in 1 .. Len(Entries(p)) :
       \E i \in 1 .. Len(p.devices) : \E k \in 1 .. Len(p.devices[i].zones) : e = ends[i - 1] + k

LEMMA EntriesListed ==
  ASSUME NEW p \in Profile
  PROVE  \E ends : IsListed(p, ends)
<1> DEFINE n == Len(p.devices)
           parts == [i \in DOMAIN p.devices |->
                       LET stored == p.devices[i]
                       IN  [k \in DOMAIN stored.zones |->
                              [device |-> stored.id, zone |-> stored.zones[k]]]]
           es == Entries(p)
<1>2. /\ n \in Nat /\ DOMAIN p.devices = 1 .. n
      /\ \A i \in 1 .. n : p.devices[i] \in [id : Device, zones : Seq(StoredZone)]
  <2> DEFINE D == p.devices
             X == [id : Device, zones : Seq(StoredZone)]
  <2>1. D \in Seq(X)
    BY DEF Profile
  <2> HIDE DEF D, X
  <2>2. Len(D) \in Nat /\ DOMAIN D = 1 .. Len(D) /\ \A i \in 1 .. Len(D) : D[i] \in X
    BY <2>1
  <2> QED BY <2>2 DEF D, X
<1> HIDE DEF n
<1>3. ASSUME NEW i \in 1 .. n
      PROVE  /\ parts[i] \in Seq(Entry) /\ Len(parts[i]) = Len(p.devices[i].zones)
             /\ \A k \in 1 .. Len(p.devices[i].zones) :
                  parts[i][k] = [device |-> p.devices[i].id, zone |-> p.devices[i].zones[k]]
  <2> DEFINE z == p.devices[i].zones
             d == p.devices[i].id
             l == [k \in DOMAIN z |-> [device |-> d, zone |-> z[k]]]
  <2>1. z \in Seq(StoredZone) /\ d \in Device
    BY <1>2
  <2>2. parts[i] = l
    BY <1>2
  <2> HIDE DEF z, d
  <2>3. Len(z) \in Nat /\ DOMAIN z = 1 .. Len(z) /\ \A k \in 1 .. Len(z) : z[k] \in StoredZone
    BY <2>1
  <2>4. l \in [1 .. Len(z) -> Entry]
    BY <2>1, <2>3 DEF Entry
  <2>5. l \in Seq(Entry) /\ Len(l) = Len(z)
    BY <2>3, <2>4
  <2>6. \A k \in 1 .. Len(z) : l[k] = [device |-> d, zone |-> z[k]]
    BY <2>3
  <2> HIDE DEF l
  <2> QED BY <2>2, <2>5, <2>6 DEF z, d
<1>4. parts \in Seq(Seq(Entry)) /\ Len(parts) = n
  <2>1. DOMAIN parts = 1 .. n
    BY <1>2
  <2>2. parts \in [1 .. n -> Seq(Entry)]
    BY <1>2, <1>3, <2>1
  <2> HIDE DEF parts
  <2> QED BY <1>2, <2>2
<1>5. es = FlattenSeq(parts)
  BY DEF Entries
<1> HIDE DEF parts, es
<1>6. PICK ends : IsFlattened(es, parts, Entry, ends)
  BY <1>4, <1>5, Flattened
<1>7. /\ es \in Seq(Entry) /\ ends \in [0 .. n -> Nat]
      /\ \A i \in 1 .. n : \A k \in 1 .. Len(parts[i]) :
           ends[i - 1] + k \in 1 .. Len(es) /\ es[ends[i - 1] + k] = parts[i][k]
      /\ \A e \in 1 .. Len(es) : \E i \in 1 .. n : e - ends[i - 1] \in 1 .. Len(parts[i])
  BY <1>4, <1>6 DEF IsFlattened
<1>8. ASSUME NEW e \in 1 .. Len(es)
      PROVE  \E i \in 1 .. n : \E k \in 1 .. Len(p.devices[i].zones) : e = ends[i - 1] + k
  <2>1. PICK i \in 1 .. n : e - ends[i - 1] \in 1 .. Len(parts[i])
    BY <1>7
  <2>2. ends[i - 1] \in Nat /\ Len(parts[i]) = Len(p.devices[i].zones)
    <3>1. i - 1 \in 0 .. n
      BY <1>2
    <3> QED BY <1>3, <1>7, <3>1
  <2> DEFINE k == e - ends[i - 1]
             b == ends[i - 1]
  <2>3. k \in 1 .. Len(p.devices[i].zones) /\ e = b + k
    <3>1. k \in 1 .. Len(p.devices[i].zones)
      BY <2>1, <2>2
    <3>2. b \in Nat /\ e \in Int /\ k = e - b
      BY <2>2
    <3> HIDE DEF k, b
    <3> QED BY <3>1, <3>2
  <2> QED BY <2>3
<1>9. ASSUME NEW i \in 1 .. n, NEW k \in 1 .. Len(p.devices[i].zones)
      PROVE  /\ ends[i - 1] + k \in 1 .. Len(es)
             /\ es[ends[i - 1] + k] = [device |-> p.devices[i].id, zone |-> p.devices[i].zones[k]]
  BY <1>3, <1>7, ZenonT(60)
<1>10. IsListed(p, ends)
  BY <1>7, <1>8, <1>9 DEF IsListed, n, es
<1> QED BY <1>10

LEMMA PlanIs ==
  ASSUME NEW p \in Profile
  PROVE  /\ Entries(p) \in Seq(Entry) /\ Len(Entries(p)) \in Nat
         /\ DOMAIN Plan(p) = 1 .. Len(Entries(p)) /\ Len(Plan(p)) = Len(Entries(p))
         /\ DOMAIN ProfileCompatibility(p) = 1 .. Len(Entries(p))
         /\ \A e \in 1 .. Len(Entries(p)) :
              /\ Entries(p)[e].device \in Device /\ Entries(p)[e].zone \in StoredZone
              /\ Plan(p)[e] = Step(Entries(p)[e].device, Entries(p)[e].zone)
              /\ ProfileCompatibility(p)[e] =
                   PreviewItem(Entries(p)[e].device, Entries(p)[e].zone)
<1> DEFINE es == Entries(p)
<1>1. es \in Seq(Entry)
  BY EntriesListed DEF IsListed
<1>2. Plan(p) = [k \in DOMAIN es |-> Step(es[k].device, es[k].zone)]
  BY DEF Plan
<1>3. ProfileCompatibility(p) = [k \in DOMAIN es |-> PreviewItem(es[k].device, es[k].zone)]
  BY DEF ProfileCompatibility
<1> HIDE DEF es
<1>4. Len(es) \in Nat /\ DOMAIN es = 1 .. Len(es) /\ \A e \in 1 .. Len(es) : es[e] \in Entry
  BY <1>1
<1>5. /\ DOMAIN Plan(p) = 1 .. Len(es) /\ DOMAIN ProfileCompatibility(p) = 1 .. Len(es)
  BY <1>2, <1>3, <1>4
<1>6. Len(Plan(p)) = Len(es)
  <2>1. Plan(p) \in Seq({Step(es[k].device, es[k].zone) : k \in DOMAIN es})
    BY <1>2, <1>4
  <2> QED BY <1>4, <1>5, <2>1
<1>7. ASSUME NEW e \in 1 .. Len(es)
      PROVE  /\ es[e].device \in Device /\ es[e].zone \in StoredZone
             /\ Plan(p)[e] = Step(es[e].device, es[e].zone)
             /\ ProfileCompatibility(p)[e] = PreviewItem(es[e].device, es[e].zone)
  BY <1>2, <1>3, <1>4 DEF Entry
<1> QED BY <1>1, <1>4, <1>5, <1>6, <1>7 DEF es

LEMMA MatchedIs ==
  ASSUME zones \in ZoneLists, NEW d \in Device, NEW z \in StoredZone
  PROVE  /\ MatchedZone(d, z) = 0 \/ MatchedZone(d, z) \in DOMAIN zones[d]
         /\ MatchesByName(d, z) # {} => MatchedZone(d, z) \in MatchesByName(d, z)
         /\ MatchesByName(d, z) = {} =>
              MatchedZone(d, z) = IF z.index \in DOMAIN zones[d] THEN z.index ELSE 0
<1> DEFINE M == MatchesByName(d, z)
<1>1. /\ DOMAIN zones[d] \subseteq Nat \ {0}
      /\ M \subseteq DOMAIN zones[d] /\ M \subseteq Nat
  <2>1. zones[d] \in Seq(DeviceZone)
    BY DEF ZoneLists
  <2>2. DOMAIN zones[d] \subseteq Nat \ {0}
    BY <2>1
  <2> QED BY <2>2 DEF MatchesByName
<1>2. MatchedZone(d, z) = IF M = {} /\ z.index \in DOMAIN zones[d] THEN z.index ELSE First(M)
  BY DEF MatchedZone
<1> HIDE DEF M
<1>3. M # {} => First(M) \in M
  BY <1>1, FirstIsLeast
<1>4. M = {} => First(M) = 0
  BY DEF First
<1> QED BY <1>1, <1>2, <1>3, <1>4 DEF M

IsTarget(d, z) ==
  /\ d \in present /\ z.effect \notin {Unknown, Broken} /\ MatchedZone(d, z) # 0
  /\ <<d, MatchedZone(d, z), z.effect>> \in Supports

LEMMA StepIs ==
  ASSUME NEW d, NEW z
  PROVE  /\ Step(d, z).kind = "target" <=> IsTarget(d, z)
         /\ IsTarget(d, z) => Step(d, z) = Target(d, z)
BY Zenon DEF Step, IsTarget, Target

LEMMA TargetOK ==
  ASSUME ProfilesAssumption, zones \in ZoneLists, NEW d \in Device, NEW z \in StoredZone,
         IsTarget(d, z)
  PROVE  Target(d, z) \in TargetStep /\ MatchedZone(d, z) \in DOMAIN zones[d]
<1>1. MatchedZone(d, z) \in DOMAIN zones[d]
  BY MatchedIs DEF IsTarget
<1>2. MatchedZone(d, z) \in Nat \ {0}
  <2>1. zones[d] \in Seq(DeviceZone)
    BY DEF ZoneLists
  <2> QED BY <1>1, <2>1
<1>3. z.name \in ZoneName /\ z.leds \in Nat /\ z.effect \in Effect
  BY DEF StoredZone, IsTarget
<1>4. Plain[d][z.effect] \in Effect
  BY <1>3 DEF ProfilesAssumption
<1> QED BY <1>1, <1>2, <1>3, <1>4 DEF Target, TargetStep

(* The plan's steps are targets of zones that exist.                       *)
LEMMA TargetsAre ==
  ASSUME ProfilesAssumption, zones \in ZoneLists, NEW p \in Profile
  PROVE  /\ Targets(p) \subseteq 1 .. Len(Plan(p))
         /\ \A k \in 1 .. Len(Plan(p)) :
              /\ k \in Targets(p) <=> IsTarget(Entries(p)[k].device, Entries(p)[k].zone)
              /\ k \in Targets(p) =>
                   /\ Plan(p)[k] = Target(Entries(p)[k].device, Entries(p)[k].zone)
                   /\ Plan(p)[k] \in TargetStep
<1> SUFFICES ASSUME NEW k \in 1 .. Len(Plan(p))
             PROVE  /\ k \in Targets(p) <=> IsTarget(Entries(p)[k].device, Entries(p)[k].zone)
                    /\ k \in Targets(p) =>
                         /\ Plan(p)[k] = Target(Entries(p)[k].device, Entries(p)[k].zone)
                         /\ Plan(p)[k] \in TargetStep
  <2>1. DOMAIN Plan(p) = 1 .. Len(Plan(p))
    BY PlanIs
  <2> QED BY <2>1 DEF Targets
<1> DEFINE d == Entries(p)[k].device
           z == Entries(p)[k].zone
<1>1. /\ d \in Device /\ z \in StoredZone /\ Plan(p)[k] = Step(d, z) /\ k \in DOMAIN Plan(p)
  BY PlanIs
<1>2. k \in Targets(p) <=> Plan(p)[k].kind = "target"
  BY <1>1 DEF Targets
<1> HIDE DEF d, z
<1>3. k \in Targets(p) <=> IsTarget(d, z)
  BY <1>1, <1>2, StepIs
<1>4. ASSUME k \in Targets(p) PROVE Plan(p)[k] = Target(d, z) /\ Plan(p)[k] \in TargetStep
  BY <1>1, <1>3, <1>4, StepIs, TargetOK
<1> QED BY <1>3, <1>4 DEF d, z

LEMMA WriteIs ==
  ASSUME NEW zs \in ZoneLists, NEW t \in TargetStep, NEW r \in Outcome
  PROVE  /\ Write(zs, t, r) \in ZoneLists
         /\ \A d \in Device : DOMAIN Write(zs, t, r)[d] = DOMAIN zs[d]
         /\ \A d \in Device : \A i \in DOMAIN zs[d] :
              Write(zs, t, r)[d][i] =
                IF d = t.device /\ i = t.zone /\ r # "nothing"
                THEN [name |-> t.name, leds |-> t.leds,
                      effect |-> IF r = "written" THEN t.effect ELSE zs[d][i].effect]
                ELSE zs[d][i]
<1>1. CASE r = "nothing"
  BY <1>1 DEF Write
<1>2. CASE r # "nothing"
  <2> DEFINE c == t.device
             j == t.zone
             rec(v) == [name |-> t.name, leds |-> t.leds,
                        effect |-> IF r = "written" THEN t.effect ELSE v.effect]
             s == zs[c]
             s2 == [s EXCEPT ![j] = rec(s[j])]
  <2>1. /\ c \in Device /\ j \in Nat \ {0} /\ t.name \in ZoneName /\ t.leds \in Nat
        /\ t.effect \in Effect
    BY DEF TargetStep
  <2>2. Write(zs, t, r) = [zs EXCEPT ![c] = s2]
    BY <1>2 DEF Write
  <2>3. ASSUME NEW v \in DeviceZone PROVE rec(v) \in DeviceZone
    BY <2>1 DEF DeviceZone
  <2>4. s \in Seq(DeviceZone)
    BY <2>1 DEF ZoneLists
  <2>5. s2 \in Seq(DeviceZone) /\ DOMAIN s2 = DOMAIN s
    <3> HIDE DEF s, rec
    <3>1. DOMAIN s = 1 .. Len(s) /\ Len(s) \in Nat /\ \A i \in 1 .. Len(s) : s[i] \in DeviceZone
      BY <2>4
    <3>2. s2 \in [1 .. Len(s) -> DeviceZone]
      <4> SUFFICES ASSUME NEW i \in 1 .. Len(s) PROVE s2[i] \in DeviceZone
        BY <3>1
      <4>1. CASE i = j
        BY <2>3, <3>1, <4>1
      <4>2. CASE i # j
        BY <3>1, <4>2
      <4> QED BY <4>1, <4>2
    <3> QED BY <3>1, <3>2
  <2>6. \A i \in DOMAIN s : s2[i] = IF i = j THEN rec(s[i]) ELSE s[i]
    OBVIOUS
  <2> HIDE DEF s2, rec
  <2>7. Write(zs, t, r) \in ZoneLists
    BY <2>1, <2>2, <2>5 DEF ZoneLists
  <2>8. \A d \in Device : Write(zs, t, r)[d] = IF d = c THEN s2 ELSE zs[d]
    BY <2>1, <2>2 DEF ZoneLists
  <2>9. \A d \in Device : DOMAIN Write(zs, t, r)[d] = DOMAIN zs[d]
    BY <2>5, <2>8
  <2>10. ASSUME NEW d \in Device, NEW i \in DOMAIN zs[d]
         PROVE  Write(zs, t, r)[d][i] = IF d = c /\ i = j THEN rec(zs[d][i]) ELSE zs[d][i]
    BY <2>6, <2>8
  <2> QED BY <1>2, <2>7, <2>9, <2>10 DEF rec
<1> QED BY <1>1, <1>2

(* after[k] is what the zones are after k steps of the plan.               *)
IsApplied(p, result, after) ==
  /\ after \in [0 .. Len(Plan(p)) -> ZoneLists]
  /\ after[0] = zones /\ Applied(p, result) = after[Len(Plan(p))]
  /\ \A k \in 1 .. Len(Plan(p)) :
       after[k] = IF k \in Targets(p) THEN Write(after[k - 1], Plan(p)[k], result[k])
                  ELSE after[k - 1]

LEMMA AppliedIs ==
  ASSUME ProfilesAssumption, zones \in ZoneLists, NEW p \in Profile,
         NEW result \in [Targets(p) -> Outcome]
  PROVE  \E after : IsApplied(p, result, after)
<1> DEFINE N == Len(Plan(p))
           X == ZoneLists
           Then(k, zs) == IF k \in Targets(p) THEN Write(zs, Plan(p)[k], result[k]) ELSE zs
           step == [k \in 1 .. N |-> [zs \in X |-> Then(k, zs)]]
           IsRun(g) == g = [k \in 0 .. N |->
                              IF k = 0 THEN zones
                              ELSE IF k \in Targets(p)
                                   THEN Write(g[k - 1], Plan(p)[k], result[k])
                              ELSE g[k - 1]]
           run == CHOOSE g : IsRun(g)
<1>1. Applied(p, result) = run[N]
  BY DEF Applied
<1>2. N \in Nat
  BY PlanIs
<1>3. \A k \in 1 .. N : k \in Targets(p) => Plan(p)[k] \in TargetStep
  BY TargetsAre
<1> HIDE DEF N
<1>4. step \in [1 .. N -> [X -> X]]
  <2>1. ASSUME NEW k \in 1 .. N, NEW zs \in X PROVE Then(k, zs) \in X
    BY <1>3, WriteIs
  <2> HIDE DEF Then
  <2> QED BY <2>1
<1>5. PICK f : IsIteration(f, N, X, zones, step)
  <2> HIDE DEF step, X
  <2>1. zones \in X
    BY DEF X
  <2> QED BY <1>2, <1>4, <2>1, IterationExists
<1>6. /\ f \in [0 .. N -> X] /\ f[0] = zones
      /\ \A k \in 1 .. N : f[k] = Then(k, f[k - 1])
  <2>1. f \in [0 .. N -> X] /\ f[0] = zones /\ \A k \in 1 .. N : f[k] = step[k][f[k - 1]]
    BY <1>5 DEF IsIteration
  <2>2. ASSUME NEW k \in 1 .. N PROVE step[k][f[k - 1]] = Then(k, f[k - 1])
    <3>1. k - 1 \in 0 .. N
      BY <1>2
    <3>2. f[k - 1] \in X
      BY <2>1, <3>1
    <3> HIDE DEF Then, X
    <3> QED BY <3>2
  <2> QED BY <2>1, <2>2
<1>7. IsRun(f)
  <2> SUFFICES ASSUME NEW k \in 0 .. N
               PROVE  f[k] = IF k = 0 THEN zones
                             ELSE IF k \in Targets(p)
                                  THEN Write(f[k - 1], Plan(p)[k], result[k])
                             ELSE f[k - 1]
    BY <1>6
  <2>1. k = 0 \/ k \in 1 .. N
    BY <1>2
  <2> QED BY <1>6, <2>1
<1> HIDE DEF IsRun
<1>8. IsRun(run)
  BY <1>7
<1> HIDE DEF run
<1>9. run = [k \in 0 .. N |-> IF k = 0 THEN zones
                              ELSE IF k \in Targets(p)
                                   THEN Write(run[k - 1], Plan(p)[k], result[k])
                              ELSE run[k - 1]]
  BY <1>8 DEF IsRun
<1>10. \A k \in 0 .. N : run[k] \in X
  <2> DEFINE S == {k \in 0 .. N : run[k] \in X}
  <2>1. 0 \in S
    BY <1>2, <1>9
  <2>2. ASSUME NEW m \in 0 .. N, m \in S, m < N PROVE m + 1 \in S
    <3>1. m + 1 \in 0 .. N /\ m + 1 \in 1 .. N /\ (m + 1) - 1 = m /\ m + 1 # 0
      BY <1>2, <2>2
    <3>2. run[m + 1] = Then(m + 1, run[m])
      BY <1>9, <3>1
    <3>3. run[m] \in X
      BY <2>2
    <3>4. Then(m + 1, run[m]) \in X
      BY <1>3, <3>1, <3>3, WriteIs
    <3> QED BY <3>1, <3>2, <3>4
  <2> HIDE DEF S
  <2>3. \A k \in 0 .. N : k \in S
    BY <1>2, <2>1, <2>2, UpTo
  <2> QED BY <2>3 DEF S
<1>11. run \in [0 .. N -> X] /\ run[0] = zones
  BY <1>2, <1>9, <1>10
<1>12. ASSUME NEW k \in 1 .. N
       PROVE  run[k] = IF k \in Targets(p) THEN Write(run[k - 1], Plan(p)[k], result[k])
                       ELSE run[k - 1]
  <2>1. k \in 0 .. N /\ k # 0
    BY <1>2
  <2> QED BY <1>9, <2>1
<1>13. IsApplied(p, result, run)
  BY <1>1, <1>11, <1>12 DEF IsApplied, N
<1> QED BY <1>13

-----------------------------------------------------------------------------
LEMMA SnapshotOK ==
  ASSUME ProfilesAssumption, ProfilesTypeOK, NEW n \in ProfileName, NEW order \in SetToSeqs(present)
  PROVE  Snapshot(n, order) \in Profile
<1> DEFINE N == Cardinality(present)
           zonesOf(d) == [k \in DOMAIN zones[d] |->
                            [index |-> k, name |-> zones[d][k].name, leds |-> zones[d][k].leds,
                             effect |-> zones[d][k].effect]]
           list == [i \in DOMAIN order |-> [id |-> order[i], zones |-> zonesOf(order[i])]]
           X == [id : Device, zones : Seq(StoredZone)]
<1>1. N \in Nat
  BY FS_Subset, FS_CardinalityType DEF ProfilesAssumption, ProfilesTypeOK
<1>2. order \in [1 .. N -> present]
  BY Zenon DEF SetToSeqs
<1>3. ASSUME NEW d \in Device PROVE zonesOf(d) \in Seq(StoredZone)
  <2> DEFINE s == zones[d]
  <2>1. s \in Seq(DeviceZone)
    BY DEF ProfilesTypeOK, ZoneLists
  <2> HIDE DEF s
  <2>2. Len(s) \in Nat /\ DOMAIN s = 1 .. Len(s) /\ \A k \in 1 .. Len(s) : s[k] \in DeviceZone
    BY <2>1
  <2> DEFINE l == [k \in DOMAIN s |-> [index |-> k, name |-> s[k].name, leds |-> s[k].leds,
                                       effect |-> s[k].effect]]
  <2>3. ASSUME NEW k \in 1 .. Len(s)
        PROVE  [index |-> k, name |-> s[k].name, leds |-> s[k].leds, effect |-> s[k].effect]
                 \in StoredZone
    <3>1. s[k] \in DeviceZone /\ k \in Int
      BY <2>2
    <3> QED BY <3>1 DEF DeviceZone, StoredZone
  <2>4. l \in [1 .. Len(s) -> StoredZone]
    BY <2>2, <2>3
  <2>5. l \in Seq(StoredZone)
    BY <2>2, <2>4
  <2> QED BY <2>5 DEF s
<1>4. ASSUME NEW i \in 1 .. N PROVE [id |-> order[i], zones |-> zonesOf(order[i])] \in X
  <2>1. order[i] \in Device
    BY <1>2 DEF ProfilesTypeOK
  <2> HIDE DEF zonesOf
  <2> QED BY <1>3, <2>1
<1> HIDE DEF zonesOf, X
<1>5. list \in [1 .. N -> X]
  BY <1>2, <1>4
<1>6. list \in Seq(X)
  BY <1>1, <1>5
<1>7. Snapshot(n, order) = [name |-> n, devices |-> list]
  BY DEF Snapshot, zonesOf
<1> QED BY <1>6, <1>7 DEF Profile, X

LEMMA InitProfiles == ASSUME ProfilesAssumption, ProfilesInit PROVE ProfilesTypeOK
BY DEF ProfilesAssumption, ProfilesInit, ProfilesTypeOK, ZoneLists

LEMMA NextProfiles ==
  ASSUME ProfilesAssumption, ProfilesTypeOK, [ProfilesNext]_profileVars PROVE ProfilesTypeOK'
<1> USE DEF ProfilesTypeOK
<1>1. ASSUME NEW r \in DOMAIN Normalize, SaveProfile(r) PROVE ProfilesTypeOK'
  <2> DEFINE n == Normalize[r]
  <2>1. n \in ProfileName
    BY DEF ProfilesAssumption
  <2>2. PICK order \in SetToSeqs(present) : files' = [files EXCEPT ![n] = Snapshot(n, order)]
    BY <1>1 DEF SaveProfile
  <2>3. Snapshot(n, order) \in Profile
    BY <2>1, SnapshotOK
  <2>4. files' \in [ProfileName -> Profile \cup {NoProfile}]
    BY <2>2, <2>3
  <2> QED BY <1>1, <2>4 DEF SaveProfile
<1>2. ASSUME NEW n \in ProfileName, ApplyProfile(n) PROVE ProfilesTypeOK'
  <2>1. files[n] \in Profile
    BY <1>2 DEF ApplyProfile
  <2>2. PICK result \in [Targets(files[n]) -> Outcome] : zones' = Applied(files[n], result)
    BY <1>2 DEF ApplyProfile, Outcome
  <2>3. PICK after : IsApplied(files[n], result, after)
    BY <2>1, <2>2, AppliedIs
  <2>4. Len(Plan(files[n])) \in Nat
    BY <2>1, PlanIs
  <2>5. zones' \in ZoneLists
    BY <2>2, <2>3, <2>4 DEF IsApplied
  <2> QED BY <1>2, <2>5 DEF ApplyProfile
<1>3. ASSUME NEW n \in ProfileName, DeleteProfile(n) PROVE ProfilesTypeOK'
  BY <1>3 DEF DeleteProfile, StoreOperation
<1>4. ASSUME NEW n \in ProfileName, ExportProfile(n) PROVE ProfilesTypeOK'
  BY <1>4 DEF ExportProfile, StoreOperation
<1>5. ASSUME NEW n \in ProfileName, NEW r \in DOMAIN Normalize, RenameProfile(n, r)
      PROVE  ProfilesTypeOK'
  BY <1>5 DEF RenameProfile, StoreOperation
<1>6. ASSUME NEW p \in outside, ImportProfile(p) PROVE ProfilesTypeOK'
  BY <1>6 DEF ImportProfile, StoreOperation
<1>7. ASSUME Restart PROVE ProfilesTypeOK'
  <2>1. PICK copied \in SUBSET ProfileName :
          files' = [n \in ProfileName |-> IF n \in copied THEN Legacy[n] ELSE files[n]]
    BY <1>7 DEF Restart
  <2>2. files' \in [ProfileName -> Profile \cup {NoProfile}]
    BY <2>1 DEF ProfilesAssumption
  <2> QED BY <1>7, <2>2 DEF Restart
<1>8. ASSUME DevicesChange PROVE ProfilesTypeOK'
  BY <1>8 DEF DevicesChange
<1>9. ASSUME NEW d \in Device, NEW z \in DOMAIN zones[d], NEW name \in ZoneName,
             UpdateZone(d, z, name)
      PROVE  ProfilesTypeOK'
  <2> DEFINE s == zones[d]
  <2>1. zones' = [zones EXCEPT ![d] = [s EXCEPT ![z] = [s[z] EXCEPT !.name = name]]]
    BY <1>9 DEF UpdateZone
  <2>2. s \in Seq(DeviceZone) /\ z \in DOMAIN s
    BY DEF ZoneLists
  <2> HIDE DEF s
  <2>3. [s EXCEPT ![z] = [s[z] EXCEPT !.name = name]] \in Seq(DeviceZone)
    <3> DEFINE now == s[z]
    <3>1. now \in DeviceZone
      BY <2>2
    <3> HIDE DEF now
    <3>2. [now EXCEPT !.name = name] \in DeviceZone
      BY <3>1 DEF DeviceZone
    <3> QED BY <2>2, <3>2 DEF now
  <2>4. zones' \in ZoneLists
    BY <2>1, <2>3 DEF ZoneLists
  <2> QED BY <1>9, <2>4 DEF UpdateZone, UserEdit
<1>10. ASSUME NEW d \in Device, NEW z \in DOMAIN zones[d], NEW e \in Effect,
              ApplyOneEffect(d, z, e)
       PROVE  ProfilesTypeOK'
  <2> DEFINE s == zones[d]
  <2>1. zones' = [zones EXCEPT ![d] = [s EXCEPT ![z] = [s[z] EXCEPT !.effect = e]]]
    BY <1>10 DEF ApplyOneEffect
  <2>2. s \in Seq(DeviceZone) /\ z \in DOMAIN s
    BY DEF ZoneLists
  <2> HIDE DEF s
  <2>3. [s EXCEPT ![z] = [s[z] EXCEPT !.effect = e]] \in Seq(DeviceZone)
    <3> DEFINE now == s[z]
    <3>1. now \in DeviceZone
      BY <2>2
    <3> HIDE DEF now
    <3>2. [now EXCEPT !.effect = e] \in DeviceZone
      BY <3>1 DEF DeviceZone
    <3> QED BY <2>2, <3>2 DEF now
  <2>4. zones' \in ZoneLists
    BY <2>1, <2>3 DEF ZoneLists
  <2> QED BY <1>10, <2>4 DEF ApplyOneEffect, UserEdit
<1>11. ASSUME UNCHANGED profileVars PROVE ProfilesTypeOK'
  BY <1>11 DEF profileVars
<1> QED BY <1>1, <1>2, <1>3, <1>4, <1>5, <1>6, <1>7, <1>8, <1>9, <1>10, <1>11 DEF ProfilesNext

(* Whatever is saved, imported, migrated and applied, the files hold       *)
(* profiles and the devices zones (DeviceManager, ProfileStore).           *)
THEOREM ProfilesTypeCorrect == ASSUME ProfilesAssumption PROVE ProfilesSpec => []ProfilesTypeOK
<1>1. ProfilesInit => ProfilesTypeOK
  BY InitProfiles
<1>2. ProfilesTypeOK /\ [ProfilesNext]_profileVars => ProfilesTypeOK'
  BY NextProfiles
<1> QED BY <1>1, <1>2, PTL DEF ProfilesSpec

-----------------------------------------------------------------------------
LEMMA PreviewOfStep ==
  ASSUME NEW d, NEW z
  PROVE  /\ Step(d, z).kind = "target" <=> PreviewItem(d, z) \in {"changed", "unchanged"}
         /\ Step(d, z).kind = "target" /\ PreviewItem(d, z) = "unchanged" =>
              /\ Step(d, z) = Target(d, z)
              /\ zones[d][MatchedZone(d, z)].effect = Plain[d][z.effect]
              /\ zones[d][MatchedZone(d, z)].leds = z.leds
<1>1. PreviewItem(d, z) \in {"changed", "unchanged"} <=> IsTarget(d, z)
  BY DEF PreviewItem, IsTarget
<1>2. PreviewItem(d, z) = "unchanged" =>
        /\ zones[d][MatchedZone(d, z)].effect = Plain[d][z.effect]
        /\ zones[d][MatchedZone(d, z)].leds = z.leds
  BY DEF PreviewItem
<1> QED BY <1>1, <1>2, StepIs

(* For any devices, effects and profiles, saved here or elsewhere, the     *)
(* preview and the plan agree zone by zone (profileCompatibility and       *)
(* buildProfileApplyPlan).                                                 *)
THEOREM PreviewIsThePlan == ASSUME ProfilesAssumption PROVE ProfilesSpec => []PreviewAgrees
<1>1. ProfilesTypeOK => PreviewAgrees
  <2> SUFFICES ASSUME ProfilesTypeOK, NEW n \in Stored
               PROVE  LET items == ProfileCompatibility(files[n])
                          plan  == Plan(files[n])
                      IN  /\ \A i \in DOMAIN plan :
                               plan[i].kind = "target" <=> items[i] \in {"changed", "unchanged"}
                          /\ \A i \in DOMAIN plan :
                               plan[i].kind = "target" /\ items[i] = "unchanged" =>
                                 LET t == plan[i]
                                 IN  /\ zones[t.device][t.zone].effect = t.effect
                                     /\ zones[t.device][t.zone].leds = t.leds
    BY DEF PreviewAgrees
  <2> DEFINE p == files[n]
  <2>1. p \in Profile
    BY DEF Stored, ProfilesTypeOK
  <2> HIDE DEF p
  <2>2. DOMAIN Plan(p) = 1 .. Len(Entries(p))
    BY <2>1, PlanIs
  <2>3. ASSUME NEW i \in 1 .. Len(Entries(p))
        PROVE  /\ Plan(p)[i].kind = "target"
                    <=> ProfileCompatibility(p)[i] \in {"changed", "unchanged"}
               /\ Plan(p)[i].kind = "target" /\ ProfileCompatibility(p)[i] = "unchanged" =>
                    /\ zones[Plan(p)[i].device][Plan(p)[i].zone].effect = Plan(p)[i].effect
                    /\ zones[Plan(p)[i].device][Plan(p)[i].zone].leds = Plan(p)[i].leds
    <3> DEFINE d == Entries(p)[i].device
               z == Entries(p)[i].zone
    <3>1. Plan(p)[i] = Step(d, z) /\ ProfileCompatibility(p)[i] = PreviewItem(d, z)
      BY <2>1, PlanIs
    <3> HIDE DEF d, z
    <3>2. /\ Target(d, z).device = d /\ Target(d, z).zone = MatchedZone(d, z)
          /\ Target(d, z).effect = Plain[d][z.effect] /\ Target(d, z).leds = z.leds
      BY DEF Target
    <3>3. /\ Step(d, z).kind = "target" <=> PreviewItem(d, z) \in {"changed", "unchanged"}
          /\ Step(d, z).kind = "target" /\ PreviewItem(d, z) = "unchanged" =>
               /\ Step(d, z) = Target(d, z)
               /\ zones[d][MatchedZone(d, z)].effect = Plain[d][z.effect]
               /\ zones[d][MatchedZone(d, z)].leds = z.leds
      BY PreviewOfStep
    <3> QED BY <3>1, <3>2, <3>3
  <2> QED BY <2>2, <2>3 DEF p
<1> QED BY <1>1, ProfilesTypeCorrect, PTL

-----------------------------------------------------------------------------
(* Each step of a plan is skipped, written or failed.                      *)
LEMMA AllAccounted ==
  ASSUME NEW p \in Profile, NEW written \in SUBSET Targets(p)
  PROVE  TotalZones(p) = Cardinality(written) + Cardinality(Skips(p))
                           + Cardinality(Targets(p) \ written)
<1> DEFINE N == Len(Entries(p))
           T == Targets(p)
           K == Skips(p)
<1>1. N \in Nat /\ DOMAIN Plan(p) = 1 .. N
  BY PlanIs
<1>2. T \cup K = 1 .. N /\ T \cap K = {}
  BY <1>1 DEF Targets, Skips
<1>3. TotalZones(p) = N
  BY DEF TotalZones
<1> HIDE DEF N, T, K
<1>4. IsFiniteSet(1 .. N) /\ Cardinality(1 .. N) = N
  <2>1. 1 \in Int /\ N \in Int
    BY <1>1
  <2>2. Cardinality(1 .. N) = IF 1 > N THEN 0 ELSE N - 1 + 1
    BY <2>1, FS_Interval
  <2>3. IsFiniteSet(1 .. N)
    BY <2>1, FS_Interval
  <2> QED BY <1>1, <2>2, <2>3
<1> DEFINE W == written
           F == T \ written
           w == Cardinality(W)
           f == Cardinality(F)
           k == Cardinality(K)
<1>5. W \subseteq T /\ F \subseteq T /\ W \cup F = T /\ W \cap F = {}
  BY DEF T
<1> HIDE DEF W, F
<1>6. IsFiniteSet(T) /\ IsFiniteSet(K) /\ IsFiniteSet(W) /\ IsFiniteSet(F)
  <2>1. IsFiniteSet(T) /\ IsFiniteSet(K)
    BY <1>2, <1>4, FS_Subset
  <2> QED BY <1>5, <2>1, FS_Subset
<1>7. w \in Nat /\ f \in Nat /\ k \in Nat /\ Cardinality(T) \in Nat
  BY <1>6, FS_CardinalityType
<1>8. Cardinality(T) = w + f - Cardinality(W \cap F)
  BY <1>5, <1>6, FS_Union
<1>9. Cardinality(T \cup K) = Cardinality(T) + k - Cardinality(T \cap K)
  BY <1>6, FS_Union
<1>10. Cardinality({}) = 0
  BY FS_EmptySet
<1> DEFINE t == Cardinality(T)
<1>11. t = w + f - 0 /\ N = t + k - 0
  BY <1>2, <1>4, <1>5, <1>8, <1>9, <1>10
<1> HIDE DEF w, f, k, t
<1>12. N = w + k + f
  BY <1>1, <1>7, <1>11
<1> QED BY <1>3, <1>12 DEF w, k, f, W, F, T, K

(* No stored zone is left out of the report, and no file changes but at    *)
(* the operation that names it, for any profiles, names and failures       *)
(* (applyProfileWithReport and ProfileStore's operations).                 *)
THEOREM NothingIsLost == ASSUME ProfilesAssumption PROVE ProfilesSpec => NothingLost
<1>1. ASSUME ProfilesTypeOK, ProfilesNext PROVE NothingLostStep
  <2> USE DEF ProfilesTypeOK
  <2>1. ASSUME NEW r \in DOMAIN Normalize, SaveProfile(r) PROVE NothingLostStep
    <3> DEFINE m == Normalize[r]
    <3>1. report' = [op |-> "save", names |-> {m}]
      BY <1>1, <2>1 DEF SaveProfile
    <3>2. PICK v : files' = [files EXCEPT ![m] = v]
      BY <1>1, <2>1 DEF SaveProfile
    <3> HIDE DEF m
    <3> QED BY <1>1, <3>1, <3>2 DEF NothingLostStep
  <2>2. ASSUME NEW m \in ProfileName, ApplyProfile(m) PROVE NothingLostStep
    <3>1. files[m] \in Profile /\ files' = files
      BY <1>1, <2>2 DEF ApplyProfile
    <3>2. PICK result \in [Targets(files[m]) -> {"written", "metadataOnly", "nothing"}] :
            LET written == {k \in Targets(files[m]) : result[k] = "written"}
            IN  report' = [op |-> "apply", names |-> {m}, total |-> TotalZones(files[m]),
                           applied |-> Cardinality(written),
                           skipped |-> Cardinality(Skips(files[m])),
                           failed |-> Cardinality(Targets(files[m]) \ written)]
      BY <2>2 DEF ApplyProfile
    <3> DEFINE written == {k \in Targets(files[m]) : result[k] = "written"}
    <3>3. /\ report'.total = TotalZones(files[m]) /\ report'.applied = Cardinality(written)
          /\ report'.skipped = Cardinality(Skips(files[m]))
          /\ report'.failed = Cardinality(Targets(files[m]) \ written)
      BY <3>2
    <3>4. written \in SUBSET Targets(files[m])
      OBVIOUS
    <3> HIDE DEF written
    <3>5. report'.total = report'.applied + report'.skipped + report'.failed
      BY <3>1, <3>3, <3>4, AllAccounted
    <3> QED BY <3>1, <3>5 DEF NothingLostStep
  <2>3. ASSUME NEW m \in ProfileName, DeleteProfile(m) PROVE NothingLostStep
    BY <1>1, <2>3 DEF DeleteProfile, StoreOperation, NothingLostStep
  <2>4. ASSUME NEW m \in ProfileName, ExportProfile(m) PROVE NothingLostStep
    BY <1>1, <2>4 DEF ExportProfile, StoreOperation, NothingLostStep
  <2>5. ASSUME NEW m \in ProfileName, NEW r \in DOMAIN Normalize, RenameProfile(m, r)
        PROVE  NothingLostStep
    BY <1>1, <2>5 DEF RenameProfile, StoreOperation, NothingLostStep
  <2>6. ASSUME NEW p \in outside, ImportProfile(p) PROVE NothingLostStep
    BY <1>1, <2>6 DEF ImportProfile, StoreOperation, NothingLostStep
  <2>7. ASSUME Restart PROVE NothingLostStep
    BY <1>1, <2>7 DEF Restart, NothingLostStep
  <2>8. ASSUME DevicesChange PROVE NothingLostStep
    BY <1>1, <2>8 DEF DevicesChange, NoReport, NothingLostStep
  <2>9. ASSUME UserEdit PROVE NothingLostStep
    BY <1>1, <2>9 DEF UserEdit, NoReport, NothingLostStep
  <2> QED
    BY <1>1, <2>1, <2>2, <2>3, <2>4, <2>5, <2>6, <2>7, <2>8, <2>9
    DEF ProfilesNext, UpdateZone, ApplyOneEffect
<1>2. ASSUME ProfilesTypeOK, [ProfilesNext]_profileVars PROVE [NothingLostStep]_profileVars
  BY <1>1, <1>2
<1> QED BY <1>2, ProfilesTypeCorrect, PTL DEF ProfilesSpec, NothingLost

-----------------------------------------------------------------------------
(* Where names tell the zones apart, the plan matches a zone to its place. *)
LEMMA PlaceIs ==
  ASSUME zones \in ZoneLists, NEW d \in Device, NEW z \in StoredZone,
         \A i, j \in DOMAIN zones[d] : i # j => zones[d][i].name # zones[d][j].name
  PROVE  /\ MatchedZone(d, z) # 0 <=> Place(d, z) \in DOMAIN zones[d]
         /\ MatchedZone(d, z) # 0 => MatchedZone(d, z) = Place(d, z)
<1> DEFINE M == MatchesByName(d, z)
           S == DOMAIN zones[d]
<1>1. M = {i \in S : zones[d][i].name = z.name}
  BY DEF MatchesByName
<1>2. Place(d, z) = IF M # {} THEN CHOOSE i \in M : TRUE ELSE z.index
  BY DEF Place, MatchesByName
<1>3. S \subseteq Nat \ {0}
  <2>1. zones[d] \in Seq(DeviceZone)
    BY DEF ZoneLists
  <2> QED BY <2>1
<1>4. \A i, j \in M : i = j
  BY <1>1
<1>5. /\ M # {} => MatchedZone(d, z) \in M
      /\ M = {} => MatchedZone(d, z) = IF z.index \in S THEN z.index ELSE 0
  BY MatchedIs
<1>6. M \subseteq S
  BY <1>1
<1> HIDE DEF M, S
<1>7. CASE M # {}
  <2>1. Place(d, z) \in M
    BY <1>2, <1>7
  <2> QED BY <1>3, <1>4, <1>5, <1>6, <1>7, <2>1 DEF S
<1>8. CASE M = {}
  BY <1>2, <1>3, <1>5, <1>8 DEF S
<1> QED BY <1>7, <1>8

AllWritten(p, result) ==
  result \in [Targets(p) -> Outcome] /\ \A k \in Targets(p) : result[k] = "written"

(* Step e of the plan, and no other, may target zone i of device d.        *)
TargetsOnly(p, e, d, i) ==
  /\ e \in 1 .. Len(Plan(p))
  /\ \A k \in Targets(p) : (Plan(p)[k].device = d /\ Plan(p)[k].zone = i) <=> k = e

(* If every write succeeds, a zone that one step of the plan targets is    *)
(* what that step makes it, and one that none targets is as it was.        *)
LEMMA WrittenOnce ==
  ASSUME ProfilesAssumption, zones \in ZoneLists, NEW p \in Profile,
         NEW result, AllWritten(p, result),
         NEW d \in Device, NEW i \in DOMAIN zones[d], NEW e, TargetsOnly(p, e, d, i)
  PROVE  Applied(p, result)[d][i] =
           IF e \in Targets(p)
           THEN [name |-> Plan(p)[e].name, leds |-> Plan(p)[e].leds, effect |-> Plan(p)[e].effect]
           ELSE zones[d][i]
<1> DEFINE N == Len(Plan(p))
           t == Plan(p)[e]
           rec == [name |-> t.name, leds |-> t.leds, effect |-> t.effect]
           old == zones[d][i]
<1>1. PICK after : IsApplied(p, result, after)
  BY AppliedIs DEF AllWritten
<1>2. N \in Nat /\ e \in 1 .. N
  BY PlanIs DEF TargetsOnly
<1>3. \A k \in 1 .. N : k \in Targets(p) => Plan(p)[k] \in TargetStep
  BY TargetsAre
<1>4. /\ after \in [0 .. N -> ZoneLists] /\ after[0] = zones /\ Applied(p, result) = after[N]
      /\ \A k \in 1 .. N :
           after[k] = IF k \in Targets(p) THEN Write(after[k - 1], Plan(p)[k], result[k])
                      ELSE after[k - 1]
  BY <1>1 DEF IsApplied
<1> HIDE DEF N
<1> DEFINE S == {k \in 0 .. N :
                   /\ DOMAIN after[k][d] = DOMAIN zones[d]
                   /\ after[k][d][i] = IF e \in Targets(p) /\ e <= k THEN rec ELSE old}
<1>5. 0 \in S
  BY <1>2, <1>4
<1>6. ASSUME NEW m \in 0 .. N, m \in S, m < N PROVE m + 1 \in S
  <2> DEFINE k == m + 1
             zs == after[m]
             s == Plan(p)[k]
  <2>1. k \in 0 .. N /\ k \in 1 .. N /\ k - 1 = m /\ (e <= k <=> e <= m \/ e = k) /\ ~(k <= m)
    BY <1>2, <1>6
  <2>2. /\ zs \in ZoneLists /\ DOMAIN zs[d] = DOMAIN zones[d]
        /\ zs[d][i] = IF e \in Targets(p) /\ e <= m THEN rec ELSE old
        /\ after[k] = IF k \in Targets(p) THEN Write(zs, s, result[k]) ELSE zs
    BY <1>4, <1>6, <2>1
  <2> HIDE DEF zs, k, rec, old
  <2>3. CASE k \notin Targets(p)
    <3>1. after[k] = zs /\ (e \in Targets(p) => e # k)
      BY <2>2, <2>3
    <3>2. after[k][d][i] = IF e \in Targets(p) /\ e <= k THEN rec ELSE old
      BY <2>1, <2>2, <3>1
    <3>3. k \in S
      BY <2>1, <2>2, <3>1, <3>2
    <3> QED BY <3>3 DEF k
  <2>4. CASE k \in Targets(p)
    <3>1. s \in TargetStep /\ result[k] = "written" /\ result[k] \in Outcome
      BY <1>3, <2>1, <2>4 DEF AllWritten
    <3>2. (s.device = d /\ s.zone = i) <=> k = e
      BY <2>4 DEF TargetsOnly
    <3>3. after[k] = Write(zs, s, result[k])
      BY <2>2, <2>4
    <3> HIDE DEF s
    <3>4. /\ DOMAIN after[k][d] = DOMAIN zs[d]
          /\ after[k][d][i] =
               IF d = s.device /\ i = s.zone /\ result[k] # "nothing"
               THEN [name |-> s.name, leds |-> s.leds,
                     effect |-> IF result[k] = "written" THEN s.effect ELSE zs[d][i].effect]
               ELSE zs[d][i]
      <4> DEFINE r == result[k]
      <4>1. r \in Outcome /\ after[k] = Write(zs, s, r)
        BY <3>1, <3>3
      <4> HIDE DEF r
      <4>2. /\ DOMAIN Write(zs, s, r)[d] = DOMAIN zs[d]
            /\ \A x \in DOMAIN zs[d] :
                 Write(zs, s, r)[d][x] =
                   IF d = s.device /\ x = s.zone /\ r # "nothing"
                   THEN [name |-> s.name, leds |-> s.leds,
                         effect |-> IF r = "written" THEN s.effect ELSE zs[d][x].effect]
                   ELSE zs[d][x]
        BY <2>2, <3>1, <4>1, WriteIs
      <4> QED BY <2>2, <4>1, <4>2 DEF r
    <3>5. after[k][d][i] =
            IF k = e THEN [name |-> s.name, leds |-> s.leds, effect |-> s.effect] ELSE zs[d][i]
      BY <3>1, <3>2, <3>4
    <3>6. k = e => [name |-> s.name, leds |-> s.leds, effect |-> s.effect] = rec
      BY DEF rec, s
    <3>7. after[k][d][i] = IF e \in Targets(p) /\ e <= k THEN rec ELSE old
      BY <2>1, <2>2, <2>4, <3>5, <3>6
    <3>8. k \in S
      BY <2>1, <2>2, <3>4, <3>7
    <3> QED BY <3>8 DEF k
  <2> QED BY <2>3, <2>4
<1> HIDE DEF S
<1>7. \A k \in 0 .. N : k \in S
  BY <1>2, <1>5, <1>6, UpTo
<1>8. N \in S /\ e <= N
  BY <1>2, <1>7
<1> QED BY <1>4, <1>8 DEF S

(* The k-th zone the profile has of its i-th device can be restored.       *)
CanRestore(p, i, k) ==
  /\ i \in 1 .. Len(p.devices) /\ p.devices[i].id \in present /\ ListedOnce(p, i)
  /\ Recognisable(p.devices[i].id, p.devices[i].zones)
  /\ k \in DOMAIN p.devices[i].zones
  /\ Place(p.devices[i].id, p.devices[i].zones[k]) \in DOMAIN zones[p.devices[i].id]

RestoredIn(zs, p, i, k) ==
  LET d == p.devices[i].id
      z == p.devices[i].zones[k]
      j == Place(d, z)
  IN  zs[d][j] =
        IF <<d, j, z.effect>> \in Supports
        THEN [name |-> z.name, leds |-> z.leds, effect |-> Plain[d][z.effect]]
        ELSE zones[d][j]

LEMMA AppliedRestores ==
  ASSUME ProfilesAssumption, zones \in ZoneLists, NEW p \in Profile,
         NEW result, AllWritten(p, result), NEW i, NEW k, CanRestore(p, i, k)
  PROVE  RestoredIn(Applied(p, result), p, i, k)
<1> USE DEF CanRestore
<1> DEFINE d == p.devices[i].id
           stored == p.devices[i].zones
           z == stored[k]
           j == Place(d, z)
           es == Entries(p)
           N == Len(Plan(p))
<1>1. PICK ends : IsListed(p, ends)
  BY EntriesListed
<1>2. /\ d \in Device /\ stored \in Seq(StoredZone) /\ Len(p.devices) \in Nat
      /\ DOMAIN p.devices = 1 .. Len(p.devices)
      /\ \A x \in 1 .. Len(p.devices) : p.devices[x] \in [id : Device, zones : Seq(StoredZone)]
  <2> DEFINE D == p.devices
             X == [id : Device, zones : Seq(StoredZone)]
  <2>1. D \in Seq(X)
    BY DEF Profile
  <2> HIDE DEF D, X
  <2>2. Len(D) \in Nat /\ DOMAIN D = 1 .. Len(D) /\ \A x \in 1 .. Len(D) : D[x] \in X
    BY <2>1
  <2> QED BY <2>2 DEF D, X
<1>3. DOMAIN stored = 1 .. Len(stored) /\ k \in 1 .. Len(stored)
      /\ \A y \in 1 .. Len(stored) : stored[y] \in StoredZone
  <2> HIDE DEF stored
  <2>1. DOMAIN stored = 1 .. Len(stored) /\ \A y \in 1 .. Len(stored) : stored[y] \in StoredZone
    BY <1>2
  <2> QED BY <2>1 DEF stored
<1>4. N = Len(es)
  BY PlanIs
<1> DEFINE e == ends[i - 1] + k
<1>5. e \in 1 .. N /\ es[e] = [device |-> d, zone |-> z]
  BY <1>1, <1>3, <1>4 DEF IsListed
<1>6. ASSUME NEW y \in 1 .. Len(stored)
      PROVE  /\ MatchedZone(d, stored[y]) # 0 <=> Place(d, stored[y]) \in DOMAIN zones[d]
             /\ MatchedZone(d, stored[y]) # 0 => MatchedZone(d, stored[y]) = Place(d, stored[y])
  BY <1>2, <1>3, PlaceIs DEF Recognisable
<1>7. MatchedZone(d, z) = j /\ MatchedZone(d, z) # 0
  BY <1>3, <1>6
<1>8. e \in Targets(p) <=> <<d, j, z.effect>> \in Supports
  <2>1. e \in Targets(p) <=> IsTarget(d, z)
    BY <1>5, TargetsAre
  <2>2. <<d, j, z.effect>> \in Supports => z.effect \in Effect
    BY DEF ProfilesAssumption
  <2>3. z.effect \in Effect => z.effect \notin {Unknown, Broken}
    BY DEF ProfilesAssumption
  <2> HIDE DEF d, z, j
  <2> QED BY <1>7, <2>1, <2>2, <2>3 DEF IsTarget, d
<1>9. e \in Targets(p) => Plan(p)[e] = Target(d, z)
  BY <1>5, TargetsAre
<1>10. ASSUME NEW x \in Targets(p), Plan(p)[x].device = d, Plan(p)[x].zone = j
       PROVE  x = e
  <2>1. x \in 1 .. N /\ Plan(p)[x] = Target(es[x].device, es[x].zone)
    BY TargetsAre
  <2>2. PICK i2 \in 1 .. Len(p.devices) : \E k2 \in 1 .. Len(p.devices[i2].zones) :
          x = ends[i2 - 1] + k2
    BY <1>1, <1>4, <2>1 DEF IsListed
  <2>3. PICK k2 \in 1 .. Len(p.devices[i2].zones) : x = ends[i2 - 1] + k2
    BY <2>2
  <2>4. es[x] = [device |-> p.devices[i2].id, zone |-> p.devices[i2].zones[k2]]
    BY <1>1, <2>3 DEF IsListed
  <2>5. p.devices[i2].id = d
    BY <1>10, <2>1, <2>4 DEF Target
  <2>6. i2 = i
    BY <1>2, <2>5 DEF ListedOnce
  <2>7. MatchedZone(d, stored[k2]) = j /\ k2 \in 1 .. Len(stored)
    BY <1>10, <2>1, <2>3, <2>4, <2>6 DEF Target
  <2>8. Place(d, stored[k2]) = Place(d, stored[k])
    BY <1>6, <1>7, <2>7
  <2>9. k2 = k
    BY <1>3, <2>7, <2>8 DEF Recognisable
  <2> QED BY <2>3, <2>6, <2>9
<1>11. e \in Targets(p) => Plan(p)[e].device = d /\ Plan(p)[e].zone = j
  BY <1>7, <1>9 DEF Target
<1>12. \A x \in Targets(p) : (Plan(p)[x].device = d /\ Plan(p)[x].zone = j) <=> x = e
  BY <1>10, <1>11
<1>13. j \in DOMAIN zones[d]
  OBVIOUS
<1> HIDE DEF d, j, z, e, N, es, stored
<1>14. Applied(p, result)[d][j] =
         IF e \in Targets(p)
         THEN [name |-> Plan(p)[e].name, leds |-> Plan(p)[e].leds, effect |-> Plan(p)[e].effect]
         ELSE zones[d][j]
  <2>1. TargetsOnly(p, e, d, j)
    BY <1>5, <1>12 DEF TargetsOnly, N
  <2> QED BY <1>2, <1>13, <2>1, WrittenOnce
<1>15. e \in Targets(p) =>
         [name |-> Plan(p)[e].name, leds |-> Plan(p)[e].leds, effect |-> Plan(p)[e].effect] =
           [name |-> z.name, leds |-> z.leds, effect |-> Plain[d][z.effect]]
  BY <1>9 DEF Target
<1>16. Applied(p, result)[d][j] =
         IF <<d, j, z.effect>> \in Supports
         THEN [name |-> z.name, leds |-> z.leds, effect |-> Plain[d][z.effect]]
         ELSE zones[d][j]
  BY <1>8, <1>14, <1>15
<1> QED BY <1>16 DEF d, j, z, stored, RestoredIn

(* For any devices, effects and profiles: a profile that is applied        *)
(* without a failure restores every zone that can be told apart, and       *)
(* leaves one whose effect cannot be shown (applyProfileWithReport).       *)
THEOREM ProfilesRestore == ASSUME ProfilesAssumption PROVE ProfilesSpec => Restores
<1>1. ASSUME ProfilesTypeOK, ProfilesNext, NEW n \in ProfileName,
             report'.op = "apply", report'.names = {n}, report'.failed = 0
      PROVE  /\ files[n] \in Profile
             /\ \E result : zones' = Applied(files[n], result) /\ AllWritten(files[n], result)
  <2>1. \E m \in ProfileName : ApplyProfile(m)
    <3>1. ~(\E r \in DOMAIN Normalize : SaveProfile(r))
      BY <1>1 DEF SaveProfile
    <3>2. ~(\E m \in ProfileName : DeleteProfile(m) \/ ExportProfile(m))
      BY <1>1 DEF DeleteProfile, ExportProfile, StoreOperation
    <3>3. ~(\E m \in ProfileName, r \in DOMAIN Normalize : RenameProfile(m, r))
      BY <1>1 DEF RenameProfile, StoreOperation
    <3>4. ~(\E p \in outside : ImportProfile(p)) /\ ~Restart
      BY <1>1 DEF ImportProfile, StoreOperation, Restart
    <3>5. ~UserEdit /\ ~DevicesChange
      BY <1>1 DEF UserEdit, DevicesChange, NoReport
    <3> QED BY <1>1, <3>1, <3>2, <3>3, <3>4, <3>5 DEF ProfilesNext, UpdateZone, ApplyOneEffect
  <2>2. PICK m \in ProfileName : ApplyProfile(m)
    BY <2>1
  <2>3. PICK result \in [Targets(files[m]) -> Outcome] :
          /\ zones' = Applied(files[m], result)
          /\ LET written == {k \in Targets(files[m]) : result[k] = "written"}
             IN  report' = [op |-> "apply", names |-> {m}, total |-> TotalZones(files[m]),
                            applied |-> Cardinality(written),
                            skipped |-> Cardinality(Skips(files[m])),
                            failed |-> Cardinality(Targets(files[m]) \ written)]
    BY <2>2 DEF ApplyProfile, Outcome
  <2> DEFINE T == Targets(files[m])
             written == {k \in T : result[k] = "written"}
  <2>4. report'.names = {m} /\ report'.failed = Cardinality(T \ written)
    BY <2>3
  <2>5. m = n
    BY <1>1, <2>4
  <2>6. files[m] \in Profile
    BY <1>1, <2>2 DEF ApplyProfile, ProfilesTypeOK
  <2>7. IsFiniteSet(T \ written)
    <3>1. Len(Plan(files[m])) \in Nat /\ DOMAIN Plan(files[m]) = 1 .. Len(Plan(files[m]))
      BY <2>6, PlanIs
    <3>2. IsFiniteSet(1 .. Len(Plan(files[m])))
      BY <3>1, FS_Interval
    <3>3. T \ written \subseteq 1 .. Len(Plan(files[m]))
      BY <3>1 DEF Targets
    <3> QED BY <3>2, <3>3, FS_Subset
  <2>8. T \ written = {}
    BY <1>1, <2>4, <2>7, FS_EmptySet
  <2>9. \A k \in T : result[k] = "written"
    BY <2>8
  <2> QED BY <2>3, <2>5, <2>6, <2>9 DEF AllWritten
<1>2. ASSUME ProfilesTypeOK, ProfilesNext PROVE RestoresStep
  <2> SUFFICES
        ASSUME NEW n \in ProfileName,
               report'.op = "apply", report'.names = {n}, report'.failed = 0,
               NEW i \in DOMAIN files[n].devices, files[n].devices[i].id \in present,
               ListedOnce(files[n], i),
               Recognisable(files[n].devices[i].id, files[n].devices[i].zones),
               NEW k \in DOMAIN files[n].devices[i].zones,
               Place(files[n].devices[i].id, files[n].devices[i].zones[k])
                 \in DOMAIN zones[files[n].devices[i].id]
        PROVE  RestoredIn(zones', files[n], i, k)
    BY DEF RestoresStep, RestoredIn
  <2>1. files[n] \in Profile
    BY <1>1, <1>2
  <2>2. PICK result : zones' = Applied(files[n], result) /\ AllWritten(files[n], result)
    BY <1>1, <1>2, SMTT(60)
  <2>3. i \in 1 .. Len(files[n].devices)
    <3> DEFINE D == files[n].devices
    <3>1. D \in Seq([id : Device, zones : Seq(StoredZone)])
      BY <2>1 DEF Profile
    <3> HIDE DEF D
    <3>2. DOMAIN D = 1 .. Len(D)
      BY <3>1
    <3> QED BY <3>2 DEF D
  <2>4. zones \in ZoneLists
    BY <1>2 DEF ProfilesTypeOK
  <2>5. CanRestore(files[n], i, k)
    BY <2>3 DEF CanRestore
  <2> QED BY <2>1, <2>2, <2>4, <2>5, AppliedRestores, SMTT(60)
<1>3. ASSUME ProfilesTypeOK, [ProfilesNext]_profileVars PROVE [RestoresStep]_profileVars
  BY <1>2, <1>3
<1> QED BY <1>3, ProfilesTypeCorrect, PTL DEF ProfilesSpec, Restores
=============================================================================
