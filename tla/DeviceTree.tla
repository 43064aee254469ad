------------------------------ MODULE DeviceTree ------------------------------
(***************************************************************************)
(* The device tree of the window and what is selected in it.               *)
(*                                                                         *)
(* DeviceTreeModel keeps a row per device that passes the filter and,      *)
(* under it, a row per zone it lists; the fixed motherboard zones keep     *)
(* their index but have no row.  A view reads a row when the model is      *)
(* reset and again when the model announces a change of that row: shown is *)
(* what it read last.  Main.qml keeps the selection by indices, which a    *)
(* new device list makes stale, and by identity, from which it is restored *)
(* once a list is complete.                                                *)
(***************************************************************************)
EXTENDS Indices, Sequences, SequencesExt

CONSTANTS
  Id,        \* device ids
  Hidden,    \* [Id -> Seq(BOOLEAN)]: which zones are motherboard zones
  Likely,    \* the devices discovery takes for RGB controllers
  Name,      \* zone names
  StartName, \* [Id -> Seq(Name)]
  Color,
  MaxTreeSteps \* bound on operations

(* What the constants are taken to be.                                      *)
DeviceTreeAssumption ==
  /\ IsFiniteSet(Id) /\ Likely \subseteq Id
  /\ Hidden \in [Id -> Seq(BOOLEAN)] /\ StartName \in [Id -> Seq(Name)]
  /\ \A d \in Id : Len(StartName[d]) = Len(Hidden[d])
  /\ Color # {}
  /\ MaxTreeSteps \in Nat

VARIABLES
  devices,    \* Seq([id, confirmed, controller, zones: Seq([name, color])])
  override,   \* [Id -> {"none", "yes", "no"}], saved in the settings
  filter,     \* "all" or "controllers"
  rows,       \* Seq([device, zones: Seq(zone index)])
  shown,      \* Seq([confirmed, zones: Seq([name, color])]), per row
  selected,   \* [device, zone, id, name, fallback]; index 0 is none
  daemonName, \* [Id -> Seq(Name)], the names the daemon keeps
  lists,      \* device lists so far
  treeSteps

tree == <<filter, rows, shown>>
treeVars == <<devices, override, tree, selected, daemonName, lists, treeSteps>>

NoId == "none"
NoSelection == [device |-> 0, zone |-> 0, id |-> NoId, name |-> NoId, fallback |-> 0]

-----------------------------------------------------------------------------
(* DeviceTreeModel. *)

(* isRgbController: the override, else what discovery found likely. *)
IsRgbController(d, choice) == IF choice = "none" THEN d \in Likely ELSE choice = "yes"

(* Of a device list under a filter. *)
IsDeviceVisible(list, f, i) == i \in DOMAIN list /\ (f = "controllers" => list[i].controller)

IsZoneVisible(list, f, i, z) ==
  IsDeviceVisible(list, f, i) /\ z \in DOMAIN list[i].zones /\ ~Hidden[list[i].id][z]

VisibleZones(list, f, i) == {z \in DOMAIN list[i].zones : IsZoneVisible(list, f, i, z)}

FirstVisibleZoneIndex(list, f, i) == First(VisibleZones(list, f, i))

Rows(list, f) ==
  LET visible == Ascending({i \in DOMAIN list : IsDeviceVisible(list, f, i)})
  IN  [r \in DOMAIN visible |->
         [device |-> visible[r], zones |-> Ascending(VisibleZones(list, f, visible[r]))]]

(* What a view reads of all rows. *)
ReadRows(list, rs) ==
  [r \in DOMAIN rs |->
     [confirmed |-> list[rs[r].device].confirmed,
      zones |-> [k \in DOMAIN rs[r].zones |-> list[rs[r].device].zones[rs[r].zones[k]]]]]

(* rebuild, within a reset of the model. *)
Rebuild ==
  /\ rows' = Rows(devices', filter')
  /\ shown' = ReadRows(devices', rows')

(* Mutant: the device index is taken for the row. *)
IndexForDeviceAsRow(i) == IF i \in DOMAIN rows THEN i ELSE 0
IndexForDevice(i) == First({r \in DOMAIN rows : rows[r].device = i})

(* indexForZone: the row <<device row, zone row>>, or none.  The zone index *)
(* is taken for the row under the device.  Of a device without a row the    *)
(* code takes the row of another device, which has nothing of a zone.       *)
IndexForZone(i, z) ==
  LET r == IndexForDevice(i)
  IN  IF r # 0 /\ z \in DOMAIN rows[r].zones THEN <<r, z>> ELSE <<>>

(* The announcements of changed zones and their device, of a streamed      *)
(* frame and of a device's badge; what is read is what the row stands for. *)
ZoneRead(at) == devices'[rows[at[1]].device].zones[rows[at[1]].zones[at[2]]]

NotifyZoneChanged(i, Z) ==
  LET r == IndexForDevice(i)
  IN  shown' = IF r = 0 \/ Z = {} THEN shown
               ELSE [shown EXCEPT ![r] =
                       [confirmed |-> devices'[rows[r].device].confirmed,
                        zones |-> [k \in DOMAIN @.zones |->
                                     IF k \in Z THEN ZoneRead(<<r, k>>) ELSE @.zones[k]]]]

NotifyZoneFrameUpdated(i, z) ==
  LET at == IndexForZone(i, z)
  IN  shown' = IF at = <<>> THEN shown
               ELSE [shown EXCEPT ![at[1]].zones[at[2]].color = ZoneRead(at).color]

RefreshDeviceBadges(i) ==
  LET r == IndexForDevice(i)
  IN  shown' = IF r = 0 \/ ~IsDeviceVisible(devices, filter, i) THEN shown
               ELSE [shown EXCEPT ![r].confirmed = devices'[rows[r].device].confirmed]

-----------------------------------------------------------------------------
(* Main.qml. *)

Selection(list, i, z) ==
  [device |-> i, zone |-> z, id |-> list[i].id,
   name |-> IF z # 0 THEN list[i].zones[z].name ELSE NoId, fallback |-> z]

SelectionOfDevice(list, f, i) == Selection(list, i, FirstVisibleZoneIndex(list, f, i))

(* onZoneDataChanged, for the zone the selection's indices point at. *)
Followed(list, i, z) ==
  IF selected.device = i /\ selected.zone = z THEN Selection(list, i, z) ELSE selected

SelectDevice(i) ==
  /\ selected' = SelectionOfDevice(devices, filter, i)
  /\ UNCHANGED <<devices, override, tree, daemonName, lists>>

SelectZone(i, z) ==
  /\ selected' = Selection(devices, i, z)
  /\ UNCHANGED <<devices, override, tree, daemonName, lists>>

(* A click on a row. *)
Click ==
  \E r \in DOMAIN rows :
    \/ SelectDevice(rows[r].device)
    \/ \E k \in DOMAIN rows[r].zones : SelectZone(rows[r].device, rows[r].zones[k])

(* validateSelectionForFilter. *)
Validated(list, f) ==
  LET i == First({k \in DOMAIN list : IsDeviceVisible(list, f, k)})
  IN  IF selected.device = 0 \/ IsDeviceVisible(list, f, selected.device) THEN selected
      ELSE IF i = 0 THEN NoSelection ELSE SelectionOfDevice(list, f, i)

(* Mutant: a restored zone need not be listed. *)
RestoredHidden(list, f) ==
  LET same  == First({i \in DOMAIN list : list[i].id = selected.id})
      i     == IF same # 0 THEN same ELSE 1
      named == First({z \in DOMAIN list[i].zones : list[i].zones[z].name = selected.name})
      z     == IF same = 0 THEN 0 ELSE IF named # 0 THEN named ELSE selected.fallback
  IN  IF list = <<>> THEN NoSelection
      ELSE Selection(list, i, IF z # 0 THEN z ELSE FirstVisibleZoneIndex(list, f, i))

(* restoreSelection: by device id and zone name, else by the zone's index; *)
(* a zone that is not listed gives way to the first one that is.           *)
Restored(list, f) ==
  LET same  == First({i \in DOMAIN list : list[i].id = selected.id})
      i     == IF same # 0 THEN same ELSE 1
      named == First({z \in DOMAIN list[i].zones : list[i].zones[z].name = selected.name})
      z     == IF same = 0 THEN 0 ELSE IF named # 0 THEN named ELSE selected.fallback
  IN  IF list = <<>> THEN NoSelection
      ELSE Selection(list, i, IF IsZoneVisible(list, f, i, z) THEN z
                              ELSE FirstVisibleZoneIndex(list, f, i))

-----------------------------------------------------------------------------
(* What changes the devices. *)

Listing(order) ==
  [k \in DOMAIN order |->
     [id |-> order[k], confirmed |-> FALSE,
      controller |-> IsRgbController(order[k], override[order[k]]),
      zones |-> [z \in DOMAIN Hidden[order[k]] |->
                   [name |-> daemonName[order[k]][z], color |-> CHOOSE c \in Color : TRUE]]]]

Orders == UNION {SetToSeqs(S) : S \in SUBSET Id}

(* The window opens on the first list: Component.onCompleted selects its   *)
(* first device.                                                           *)
TreeInit ==
  /\ daemonName = StartName
  /\ override \in [Id -> {"none"}] /\ filter = "all"
  /\ \E order \in Orders : devices = Listing(order)
  /\ rows = Rows(devices, filter) /\ shown = ReadRows(devices, rows)
  /\ selected = IF devices = <<>> THEN NoSelection ELSE SelectionOfDevice(devices, filter, 1)
  /\ lists = 0 /\ treeSteps = 0

(* replaceDevices with the daemon's list.  While the daemon discovers, the *)
(* list is empty and the selection is left as it is.                       *)
ReplaceDevices(order, complete) ==
  /\ lists' = lists + 1
  /\ complete \/ order = <<>>
  /\ devices' = Listing(order)
  /\ UNCHANGED <<override, filter, daemonName>>
  /\ Rebuild
  /\ selected' = IF complete THEN Restored(devices', filter') ELSE selected

SetDeviceFilter ==
  /\ filter' = IF filter = "all" THEN "controllers" ELSE "all"
  /\ UNCHANGED <<devices, override, daemonName, lists>>
  /\ Rebuild
  /\ selected' = Validated(devices', filter')

SetRgbControllerOverride(i, choice) ==
  /\ i \in DOMAIN devices
  /\ override' = [override EXCEPT ![devices[i].id] = choice]
  /\ devices' = [devices EXCEPT ![i].controller = IsRgbController(devices[i].id, choice)]
  /\ UNCHANGED <<filter, selected, daemonName, lists>>
  /\ Rebuild

(* An acknowledged change of a zone's name; in dry-run only the proxy's. *)
RenameZone(i, z, name, dryRun) ==
  /\ devices' = [devices EXCEPT ![i].zones[z].name = name]
  /\ daemonName' = IF dryRun THEN daemonName ELSE [daemonName EXCEPT ![devices[i].id][z] = name]
  /\ NotifyZoneChanged(i, {z})
  /\ selected' = Followed(devices', i, z)
  /\ UNCHANGED <<override, filter, rows, lists>>

ApplyEffect(i, z, color) ==
  /\ devices' = [devices EXCEPT ![i].zones[z].color = color]
  /\ NotifyZoneChanged(i, {z})
  /\ selected' = Followed(devices', i, z)
  /\ UNCHANGED <<override, filter, rows, daemonName, lists>>

AllOff(i, color) ==
  /\ devices' = [devices EXCEPT ![i].zones = [z \in DOMAIN @ |-> [@[z] EXCEPT !.color = color]]]
  /\ NotifyZoneChanged(i, DOMAIN devices[i].zones)
  /\ UNCHANGED <<override, filter, rows, selected, daemonName, lists>>

PaintZoneFrame(i, z, color) ==
  /\ devices' = [devices EXCEPT ![i].zones[z].color = color]
  /\ NotifyZoneFrameUpdated(i, z)
  /\ UNCHANGED <<override, filter, rows, selected, daemonName, lists>>

SetWriteConfirmed(i, confirmed) ==
  /\ devices' = [devices EXCEPT ![i].confirmed = confirmed]
  /\ RefreshDeviceBadges(i)
  /\ UNCHANGED <<override, filter, rows, selected, daemonName, lists>>

TreeNext ==
  /\ treeSteps < MaxTreeSteps /\ treeSteps' = treeSteps + 1
  /\ \/ Click
     \/ \E order \in Orders, complete \in BOOLEAN : ReplaceDevices(order, complete)
     \/ SetDeviceFilter
     \/ \E i \in DOMAIN devices :
          \/ \E choice \in {"none", "yes", "no"} : SetRgbControllerOverride(i, choice)
          \/ \E confirmed \in BOOLEAN : SetWriteConfirmed(i, confirmed)
          \/ \E color \in Color : AllOff(i, color)
          \/ \E z \in DOMAIN devices[i].zones :
               \/ \E name \in Name, dryRun \in BOOLEAN : RenameZone(i, z, name, dryRun)
               \/ \E color \in Color : ApplyEffect(i, z, color) \/ PaintZoneFrame(i, z, color)

TreeSpec == TreeInit /\ [][TreeNext]_treeVars

-----------------------------------------------------------------------------
(* Every row shows what its device and zone are now, if no hidden zone     *)
(* comes before a listed one on the device.                                *)
RowShows(r, k) == shown[r].zones[k] = devices[rows[r].device].zones[rows[r].zones[k]]

RowsAreCurrent ==
  \A r \in DOMAIN rows :
    /\ shown[r].confirmed = devices[rows[r].device].confirmed
    /\ \A k \in DOMAIN rows[r].zones : rows[r].zones[k] = k => RowShows(r, k)

ChangeReachesItsRow ==
  \A r \in DOMAIN rows : \A k \in DOMAIN rows[r].zones : RowShows(r, k)

(* The zone selected stays selected across device lists, the empty ones of *)
(* a running discovery and renames included, as long as it is listed and   *)
(* its name is known and its own; and what is selected has a row, unless   *)
(* the filter hides the device.                                            *)
SelectionFollowsStep ==
  lists' # lists /\ devices' # <<>> =>
    /\ selected'.device \in DOMAIN devices'
    /\ selected'.zone # 0 => IsZoneVisible(devices', filter', selected'.device, selected'.zone)
    /\ \A i \in DOMAIN devices' :
         LET zones == devices'[i].zones
         IN  /\ devices'[i].id = selected.id
             /\ selected.zone \in DOMAIN zones /\ IsZoneVisible(devices', filter', i, selected.zone)
             /\ zones[selected.zone].name = selected.name
             /\ \A z \in DOMAIN zones : zones[z].name = selected.name => z = selected.zone
             => selected'.device = i /\ selected'.zone = selected.zone

SelectionFollows == [][SelectionFollowsStep]_treeVars
=============================================================================
