------------------------------ MODULE Profiles ------------------------------
(***************************************************************************)
(* Profiles: what DeviceManager saves of the devices' zones, the plan by   *)
(* which a stored profile is applied to the devices of another day, the    *)
(* preview of that plan, and the files ProfileStore keeps them in.         *)
(*                                                                         *)
(* An effect is its type with its color, speed and brightness; Plain is    *)
(* the effect with the settings a zone cannot render at their defaults.    *)
(***************************************************************************)
EXTENDS Indices, Sequences, SequencesExt

CONSTANTS
  Device,
  Effect,
  Supports,     \* the <<device, zone, effect>> triples supportsZoneEffect accepts
  Plain,        \* [Device -> [Effect -> Effect]], normalizedProfileEffect
  ZoneName,
  StartZones,   \* the [Device -> Seq(zone)] the devices may start with
  ProfileName,
  Normalize,    \* [requested name -> ProfileName], ProfileStore::normalizeName
  Foreign,      \* profiles of other installations that can be imported
  Legacy,       \* [ProfileName -> profile or NoProfile], the old directory
  NoProfile,
  MaxProfileSteps \* bound on operations

(* A stored zone's effect may be of a type this build does not know, or    *)
(* unreadable.                                                             *)
Unknown == "unknown"
Broken  == "broken"

DeviceZone == [name : ZoneName, leds : Nat, effect : Effect]
StoredZone == [index : Int, name : ZoneName, leds : Nat, effect : Effect \cup {Unknown, Broken}]
Profile ==
  [name : ProfileName, devices : Seq([id : Device, zones : Seq(StoredZone)])]

(* What the constants are taken to be.                                      *)
ProfilesAssumption ==
  /\ IsFiniteSet(Device) /\ {Unknown, Broken} \cap Effect = {}
  /\ Supports \subseteq Device \X Nat \X Effect /\ Plain \in [Device -> [Effect -> Effect]]
  /\ StartZones \subseteq [Device -> Seq(DeviceZone)]
  /\ \A n \in DOMAIN Normalize : Normalize[n] \in ProfileName
  /\ Foreign \subseteq Profile /\ NoProfile \notin Profile
  /\ Legacy \in [ProfileName -> Profile \cup {NoProfile}]
  /\ MaxProfileSteps \in Nat

VARIABLES
  present,   \* devices of the current list
  zones,     \* [Device -> Seq([name, leds, effect])]
  files,     \* [ProfileName -> profile or NoProfile]
  migrated,  \* .legacy-profiles-migrated exists
  outside,   \* profiles exported to, or found in, other places
  report,    \* what the last operation did
  profileSteps

profileVars == <<present, zones, files, migrated, outside, report, profileSteps>>

NoReport == [op |-> "none"]

-----------------------------------------------------------------------------
MatchesByName(d, z) == {i \in DOMAIN zones[d] : zones[d][i].name = z.name}

(* Mutant: the stored index goes before the name. *)
MatchedByIndex(d, z) ==
  IF z.index \in DOMAIN zones[d] THEN z.index
  ELSE IF MatchesByName(d, z) # {} THEN CHOOSE i \in MatchesByName(d, z) : TRUE
  ELSE 0

(* matchedProfileZoneIndex: the first zone of that name, else the stored   *)
(* index, else none (0).                                                   *)
MatchedZone(d, z) ==
  IF MatchesByName(d, z) = {} /\ z.index \in DOMAIN zones[d] THEN z.index
  ELSE First(MatchesByName(d, z))

(* The zones of a profile, each with its device, in the order both loops   *)
(* below visit them.                                                       *)
Entries(profile) ==
  FlattenSeq([i \in DOMAIN profile.devices |->
    LET stored == profile.devices[i]
    IN  [k \in DOMAIN stored.zones |-> [device |-> stored.id, zone |-> stored.zones[k]]]])

TotalZones(profile) == Len(Entries(profile))

Target(d, z) ==
  [kind |-> "target", device |-> d, zone |-> MatchedZone(d, z), name |-> z.name,
   leds |-> z.leds, effect |-> Plain[d][z.effect]]

(* buildProfileApplyPlan, for one zone. *)
Step(d, z) ==
  IF d \notin present THEN [kind |-> "missingDevice"]
  ELSE IF z.effect \in {Unknown, Broken} THEN [kind |-> "invalid"]
  ELSE IF MatchedZone(d, z) = 0 THEN [kind |-> "missingZone"]
  ELSE IF <<d, MatchedZone(d, z), z.effect>> \notin Supports THEN [kind |-> "unsupported"]
  ELSE Target(d, z)

Plan(profile) ==
  LET entries == Entries(profile)
  IN  [k \in DOMAIN entries |-> Step(entries[k].device, entries[k].zone)]

Targets(profile) == {k \in DOMAIN Plan(profile) : Plan(profile)[k].kind = "target"}
Skips(profile)   == {k \in DOMAIN Plan(profile) : Plan(profile)[k].kind # "target"}

(* Mutant: the preview asks for the support of the stored index. *)
PreviewItemByIndex(d, z) ==
  IF d \notin present THEN "missing-device"
  ELSE IF MatchedZone(d, z) = 0 THEN "missing-zone"
  ELSE IF z.effect \in {Unknown, Broken} THEN "invalid"
  ELSE IF <<d, z.index, z.effect>> \notin Supports THEN "unsupported"
  ELSE "changed"

(* profileCompatibility, for one zone: its own order of the same checks. *)
PreviewItem(d, z) ==
  IF d \notin present THEN "missing-device"
  ELSE IF MatchedZone(d, z) = 0 THEN "missing-zone"
  ELSE IF z.effect = Unknown THEN "unsupported"
  ELSE IF z.effect = Broken THEN "invalid"
  ELSE IF <<d, MatchedZone(d, z), z.effect>> \notin Supports THEN "unsupported"
  ELSE LET now == zones[d][MatchedZone(d, z)]
       IN  IF now.effect # Plain[d][z.effect] \/ now.leds # z.leds THEN "changed"
           ELSE "unchanged"

ProfileCompatibility(profile) ==
  LET entries == Entries(profile)
  IN  [k \in DOMAIN entries |-> PreviewItem(entries[k].device, entries[k].zone)]

-----------------------------------------------------------------------------
ProfilesInit ==
  /\ present \in SUBSET Device
  /\ zones \in StartZones
  /\ files = [n \in ProfileName |-> NoProfile] /\ migrated = FALSE
  /\ outside = Foreign
  /\ report = NoReport /\ profileSteps = 0

Operation == profileSteps < MaxProfileSteps /\ profileSteps' = profileSteps + 1

(* What a profile holds of the current devices, in some order of the list. *)
Snapshot(n, order) ==
  [name |-> n,
   devices |-> [i \in DOMAIN order |->
     [id |-> order[i],
      zones |-> [k \in DOMAIN zones[order[i]] |->
        [index |-> k, name |-> zones[order[i]][k].name, leds |-> zones[order[i]][k].leds,
         effect |-> zones[order[i]][k].effect]]]]]

SaveProfile(requested) ==
  LET n == Normalize[requested]
  IN  /\ Operation
      /\ \E order \in SetToSeqs(present) : files' = [files EXCEPT ![n] = Snapshot(n, order)]
      /\ report' = [op |-> "save", names |-> {n}]
      /\ UNCHANGED <<present, zones, migrated, outside>>

(* One target: its metadata is stored, then its effect written. *)
Write(zs, t, result) ==
  IF result = "nothing" THEN zs
  ELSE [zs EXCEPT ![t.device][t.zone] =
          [name |-> t.name, leds |-> t.leds,
           effect |-> IF result = "written" THEN t.effect ELSE @.effect]]

(* The zones after the steps of the plan, where result says what the write *)
(* of each target did.                                                     *)
Applied(profile, result) ==
  LET plan == Plan(profile)
      after[k \in 0 .. Len(plan)] ==
        IF k = 0 THEN zones
        ELSE IF k \in Targets(profile) THEN Write(after[k - 1], plan[k], result[k])
        ELSE after[k - 1]
  IN  after[Len(plan)]

(* applyProfileWithReport: every step of the plan is tried. *)
ApplyProfile(n) ==
  /\ files[n] # NoProfile
  /\ Operation
  /\ \E result \in [Targets(files[n]) -> {"written", "metadataOnly", "nothing"}] :
       /\ zones' = Applied(files[n], result)
       /\ LET written == {k \in Targets(files[n]) : result[k] = "written"}
          IN  report' = [op |-> "apply", names |-> {n}, total |-> TotalZones(files[n]),
                         applied |-> Cardinality(written),
                         skipped |-> Cardinality(Skips(files[n])),
                         failed |-> Cardinality(Targets(files[n]) \ written)]
  /\ UNCHANGED <<present, files, migrated, outside>>

StoreOperation(names) ==
  /\ Operation
  /\ report' = [op |-> "store", names |-> names]
  /\ UNCHANGED <<present, zones, migrated>>

DeleteProfile(n) ==
  /\ files[n] # NoProfile
  /\ StoreOperation({n})
  /\ files' = [files EXCEPT ![n] = NoProfile]
  /\ UNCHANGED outside

(* The name inside the file stays the one it was saved under. *)
RenameProfile(old, requested) ==
  LET n == Normalize[requested]
  IN  /\ files[old] # NoProfile /\ n # old /\ files[n] = NoProfile
      /\ StoreOperation({old})
      /\ files' = [files EXCEPT ![n] = files[old], ![old] = NoProfile]
      /\ UNCHANGED outside

(* Mutant: an import overwrites a profile of its name. *)
ImportProfileOver(p) ==
  /\ StoreOperation({})
  /\ files' = [files EXCEPT ![p.name] = p]
  /\ UNCHANGED outside

ImportProfile(p) ==
  /\ files[p.name] = NoProfile
  /\ StoreOperation({})
  /\ files' = [files EXCEPT ![p.name] = p]
  /\ UNCHANGED outside

ExportProfile(n) ==
  /\ files[n] # NoProfile
  /\ StoreOperation({})
  /\ outside' = outside \cup {files[n]}
  /\ UNCHANGED files

(* migrateLegacyProfilesIfNeeded, at every start until each legacy file is *)
(* there: a copy may fail.                                                 *)
Restart ==
  LET legacy == {n \in ProfileName : Legacy[n] # NoProfile}
      needed == {n \in legacy : files[n] = NoProfile}
  IN  /\ legacy # {} /\ ~migrated
      /\ Operation
      /\ \E copied \in SUBSET needed :
           /\ files' = [n \in ProfileName |-> IF n \in copied THEN Legacy[n] ELSE files[n]]
           /\ migrated' = (copied = needed)
      /\ report' = [op |-> "store", names |-> {}]
      /\ UNCHANGED <<present, zones, outside>>

UserEdit ==
  /\ Operation
  /\ report' = NoReport
  /\ UNCHANGED <<present, files, migrated, outside>>

UpdateZone(d, z, name) ==
  /\ d \in present /\ z \in DOMAIN zones[d]
  /\ UserEdit
  /\ zones' = [zones EXCEPT ![d][z].name = name]

ApplyOneEffect(d, z, e) ==
  /\ d \in present /\ z \in DOMAIN zones[d] /\ <<d, z, e>> \in Supports
  /\ UserEdit
  /\ zones' = [zones EXCEPT ![d][z].effect = e]

DevicesChange ==
  /\ Operation
  /\ present' \in SUBSET Device
  /\ report' = NoReport
  /\ UNCHANGED <<zones, files, migrated, outside>>

ProfilesNext ==
  \/ \E r \in DOMAIN Normalize : SaveProfile(r)
  \/ \E n \in ProfileName : ApplyProfile(n) \/ DeleteProfile(n) \/ ExportProfile(n)
  \/ \E n \in ProfileName, r \in DOMAIN Normalize : RenameProfile(n, r)
  \/ \E p \in outside : ImportProfile(p)
  \/ Restart \/ DevicesChange
  \/ \E d \in Device : \E z \in DOMAIN zones[d] :
       \/ \E name \in ZoneName : UpdateZone(d, z, name)
       \/ \E e \in Effect : ApplyOneEffect(d, z, e)

ProfilesSpec == ProfilesInit /\ [][ProfilesNext]_profileVars

-----------------------------------------------------------------------------
Stored == {n \in ProfileName : files[n] # NoProfile}

(* The preview and the application of a profile agree, though each makes   *)
(* its checks in its own order: as many zones can be applied as the plan   *)
(* has targets, and those shown unchanged are left as they are.            *)
PreviewAgrees ==
  \A n \in Stored :
    LET items == ProfileCompatibility(files[n])
        plan  == Plan(files[n])
    IN  /\ \A i \in DOMAIN plan :
             plan[i].kind = "target" <=> items[i] \in {"changed", "unchanged"}
        /\ \A i \in DOMAIN plan :
             plan[i].kind = "target" /\ items[i] = "unchanged" =>
               LET t == plan[i]
               IN  /\ zones[t.device][t.zone].effect = t.effect
                   /\ zones[t.device][t.zone].leds = t.leds

(* Where a stored zone belongs: the zone that now has its name, else the   *)
(* zone at its index.  The zones of a device can be told apart if no name  *)
(* is twice among the stored or the present ones and each has a place of   *)
(* its own.                                                                *)
Place(d, z) ==
  LET named == {i \in DOMAIN zones[d] : zones[d][i].name = z.name}
  IN  IF named # {} THEN CHOOSE i \in named : TRUE ELSE z.index

Recognisable(d, stored) ==
  /\ \A i, j \in DOMAIN stored : i # j =>
       stored[i].name # stored[j].name /\ Place(d, stored[i]) # Place(d, stored[j])
  /\ \A i, j \in DOMAIN zones[d] : i # j => zones[d][i].name # zones[d][j].name

ListedOnce(profile, i) ==
  \A j \in DOMAIN profile.devices : profile.devices[j].id = profile.devices[i].id => j = i

(* Applying a profile, of this device or another, restores each zone it    *)
(* can: name, LED count and effect, whatever happened to the zones, the    *)
(* list and the file since, provided no write fails, the file has the      *)
(* device once and its zones can be told apart; a zone whose effect cannot *)
(* be shown is left as it is.                                              *)
RestoresStep ==
  \A n \in ProfileName :
    report'.op = "apply" /\ report'.names = {n} /\ report'.failed = 0 =>
      \A i \in DOMAIN files[n].devices :
        LET d      == files[n].devices[i].id
            stored == files[n].devices[i].zones
        IN  d \in present /\ ListedOnce(files[n], i) /\ Recognisable(d, stored) =>
              \A k \in DOMAIN stored : Place(d, stored[k]) \in DOMAIN zones[d] =>
                LET p == Place(d, stored[k])
                IN  zones'[d][p] =
                      IF <<d, p, stored[k].effect>> \in Supports
                      THEN [name |-> stored[k].name, leds |-> stored[k].leds,
                            effect |-> Plain[d][stored[k].effect]]
                      ELSE zones[d][p]

Restores == [][RestoresStep]_profileVars

(* Every stored zone is accounted for by the report, and no profile is     *)
(* lost or changed but by the operation that names it: not by an import,   *)
(* a rename or a migration that finds its name taken.                      *)
NothingLostStep ==
  /\ report'.op = "apply" => report'.total = report'.applied + report'.skipped + report'.failed
  /\ \A n \in ProfileName :
       files[n] # NoProfile /\ files'[n] # files[n] => n \in report'.names

NothingLost == [][NothingLostStep]_profileVars
=============================================================================
