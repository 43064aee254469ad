---------------------------- MODULE AppOperations ----------------------------
(***************************************************************************)
(* The GUI's AppController: the operations it runs over many zones and     *)
(* many outstanding daemon calls, the profile it applies in two calls per  *)
(* zone, the device list it loads and reloads, and the launch and          *)
(* scheduled profiles it parks until there is a list.                      *)
(*                                                                         *)
(* The daemon is its answers: an outstanding call ends, with success only  *)
(* while the client is connected, in any order (calls time out).  The      *)
(* devices are DaemonRgbDevice proxies, as DaemonBackend is the GUI's only *)
(* backend; LightStream is about the frames they stream.                   *)
(***************************************************************************)
EXTENDS Integers, Sequences, FiniteSets

CONSTANTS
  Device,
  Target,             \* the <<device, zone>> pairs the daemon lists
  Effect,             \* effect types
  Supports,           \* the <<target, effect>> pairs a zone supports
  SupportsBrightness, \* those whose brightness can be changed
  NeedsConfirmation,  \* devices whose writes need a confirmation
  MaxOperations,      \* bound on the user's operations
  MaxRuns,            \* bound on the scheduled runs
  MaxDrops            \* bound on lost connections

ASSUME OperationsAssumption ==
  /\ IsFiniteSet(Device) /\ IsFiniteSet(Target) /\ \A t \in Target : t[1] \in Device
  /\ SupportsBrightness \subseteq Supports /\ Supports \subseteq Target \X Effect
  /\ NeedsConfirmation \subseteq Device
  /\ {MaxOperations, MaxRuns, MaxDrops} \subseteq Nat

VARIABLES
  connected,
  discovering,   \* the daemon's discovery still runs
  infoKnown,     \* the client knows the daemon's discovery state
  infoComplete,  \* m_daemonDiscoveryComplete of the client
  refresh,       \* the device list: "idle", "due" or "busy"
  polling,       \* m_daemonDiscoveryPollTimer is active
  loaded,        \* m_daemonDevicesLoaded
  listed,        \* the GUI's device list holds the daemon's devices
  dryRun,
  confirmed,     \* devices the proxies take for confirmed
  work,          \* ops: the operations, with their zones still `pending' and those
                 \* `settled' (counted as applied or failed); calls: the outstanding
                 \* calls; busy: pendingDaemonOperations; profile: the one applied, or 0
  launch,        \* the launch profile
  scheduled,     \* the scheduled profile
  issued, scheduleRuns, drops

list   == <<infoKnown, infoComplete, refresh, polling, loaded, listed>>
parked == <<launch, scheduled>>
bounds == <<issued, scheduleRuns, drops>>
vars   == <<connected, discovering, list, dryRun, confirmed, work, parked, bounds>>

Init ==
  /\ connected = FALSE /\ discovering \in BOOLEAN
  /\ infoKnown = FALSE /\ infoComplete = TRUE
  /\ refresh = "idle" /\ polling = FALSE /\ loaded = FALSE /\ listed = FALSE
  /\ dryRun \in BOOLEAN /\ confirmed = {}
  /\ work = [ops |-> <<>>, calls |-> {}, busy |-> 0, profile |-> 0]
  /\ launch \in {"none", "parked"} /\ scheduled = "none"
  /\ issued = 0 /\ scheduleRuns = 0 /\ drops = 0

Listed(t) == listed /\ t \in Target

-----------------------------------------------------------------------------
(* Operations: what is dispatched at once, and what the end of a call adds. *)

(* finish(): runs after the dispatch and after every call of the           *)
(* operation, and reports when none is pending.                            *)
Finish(o) == IF o.pending = 0 THEN [o EXCEPT !.reports = @ + 1] ELSE o

(* Mutant: the dispatch does not run finish() itself. *)
DispatchUnfinished(w, kind, T, callKind, skipped, offered) ==
  LET id == Len(w.ops) + 1
      o  == [kind |-> kind, total |-> Cardinality(T) + skipped,
             skipped |-> skipped, settled |-> 0, pending |-> Cardinality(T), reports |-> 0,
             offered |-> offered]
  IN  [w EXCEPT !.ops = Append(@, o), !.busy = @ + Cardinality(T),
         !.calls = @ \cup {[kind |-> callKind, op |-> id, target |-> t, self |-> TRUE] : t \in T}]

Dispatch(w, kind, T, callKind, skipped, offered) ==
  LET id == Len(w.ops) + 1
      o  == [kind |-> kind, total |-> Cardinality(T) + skipped,
             skipped |-> skipped, settled |-> 0, pending |-> Cardinality(T), reports |-> 0,
             offered |-> offered]
  IN  [w EXCEPT !.ops = Append(@, Finish(o)), !.busy = @ + Cardinality(T),
         !.calls = @ \cup {[kind |-> callKind, op |-> id, target |-> t, self |-> TRUE] : t \in T}]

(* One zone, or device, of an operation is settled; the profile flag falls *)
(* with the profile's report.                                              *)
Settle(w, c) ==
  LET o == Finish([w.ops[c.op] EXCEPT !.settled = @ + 1, !.pending = @ - 1])
  IN  [w EXCEPT !.ops[c.op] = o, !.calls = @ \ {c}, !.busy = @ - 1,
         !.profile = IF @ = c.op /\ o.pending = 0 THEN 0 ELSE @]

(* Mutant: a zone whose metadata call failed stays pending. *)
MetadataEndsForgetting(w, c, ok) ==
  IF ok /\ c.self
  THEN [w EXCEPT !.calls = (@ \ {c}) \cup {[c EXCEPT !.kind = "profileEffect"]}]
  ELSE [w EXCEPT !.calls = @ \ {c}, !.busy = @ - 1]

(* The zone's metadata is stored first; its effect follows on the same     *)
(* proxy, unless the list was replaced meanwhile.                          *)
MetadataEnds(w, c, ok) ==
  IF ok /\ c.self
  THEN [w EXCEPT !.calls = (@ \ {c}) \cup {[c EXCEPT !.kind = "profileEffect"]}]
  ELSE Settle(w, c)

(* applyProfileInternal, when no profile is being applied: T is what the   *)
(* plan applies, the rest is skipped; a profile that cannot be loaded is   *)
(* only reported.  It may be finished before it returns.                   *)
ApplyProfile(w, T, loads) ==
  IF ~loads THEN w
  ELSE LET started == Dispatch(w, "profile", T, "metadata", Cardinality(Target \ T), TRUE)
       IN  [started EXCEPT !.profile = IF T = {} THEN 0 ELSE Len(started.ops)]

Plans == IF listed' THEN SUBSET Target ELSE {{}}

(* profileApplyInProgressChanged: a parked scheduled profile follows. *)
WhenProfileEnds(w) ==
  IF w.profile = 0 /\ work.profile # 0 /\ loaded /\ scheduled = "parked"
  THEN /\ scheduled' = "attempted"
       /\ \E T \in Plans, loads \in BOOLEAN : work' = ApplyProfile(w, T, loads)
  ELSE work' = w /\ UNCHANGED scheduled

-----------------------------------------------------------------------------
(* The user's operations. *)

Issue ==
  /\ issued < MaxOperations /\ issued' = issued + 1
  /\ UNCHANGED <<connected, discovering, list, dryRun, confirmed, parked, scheduleRuns, drops>>

Unconfirmed(d) == ~dryRun /\ d \in NeedsConfirmation /\ d \notin confirmed

(* A global brightness keeps each zone's effect and needs brightness there. *)
Applies(t, e, preserve) ==
  /\ <<t, e>> \in Supports
  /\ preserve => <<t, e>> \in SupportsBrightness
  /\ ~Unconfirmed(t[1])

(* globalTargetSupportsEffect: what enables the control. *)
GlobalTargetSupportsEffect(G, e) ==
  \E t \in Target : listed /\ t[1] \in G /\ <<t, e>> \in Supports

(* applyGlobalEffectInternal for the devices of G; without a zone it only  *)
(* says so.                                                                *)
ApplyGlobalEffect(G, effect, preserve) ==
  LET zones == {t \in Target : listed /\ t[1] \in G}
      T     == {t \in zones : Applies(t, effect[t], preserve)}
  IN  /\ zones # {}
      /\ Issue
      /\ work' = Dispatch(work, "effect", T, "effect", Cardinality(zones \ T),
                          \E t \in zones : GlobalTargetSupportsEffect(G, effect[t]))

AllOffDevices(G) ==
  LET devices == {d \in G : listed}
      T       == {d \in devices : ~Unconfirmed(d)}
  IN  /\ devices # {}
      /\ Issue
      /\ work' = Dispatch(work, "allOff", T, "allOff", Cardinality(devices \ T), TRUE)

(* applyProfileAsync: refused while a profile is being applied. *)
ApplyUserProfile(T, loads) ==
  /\ work.profile = 0
  /\ Issue
  /\ work' = ApplyProfile(work, T, loads)

(* Operations on one device or zone: applyEffect, updateZone, allOffDevice *)
(* ("zone"), confirmDeviceWrites and revokeDeviceWrites.                   *)
SingleCall(kind, t) ==
  /\ IF kind = "zone" THEN listed ELSE connected
  /\ Issue
  /\ work' = [work EXCEPT !.busy = @ + 1,
                !.calls = @ \cup {[kind |-> kind, op |-> -issued', target |-> t, self |-> TRUE]}]

SetDryRunEnabled ==
  /\ issued < MaxOperations /\ issued' = issued + 1
  /\ dryRun' = ~dryRun
  /\ UNCHANGED <<connected, discovering, list, confirmed, work, parked, scheduleRuns, drops>>

UserOperation ==
  \/ \E G \in SUBSET Device, e \in Effect : ApplyGlobalEffect(G, [t \in Target |-> e], FALSE)
  \/ \E G \in SUBSET Device, current \in [Target -> Effect] : ApplyGlobalEffect(G, current, TRUE)
  \/ \E G \in SUBSET Device : AllOffDevices(G)
  \/ listed' = listed /\ \E T \in Plans, loads \in BOOLEAN : ApplyUserProfile(T, loads)
  \/ \E d \in Device : SingleCall("confirm", d) \/ SingleCall("revoke", d)
  \/ \E t \in Target : SingleCall("zone", t)
  \/ SetDryRunEnabled

(* The end of a call.  Its handler outlives the proxy it was made by.      *)
CallEnds(c, ok) ==
  /\ ok => connected
  /\ UNCHANGED <<connected, discovering, list, dryRun, launch, bounds>>
  /\ confirmed' = CASE c.kind = "confirm" /\ ok /\ listed -> confirmed \cup ({c.target} \cap NeedsConfirmation)
                    [] c.kind = "revoke" /\ ok /\ listed -> confirmed \ {c.target}
                    [] OTHER -> confirmed
  /\ CASE c.kind = "metadata" -> WhenProfileEnds(MetadataEnds(work, c, ok))
       [] c.kind \in {"profileEffect", "effect", "allOff"} -> WhenProfileEnds(Settle(work, c))
       [] OTHER -> /\ work' = [work EXCEPT !.calls = @ \ {c}, !.busy = @ - 1]
                   /\ UNCHANGED scheduled

-----------------------------------------------------------------------------
(* The schedule.  Its runner (ProfileScheduleRunner) tries once a day.     *)

(* applyScheduledProfile: parked until there is a list; refused, and lost  *)
(* for the day, while another profile is being applied.                    *)
ScheduleFires ==
  /\ scheduleRuns < MaxRuns /\ scheduleRuns' = scheduleRuns + 1
  /\ UNCHANGED <<connected, discovering, list, dryRun, confirmed, launch, issued, drops>>
  /\ \/ ~loaded /\ ~listed /\ scheduled' = "parked" /\ UNCHANGED work
     \/ /\ loaded \/ listed
        /\ work.profile # 0
        /\ scheduled' = IF scheduled = "parked" THEN scheduled ELSE "refused"
        /\ UNCHANGED work
     \/ /\ loaded \/ listed
        /\ work.profile = 0
        /\ scheduled' = IF scheduled = "parked" THEN scheduled ELSE "attempted"
        /\ \E T \in Plans, loads \in BOOLEAN : work' = ApplyProfile(work, T, loads)

-----------------------------------------------------------------------------
(* The device list. *)

RefreshDaemonDevices ==
  /\ refresh' = "busy"
  /\ UNCHANGED <<connected, discovering, infoKnown, infoComplete, loaded, listed, dryRun,
                 confirmed, work, parked, scheduleRuns, drops>>

(* A deferred refresh after a connection, the poll timer, the user's Rescan. *)
DeferredRefresh == refresh = "due" /\ connected /\ RefreshDaemonDevices
                   /\ UNCHANGED <<polling, issued>>
PollTimeout ==
  /\ polling /\ polling' = FALSE
  /\ UNCHANGED issued
  /\ IF connected /\ ~infoComplete /\ refresh # "busy" THEN RefreshDaemonDevices
     ELSE UNCHANGED <<connected, discovering, infoKnown, infoComplete, refresh, loaded, listed,
                      dryRun, confirmed, work, parked, scheduleRuns, drops>>
Rescan ==
  /\ connected /\ refresh # "busy"
  /\ issued < MaxOperations /\ issued' = issued + 1
  /\ RefreshDaemonDevices /\ UNCHANGED polling

(* A failed list call is only repeated if the daemon was known to be       *)
(* discovering.                                                            *)
ListFails ==
  /\ refresh = "busy" /\ refresh' = "idle"
  /\ polling' = (polling \/ (connected /\ infoKnown /\ ~infoComplete))
  /\ UNCHANGED <<connected, discovering, infoKnown, infoComplete, loaded, listed, dryRun,
                 confirmed, work, parked, bounds>>

(* replaceDevices: outstanding calls lose their proxies. *)
Orphaned(w) == [w EXCEPT !.calls = {[c EXCEPT !.self = FALSE] : c \in @}]

(* An incomplete answer carries no devices. *)
ListIncomplete ==
  /\ refresh = "busy" /\ refresh' = "idle"
  /\ connected
  /\ infoKnown' = TRUE /\ infoComplete' = FALSE
  /\ listed' = FALSE /\ loaded' = FALSE
  /\ confirmed' = {}
  /\ work' = Orphaned(work)
  /\ polling' = TRUE
  /\ UNCHANGED <<connected, discovering, dryRun, parked, bounds>>

(* Mutant: the launch profile runs with the parked scheduled one already   *)
(* forgotten.                                                              *)
ListCompleteForgetting ==
  /\ refresh = "busy" /\ refresh' = "idle"
  /\ connected /\ ~discovering
  /\ infoKnown' = TRUE /\ infoComplete' = TRUE
  /\ listed' = TRUE /\ loaded' = TRUE
  /\ confirmed' \in SUBSET NeedsConfirmation
  /\ polling' = FALSE
  /\ UNCHANGED scheduled
  /\ \E T \in Plans, loads \in BOOLEAN :
       IF launch = "parked" /\ work.profile = 0
       THEN work' = ApplyProfile(Orphaned(work), T, loads) /\ launch' = "attempted"
       ELSE work' = Orphaned(work) /\ UNCHANGED launch
  /\ UNCHANGED <<connected, discovering, dryRun, bounds>>

(* The list is there: first the launch profile, then the parked scheduled  *)
(* one, which stays parked while the launch profile's calls are out.       *)
ListComplete ==
  /\ refresh = "busy" /\ refresh' = "idle"
  /\ connected /\ ~discovering
  /\ infoKnown' = TRUE /\ infoComplete' = TRUE
  /\ listed' = TRUE /\ loaded' = TRUE
  /\ confirmed' \in SUBSET NeedsConfirmation
  /\ polling' = FALSE
  /\ \E T1, T2 \in Plans, loads1, loads2 \in BOOLEAN :
       LET start  == launch = "parked" /\ work.profile = 0
           first  == IF start THEN ApplyProfile(Orphaned(work), T1, loads1) ELSE Orphaned(work)
           second == scheduled = "parked" /\ first.profile = 0
       IN  /\ launch' = IF launch # "parked" THEN launch
                        ELSE IF start THEN "attempted" ELSE "refused"
           /\ scheduled' = IF second THEN "attempted" ELSE scheduled
           /\ work' = IF second THEN ApplyProfile(first, T2, loads2) ELSE first
  /\ UNCHANGED <<connected, discovering, dryRun, bounds>>

DiscoveryEnds ==
  /\ discovering /\ discovering' = FALSE
  /\ UNCHANGED <<connected, list, dryRun, confirmed, work, parked, bounds>>

-----------------------------------------------------------------------------
(* The connection. *)

Connect ==
  /\ ~connected /\ connected' = TRUE
  /\ refresh' = IF refresh = "busy" THEN refresh ELSE "due"
  /\ UNCHANGED <<discovering, infoKnown, infoComplete, polling, loaded, listed, dryRun,
                 confirmed, work, parked, bounds>>

(* Every outstanding call fails, each through its handler; the list is     *)
(* kept but no longer counts as loaded, so nothing parked starts.          *)
Disconnect ==
  /\ connected /\ connected' = FALSE
  /\ drops < MaxDrops /\ drops' = drops + 1
  /\ discovering' \in BOOLEAN
  /\ infoKnown' = FALSE /\ infoComplete' = TRUE
  /\ refresh' = "idle" /\ polling' = FALSE /\ loaded' = FALSE
  /\ work' = [ops |-> [i \in DOMAIN work.ops |->
                         LET o == work.ops[i]
                         IN  IF o.pending = 0 THEN o
                             ELSE Finish([o EXCEPT !.settled = @ + o.pending, !.pending = 0])],
              calls |-> {}, busy |-> 0, profile |-> 0]
  /\ UNCHANGED <<listed, dryRun, confirmed, parked, issued, scheduleRuns>>

-----------------------------------------------------------------------------
Next ==
  \/ UserOperation
  \/ \E c \in work.calls, ok \in BOOLEAN : CallEnds(c, ok)
  \/ ScheduleFires
  \/ DeferredRefresh \/ PollTimeout \/ Rescan
  \/ ListFails \/ ListIncomplete \/ ListComplete \/ DiscoveryEnds
  \/ Connect \/ Disconnect

Spec == Init /\ [][Next]_vars

(* Every call ends (DaemonClient), the posted refresh and the poll timer   *)
(* run, and a discovery ends.                                              *)
Fairness ==
  /\ WF_vars(\E c \in work.calls, ok \in BOOLEAN : CallEnds(c, ok))
  /\ WF_vars(ListFails \/ ListIncomplete \/ ListComplete)
  /\ WF_vars(DeferredRefresh) /\ WF_vars(PollTimeout) /\ WF_vars(DiscoveryEnds)
FairSpec == Spec /\ Fairness

-----------------------------------------------------------------------------
(* Every operation accounts for each of its zones exactly once, waits for  *)
(* exactly its outstanding calls, and reports once, when the last of them  *)
(* ended: with calls that fail or end in any order, with proxies replaced  *)
(* underneath it, with nothing to do at all.  A zone the global controls   *)
(* offered nothing for is skipped.  The busy indicator counts the          *)
(* outstanding calls, and the profile flag, which refuses every other      *)
(* profile, is up exactly while a profile has some.                        *)
CountsAddUp ==
  /\ \A i \in DOMAIN work.ops :
       LET o == work.ops[i]
       IN  /\ o.settled + o.skipped + o.pending = o.total
           /\ o.pending = Cardinality({c \in work.calls : c.op = i})
           /\ o.reports = IF o.pending = 0 THEN 1 ELSE 0
           /\ ~o.offered => o.skipped = o.total
           /\ o.kind = "profile" => (work.profile = i <=> o.pending > 0)
  /\ work.busy = Cardinality(work.calls)

(* A profile application ends, and so does the refusal of all others. *)
ProfileEnds == work.profile # 0 ~> work.profile = 0

(* Once the list is there to stay, what was parked is attempted. *)
ParkedIsAttempted ==
  (<>[]loaded) => <>[](launch # "parked" /\ scheduled # "parked")
==============================================================================
