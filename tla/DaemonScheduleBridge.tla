------------------------ MODULE DaemonScheduleBridge ------------------------
(***************************************************************************)
(* Two processes hold the schedule: the GUI, whose settings are the source *)
(* of truth, and the daemon, whose ScheduleService runs it while no GUI is *)
(* there.  The GUI's DaemonScheduleBridge decides who owns the schedule    *)
(* from what the DaemonClient knows of the daemon, pushes the settings to  *)
(* an owning daemon (putProfile, then setSchedule) and suspends the GUI's  *)
(* own ProfileScheduleRunner meanwhile.                                    *)
(*                                                                         *)
(* The connection may be lost, and the daemon may come back as an older    *)
(* one without scheduling.  The runner is suspended exactly while the      *)
(* daemon owns the schedule, so that has no variable of its own.           *)
(***************************************************************************)
EXTENDS ScheduleService, Sequences

CONSTANTS
  MaxEdits,     \* bound on the user's settings changes and rescans
  MaxDrops,     \* bound on the connections lost and GUI and daemon restarts
  CallsMayFail  \* whether a call on a live connection may time out

ASSUME BridgeAssumption ==
  MaxEdits \in Nat /\ MaxDrops \in Nat /\ CallsMayFail \in BOOLEAN

VARIABLES
  schedule,     \* SettingsController: the scheduled hour, or Off
  connected,    \* DaemonClient::isConnected
  oldDaemon,    \* a daemon without a ScheduleService is running
  supported,    \* m_daemonScheduleSupported
  versionKnown, \* m_daemonVersion is not empty
  refresh,      \* AppController's device list: none, queued or busy
  owned,        \* m_daemonOwnsSchedule
  supportSeen,  \* m_clientSupportSeen
  evaluating,   \* m_evaluateQueued
  pushing,      \* m_pushQueued
  runner,       \* the ProfileScheduleRunner's own m_ variables
  requests,     \* calls the daemon has not handled
  replies,      \* replies the client has not read
  localRuns,    \* history: like runs, of the GUI
  edits, drops  \* counters for the bounds

bridge == <<owned, supportSeen, evaluating, pushing>>
client == <<connected, oldDaemon, supported, versionKnown, refresh, requests, replies>>
vars   == <<serviceVars, schedule, bridge, client, runner, localRuns, edits, drops>>

Call  == [kind : {"list", "put", "set"}, schedule : Hour \cup {Off}, waiting : BOOLEAN]
Reply == [kind : {"list", "put", "set"}, answer : {"ok", "unsupported"}]
Runner == [last : Day \cup {NoDate}, skip : BOOLEAN, timer : BOOLEAN,
           queued : BOOLEAN, checked : BOOLEAN]

TypeOK ==
  /\ ServiceTypeOK
  /\ schedule \in Hour \cup {Off}
  /\ connected \in BOOLEAN /\ oldDaemon \in BOOLEAN
  /\ supported \in BOOLEAN /\ versionKnown \in BOOLEAN
  /\ owned \in BOOLEAN /\ supportSeen \in BOOLEAN
  /\ evaluating \in BOOLEAN /\ pushing \in BOOLEAN
  /\ refresh \in {"none", "queued", "busy"}
  /\ runner \in Runner
  /\ requests \in Seq(Call)
  /\ replies \in Seq(Reply)
  /\ localRuns \in [Day -> [Hour -> Nat]]
  /\ edits \in 0 .. MaxEdits
  /\ drops \in 0 .. MaxDrops

FreshRunner ==
  [last |-> NoDate, skip |-> TRUE, timer |-> FALSE, queued |-> TRUE, checked |-> FALSE]

Init ==
  /\ ServiceInit
  /\ schedule \in Hour \cup {Off}
  /\ connected = FALSE
  /\ oldDaemon = FALSE
  /\ supported = FALSE
  /\ versionKnown = FALSE
  /\ refresh = "none"
  /\ owned = FALSE
  /\ supportSeen = FALSE
  /\ evaluating = TRUE
  /\ pushing = FALSE
  /\ runner = FreshRunner
  /\ requests = <<>>
  /\ replies = <<>>
  /\ localRuns = [d \in Day |-> [h \in Hour |-> 0]]
  /\ edits = 0
  /\ drops = 0

-----------------------------------------------------------------------------
(* The GUI's ProfileScheduleRunner. *)

(* Mutant: a reset may catch up on a run that is already due. *)
ResetCatchingUp(r) == [r EXCEPT !.last = NoDate, !.queued = TRUE]

ResetAndSchedule(r) == [r EXCEPT !.last = NoDate, !.skip = TRUE, !.queued = TRUE]

SetSuspended(suspended) ==
  runner' = IF suspended = owned THEN runner
            ELSE IF suspended THEN [runner EXCEPT !.timer = FALSE]
            ELSE ResetAndSchedule(runner)

RunnerEvaluates(r) ==
  \/ /\ owned
     /\ runner' = r
     /\ UNCHANGED localRuns
  \/ /\ ~owned /\ schedule = Off
     /\ runner' = [r EXCEPT !.timer = FALSE]
     /\ UNCHANGED localRuns
  \/ /\ ~owned /\ schedule # Off
     /\ LET due == hour >= schedule /\ r.last # day
        IN  /\ runner' = [r EXCEPT !.timer = TRUE, !.checked = TRUE, !.skip = FALSE,
                                   !.last = IF due THEN day ELSE @]
            /\ localRuns' = IF due /\ ~r.skip
                            THEN [localRuns EXCEPT ![day][schedule] = @ + 1]
                            ELSE localRuns

RunnerDeferred ==
  /\ runner.queued
  /\ RunnerEvaluates([runner EXCEPT !.queued = FALSE])
  /\ UNCHANGED <<serviceVars, schedule, bridge, client, edits, drops>>

RunnerTimerFires ==
  /\ runner.timer
  /\ RunnerEvaluates(runner)
  /\ UNCHANGED <<serviceVars, schedule, bridge, client, edits, drops>>

-----------------------------------------------------------------------------
(* The bridge. *)

CallAsync(kind) ==
  Append(requests, [kind |-> kind, schedule |-> schedule, waiting |-> TRUE])

SetDaemonOwnsSchedule(own) ==
  /\ owned' = own
  /\ SetSuspended(own)

(* Mutant: support that came back is not noticed. *)
EvaluateOwnershipOnce ==
  /\ evaluating
  /\ evaluating' = FALSE
  /\ IF supported /\ ~supportSeen
     THEN /\ supportSeen' = TRUE
          /\ SetDaemonOwnsSchedule(TRUE)
          /\ pushing' = TRUE
     ELSE /\ SetDaemonOwnsSchedule(owned /\ (supported \/ ~connected \/ ~versionKnown))
          /\ UNCHANGED <<supportSeen, pushing>>
  /\ UNCHANGED <<serviceVars, schedule, client, localRuns, edits, drops>>

EvaluateOwnership ==
  /\ evaluating
  /\ evaluating' = FALSE
  /\ \/ /\ supported /\ ~supportSeen
        /\ supportSeen' = TRUE
        /\ SetDaemonOwnsSchedule(TRUE)
        /\ pushing' = TRUE
     \/ /\ supported /\ supportSeen
        /\ UNCHANGED <<supportSeen, owned, runner, pushing>>
     \/ /\ ~supported
        /\ supportSeen' = FALSE
        /\ SetDaemonOwnsSchedule(owned /\ ~(connected /\ versionKnown))
        /\ UNCHANGED pushing
  /\ UNCHANGED <<serviceVars, schedule, client, localRuns, edits, drops>>

(* The profile goes first, unless the name is empty or it does not load.   *)
PushNow ==
  /\ pushing
  /\ pushing' = FALSE
  /\ IF owned THEN \E kind \in {"put", "set"} : requests' = CallAsync(kind)
              ELSE UNCHANGED requests
  /\ UNCHANGED <<serviceVars, schedule, owned, supportSeen, evaluating, connected,
                 oldDaemon, supported, versionKnown, refresh, replies, runner,
                 localRuns, edits, drops>>

-----------------------------------------------------------------------------
(* The user. *)

(* Mutant: a change of the settings is not pushed. *)
EditUnpushed(s) ==
  /\ edits < MaxEdits
  /\ edits' = edits + 1
  /\ schedule' = s
  /\ runner' = ResetAndSchedule(runner)
  /\ UNCHANGED <<serviceVars, bridge, client, localRuns, drops>>

(* A change of the profile alone keeps the hour. *)
EditSchedule(s) ==
  /\ edits < MaxEdits
  /\ edits' = edits + 1
  /\ schedule' = s
  /\ runner' = ResetAndSchedule(runner)
  /\ pushing' = (pushing \/ owned)
  /\ UNCHANGED <<serviceVars, owned, supportSeen, evaluating, client, localRuns, drops>>

ProfilesChanged ==
  /\ edits < MaxEdits
  /\ edits' = edits + 1
  /\ pushing' = (pushing \/ owned)
  /\ UNCHANGED <<serviceVars, schedule, owned, supportSeen, evaluating, client, runner,
                 localRuns, drops>>

Rescan ==
  /\ edits < MaxEdits
  /\ edits' = edits + 1
  /\ connected /\ refresh = "none"
  /\ refresh' = "busy"
  /\ requests' = CallAsync("list")
  /\ UNCHANGED <<serviceVars, schedule, bridge, connected, oldDaemon, supported,
                 versionKnown, replies, runner, localRuns, drops>>

-----------------------------------------------------------------------------
(* The DaemonClient.  Deferred jobs run before the next connection is up,  *)
(* and the ownership is evaluated before the device list is requested.     *)

Connect ==
  /\ ~connected /\ (running \/ oldDaemon)
  /\ ~evaluating
  /\ connected' = TRUE
  /\ evaluating' = TRUE
  /\ refresh' = IF refresh = "none" THEN "queued" ELSE refresh
  /\ UNCHANGED <<serviceVars, schedule, owned, supportSeen, pushing, oldDaemon, supported,
                 versionKnown, requests, replies, runner, localRuns, edits, drops>>

RefreshDevices ==
  /\ refresh = "queued" /\ ~evaluating
  /\ refresh' = "busy"
  /\ requests' = CallAsync("list")
  /\ UNCHANGED <<serviceVars, schedule, bridge, connected, oldDaemon, supported,
                 versionKnown, replies, runner, localRuns, edits, drops>>

(* Every pending call fails. *)
FailPendingCalls ==
  /\ requests' = <<>>
  /\ replies' = <<>>
  /\ refresh' = IF refresh = "busy" THEN "none" ELSE refresh

(* Mutant: what was learnt from the daemon survives the connection. *)
DisconnectKeepingSupport ==
  /\ connected' = FALSE
  /\ UNCHANGED supported
  /\ evaluating' = TRUE
  /\ FailPendingCalls

(* The version of the daemon stays known. *)
Disconnected ==
  /\ connected' = FALSE
  /\ supported' = FALSE
  /\ evaluating' = TRUE
  /\ FailPendingCalls

ConnectionLost ==
  /\ drops < MaxDrops
  /\ drops' = drops + 1
  /\ connected
  /\ Disconnected
  /\ UNCHANGED <<serviceVars, schedule, owned, supportSeen, pushing, oldDaemon,
                 versionKnown, runner, localRuns, edits>>

ConnectFails ==
  /\ ~connected /\ ~running /\ ~oldDaemon
  /\ requests # <<>>
  /\ FailPendingCalls
  /\ UNCHANGED <<serviceVars, schedule, bridge, connected, oldDaemon, supported,
                 versionKnown, runner, localRuns, edits, drops>>

CallTimesOut(i) ==
  /\ requests[i].waiting
  /\ connected => CallsMayFail
  /\ requests' = IF connected THEN [requests EXCEPT ![i].waiting = FALSE]
                 ELSE SubSeq(requests, 1, i - 1) \o SubSeq(requests, i + 1, Len(requests))
  /\ refresh' = IF requests[i].kind = "list" THEN "none" ELSE refresh
  /\ UNCHANGED <<serviceVars, schedule, bridge, connected, oldDaemon, supported,
                 versionKnown, replies, runner, localRuns, edits, drops>>

(* updateDaemonInfo, then the call's handler. *)
ReadReply ==
  /\ replies # <<>>
  /\ replies' = Tail(replies)
  /\ LET kind   == Head(replies).kind
         answer == Head(replies).answer
     IN  \/ /\ kind = "list"
            /\ refresh' = "none"
            /\ supported' = (answer = "ok")
            /\ versionKnown' = TRUE
            /\ evaluating' = TRUE
            /\ UNCHANGED <<owned, supportSeen, runner, requests>>
         \/ /\ kind # "list" /\ answer = "unsupported"
            /\ supportSeen' = FALSE
            /\ SetDaemonOwnsSchedule(FALSE)
            /\ UNCHANGED <<refresh, supported, versionKnown, evaluating, requests>>
         \/ /\ kind # "list" /\ answer = "ok"
            /\ requests' = IF kind = "put" /\ owned THEN CallAsync("set") ELSE requests
            /\ UNCHANGED <<refresh, supported, versionKnown, evaluating, owned,
                           supportSeen, runner>>
  /\ UNCHANGED <<serviceVars, schedule, pushing, connected, oldDaemon, localRuns,
                 edits, drops>>

-----------------------------------------------------------------------------
(* The daemon. *)

HandleRequest ==
  /\ connected
  /\ requests # <<>>
  /\ requests' = Tail(requests)
  /\ LET call == Head(requests)
     IN  /\ replies' = IF ~call.waiting THEN replies
                       ELSE Append(replies, [kind   |-> call.kind,
                                             answer |-> IF running THEN "ok" ELSE "unsupported"])
         /\ IF running /\ call.kind = "set" THEN SetConfig(call.schedule)
                                           ELSE UNCHANGED serviceVars
  /\ UNCHANGED <<schedule, bridge, connected, oldDaemon, supported, versionKnown, refresh,
                 runner, localRuns, edits, drops>>

ServiceRuns ==
  /\ ServiceStep
  /\ UNCHANGED <<schedule, bridge, client, runner, localRuns, edits, drops>>

DaemonStops ==
  /\ drops < MaxDrops
  /\ drops' = drops + 1
  /\ \/ running /\ Stop /\ UNCHANGED oldDaemon
     \/ oldDaemon /\ oldDaemon' = FALSE /\ UNCHANGED serviceVars
  /\ \/ connected /\ Disconnected
     \/ ~connected /\ UNCHANGED <<connected, supported, evaluating, requests, replies, refresh>>
  /\ UNCHANGED <<schedule, owned, supportSeen, pushing, versionKnown, runner, localRuns, edits>>

DaemonStarts ==
  /\ ~running /\ ~oldDaemon
  /\ \/ Start /\ UNCHANGED oldDaemon
     \/ oldDaemon' = TRUE /\ UNCHANGED serviceVars
  /\ UNCHANGED <<schedule, bridge, connected, supported, versionKnown, refresh, requests,
                 replies, runner, localRuns, edits, drops>>

GuiRestarts ==
  /\ drops < MaxDrops
  /\ drops' = drops + 1
  /\ connected' = FALSE
  /\ supported' = FALSE
  /\ versionKnown' = FALSE
  /\ refresh' = "none"
  /\ owned' = FALSE
  /\ supportSeen' = FALSE
  /\ evaluating' = TRUE
  /\ pushing' = FALSE
  /\ runner' = FreshRunner
  /\ requests' = <<>>
  /\ replies' = <<>>
  /\ UNCHANGED <<serviceVars, schedule, oldDaemon, localRuns, edits>>

(* The GUI's deferred jobs and its timer are as quick as the daemon's. *)
HourPasses ==
  /\ runner.timer => runner.checked
  /\ ~runner.queued /\ ~evaluating /\ ~pushing /\ refresh # "queued"
  /\ Tick
  /\ runner' = [runner EXCEPT !.checked = FALSE]
  /\ UNCHANGED <<schedule, bridge, client, localRuns, edits, drops>>

-----------------------------------------------------------------------------
Gui ==
  \/ RunnerDeferred
  \/ RunnerTimerFires
  \/ EvaluateOwnership
  \/ PushNow
  \/ RefreshDevices
  \/ ReadReply

Environment ==
  \/ \E s \in Hour \cup {Off} : EditSchedule(s)
  \/ ProfilesChanged
  \/ Rescan
  \/ ConnectionLost
  \/ \E i \in DOMAIN requests : CallTimesOut(i)
  \/ DaemonStops
  \/ GuiRestarts
  \/ HourPasses

Next ==
  \/ Gui
  \/ Environment
  \/ Connect
  \/ ConnectFails
  \/ HandleRequest
  \/ ServiceRuns
  \/ DaemonStarts

Spec == Init /\ [][Next]_vars

(* Both event loops run, the client reconnects (DaemonClient), a daemon    *)
(* answers.                                                                *)
FairSpec ==
  /\ Spec
  /\ WF_vars(EvaluateOwnership)
  /\ WF_vars(PushNow)
  /\ WF_vars(RefreshDevices)
  /\ WF_vars(ReadReply)
  /\ WF_vars(Connect)
  /\ WF_vars(ConnectFails)
  /\ WF_vars(HandleRequest)

-----------------------------------------------------------------------------
(* The GUI does not run a schedule twice on a day either, over restarts of *)
(* the GUI, suspensions and changes of the settings.                       *)
RunnerOnceADay == \A d \in Day, h \in Hour : localRuns[d][h] <= 1

(* Nothing of the bridge is under way. *)
Quiet ==
  /\ connected /\ ~evaluating /\ ~pushing /\ refresh = "none"
  /\ requests = <<>> /\ replies = <<>>

(* Once things are quiet the daemon owns the schedule exactly if it has a  *)
(* ScheduleService, whichever daemon came and went before.                 *)
OwnerIsRight == Quiet => (owned <=> running)

(* Once things are quiet, an owning daemon's schedule is the one in the    *)
(* GUI's settings ("so it converges deterministically").                   *)
MirrorsSettings == Quiet /\ owned /\ running => config = schedule

(* The daemon gets the schedule the user has set, as long as it runs.      *)
Converges == <>[]running => <>[](owned /\ config = schedule)

(* "Ownership is sticky across disconnects (...) It clears only when a     *)
(* connected daemon stops advertising support or answers a schedule call   *)
(* with an unknown-method error."  A restart of the GUI starts anew.       *)
OwnershipIsSticky ==
  [][owned /\ ~owned' => GuiRestarts \/ (connected /\ oldDaemon)]_vars

(* "... ownership stays sticky across disconnects so both sides never fire *)
(* the same day."                                                          *)
NeverBothFire == \A d \in Day, h \in Hour : runs[d][h] + localRuns[d][h] <= 1
=============================================================================
