---------------------- MODULE DaemonScheduleBridgeProofs ----------------------
(***************************************************************************)
(* Proofs about ScheduleService, for any number of hours and days, and     *)
(* about DaemonScheduleBridge, which composes it with the GUI: for any     *)
(* number of hours, days, changes and lost connections, and whether or not *)
(* calls time out.                                                         *)
(***************************************************************************)
EXTENDS DaemonScheduleBridge, SequenceTheorems, TLAPS

(* The service by itself.                                                  *)

LEMMA InitTypes == ServiceInit => ServiceTypeOK
<1> SUFFICES ASSUME ServiceInit PROVE ServiceTypeOK
  OBVIOUS
<1>1. 0 \in Day /\ 0 \in Hour
  BY ClockAssumption DEF Day, Hour
<1>2. runs \in [Day -> [Hour -> Nat]]
  BY DEF ServiceInit
<1>3. since \in [day : Day, hour : Hour]
  BY <1>1 DEF ServiceInit, Now
<1> QED BY <1>1, <1>2, <1>3 DEF ServiceInit, ServiceTypeOK, NoDate

LEMMA NextTypes == ServiceTypeOK /\ [ServiceNext]_serviceVars => ServiceTypeOK'
<1> SUFFICES ASSUME ServiceTypeOK, [ServiceNext]_serviceVars PROVE ServiceTypeOK'
  OBVIOUS
<1>0. Now \in [day : Day, hour : Hour]
  BY DEF ServiceTypeOK, Now
<1>1. ASSUME EvaluateNow, UNCHANGED clock, queued' \in BOOLEAN PROVE ServiceTypeOK'
  <2>1. UNCHANGED <<day, hour, config, running, discovered, since>>
    BY <1>1 DEF EvaluateNow, clock
  <2>2. lastAttempt' \in Day \cup {NoDate} /\ skipMissed' \in BOOLEAN
    BY <1>1 DEF EvaluateNow, ServiceTypeOK
  <2>3. timer' \in BOOLEAN /\ checked' \in BOOLEAN
    BY <1>1 DEF EvaluateNow, ScheduleNextCheck, ServiceTypeOK
  <2>4. runs' \in [Day -> [Hour -> Nat]]
    <3>1. CASE runs' = runs
      BY <3>1 DEF ServiceTypeOK
    <3>2. CASE config # Off /\ runs' = [runs EXCEPT ![day][config] = @ + 1]
      <4>1. day \in Day /\ config \in Hour /\ runs[day] \in [Hour -> Nat]
        BY <3>2 DEF ServiceTypeOK
      <4>2. [runs[day] EXCEPT ![config] = runs[day][config] + 1] \in [Hour -> Nat]
        BY <4>1
      <4>3. runs' = [runs EXCEPT ![day] = [runs[day] EXCEPT ![config] = runs[day][config] + 1]]
        BY <3>2
      <4> QED BY <4>1, <4>2, <4>3 DEF ServiceTypeOK
    <3> QED BY <1>1, <3>1, <3>2 DEF EvaluateNow
  <2> QED BY <1>1, <2>1, <2>2, <2>3, <2>4 DEF ServiceTypeOK
<1>2. CASE Deferred
  BY <1>1, <1>2 DEF Deferred
<1>3. CASE TimerFires
  BY <1>1, <1>3 DEF TimerFires, ServiceTypeOK
<1>4. CASE DiscoveryCompletes
  BY <1>0, <1>4 DEF DiscoveryCompletes, ServiceTypeOK, clock
<1>5. ASSUME NEW c \in Hour \cup {Off}, SetConfig(c) PROVE ServiceTypeOK'
  BY <1>0, <1>5 DEF SetConfig, ServiceTypeOK, clock, NoDate
<1>6. CASE Stop
  BY <1>6 DEF Stop, ServiceTypeOK, clock
<1>7. CASE Start
  BY <1>0, <1>7 DEF Start, ServiceTypeOK, clock, NoDate
<1>8. CASE Tick
  <2>1. hour' \in Hour /\ day' \in Day
    BY <1>8, ClockAssumption DEF Tick, ServiceTypeOK, Hour
  <2> QED BY <1>8, <2>1 DEF Tick, ServiceTypeOK
<1>9. CASE UNCHANGED serviceVars
  BY <1>9 DEF serviceVars, clock, service, ServiceTypeOK
<1> QED BY <1>2, <1>3, <1>4, <1>5, <1>6, <1>7, <1>8, <1>9 DEF ServiceNext, ServiceStep

(* The variables have their types, for days of any length.                 *)
THEOREM TypeCorrect == ServiceSpec => []ServiceTypeOK
BY InitTypes, NextTypes, PTL DEF ServiceSpec

-----------------------------------------------------------------------------
(* Nothing has run in the future; a schedule that has run today has had    *)
(* today's attempt, unless it was set again and will skip a missed run.    *)
RunsInv ==
  /\ day \in Day /\ hour \in Hour
  /\ config \in Hour \cup {Off}
  /\ runs \in [Day -> [Hour -> Nat]]
  /\ OnceADay
  /\ \A d \in Day, h \in Hour :
       runs[d][h] > 0 => d < day \/ (d = day /\ h <= hour)
  /\ config # Off /\ runs[day][config] > 0 => skipMissed \/ lastAttempt = day

LEMMA InitRuns == ServiceInit => RunsInv
BY ClockAssumption DEF ServiceInit, RunsInv, OnceADay, Day, Hour, Off

(* Steps in which nothing runs and the schedule stays. *)
LEMMA RunsKept ==
  ASSUME RunsInv, UNCHANGED <<day, config, runs>>, hour' \in Hour, hour <= hour',
         skipMissed => skipMissed' \/ lastAttempt' = day,
         lastAttempt = day => skipMissed' \/ lastAttempt' = day
  PROVE  RunsInv'
BY DEF RunsInv, OnceADay, Hour

LEMMA EvaluateRuns ==
  ASSUME RunsInv, EvaluateNow, UNCHANGED clock
  PROVE  RunsInv'
<1>1. UNCHANGED <<day, hour, config>> /\ hour' \in Hour /\ hour <= hour'
  BY DEF EvaluateNow, clock, RunsInv, Hour
<1>2. CASE UNCHANGED <<runs, lastAttempt, skipMissed>>
  BY <1>1, <1>2, RunsKept
<1>3. CASE /\ config # Off /\ skipMissed' = FALSE
           /\ ~(hour >= config /\ lastAttempt # day)
           /\ UNCHANGED <<runs, lastAttempt>>
  <2>1. CASE lastAttempt = day
    BY <1>1, <1>3, <2>1, RunsKept
  <2>2. CASE hour < config
    <3>1. ~(runs[day][config] > 0)
      BY <1>3, <2>2 DEF RunsInv, Day, Hour, Off
    <3> QED BY <1>1, <1>3, <3>1 DEF RunsInv, OnceADay
  <2> QED BY <1>3, <2>1, <2>2 DEF RunsInv, Hour, Off
<1>4. CASE /\ config # Off /\ hour >= config /\ lastAttempt # day
           /\ lastAttempt' = day
           /\ runs' = IF skipMissed THEN runs ELSE [runs EXCEPT ![day][config] = @ + 1]
  <2>1. CASE skipMissed
    BY <1>1, <1>4, <2>1, RunsKept
  <2>2. CASE ~skipMissed
    <3>1. day \in Day /\ config \in Hour /\ runs[day] \in [Hour -> Nat]
      BY <1>4 DEF RunsInv, Off
    <3>2. runs[day][config] = 0
      BY <1>4, <2>2, <3>1 DEF RunsInv
    <3>3. runs' = [runs EXCEPT ![day] = [runs[day] EXCEPT ![config] = 1]]
      BY <1>4, <2>2, <3>2
    <3>4. \A d \in Day, h \in Hour :
            runs'[d][h] = IF d = day /\ h = config THEN 1 ELSE runs[d][h]
      BY <3>1, <3>3 DEF RunsInv
    <3>5. runs' \in [Day -> [Hour -> Nat]]
      <4>1. [runs[day] EXCEPT ![config] = 1] \in [Hour -> Nat]
        BY <3>1
      <4> QED BY <3>1, <3>3, <4>1 DEF RunsInv
    <3>6. OnceADay'
      BY <3>4 DEF RunsInv, OnceADay
    <3>7. \A d \in Day, h \in Hour :
            runs'[d][h] > 0 => d < day' \/ (d = day' /\ h <= hour')
      BY <1>1, <1>4, <3>4 DEF RunsInv
    <3> QED BY <1>1, <1>4, <3>5, <3>6, <3>7 DEF RunsInv
  <2> QED BY <2>1, <2>2
<1> QED BY <1>2, <1>3, <1>4 DEF EvaluateNow

LEMMA TickRuns == ASSUME RunsInv, Tick PROVE RunsInv'
<1>1. CASE hour + 1 \in Hour /\ hour' = hour + 1 /\ UNCHANGED day
  <2>1. UNCHANGED <<day, config, runs, skipMissed, lastAttempt>>
    BY <1>1 DEF Tick
  <2>2. hour' \in Hour /\ hour <= hour'
    BY <1>1 DEF RunsInv, Hour
  <2> QED BY <2>1, <2>2, RunsKept
<1>2. CASE day + 1 \in Day /\ hour' = 0 /\ day' = day + 1
  <2>1. UNCHANGED <<config, runs, skipMissed, lastAttempt>>
    BY DEF Tick
  <2>2. 0 \in Hour /\ day \in Int
    BY ClockAssumption DEF RunsInv, Hour, Day
  <2>3. \A d \in Day, h \in Hour : runs[d][h] > 0 => d < day'
    BY <1>2, <2>2 DEF RunsInv, Day
  <2>4. config # Off => ~(runs[day'][config] > 0)
    BY <1>2, <2>2, <2>3 DEF RunsInv, Day
  <2> QED BY <1>2, <2>1, <2>2, <2>3, <2>4 DEF RunsInv, OnceADay
<1> QED BY <1>1, <1>2 DEF Tick

LEMMA NextRuns == RunsInv /\ [ServiceNext]_serviceVars => RunsInv'
<1> SUFFICES ASSUME RunsInv, [ServiceNext]_serviceVars PROVE RunsInv'
  OBVIOUS
<1>1. CASE ServiceStep
  <2>1. CASE Deferred
    BY <2>1, EvaluateRuns DEF Deferred
  <2>2. CASE TimerFires
    BY <2>2, EvaluateRuns DEF TimerFires
  <2>3. CASE DiscoveryCompletes
    <3>1. UNCHANGED <<day, hour, config, runs, skipMissed, lastAttempt>>
      BY <2>3 DEF DiscoveryCompletes, clock
    <3> QED BY <3>1, RunsKept DEF RunsInv, Hour
  <2> QED BY <1>1, <2>1, <2>2, <2>3 DEF ServiceStep
<1>2. ASSUME NEW c \in Hour \cup {Off}, SetConfig(c) PROVE RunsInv'
  <2>1. UNCHANGED <<day, hour, runs>> /\ config' = c /\ skipMissed'
    BY <1>2 DEF SetConfig, clock
  <2> QED BY <2>1 DEF RunsInv, OnceADay
<1>3. CASE Stop
  <2>1. UNCHANGED <<day, hour, config, runs, skipMissed, lastAttempt>>
    BY <1>3 DEF Stop, clock
  <2> QED BY <2>1, RunsKept DEF RunsInv, Hour
<1>4. CASE Start
  <2>1. UNCHANGED <<day, hour, config, runs>> /\ skipMissed'
    BY <1>4 DEF Start, clock
  <2> QED BY <2>1, RunsKept DEF RunsInv, Hour
<1>5. CASE Tick
  BY <1>5, TickRuns
<1>6. CASE UNCHANGED serviceVars
  <2>1. UNCHANGED <<day, hour, config, runs, skipMissed, lastAttempt>>
    BY <1>6 DEF serviceVars, clock, service
  <2> QED BY <2>1, RunsKept DEF RunsInv, Hour
<1> QED BY <1>1, <1>2, <1>3, <1>4, <1>5, <1>6 DEF ServiceNext

LEMMA RunsInductive == ServiceSpec => []RunsInv
<1> QED BY InitRuns, NextRuns, PTL DEF ServiceSpec

(* However often the schedule is pushed again, the daemon restarts or the  *)
(* timer fires: no schedule runs twice on a day.                           *)
THEOREM RunsOnceADay == ServiceSpec => []OnceADay
BY RunsInductive, PTL DEF RunsInv

-----------------------------------------------------------------------------
(* An attempt that is still open is for an hour that came after the        *)
(* schedule, the daemon and its devices were in place.                     *)
WatchInv ==
  /\ day \in Day /\ hour \in Hour
  /\ config \in Hour \cup {Off}
  /\ since \in [day : Day, hour : Hour]
  /\ since.day < day \/ (since.day = day /\ since.hour <= hour)
  /\ ~discovered => skipMissed
  /\ config # Off /\ ~skipMissed => lastAttempt = day \/ Before(since, day, config)

LEMMA InitWatch == ServiceInit => WatchInv
BY ClockAssumption DEF ServiceInit, WatchInv, Now, Day, Hour, Off

LEMMA WatchRestarts ==
  ASSUME WatchInv, UNCHANGED clock, since' = Now, skipMissed', config' \in Hour \cup {Off}
  PROVE  WatchInv'
BY DEF WatchInv, clock, Now, Hour, Day

LEMMA EvaluateWatch ==
  ASSUME WatchInv, EvaluateNow, UNCHANGED clock
  PROVE  /\ WatchInv'
         /\ runs' # runs => config <= hour /\ Before(since, day, config)
<1>1. UNCHANGED <<day, hour, config, discovered, since>>
  BY DEF EvaluateNow, clock
<1>2. CASE UNCHANGED <<runs, lastAttempt, skipMissed>>
  BY <1>1, <1>2 DEF WatchInv
<1>3. CASE /\ config # Off /\ discovered /\ skipMissed' = FALSE
           /\ ~(hour >= config /\ lastAttempt # day)
           /\ UNCHANGED <<runs, lastAttempt>>
  <2>1. lastAttempt = day \/ Before(since, day, config)
    BY <1>3 DEF WatchInv, Before, Hour, Day, Off
  <2> QED BY <1>1, <1>3, <2>1 DEF WatchInv, Before
<1>4. CASE /\ config # Off /\ discovered /\ skipMissed' = FALSE
           /\ hour >= config /\ lastAttempt # day /\ lastAttempt' = day
           /\ runs' = IF skipMissed THEN runs ELSE [runs EXCEPT ![day][config] = @ + 1]
  <2>1. WatchInv'
    BY <1>1, <1>4 DEF WatchInv
  <2>2. ~skipMissed => config <= hour /\ Before(since, day, config)
    BY <1>4 DEF WatchInv, Hour, Off
  <2> QED BY <1>4, <2>1, <2>2
<1> QED BY <1>2, <1>3, <1>4 DEF EvaluateNow

LEMMA NextWatch ==
  WatchInv /\ [ServiceNext]_serviceVars =>
    /\ WatchInv'
    /\ runs' # runs => config <= hour /\ Before(since, day, config)
<1> SUFFICES ASSUME WatchInv, [ServiceNext]_serviceVars
             PROVE  /\ WatchInv'
                    /\ runs' # runs => config <= hour /\ Before(since, day, config)
  OBVIOUS
<1>1. CASE ServiceStep
  <2>1. CASE DiscoveryCompletes
    <3>1. /\ UNCHANGED <<runs, clock, config>> /\ since' = Now
          /\ skipMissed' = skipMissed /\ ~discovered
      BY <2>1 DEF DiscoveryCompletes
    <3>2. skipMissed'
      BY <3>1 DEF WatchInv
    <3> QED BY <3>1, <3>2, WatchRestarts DEF WatchInv
  <2> QED BY <1>1, <2>1, EvaluateWatch DEF ServiceStep, Deferred, TimerFires
<1>2. ASSUME NEW c \in Hour \cup {Off}, SetConfig(c)
      PROVE  WatchInv' /\ runs' = runs
  BY <1>2, WatchRestarts DEF SetConfig
<1>3. CASE Start
  <2>1. /\ UNCHANGED <<runs, clock, config>> /\ since' = Now /\ skipMissed'
    BY <1>3 DEF Start
  <2> QED BY <2>1, WatchRestarts DEF WatchInv
<1>4. CASE Tick
  <2>1. UNCHANGED <<config, discovered, lastAttempt, skipMissed, runs, since>>
    BY <1>4 DEF Tick
  <2>2. CASE hour + 1 \in Hour /\ hour' = hour + 1 /\ UNCHANGED day
    BY <2>1, <2>2 DEF WatchInv, Before, Hour, Day
  <2>3. CASE day + 1 \in Day /\ hour' = 0 /\ day' = day + 1
    <3>1. 0 \in Hour /\ since.day < day'
      BY <2>3, ClockAssumption DEF WatchInv, Hour, Day
    <3> QED BY <2>1, <2>3, <3>1 DEF WatchInv, Before
  <2> QED BY <1>4, <2>2, <2>3 DEF Tick
<1>5. CASE Stop \/ UNCHANGED serviceVars
  <2>1. UNCHANGED <<clock, config, discovered, lastAttempt, skipMissed, runs, since>>
    BY <1>5 DEF Stop, serviceVars, service
  <2> QED BY <2>1 DEF WatchInv, clock, Before
<1> QED BY <1>1, <1>2, <1>3, <1>4, <1>5 DEF ServiceNext

(* A missed run is not caught up on, whatever restarts, slow discoveries   *)
(* and changes of the schedule came before it.                             *)
THEOREM MissedRunsStayMissed == ServiceSpec => NoMissedRun
<1>1. WatchInv /\ [ServiceNext]_serviceVars =>
        [runs' # runs => config <= hour /\ Before(since, day, config)]_serviceVars
  BY NextWatch
<1>2. WatchInv /\ [ServiceNext]_serviceVars => WatchInv'
  BY NextWatch
<1> QED BY <1>1, <1>2, InitWatch, PTL DEF ServiceSpec, NoMissedRun
-----------------------------------------------------------------------------
(* A schedule that is in place before its hour is evaluated once in the    *)
(* hour it was put in place in, so that it skips nothing later, and again  *)
(* in every hour after: an hour only passes with the timer checked and     *)
(* nothing queued.                                                         *)
InPlace == running /\ discovered /\ config # Off
Ran(d)  == runs[d][config] = 1

DueInv ==
  /\ RunsInv
  /\ since \in [day : Day, hour : Hour]
  /\ lastAttempt \in Int /\ lastAttempt <= day
  /\ running /\ ~discovered => lastAttempt = NoDate
  /\ queued => since = Now
  /\ running /\ config # Off => queued \/ timer
  /\ InPlace =>
       /\ skipMissed => queued
       /\ lastAttempt = day => config <= hour
       /\ Before(since, day, config) /\ config <= hour
            => (checked \/ lastAttempt = day => Ran(day))
       /\ \A d \in Day : Before(since, d, config) /\ Before([day |-> d, hour |-> config], day, hour)
                         => Ran(d)

LEMMA InitDue == ServiceInit => DueInv
BY InitRuns, ClockAssumption DEF ServiceInit, DueInv, InPlace, Now, Day, Hour, Off, NoDate

(* A schedule, daemon or device list just put in place owes nothing.       *)
LEMMA DueRestarts ==
  ASSUME DueInv, RunsInv', UNCHANGED clock, since' = Now, queued',
         lastAttempt' = NoDate
  PROVE  DueInv'
<1>1. Now \in [day : Day, hour : Hour] /\ Now' = Now /\ UNCHANGED <<day, hour>>
  BY DEF DueInv, RunsInv, Now, clock
<1>2. day \in Int /\ hour \in Int /\ config' \in Int
  BY DEF DueInv, RunsInv, Day, Hour, Off
<1>3. ASSUME NEW d \in Day PROVE ~(Before(Now, d, config') /\ Before([day |-> d, hour |-> config'], day, hour))
  BY <1>2 DEF Before, Now, Day
<1>4. ~(Before(Now, day, config') /\ config' <= hour)
  BY <1>2 DEF Before, Now
<1>5. ASSUME InPlace'
      PROVE  /\ (lastAttempt = day => config <= hour)'
             /\ ~(Before(since, day, config) /\ config <= hour)'
             /\ \A d \in Day : ~(Before(since, d, config)
                                /\ Before([day |-> d, hour |-> config], day, hour))'
  <2>1. lastAttempt' # day'
    BY <1>1 DEF NoDate, DueInv, RunsInv, Day
  <2>2. ~(Before(since', day', config') /\ config' <= hour')
    BY <1>1, <1>4
  <2>3. ASSUME NEW d \in Day
        PROVE  ~(Before(since', d, config') /\ Before([day |-> d, hour |-> config'], day', hour'))
    BY <1>1, <1>3
  <2> QED BY <2>1, <2>2, <2>3 DEF Before
<1>6. lastAttempt' \in Int /\ lastAttempt' <= day'
  BY <1>1, <1>2 DEF NoDate, DueInv, RunsInv, Day
<1> QED BY <1>1, <1>5, <1>6 DEF DueInv

LEMMA EvaluateDue ==
  ASSUME DueInv, EvaluateNow, UNCHANGED clock, queued' => queued
  PROVE  DueInv'
<1>1. RunsInv' /\ UNCHANGED <<day, hour, config, running, discovered, since>> /\ Now' = Now
  BY EvaluateRuns DEF DueInv, EvaluateNow, clock, Now
<1>2. CASE ~InPlace
  <2>1. lastAttempt' = lastAttempt \/ lastAttempt' = day
    BY DEF EvaluateNow
  <2>2. lastAttempt' \in Int /\ lastAttempt' <= day
    BY <2>1 DEF DueInv, RunsInv, Day
  <2>3. running /\ config # Off => timer'
    BY DEF EvaluateNow, ScheduleNextCheck
  <2>4. running /\ ~discovered => lastAttempt' = NoDate
    BY DEF EvaluateNow, DueInv
  <2>5. ~InPlace'
    BY <1>1, <1>2 DEF InPlace
  <2> QED BY <1>1, <2>2, <2>3, <2>4, <2>5 DEF DueInv
<1>3. CASE InPlace
  <2>1. /\ config # Off /\ timer' /\ skipMissed' = FALSE
        /\ IF hour >= config /\ lastAttempt # day
           THEN /\ lastAttempt' = day
                /\ runs' = IF skipMissed THEN runs ELSE [runs EXCEPT ![day][config] = @ + 1]
           ELSE UNCHANGED <<lastAttempt, runs>>
    BY <1>3 DEF EvaluateNow, ScheduleNextCheck, InPlace
  <2>2. /\ day \in Day /\ day \in Int /\ config \in Hour /\ config \in Int /\ hour \in Int
        /\ runs[day] \in [Hour -> Nat] /\ runs \in [Day -> [Hour -> Nat]]
    BY <2>1 DEF DueInv, RunsInv, Day, Hour, Off
  <2>3. lastAttempt' \in Int /\ lastAttempt' <= day /\ (lastAttempt' = day => config <= hour)
    BY <1>3, <2>1, <2>2 DEF DueInv
  <2>4. ASSUME NEW d \in Day, d # day PROVE runs'[d] = runs[d]
    BY <2>1, <2>2, <2>4
  <2>5. ASSUME Before(since, day, config), config <= hour PROVE runs'[day][config] = 1
    <3>1. CASE lastAttempt = day
      BY <1>3, <2>1, <2>5, <3>1 DEF DueInv, Ran
    <3>2. CASE lastAttempt # day
      <4>1. ~skipMissed
        <5>1. since # Now
          BY <2>2, <2>5 DEF Before, Now
        <5> QED BY <1>3, <5>1 DEF DueInv
      <4>2. runs[day][config] = 0
        BY <2>1, <2>2, <3>2, <4>1 DEF DueInv, RunsInv
      <4> QED BY <2>1, <2>2, <2>5, <3>2, <4>1, <4>2
    <3> QED BY <3>1, <3>2
  <2>6. ASSUME NEW d \in Day, Before(since, d, config),
               Before([day |-> d, hour |-> config], day, hour)
        PROVE  runs'[d][config] = 1
    <3>1. CASE d = day
      BY <2>2, <2>5, <2>6, <3>1 DEF Before
    <3>2. CASE d # day
      BY <1>3, <2>4, <2>6, <3>2 DEF DueInv, Ran
    <3> QED BY <3>1, <3>2
  <2>7. InPlace' =>
         /\ lastAttempt' = day' => config' <= hour'
         /\ Before(since', day', config') /\ config' <= hour' => runs'[day'][config'] = 1
         /\ \A d \in Day : Before(since', d, config')
                           /\ Before([day |-> d, hour |-> config'], day', hour')
                           => runs'[d][config'] = 1
    BY <1>1, <2>3, <2>5, <2>6
  <2>8. running' /\ discovered'
    BY <1>1, <1>3 DEF InPlace
  <2> QED BY <1>1, <2>1, <2>3, <2>7, <2>8 DEF DueInv, Ran, Before
<1> QED BY <1>2, <1>3

LEMMA TickDue == ASSUME DueInv, Tick PROVE DueInv'
<1>1. /\ UNCHANGED <<config, running, discovered, lastAttempt, skipMissed, timer, queued, runs, since>>
      /\ ~checked' /\ ~queued /\ (timer => checked)
  BY DEF Tick
<1>2. RunsInv'
  BY TickRuns DEF DueInv
<1>3. /\ day \in Day /\ day \in Int /\ hour \in Int /\ config \in Int /\ day' \in Int
      /\ hour' \in Int /\ hour < Hours /\ Hours \in Int /\ day <= day'
      /\ config < Hours
      /\ (config # Off => config \in Nat)
      /\ (hour' = hour + 1 /\ day' = day) \/ (hour' = 0 /\ hour + 1 >= Hours /\ day' = day + 1)
  <2>1. /\ day \in Day /\ day \in Int /\ hour \in Int /\ hour < Hours /\ Hours \in Int
        /\ config \in Int /\ config < Hours /\ (config # Off => config \in Nat)
    BY ClockAssumption DEF DueInv, RunsInv, Day, Hour, Off
  <2>2. CASE hour + 1 \in Hour /\ hour' = hour + 1 /\ UNCHANGED day
    BY <2>1, <2>2
  <2>3. CASE hour + 1 \notin Hour /\ hour' = 0 /\ day' = day + 1
    <3>1. hour + 1 >= Hours
      BY <2>1, <2>3 DEF DueInv, RunsInv, Hour
    <3> QED BY <2>1, <2>3, <3>1
  <2> QED BY <2>2, <2>3 DEF Tick
<1>4. CASE ~InPlace
  BY <1>1, <1>2, <1>3, <1>4 DEF DueInv, InPlace
<1>5. CASE InPlace
  <2>1. checked
    BY <1>1, <1>5 DEF DueInv, InPlace
  <2>2. lastAttempt = day' => config <= hour'
    BY <1>3, <1>5 DEF DueInv
  <2>3. ASSUME NEW d \in Day, Before(since, d, config),
               Before([day |-> d, hour |-> config], day', hour')
        PROVE  Ran(d)
    <3>1. CASE Before([day |-> d, hour |-> config], day, hour)
      BY <1>5, <2>3, <3>1 DEF DueInv
    <3>2. CASE ~Before([day |-> d, hour |-> config], day, hour)
      <4>1. d = day /\ config <= hour
        <5>1. d \in Int /\ config \in Nat
          BY <1>3, <1>5 DEF Day, InPlace
        <5>2. d < day' \/ (d = day' /\ config < hour')
          BY <2>3 DEF Before
        <5>3. ~(d < day) /\ ~(d = day /\ config < hour)
          BY <3>2 DEF Before
        <5> QED BY <1>3, <5>1, <5>2, <5>3
      <4> QED BY <1>5, <2>1, <2>3, <4>1 DEF DueInv
    <3> QED BY <3>1, <3>2
  <2>4. lastAttempt = day' => day' = day
    BY <1>3 DEF DueInv
  <2>5. Before(since', day', config') /\ config' <= hour' /\ lastAttempt' = day' => Ran(day)
    <3>1. SUFFICES ASSUME Before(since, day, config), config <= hour', lastAttempt = day, day' = day
                   PROVE  Ran(day)
      BY <1>1, <2>4
    <3>2. config <= hour
      BY <1>5, <3>1 DEF DueInv
    <3> QED BY <1>5, <2>1, <3>1, <3>2 DEF DueInv
  <2> QED BY <1>1, <1>2, <1>3, <1>5, <2>2, <2>3, <2>4, <2>5 DEF DueInv, InPlace, Ran
<1> QED BY <1>4, <1>5

LEMMA NextDue == DueInv /\ [ServiceNext]_serviceVars => DueInv'
<1> SUFFICES ASSUME DueInv, [ServiceNext]_serviceVars PROVE DueInv'
  OBVIOUS
<1>0. RunsInv'
  BY NextRuns DEF DueInv
<1>1. CASE ServiceStep
  <2>1. CASE Deferred \/ TimerFires
    BY <2>1, EvaluateDue DEF Deferred, TimerFires
  <2>2. CASE DiscoveryCompletes
    <3>1. UNCHANGED clock /\ since' = Now /\ queued' /\ lastAttempt' = NoDate
      BY <2>2 DEF DiscoveryCompletes, DueInv
    <3> QED BY <2>2, <1>0, <3>1, DueRestarts
  <2> QED BY <1>1, <2>1, <2>2 DEF ServiceStep
<1>2. ASSUME NEW c \in Hour \cup {Off}, SetConfig(c) PROVE DueInv'
  <2>1. UNCHANGED clock /\ since' = Now /\ queued' /\ lastAttempt' = NoDate
    BY <1>2 DEF SetConfig
  <2> QED BY <1>0, <2>1, DueRestarts
<1>3. CASE Start
  <2>1. UNCHANGED clock /\ since' = Now /\ queued' /\ lastAttempt' = NoDate
    BY <1>3 DEF Start
  <2> QED BY <1>0, <2>1, DueRestarts
<1>4. CASE Tick
  BY <1>4, TickDue
<1>5. CASE Stop
  BY <1>0, <1>5 DEF Stop, DueInv, InPlace, clock, Now
<1>6. CASE UNCHANGED serviceVars
  BY <1>0, <1>6 DEF serviceVars, clock, service, DueInv, InPlace, Ran, Now, Before
<1> QED BY <1>1, <1>2, <1>3, <1>4, <1>5, <1>6 DEF ServiceNext

(* A due run is not lost, for days of any length: once the hour of a       *)
(* schedule that was in place before it is over, the schedule has run.     *)
THEOREM DueRunsHappen == ServiceSpec => []DueRunHappens
<1>1. DueInv => DueRunHappens
  BY DEF DueInv, InPlace, Ran, DueRunHappens
<1> QED BY <1>1, InitDue, NextDue, PTL DEF ServiceSpec

-----------------------------------------------------------------------------
(* The bridge and the service it drives.                                   *)

LEMMA CallTypes ==
  ASSUME TypeOK, NEW kind \in {"list", "put", "set"}
  PROVE  CallAsync(kind) \in Seq(Call)
<1>1. [kind |-> kind, schedule |-> schedule, waiting |-> TRUE] \in Call
  BY DEF TypeOK, Call
<1> QED BY <1>1, AppendProperties DEF TypeOK, CallAsync

LEMMA RunnerTypes ==
  /\ FreshRunner \in Runner
  /\ \A r \in Runner : ResetAndSchedule(r) \in Runner
BY DEF Runner, FreshRunner, ResetAndSchedule

LEMMA SuspendTypes ==
  ASSUME TypeOK, NEW own \in BOOLEAN, SetDaemonOwnsSchedule(own)
  PROVE  owned' \in BOOLEAN /\ runner' \in Runner
<1>1. runner \in Runner
  BY DEF TypeOK
<1>2. [runner EXCEPT !.timer = FALSE] \in Runner
  BY <1>1 DEF Runner
<1> QED BY <1>1, <1>2, RunnerTypes DEF SetDaemonOwnsSchedule, SetSuspended

(* Every step of the two processes is a step of the daemon's service, as   *)
(* ScheduleService has it, or none.                                        *)
LEMMA ServiceSimulation ==
  ASSUME TypeOK, [Next]_vars
  PROVE  [ServiceNext]_serviceVars
<1>1. CASE HandleRequest
  <2>1. CASE requests # <<>> /\ running /\ Head(requests).kind = "set" /\ SetConfig(Head(requests).schedule)
    <3>1. requests \in Seq(Call)
      BY DEF TypeOK
    <3>2. Head(requests) \in Call
      BY <2>1, <3>1, HeadTailProperties
    <3>3. Head(requests).schedule \in Hour \cup {Off}
      BY <3>2 DEF Call
    <3> QED BY <2>1, <3>3 DEF ServiceNext
  <2>2. CASE UNCHANGED serviceVars
    BY <2>2
  <2> QED BY <1>1, <2>1, <2>2 DEF HandleRequest
<1>2. CASE ServiceRuns
  BY <1>2 DEF ServiceRuns, ServiceNext
<1>3. CASE DaemonStarts
  BY <1>3 DEF DaemonStarts, ServiceNext
<1>4. CASE DaemonStops
  BY <1>4 DEF DaemonStops, ServiceNext
<1>5. CASE HourPasses
  BY <1>5 DEF HourPasses, ServiceNext
<1>6. CASE Gui
  BY <1>6 DEF Gui, RunnerDeferred, RunnerTimerFires, EvaluateOwnership, PushNow,
              RefreshDevices, ReadReply
<1>7. ASSUME NEW s \in Hour \cup {Off}, EditSchedule(s) PROVE UNCHANGED serviceVars
  BY <1>7 DEF EditSchedule
<1>8. ASSUME NEW i \in DOMAIN requests, CallTimesOut(i) PROVE UNCHANGED serviceVars
  BY <1>8 DEF CallTimesOut
<1>9. CASE \/ ProfilesChanged \/ Rescan \/ ConnectionLost \/ GuiRestarts
           \/ Connect \/ ConnectFails
  BY <1>9 DEF ProfilesChanged, Rescan, ConnectionLost, GuiRestarts, Connect, ConnectFails
<1>10. CASE UNCHANGED vars
  BY <1>10 DEF vars
<1> QED BY <1>1, <1>2, <1>3, <1>4, <1>5, <1>6, <1>7, <1>8, <1>9, <1>10
        DEF Next, Environment

LEMMA RunnerEvaluatesTypes ==
  ASSUME TypeOK, NEW r \in Runner, RunnerEvaluates(r)
  PROVE  runner' \in Runner /\ localRuns' \in [Day -> [Hour -> Nat]]
<1>1. day \in Day /\ localRuns \in [Day -> [Hour -> Nat]] /\ schedule \in Hour \cup {Off}
  BY DEF TypeOK, ServiceTypeOK
<1>2. runner' \in Runner
  BY <1>1 DEF RunnerEvaluates, Runner
<1>3. CASE localRuns' = localRuns
  BY <1>1, <1>2, <1>3
<1>4. CASE schedule # Off /\ localRuns' = [localRuns EXCEPT ![day][schedule] = @ + 1]
  <2>1. localRuns[day] \in [Hour -> Nat] /\ schedule \in Hour
    BY <1>1, <1>4
  <2>2. [localRuns[day] EXCEPT ![schedule] = localRuns[day][schedule] + 1] \in [Hour -> Nat]
    BY <2>1
  <2>3. localRuns' = [localRuns EXCEPT ![day] =
                        [localRuns[day] EXCEPT ![schedule] = localRuns[day][schedule] + 1]]
    BY <1>4
  <2> QED BY <1>1, <1>2, <2>2, <2>3
<1> QED BY <1>3, <1>4 DEF RunnerEvaluates

LEMMA BridgeTypesInit == Init => TypeOK
<1> SUFFICES ASSUME Init PROVE TypeOK
  OBVIOUS
<1>1. ServiceTypeOK
  BY InitTypes DEF Init
<1>2. <<>> \in Seq(Call) /\ <<>> \in Seq(Reply)
  BY EmptySeq
<1>3. localRuns \in [Day -> [Hour -> Nat]]
  BY DEF Init
<1>4. edits \in 0 .. MaxEdits /\ drops \in 0 .. MaxDrops
  BY BridgeAssumption DEF Init
<1> QED BY <1>1, <1>2, <1>3, <1>4, RunnerTypes DEF Init, TypeOK

LEMMA BridgeTypesNext == TypeOK /\ [Next]_vars => TypeOK'
<1> SUFFICES ASSUME TypeOK, [Next]_vars PROVE TypeOK'
  OBVIOUS
<1>0. ServiceTypeOK'
  BY ServiceSimulation, NextTypes DEF TypeOK
<1>a. requests \in Seq(Call) /\ replies \in Seq(Reply) /\ runner \in Runner
  BY DEF TypeOK
<1>b. <<>> \in Seq(Call) /\ <<>> \in Seq(Reply)
  BY EmptySeq
<1>c. drops < MaxDrops => drops + 1 \in 0 .. MaxDrops
  BY BridgeAssumption DEF TypeOK
<1> USE DEF TypeOK, bridge, client
<1>1. CASE RunnerDeferred
  <2>1. [runner EXCEPT !.queued = FALSE] \in Runner
    BY <1>a DEF Runner
  <2>2. runner' \in Runner /\ localRuns' \in [Day -> [Hour -> Nat]]
    BY <1>1, <2>1, RunnerEvaluatesTypes DEF RunnerDeferred
  <2> QED BY <1>0, <1>1, <2>2 DEF RunnerDeferred
<1>2. CASE RunnerTimerFires
  <2>1. runner' \in Runner /\ localRuns' \in [Day -> [Hour -> Nat]]
    BY <1>2, <1>a, RunnerEvaluatesTypes DEF RunnerTimerFires
  <2> QED BY <1>0, <1>2, <2>1 DEF RunnerTimerFires
<1>3. CASE EvaluateOwnership
  <2>1. owned' \in BOOLEAN /\ runner' \in Runner
    BY <1>3, <1>a, SuspendTypes DEF EvaluateOwnership
  <2> QED BY <1>0, <1>3, <2>1 DEF EvaluateOwnership
<1>4. CASE PushNow
  <2>1. requests' \in Seq(Call)
    BY <1>4, <1>a, CallTypes DEF PushNow
  <2> QED BY <1>0, <1>4, <2>1 DEF PushNow
<1>5. CASE RefreshDevices
  BY <1>0, <1>5, CallTypes DEF RefreshDevices
<1>6. CASE ReadReply
  <2>1. replies' \in Seq(Reply)
    BY <1>6, <1>a, HeadTailProperties DEF ReadReply
  <2>2. owned' \in BOOLEAN /\ runner' \in Runner
    BY <1>6, <1>a, SuspendTypes DEF ReadReply
  <2>3. requests' \in Seq(Call)
    BY <1>6, <1>a, CallTypes DEF ReadReply
  <2>4. refresh' \in {"none", "queued", "busy"} /\ supported' \in BOOLEAN
        /\ versionKnown' \in BOOLEAN /\ evaluating' \in BOOLEAN /\ supportSeen' \in BOOLEAN
    BY <1>6 DEF ReadReply
  <2> QED BY <1>0, <1>6, <2>1, <2>2, <2>3, <2>4 DEF ReadReply
<1>7. ASSUME NEW s \in Hour \cup {Off}, EditSchedule(s) PROVE TypeOK'
  BY <1>0, <1>7, <1>a, RunnerTypes, BridgeAssumption DEF EditSchedule
<1>8. CASE ProfilesChanged
  BY <1>0, <1>8, BridgeAssumption DEF ProfilesChanged
<1>9. CASE Rescan
  BY <1>0, <1>9, CallTypes, BridgeAssumption DEF Rescan
<1>10. CASE ConnectionLost
  BY <1>0, <1>10, <1>b, <1>c DEF ConnectionLost, Disconnected, FailPendingCalls
<1>11. ASSUME NEW i \in DOMAIN requests, CallTimesOut(i) PROVE TypeOK'
  <2>1. i \in 1 .. Len(requests) /\ i \in Int
    BY <1>a
  <2>2. requests[i] \in Call
    BY <1>a, <2>1
  <2>3. [requests EXCEPT ![i].waiting = FALSE] \in Seq(Call)
    <3>1. [requests[i] EXCEPT !.waiting = FALSE] \in Call
      BY <2>2 DEF Call
    <3> QED BY <1>a, <2>1, <3>1
  <2>4. SubSeq(requests, 1, i - 1) \in Seq(Call)
    BY <1>a, <2>1, SubSeqProperties
  <2>5. SubSeq(requests, i + 1, Len(requests)) \in Seq(Call)
    BY <1>a, <2>1, SubSeqProperties
  <2>6. SubSeq(requests, 1, i - 1) \o SubSeq(requests, i + 1, Len(requests)) \in Seq(Call)
    BY <2>4, <2>5, ConcatProperties
  <2>7. requests' \in Seq(Call)
    BY <1>11, <2>3, <2>6 DEF CallTimesOut
  <2> QED BY <1>0, <1>11, <2>7 DEF CallTimesOut
<1>12. CASE DaemonStops
  <2>1. CASE connected
    <3>1. UNCHANGED <<schedule, owned, supportSeen, pushing, versionKnown, runner, localRuns, edits>>
          /\ drops' \in 0 .. MaxDrops /\ oldDaemon' \in BOOLEAN
      BY <1>12, <1>c DEF DaemonStops
    <3>2. Disconnected
      BY <1>12, <2>1 DEF DaemonStops
    <3> QED BY <1>0, <1>b, <3>1, <3>2 DEF Disconnected, FailPendingCalls
  <2>2. CASE ~connected
    <3>1. UNCHANGED <<schedule, owned, supportSeen, pushing, versionKnown, runner, localRuns, edits>>
          /\ drops' \in 0 .. MaxDrops /\ oldDaemon' \in BOOLEAN
      BY <1>12, <1>c DEF DaemonStops
    <3>2. UNCHANGED <<connected, supported, evaluating, requests, replies, refresh>>
      BY <1>12, <2>2 DEF DaemonStops
    <3> QED BY <1>0, <3>1, <3>2
  <2> QED BY <2>1, <2>2
<1>13. CASE GuiRestarts
  BY <1>0, <1>13, <1>b, RunnerTypes, <1>c DEF GuiRestarts
<1>14. CASE HourPasses
  <2>1. [runner EXCEPT !.checked = FALSE] \in Runner
    BY <1>a DEF Runner
  <2> QED BY <1>0, <1>14, <2>1 DEF HourPasses
<1>15. CASE Connect
  BY <1>0, <1>15 DEF Connect
<1>16. CASE ConnectFails
  BY <1>0, <1>16, <1>b DEF ConnectFails, FailPendingCalls
<1>17. CASE HandleRequest
  <2>1. Head(requests) \in Call /\ requests' \in Seq(Call)
    BY <1>17, <1>a, HeadTailProperties DEF HandleRequest
  <2>2. \A answer \in {"ok", "unsupported"} :
          [kind |-> Head(requests).kind, answer |-> answer] \in Reply
    BY <2>1 DEF Call, Reply
  <2>3. replies' \in Seq(Reply)
    BY <1>17, <1>a, <2>2, AppendProperties DEF HandleRequest
  <2> QED BY <1>0, <1>17, <2>1, <2>3 DEF HandleRequest
<1>18. CASE ServiceRuns
  BY <1>0, <1>18 DEF ServiceRuns
<1>19. CASE DaemonStarts
  BY <1>0, <1>19 DEF DaemonStarts
<1>20. CASE UNCHANGED vars
  BY <1>0, <1>20 DEF vars
<1> QED BY <1>1, <1>2, <1>3, <1>4, <1>5, <1>6, <1>7, <1>8, <1>9, <1>10, <1>11, <1>12,
           <1>13, <1>14, <1>15, <1>16, <1>17, <1>18, <1>19, <1>20 DEF Next, Gui, Environment

(* Type correctness of both processes. *)
THEOREM BridgeTypeCorrect == Spec => []TypeOK
BY BridgeTypesInit, BridgeTypesNext, PTL DEF Spec

(* The daemon, as the GUI drives it, is the service that ScheduleService   *)
(* specifies: what is proved there holds with the GUI's pushes, the lost   *)
(* connections and the restarts.                                           *)
THEOREM BridgeRunsService == Spec => ServiceSpec
<1>1. Init => ServiceInit
  BY DEF Init
<1>2. TypeOK /\ [Next]_vars => [ServiceNext]_serviceVars
  BY ServiceSimulation
<1> QED BY <1>1, <1>2, BridgeTypeCorrect, PTL DEF Spec, ServiceSpec

-----------------------------------------------------------------------------
(* As for the service: nothing has run in the future, and a schedule that  *)
(* has run today has had today's attempt, or the runner skips a missed run.*)
RunnerInv ==
  /\ RunnerOnceADay
  /\ \A d \in Day, h \in Hour :
       localRuns[d][h] > 0 => d < day \/ (d = day /\ h <= hour)
  /\ schedule # Off /\ localRuns[day][schedule] > 0 => runner.skip \/ runner.last = day

LEMMA RunnerRuns ==
  ASSUME TypeOK, RunnerInv, NEW r \in Runner, r.last = runner.last, r.skip = runner.skip,
         RunnerEvaluates(r), UNCHANGED <<serviceVars, schedule>>
  PROVE  RunnerInv'
<1>1. UNCHANGED <<day, hour, schedule>>
  BY DEF serviceVars, clock
<1>2. day \in Day /\ hour \in Hour /\ localRuns \in [Day -> [Hour -> Nat]] /\ Hour \subseteq Int
      /\ schedule \in Hour \cup {Off} /\ runner \in Runner
  BY DEF TypeOK, ServiceTypeOK, Hour
<1>3. CASE localRuns' = localRuns /\ runner'.last = r.last /\ runner'.skip = r.skip
  BY <1>1, <1>3 DEF RunnerInv, RunnerOnceADay
<1>4. CASE schedule # Off /\ hour < schedule
  <2>1. ~(localRuns[day][schedule] > 0)
    BY <1>2, <1>4 DEF RunnerInv, Day
  <2>2. CASE owned
    BY <1>3, <2>2 DEF RunnerEvaluates
  <2>3. localRuns' = localRuns
    BY <1>2, <1>4 DEF RunnerEvaluates
  <2> QED BY <1>1, <2>1, <2>3 DEF RunnerInv, RunnerOnceADay
<1>5. CASE schedule # Off /\ ~owned /\ hour >= schedule
  <2>1. runner'.last = day
    BY <1>2, <1>5 DEF RunnerEvaluates, Runner
  <2>2. CASE runner.last = day \/ runner.skip
    <3>1. localRuns' = localRuns
      BY <1>5, <2>2 DEF RunnerEvaluates
    <3> QED BY <1>1, <2>1, <3>1 DEF RunnerInv, RunnerOnceADay
  <2>3. CASE runner.last # day /\ ~runner.skip
    <3>1. schedule \in Hour /\ localRuns[day] \in [Hour -> Nat]
      BY <1>2, <1>5
    <3>2. localRuns[day][schedule] = 0
      BY <1>2, <1>5, <2>3, <3>1 DEF RunnerInv
    <3>3. localRuns' = [localRuns EXCEPT ![day] = [localRuns[day] EXCEPT ![schedule] = 1]]
      BY <1>5, <2>3, <3>2 DEF RunnerEvaluates
    <3>4. \A d \in Day, h \in Hour :
            localRuns'[d][h] = IF d = day /\ h = schedule THEN 1 ELSE localRuns[d][h]
      BY <1>2, <3>1, <3>3
    <3>5. RunnerOnceADay'
      BY <3>4 DEF RunnerInv, RunnerOnceADay
    <3>6. \A d \in Day, h \in Hour :
            localRuns'[d][h] > 0 => d < day' \/ (d = day' /\ h <= hour')
      BY <1>1, <1>2, <1>5, <3>4 DEF RunnerInv
    <3> QED BY <1>1, <2>1, <3>5, <3>6 DEF RunnerInv
  <2> QED BY <2>2, <2>3
<1>6. CASE owned \/ schedule = Off
  BY <1>3, <1>6, <1>2 DEF RunnerEvaluates, Runner
<1> QED BY <1>2, <1>4, <1>5, <1>6

(* Steps in which the runner does not run keep it, if it forgets an        *)
(* attempt only to skip what it missed.                                    *)
LEMMA RunnerKept ==
  ASSUME RunnerInv, UNCHANGED <<day, hour, localRuns>>,
         \/ runner'.skip = TRUE
         \/ UNCHANGED schedule /\ runner'.skip = runner.skip /\ runner'.last = runner.last
  PROVE  RunnerInv'
BY DEF RunnerInv, RunnerOnceADay

LEMMA HourRuns == ASSUME TypeOK, RunnerInv, HourPasses PROVE RunnerInv'
<1>1. UNCHANGED <<localRuns, schedule>> /\ Tick
  BY DEF HourPasses
<1>2. runner \in Runner /\ day \in Day /\ hour \in Hour /\ schedule \in Hour \cup {Off}
  BY DEF TypeOK, ServiceTypeOK
<1>3. runner'.skip = runner.skip /\ runner'.last = runner.last
  BY <1>2 DEF HourPasses, Runner
<1>4. CASE hour + 1 \in Hour /\ hour' = hour + 1 /\ UNCHANGED day
  BY <1>1, <1>2, <1>3, <1>4 DEF RunnerInv, RunnerOnceADay, Hour, Day
<1>5. CASE day + 1 \in Day /\ hour' = 0 /\ day' = day + 1
  <2>1. \A d \in Day, h \in Hour : localRuns[d][h] > 0 => d < day'
    BY <1>2, <1>5 DEF RunnerInv, Day, Hour
  <2>2. schedule # Off => ~(localRuns[day'][schedule] > 0)
    BY <1>2, <1>5, <2>1 DEF Day
  <2> QED BY <1>1, <2>1, <2>2 DEF RunnerInv, RunnerOnceADay
<1> QED BY <1>1, <1>4, <1>5 DEF Tick

LEMMA NextRunner == ASSUME TypeOK, RunnerInv, [Next]_vars PROVE RunnerInv'
<1>a. runner \in Runner
  BY DEF TypeOK
<1>b. ASSUME NEW own \in BOOLEAN, SetDaemonOwnsSchedule(own)
      PROVE  \/ runner'.skip = TRUE
             \/ runner'.skip = runner.skip /\ runner'.last = runner.last
  BY <1>a, <1>b DEF SetDaemonOwnsSchedule, SetSuspended, ResetAndSchedule, Runner
<1> USE DEF bridge, client, serviceVars, clock
<1>1. CASE RunnerDeferred
  <2>1. [runner EXCEPT !.queued = FALSE] \in Runner
        /\ [runner EXCEPT !.queued = FALSE].last = runner.last
        /\ [runner EXCEPT !.queued = FALSE].skip = runner.skip
    BY <1>a DEF Runner
  <2> QED BY <1>1, <2>1, RunnerRuns DEF RunnerDeferred
<1>2. CASE RunnerTimerFires
  BY <1>2, <1>a, RunnerRuns DEF RunnerTimerFires
<1>3. CASE EvaluateOwnership
  <2>1. UNCHANGED <<day, hour, localRuns, schedule>>
    BY <1>3 DEF EvaluateOwnership
  <2>2. \/ runner'.skip = TRUE
        \/ runner'.skip = runner.skip /\ runner'.last = runner.last
    BY <1>3, <1>b DEF EvaluateOwnership, TypeOK
  <2> QED BY <2>1, <2>2, RunnerKept
<1>4. CASE ReadReply
  <2>1. UNCHANGED <<day, hour, localRuns, schedule>>
    BY <1>4 DEF ReadReply
  <2>2. \/ runner'.skip = TRUE
        \/ runner'.skip = runner.skip /\ runner'.last = runner.last
    BY <1>4, <1>b DEF ReadReply
  <2> QED BY <2>1, <2>2, RunnerKept
<1>5. ASSUME NEW s \in Hour \cup {Off}, EditSchedule(s) PROVE RunnerInv'
  <2>1. runner'.skip = TRUE
    BY <1>5, <1>a DEF EditSchedule, ResetAndSchedule, Runner
  <2> QED BY <1>5, <2>1, RunnerKept DEF EditSchedule
<1>6. CASE GuiRestarts
  BY <1>6, RunnerKept DEF GuiRestarts, FreshRunner
<1>7. CASE HourPasses
  BY <1>7, HourRuns
<1>8. UNCHANGED <<day, hour, localRuns, schedule, runner>> => RunnerInv'
  BY RunnerKept
<1>9. CASE PushNow \/ RefreshDevices
  BY <1>8, <1>9 DEF PushNow, RefreshDevices
<1>10. CASE ProfilesChanged \/ Rescan \/ ConnectionLost \/ Connect \/ ConnectFails
  BY <1>8, <1>10 DEF ProfilesChanged, Rescan, ConnectionLost, Connect, ConnectFails
<1>11. ASSUME NEW i \in DOMAIN requests, CallTimesOut(i) PROVE RunnerInv'
  BY <1>8, <1>11 DEF CallTimesOut
<1>12. CASE DaemonStops
  BY <1>8, <1>12 DEF DaemonStops, Stop
<1>13. CASE DaemonStarts
  BY <1>8, <1>13 DEF DaemonStarts, Start
<1>14. CASE HandleRequest
  BY <1>8, <1>14 DEF HandleRequest, SetConfig
<1>15. CASE ServiceRuns
  <2>1. UNCHANGED <<day, hour>>
    BY <1>15 DEF ServiceRuns, ServiceStep, Deferred, TimerFires, DiscoveryCompletes
  <2> QED BY <1>8, <1>15, <2>1 DEF ServiceRuns
<1>16. CASE UNCHANGED vars
  BY <1>8, <1>16 DEF vars
<1> QED BY <1>1, <1>2, <1>3, <1>4, <1>5, <1>6, <1>7, <1>9, <1>10, <1>11, <1>12, <1>13,
           <1>14, <1>15, <1>16 DEF Next, Gui, Environment

(* The GUI runs a schedule at most once a day, over changes of ownership,  *)
(* changed settings, restarts and calls that time out.                     *)
THEOREM RunnerRunsOnceADay == Spec => []RunnerOnceADay
<1>1. Init => RunnerInv
  <2> SUFFICES ASSUME Init PROVE RunnerInv
    OBVIOUS
  <2>1. \A d \in Day, h \in Hour : localRuns[d][h] = 0
    BY DEF Init
  <2>2. day \in Day
    BY BridgeTypesInit DEF TypeOK, ServiceTypeOK
  <2>3. schedule # Off => schedule \in Hour
    BY DEF Init
  <2> QED BY <2>1, <2>2, <2>3 DEF RunnerInv, RunnerOnceADay
<1>2. TypeOK /\ RunnerInv /\ [Next]_vars => RunnerInv'
  BY NextRunner
<1>3. RunnerInv => RunnerOnceADay
  BY DEF RunnerInv
<1> QED BY <1>1, <1>2, <1>3, BridgeTypeCorrect, PTL DEF Spec

-----------------------------------------------------------------------------
(* Who owns the schedule, when calls on a live connection are answered.    *)

Outstanding(kind) ==
  \/ \E i \in DOMAIN requests : requests[i].kind = kind
  \/ \E i \in DOMAIN replies : replies[i].kind = kind

(* What the GUI knows of the daemon is of the connected one; a list is     *)
(* requested until it is known whether that daemon has the service; and an *)
(* evaluation is due until the ownership agrees with what is known.        *)
OwnerInv ==
  /\ ~(running /\ oldDaemon)
  /\ connected => running \/ oldDaemon
  /\ supported => connected /\ running
  /\ replies # <<>> => connected
  /\ \A i \in DOMAIN replies : replies[i].answer = "ok" <=> running
  /\ \A i \in DOMAIN requests : requests[i].waiting
  /\ refresh = "busy" => Outstanding("list")
  /\ connected /\ refresh = "none" => versionKnown /\ (supported <=> running)
  /\ supportSeen => owned
  /\ connected /\ supportSeen => supported
  /\ ~evaluating => (supportSeen <=> supported)
  /\ ~evaluating /\ connected /\ versionKnown /\ ~supported => ~owned

(* The last schedule the daemon will have got is the one in the settings.  *)
LastSetIsCurrent ==
  \/ config = schedule /\ \A i \in DOMAIN requests : requests[i].kind # "set"
  \/ \E i \in DOMAIN requests :
       /\ requests[i].kind = "set" /\ requests[i].schedule = schedule
       /\ \A j \in DOMAIN requests : requests[j].kind = "set" => j <= i

MirrorInv ==
  supported /\ supportSeen => pushing \/ Outstanding("put") \/ LastSetIsCurrent

(* Calls are appended, handled in order, or, while there is no connection, *)
(* given up.                                                               *)
LEMMA CallFacts ==
  ASSUME TypeOK, NEW kind \in {"list", "put", "set"}, requests' = CallAsync(kind)
  PROVE  /\ \A i \in DOMAIN requests : i \in DOMAIN requests' /\ requests'[i] = requests[i]
         /\ \A i \in DOMAIN requests' : i \in DOMAIN requests \/ i = Len(requests) + 1
         /\ Len(requests) + 1 \in DOMAIN requests'
         /\ requests'[Len(requests) + 1] = [kind |-> kind, schedule |-> schedule, waiting |-> TRUE]
         /\ \A i \in DOMAIN requests : i <= Len(requests) + 1
<1>1. requests \in Seq(Call)
  BY DEF TypeOK
<1>2. [kind |-> kind, schedule |-> schedule, waiting |-> TRUE] \in Call
  BY DEF TypeOK, Call
<1> QED BY <1>1, <1>2, AppendProperties DEF CallAsync

LEMMA TailFacts ==
  ASSUME NEW S, NEW s \in Seq(S), s # <<>>
  PROVE  /\ 1 \in DOMAIN s /\ Head(s) = s[1]
         /\ \A i \in DOMAIN Tail(s) : i + 1 \in DOMAIN s /\ Tail(s)[i] = s[i + 1]
         /\ \A i \in DOMAIN s : i # 1 => \E j \in DOMAIN Tail(s) : j + 1 = i /\ Tail(s)[j] = s[i]
<1>1. Tail(s) \in Seq(S) /\ Len(Tail(s)) = Len(s) - 1
      /\ \A i \in 1 .. Len(Tail(s)) : Tail(s)[i] = s[i + 1]
  BY HeadTailProperties
<1>2. Len(s) \in Nat /\ Len(s) > 0 /\ DOMAIN s = 1 .. Len(s) /\ DOMAIN Tail(s) = 1 .. Len(s) - 1
  BY <1>1
<1>3. ASSUME NEW i \in DOMAIN s, i # 1 PROVE \E j \in DOMAIN Tail(s) : j + 1 = i /\ Tail(s)[j] = s[i]
  <2>1. i \in Int /\ i - 1 \in 1 .. Len(s) - 1 /\ (i - 1) + 1 = i
    BY <1>2, <1>3
  <2> QED BY <1>1, <1>2, <2>1
<1> QED BY <1>1, <1>2, <1>3

GivenUp(s, i) == SubSeq(s, 1, i - 1) \o SubSeq(s, i + 1, Len(s))

LEMMA GivenUpFacts ==
  ASSUME NEW S, NEW s \in Seq(S), NEW i \in DOMAIN s
  PROVE  /\ \A j \in DOMAIN GivenUp(s, i) : \E k \in DOMAIN s : GivenUp(s, i)[j] = s[k]
         /\ \A k \in DOMAIN s : k # i =>
              \E j \in DOMAIN GivenUp(s, i) : GivenUp(s, i)[j] = s[k]
<1> DEFINE t == GivenUp(s, i)
           a == SubSeq(s, 1, i - 1)
           b == SubSeq(s, i + 1, Len(s))
<1>1. i \in 1 .. Len(s) /\ Len(s) \in Nat /\ DOMAIN s = 1 .. Len(s)
  OBVIOUS
<1>2. a \in Seq(S) /\ Len(a) = i - 1 /\ \A k \in 1 .. i - 1 : a[k] = s[k]
  BY <1>1, SubSeqProperties
<1>3. b \in Seq(S) /\ Len(b) = Len(s) - i /\ \A k \in 1 .. Len(s) - i : b[k] = s[i + k]
  <2>1. \A k \in i + 1 .. Len(s) : s[k] \in S
    BY <1>1
  <2>2. b \in Seq(S) /\ Len(b) = (IF i + 1 <= Len(s) THEN Len(s) - (i + 1) + 1 ELSE 0)
        /\ \A k \in 1 .. Len(s) - (i + 1) + 1 : b[k] = s[i + 1 + k - 1]
    BY <1>1, <2>1, SubSeqProperties
  <2> QED BY <1>1, <2>2
<1>4. t = a \o b
  BY DEF GivenUp
<1> HIDE DEF t, a, b
<1>5. t \in Seq(S) /\ Len(t) = Len(s) - 1
      /\ \A j \in 1 .. Len(s) - 1 : t[j] = IF j <= i - 1 THEN a[j] ELSE b[j - (i - 1)]
  <2>1. a \o b \in Seq(S) /\ Len(a \o b) = Len(a) + Len(b)
    BY <1>2, <1>3, ConcatProperties
  <2>2. \A j \in 1 .. Len(a) + Len(b) : (a \o b)[j] = IF j <= Len(a) THEN a[j] ELSE b[j - Len(a)]
    BY <1>2, <1>3, ConcatProperties
  <2>3. Len(a) + Len(b) = Len(s) - 1
    BY <1>1, <1>2, <1>3
  <2> QED BY <1>2, <1>4, <2>1, <2>2, <2>3
<1>6. \A j \in 1 .. Len(s) - 1 : t[j] = IF j <= i - 1 THEN s[j] ELSE s[j + 1]
  <2> SUFFICES ASSUME NEW j \in 1 .. Len(s) - 1 PROVE t[j] = IF j <= i - 1 THEN s[j] ELSE s[j + 1]
    OBVIOUS
  <2>0. i \in Int /\ j \in Int /\ Len(s) \in Int /\ 1 <= i /\ i <= Len(s) /\ 1 <= j /\ j <= Len(s) - 1
    BY <1>1
  <2>1. CASE j <= i - 1
    BY <2>0, <1>2, <1>5, <2>1
  <2>2. CASE ~(j <= i - 1)
    <3>1. j - (i - 1) \in 1 .. Len(s) - i
      BY <2>0, <2>2
    <3>2. i + (j - (i - 1)) = j + 1
      BY <2>0
    <3>3. b[j - (i - 1)] = s[i + (j - (i - 1))]
      BY <1>3, <3>1
    <3> QED BY <1>5, <2>2, <3>2, <3>3
  <2> QED BY <2>1, <2>2
<1>7. DOMAIN t = 1 .. Len(s) - 1
  BY <1>5
<1>8. ASSUME NEW j \in DOMAIN t PROVE \E k \in DOMAIN s : t[j] = s[k]
  <2>1. j \in Int /\ 1 <= j /\ j <= Len(s) - 1 /\ j \in 1 .. Len(s) - 1
    BY <1>1, <1>7, <1>8
  <2>2. j \in DOMAIN s /\ j + 1 \in DOMAIN s
    BY <1>1, <2>1
  <2> QED BY <1>6, <2>1, <2>2
<1>9. ASSUME NEW k \in DOMAIN s, k # i PROVE \E j \in DOMAIN t : t[j] = s[k]
  <2>0. k \in Int /\ i \in Int /\ Len(s) \in Int /\ 1 <= k /\ k <= Len(s) /\ 1 <= i /\ i <= Len(s)
    BY <1>1, <1>9
  <2>1. CASE k < i
    <3>1. k \in 1 .. Len(s) - 1 /\ k <= i - 1
      BY <2>0, <2>1
    <3> QED BY <1>6, <1>7, <3>1
  <2>2. CASE k > i
    <3>1. k - 1 \in 1 .. Len(s) - 1 /\ ~(k - 1 <= i - 1) /\ (k - 1) + 1 = k
      BY <2>0, <2>2
    <3> QED BY <1>6, <1>7, <3>1
  <2>3. k < i \/ k > i
    BY <2>0, <1>9
  <2> QED BY <2>1, <2>2, <2>3
<1> QED BY <1>8, <1>9 DEF t


LEMMA InitOwner == Init => OwnerInv /\ MirrorInv
BY DEF Init, ServiceInit, OwnerInv, MirrorInv

(* Steps of the GUI and the user that leave the connection and the calls   *)
(* alone.                                                                  *)
LEMMA OwnerKept ==
  ASSUME OwnerInv,
         UNCHANGED <<running, oldDaemon, connected, supported, versionKnown, refresh, requests,
                     replies, owned, supportSeen, evaluating>>
  PROVE  OwnerInv'
BY DEF OwnerInv, Outstanding

LEMMA OwnerCalls ==
  ASSUME TypeOK, OwnerInv, NEW kind \in {"list", "put", "set"}, requests' = CallAsync(kind),
         refresh' = "busy" => Outstanding("list") \/ kind = "list",
         UNCHANGED replies
  PROVE  /\ \A i \in DOMAIN requests' : requests'[i].waiting
         /\ refresh' = "busy" => Outstanding("list")'
<1>1. \A i \in DOMAIN requests' : requests'[i].waiting
  BY CallFacts DEF OwnerInv
<1>2. Outstanding("list") => Outstanding("list")'
  BY CallFacts DEF Outstanding
<1>3. kind = "list" => Outstanding("list")'
  BY CallFacts DEF Outstanding
<1> QED BY <1>1, <1>2, <1>3

LEMMA OwnerDisconnects ==
  ASSUME OwnerInv, Disconnected, ~(running' /\ oldDaemon'), UNCHANGED <<owned, supportSeen>>
  PROVE  OwnerInv'
<1>1. requests' = <<>> /\ replies' = <<>> /\ refresh' # "busy" /\ connected' = FALSE
      /\ supported' = FALSE /\ evaluating' = TRUE
  BY DEF Disconnected, FailPendingCalls
<1> QED BY <1>1 DEF OwnerInv

(* The daemon answers a call in place of the request. *)
LEMMA HandleFacts ==
  ASSUME TypeOK, OwnerInv, HandleRequest
  PROVE  /\ \A i \in DOMAIN replies' : replies'[i].answer = "ok" <=> running
         /\ \A i \in DOMAIN requests' : requests'[i].waiting
         /\ \A kind \in {"list", "put"} : Outstanding(kind) => Outstanding(kind)'
<1>a. requests \in Seq(Call) /\ replies \in Seq(Reply)
  BY DEF TypeOK
<1>1. /\ requests[1] = Head(requests) /\ 1 \in DOMAIN requests /\ Head(requests) \in Call
      /\ \A i \in DOMAIN requests' : i + 1 \in DOMAIN requests /\ requests'[i] = requests[i + 1]
      /\ \A i \in DOMAIN requests : i # 1 => \E j \in DOMAIN requests' : j + 1 = i /\ requests'[j] = requests[i]
  BY <1>a, TailFacts, HeadTailProperties DEF HandleRequest
<1> DEFINE answer == [kind   |-> Head(requests).kind,
                        answer |-> IF running THEN "ok" ELSE "unsupported"]
<1>2. replies' = Append(replies, answer)
  BY <1>1 DEF HandleRequest, OwnerInv
<1>5. answer \in Reply /\ answer.kind = Head(requests).kind /\ (answer.answer = "ok" <=> running)
  BY <1>1 DEF Call, Reply
<1> HIDE DEF answer
<1>6. /\ \A i \in DOMAIN replies : i \in DOMAIN replies' /\ replies'[i] = replies[i]
      /\ \A i \in DOMAIN replies' : i \in DOMAIN replies \/ i = Len(replies) + 1
      /\ Len(replies) + 1 \in DOMAIN replies' /\ replies'[Len(replies) + 1] = answer
  BY <1>a, <1>2, <1>5, AppendProperties
<1>7. \A i \in DOMAIN replies' : replies'[i].answer = "ok" <=> running
  BY <1>5, <1>6 DEF OwnerInv
<1>8. \A i \in DOMAIN requests' : requests'[i].waiting
  BY <1>1 DEF OwnerInv
<1>9. ASSUME NEW kind \in {"list", "put"}, Outstanding(kind) PROVE Outstanding(kind)'
  <2>1. \A i \in DOMAIN requests : requests[i].kind = kind
          => \/ \E j \in DOMAIN requests' : requests'[j].kind = kind
             \/ \E j \in DOMAIN replies' : replies'[j].kind = kind
    <3> SUFFICES ASSUME NEW i \in DOMAIN requests, requests[i].kind = kind
                 PROVE  \/ \E j \in DOMAIN requests' : requests'[j].kind = kind
                        \/ \E j \in DOMAIN replies' : replies'[j].kind = kind
      OBVIOUS
    <3>1. CASE i = 1
      BY <1>1, <1>5, <1>6, <3>1
    <3>2. CASE i # 1
      BY <1>1, <3>2
    <3> QED BY <3>1, <3>2
  <2>2. \A i \in DOMAIN replies : replies[i].kind = kind
          => \E j \in DOMAIN replies' : replies'[j].kind = kind
    BY <1>6
  <2> QED BY <1>9, <2>1, <2>2 DEF Outstanding
<1> QED BY <1>7, <1>8, <1>9

LEMMA NextOwner ==
  ASSUME ~CallsMayFail, TypeOK, OwnerInv, [Next]_vars
  PROVE  OwnerInv'
<1>a. requests \in Seq(Call) /\ replies \in Seq(Reply)
  BY DEF TypeOK
<1> USE DEF bridge, client, serviceVars, service, clock
<1>1. CASE RunnerDeferred \/ RunnerTimerFires
  BY <1>1, OwnerKept DEF RunnerDeferred, RunnerTimerFires
<1>2. CASE EvaluateOwnership
  <2>1. UNCHANGED <<running, oldDaemon, connected, supported, versionKnown, refresh, requests,
                    replies>> /\ evaluating' = FALSE
    BY <1>2 DEF EvaluateOwnership
  <2>2. CASE supported /\ ~supportSeen /\ supportSeen' = TRUE /\ owned' = TRUE
    BY <2>1, <2>2 DEF OwnerInv, Outstanding
  <2>3. CASE supported /\ supportSeen /\ UNCHANGED <<supportSeen, owned>>
    BY <2>1, <2>3 DEF OwnerInv, Outstanding
  <2>4. CASE ~supported /\ supportSeen' = FALSE /\ owned' = (owned /\ ~(connected /\ versionKnown))
    BY <2>1, <2>4 DEF OwnerInv, Outstanding
  <2> QED BY <1>2, <2>2, <2>3, <2>4 DEF EvaluateOwnership, SetDaemonOwnsSchedule
<1>3. CASE PushNow
  <2>1. UNCHANGED <<running, oldDaemon, connected, supported, versionKnown, refresh, replies,
                    owned, supportSeen, evaluating>>
    BY <1>3 DEF PushNow
  <2>2. CASE UNCHANGED requests
    BY <2>1, <2>2, OwnerKept
  <2>3. ASSUME NEW kind \in {"put", "set"}, requests' = CallAsync(kind) PROVE OwnerInv'
    <3>1. /\ \A i \in DOMAIN requests' : requests'[i].waiting
          /\ refresh' = "busy" => Outstanding("list")'
      BY <2>1, <2>3, OwnerCalls DEF OwnerInv
    <3> QED BY <2>1, <3>1 DEF OwnerInv
  <2> QED BY <1>3, <2>2, <2>3 DEF PushNow
<1>4. CASE RefreshDevices \/ Rescan
  <2>1. UNCHANGED <<running, oldDaemon, connected, supported, versionKnown, replies,
                    owned, supportSeen, evaluating>>
        /\ refresh' = "busy" /\ requests' = CallAsync("list")
    BY <1>4 DEF RefreshDevices, Rescan
  <2>2. /\ \A i \in DOMAIN requests' : requests'[i].waiting
        /\ Outstanding("list")'
    BY <2>1, OwnerCalls
  <2> QED BY <2>1, <2>2 DEF OwnerInv
<1>5. CASE ReadReply
  <2>1. /\ replies[1] = Head(replies) /\ 1 \in DOMAIN replies /\ Head(replies) \in Reply
        /\ \A i \in DOMAIN replies' : i + 1 \in DOMAIN replies /\ replies'[i] = replies[i + 1]
        /\ \A i \in DOMAIN replies : i # 1 => \E j \in DOMAIN replies' : j + 1 = i /\ replies'[j] = replies[i]
    BY <1>5, <1>a, TailFacts, HeadTailProperties DEF ReadReply
  <2>2. \A i \in DOMAIN replies' : replies'[i].answer = "ok" <=> running
    BY <2>1 DEF OwnerInv
  <2>3. connected /\ (Head(replies).answer = "ok" <=> running)
    BY <1>5, <2>1 DEF OwnerInv, ReadReply
  <2>4. Head(replies).kind # "list" => \A i \in DOMAIN replies :
          replies[i].kind = "list" => \E j \in DOMAIN replies' : replies'[j].kind = "list"
    <3> SUFFICES ASSUME Head(replies).kind # "list", NEW i \in DOMAIN replies, replies[i].kind = "list"
                 PROVE  \E j \in DOMAIN replies' : replies'[j].kind = "list"
      OBVIOUS
    <3>1. i # 1
      BY <2>1
    <3> QED BY <2>1, <3>1
  <2>a. Head(replies).kind # "list" /\ UNCHANGED requests /\ Outstanding("list") => Outstanding("list")'
    BY <2>4 DEF Outstanding
  <2>5. UNCHANGED <<running, oldDaemon, connected>>
    BY <1>5 DEF ReadReply
  <2>6. CASE Head(replies).kind = "list"
    <3>1. refresh' = "none" /\ supported' = (Head(replies).answer = "ok") /\ versionKnown' = TRUE
          /\ evaluating' = TRUE /\ UNCHANGED <<owned, supportSeen, requests>>
      BY <1>5, <2>6 DEF ReadReply
    <3> QED BY <2>2, <2>3, <2>5, <3>1 DEF OwnerInv
  <2>7. CASE Head(replies).kind # "list" /\ Head(replies).answer = "unsupported"
    <3>1. supportSeen' = FALSE /\ owned' = FALSE
          /\ UNCHANGED <<refresh, supported, versionKnown, evaluating, requests>>
      BY <1>5, <2>7 DEF ReadReply, SetDaemonOwnsSchedule
    <3> QED BY <2>2, <2>3, <2>a, <2>5, <2>7, <3>1 DEF OwnerInv
  <2>8. CASE Head(replies).kind # "list" /\ Head(replies).answer = "ok"
    <3>1. UNCHANGED <<refresh, supported, versionKnown, evaluating, owned, supportSeen>>
          /\ requests' = (IF Head(replies).kind = "put" /\ owned THEN CallAsync("set") ELSE requests)
      BY <1>5, <2>8 DEF ReadReply
    <3>2. CASE UNCHANGED requests
      BY <2>2, <2>3, <2>a, <2>5, <2>8, <3>1, <3>2 DEF OwnerInv
    <3>3. CASE requests' = CallAsync("set")
      <4>1. \A i \in DOMAIN requests' : requests'[i].waiting
        BY <3>3, CallFacts DEF OwnerInv
      <4>2. \A i \in DOMAIN requests : i \in DOMAIN requests' /\ requests'[i] = requests[i]
        BY <3>3, CallFacts
      <4>3. Outstanding("list") => Outstanding("list")'
        BY <2>4, <2>8, <4>2 DEF Outstanding
      <4> QED BY <2>2, <2>3, <2>5, <3>1, <4>1, <4>3 DEF OwnerInv
    <3> QED BY <3>1, <3>2, <3>3
  <2> QED BY <2>1, <2>6, <2>7, <2>8 DEF Reply
<1>6. ASSUME NEW s \in Hour \cup {Off}, EditSchedule(s) PROVE OwnerInv'
  BY <1>6, OwnerKept DEF EditSchedule
<1>7. CASE ProfilesChanged
  BY <1>7, OwnerKept DEF ProfilesChanged
<1>8. CASE ConnectionLost
  BY <1>8, OwnerDisconnects DEF ConnectionLost, OwnerInv
<1>9. ASSUME NEW i \in DOMAIN requests, CallTimesOut(i) PROVE OwnerInv'
  <2>1. ~connected
        /\ requests' = SubSeq(requests, 1, i - 1) \o SubSeq(requests, i + 1, Len(requests))
        /\ refresh' = (IF requests[i].kind = "list" THEN "none" ELSE refresh)
        /\ UNCHANGED <<running, oldDaemon, connected, supported, versionKnown, replies,
                       owned, supportSeen, evaluating>>
    BY <1>9 DEF CallTimesOut
  <2>2. /\ \A j \in DOMAIN requests' : \E k \in DOMAIN requests : requests'[j] = requests[k]
        /\ \A k \in DOMAIN requests : k # i => \E j \in DOMAIN requests' : requests'[j] = requests[k]
    <3>1. requests' = GivenUp(requests, i)
      BY <2>1 DEF GivenUp
    <3> QED BY <1>a, <3>1, GivenUpFacts
  <2>3. \A j \in DOMAIN requests' : requests'[j].waiting
    BY <2>2 DEF OwnerInv
  <2>4. refresh' = "busy" => Outstanding("list")'
    <3>1. refresh' = "busy" => requests[i].kind # "list" /\ Outstanding("list")
      BY <2>1 DEF OwnerInv
    <3>2. requests[i].kind # "list" /\ Outstanding("list") => Outstanding("list")'
      <4>1. \A k \in DOMAIN requests : requests[k].kind = "list" /\ requests[i].kind # "list"
              => \E j \in DOMAIN requests' : requests'[j].kind = "list"
        BY <2>2
      <4> QED BY <2>1, <4>1 DEF Outstanding
    <3> QED BY <3>1, <3>2
  <2> QED BY <2>1, <2>3, <2>4 DEF OwnerInv
<1>10. CASE DaemonStops
  <2>1. ~running' /\ ~oldDaemon'
        /\ UNCHANGED <<owned, supportSeen, versionKnown>>
    BY <1>10 DEF DaemonStops, Stop, OwnerInv
  <2>2. CASE connected
    <3>1. Disconnected
      BY <1>10, <2>2 DEF DaemonStops
    <3> QED BY <2>1, <3>1, OwnerDisconnects
  <2>3. CASE ~connected
    <3>1. UNCHANGED <<connected, supported, evaluating, requests, replies, refresh>>
      BY <1>10, <2>3 DEF DaemonStops
    <3>2. replies = <<>> /\ ~supported
      BY <2>3 DEF OwnerInv
    <3> QED BY <2>1, <2>3, <3>1, <3>2 DEF OwnerInv, Outstanding
  <2> QED BY <2>2, <2>3
<1>11. CASE GuiRestarts
  <2>1. requests' = <<>> /\ replies' = <<>> /\ refresh' = "none" /\ connected' = FALSE
        /\ supported' = FALSE /\ supportSeen' = FALSE /\ evaluating' = TRUE
        /\ UNCHANGED <<running, oldDaemon>>
    BY <1>11 DEF GuiRestarts
  <2> QED BY <2>1 DEF OwnerInv
<1>12. CASE HourPasses
  BY <1>12, OwnerKept DEF HourPasses, Tick
<1>13. CASE Connect
  BY <1>13 DEF Connect, OwnerInv, Outstanding
<1>14. CASE ConnectFails
  <2>1. requests' = <<>> /\ replies' = <<>> /\ refresh' # "busy"
        /\ UNCHANGED <<running, oldDaemon, connected, supported, versionKnown, owned,
                       supportSeen, evaluating>>
    BY <1>14 DEF ConnectFails, FailPendingCalls
  <2> QED BY <1>14, <2>1 DEF ConnectFails, OwnerInv
<1>15. CASE HandleRequest
  <2>1. UNCHANGED <<running, oldDaemon, connected, supported, versionKnown, refresh, owned,
                    supportSeen, evaluating>> /\ connected
    BY <1>15 DEF HandleRequest, SetConfig
  <2> QED BY <1>15, <2>1, HandleFacts DEF OwnerInv
<1>16. CASE ServiceRuns
  <2>1. UNCHANGED running
    BY <1>16 DEF ServiceRuns, ServiceStep, Deferred, TimerFires, DiscoveryCompletes, EvaluateNow
  <2> QED BY <1>16, <2>1, OwnerKept DEF ServiceRuns
<1>17. CASE DaemonStarts
  <2>1. ~(running' /\ oldDaemon') /\ ~connected /\ replies = <<>> /\ ~supported
    BY <1>17 DEF DaemonStarts, Start, OwnerInv
  <2>2. UNCHANGED <<connected, supported, versionKnown, refresh, requests, replies, owned,
                    supportSeen, evaluating>>
    BY <1>17 DEF DaemonStarts
  <2> QED BY <2>1, <2>2 DEF OwnerInv, Outstanding
<1>18. CASE UNCHANGED vars
  BY <1>18, OwnerKept DEF vars
<1> QED BY <1>1, <1>2, <1>3, <1>4, <1>5, <1>6, <1>7, <1>8, <1>9, <1>10, <1>11, <1>12,
           <1>13, <1>14, <1>15, <1>16, <1>17, <1>18 DEF Next, Gui, Environment

(* Once nothing is under way the daemon owns the schedule exactly if it    *)
(* has the service, whichever daemon came and went before: for any number  *)
(* of lost connections and restarts, if a call on a live connection is     *)
(* answered.                                                               *)
THEOREM OwnershipAgrees ==
  ASSUME ~CallsMayFail PROVE Spec => []OwnerIsRight
<1>1. Init => OwnerInv
  BY InitOwner
<1>2. TypeOK /\ OwnerInv /\ [Next]_vars => OwnerInv'
  BY NextOwner
<1>3. OwnerInv => OwnerIsRight
  BY DEF OwnerInv, OwnerIsRight, Quiet
<1> QED BY <1>1, <1>2, <1>3, BridgeTypeCorrect, PTL DEF Spec

-----------------------------------------------------------------------------
(* The daemon's copy of the schedule.                                      *)

LEMMA MirrorKept ==
  ASSUME MirrorInv, UNCHANGED <<requests, replies, config, schedule, supported, supportSeen>>,
         pushing => pushing'
  PROVE  MirrorInv'
BY DEF MirrorInv, Outstanding, LastSetIsCurrent

LEMMA SetIsLast ==
  ASSUME TypeOK, requests' = CallAsync("set"), UNCHANGED schedule
  PROVE  LastSetIsCurrent'
<1>1. /\ \A i \in DOMAIN requests : i <= Len(requests) + 1
      /\ \A i \in DOMAIN requests' : i \in DOMAIN requests \/ i = Len(requests) + 1
      /\ Len(requests) + 1 \in DOMAIN requests'
      /\ requests'[Len(requests) + 1] = [kind |-> "set", schedule |-> schedule, waiting |-> TRUE]
  BY CallFacts
<1>2. Len(requests) + 1 <= Len(requests) + 1
  BY DEF TypeOK
<1> DEFINE n == Len(requests) + 1
<1>3. n \in DOMAIN requests' /\ requests'[n].kind = "set" /\ requests'[n].schedule = schedule'
  BY <1>1
<1>4. \A j \in DOMAIN requests' : j <= n
  BY <1>1, <1>2
<1> QED BY <1>3, <1>4 DEF LastSetIsCurrent

LEMMA ListKeepsMirror ==
  ASSUME TypeOK, MirrorInv, requests' = CallAsync("list"),
         UNCHANGED <<replies, config, schedule, supported, supportSeen, pushing>>
  PROVE  MirrorInv'
<1>1. /\ \A i \in DOMAIN requests : i \in DOMAIN requests' /\ requests'[i] = requests[i]
      /\ \A i \in DOMAIN requests' : requests'[i].kind # "list" => i \in DOMAIN requests
  BY CallFacts
<1>2. Outstanding("put") => Outstanding("put")'
  BY <1>1 DEF Outstanding
<1>3. LastSetIsCurrent => LastSetIsCurrent'
  BY <1>1 DEF LastSetIsCurrent
<1> QED BY <1>2, <1>3 DEF MirrorInv

LEMMA HandleKeepsMirror ==
  ASSUME TypeOK, OwnerInv, MirrorInv, HandleRequest
  PROVE  MirrorInv'
<1> SUFFICES ASSUME supported', supportSeen'
             PROVE  pushing' \/ Outstanding("put")' \/ LastSetIsCurrent'
  BY DEF MirrorInv
<1>1. supported /\ supportSeen /\ running /\ UNCHANGED <<pushing, schedule>>
  BY DEF HandleRequest, OwnerInv, bridge
<1>2. CASE pushing
  BY <1>1, <1>2
<1>3. CASE Outstanding("put")
  BY <1>3, HandleFacts
<1>4. CASE LastSetIsCurrent
  <2>1. requests \in Seq(Call) /\ requests # <<>> /\ requests' = Tail(requests)
    BY DEF TypeOK, HandleRequest
  <2>2. /\ 1 \in DOMAIN requests /\ Head(requests) = requests[1]
        /\ \A i \in DOMAIN requests' : i + 1 \in DOMAIN requests /\ requests'[i] = requests[i + 1]
        /\ \A i \in DOMAIN requests : i # 1 => \E j \in DOMAIN requests' : j + 1 = i /\ requests'[j] = requests[i]
    BY <2>1, TailFacts
  <2>3. DOMAIN requests' \subseteq Int /\ DOMAIN requests \subseteq Int
        /\ \A i \in DOMAIN requests' : i >= 1
    BY <2>1, HeadTailProperties
  <2>4. config' = IF requests[1].kind = "set" THEN requests[1].schedule ELSE config
    BY <1>1, <2>2 DEF HandleRequest, SetConfig, serviceVars, service
  <2>5. CASE config = schedule /\ \A i \in DOMAIN requests : requests[i].kind # "set"
    <3>1. config' = schedule'
      BY <1>1, <2>2, <2>4, <2>5
    <3>2. \A i \in DOMAIN requests' : requests'[i].kind # "set"
      BY <2>2, <2>5
    <3> QED BY <3>1, <3>2 DEF LastSetIsCurrent
  <2>6. ASSUME NEW i \in DOMAIN requests, requests[i].kind = "set", requests[i].schedule = schedule,
               \A j \in DOMAIN requests : requests[j].kind = "set" => j <= i
        PROVE  LastSetIsCurrent'
    <3>1. CASE i = 1
      <4>1. config' = schedule'
        BY <1>1, <2>4, <2>6, <3>1
      <4>2. ASSUME NEW j \in DOMAIN requests', requests'[j].kind = "set" PROVE FALSE
        <5>1. j + 1 \in DOMAIN requests /\ requests[j + 1].kind = "set"
          BY <2>2, <4>2
        <5>2. j + 1 <= 1
          BY <2>6, <3>1, <5>1
        <5> QED BY <2>3, <5>2
      <4> QED BY <4>1, <4>2 DEF LastSetIsCurrent
    <3>2. CASE i # 1
      <4>1. PICK k \in DOMAIN requests' : k + 1 = i /\ requests'[k] = requests[i]
        BY <2>2, <3>2
      <4>2. requests'[k].kind = "set" /\ requests'[k].schedule = schedule'
        BY <1>1, <2>6, <4>1
      <4>3. ASSUME NEW j \in DOMAIN requests', requests'[j].kind = "set" PROVE j <= k
        <5>1. j + 1 \in DOMAIN requests /\ requests[j + 1].kind = "set"
          BY <2>2, <4>3
        <5>2. j + 1 <= k + 1
          BY <2>6, <4>1, <5>1
        <5> QED BY <2>3, <5>2
      <4> QED BY <4>2, <4>3 DEF LastSetIsCurrent
    <3> QED BY <3>1, <3>2
  <2> QED BY <1>4, <2>5, <2>6 DEF LastSetIsCurrent
<1> QED BY <1>1, <1>2, <1>3, <1>4 DEF MirrorInv

LEMMA ReplyKeepsMirror ==
  ASSUME TypeOK, OwnerInv, MirrorInv, ReadReply
  PROVE  MirrorInv'
<1>1. UNCHANGED <<config, schedule, pushing>>
  BY DEF ReadReply, serviceVars, service
<1>2. connected /\ replies \in Seq(Reply) /\ replies # <<>> /\ replies' = Tail(replies)
      /\ Head(replies) \in Reply
  BY HeadTailProperties DEF ReadReply, OwnerInv, TypeOK
<1>3. CASE Head(replies).kind # "put" /\ UNCHANGED <<supportSeen, requests>>
  <2>1. supportSeen => supported
    BY <1>2 DEF OwnerInv
  <2>2. \A i \in DOMAIN replies : replies[i].kind = "put" =>
          \E j \in DOMAIN replies' : replies'[j].kind = "put"
    BY <1>2, <1>3, TailFacts
  <2>3. Outstanding("put") => Outstanding("put")'
    BY <1>3, <2>2 DEF Outstanding
  <2>4. LastSetIsCurrent => LastSetIsCurrent'
    BY <1>1, <1>3 DEF LastSetIsCurrent
  <2> QED BY <1>1, <1>3, <2>1, <2>3, <2>4 DEF MirrorInv
<1>4. CASE supportSeen' = FALSE
  BY <1>4 DEF MirrorInv
<1>5. CASE Head(replies).kind = "put" /\ Head(replies).answer = "ok"
  <2>1. UNCHANGED supportSeen /\ requests' = (IF owned THEN CallAsync("set") ELSE requests)
    BY <1>5 DEF ReadReply
  <2>2. CASE owned
    BY <1>1, <2>1, <2>2, SetIsLast DEF MirrorInv
  <2>3. CASE ~owned
    BY <2>1, <2>3 DEF MirrorInv, OwnerInv
  <2> QED BY <2>2, <2>3
<1> QED BY <1>2, <1>3, <1>4, <1>5 DEF ReadReply, Reply

LEMMA NextMirror ==
  ASSUME ~CallsMayFail, TypeOK, OwnerInv, MirrorInv, [Next]_vars
  PROVE  MirrorInv'
<1> USE DEF bridge, client, serviceVars, service, clock
<1>1. CASE RunnerDeferred \/ RunnerTimerFires
  BY <1>1, MirrorKept DEF RunnerDeferred, RunnerTimerFires
<1>2. CASE EvaluateOwnership
  <2>1. UNCHANGED <<requests, replies, config, schedule, supported>>
    BY <1>2 DEF EvaluateOwnership
  <2>2. CASE pushing' = TRUE \/ supportSeen' = FALSE
    BY <2>2 DEF MirrorInv
  <2>3. CASE UNCHANGED <<supportSeen, pushing>>
    BY <2>1, <2>3, MirrorKept
  <2> QED BY <1>2, <2>2, <2>3 DEF EvaluateOwnership
<1>3. CASE PushNow
  <2>1. UNCHANGED <<schedule, supportSeen>>
    BY <1>3 DEF PushNow
  <2>2. CASE ~owned
    BY <2>1, <2>2 DEF MirrorInv, OwnerInv
  <2>3. CASE requests' = CallAsync("set")
    BY <2>1, <2>3, SetIsLast DEF MirrorInv
  <2>4. CASE requests' = CallAsync("put")
    <3>1. Outstanding("put")'
      BY <2>4, CallFacts DEF Outstanding
    <3> QED BY <3>1 DEF MirrorInv
  <2> QED BY <1>3, <2>2, <2>3, <2>4 DEF PushNow
<1>4. CASE RefreshDevices \/ Rescan
  BY <1>4, ListKeepsMirror DEF RefreshDevices, Rescan
<1>5. CASE ReadReply
  BY <1>5, ReplyKeepsMirror
<1>6. ASSUME NEW s \in Hour \cup {Off}, EditSchedule(s) PROVE MirrorInv'
  BY <1>6 DEF EditSchedule, MirrorInv, OwnerInv
<1>7. CASE ProfilesChanged
  BY <1>7, MirrorKept DEF ProfilesChanged
<1>8. supported' = FALSE => MirrorInv'
  BY DEF MirrorInv
<1>9. CASE ConnectionLost
  BY <1>8, <1>9 DEF ConnectionLost, Disconnected
<1>10. ~connected => ~supported
  BY DEF OwnerInv
<1>11. ASSUME NEW i \in DOMAIN requests, CallTimesOut(i) PROVE MirrorInv'
  BY <1>8, <1>10, <1>11 DEF CallTimesOut, TypeOK
<1>12. CASE DaemonStops
  BY <1>8, <1>10, <1>12 DEF DaemonStops, Disconnected, TypeOK
<1>13. CASE GuiRestarts
  BY <1>8, <1>13 DEF GuiRestarts
<1>14. CASE HourPasses
  BY <1>14, MirrorKept DEF HourPasses, Tick
<1>15. CASE Connect \/ ConnectFails
  BY <1>8, <1>10, <1>15 DEF Connect, ConnectFails, TypeOK
<1>16. CASE HandleRequest
  BY <1>16, HandleKeepsMirror
<1>17. CASE ServiceRuns
  <2>1. UNCHANGED config
    BY <1>17 DEF ServiceRuns, ServiceStep, Deferred, TimerFires, DiscoveryCompletes, EvaluateNow
  <2> QED BY <1>17, <2>1, MirrorKept DEF ServiceRuns
<1>18. CASE DaemonStarts
  <2>1. UNCHANGED config
    BY <1>18 DEF DaemonStarts, Start
  <2> QED BY <1>18, <2>1, MirrorKept DEF DaemonStarts
<1>19. CASE UNCHANGED vars
  BY <1>19, MirrorKept DEF vars
<1> QED BY <1>1, <1>2, <1>3, <1>4, <1>5, <1>6, <1>7, <1>9, <1>11, <1>12, <1>13, <1>14,
           <1>15, <1>16, <1>17, <1>18, <1>19 DEF Next, Gui, Environment

(* Once nothing is under way the schedule of an owning daemon is the one   *)
(* in the settings, over edits, reconnections and restarts of either side, *)
(* if a call on a live connection is answered.                             *)
THEOREM ScheduleMirrored ==
  ASSUME ~CallsMayFail PROVE Spec => []MirrorsSettings
<1>1. Init => OwnerInv /\ MirrorInv
  BY InitOwner
<1>2. TypeOK /\ OwnerInv /\ MirrorInv /\ [Next]_vars => OwnerInv' /\ MirrorInv'
  BY NextOwner, NextMirror
<1>3. OwnerInv /\ MirrorInv => MirrorsSettings
  <2> SUFFICES ASSUME OwnerInv, MirrorInv, Quiet, owned, running PROVE config = schedule
    BY DEF MirrorsSettings
  <2>1. supported /\ supportSeen /\ ~pushing
    BY DEF OwnerInv, Quiet
  <2>2. DOMAIN requests = {} /\ DOMAIN replies = {}
    BY DEF Quiet
  <2> QED BY <2>1, <2>2 DEF MirrorInv, Outstanding, LastSetIsCurrent
<1> QED BY <1>1, <1>2, <1>3, BridgeTypeCorrect, PTL DEF Spec

=============================================================================
