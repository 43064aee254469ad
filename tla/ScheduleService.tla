--------------------------- MODULE ScheduleService ---------------------------
(***************************************************************************)
(* The daemon's ScheduleService: it applies the scheduled profile once a   *)
(* day, from timers and deferred evaluations on the daemon's event loop,   *)
(* over changes of the schedule, slow discoveries and restarts.            *)
(*                                                                         *)
(* A day has Hours hours and a schedule is an hour.  The service's timer   *)
(* never runs longer than a minute, so an hour never passes before an      *)
(* armed timer has fired in it, nor before the event queue is empty.  The  *)
(* clock only goes forward.                                                *)
(***************************************************************************)
EXTENDS Integers

CONSTANTS
  Hours,   \* hours in a day
  MaxDay   \* bound on the clock

ASSUME ClockAssumption == Hours \in Nat \ {0} /\ MaxDay \in Nat

Hour == 0 .. Hours - 1
Day  == 0 .. MaxDay
Off    == -1   \* no enabled schedule (or one without a profile)
NoDate == -1   \* the null QDate

VARIABLES
  day, hour,    \* the clock
  config,       \* m_config: the hour, or Off; persisted by every change
  running,      \* a daemon with this service is running
  discovered,   \* DeviceManager::discoveryComplete
  lastAttempt,  \* m_lastAttemptDate
  skipMissed,   \* m_skipMissedRun
  timer,        \* m_timer is active
  queued,       \* a deferred evaluateNow is in the event queue
  checked,      \* an evaluation armed the timer in this hour
  runs,         \* history: runs[d][h] is how often the schedule h ran on day d
  since         \* history: when this schedule, daemon and device list came about

clock   == <<day, hour>>
service == <<config, running, discovered, lastAttempt, skipMissed, timer, queued,
             checked, runs, since>>
serviceVars == <<clock, service>>

ServiceTypeOK ==
  /\ day \in Day
  /\ hour \in Hour
  /\ config \in Hour \cup {Off}
  /\ running \in BOOLEAN
  /\ discovered \in BOOLEAN
  /\ lastAttempt \in Day \cup {NoDate}
  /\ skipMissed \in BOOLEAN
  /\ timer \in BOOLEAN
  /\ queued \in BOOLEAN
  /\ checked \in BOOLEAN
  /\ runs \in [Day -> [Hour -> Nat]]
  /\ since \in [day : Day, hour : Hour]

Now == [day |-> day, hour |-> hour]

ServiceInit ==
  /\ day = 0
  /\ hour = 0
  /\ config \in Hour \cup {Off}
  /\ running = TRUE
  /\ discovered = FALSE
  /\ lastAttempt = NoDate
  /\ skipMissed = TRUE
  /\ timer = FALSE
  /\ queued = TRUE
  /\ checked = FALSE
  /\ runs = [d \in Day |-> [h \in Hour |-> 0]]
  /\ since = Now

-----------------------------------------------------------------------------
(* scheduleNextCheck, with a schedule *)
ScheduleNextCheck == timer' = TRUE /\ checked' = TRUE

(* Mutant: the attempt is noted for the wrong day. *)
EvaluateBookingTomorrow ==
  /\ UNCHANGED <<config, running, discovered, since>>
  /\ \/ /\ config = Off
        /\ timer' = FALSE
        /\ UNCHANGED <<lastAttempt, skipMissed, checked, runs>>
     \/ /\ config # Off
        /\ ScheduleNextCheck
        /\ skipMissed' = FALSE
        /\ IF hour >= config /\ lastAttempt # day
           THEN /\ lastAttempt' = day + 1
                /\ runs' = IF skipMissed THEN runs
                           ELSE [runs EXCEPT ![day][config] = @ + 1]
           ELSE UNCHANGED <<lastAttempt, runs>>

EvaluateNow ==
  /\ UNCHANGED <<config, running, discovered, since>>
  /\ \/ /\ config = Off
        /\ timer' = FALSE
        /\ UNCHANGED <<lastAttempt, skipMissed, checked, runs>>
     \/ /\ config # Off
        /\ ~discovered
        /\ ScheduleNextCheck
        /\ UNCHANGED <<lastAttempt, skipMissed, runs>>
     \/ /\ config # Off
        /\ discovered
        /\ ScheduleNextCheck
        /\ skipMissed' = FALSE
        /\ IF hour >= config /\ lastAttempt # day
           THEN /\ lastAttempt' = day
                /\ runs' = IF skipMissed THEN runs
                           ELSE [runs EXCEPT ![day][config] = @ + 1]
           ELSE UNCHANGED <<lastAttempt, runs>>

Deferred ==
  /\ queued
  /\ queued' = FALSE
  /\ EvaluateNow
  /\ UNCHANGED clock

TimerFires ==
  /\ timer
  /\ EvaluateNow
  /\ UNCHANGED <<queued, clock>>

(* Mutants: a new schedule keeps the attempt of the old one; it catches up *)
(* on a run that is already due.                                           *)
SetConfigKeepingAttempt(c) ==
  /\ running
  /\ config' = c
  /\ skipMissed' = TRUE
  /\ queued' = TRUE
  /\ since' = Now
  /\ UNCHANGED <<lastAttempt, running, discovered, timer, checked, runs, clock>>

SetConfigCatchingUp(c) ==
  /\ running
  /\ config' = c
  /\ lastAttempt' = NoDate
  /\ queued' = TRUE
  /\ since' = Now
  /\ UNCHANGED <<skipMissed, running, discovered, timer, checked, runs, clock>>

SetConfig(c) ==
  /\ running
  /\ config' = c
  /\ lastAttempt' = NoDate
  /\ skipMissed' = TRUE
  /\ queued' = TRUE
  /\ since' = Now
  /\ UNCHANGED <<running, discovered, timer, checked, runs, clock>>

(* The daemon discovers its devices once, when it starts. *)
DiscoveryCompletes ==
  /\ running
  /\ ~discovered
  /\ discovered' = TRUE
  /\ queued' = TRUE
  /\ since' = Now
  /\ UNCHANGED <<config, running, lastAttempt, skipMissed, timer, checked, runs, clock>>

Stop ==
  /\ running
  /\ running' = FALSE
  /\ timer' = FALSE
  /\ queued' = FALSE
  /\ UNCHANGED <<config, discovered, lastAttempt, skipMissed, checked, runs, since, clock>>

Start ==
  /\ ~running
  /\ running' = TRUE
  /\ discovered' = FALSE
  /\ lastAttempt' = NoDate
  /\ skipMissed' = TRUE
  /\ queued' = TRUE
  /\ since' = Now
  /\ UNCHANGED <<config, timer, checked, runs, clock>>

Tick ==
  /\ timer => checked
  /\ ~queued
  /\ \/ hour + 1 \in Hour /\ hour' = hour + 1 /\ UNCHANGED day
     \/ hour + 1 \notin Hour /\ day + 1 \in Day /\ hour' = 0 /\ day' = day + 1
  /\ checked' = FALSE
  /\ UNCHANGED <<config, running, discovered, lastAttempt, skipMissed, timer, queued,
                 runs, since>>

ServiceStep == Deferred \/ TimerFires \/ DiscoveryCompletes

ServiceNext ==
  \/ ServiceStep
  \/ \E c \in Hour \cup {Off} : SetConfig(c)
  \/ Stop
  \/ Start
  \/ Tick

ServiceSpec == ServiceInit /\ [][ServiceNext]_serviceVars

-----------------------------------------------------------------------------
Before(s, d, h) == s.day < d \/ (s.day = d /\ s.hour < h)

(* No schedule runs twice on a day, however often it is pushed again, the  *)
(* daemon restarted or the timer fired.                                    *)
OnceADay == \A d \in Day, h \in Hour : runs[d][h] <= 1

(* A missed run is not caught up on: a run happens at or after its hour,   *)
(* and only when the daemon, its devices and the schedule were in place    *)
(* before that hour came.                                                  *)
NoMissedRun ==
  [][runs' # runs => config <= hour /\ Before(since, day, config)]_serviceVars

(* A due run is not lost: once the hour of a schedule that was in place    *)
(* before it is over, the schedule has run.                                *)
DueRunHappens ==
  running /\ discovered /\ config # Off =>
    \A d \in Day : Before(since, d, config) /\ Before([day |-> d, hour |-> config], day, hour)
                     => runs[d][config] = 1
==============================================================================
