# LumaCore in TLA+

TLA+ models of LumaCore, TLC configurations that check them on small instances,
and TLAPS proofs of their most important properties for every value of the
constants. All paths below are relative to the repository.

## 1. The system

LumaCore drives RGB controllers. A **GUI** process talks to a **daemon** over a
local socket with newline-separated JSON. Each process runs its handlers on one
Qt event-loop thread, so a request, a timer or a socket signal is one step of a
model; only device discovery uses a worker thread. What interleaves are the
event handlers of a process, its deferred jobs (`QTimer::singleShot(0, ...)`),
its timers, the messages in flight and the other process.

```
 GUI                                            daemon
 AppController, SettingsController              DaemonServer
   | callAsync          ^ handlers                 | requests       ^ signals
 DaemonClient  <------ local socket ------>     DeviceManager --- BackendDiscoveryRunner
   ^                                               |     ^
 DaemonScheduleBridge -> ProfileScheduleRunner  WriteGate  EffectsEngine   ScheduleService
 DaemonRgbDevice (proxies, frame streaming)        |
                                                 backends (ASUS HID, mock, discovery) -> hardware
```

### Inventory

| Component (source) | State | Operations | Hard behaviour | What makes it correct | Module |
|---|---|---|---|---|---|
| Device manager (`core/DeviceManager`) | device list, zones' models, confirmations, dry-run, discovery flags | discover, confirm, revoke, update zone, apply, all-off, paint frame, set dry-run, profiles | indices and ids that outlive a list; a discovery beside requests and ticks; half-written reports | hardware is written only where authorised and live; nothing outlives its list | `DeviceManager`, `Profiles` |
| Gates (`core/WriteGate`, `PermissionGate`) | none | decide a write from capability, permission, confirmation, dry-run | four inputs that change independently | as above | `DeviceManager`, `WriteAuthority` |
| Effects engine (`core/EffectsEngine`) | active zones, last accepted frames, timer | start, stop, tick | the timer races every other operation | streams only animated zones; a static colour stays | `DeviceManager` (daemon), `LightStream` (GUI) |
| Discovery runner (`core/BackendDiscoveryRunner`) | worker thread | start, completion | second discovery while one runs | one at a time; it completes | `DeviceManager` |
| ASUS Aura device, backend, protocol (`backends/asus`, `hardware/asus`) | config table, initialised channels, models | select the interface, initialise, apply, paint, all-off | any report may fail; channels and LED offsets; fixed zones share the mainboard's channel | a zone writes its own channels only; frames leave a channel's mode alone; in direct mode the LEDs show the model | `AuraController` |
| Daemon client (`ipc/DaemonClient`) | socket, pending calls, posted sends, buffer, backoff, what is known of the daemon | callAsync, cancelCall, disconnect, reconnect, socket signals, timeouts | late, garbled and reordered replies; calls made by handlers; reconnects | every handler runs once, truthfully, eventually; order kept; never gives up | `DaemonClient`, `RemoteCalls` |
| Frame codec (`ipc/DaemonFrameCodec`) | a buffer | take the next frame | limits, partial reads | every frame once, in order; never stuck | `FrameCodec` |
| Daemon server (`ipc/DaemonServer`) | active client, buffers, deferred device lists, endpoint lock | accept (replacing the previous client), read, answer, idle exit | hand-over in the middle of requests, exit beside a new connection | replies reach the asker; deferred lists are answered; it exits when, and only when, idle | `DaemonServer` |
| Proxy devices (`backends/daemon`) | per zone: model, frame in flight, waiting frame, suspension count | apply, paint, suspend, resume | frames of a suspended zone, replies that never come, proxies that are replaced | latest frame wins; no late frame covers an acknowledged colour | `LightStream` |
| Application controller (`ui/AppController`) | operation counters, refresh and polling, dry-run sync, parked profiles | everything the user does | stale indices in handlers, nested operations, sync over lost calls | counters account for every zone; dry-run agrees when quiet; parked profiles are attempted | `AppOperations`, `LightStream`, `DeviceTree` |
| Profiles (`core/ProfilePlan`, `ProfileStore`) | profile files, migration mark | match zones, plan, preview, save, delete, rename, import, export, migrate | renamed, reordered and missing zones; a failing file operation | applying a fresh profile restores it; the preview says what applying does; a profile is not lost | `Profiles` |
| Schedule service (`core/ScheduleService`) | config (persisted), attempt date, skip flag, timer | setConfig, evaluateNow | restarts, repeated pushes, slow discovery | once a day, not late, not never | `ScheduleService` |
| Schedule bridge and local runner (`app/DaemonScheduleBridge`, `ProfileScheduleRunner`) | ownership, seen support, deferred jobs; the runner's own attempt date | evaluate, push, suspend | two processes hold the schedule; reconnects, old daemons, lost calls | the daemon that can run it owns it and mirrors the settings; no double run | `DaemonScheduleBridge` |
| Launcher (`app/DaemonLauncher`) | process, probe timer, error | start, probe, finished, shut down | the process exits beside a late probe, another daemon or a second GUI; the client's errors replace the report | an end before a connection is recorded and never shown beside a connection; no daemon is left that no GUI is connected to | `DaemonLauncher` |
| Device tree and selection (`ui/DeviceTreeModel`, `qml/Main.qml`) | rows, selection by index and by identity | reset, announce a change, filter, select, restore | rows and zone indices differ; selection over a new list | rows are current; the selection names the same zone | `DeviceTree` |
| Auto backend, registry, flicker guard, tray, options, stores, log, value types, discovery-only backends | presentation, stored values, device I/O | | little control of their own | | see *Not modelled* |

`PROJECT.json` lists every component with its status, and the hazards at the
lines where they bite.

## 2. Modules

| Module | Models |
|---|---|
| `DeviceManager` | the daemon's DeviceManager with gates, engine and discovery |
| `WriteAuthority` | abstract: a store of LEDs written only where authorised and live |
| `MCDeviceManager` | its instances for TLC: a pair of controllers, and a mainboard |
| `DeviceManagerProofs` | theorems about it |
| `DaemonClient` | the GUI's client, the socket and the daemon's end of it |
| `RemoteCalls` | abstract: what `callAsync` promises its callers |
| `DaemonClientProofs` | theorems about it |
| `DaemonServer` | the daemon's connections, requests, deferred lists and idle exit |
| `DaemonServerProofs` | theorems about it |
| `ScheduleService` | the daemon's schedule and its clock |
| `DaemonScheduleBridge` | extends `ScheduleService` with the GUI's bridge, runner and link |
| `DaemonScheduleBridgeProofs` | theorems about both, the refinement of `ScheduleService` first |
| `LightStream` | one device from the GUI's engine through proxy, wire and daemon to the channel |
| `LightStreamProofs` | theorems about it |
| `AppOperations` | the controller's operations over many zones and calls |
| `MCAppOperations`, `AppOperationsProofs` | its instance for TLC; theorems about it |
| `AuraController` | one Aura controller: interface, config table, zones, reports |
| `Profiles` | saving, matching, previewing and applying profiles; the store |
| `DeviceTree` | the rows of the tree, what a view has read of them, the selection |
| `FrameCodec` | the codec and the read loops of both ends, byte by byte |
| `DaemonLauncher` | the bundled daemon's process |
| `Indices` | the first of a set of indices, and the set in order: what the loops of `Profiles`, `DeviceTree` and `FrameCodec` find and collect |
| `MCStandalone` | these five components, which share no state with the others, for TLC |
| `StandaloneProofs` | theorems about them |
| `IndicesProofs` | what `Indices`, flattening and iteration return, for any sequence |

### DeviceManager

`devices` is `m_devices` as a list of ids, `zones` the effect and LED count of
each zone's model, `streaming` and `accepted` the engine's `m_activeZones` and
`m_lastAcceptedFrames`. `hardware` is what the physical LEDs show and `writer`
a history of who wrote them. A frame is an LED count with a colour; an effect is
a colour for each of `Period` clock phases (`ColorAt`); a report sequence that
breaks off leaves `Garbled`. The actions are the public operations, the completion of a
discovery and the engine's tick, which is one handler: it paints every streamed
zone whose frame changed and whose write is allowed. A call that returns early is a
stutter. Device ids are unique in a list (`DeviceAssumption`): a
backend reports a controller once. A controller's permissions are constants
while the daemon runs.

### DaemonClient

`pending`, `posted`, `timer`, `attempt`, `buffer` are the code's; `written` are
the requests on the current connection, `wire` and `replies` the two directions
of the socket, `daemonUp` the daemon. Handlers of failed calls may issue calls
inside the step that fails them (`Finish`), as they do in the code
(`kept`, `lost`: what becomes of calls issued from inside a disconnect). `owed`
is a history: a connection was lost under automatic reconnection and its
recovery has not been announced.

### DaemonServer

`active`, `buffers`, `deferred` and `accepted` are the code's members (`buffers`
as the set of its keys), `backlog` is the listen queue and `stage` the server's
end of each connection. `HandOver` takes the whole queue: the newest connection
becomes active before the others are closed, as the comment in
`handleNewConnection` demands. A frame is a request of a kind the control
distinguishes; `write` stands for the three methods under the dry-run guard. A
frame is one step, although the code takes every complete frame of the buffer: the
client may send them one at a time, so this only adds interleavings that exist. A
write fails only towards a client that has gone; the socket is then `closing`
until it reports `disconnected`. `hardware` is a history of the last write given
to the device manager.

### ScheduleService and DaemonScheduleBridge

A day has `Hours` hours; a schedule is an hour or `Off`. The code's timers never
wait longer than a minute (`maximumTimerIntervalMs`), so the models let an hour
pass only after every armed timer fired in it and the deferred jobs are done.
This leaves out a machine that sleeps through an hour and a clock set back.
`runs` and `localRuns` count the runs of each schedule on each day, `since` is when
schedule, daemon and device list were last put in place.

In `DaemonScheduleBridge` a daemon with the service (`running`) or an old one
without it (`oldDaemon`) may be there; `supported` and `versionKnown` are the two
things the bridge asks of the client. `requests` and `replies` are calls under
way. The runner's `m_suspended` always equals the bridge's ownership (the signal
is a direct connection, `app/GuiApplication.cpp:152-158`), so it has no variable.
That the profile precedes the schedule in a push is modelled by the first call
being `put` or, if there is no profile to send, `set`.

The constant `CallsMayFail` says whether a call may time out on a connection that
stays up. A push that times out is not repeated before the next change or
connection; the comment in `app/DaemonScheduleBridge.h:16-18` promises no more. What
the bridge promises of the daemon's schedule is therefore stated for calls that are
answered or fail with their connection (one that waits offline may still time out);
what it promises of the local runner holds with timeouts too.

### LightStream

One device end to end. `proxy[z]` is a zone of the GUI's `DaemonRgbDevice`: its
model's effect and its `FrameStreamState` (`suspended`, `inFlight`, `waiting`).
`streaming` and `accepted` belong to the GUI's own engine, `syncing` and `again` are
`m_daemonDryRunSyncInProgress` and `m_pendingDaemonDryRunSync`. `calls` is the
connection's FIFO, whose first `answered` calls the daemon has executed; a
timed-out call has ended for the GUI and is executed all the same. `channel` is what
the Aura channel shows and whether an apply has put it in direct mode. `holds` is a
history: the static colour that was acknowledged last. Writes are permitted
throughout, since `DeviceManager` is about the gate.

One behaviour is worth knowing beside the findings. `docs/daemon/protocol.md:38` says
write requests always carry the GUI's own dry-run expectation. A frame that waited
for its predecessor is sent with `dryRunEnabled` false
(`backends/daemon/DaemonRgbDevice.cpp:265`) even if the user has switched dry-run on
meanwhile; the daemon's guard then refuses it if it has followed the switch already,
and writes it if it has not.

### AppOperations

`work` is what the controller has under way: the operations with their counters
(`ops`), the outstanding calls, `busy` (`pendingDaemonOperations`) and the profile
being applied. A global effect, a brightness or an all-off counts its zones down
as their calls end, in any order; a profile sends a zone's metadata and, when that
succeeds, its effect (`profileEffect`). `listed`, `loaded`, `refresh` and
`polling` are the device list, which a refresh replaces under the calls: their
handlers find their proxies gone, so no effect follows the metadata (`Orphaned`). `launch` and `scheduled`
are profiles parked until there is a list. The daemon is its answers.

### AuraController, Profiles, DeviceTree, FrameCodec, DaemonLauncher

* `AuraController` begins with the choice among the HID interfaces of one
  controller and the parsing and validation of its config table. An operation is the
  sequence of its reports; `hw` is what they leave: per effect channel a mode, per
  direct channel the LEDs `lit` and those in the `buffer` not applied yet. An LED is
  `<<frame, position>>`, so LEDs sent to a wrong offset are told apart. A frame may
  come from any client for any addressable zone, also one that is static, switched off
  or never written, since the daemon asks for no effect before it
  (`core/DeviceManager.cpp:630-661`, `backends/asus/AsusAuraHidDevice.cpp:248-269`); under
  dry-run it changes the model alone, on any zone (`PreviewZoneFrame`). Model and LEDs
  then differ. Two histories say where they must not: `told`, the mode the last
  acknowledged effect or all-off gave a zone, and `synced`, how many of its LEDs were
  sent in that mode. So a frame after another client's all-off is recorded as the
  model's colours and shows nothing, as in the code; what
  `ShowsTheModel` says of it is that it leaves the channel off.
* `Profiles` matches a stored zone by name first and then by place, plans, previews
  and applies. `Entries` are a profile's zones in the order of the two nested loops,
  `Plan` the decision for each of them, and `Applied` the loop that writes the planned
  ones, a later write of a zone over an earlier one. The store's files are saved, deleted, renamed, imported, exported and
  migrated from the old single file, each of whose steps may fail. Migration that
  is repeated because it failed half-way brings back a profile the user has deleted
  in between; no text rules that out. What applying a profile promises (`Restores`)
  needs two conditions that TLC shows to be necessary: that the profile lists the
  device once (an imported file may list it twice, and then the later entry wins)
  and that its zones can be told apart (`Recognisable`).
* `DeviceTree` keeps what a view has read of each row (`shown`) beside the rows, so
  a missing or misdirected change signal leaves a difference. The selection is kept
  by indices and by identity, as in `Main.qml`.
* `FrameCodec` feeds bytes in any portions to the read loops of both ends with the
  limit `MaxMessage`. A payload is a sequence of `Byte`s, none of which is the newline
  (`ipc/DaemonProtocol.cpp:99` writes compact JSON, which escapes it). It justifies that the other
  modules handle whole frames.
* `DaemonLauncher` has the launched daemon, a foreign one that may hold the
  endpoint already, the GUI, and a second GUI that may take its connection over.
  `lastError` is the launcher's own record of a failed start, which in the code only
  tests read; `error` is the client's, which the status shows. A failed attempt to connect
  or a failed call replaces a report there (`ClientFails`), so a failed start is shown
  until the next retry, and a call that succeeds clears it. Two things follow that the property
  `LaunchIsAccountedFor` does not claim away: a report need not stay visible, and closing the GUI
  that launched the daemon stops it (`app/DaemonLauncher.cpp:241-259`) even while the
  second GUI is connected, where `docs/windows-preview.md:12` says that it exits when the last
  connected GUI closes. The property therefore speaks of the record, of what is shown
  beside a connection, and of a daemon that no GUI is connected to.

`MCStandalone` extends these five and puts them under one specification: `part` says
which one a behaviour is of, and the others stay idle. One run then covers what would
be five, and checks the very properties the theorems state. `MCDeviceManager` does the
same with two instances of `DeviceManager`.

## 3. Runs

| Run | Question | States | Bounds |
|---|---|---|---|
| `device_manager` | do lists, confirmations, streams and hardware stay consistent? | 85 thousand | two controllers (one needing confirmation), lists empty, short, reordered, one zone, two static and two animated effects, two phases; and a mainboard with a fixed and an addressable zone whose LED count changes |
| `daemon_client` | calls and connections, with fairness | 399 thousand | three calls, six attempts |
| `daemon_server` | one GUI at a time, answers, dry-run, exit, with fairness | 208 thousand | two connections, any two requests each |
| `schedule_service` | the daemon's schedule | 42 thousand | three days of three hours |
| `schedule_bridge` | ownership, mirroring, local runner, convergence | 2.1 million | one day of two hours, one edit, two losses or restarts |
| `light_stream` | commands, streams and dry-run from GUI to channel, with fairness | 1.5 million | one zone, one animated and two static effects, three commands, three calls on the wire, one loss, timeouts |
| `app_operations` | counters, profiles, parked profiles, with fairness | 213 thousand | two devices with a zone each (one needs a confirmation and renders only static effects), one operation, one profile each from the launch and the schedule, one loss |
| `standalone` | the five components of `MCStandalone` | 461 thousand | three writes to a controller; four steps of the store; four of the tree; frames up to the limit; two daemons and two GUIs |
| `schedule_ownership`, `schedule_both_fire`, `frames_unprimed`, `tree_wrong_row` | four statements of comments and docs that the code does not keep | violated | as the runs above, smaller |

Why the bounds are enough. Two controllers give an index that points at another
device after a rescan; a third adds nothing, since operations address one device.
Two phases distinguish a frame that changes from one that does not. Three calls
give one finished, one on the wire and one issued from a handler; six attempts
reach the cap of the backoff, which no later attempt changes. Three hours give a
time before, at and after a schedule, three days a day on either side. One day
with two hours is the least on which a schedule can be due, missed and moved;
two losses are a daemon replaced by an old one and a lost connection. Two
connections give one that replaces the other, connected or still waiting; two
requests are the least for a list that is overtaken and for a mode that is switched
under a write. Of the kinds of requests (`Sends`) the run leaves out `status` and
`zone`: once the discovery is over a list is answered like a status, and during it a
write is refused like a zone request; the proofs cover both.

A zone's coalescing and suspension touch no other zone's, so `light_stream` has
one; three commands are an animated effect, the colour that replaces it and a switch
of dry-run or a second effect, and three calls a frame in flight, a command behind it
and the synchronisation. In `app_operations` the launch and the scheduled profile
already run beside the user's one operation and beside single calls, so operations
overlap; a second operation of the user's takes the run past its time and adds no
kind of overlap, and the proof is for any number. The Aura model has two fallback
zones where the code has three: the arithmetic is the same from the second on.
Three writes are enough for a failed one between two others. Four steps of the store
are a save, a change and an apply or rename with a failure between. The counters
behind these bounds (the constants named `Max...`, and `Sends`) appear only in guards.

`CHECK_DEADLOCK FALSE` stands where a bounded user, process or medium may have
nothing left to do: the bridge (without a schedule both processes sleep until the
user acts), the server (it waits for clients, or has exited), `light_stream` and
`app_operations` (no command left), `standalone` (every part has an end), and the runs
that look for a violation. The device manager, the client and the service can
always go on, and the runs show that they do.

### Fairness

All fairness is weak and comes from Qt's event loop or from a thread that ends:
timers and deferred jobs are delivered, a connect attempt ends, the discovery
thread finishes, a socket being closed gets closed. An engine's tick is fair
because its timer repeats while a zone is streamed. In `DaemonClient` nothing is
assumed of the daemon: a call ends because its timer does. In `DaemonScheduleBridge`
and `LightStream` the daemon handles the requests that reach it, as a process with an
event loop does, and the GUI reads its replies; in `AppOperations` a call and a list
request end (the client's timeouts see to it) and a discovery of the daemon's ends.
The server is assumed to handle what its sockets report, and its clients to do
nothing. The user, losses and restarts are never fair.

### What the runs show

The passing runs show the properties named in `PROJECT.json`; each has a mutant
of the code beside its definition (an operator commented *Mutant*) that breaks
it. Beyond invariants of one component:

* The device manager implements `WriteAuthority` and the client `RemoteCalls`.
* An acknowledged colour is not repainted by a late frame of the animation it
  replaced, over timeouts, rescans and reconnections (`AcknowledgedHolds`); the
  animation that is wanted keeps flowing (`StreamFlows`); the daemon ends in the
  GUI's dry-run mode (`DryRunConverges`).
* Every operation of the controller reports once and accounts for each zone once,
  though the devices it was issued for may be gone (`CountsAddUp`).
* Whatever reports fail, a zone's write reaches its own channels only; whatever
  frames clients send, a channel keeps the mode an effect or an all-off gave it, and in
  direct mode the LEDs sent show the model (`ZonesOwnTheirChannels`, `ShowsTheModel`).

Some hazards are not caught by a run. `HardwareIsGuarded` takes a device's authority from
`confirmed` itself, so that a confirmation does not outlive its list is for the theorem
`ConfirmationsCurrent` to say. `Reconnects` caps the attempts where the delay stops growing,
so it does not see the bounds of the shift that computes the delay
(`ipc/DaemonClient.cpp:18-22`). `ParkedIsAttempted` asks for a list that stays and so says
nothing of a list request that timed out and is not repeated. `FramesArePrimed` does not
see the waiting frame described under `LightStream`.

Four statements do not hold:

* **Ownership is not sticky over a reconnect** (`schedule_ownership`). A
  disconnect clears the schedule support the client learnt but not the daemon's
  version, and the bridge reads "connected, version known, no support" as an old
  daemon. The deferred evaluation after a reconnect comes before the first
  status, so ownership is dropped and regained a moment later.
* **Both sides can run the schedule on one day** (`schedule_both_fire`). The
  local runner is not suspended until the GUI has read a status of a daemon that
  already holds the schedule; if the scheduled minute passes in between, both
  run it. The lost ownership above opens the same window later.
* **A preview becomes a stream of writes** (`frames_unprimed`). An animated effect
  applied under dry-run starts the GUI's stream; switching dry-run off does not stop
  it, and its frames are written to a channel no apply has put in direct mode.
* **A zone's change is announced for another row** (`tree_wrong_row`). On a board
  with fixed zones, which have an index and no row, `indexForZone` takes the index of
  an addressable zone for its row.

## 4. Proofs

TLAPS establishes the following for every value of the constants that satisfies the
assumptions of the module.

* `DeviceManagerProofs`. The inductive invariant `IInv` is `TypeOK`, that a list
  names no controller twice (`Distinct`), the four safety invariants, and that
  nothing was written in a session whose devices are still being discovered
  (`NothingWrittenYet`). They need one another: that a tick
  only repaints animated zones (`StreamsAnimated`) is what keeps a static colour
  (`StaticZoneHolds`), and distinct ids are what lets a write by index be one by
  device. From `IInv` follow the invariants, `FixedZonesUntouched`, and the
  refinement `Spec => Guard!Spec` (`ManagerIsGuarded`), whose step
  lemma says which LEDs each operation may change (`WritesOnly`). It assumes that each
  backend lists a controller once and that `Capability`, `RuntimePermission` and
  `ColorAt` are functions of the right type.
* `DaemonClientProofs`. `LinkInv` (timer, attempt, socket and `owed` agree) gives
  `ReconnectArmed`, `RecoveryAnnounced` and `KnownOnlyWhileConnected`. `CallInv`
  describes where a call can be: posted, pending, on the wire or finished, and
  that a success has been answered (`JobsOK`, `Unsendable`, `OnWire`, `Genuine`).
  It is needed because nothing in the code
  that runs a handler looks at history: that it runs once rests on the id being
  taken from the pending ones, and that ids are never reused. It gives
  `ClientKeepsPromise`, the refinement of `RemoteCalls`.
  `OrderInv` says that the deferred sends ascend, and that
  an unwritten pending call is queued and later than everything on the wire. A step
  that runs handlers may issue calls in the middle of emptying the tables, so the
  lemmas are about what such a step makes of the queue (`Settled`). They give
  `SentInOrder`, that no call is forgotten (`NoForgottenCall`) and, with `FlagsOK`, the
  client's types, the range of the backoff among them.
* `DaemonServerProofs`. `PeerInv` is `TypeOK`, `OnePeer`, `ListsOwedToPeer` and
  where a connection can be: the table holds exactly the open ones
  (`TrackedIsOpen`), the queue those that wait, and one that was never accepted has
  neither answers nor lists (`Unaccepted`), which is what a hand-over needs. From it
  follow the action properties `WritesAsMeant` and `ExitsWhenDeserted` and,
  each by its own induction, `ToldModeIsCurrent` and `EachAnsweredOnce` (`Once`
  moves a request from one place to another; the lemmas on `Ids` are about what
  appending, taking and joining do to the ids of a sequence).
* `DaemonScheduleBridgeProofs`, about the service. `RunsInv` ties `runs` to `m_lastAttemptDate` and
  `m_skipMissedRun`: a service that could still run today's schedule has not done
  so, and one that has forgotten skips. `WatchInv` does the same for `since`.
  They give `OnceADay` and `NoMissedRun`. `DueInv` adds that a schedule whose hour
  has passed in its place has run or is still armed, which gives `DueRunHappens`.
* `DaemonScheduleBridgeProofs`, about the composition. Every step of the two processes is one of
  `ScheduleService` or none (`BridgeRunsService`), so what is proved of the service holds
  of it in the composition. `RunnerOnceADay` holds with timeouts. `OwnershipAgrees`
  rests on `OwnerInv`: what the bridge believes, has deferred and has asked on
  this connection agrees with the daemon there, or an answer that will say so is under
  way. `ScheduleMirrored` rests on `MirrorInv`: the settings are in the
  daemon, in a push under way or in a deferred one. These two assume `~CallsMayFail`.
* `AppOperationsProofs`. `BooksInv` is that each operation is `Balanced` (the zones it
  has counted and its calls outstanding are those it started with) and that calls
  are told apart by operation and zone, the single ones by a number. The finiteness of
  `Device` is assumed because the books are cardinalities. It gives `CountsAddUp` for any
  number of operations and devices.
* `LightStreamProofs`. `StreamInv` is `TypeOK` and four relations between the proxy
  and the wire. `Books`: a zone's suspension count is the number of calls
  under way that suspend it, and its frame in flight is on the wire once. `Shadowed`: no
  frame is sent behind a call that suspends its zone. `Shown`: what the last executed
  command set is what the channel shows. `Held`: while a colour may be relied on,
  nothing that would change it is streamed, waiting or on its way. `Shadowed` is the one
  the code rests on without saying so: a reply can release a zone only because the
  frames before its call have left the wire. From it follow `StreamBooksBalance` and
  `AcknowledgedHolds`, for any number of zones, calls, losses and timeouts.
* `StandaloneProofs`, the tree. `TreeInv`: the rows are those of the devices the
  filter lets through, in order, and what a view has read of each is what it says
  now; it gives `RowsAreCurrent`. That the selection keeps naming its zone over a new
  list (`SelectionFollows`) rests on ids being unique in a list.
* The launcher. `LaunchInv` ties the launcher's record and what is shown to what became of
  the process and to who is connected, and gives `LaunchIsAccountedFor` for any history of
  launches, losses, retries and take-overs.
* The Aura controller. `AuraInv` says that a table in use has passed the code's validation
  (`ConfigOK`), that the zones agree with it (`ZonesOK`), that no report has
  gone to a fixed channel (`FixedUntouched`), and of each addressable zone that its
  channel is in the mode it was told, and shows the first `synced` LEDs of its model or, when
  off, has them black there (`ZoneShown`). An operation is cut off after any of
  its reports, so its proof is an induction along them: the lemmas say
  what each prefix of a frame, an all-off or an initialisation leaves (`FrameSent`). A frame does not
  write a mode (`FrameKeeps`), which is why frames on zones that are off are harmless. They give
  `SelectionIsBest`, `ZonesOwnTheirChannels` and `ShowsTheModel` for any table, any
  number of LEDs and any size of a packet.
* The codec. `CodecInv` says that buffer, socket and wire together are the
  encoding of what was sent from the end of some frame on, and that the frames before
  it have been handed on (`FramesTaken`). It gives `FramesAreRead` for all payloads and
  any way the bytes arrive: each frame within the limit once, in order, and nothing after the first
  that is too long.
* Profiles. `EntriesListed` and `AppliedIs` say what the two loops visit,
  `WrittenOnce` that a zone's result is that of the one step with it as its target,
  and `AllAccounted` that every zone is written, skipped or failed.
  They give `PreviewAgrees` and `Restores`; `NothingLost` follows from the operations
  on the files one by one.
* `IndicesProofs`. The provers cannot instantiate the library's induction theorems,
  but they accept an induction phrased with a set: a set of naturals has a least
  member (`LeastNat`), so one that holds 0 and with `k` also `k + 1` holds everything
  up to a bound (`UpTo`). `IterationExists` builds on it: a loop over states of
  known type has the states it goes through. A recursive function is a `CHOOSE`, and
  this lemma is what says that there is something to choose; `Flattened` does the same
  for a fold.

The five components of `StandaloneProofs` keep their assumptions in operators
(`AuraAssumption` and so on), which its theorems name as hypotheses and TLC evaluates in
`MCStandalone`. They say of the constants that they have the right types, that sizes are
positive, that a byte is not the newline, that the ids of `DeviceTree` and the devices of
`Profiles` are finite, and that a name a profile is saved under is one a file can have.

Every safety property of a passing run is stated by one of these theorems.
Model-checked only is all liveness (`RevokedStreamEnds`, `EveryCallEnds`, `Reconnects`,
`EveryRequestAnswered`, `IdleDaemonExits`, `Converges`, `StreamFlows`,
`DryRunConverges`, `ProfileEnds`, `ParkedIsAttempted`), which is out of this prover's
reach.

## 5. Not modelled

* The mock device's scenarios; the Aura protocol's native effect write and static
  preview, which the device does not use, and the bytes of a report; probing of buses.
* The client's blocking `connectToDaemon` and `call` and the launcher's blocking
  `ensureAvailable`, which only tests use, and `setSocketPath`.
* The server's endpoint lock and socket file (`listen`; `DaemonLauncher` sees the lock
  from outside), the payloads of its answers and the activity-log request. A
  connection that waits in the queue at the moment the idle daemon quits is lost in the
  code, as in the model; its client reconnects.
* The controller's group and profile management, diagnostics and status texts; the
  roles of the tree and the rest of the window; option parsing.
* The auto backend and the registry, a stateless concatenation of lists with the mock
  as the fallback; the flicker guard, which repaints one window; stores and the bounded
  log, stored values without decisions of their own; the value types; the
  discovery-only backends, which list devices from probes. `DeviceManager` takes any
  list of devices they could give.

## 6. Plan

The plan is carried out: 1. device manager with its authority refinement; 2. daemon
client with `RemoteCalls`; 3. schedule service and bridge; 4. daemon server;
5. frame streaming and dry-run synchronisation; 6. Aura controller, codec, profiles,
tree; 7. the controller's operations, launcher; 8. the proofs of section 4.

What would add most from here: a composition of `AppOperations` with `DaemonClient` in
place of its free answers, and two zones in `light_stream` for an all-off that fails
between them.
