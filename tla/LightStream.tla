----------------------------- MODULE LightStream -----------------------------
(***************************************************************************)
(* One device seen end to end: the GUI applies effects through its         *)
(* DaemonRgbDevice proxy and streams the frames of animated ones from its  *)
(* own EffectsEngine; the daemon executes the requests of the connection   *)
(* in order and writes the Aura channels.  A timed-out call ends for the   *)
(* GUI but stays on the wire.                                              *)
(*                                                                         *)
(* calls is the connection's FIFO: the first `answered' calls have been    *)
(* executed and their replies wait for the GUI, the others wait for the    *)
(* daemon.  Frames are named by the effect they are computed from.  The    *)
(* writes are permitted throughout; DeviceManager is about the gate.       *)
(***************************************************************************)
EXTENDS Integers, Sequences, FiniteSets

CONSTANTS
  Zone,            \* zones of the device, one Aura channel each
  StaticEffect, AnimatedEffect, OffEffect,
  NoEffect,        \* no frame, no acknowledged colour
  NoZone,          \* the zone of a call that has none
  MaxCommands,     \* bound on the user's commands
  MaxDrops,        \* bound on lost connections and daemon restarts
  MaxCalls,        \* bound on the calls on the wire when a frame is added
  CallsMayTimeOut

Effect == StaticEffect \cup AnimatedEffect

ASSUME StreamAssumption ==
  /\ OffEffect \in StaticEffect /\ StaticEffect \cap AnimatedEffect = {}
  /\ NoEffect \notin Effect /\ NoZone \notin Zone /\ IsFiniteSet(Zone)
  /\ {MaxCommands, MaxDrops, MaxCalls} \subseteq Nat /\ CallsMayTimeOut \in BOOLEAN

VARIABLES
  dryRun,       \* the GUI's own dry-run setting
  syncing,      \* m_daemonDryRunSyncInProgress
  again,        \* m_pendingDaemonDryRunSync
  known,        \* {} or the daemon's dry-run state the client was told last
  connected,
  refresh,      \* the device list: "idle", "due" or "busy"
  loaded,       \* m_daemonDevicesLoaded
  proxy,        \* proxy[z]: the proxy's zone and its FrameStreamState
  streaming,    \* zones the GUI's EffectsEngine streams
  accepted,     \* accepted[z]: m_lastAcceptedFrames
  calls, answered,
  daemonDryRun, \* the daemon's dry-run state
  zoneEffect,   \* the daemon's zone models
  channel,      \* channel[z]: the Aura channel's mode and what it was given
  holds,        \* history: the colour the user last got acknowledged for z
  commands, drops

gui    == <<dryRun, syncing, again, refresh, loaded, proxy, streaming, accepted>>
daemon == <<daemonDryRun, zoneEffect, channel>>
bounds == <<commands, drops>>
vars   == <<gui, known, connected, calls, answered, daemon, holds, bounds>>

Writes == {"apply", "allOff", "paint"}

FreshProxy(z, e) == [effect |-> e, suspended |-> 0, inFlight |-> FALSE, waiting |-> NoEffect]

Init ==
  /\ dryRun \in BOOLEAN
  /\ daemonDryRun = dryRun
  /\ known = {dryRun}
  /\ syncing = FALSE /\ again = FALSE
  /\ connected = TRUE /\ refresh = "idle" /\ loaded = TRUE
  /\ proxy = [z \in Zone |-> FreshProxy(z, OffEffect)]
  /\ streaming = {}
  /\ accepted = [z \in Zone |-> NoEffect]
  /\ calls = <<>> /\ answered = 0
  /\ zoneEffect = [z \in Zone |-> OffEffect]
  /\ channel = [z \in Zone |-> [mode |-> "other", shows |-> NoEffect]]
  /\ holds = [z \in Zone |-> NoEffect]
  /\ commands = 0 /\ drops = 0

NewCall(kind, z, e, expect) ==
  [kind |-> kind, zone |-> z, effect |-> e, expect |-> expect, self |-> TRUE, open |-> TRUE,
   ok |-> FALSE, told |-> FALSE, seen |-> [x \in Zone |-> OffEffect]]

(* The zones whose frames the call suspends while it is outstanding. *)
Suspends(c) ==
  CASE c.kind \in {"apply", "update"} -> {c.zone}
    [] c.kind = "allOff" -> Zone
    [] OTHER -> {}

-----------------------------------------------------------------------------
(* The GUI's own engine and the proxy's frame stream. *)

StartZoneFrameStreaming(z) ==
  /\ streaming' = streaming \cup {z}
  /\ accepted' = [accepted EXCEPT ![z] = NoEffect]

StopStreaming(Z) ==
  /\ streaming' = streaming \ Z
  /\ accepted' = [z \in Zone |-> IF z \in Z THEN NoEffect ELSE accepted[z]]

SyncZoneFrameStreaming(z, e) ==
  IF e \in AnimatedEffect THEN StartZoneFrameStreaming(z) ELSE StopStreaming({z})

(* Suspending drops the frame that waits. *)
SuspendZoneFrames(Z) ==
  proxy' = [z \in Zone |-> IF z \in Z THEN [proxy[z] EXCEPT !.suspended = @ + 1,
                                                            !.waiting = NoEffect]
                           ELSE proxy[z]]

(* A frame that differs from the last accepted one is accepted by the      *)
(* proxy, which sends it or keeps it behind the one in flight; under       *)
(* dry-run it only recolours the local model.                              *)
Tick ==
  /\ Len(calls) + Cardinality(streaming) <= MaxCalls
  /\ LET due  == {z \in streaming : accepted[z] # proxy[z].effect
                                    \/ proxy[z].effect \in AnimatedEffect}
         took == IF dryRun THEN due ELSE {z \in due : proxy[z].suspended = 0}
         sent == IF dryRun THEN {} ELSE {z \in took : ~proxy[z].inFlight}
     IN  /\ due # {}
         /\ \E order \in [1 .. Cardinality(sent) -> sent] :
              /\ \A i, j \in DOMAIN order : order[i] = order[j] => i = j
              /\ calls' = calls \o [i \in DOMAIN order |->
                            NewCall("paint", order[i], proxy[order[i]].effect, FALSE)]
         /\ accepted' = [z \in Zone |-> IF z \in took THEN proxy[z].effect ELSE accepted[z]]
         /\ proxy' = [z \in Zone |->
              IF z \in sent THEN [proxy[z] EXCEPT !.inFlight = TRUE]
              ELSE IF z \in took /\ ~dryRun THEN [proxy[z] EXCEPT !.waiting = proxy[z].effect]
              ELSE proxy[z]]
  /\ UNCHANGED <<dryRun, syncing, again, refresh, loaded, streaming, known, connected,
                 answered, daemon, holds, bounds>>

-----------------------------------------------------------------------------
(* What the end of a call does in the GUI; rest is the wire without it.    *)

(* syncDaemonDryRun; `busy' says whether a synchronisation is under way.   *)
SyncDaemonDryRun(busy, rest) ==
  \/ /\ ~connected'
     /\ again' = FALSE /\ syncing' = busy
     /\ calls' = rest
  \/ /\ connected' /\ busy
     /\ again' = TRUE /\ syncing' = TRUE
     /\ calls' = rest
  \/ /\ connected' /\ ~busy
     /\ again' = FALSE /\ syncing' = TRUE
     /\ calls' = Append(rest, NewCall("setDryRun", NoZone, NoEffect, dryRun'))

NoSync(rest) == calls' = rest /\ UNCHANGED <<syncing, again>>

Resumed(c, z, e, ok) ==
  IF c.self /\ z \in Suspends(c)
  THEN [proxy[z] EXCEPT !.suspended = @ - 1, !.effect = IF ok THEN e ELSE @]
  ELSE proxy[z]

(* Mutant: only a success resumes the zone's frames. *)
ApplyEndsResumingOnSuccess(c, ok, rest) ==
  /\ proxy' = IF ok THEN [z \in Zone |-> Resumed(c, z, c.effect, ok)] ELSE proxy
  /\ IF ok THEN SyncZoneFrameStreaming(c.zone, c.effect) ELSE UNCHANGED <<streaming, accepted>>
  /\ NoSync(rest)
  /\ UNCHANGED <<refresh, loaded>>

ApplyEnds(c, ok, rest) ==
  /\ proxy' = [z \in Zone |-> Resumed(c, z, c.effect, ok)]
  /\ IF ok THEN SyncZoneFrameStreaming(c.zone, c.effect) ELSE UNCHANGED <<streaming, accepted>>
  /\ NoSync(rest)
  /\ UNCHANGED <<refresh, loaded>>

AllOffEnds(c, ok, rest) ==
  /\ proxy' = [z \in Zone |-> Resumed(c, z, OffEffect, ok)]
  /\ IF ok THEN StopStreaming(Zone) ELSE UNCHANGED <<streaming, accepted>>
  /\ NoSync(rest)
  /\ UNCHANGED <<refresh, loaded>>

UpdateEnds(c, ok, rest) ==
  /\ proxy' = [z \in Zone |-> Resumed(c, z, proxy[z].effect, ok)]
  /\ NoSync(rest)
  /\ UNCHANGED <<refresh, loaded, streaming, accepted>>

(* Mutant: a failed frame leaves the zone's in-flight mark behind. *)
PaintEndsOnSuccess(c, ok, rest) ==
  LET p    == proxy[c.zone]
      next == ok /\ p.suspended = 0 /\ p.waiting # NoEffect
  IN  /\ IF ~c.self \/ ~ok THEN UNCHANGED proxy /\ NoSync(rest)
         ELSE /\ proxy' = [proxy EXCEPT ![c.zone].inFlight = next, ![c.zone].waiting = NoEffect]
              /\ NoSync(IF next THEN Append(rest, NewCall("paint", c.zone, p.waiting, FALSE))
                        ELSE rest)
      /\ UNCHANGED <<refresh, loaded, streaming, accepted>>

(* The frame that waited follows, unless this one failed or a command is   *)
(* outstanding.  It is sent whatever the GUI's dry-run setting is by now.  *)
PaintEnds(c, ok, rest) ==
  LET p    == proxy[c.zone]
      next == ok /\ connected /\ p.suspended = 0 /\ p.waiting # NoEffect
  IN  /\ IF ~c.self THEN UNCHANGED proxy /\ NoSync(rest)
         ELSE /\ proxy' = [proxy EXCEPT ![c.zone].inFlight = next, ![c.zone].waiting = NoEffect]
              /\ NoSync(IF next THEN Append(rest, NewCall("paint", c.zone, p.waiting, FALSE))
                        ELSE rest)
      /\ UNCHANGED <<refresh, loaded, streaming, accepted>>

(* Mutant: the pending request is dropped. *)
SetDryRunEndsOnce(c, ok, rest) ==
  /\ syncing' = FALSE /\ again' = FALSE /\ calls' = rest
  /\ UNCHANGED <<refresh, loaded, proxy, streaming, accepted>>

SetDryRunEnds(c, ok, rest) ==
  /\ IF again \/ dryRun # c.expect THEN SyncDaemonDryRun(FALSE, rest)
     ELSE syncing' = FALSE /\ calls' = rest /\ UNCHANGED again
  /\ UNCHANGED <<refresh, loaded, proxy, streaming, accepted>>

(* replaceDevices: new proxies, built from the daemon's models; the calls  *)
(* of the old ones lose their proxy but not the controller's handler.      *)
ListEnds(c, ok, rest) ==
  /\ refresh' = "idle"
  /\ IF ok THEN /\ proxy' = [z \in Zone |-> FreshProxy(z, c.seen[z])]
                /\ StopStreaming(Zone)
                /\ loaded' = TRUE
                /\ LET orphaned == [i \in DOMAIN rest |-> [rest[i] EXCEPT !.self = FALSE]]
                   IN  IF known' # {dryRun} THEN SyncDaemonDryRun(syncing, orphaned)
                       ELSE NoSync(orphaned)
     ELSE NoSync(rest) /\ UNCHANGED <<proxy, streaming, accepted, loaded>>

Ends(c, ok, rest) ==
  /\ UNCHANGED dryRun
  /\ \/ c.kind = "apply"     /\ ApplyEnds(c, ok, rest)
     \/ c.kind = "allOff"    /\ AllOffEnds(c, ok, rest)
     \/ c.kind = "update"    /\ UpdateEnds(c, ok, rest)
     \/ c.kind = "paint"     /\ PaintEnds(c, ok, rest)
     \/ c.kind = "setDryRun" /\ SetDryRunEnds(c, ok, rest)
     \/ c.kind = "list"      /\ ListEnds(c, ok, rest)

(* The colour the user may now rely on: an acknowledged write of a static  *)
(* effect, sent by the proxy that is still there, with no later command    *)
(* for the zone on the wire.                                               *)
Relied(c, z, rest) ==
  IF /\ c.ok /\ c.self /\ ~c.expect /\ c.kind \in {"apply", "allOff"} /\ z \in Suspends(c)
     /\ \A i \in DOMAIN rest : rest[i].kind \in {"apply", "allOff"} => z \notin Suspends(rest[i])
  THEN LET e == IF c.kind = "allOff" THEN OffEffect ELSE c.effect
       IN  IF e \in StaticEffect THEN e ELSE NoEffect
  ELSE holds[z]

ReadReply ==
  /\ answered > 0
  /\ answered' = answered - 1
  /\ LET c == Head(calls)  rest == Tail(calls)
     IN  IF c.open
         THEN /\ known' = {c.told}
              /\ holds' = [z \in Zone |-> Relied(c, z, rest)]
              /\ UNCHANGED connected
              /\ Ends(c, c.ok, rest)
         ELSE /\ calls' = rest
              /\ UNCHANGED <<gui, known, connected, holds>>
  /\ UNCHANGED <<daemon, bounds>>

Timeout(i) ==
  /\ CallsMayTimeOut
  /\ calls[i].open
  /\ UNCHANGED <<known, connected, answered, holds, daemon, bounds>>
  /\ Ends(calls[i], FALSE, [calls EXCEPT ![i].open = FALSE, ![i].self = FALSE])

-----------------------------------------------------------------------------
(* The user's commands. *)

(* Mutant: the command is sent without suspending the zone. *)
IssueUnsuspended(kind, z, e) ==
  LET c == NewCall(kind, z, e, dryRun)
  IN  /\ calls' = Append(calls, c)
      /\ UNCHANGED proxy
      /\ holds' = [x \in Zone |-> IF kind # "update" /\ x \in Suspends(c) THEN NoEffect
                                  ELSE holds[x]]

Issue(kind, z, e) ==
  LET c == NewCall(kind, z, e, dryRun)
  IN  /\ calls' = Append(calls, c)
      /\ SuspendZoneFrames(Suspends(c))
      /\ holds' = [x \in Zone |-> IF kind # "update" /\ x \in Suspends(c) THEN NoEffect
                                  ELSE holds[x]]

Command ==
  /\ connected
  /\ commands < MaxCommands /\ commands' = commands + 1
  /\ \/ \E z \in Zone, e \in Effect \ {OffEffect} : Issue("apply", z, e)
     \/ Issue("allOff", NoZone, OffEffect)
     \/ \E z \in Zone : Issue("update", z, NoEffect)
  /\ UNCHANGED <<dryRun, syncing, again, refresh, loaded, streaming, accepted, known,
                 connected, answered, daemon, drops>>

SetDryRunEnabled(enabled) ==
  /\ commands < MaxCommands /\ commands' = commands + 1
  /\ dryRun' = enabled
  /\ UNCHANGED connected
  /\ IF enabled /\ ~dryRun THEN StopStreaming(Zone) ELSE UNCHANGED <<streaming, accepted>>
  /\ SyncDaemonDryRun(syncing, calls)
  /\ UNCHANGED <<refresh, loaded, proxy, known, answered, daemon, holds, drops>>

(* refreshDaemonDevices, for a rescan and after a reconnect. *)
SendList ==
  /\ calls' = Append(calls, NewCall("list", NoZone, NoEffect, FALSE))
  /\ refresh' = "busy"
  /\ UNCHANGED <<dryRun, syncing, again, loaded, proxy, streaming, accepted, known,
                 connected, answered, daemon, holds, drops>>

Rescan ==
  /\ connected /\ refresh # "busy"
  /\ commands < MaxCommands /\ commands' = commands + 1
  /\ SendList

RefreshDaemonDevices ==
  /\ connected /\ refresh = "due"
  /\ UNCHANGED commands
  /\ SendList

-----------------------------------------------------------------------------
(* The connection. *)

(* Every outstanding call fails; the handlers see a client that is not     *)
(* connected.  The daemon may be another one when it comes back.           *)
Disconnect ==
  /\ connected /\ connected' = FALSE
  /\ drops < MaxDrops /\ drops' = drops + 1
  /\ known' = {}
  /\ refresh' = "idle" /\ loaded' = FALSE
  /\ syncing' = FALSE /\ again' = FALSE
  /\ proxy' = [z \in Zone |-> FreshProxy(z, proxy[z].effect)]
  /\ StopStreaming(Zone)
  /\ calls' = <<>> /\ answered' = 0
  /\ \/ UNCHANGED <<daemonDryRun, zoneEffect>>
     \/ /\ daemonDryRun' \in BOOLEAN
        /\ zoneEffect' = [z \in Zone |-> OffEffect]
  /\ UNCHANGED <<dryRun, channel, holds, commands>>

Reconnect ==
  /\ ~connected /\ connected' = TRUE
  /\ refresh' = "due"
  /\ UNCHANGED <<dryRun, syncing, again, loaded, proxy, streaming, accepted, known,
                 calls, answered, daemon, holds, bounds>>

-----------------------------------------------------------------------------
(* The daemon executes one request. *)

Answer(c, ok) ==
  /\ calls' = [calls EXCEPT ![answered + 1] =
                 [c EXCEPT !.ok = ok, !.told = daemonDryRun',
                           !.seen = IF c.kind = "list" THEN zoneEffect ELSE @]]
  /\ answered' = answered + 1
  /\ UNCHANGED <<gui, known, connected, holds, bounds>>

Written(Z, e, mode) ==
  /\ zoneEffect' = [z \in Zone |-> IF z \in Z THEN e ELSE zoneEffect[z]]
  /\ channel' = [z \in Zone |-> IF z \in Z THEN [mode |-> mode, shows |-> e] ELSE channel[z]]

(* The guard compares the request's expectation with the daemon's own      *)
(* state; under dry-run an accepted write changes nothing.  A frame does   *)
(* not switch the channel to direct mode.                                  *)
ExecuteWrite(c) ==
  \/ /\ c.expect # daemonDryRun
     /\ UNCHANGED <<zoneEffect, channel>> /\ Answer(c, FALSE)
  \/ /\ c.expect /\ daemonDryRun
     /\ UNCHANGED <<zoneEffect, channel>> /\ Answer(c, TRUE)
  \/ /\ ~c.expect /\ ~daemonDryRun
     /\ \/ UNCHANGED <<zoneEffect, channel>> /\ Answer(c, FALSE)
        \/ c.kind = "apply" /\ Written({c.zone}, c.effect, "direct") /\ Answer(c, TRUE)
        \/ c.kind = "allOff" /\ Written(Zone, OffEffect, "off") /\ Answer(c, TRUE)
        \/ /\ c.kind = "paint"
           /\ channel' = [channel EXCEPT ![c.zone].shows = c.effect]
           /\ UNCHANGED zoneEffect /\ Answer(c, TRUE)

ExecuteOther(c) ==
  /\ daemonDryRun' = IF c.kind = "setDryRun" THEN c.expect ELSE daemonDryRun
  /\ UNCHANGED <<zoneEffect, channel>>
  /\ Answer(c, TRUE)

DaemonHandles ==
  /\ answered < Len(calls)
  /\ LET c == calls[answered + 1]
     IN  IF c.kind \in Writes THEN UNCHANGED daemonDryRun /\ ExecuteWrite(c)
         ELSE ExecuteOther(c)

-----------------------------------------------------------------------------
Next ==
  \/ Command \/ Rescan
  \/ \E enabled \in BOOLEAN : SetDryRunEnabled(enabled)
  \/ Tick \/ ReadReply \/ RefreshDaemonDevices
  \/ \E i \in DOMAIN calls : Timeout(i)
  \/ Disconnect \/ Reconnect
  \/ DaemonHandles

Spec == Init /\ [][Next]_vars

(* Both event loops run and the frame timer fires.  A call may time out,   *)
(* but need not: the reply to an open call is read.                        *)
Fairness == WF_vars(Tick) /\ WF_vars(ReadReply) /\ WF_vars(RefreshDaemonDevices)
            /\ WF_vars(DaemonHandles)
FairSpec == Spec /\ Fairness

-----------------------------------------------------------------------------
(* A colour, or all-off, that the daemon acknowledged stays on the LEDs    *)
(* until the next command for the zone: no frame of an earlier animation,  *)
(* in flight, waiting behind it or computed by a late tick, repaints it    *)
(* (suspendZoneFrames and the streams a success stops).                    *)
AcknowledgedHolds ==
  \A z \in Zone : holds[z] # NoEffect => channel[z].shows = holds[z]

(* The proxy's books agree with the calls it waits for: a zone is          *)
(* suspended by exactly its outstanding commands, one frame of it is in    *)
(* flight when it says so, and a frame waits only behind that one.  A      *)
(* count that is not taken back would freeze the zone's animation.         *)
StreamBooksBalance ==
  \A z \in Zone :
    LET Mine(c) == c.open /\ c.self
    IN  /\ proxy[z].suspended = Cardinality({i \in DOMAIN calls :
                                    Mine(calls[i]) /\ z \in Suspends(calls[i])})
        /\ Cardinality({i \in DOMAIN calls : Mine(calls[i]) /\ calls[i].kind = "paint"
                                             /\ calls[i].zone = z})
             = IF proxy[z].inFlight THEN 1 ELSE 0
        /\ proxy[z].waiting # NoEffect => proxy[z].inFlight /\ proxy[z].suspended = 0

Flows(z) ==
  /\ z \in streaming /\ connected /\ ~dryRun /\ ~daemonDryRun
  /\ proxy[z].effect \in AnimatedEffect

Painted(z) ==
  \E i \in 1 .. answered : calls[i].kind = "paint" /\ calls[i].zone = z

(* An animation the GUI streams keeps reaching the daemon, whatever was    *)
(* lost, refused or timed out before: neither the in-flight mark nor a     *)
(* suspension can stop it for good.                                        *)
StreamFlows == \A z \in Zone : (<>[]Flows(z)) => ([]<>Painted(z))

(* Whatever the user toggles and whichever synchronisation calls time out  *)
(* or are lost with the connection, a GUI that stays connected and has its *)
(* device list ends with the daemon in its own dry-run mode.               *)
DryRunConverges == (<>[](connected /\ loaded)) => <>[](daemonDryRun = dryRun)

(* asus-aura-hid.md: applying an effect primes direct mode before frames   *)
(* are streamed.  (A write that is not an apply leaves the mode alone.)    *)
FramesArePrimed ==
  [][\A z \in Zone :
       channel'[z] # channel[z] /\ channel'[z].mode = channel[z].mode
         => channel[z].mode = "direct"]_vars
==============================================================================
