---------------------------- MODULE DaemonLauncher ----------------------------
(***************************************************************************)
(* The GUI starts the bundled daemon and lives with what becomes of it:    *)
(* DaemonLauncher and the start and the end of GuiApplication.             *)
(*                                                                         *)
(* One daemon at a time holds the lock of the endpoint.  Another daemon    *)
(* may hold it already, in which case the launched one exits, and the      *)
(* client connects to whichever listens.  A daemon serves one client, the  *)
(* newest: a second GUI may take the connection over, and the first take   *)
(* it back.  The bundled daemon was given --exit-on-disconnect.  The end   *)
(* of a process and the report of it are two steps.                        *)
(***************************************************************************)
EXTENDS Integers

CONSTANT MaxForeign   \* bound on the starts of another daemon

(* What the constants are taken to be.                                      *)
LauncherAssumption == MaxForeign \in Nat

VARIABLES
  gui,        \* "starting", "running", "leaving", "closed"
  launched,   \* the bundled daemon: "none", "booting", "listening", "exited"
  foreign,    \* another daemon: "none", "listening"
  foreigns,   \* how often one started
  connected,  \* the daemon the client is connected to, or "none"
  second,     \* another GUI: "none", "running", or the daemon it is connected to
  served,     \* the launched daemon has accepted a connection
  finished,   \* QProcess::finished is to be delivered
  startedDaemon, sawConnection,   \* the launcher's members
  lastError,  \* DaemonLauncher::lastError
  error       \* DaemonClient::lastError, which the status shows: a report of the
              \* launcher, "client" for an error of the client's own, or "none"

StartFailure == {"notFound", "notStarted", "exited"}

world == <<launched, foreign, foreigns, served>>
launcher == <<startedDaemon, sawConnection, lastError>>
launcherVars == <<gui, world, connected, second, finished, launcher, error>>

LauncherInit ==
  /\ gui = "starting" /\ launched = "none"
  /\ foreign \in {"none", "listening"} /\ foreigns = 0
  /\ connected = "none" /\ second = "none" /\ served = FALSE /\ finished = FALSE
  /\ startedDaemon = FALSE /\ sawConnection = FALSE
  /\ lastError = "none" /\ error = "none"

-----------------------------------------------------------------------------
(* A daemon's end of a client's connection is gone: the client may report  *)
(* the socket's error.                                                     *)
Loses(d) ==
  IF connected = d THEN connected' = "none" /\ error' \in {error, "client"}
  ELSE UNCHANGED <<connected, error>>

SecondLoses(d) == second' = IF second = d THEN "running" ELSE second

Listens(d) ==
  \/ d = "launched" /\ launched = "listening"
  \/ d = "foreign" /\ foreign = "listening"

Accepts(d) == Listens(d) /\ served' = (served \/ d = "launched")

-----------------------------------------------------------------------------
(* GuiApplication::run: ensureAvailableAsync, then the client's automatic  *)
(* connection attempts.  The client was never connected before.            *)
EnsureAvailableAsync ==
  /\ gui = "starting" /\ gui' = "running"
  /\ \/ UNCHANGED <<launched, startedDaemon, lastError, error>>   \* ~autoStart
     \/ /\ lastError' \in {"notFound", "notStarted"} /\ error' = lastError'
        /\ UNCHANGED <<launched, startedDaemon>>
     \/ /\ launched' = "booting" /\ startedDaemon' = TRUE
        /\ UNCHANGED <<lastError, error>>
  /\ UNCHANGED <<foreign, foreigns, connected, second, served, finished, sawConnection>>

(* The client connects to the daemon that listens, which clears its last   *)
(* error; connectionStateChanged tells the launcher, if it started one.    *)
(* The daemon drops the client it had.                                     *)
Connects(d) ==
  /\ gui = "running" /\ connected = "none"
  /\ Accepts(d) /\ connected' = d /\ SecondLoses(d)
  /\ error' = "none"
  /\ sawConnection' = (sawConnection \/ launched # "none")
  /\ UNCHANGED <<gui, launched, foreign, foreigns, finished, startedDaemon, lastError>>

(* An attempt to connect fails, or a call: the client's error replaces     *)
(* whatever the launcher reported.                                         *)
ClientFails ==
  /\ gui = "running" /\ error' = "client"
  /\ UNCHANGED <<gui, world, connected, second, finished, launcher>>

(* A call that is answered clears it. *)
CallSucceeds ==
  /\ connected # "none" /\ error' = "none"
  /\ UNCHANGED <<gui, world, connected, second, finished, launcher>>

(* Mutant: whether a connection was seen is not asked. *)
FinishedUnasked ==
  /\ finished /\ gui \in {"running", "leaving"} /\ finished' = FALSE
  /\ startedDaemon' = FALSE /\ lastError' = "exited" /\ error' = lastError'
  /\ UNCHANGED <<gui, world, connected, second, sawConnection>>

(* The handler of QProcess::finished. *)
Finished ==
  /\ finished /\ gui \in {"running", "leaving"} /\ finished' = FALSE
  /\ IF sawConnection THEN UNCHANGED <<startedDaemon, lastError, error>>
     ELSE startedDaemon' = FALSE /\ lastError' = "exited" /\ error' = lastError'
  /\ UNCHANGED <<gui, world, connected, second, sawConnection>>

(* ~GuiApplication: the client leaves, and the launched daemon has a       *)
(* second to notice it.                                                    *)
Leaves ==
  /\ gui = "running" /\ gui' = "leaving"
  /\ connected' = "none" /\ error' \in {error, "client"}
  /\ UNCHANGED <<world, second, finished, launcher>>

(* ~DaemonLauncher: stopStartedProcess terminates, then kills it, whether  *)
(* the second GUI is connected to it or not.                               *)
StopStartedProcess ==
  /\ gui = "leaving" /\ gui' = "closed"
  /\ IF startedDaemon /\ launched # "none"
     THEN launched' = "exited" /\ SecondLoses("launched")
     ELSE UNCHANGED <<launched, second>>
  /\ UNCHANGED <<foreign, foreigns, connected, served, finished, launcher, error>>

-----------------------------------------------------------------------------
(* The second GUI.  A daemon that it launches is a foreign one. *)

SecondStarts ==
  /\ second = "none" /\ second' = "running"
  /\ UNCHANGED <<gui, world, connected, finished, launcher, error>>

(* The newest connection replaces the one before. *)
SecondConnects(d) ==
  /\ second = "running" /\ Accepts(d) /\ second' = d /\ Loses(d)
  /\ UNCHANGED <<gui, launched, foreign, foreigns, finished, launcher>>

SecondCloses ==
  /\ second # "none" /\ second' = "none"
  /\ UNCHANGED <<gui, world, connected, finished, launcher, error>>

-----------------------------------------------------------------------------
(* The daemons. *)

Exits ==
  /\ launched' = "exited" /\ finished' = TRUE
  /\ Loses("launched") /\ SecondLoses("launched")
  /\ UNCHANGED <<gui, foreign, foreigns, served, launcher>>

(* DaemonServer::listen, or its failure on a lock that is taken. *)
Boots ==
  /\ launched = "booting"
  /\ IF foreign = "listening" THEN Exits
     ELSE /\ launched' = "listening"
          /\ UNCHANGED <<gui, foreign, foreigns, connected, second, served, finished, launcher,
                         error>>

Crashes == launched \in {"booting", "listening"} /\ Exits

(* --exit-on-disconnect: the last client is gone. *)
ExitsIdle == launched = "listening" /\ served /\ "launched" \notin {connected, second} /\ Exits

ForeignStarts ==
  /\ foreign = "none" /\ launched # "listening"
  /\ foreigns < MaxForeign /\ foreigns' = foreigns + 1
  /\ foreign' = "listening"
  /\ UNCHANGED <<gui, launched, connected, second, served, finished, launcher, error>>

ForeignStops ==
  /\ foreign = "listening" /\ foreign' = "none"
  /\ Loses("foreign") /\ SecondLoses("foreign")
  /\ UNCHANGED <<gui, launched, foreigns, served, finished, launcher>>

LauncherNext ==
  \/ EnsureAvailableAsync \/ ClientFails \/ CallSucceeds
  \/ Finished \/ Leaves \/ StopStartedProcess
  \/ \E d \in {"launched", "foreign"} : Connects(d) \/ SecondConnects(d)
  \/ SecondStarts \/ SecondCloses
  \/ Boots \/ Crashes \/ ExitsIdle \/ ForeignStarts \/ ForeignStops

LauncherSpec == LauncherInit /\ [][LauncherNext]_launcherVars

-----------------------------------------------------------------------------
(* A daemon that ends before any connection is on record with the launcher *)
(* as a failed start, and no longer held as started.  A failed start is    *)
(* shown (until the client's own errors replace it) only as the launcher   *)
(* recorded it, never beside a connection to whichever daemon, and one of  *)
(* a daemon that exited never once a connection was seen.  A GUI that is   *)
(* gone leaves no daemon of its own behind that no GUI is connected to.    *)
LaunchIsAccountedFor ==
  /\ gui = "running" /\ launched = "exited" /\ ~finished /\ ~sawConnection =>
       lastError = "exited" /\ ~startedDaemon
  /\ error \in StartFailure => error = lastError /\ connected = "none"
  /\ error = "exited" => launched = "exited" /\ ~sawConnection
  /\ gui = "closed" /\ second # "launched" => launched \in {"none", "exited"}
=============================================================================
