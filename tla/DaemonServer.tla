---------------------------- MODULE DaemonServer ----------------------------
(***************************************************************************)
(* The daemon's DaemonServer: connections that replace one another,        *)
(* requests that are answered, refused or (device lists during a           *)
(* discovery) deferred, the dry-run guard, and the exit of an idle daemon. *)
(*                                                                         *)
(* Everything runs on the daemon's event-loop thread.  Bytes arrive in any *)
(* portions, so a step takes one frame from the buffer although the code   *)
(* takes all that are complete.  A connection is used once; a GUI that     *)
(* reconnects is a new one.  A socket the server closes may report         *)
(* "disconnected" at once or later.                                        *)
(***************************************************************************)
EXTENDS Integers, Sequences

CONSTANTS
  Conn,          \* the connections made to the daemon
  NoConn,        \* the null QLocalSocket
  MaxRequests,   \* bound on the requests of a connection
  Sends,         \* bound on their kinds
  ExitWhenIdle   \* m_exitWhenIdle (--exit-on-disconnect)

ASSUME ServerAssumption ==
  NoConn \notin Conn /\ MaxRequests \in Nat /\ ExitWhenIdle \in BOOLEAN

(* list waits for the discovery (one that accepts an incomplete inventory  *)
(* is a status); write stands for applyEffect, allOff and paintZoneFrame   *)
(* and carries the dry-run mode the client expects, setDryRun the mode it  *)
(* wants; zone stands for the other methods that need devices; oversized   *)
(* is no frame at all.  The log and schedule methods, which neither wait   *)
(* nor report the mode, are left out.                                      *)
Id      == 1 .. MaxRequests
Mode    == {"dry", "live"}
Request == [id : Id, kind : {"list", "status", "zone", "oversized"}, mode : {"unsaid"}]
             \cup [id : Id, kind : {"write", "setDryRun"}, mode : Mode]

(* Answers about devices, writes and dry-run carry the daemon's mode.      *)
Answer  == [id : Id, mode : Mode \cup {"unsaid"}]
NoWrite == [by |-> NoConn, meant |-> "unsaid", mode |-> "unsaid"]
Write   == [by : Conn, meant : Mode, mode : Mode]
Stage   == {"new", "queued", "open", "closing", "closed"}

VARIABLES
  stage,      \* stage[c]: the server's end of the connection
  left,       \* connections the client has closed
  asked,      \* asked[c]: how many requests the client sent
  inbox,      \* inbox[c]: requests not yet handled
  outbox,     \* outbox[c]: answers written to the socket
  backlog,    \* connections not yet accepted
  buffers,    \* the keys of m_buffers
  active,     \* m_activeClient
  deferred,   \* m_deferredDeviceListRequestIds, <<>> for a missing entry
  accepted,   \* m_acceptedConnection
  discovering,\* DeviceManager::discoveryComplete is false
  mode,       \* DeviceManager::dryRunEnabled
  hardware,   \* history: the last write handed to the DeviceManager
  exiting,    \* idleExitRequested was emitted
  stopped     \* the process has ended

clients == <<left, asked>>
manager == <<discovering, mode, hardware>>
vars == <<stage, clients, inbox, outbox, backlog, buffers, active, deferred, accepted,
          manager, exiting, stopped>>

TypeOK ==
  /\ stage \in [Conn -> Stage]
  /\ left \subseteq Conn
  /\ asked \in [Conn -> 0 .. MaxRequests]
  /\ inbox \in [Conn -> Seq(Request)]
  /\ outbox \in [Conn -> Seq(Answer)]
  /\ backlog \in Seq(Conn)
  /\ buffers \subseteq Conn
  /\ active \in Conn \cup {NoConn}
  /\ deferred \in [Conn -> Seq(Id)]
  /\ accepted \in BOOLEAN /\ discovering \in BOOLEAN
  /\ exiting \in BOOLEAN /\ stopped \in BOOLEAN
  /\ mode \in Mode
  /\ hardware \in Write \cup {NoWrite}

Init ==
  /\ stage = [c \in Conn |-> "new"]
  /\ left = {}
  /\ asked = [c \in Conn |-> 0]
  /\ inbox = [c \in Conn |-> <<>>]
  /\ outbox = [c \in Conn |-> <<>>]
  /\ backlog = <<>>
  /\ buffers = {}
  /\ active = NoConn
  /\ deferred = [c \in Conn |-> <<>>]
  /\ accepted = FALSE
  /\ discovering \in BOOLEAN
  /\ mode \in Mode
  /\ hardware = NoWrite
  /\ exiting = FALSE
  /\ stopped = FALSE

-----------------------------------------------------------------------------
(* The clients. *)

Connects(c) ==
  /\ ~stopped
  /\ stage[c] = "new"
  /\ stage' = [stage EXCEPT ![c] = "queued"]
  /\ backlog' = Append(backlog, c)
  /\ UNCHANGED <<clients, inbox, outbox, buffers, active, deferred, accepted, manager,
                 exiting, stopped>>

Asks(c, r) ==
  /\ stage[c] \in {"queued", "open"} /\ c \notin left
  /\ asked[c] < MaxRequests
  /\ r.id = asked[c] + 1
  /\ asked' = [asked EXCEPT ![c] = @ + 1]
  /\ inbox' = [inbox EXCEPT ![c] = Append(@, r)]
  /\ UNCHANGED <<stage, left, outbox, backlog, buffers, active, deferred, accepted, manager,
                 exiting, stopped>>

Leaves(c) ==
  /\ stage[c] \in {"queued", "open", "closing"} /\ c \notin left
  /\ left' = left \cup {c}
  /\ UNCHANGED <<stage, asked, inbox, outbox, backlog, buffers, active, deferred, accepted,
                 manager, exiting, stopped>>

-----------------------------------------------------------------------------
(* Mutant: idleness is judged before the connection is forgotten. *)
DisconnectedTooEarly(S, tracked) ==
  /\ buffers' = tracked \ S
  /\ deferred' = [c \in Conn |-> IF c \in S THEN <<>> ELSE deferred[c]]
  /\ exiting' = (exiting \/ (ExitWhenIdle /\ accepted' /\ S # {} /\ tracked = {}))

(* handleDisconnected for the sockets S, with tracked as m_buffers.        *)
HandleDisconnected(S, tracked) ==
  /\ buffers' = tracked \ S
  /\ deferred' = [c \in Conn |-> IF c \in S THEN <<>> ELSE deferred[c]]
  /\ exiting' = (exiting \/ (ExitWhenIdle /\ accepted' /\ S # {} /\ tracked \ S = {}))

Opened(S) == [c \in Conn |-> IF c \in S THEN "open"
                             ELSE IF stage[c] = "new" THEN "new" ELSE "closed"]
(* What was not read from, or is written to, a closed socket goes with it.  *)
DropClosed ==
  /\ inbox' = [c \in Conn |-> IF stage'[c] = "closed" THEN <<>> ELSE inbox[c]]
  /\ outbox' = [c \in Conn |-> IF stage'[c] = "closed" THEN <<>> ELSE outbox[c]]

Waiting == {backlog[i] : i \in DOMAIN backlog}
Newest  == backlog[Len(backlog)]

(* Mutant: the previous client is torn down before the new one is tracked. *)
HandOverTornDown ==
  /\ exiting' = (exiting \/ (ExitWhenIdle /\ accepted /\ active # NoConn))
  /\ active' = Newest
  /\ buffers' = {Newest}
  /\ deferred' = [c \in Conn |-> <<>>]
  /\ stage' = Opened({Newest})

(* Mutant: the previous client stays connected. *)
HandOverKeeping ==
  /\ active' = Newest
  /\ buffers' = buffers \cup Waiting
  /\ stage' = Opened(buffers')
  /\ UNCHANGED <<deferred, exiting>>

(* The newest connection becomes the active one before the previous ones   *)
(* are closed, whose "disconnected" finds it tracked.                      *)
HandOver ==
  /\ active' = Newest
  /\ HandleDisconnected((buffers \cup Waiting) \ {Newest}, {Newest})
  /\ stage' = Opened({Newest})

HandleNewConnection ==
  /\ ~stopped
  /\ backlog # <<>>
  /\ backlog' = <<>>
  /\ accepted' = TRUE
  /\ HandOver
  /\ DropClosed
  /\ UNCHANGED <<clients, manager, stopped>>

Disconnected(c) ==
  /\ ~stopped
  /\ stage[c] = "closing" \/ (stage[c] = "open" /\ c \in left)
  /\ stage' = [stage EXCEPT ![c] = "closed"]
  /\ active' = IF c = active THEN NoConn ELSE active
  /\ UNCHANGED accepted
  /\ HandleDisconnected({c}, buffers)
  /\ DropClosed
  /\ UNCHANGED <<clients, backlog, manager, stopped>>

-----------------------------------------------------------------------------
(* writeResponse.  A short write, to a client that has gone, closes the    *)
(* socket.                                                                 *)
WriteResponse(c, id, told) ==
  \/ /\ outbox' = [outbox EXCEPT ![c] = Append(@, [id |-> id, mode |-> told])]
     /\ UNCHANGED stage
  \/ /\ c \in left
     /\ stage' = [stage EXCEPT ![c] = "closing"]
     /\ UNCHANGED outbox

Unready(r) == discovering /\ r.kind \in {"zone", "write"}
Defers(r)  == discovering /\ r.kind = "list"

(* Mutant: the expectation is checked only in one direction. *)
ExecutesDryRuns(r) == r.kind = "write" /\ ~Unready(r) /\ (r.mode = "dry" \/ mode = "live")

(* dryRunMatchesClientExpectation: whether a write goes to the manager.    *)
Executes(r) == r.kind = "write" /\ ~Unready(r) /\ r.mode = mode

(* The mode after a request.  (A write leaves it alone.)                   *)
ModeAfter(r) == IF r.kind = "setDryRun" THEN r.mode ELSE mode

(* The dry-run state an answer reports.                                    *)
Told(r) == IF Unready(r) \/ r.kind = "zone" THEN "unsaid" ELSE ModeAfter(r)

HandleReadyRead(c) ==
  /\ ~stopped
  /\ stage[c] = "open" /\ c \in buffers
  /\ inbox[c] # <<>>
  /\ inbox' = [inbox EXCEPT ![c] = Tail(@)]
  /\ LET r == Head(inbox[c])
     IN  \/ /\ r.kind = "oversized"
            /\ stage' = [stage EXCEPT ![c] = "closing"]
            /\ UNCHANGED <<outbox, deferred, mode, hardware>>
         \/ /\ Defers(r)
            /\ deferred' = [deferred EXCEPT ![c] = Append(@, r.id)]
            /\ UNCHANGED <<mode, hardware, stage, outbox>>
         \/ /\ r.kind # "oversized" /\ ~Defers(r)
            /\ mode' = ModeAfter(r)
            /\ hardware' = IF Executes(r) THEN [by |-> c, meant |-> r.mode, mode |-> mode]
                                          ELSE hardware
            /\ WriteResponse(c, r.id, Told(r))
            /\ UNCHANGED deferred
  /\ UNCHANGED <<clients, backlog, buffers, active, accepted, discovering, exiting, stopped>>

-----------------------------------------------------------------------------
(* sendDeferredDeviceLists to the connections whose writes do not fail.    *)
Lists(c) == [i \in DOMAIN deferred[c] |-> [id |-> deferred[c][i], mode |-> mode]]

(* Mutant: the answers are sent and the requests kept. *)
SendKeepingLists(failed) ==
  /\ outbox' = [c \in Conn |-> IF c \in buffers \ failed THEN outbox[c] \o Lists(c) ELSE outbox[c]]
  /\ stage' = [c \in Conn |-> IF c \in failed THEN "closing" ELSE stage[c]]
  /\ UNCHANGED deferred

(* Mutant: only the first request of each client is answered. *)
SendFirstList(failed) ==
  /\ outbox' = [c \in Conn |-> IF c \in buffers \ failed /\ deferred[c] # <<>>
                               THEN Append(outbox[c], Head(Lists(c))) ELSE outbox[c]]
  /\ stage' = [c \in Conn |-> IF c \in failed THEN "closing" ELSE stage[c]]
  /\ deferred' = [c \in Conn |-> <<>>]

SendDeferredDeviceLists(failed) ==
  /\ outbox' = [c \in Conn |-> IF c \in buffers \ failed THEN outbox[c] \o Lists(c) ELSE outbox[c]]
  /\ stage' = [c \in Conn |-> IF c \in failed THEN "closing" ELSE stage[c]]
  /\ deferred' = [c \in Conn |-> <<>>]

DiscoveryCompletes ==
  /\ ~stopped
  /\ discovering
  /\ discovering' = FALSE
  /\ \E failed \in SUBSET {c \in buffers : deferred[c] # <<>>
                                             /\ (c \in left \/ stage[c] = "closing")} :
       SendDeferredDeviceLists(failed)
  /\ UNCHANGED <<clients, inbox, backlog, buffers, active, accepted, mode, hardware, exiting,
                 stopped>>

(* The event loop ends and the server is closed. *)
Quits ==
  /\ exiting /\ ~stopped
  /\ stopped' = TRUE
  /\ stage' = Opened({})
  /\ backlog' = <<>>
  /\ buffers' = {}
  /\ active' = NoConn
  /\ deferred' = [c \in Conn |-> <<>>]
  /\ DropClosed
  /\ UNCHANGED <<clients, accepted, manager, exiting>>

-----------------------------------------------------------------------------
Client(c) == Connects(c) \/ Leaves(c) \/ \E r \in Request : r.kind \in Sends /\ Asks(c, r)

Next ==
  \/ \E c \in Conn : Client(c) \/ Disconnected(c) \/ HandleReadyRead(c)
  \/ HandleNewConnection
  \/ DiscoveryCompletes
  \/ Quits

(* The event loop delivers what sockets report, the discovery thread ends, *)
(* quit() ends the loop.  The clients owe nothing.                         *)
Fairness ==
  /\ WF_vars(HandleNewConnection)
  /\ \A c \in Conn : WF_vars(Disconnected(c)) /\ WF_vars(HandleReadyRead(c))
  /\ WF_vars(DiscoveryCompletes)
  /\ WF_vars(Quits)

Spec == Init /\ [][Next]_vars
FairSpec == Spec /\ Fairness

-----------------------------------------------------------------------------
(* Safety. *)

(* One GUI at a time: the connection that is tracked is the active one,    *)
(* whatever hand-overs, disconnects and failed writes led there.           *)
OnePeer == buffers = IF active = NoConn THEN {} ELSE {active}

(* A device list is owed only to the connected client, and only while the  *)
(* discovery lasts: nothing is kept for a socket that is gone, whose       *)
(* address the next one may get.                                           *)
ListsOwedToPeer ==
  \A c \in Conn : deferred[c] # <<>> => discovering /\ c = active /\ c \in buffers

Ids(s) == {s[i].id : i \in DOMAIN s}
Entries(s) == {s[i] : i \in DOMAIN s}

(* No request is lost or answered twice: those of a connected client are   *)
(* unread, owed a list, or answered, each in one place and once.           *)
EachAnsweredOnce ==
  \A c \in Conn \ left : stage[c] \in {"queued", "open"} =>
    /\ Ids(inbox[c]) \cup Entries(deferred[c]) \cup Ids(outbox[c]) = 1 .. asked[c]
    /\ Len(inbox[c]) + Len(deferred[c]) + Len(outbox[c]) = asked[c]

(* What the connected GUI was told last about the dry-run mode is true:    *)
(* no request of a connection it replaced changes the mode behind it.      *)
ToldModeIsCurrent ==
  active # NoConn /\ active \notin left =>
    \A i \in DOMAIN outbox[active] :
      /\ outbox[active][i].mode # "unsaid"
      /\ \A j \in DOMAIN outbox[active] : j > i => outbox[active][j].mode = "unsaid"
      => outbox[active][i].mode = mode

(* Only the connected client writes, never during a discovery, and only   *)
(* in the dry-run mode it meant, whoever switched the mode before it.      *)
WritesAsMeant ==
  [][hardware' # hardware =>
       /\ hardware'.by = active
       /\ hardware'.meant = hardware'.mode
       /\ ~discovering]_vars

(* The daemon decides to exit only when the last client has gone: never in *)
(* a hand-over, never before a first client.                               *)
ExitsWhenDeserted == [][~exiting /\ exiting' => accepted' /\ active' = NoConn]_vars

-----------------------------------------------------------------------------
(* Liveness, under FairSpec. *)

(* Every request is answered, with or without a discovery in the way,      *)
(* unless its connection ends.                                             *)
EveryRequestAnswered ==
  \A c \in Conn, i \in Id :
    asked[c] >= i ~> i \in Ids(outbox[c]) \/ stage[c] = "closed"

(* A daemon that should exit when idle does so. *)
IdleDaemonExits == ExitWhenIdle /\ accepted /\ active = NoConn ~> stopped
=============================================================================
