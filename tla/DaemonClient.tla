---------------------------- MODULE DaemonClient ----------------------------
(***************************************************************************)
(* The GUI's DaemonClient: asynchronous calls to the daemon over one local *)
(* socket, their timeouts, and the automatic reconnection with backoff.    *)
(*                                                                         *)
(* The client lives on the GUI's event-loop thread: each API call and each *)
(* event (socket signal, timer, deferred call) is one step.  The handlers  *)
(* of finished calls run inside that step and may issue further calls; no  *)
(* handler of the program disconnects or reconnects.  The daemon's end of  *)
(* the socket is external: it may die, come back, answer out of order (a   *)
(* device list is deferred during a discovery) or answer garbage.          *)
(*                                                                         *)
(* Request ids only grow, so m_pendingCallOrder lists the pending ids in   *)
(* ascending order and is not kept beside them.                            *)
(***************************************************************************)
EXTENDS Integers, Sequences, FiniteSets

CONSTANTS
  MaxCalls,    \* bound on the calls of a behaviour
  MaxAttempts  \* bound on m_reconnectAttempt; it only grows past it in the code

ASSUME BoundAssumption == MaxCalls \in Nat /\ MaxAttempts \in Nat \ {0}

Id     == 1 .. MaxCalls
Socket == {"unconnected", "connecting", "connected", "closing"}
Kind   == {"status", "ok", "error", "bad"}   \* bad: unparsable or oversized
Reply  == [id : Id, kind : Kind]
Job    == {"send", "oversized"} \X Id
Off      == -1                               \* m_reconnectTimer is not active
MaxDelay == 5000                             \* kMaximumReconnectDelayMs

VARIABLES
  socket,     \* m_socket.state()
  pending,    \* the keys of m_pendingCalls
  written,    \* the pending calls whose payload was written
  nextId,     \* m_nextRequestId
  posted,     \* callAsync's deferred jobs in the event queue
  buffer,     \* replies in m_buffer that were not parsed yet
  infoKnown,  \* m_daemonDryRunKnown, set together with m_daemonScheduleSupported
  automatic,  \* m_automaticReconnectEnabled
  manual,     \* m_manualDisconnect
  attempt,    \* m_reconnectAttempt
  timer,      \* delay m_reconnectTimer was started with, or Off
  daemonUp,   \* the daemon accepts connections
  wire,       \* requests of this connection the daemon has not answered
  replies,    \* replies the client has not read
  answered,   \* history: calls the daemon answered with success
  results,    \* history: results[c] is what the handler of c was run with
  owed        \* history: a lost connection whose recovery was not announced

link      == <<socket, automatic, manual, attempt, timer, owed>>
calls     == <<pending, written, nextId, posted, results>>
transport == <<wire, replies, answered>>
vars == <<socket, pending, written, nextId, posted, buffer, infoKnown, automatic,
          manual, attempt, timer, daemonUp, wire, replies, answered, results, owed>>

Elements(s) == {s[i] : i \in DOMAIN s}
Issued      == {c \in Id : c < nextId}

TypeOK ==
  /\ socket \in Socket
  /\ pending \subseteq Id
  /\ written \subseteq pending
  /\ nextId \in 1 .. MaxCalls + 1
  /\ posted \in Seq(Job)
  /\ buffer \in Seq(Reply)
  /\ infoKnown \in BOOLEAN
  /\ automatic \in BOOLEAN
  /\ manual \in BOOLEAN
  /\ attempt \in 0 .. MaxAttempts
  /\ timer \in {Off} \cup 0 .. MaxDelay
  /\ daemonUp \in BOOLEAN
  /\ wire \in Seq(Id)
  /\ replies \in Seq(Reply)
  /\ answered \subseteq Id
  /\ results \in [Id -> Seq({"ok", "failed"})]
  /\ owed \in BOOLEAN

Init ==
  /\ socket = "unconnected"
  /\ pending = {}
  /\ written = {}
  /\ nextId = 1
  /\ posted = <<>>
  /\ buffer = <<>>
  /\ infoKnown = FALSE
  /\ automatic = FALSE
  /\ manual = FALSE
  /\ attempt = 0
  /\ timer = Off
  /\ daemonUp \in BOOLEAN
  /\ wire = <<>>
  /\ replies = <<>>
  /\ answered = {}
  /\ results = [c \in Id |-> <<>>]
  /\ owed = FALSE

-----------------------------------------------------------------------------
(* Finishing calls.                                                        *)

Sends(first, n) == [i \in 1 .. n |-> <<"send", first + i - 1>>]

(* finishPendingCall for the calls in ok and in failed.  Their handlers    *)
(* issue lost + kept new calls; the lost ones fail before the event is     *)
(* over, because the socket goes down behind the handlers.                 *)
Finish(queue, ok, failed, lost, kept) ==
  LET gone == {c \in Id : nextId <= c /\ c < nextId + lost}
      new  == {c \in Id : nextId + lost <= c /\ c < nextId + lost + kept}
  IN  /\ nextId + lost + kept <= MaxCalls + 1
      /\ nextId' = nextId + lost + kept
      /\ pending' = (pending \ (ok \cup failed)) \cup new
      /\ posted' = queue \o Sends(nextId, lost + kept)
      /\ results' = [c \in Id |->
           IF c \in ok THEN Append(results[c], "ok")
           ELSE IF c \in failed \cup gone THEN Append(results[c], "failed")
           ELSE results[c]]

(* Every handler issues at most one call. *)
FinishAll(queue, ok, failed) ==
  \E kept \in 0 .. Cardinality(ok \cup failed) : Finish(queue, ok, failed, 0, kept)

(* The calls still pending fail, then the socket goes down and takes the   *)
(* calls those handlers issued with it.                                    *)
FinishAndLose(queue, ok) ==
  LET failed == pending \ ok
  IN  \E lost \in 0 .. 2 * Cardinality(ok) + Cardinality(failed) : \E kept \in 0 .. lost :
        Finish(queue, ok, failed, lost, kept)

-----------------------------------------------------------------------------
(* Reconnection.                                                           *)

ReconnectDelay(n) ==
  LET exponent == IF n - 1 < 0 THEN 0 ELSE IF n - 1 > 5 THEN 5 ELSE n - 1
      delay    == 250 * 2^exponent
  IN  IF delay < MaxDelay THEN delay ELSE MaxDelay

(* Mutant: reconnecting is given up after a number of attempts. *)
ScheduleFewReconnects(running, manualNow) ==
  IF ~automatic \/ manualNow \/ running # Off \/ attempt >= MaxAttempts
  THEN timer' = running /\ UNCHANGED attempt
  ELSE /\ attempt' = attempt + 1
       /\ timer' = ReconnectDelay(attempt')

(* Called with the socket down; "running" is what m_reconnectTimer holds.  *)
ScheduleReconnect(running, manualNow) ==
  IF ~automatic \/ manualNow \/ running # Off
  THEN timer' = running /\ UNCHANGED attempt
  ELSE /\ attempt' = IF attempt < MaxAttempts THEN attempt + 1 ELSE MaxAttempts
       /\ timer' = ReconnectDelay(attempt')

ResetReconnectState ==
  /\ attempt' = 0
  /\ timer' = Off

CloseTransport ==
  /\ wire' = <<>>
  /\ replies' = <<>>
  /\ UNCHANGED answered

(* What the slot of the socket's disconnected signal changes besides the   *)
(* pending calls it fails.                                                 *)
Disconnected ==
  /\ socket' = "unconnected"
  /\ infoKnown' = FALSE
  /\ written' = {}
  /\ ScheduleReconnect(timer, manual)
  /\ CloseTransport
  /\ owed' = (owed \/ (socket = "connected" /\ automatic /\ ~manual))
  /\ UNCHANGED manual

(* startAsyncConnection for a socket that is not connected.  Aborting a    *)
(* socket that is still closing emits disconnected first.                  *)
StartAsyncConnection(queue, running) ==
  \/ /\ socket = "connecting"
     /\ timer' = running
     /\ posted' = queue
     /\ UNCHANGED <<socket, manual, attempt, buffer, infoKnown, owed, pending,
                    written, nextId, results, transport>>
  \/ /\ socket = "unconnected"
     /\ socket' = "connecting"
     /\ manual' = FALSE
     /\ buffer' = <<>>
     /\ timer' = running
     /\ posted' = queue
     /\ UNCHANGED <<attempt, infoKnown, owed, pending, written, nextId, results,
                    transport>>
  \/ /\ socket = "closing"
     /\ socket' = "connecting"
     /\ manual' = FALSE
     /\ buffer' = <<>>
     /\ infoKnown' = FALSE
     /\ written' = {}
     /\ FinishAll(queue, {}, pending)
     /\ ScheduleReconnect(running, FALSE)
     /\ CloseTransport
     /\ UNCHANGED owed

-----------------------------------------------------------------------------
(* Calls the program makes on the client.                                  *)

(* A request over the frame limit never becomes pending. *)
CallAsync(job) ==
  /\ nextId <= MaxCalls
  /\ nextId' = nextId + 1
  /\ posted' = Append(posted, <<job, nextId>>)
  /\ pending' = IF job = "send" THEN pending \cup {nextId} ELSE pending
  /\ UNCHANGED <<link, written, results, buffer, infoKnown, daemonUp, transport>>

CancelCall(c) ==
  /\ c \in pending
  /\ written' = written \ {c}
  /\ FinishAll(posted, {}, {c})
  /\ UNCHANGED <<link, buffer, infoKnown, daemonUp, transport>>

(* The socket may need longer to close than the 250 ms the call waits; if  *)
(* it does not, the disconnected slot runs inside the call.                *)
DisconnectFromDaemon ==
  /\ manual' = TRUE
  /\ ResetReconnectState
  /\ buffer' = <<>>
  /\ infoKnown' = FALSE
  /\ written' = {}
  /\ owed' = FALSE
  /\ \/ /\ socket \in {"unconnected", "connecting"}
        /\ socket' = "unconnected"
        /\ FinishAll(posted, {}, pending)
        /\ UNCHANGED transport
     \/ /\ socket \in {"connected", "closing"}
        /\ socket' = "unconnected"
        /\ FinishAndLose(posted, {})
        /\ CloseTransport
     \/ /\ socket \in {"connected", "closing"}
        /\ socket' = "closing"
        /\ FinishAll(posted, {}, pending)
        /\ UNCHANGED transport
  /\ UNCHANGED <<automatic, daemonUp>>

(* Mutant: an immediate attempt forgets that a connection was lost. *)
ReconnectNowAfresh ==
  /\ manual' = FALSE
  /\ attempt' = 0
  /\ timer' = IF socket \in {"connected", "connecting"} THEN Off ELSE 0
  /\ UNCHANGED <<socket, automatic, owed, calls, buffer, infoKnown, daemonUp, transport>>

ReconnectNow ==
  /\ manual' = FALSE
  /\ timer' = IF socket \in {"connected", "connecting"} THEN Off ELSE 0
  /\ UNCHANGED <<socket, automatic, attempt, owed, calls, buffer, infoKnown,
                 daemonUp, transport>>

SetAutomaticReconnectEnabled(enabled) ==
  /\ automatic # enabled
  /\ automatic' = enabled
  /\ \/ /\ ~enabled
        /\ ResetReconnectState
        /\ owed' = FALSE
        /\ UNCHANGED manual
     \/ /\ enabled
        /\ manual' = FALSE
        /\ timer' = CASE socket = "connected"  -> timer
                      [] socket = "connecting" -> Off
                      [] OTHER                 -> 0
        /\ UNCHANGED <<attempt, owed>>
  /\ UNCHANGED <<socket, calls, buffer, infoKnown, daemonUp, transport>>

-----------------------------------------------------------------------------
(* Events.                                                                 *)

(* Mutant: the pending calls are written in any order (that of the hash). *)
SendUnordered(queue, unsent) ==
  \E refused \in SUBSET unsent :
    /\ FinishAll(queue, {}, refused)
    /\ written' = written \cup (unsent \ refused)
    /\ \E s \in [1 .. Cardinality(unsent \ refused) -> unsent \ refused] :
         /\ \A i, j \in DOMAIN s : s[i] = s[j] => i = j
         /\ wire' = wire \o s

(* sendPendingCall(s); a payload the socket does not take fails its call.  *)
Send(queue, unsent) ==
  \E refused \in SUBSET unsent :
    /\ FinishAll(queue, {}, refused)
    /\ written' = written \cup (unsent \ refused)
    /\ \E s \in [1 .. Cardinality(unsent \ refused) -> unsent \ refused] :
         /\ \A i, j \in DOMAIN s : i < j => s[i] < s[j]
         /\ wire' = wire \o s

(* The next of callAsync's deferred jobs. *)
PostedJob ==
  /\ posted # <<>>
  /\ LET job == Head(posted)[1]
         c   == Head(posted)[2]
     IN  \/ /\ job = "oversized"
            /\ FinishAll(Tail(posted), {}, {c})
            /\ UNCHANGED <<link, written, buffer, infoKnown, transport>>
         \/ /\ job = "send" /\ c \notin pending
            /\ posted' = Tail(posted)
            /\ UNCHANGED <<link, pending, written, nextId, results, buffer,
                           infoKnown, transport>>
         \/ /\ job = "send" /\ c \in pending
            /\ socket = "connected"
            /\ Send(Tail(posted), {c} \ written)
            /\ UNCHANGED <<link, buffer, infoKnown, replies, answered>>
         \/ /\ job = "send" /\ c \in pending
            /\ socket # "connected"
            /\ StartAsyncConnection(Tail(posted), timer)
            /\ UNCHANGED automatic
  /\ UNCHANGED daemonUp

(* Mutants: the timer of a finished call still fires; the timer only      *)
(* covers the time until the call is written.                              *)
TimeoutOfFinished(c) ==
  /\ c \in Issued
  /\ written' = written \ {c}
  /\ FinishAll(posted, {}, {c})
  /\ UNCHANGED <<link, buffer, infoKnown, daemonUp, transport>>

TimeoutBeforeSend(c) ==
  /\ c \in pending \ written
  /\ FinishAll(posted, {}, {c})
  /\ UNCHANGED <<link, written, buffer, infoKnown, daemonUp, transport>>

Timeout(c) ==
  /\ c \in pending
  /\ written' = written \ {c}
  /\ FinishAll(posted, {}, {c})
  /\ UNCHANGED <<link, buffer, infoKnown, daemonUp, transport>>

ReconnectTimeout ==
  /\ timer # Off
  /\ IF ~automatic \/ manual \/ socket = "connected"
     THEN /\ timer' = Off
          /\ UNCHANGED <<socket, manual, attempt, owed, calls, buffer,
                         infoKnown, transport>>
     ELSE StartAsyncConnection(posted, Off)
  /\ UNCHANGED <<automatic, daemonUp>>

ConnectSucceeds ==
  /\ socket = "connecting"
  /\ daemonUp
  /\ socket' = "connected"
  /\ ResetReconnectState
  /\ manual' = FALSE
  /\ owed' = (owed /\ attempt = 0)           \* reconnected() if attempt > 0
  /\ Send(posted, pending \ written)
  /\ UNCHANGED <<automatic, buffer, infoKnown, daemonUp, replies, answered>>

(* Mutant: a failed attempt is the last one. *)
ConnectFailsForGood ==
  /\ socket = "connecting"
  /\ ~daemonUp
  /\ socket' = "unconnected"
  /\ written' = {}
  /\ FinishAll(posted, {}, pending)
  /\ UNCHANGED <<attempt, timer, automatic, manual, owed, buffer, infoKnown,
                 daemonUp, transport>>

(* errorOccurred while connecting. *)
ConnectFails ==
  /\ socket = "connecting"
  /\ ~daemonUp
  /\ socket' = "unconnected"
  /\ written' = {}
  /\ FinishAll(posted, {}, pending)
  /\ ScheduleReconnect(timer, manual)
  /\ UNCHANGED <<automatic, manual, owed, buffer, infoKnown, daemonUp, transport>>

(* The connection goes down: the daemon died, or took another client.      *)
ConnectionLost ==
  /\ socket \in {"connected", "closing"}
  /\ Disconnected
  /\ FinishAll(posted, {}, pending)
  /\ UNCHANGED <<automatic, buffer, daemonUp>>

(* The first n replies have arrived.  With no call pending they are only   *)
(* buffered; otherwise everything buffered is parsed, up to a bad frame,   *)
(* which fails every pending call and aborts the connection.               *)
ReadyRead(n) ==
  LET all    == buffer \o SubSeq(replies, 1, n)
      bad    == {i \in DOMAIN all : all[i].kind = "bad"}
      parsed == {all[i] : i \in {j \in DOMAIN all : \A b \in bad : j < b}}
      ok     == {r.id : r \in {q \in parsed : q.kind \in {"status", "ok"}}} \cap pending
      error  == {r.id : r \in {q \in parsed : q.kind = "error"}} \cap pending
      status == \E r \in parsed : r.kind = "status" /\ r.id \in pending
  IN  /\ socket \in {"connected", "closing"}
      /\ n \in 1 .. Len(replies)
      /\ \/ /\ pending = {}
            /\ buffer' = all
            /\ replies' = SubSeq(replies, n + 1, Len(replies))
            /\ UNCHANGED <<link, calls, infoKnown, wire, answered>>
         \/ /\ pending # {} /\ bad = {}
            /\ buffer' = <<>>
            /\ replies' = SubSeq(replies, n + 1, Len(replies))
            /\ FinishAll(posted, ok, error)
            /\ written' = written \ (ok \cup error)
            /\ infoKnown' = (infoKnown \/ status)
            /\ UNCHANGED <<link, wire, answered>>
         \/ /\ pending # {} /\ bad # {}
            /\ \E b \in bad : /\ \A i \in bad : b <= i
                              /\ buffer' = SubSeq(all, b + 1, Len(all))
            /\ FinishAndLose(posted, ok)
            /\ Disconnected
            /\ UNCHANGED automatic
      /\ UNCHANGED daemonUp

-----------------------------------------------------------------------------
(* The daemon's end.                                                       *)

DaemonAnswers(i, kind) ==
  /\ daemonUp
  /\ socket \in {"connected", "closing"}
  /\ i \in DOMAIN wire
  /\ wire' = SubSeq(wire, 1, i - 1) \o SubSeq(wire, i + 1, Len(wire))
  /\ replies' = Append(replies, [id |-> wire[i], kind |-> kind])
  /\ answered' = IF kind \in {"status", "ok"} THEN answered \cup {wire[i]} ELSE answered
  /\ UNCHANGED <<link, calls, buffer, infoKnown, daemonUp>>

DaemonStartsOrStops ==
  /\ daemonUp' = ~daemonUp
  /\ UNCHANGED <<link, calls, buffer, infoKnown, transport>>

-----------------------------------------------------------------------------
Api ==
  \/ \E job \in {"send", "oversized"} : CallAsync(job)
  \/ \E c \in Id : CancelCall(c)
  \/ DisconnectFromDaemon
  \/ ReconnectNow
  \/ \E enabled \in BOOLEAN : SetAutomaticReconnectEnabled(enabled)

SocketEvent ==
  \/ ConnectSucceeds
  \/ ConnectFails
  \/ ConnectionLost
  \/ \E n \in DOMAIN replies : ReadyRead(n)

Daemon ==
  \/ \E i \in DOMAIN wire, kind \in Kind : DaemonAnswers(i, kind)
  \/ DaemonStartsOrStops

Next ==
  \/ Api
  \/ PostedJob
  \/ \E c \in Id : Timeout(c)
  \/ ReconnectTimeout
  \/ SocketEvent
  \/ Daemon

(* The event loop runs: deferred jobs and timers are delivered, a connect  *)
(* attempt ends.  Nothing is assumed of the daemon, nor of the API's users. *)
Fairness ==
  /\ WF_vars(PostedJob)
  /\ \A c \in Id : WF_vars(Timeout(c))
  /\ WF_vars(ReconnectTimeout)
  /\ WF_vars(ConnectSucceeds \/ ConnectFails)
  /\ WF_vars(socket = "closing" /\ ConnectionLost)

Spec == Init /\ [][Next]_vars
FairSpec == Spec /\ Fairness

-----------------------------------------------------------------------------
(* Safety. *)

(* Towards its callers the client is RemoteCalls: over disconnects, late   *)
(* and garbled replies, timeouts, cancellations and re-entrant calls, each *)
(* handler runs once, and with success only for the daemon's own answer.   *)
Promise == INSTANCE RemoteCalls WITH issued <- Issued
HandlersRunOnce == Promise!Spec

(* Requests reach the daemon in the order the program made them: what was  *)
(* written is a prefix of the pending calls, even when a connection comes  *)
(* up between a call and its deferred send.                                *)
SentInOrder ==
  /\ \A c, d \in pending : c < d /\ d \in written => c \in written
  /\ \A i, j \in DOMAIN wire : i < j => wire[i] < wire[j]

(* No call is forgotten: while connected, a call that was not written yet  *)
(* still has its deferred send in the event queue.                         *)
NoForgottenCall ==
  socket = "connected" =>
    \A c \in pending \ written : <<"send", c>> \in Elements(posted)

(* The client never gives up: with automatic reconnection on and no manual *)
(* disconnect, a socket that is down has the next attempt on a timer.      *)
ReconnectArmed ==
  automatic /\ ~manual /\ socket = "unconnected" => timer # Off

(* Nothing known about a daemon survives its connection.  (The GUI trusts  *)
(* the daemon's dry-run state and its schedule support while it is known.) *)
KnownOnlyWhileConnected == infoKnown => socket = "connected"

(* A connection that was lost under automatic reconnection is announced by *)
(* "reconnected" when it is back, so that the GUI reloads the device list; *)
(* giving up on it (disconnect, reconnection switched off) clears the debt. *)
RecoveryAnnounced == socket = "connected" => ~owed

-----------------------------------------------------------------------------
(* Liveness, under FairSpec. *)

(* Every handler runs eventually, whatever the daemon does. *)
EveryCallEnds == Promise!EveryCallEnds

(* A daemon that stays up is connected to again and again, as long as the  *)
(* program does not disconnect by hand.                                    *)
Reconnects ==
  <>[](daemonUp /\ automatic /\ ~manual) => []<>(socket = "connected")
=============================================================================
