------------------------- MODULE DaemonClientProofs -------------------------
(***************************************************************************)
(* Proofs about DaemonClient for any number of calls and attempts: the     *)
(* connection's state, the refinement of RemoteCalls, and that calls are   *)
(* sent in the order they were made and none is forgotten.                 *)
(***************************************************************************)
EXTENDS DaemonClient, SequenceTheorems, FiniteSetTheorems, TLAPS

-----------------------------------------------------------------------------
(* The connection's state: the checked invariants, that no timer runs      *)
(* while connected, and that a recovery that is owed has been counted as   *)
(* an attempt, which is what the connected slot decides by.                *)

LinkInv ==
  /\ socket \in Socket
  /\ attempt \in Nat
  /\ ReconnectArmed
  /\ RecoveryAnnounced
  /\ socket = "connected" => timer = Off
  /\ owed => attempt > 0

LEMMA DelayIsATimer == \A n \in Nat : ReconnectDelay(n) # Off
<1> SUFFICES ASSUME NEW n \in Nat PROVE ReconnectDelay(n) # Off
  OBVIOUS
<1> DEFINE exponent == IF n - 1 < 0 THEN 0 ELSE IF n - 1 > 5 THEN 5 ELSE n - 1
<1>1. exponent \in {0, 1, 2, 3, 4, 5}
  OBVIOUS
<1>2. 2^exponent \in Nat
  <2> HIDE DEF exponent
  <2>1. CASE exponent = 0
    <3>1. 2^0 \in Nat OBVIOUS
    <3> QED BY <2>1, <3>1
  <2>2. CASE exponent = 1
    <3>1. 2^1 \in Nat OBVIOUS
    <3> QED BY <2>2, <3>1
  <2>3. CASE exponent = 2
    <3>1. 2^2 \in Nat OBVIOUS
    <3> QED BY <2>3, <3>1
  <2>4. CASE exponent = 3
    <3>1. 2^3 \in Nat OBVIOUS
    <3> QED BY <2>4, <3>1
  <2>5. CASE exponent = 4
    <3>1. 2^4 \in Nat OBVIOUS
    <3> QED BY <2>5, <3>1
  <2>6. CASE exponent = 5
    <3>1. 2^5 \in Nat OBVIOUS
    <3> QED BY <2>6, <3>1
  <2> QED BY <1>1, <2>1, <2>2, <2>3, <2>4, <2>5, <2>6
<1> HIDE DEF exponent
<1> QED BY <1>2 DEF ReconnectDelay, MaxDelay, Off, exponent

LEMMA ScheduleArms ==
  ASSUME NEW running, NEW manualNow, LinkInv,
         ScheduleReconnect(running, manualNow)
  PROVE  /\ attempt' \in Nat
         /\ attempt > 0 => attempt' > 0
         /\ running # Off => timer' # Off
         /\ automatic /\ ~manualNow /\ running = Off => timer' # Off /\ attempt' > 0
<1>1. CASE ~automatic \/ manualNow \/ running # Off
  BY <1>1 DEF ScheduleReconnect, LinkInv
<1>2. CASE ~(~automatic \/ manualNow \/ running # Off)
  <2>1. attempt' \in Nat /\ attempt' > 0
    BY <1>2, BoundAssumption DEF ScheduleReconnect, LinkInv
  <2> QED BY <1>2, <2>1, DelayIsATimer DEF ScheduleReconnect
<1> QED BY <1>1, <1>2

LEMMA InitLink == Init => LinkInv
BY DEF Init, LinkInv, Socket, ReconnectArmed, RecoveryAnnounced

(* Steps that leave the connection alone. *)
LEMMA LinkKept ==
  ASSUME LinkInv, UNCHANGED link
  PROVE  LinkInv'
BY DEF LinkInv, link, ReconnectArmed, RecoveryAnnounced

LEMMA DisconnectedLink ==
  ASSUME LinkInv, Disconnected, UNCHANGED automatic
  PROVE  LinkInv'
<1>1. ScheduleReconnect(timer, manual)
  BY DEF LinkInv, Disconnected
<1>2. /\ attempt' \in Nat
      /\ attempt > 0 => attempt' > 0
      /\ timer # Off => timer' # Off
      /\ automatic /\ ~manual /\ timer = Off => timer' # Off /\ attempt' > 0
  BY <1>1, ScheduleArms
<1> QED
  BY <1>2 DEF Disconnected, LinkInv, Socket, ReconnectArmed, RecoveryAnnounced

LEMMA StartLink ==
  ASSUME LinkInv, NEW queue, NEW running, socket # "connected",
         StartAsyncConnection(queue, running), UNCHANGED automatic
  PROVE  LinkInv'
<1>1. CASE socket = "connecting"
  BY <1>1 DEF StartAsyncConnection, LinkInv, Socket, ReconnectArmed, RecoveryAnnounced
<1>2. CASE socket = "unconnected"
  BY <1>2 DEF StartAsyncConnection, LinkInv, Socket, ReconnectArmed, RecoveryAnnounced
<1>3. CASE socket = "closing"
  <2>1. ScheduleReconnect(running, FALSE)
    BY <1>3 DEF StartAsyncConnection
  <2>2. attempt' \in Nat /\ (attempt > 0 => attempt' > 0)
    BY <2>1, ScheduleArms
  <2> QED
    BY <1>3, <2>2 DEF StartAsyncConnection, LinkInv, Socket, ReconnectArmed, RecoveryAnnounced
<1> QED BY <1>1, <1>2, <1>3 DEF LinkInv, Socket

LEMMA NextLink == LinkInv /\ [Next]_vars => LinkInv'
<1> SUFFICES ASSUME LinkInv, [Next]_vars PROVE LinkInv'
  OBVIOUS
<1> USE DEF LinkInv, Socket, ReconnectArmed, RecoveryAnnounced
<1>1. CASE UNCHANGED vars
  BY <1>1 DEF vars
<1>2. CASE Api
  <2>1. ASSUME NEW job \in {"send", "oversized"}, CallAsync(job) PROVE LinkInv'
    BY <2>1, LinkKept DEF CallAsync
  <2>2. ASSUME NEW c \in Id, CancelCall(c) PROVE LinkInv'
    BY <2>2, LinkKept DEF CancelCall
  <2>3. CASE DisconnectFromDaemon
    BY <2>3 DEF DisconnectFromDaemon, ResetReconnectState
  <2>4. CASE ReconnectNow
    BY <2>4 DEF ReconnectNow, Off
  <2>5. ASSUME NEW enabled \in BOOLEAN, SetAutomaticReconnectEnabled(enabled) PROVE LinkInv'
    <3>1. CASE enabled
      BY <2>5, <3>1 DEF SetAutomaticReconnectEnabled, Off
    <3>2. CASE ~enabled
      BY <2>5, <3>2 DEF SetAutomaticReconnectEnabled, ResetReconnectState
    <3> QED BY <3>1, <3>2
  <2> QED BY <1>2, <2>1, <2>2, <2>3, <2>4, <2>5 DEF Api
<1>3. CASE PostedJob
  <2>1. CASE UNCHANGED link
    BY <2>1, LinkKept
  <2>2. CASE /\ socket # "connected"
             /\ StartAsyncConnection(Tail(posted), timer)
             /\ UNCHANGED automatic
    BY <2>2, StartLink
  <2> QED BY <1>3, <2>1, <2>2 DEF PostedJob
<1>4. ASSUME NEW c \in Id, Timeout(c) PROVE LinkInv'
  BY <1>4, LinkKept DEF Timeout
<1>5. CASE ReconnectTimeout
  <2>1. CASE ~automatic \/ manual \/ socket = "connected"
    BY <1>5, <2>1 DEF ReconnectTimeout
  <2>2. CASE ~(~automatic \/ manual \/ socket = "connected")
    BY <1>5, <2>2, StartLink DEF ReconnectTimeout
  <2> QED BY <2>1, <2>2
<1>6. CASE SocketEvent
  <2>1. CASE ConnectSucceeds
    <3>1. owed' <=> (owed /\ attempt = 0)
      BY <2>1, Zenon DEF ConnectSucceeds
    <3>2. socket' = "connected" /\ attempt' = 0 /\ timer' = Off
      BY <2>1 DEF ConnectSucceeds, ResetReconnectState
    <3>3. ~owed'
      BY <3>1
    <3> QED BY <3>2, <3>3
  <2>2. CASE ConnectFails
    <3>1. ScheduleReconnect(timer, manual)
      BY <2>2 DEF ConnectFails
    <3>2. /\ attempt' \in Nat
          /\ attempt > 0 => attempt' > 0
          /\ timer # Off => timer' # Off
          /\ automatic /\ ~manual /\ timer = Off => timer' # Off
      BY <3>1, ScheduleArms
    <3> QED BY <2>2, <3>2 DEF ConnectFails
  <2>3. CASE ConnectionLost
    BY <2>3, DisconnectedLink DEF ConnectionLost
  <2>4. ASSUME NEW n \in DOMAIN replies, ReadyRead(n) PROVE LinkInv'
    <3>1. CASE UNCHANGED link
      BY <3>1, LinkKept
    <3>2. CASE Disconnected /\ UNCHANGED automatic
      BY <3>2, DisconnectedLink
    <3> QED BY <2>4, <3>1, <3>2 DEF ReadyRead
  <2> QED BY <1>6, <2>1, <2>2, <2>3, <2>4 DEF SocketEvent
<1>7. CASE Daemon
  BY <1>7, LinkKept DEF Daemon, DaemonAnswers, DaemonStartsOrStops
<1> QED BY <1>1, <1>2, <1>3, <1>4, <1>5, <1>6, <1>7 DEF Next

LEMMA LinkInductive == Spec => []LinkInv
<1> QED BY InitLink, NextLink, PTL DEF Spec

(* The client never gives up reconnecting: a socket that is down has the   *)
(* next attempt on a timer, for any number of calls, attempts and losses.  *)
THEOREM NeverGivesUp == Spec => []ReconnectArmed
BY LinkInductive, PTL DEF LinkInv

(* Every recovery from a lost connection is announced. *)
THEOREM RecoveriesAnnounced == Spec => []RecoveryAnnounced
BY LinkInductive, PTL DEF LinkInv

-----------------------------------------------------------------------------
(* Elements of sequences that are built from others.                       *)

LEMMA ConcatElements ==
  ASSUME NEW S, NEW s \in Seq(S), NEW t \in Seq(S)
  PROVE  s \o t \in Seq(S) /\ Elements(s \o t) \subseteq Elements(s) \cup Elements(t)
<1>1. /\ s \o t \in Seq(S)
      /\ Len(s \o t) = Len(s) + Len(t)
      /\ \A i \in 1 .. Len(s) + Len(t) :
           (s \o t)[i] = IF i <= Len(s) THEN s[i] ELSE t[i - Len(s)]
  BY ConcatProperties
<1>2. \A i \in DOMAIN (s \o t) :
        \/ \E j \in DOMAIN s : (s \o t)[i] = s[j]
        \/ \E j \in DOMAIN t : (s \o t)[i] = t[j]
  <2> SUFFICES ASSUME NEW i \in DOMAIN (s \o t), i > Len(s)
               PROVE  \E j \in DOMAIN t : (s \o t)[i] = t[j]
    BY <1>1
  <2> QED BY <1>1
<1> QED BY <1>1, <1>2 DEF Elements

LEMMA SubSeqElements ==
  ASSUME NEW S, NEW s \in Seq(S), NEW m \in Int, NEW n \in Int, 1 <= m, n <= Len(s)
  PROVE  SubSeq(s, m, n) \in Seq(S) /\ Elements(SubSeq(s, m, n)) \subseteq Elements(s)
<1>1. \A i \in m .. n : i \in DOMAIN s /\ s[i] \in S
  OBVIOUS
<1>2. /\ SubSeq(s, m, n) \in Seq(S)
      /\ Len(SubSeq(s, m, n)) = IF m <= n THEN n - m + 1 ELSE 0
      /\ \A i \in 1 .. n - m + 1 : SubSeq(s, m, n)[i] = s[m + i - 1]
  BY <1>1, SubSeqProperties
<1>3. ASSUME NEW i \in DOMAIN SubSeq(s, m, n)
      PROVE  \E j \in DOMAIN s : SubSeq(s, m, n)[i] = s[j]
  <2>1. i \in 1 .. n - m + 1
    BY <1>2
  <2>2. m + i - 1 \in DOMAIN s
    BY <1>1, <2>1
  <2> QED BY <1>2, <2>1, <2>2
<1> QED BY <1>2, <1>3 DEF Elements

LEMMA AppendElements ==
  ASSUME NEW S, NEW s \in Seq(S), NEW e \in S
  PROVE  Append(s, e) \in Seq(S) /\ Elements(Append(s, e)) = Elements(s) \cup {e}
<1>1. /\ Append(s, e) \in Seq(S)
      /\ Len(Append(s, e)) = Len(s) + 1
      /\ \A i \in 1 .. Len(s) : Append(s, e)[i] = s[i]
      /\ Append(s, e)[Len(s) + 1] = e
  BY AppendProperties
<1>2. DOMAIN Append(s, e) = DOMAIN s \cup {Len(s) + 1}
  BY <1>1
<1> QED BY <1>1, <1>2 DEF Elements

LEMMA ElementsOf ==
  ASSUME NEW S, NEW s \in Seq(S)
  PROVE  Elements(s) \subseteq S /\ \A i \in DOMAIN s : s[i] \in Elements(s)
BY DEF Elements

-----------------------------------------------------------------------------
(* The calls' state.                                                       *)

(* Jobs in the event queue address issued calls; an oversized call is not  *)
(* pending, its handler has not run, and it is queued once.                *)
JobsOK(q) ==
  /\ q \in Seq(Job)
  /\ \A i \in DOMAIN q : q[i][2] < nextId
  /\ \A i \in DOMAIN q : q[i][1] = "oversized" =>
       /\ q[i][2] \notin pending
       /\ results[q[i][2]] = <<>>
       /\ \A j \in DOMAIN q : q[j][2] = q[i][2] => i = j

(* Calls made while the socket closes: nothing of them is on the wire.     *)
Unsendable == IF socket = "closing" THEN pending ELSE {}
OnWire     == Issued \ Unsendable

(* Replies answer calls that were on the wire, and say what the daemon did. *)
Genuine(s, ids, done) ==
  /\ s \in Seq(Reply)
  /\ \A r \in Elements(s) :
       r.id \in ids /\ (r.kind \in {"status", "ok"} => r.id \in done)

CallInv ==
  /\ nextId \in 1 .. MaxCalls + 1
  /\ pending \subseteq Issued
  /\ answered \subseteq Issued
  /\ results \in [Id -> Seq({"ok", "failed"})]
  /\ \A c \in Id : c \in pending \/ c >= nextId => results[c] = <<>>
  /\ JobsOK(posted)
  /\ wire \in Seq(Id) /\ Elements(wire) \subseteq OnWire
  /\ Genuine(replies, OnWire, answered)
  /\ Genuine(buffer, OnWire, answered)

Grows(ok) ==
  \A c \in Id :
    \/ results'[c] = results[c]
    \/ results[c] = <<>> /\ c \in Issued' /\ results'[c] = <<"failed">>
    \/ results[c] = <<>> /\ c \in ok /\ results'[c] = <<"ok">>

(* What one call of finishPendingCall guarantees. *)
Finished(ok, done) ==
  /\ nextId' \in 1 .. MaxCalls + 1 /\ nextId <= nextId'
  /\ pending' \subseteq Issued'
  /\ \A c \in pending' : c < nextId => c \in pending \ done
  /\ results' \in [Id -> Seq({"ok", "failed"})]
  /\ \A c \in Id : c \in pending' \/ c >= nextId' => results'[c] = <<>>
  /\ JobsOK(posted)'
  /\ Grows(ok)

(* Queues handed to Finish: they satisfy JobsOK, but may hold no oversized *)
(* job of a call that is being finished.                                   *)
LEMMA FinishCalls ==
  ASSUME CallInv, NEW queue, NEW ok \in SUBSET pending, NEW failed \in SUBSET Id,
         NEW lost \in Nat, NEW kept \in Nat,
         \A c \in failed : c < nextId /\ results[c] = <<>>,
         JobsOK(queue),
         \A i \in DOMAIN queue : queue[i][1] = "oversized" => queue[i][2] \notin failed,
         Finish(queue, ok, failed, lost, kept)
  PROVE  Finished(ok, ok \cup failed)
<1> DEFINE n == lost + kept
           gone == {c \in Id : nextId <= c /\ c < nextId + lost}
           new  == {c \in Id : nextId + lost <= c /\ c < nextId + lost + kept}
<1>1. /\ nextId' = nextId + lost + kept
      /\ nextId' <= MaxCalls + 1
      /\ pending' = (pending \ (ok \cup failed)) \cup new
      /\ posted' = queue \o Sends(nextId, n)
      /\ results' = [c \in Id |->
           IF c \in ok THEN Append(results[c], "ok")
           ELSE IF c \in failed \cup gone THEN Append(results[c], "failed")
           ELSE results[c]]
  BY DEF Finish
<1>2. nextId \in 1 .. MaxCalls + 1 /\ MaxCalls \in Nat
  BY BoundAssumption DEF CallInv
<1>3. /\ nextId' \in 1 .. MaxCalls + 1 /\ nextId <= nextId'
      /\ gone \subseteq Issued' /\ new \subseteq Issued'
  BY <1>1, <1>2 DEF Issued, Id
<1>4. pending' \subseteq Issued' /\ \A c \in pending' : c < nextId => c \in pending \ (ok \cup failed)
  <2>1. pending \subseteq Issued'
    BY <1>1, <1>2, <1>3 DEF CallInv, Issued, Id
  <2>2. \A c \in new : ~(c < nextId)
    <3> SUFFICES ASSUME NEW c \in new PROVE ~(c < nextId)
      OBVIOUS
    <3>1. c \in Int /\ nextId + lost <= c
      BY DEF Id
    <3> QED BY <1>2, <3>1
  <2> HIDE DEF new
  <2> QED BY <1>1, <1>3, <2>1, <2>2
<1>5. \A c \in Id : c \in ok \cup failed \cup gone => results[c] = <<>>
  <2>1. \A c \in Id : c \in pending \/ c >= nextId => results[c] = <<>>
    BY DEF CallInv
  <2>2. \A c \in gone : c >= nextId
    BY <1>2 DEF Id
  <2> QED BY <2>1, <2>2
<1>6. Append(<<>>, "ok") = <<"ok">> /\ Append(<<>>, "failed") = <<"failed">>
  OBVIOUS
<1>7. /\ \A c \in ok : results'[c] = <<"ok">> /\ results[c] = <<>>
      /\ \A c \in (failed \cup gone) \ ok :
           results'[c] = <<"failed">> /\ results[c] = <<>> /\ c \in Issued'
      /\ \A c \in Id \ (ok \cup failed \cup gone) : results'[c] = results[c]
  <2>1. gone \subseteq Id /\ ok \subseteq Id
    BY DEF Issued, CallInv
  <2>2. failed \subseteq Issued'
    BY <1>1, <1>2, <1>3 DEF Id, Issued
  <2> HIDE DEF gone
  <2>3. ASSUME NEW c \in ok PROVE results'[c] = <<"ok">> /\ results[c] = <<>>
    <3>1. results[c] = <<>>
      BY <1>5, <2>1
    <3>2. results'[c] = Append(results[c], "ok")
      BY <1>1, <2>1
    <3> QED BY <3>1, <3>2, <1>6
  <2>4. ASSUME NEW c \in (failed \cup gone) \ ok
        PROVE  results'[c] = <<"failed">> /\ results[c] = <<>> /\ c \in Issued'
    <3>1. results[c] = <<>>
      BY <1>5, <2>1
    <3>2. results'[c] = Append(results[c], "failed")
      BY <1>1, <2>1
    <3>3. c \in Issued'
      BY <1>3, <2>2
    <3> QED BY <3>1, <3>2, <3>3, <1>6
  <2>5. \A c \in Id \ (ok \cup failed \cup gone) : results'[c] = results[c]
    BY <1>1
  <2> QED BY <2>3, <2>4, <2>5
<1>8. Grows(ok)
  BY <1>7 DEF Grows
<1>9. results' \in [Id -> Seq({"ok", "failed"})]
  <2> SUFFICES ASSUME NEW c \in Id PROVE results'[c] \in Seq({"ok", "failed"})
    BY <1>1
  <2>1. <<"ok">> \in Seq({"ok", "failed"}) /\ <<"failed">> \in Seq({"ok", "failed"})
    OBVIOUS
  <2>2. results[c] \in Seq({"ok", "failed"})
    BY DEF CallInv
  <2> QED BY <1>7, <2>1, <2>2
<1>10. \A c \in Id : c \in pending' \/ c >= nextId' => results'[c] = <<>>
  <2> SUFFICES ASSUME NEW c \in Id, c \in pending' \/ c >= nextId' PROVE results'[c] = <<>>
    OBVIOUS
  <2>1. c \notin ok \cup failed \cup gone
    BY <1>1, <1>2 DEF Id, CallInv, Issued
  <2>2. results[c] = <<>>
    BY <1>1, <1>2, <1>3 DEF Id, CallInv, Issued
  <2> QED BY <1>7, <2>1, <2>2
<1>11. JobsOK(posted)'
  <2> DEFINE S == Sends(nextId, n)
  <2>1. /\ S \in Seq(Job) /\ Len(S) = n /\ n \in Nat
        /\ \A i \in 1 .. n : S[i] = <<"send", nextId + i - 1>>
    <3>1. n \in Nat /\ nextId + n <= MaxCalls + 1
      BY <1>1, <1>2
    <3> HIDE DEF n
    <3>2. \A i \in 1 .. n : nextId + i - 1 \in Id
      BY <1>2, <3>1 DEF Id
    <3>3. \A i \in 1 .. n : <<"send", nextId + i - 1>> \in Job
      BY <3>2 DEF Job
    <3>4. S \in [1 .. n -> Job]
      BY <3>3 DEF Sends
    <3> QED BY <3>1, <3>4 DEF Sends
  <2>2. /\ queue \in Seq(Job) /\ posted' = queue \o S /\ posted' \in Seq(Job)
        /\ DOMAIN posted' = 1 .. Len(queue) + n
        /\ \A i \in DOMAIN posted' :
             posted'[i] = IF i <= Len(queue) THEN queue[i] ELSE S[i - Len(queue)]
    <3>1. queue \in Seq(Job)
      BY DEF JobsOK
    <3>2. posted' = queue \o S
      BY <1>1
    <3> HIDE DEF S
    <3>3. /\ queue \o S \in Seq(Job)
          /\ Len(queue \o S) = Len(queue) + Len(S)
          /\ \A i \in 1 .. Len(queue) + Len(S) :
               (queue \o S)[i] = IF i <= Len(queue) THEN queue[i] ELSE S[i - Len(queue)]
      BY <2>1, <3>1, ConcatProperties
    <3> QED BY <2>1, <3>1, <3>2, <3>3
  <2>3. \A i \in DOMAIN posted' :
          \/ i \in DOMAIN queue /\ posted'[i] = queue[i]
          \/ /\ i \notin DOMAIN queue /\ posted'[i][1] = "send"
             /\ posted'[i][2] >= nextId /\ posted'[i][2] < nextId'
    <3> SUFFICES ASSUME NEW i \in DOMAIN posted', i > Len(queue)
                 PROVE  /\ i \notin DOMAIN queue /\ posted'[i][1] = "send"
                        /\ posted'[i][2] >= nextId /\ posted'[i][2] < nextId'
      BY <2>2
    <3>1. i - Len(queue) \in 1 .. n
      BY <2>1, <2>2
    <3>2. posted'[i] = <<"send", nextId + (i - Len(queue)) - 1>>
      BY <2>1, <2>2, <3>1
    <3> DEFINE k == i - Len(queue)
    <3>3. k \in 1 .. n /\ posted'[i][1] = "send" /\ posted'[i][2] = nextId + k - 1
      BY <3>1, <3>2
    <3>4. i \notin DOMAIN queue
      BY <2>2, <3>1
    <3> HIDE DEF k
    <3> QED BY <1>1, <1>2, <3>3, <3>4
  <2>4. \A i \in DOMAIN posted' : posted'[i][2] < nextId'
    BY <1>1, <1>2, <2>2, <2>3 DEF JobsOK, Job, Id
  <2>5. ASSUME NEW i \in DOMAIN posted', posted'[i][1] = "oversized"
        PROVE  /\ posted'[i][2] \notin pending'
               /\ results'[posted'[i][2]] = <<>>
               /\ \A j \in DOMAIN posted' : posted'[j][2] = posted'[i][2] => i = j
    <3>1. i \in DOMAIN queue /\ posted'[i] = queue[i]
      BY <2>3, <2>5
    <3>2. /\ queue[i] \in Job /\ queue[i][2] \in Id /\ queue[i][2] < nextId
          /\ queue[i][2] \notin pending /\ results[queue[i][2]] = <<>>
          /\ queue[i][2] \notin failed
          /\ \A j \in DOMAIN queue : queue[j][2] = queue[i][2] => i = j
      BY <2>2, <2>5, <3>1 DEF JobsOK, Job
    <3>3. queue[i][2] \notin ok \cup failed \cup gone
      BY <1>2, <3>2 DEF Id
    <3>4. results'[queue[i][2]] = <<>>
      BY <1>7, <3>2, <3>3
    <3>5. queue[i][2] \notin pending'
      BY <1>4, <3>2
    <3>6. \A j \in DOMAIN posted' : posted'[j][2] = posted'[i][2] => i = j
      BY <1>2, <2>3, <3>1, <3>2 DEF Id
    <3> QED BY <3>1, <3>4, <3>5, <3>6
  <2> QED BY <2>2, <2>4, <2>5 DEF JobsOK
<1> QED BY <1>3, <1>4, <1>8, <1>9, <1>10, <1>11 DEF Finished

(* FinishAll and FinishAndLose are Finish with nothing lost, and with the  *)
(* rest of the pending calls failed.                                       *)
LEMMA FinishAllCalls ==
  ASSUME CallInv, NEW queue, NEW ok \in SUBSET pending, NEW failed \in SUBSET Id,
         \A c \in failed : c < nextId /\ results[c] = <<>>,
         JobsOK(queue),
         \A i \in DOMAIN queue : queue[i][1] = "oversized" => queue[i][2] \notin failed,
         FinishAll(queue, ok, failed)
  PROVE  Finished(ok, ok \cup failed)
<1>1. PICK kept \in 0 .. Cardinality(ok \cup failed) : Finish(queue, ok, failed, 0, kept)
  BY DEF FinishAll
<1>2. kept \in Nat
  OBVIOUS
<1> QED BY <1>1, <1>2, FinishCalls

LEMMA PendingUnfinished ==
  ASSUME CallInv
  PROVE  /\ pending \subseteq Id
         /\ \A c \in pending : c < nextId /\ results[c] = <<>>
         /\ JobsOK(posted)
         /\ \A i \in DOMAIN posted : posted[i][1] = "oversized" => posted[i][2] \notin pending
BY DEF CallInv, Issued, JobsOK

LEMMA FinishAndLoseCalls ==
  ASSUME CallInv, NEW ok \in SUBSET pending, FinishAndLose(posted, ok)
  PROVE  Finished(ok, pending)
<1>1. PICK lost \in 0 .. 2 * Cardinality(ok) + Cardinality(pending \ ok) :
        \E kept \in 0 .. lost : Finish(posted, ok, pending \ ok, lost, kept)
  BY DEF FinishAndLose
<1>2. PICK kept \in 0 .. lost : Finish(posted, ok, pending \ ok, lost, kept)
  BY <1>1
<1>3. lost \in Nat /\ kept \in Nat
  OBVIOUS
<1>4. Finished(ok, ok \cup (pending \ ok))
  BY <1>2, <1>3, PendingUnfinished, FinishCalls
<1>5. ok \cup (pending \ ok) = pending
  OBVIOUS
<1> QED BY <1>4, <1>5

(* A step of the client keeps CallInv and is a step of RemoteCalls.        *)
CallStep ==
  /\ CallInv'
  /\ Issued \subseteq Issued'
  /\ answered \subseteq answered' /\ answered' \subseteq Issued
  /\ Grows(answered)

LEMMA CallsKept ==
  ASSUME CallInv, NEW ok, NEW done, ok \subseteq answered, Finished(ok, done),
         UNCHANGED answered,
         Unsendable' \cap Issued \subseteq Unsendable,
         wire' \in Seq(Id), Elements(wire') \subseteq Elements(wire) \cup OnWire',
         replies' \in Seq(Reply), Elements(replies') \subseteq Elements(replies),
         buffer' \in Seq(Reply),
         Elements(buffer') \subseteq Elements(buffer) \cup Elements(replies)
  PROVE  CallStep
<1>1. Issued \subseteq Issued' /\ nextId' \in 1 .. MaxCalls + 1
  BY DEF Finished, CallInv, Issued, Id
<1>2. OnWire \subseteq OnWire'
  BY <1>1 DEF OnWire
<1>3. Genuine(replies, OnWire, answered)' /\ Genuine(buffer, OnWire, answered)'
  BY <1>2 DEF Genuine, CallInv
<1>4. Elements(wire') \subseteq OnWire'
  BY <1>2 DEF CallInv
<1>5. /\ pending' \subseteq Issued'
      /\ results' \in [Id -> Seq({"ok", "failed"})]
      /\ \A c \in Id : c \in pending' \/ c >= nextId' => results'[c] = <<>>
      /\ JobsOK(posted)'
      /\ Grows(ok)
  BY DEF Finished
<1>6. answered' \subseteq Issued /\ answered' \subseteq Issued'
  BY <1>1 DEF CallInv
<1>7. Grows(answered)
  BY <1>5 DEF Grows
<1>8. CallInv'
  BY <1>1, <1>3, <1>4, <1>5, <1>6 DEF CallInv
<1> QED BY <1>1, <1>6, <1>7, <1>8 DEF CallStep

(* Nothing is finished when the calls stay as they are. *)
LEMMA CallsUntouched ==
  ASSUME CallInv, UNCHANGED <<pending, nextId, results>>, JobsOK(posted')
  PROVE  Finished({}, {})
BY DEF CallInv, Finished, JobsOK, Grows, Issued

LEMMA InitCalls == Init => CallInv
<1> SUFFICES ASSUME Init PROVE CallInv
  OBVIOUS
<1>1. nextId \in 1 .. MaxCalls + 1
  BY BoundAssumption DEF Init
<1>2. Elements(<<>>) = {}
  BY DEF Elements
<1> QED BY <1>1, <1>2 DEF Init, CallInv, JobsOK, Genuine

(* Steps by the kind of change they make to the transport.                 *)
LEMMA TransportFacts ==
  ASSUME CallInv
  PROVE  /\ wire \in Seq(Id) /\ Elements(wire) \subseteq OnWire
         /\ replies \in Seq(Reply) /\ buffer \in Seq(Reply)
         /\ <<>> \in Seq(Id) /\ <<>> \in Seq(Reply) /\ Elements(<<>>) = {}
BY DEF CallInv, Genuine, Elements

LEMMA SocketKept ==
  ASSUME CallInv, NEW ok, NEW done, Finished(ok, done), UNCHANGED socket
  PROVE  Unsendable' \cap Issued \subseteq Unsendable
BY DEF Finished, Unsendable, Issued

LEMMA NotClosing ==
  ASSUME socket' # "closing"
  PROVE  Unsendable' = {}
BY DEF Unsendable

(* A step that finishes calls and leaves the connection alone. *)
LEMMA FinishingStep ==
  ASSUME CallInv, NEW ok, NEW done, ok \subseteq answered, Finished(ok, done),
         UNCHANGED <<socket, transport, buffer>>
  PROVE  CallStep
<1>1. UNCHANGED <<wire, replies, answered, buffer, socket>>
  BY DEF transport
<1> QED BY <1>1, TransportFacts, SocketKept, CallsKept

(* A step after which the socket is not closing, with the transport as it  *)
(* was or reset.                                                           *)
LEMMA ClosingStep ==
  ASSUME CallInv, NEW ok, NEW done, ok \subseteq answered, Finished(ok, done),
         socket' # "closing", UNCHANGED transport \/ CloseTransport,
         buffer' \in Seq(Reply),
         Elements(buffer') \subseteq Elements(buffer) \cup Elements(replies)
  PROVE  CallStep
<1>1. UNCHANGED answered /\ Unsendable' = {}
  BY NotClosing DEF transport, CloseTransport
<1>2. /\ wire' \in Seq(Id) /\ Elements(wire') \subseteq Elements(wire)
      /\ replies' \in Seq(Reply) /\ Elements(replies') \subseteq Elements(replies)
  BY TransportFacts DEF transport, CloseTransport
<1> QED BY <1>1, <1>2, CallsKept

LEMMA SendStep ==
  ASSUME CallInv, NEW queue, NEW unsent \in SUBSET pending, Send(queue, unsent),
         JobsOK(queue), socket' = "connected",
         \A i \in DOMAIN queue : queue[i][1] = "oversized" => queue[i][2] \notin pending,
         UNCHANGED <<buffer, replies, answered>>
  PROVE  CallStep
<1>1. PICK refused \in SUBSET unsent :
        /\ FinishAll(queue, {}, refused)
        /\ \E s \in [1 .. Cardinality(unsent \ refused) -> unsent \ refused] :
             wire' = wire \o s
  BY DEF Send
<1>2. PICK s \in [1 .. Cardinality(unsent \ refused) -> unsent \ refused] :
        wire' = wire \o s
  BY <1>1
<1>3. Finished({}, {} \cup refused)
  BY <1>1, PendingUnfinished, FinishAllCalls
<1>4. Cardinality(unsent \ refused) \in Nat
  <2>1. IsFiniteSet(Id)
    BY BoundAssumption, FS_Interval DEF Id
  <2>2. IsFiniteSet(unsent \ refused)
    BY <2>1, FS_Subset, PendingUnfinished
  <2> QED BY <2>2, FS_CardinalityType
<1>5. s \in Seq(Id) /\ Elements(s) \subseteq pending
  <2>1. unsent \ refused \subseteq pending /\ pending \subseteq Id
    BY PendingUnfinished
  <2> DEFINE k == Cardinality(unsent \ refused)
  <2>2. s \in [1 .. k -> Id] /\ k \in Nat
    BY <1>4, <2>1
  <2>3. s \in [1 .. k -> pending]
    BY <2>1
  <2> HIDE DEF k
  <2>4. s \in Seq(Id)
    BY <2>2
  <2>5. DOMAIN s = 1 .. k /\ \A i \in DOMAIN s : s[i] \in pending
    BY <2>3
  <2> QED BY <2>4, <2>5 DEF Elements
<1>6. Unsendable' = {}
  BY NotClosing
<1>7. pending \subseteq OnWire'
  BY <1>3, <1>6 DEF Finished, CallInv, OnWire, Issued, Id
<1>8. wire' \in Seq(Id) /\ Elements(wire') \subseteq Elements(wire) \cup OnWire'
  BY <1>2, <1>5, <1>7, ConcatElements, TransportFacts
<1> QED BY <1>3, <1>6, <1>8, TransportFacts, CallsKept

(* What is left in the event queue when its first job has run. *)
LEMMA TailJobs ==
  ASSUME CallInv, posted # <<>>
  PROVE  /\ Head(posted) \in Job
         /\ Head(posted)[2] < nextId
         /\ JobsOK(Tail(posted))
         /\ \A i \in DOMAIN Tail(posted) : Tail(posted)[i][1] = "oversized" =>
              Tail(posted)[i][2] \notin pending /\ Tail(posted)[i][2] # Head(posted)[2]
         /\ Head(posted)[1] = "oversized" => results[Head(posted)[2]] = <<>>
<1>1. posted \in Seq(Job) /\ JobsOK(posted)
  BY DEF CallInv, JobsOK
<1>2. /\ Head(posted) \in Job
      /\ Tail(posted) \in Seq(Job)
      /\ Len(Tail(posted)) = Len(posted) - 1
      /\ \A i \in 1 .. Len(Tail(posted)) : Tail(posted)[i] = posted[i + 1]
  BY <1>1, HeadTailProperties
<1>3. Head(posted) = posted[1] /\ 1 \in DOMAIN posted
  BY <1>1
<1>4. \A i \in DOMAIN Tail(posted) :
        i \in Int /\ 1 <= i /\ i + 1 \in DOMAIN posted /\ Tail(posted)[i] = posted[i + 1]
  BY <1>1, <1>2
<1>5. \A i \in DOMAIN posted :
        /\ posted[i][2] < nextId
        /\ posted[i][1] = "oversized" =>
             /\ posted[i][2] \notin pending
             /\ results[posted[i][2]] = <<>>
             /\ \A j \in DOMAIN posted : posted[j][2] = posted[i][2] => i = j
  BY <1>1 DEF JobsOK
<1>6. ASSUME NEW i \in DOMAIN Tail(posted), Tail(posted)[i][1] = "oversized"
      PROVE  /\ Tail(posted)[i][2] \notin pending
             /\ Tail(posted)[i][2] # Head(posted)[2]
             /\ results[Tail(posted)[i][2]] = <<>>
             /\ \A j \in DOMAIN Tail(posted) : Tail(posted)[j][2] = Tail(posted)[i][2] => i = j
  <2>1. posted[i + 1][1] = "oversized" /\ i + 1 \in DOMAIN posted /\ i + 1 # 1
    BY <1>4, <1>6
  <2>2. Tail(posted)[i] = posted[i + 1]
    BY <1>4
  <2>3. \A j \in DOMAIN Tail(posted) : Tail(posted)[j][2] = Tail(posted)[i][2] => i + 1 = j + 1
    BY <1>4, <1>5, <2>1, <2>2
  <2>4. \A j \in DOMAIN Tail(posted) : i + 1 = j + 1 => i = j
    BY <1>4
  <2> QED BY <1>3, <1>5, <2>1, <2>2, <2>3, <2>4
<1>7. JobsOK(Tail(posted))
  BY <1>2, <1>4, <1>5, <1>6 DEF JobsOK
<1> QED BY <1>2, <1>3, <1>5, <1>6, <1>7

LEMMA StartStep ==
  ASSUME CallInv, NEW queue, NEW running, socket # "connected", JobsOK(queue),
         \A i \in DOMAIN queue : queue[i][1] = "oversized" => queue[i][2] \notin pending,
         StartAsyncConnection(queue, running)
  PROVE  CallStep
<1>1. CASE socket = "closing"
  <2>1. /\ FinishAll(queue, {}, pending)
        /\ socket' = "connecting" /\ CloseTransport /\ buffer' = <<>>
    BY <1>1 DEF StartAsyncConnection
  <2>2. Finished({}, {} \cup pending)
    BY <2>1, PendingUnfinished, FinishAllCalls
  <2> QED BY <2>1, <2>2, TransportFacts, ClosingStep
<1>2. CASE socket # "closing"
  <2>1. /\ posted' = queue /\ UNCHANGED <<pending, nextId, results, transport>>
        /\ socket' = "connecting" /\ (buffer' = buffer \/ buffer' = <<>>)
    BY <1>2 DEF StartAsyncConnection
  <2>2. Finished({}, {})
    BY <2>1, CallsUntouched
  <2> QED BY <2>1, <2>2, TransportFacts, ClosingStep
<1> QED BY <1>1, <1>2

LEMMA PostedStep == ASSUME CallInv, PostedJob PROVE CallStep
<1> DEFINE job == Head(posted)[1]
           c   == Head(posted)[2]
<1>1. posted # <<>>
  BY DEF PostedJob
<1>2. job \in {"send", "oversized"} /\ c \in Id
  BY <1>1, TailJobs DEF Job
<1>3. CASE job = "oversized"
  <2>1. FinishAll(Tail(posted), {}, {c}) /\ UNCHANGED <<link, buffer, transport>>
    BY <1>3 DEF PostedJob
  <2>2. Finished({}, {} \cup {c})
    BY <1>1, <1>2, <1>3, <2>1, TailJobs, FinishAllCalls
  <2>3. UNCHANGED <<socket, transport, buffer>>
    BY <2>1 DEF link
  <2> QED BY <2>2, <2>3, FinishingStep
<1>4. CASE job = "send" /\ c \notin pending
  <2>1. /\ posted' = Tail(posted)
        /\ UNCHANGED <<pending, nextId, results, link, buffer, transport>>
    BY <1>4 DEF PostedJob
  <2>2. Finished({}, {})
    BY <1>1, <2>1, TailJobs, CallsUntouched
  <2>3. UNCHANGED <<socket, transport, buffer>>
    BY <2>1 DEF link
  <2> QED BY <2>2, <2>3, FinishingStep
<1>5. CASE job = "send" /\ c \in pending /\ socket = "connected"
  <2>1. Send(Tail(posted), {c} \ written) /\ UNCHANGED <<link, buffer, replies, answered>>
    BY <1>5 DEF PostedJob
  <2>2. socket' = "connected"
    BY <1>5, <2>1 DEF link
  <2> QED BY <1>1, <1>5, <2>1, <2>2, TailJobs, SendStep
<1>6. CASE job = "send" /\ c \in pending /\ socket # "connected"
  <2>1. StartAsyncConnection(Tail(posted), timer)
    BY <1>6 DEF PostedJob
  <2> QED BY <1>1, <1>6, <2>1, TailJobs, StartStep
<1> QED BY <1>2, <1>3, <1>4, <1>5, <1>6

LEMMA ApiStep == ASSUME CallInv, Api PROVE CallStep
<1>1. ASSUME NEW job \in {"send", "oversized"}, CallAsync(job) PROVE CallStep
  <2>1. /\ nextId <= MaxCalls /\ nextId' = nextId + 1
        /\ posted' = Append(posted, <<job, nextId>>)
        /\ pending' = IF job = "send" THEN pending \cup {nextId} ELSE pending
        /\ results' = results
        /\ UNCHANGED <<socket, transport, buffer>>
    BY <1>1 DEF CallAsync, link
  <2>2. /\ nextId \in Id /\ nextId' \in 1 .. MaxCalls + 1
        /\ pending \subseteq Issued /\ nextId \notin Issued
        /\ Issued \subseteq Issued' /\ nextId \in Issued'
    BY <2>1, BoundAssumption DEF CallInv, Issued, Id
  <2>3. posted \in Seq(Job) /\ <<job, nextId>> \in Job
    BY <2>2 DEF CallInv, JobsOK, Job
  <2>4. /\ posted' \in Seq(Job)
        /\ \A i \in DOMAIN posted' :
             \/ i \in DOMAIN posted /\ posted'[i] = posted[i]
             \/ i = Len(posted) + 1 /\ posted'[i] = <<job, nextId>>
    BY <2>1, <2>3, AppendProperties
  <2>5. \A i \in DOMAIN posted : /\ posted[i] \in Job
                                 /\ posted[i][2] \in Id /\ posted[i][2] < nextId
    BY <2>3 DEF CallInv, JobsOK, Job
  <2>6. \A i \in DOMAIN posted' : posted'[i][2] < nextId'
    BY <2>1, <2>2, <2>4, <2>5 DEF Id
  <2>7. ASSUME NEW i \in DOMAIN posted', posted'[i][1] = "oversized"
        PROVE  /\ posted'[i][2] \notin pending'
               /\ results'[posted'[i][2]] = <<>>
               /\ \A j \in DOMAIN posted' : posted'[j][2] = posted'[i][2] => i = j
    <3>1. CASE i \in DOMAIN posted /\ posted'[i] = posted[i]
      <4>1. /\ posted[i][2] \notin pending /\ results[posted[i][2]] = <<>>
            /\ \A j \in DOMAIN posted : posted[j][2] = posted[i][2] => i = j
        BY <2>7, <3>1 DEF CallInv, JobsOK
      <4>2. posted[i][2] # nextId
        BY <2>2, <2>5, <3>1 DEF Id
      <4> QED BY <2>1, <2>4, <3>1, <4>1, <4>2
    <3>2. CASE i = Len(posted) + 1 /\ posted'[i] = <<job, nextId>>
      <4>1. job = "oversized" /\ posted'[i][2] = nextId
        BY <2>7, <3>2
      <4>2. results[nextId] = <<>>
        BY <2>2 DEF CallInv, Id
      <4>3. nextId \notin pending'
        BY <2>1, <2>2, <4>1
      <4>4. \A j \in DOMAIN posted : posted[j][2] # nextId
        BY <2>2, <2>5 DEF Id
      <4> QED BY <2>1, <2>4, <3>2, <4>1, <4>2, <4>3, <4>4
    <3> QED BY <2>4, <3>1, <3>2
  <2>8. JobsOK(posted)'
    BY <2>4, <2>6, <2>7 DEF JobsOK
  <2>9. Finished({}, {})
    <3>1. \A c \in Id : c \in pending' \/ c >= nextId' => results'[c] = <<>>
      BY <2>1, <2>2 DEF CallInv, Id
    <3>2. nextId <= nextId'
      BY <2>1, <2>2 DEF Id
    <3>4. pending' \subseteq Issued'
      <4>1. pending' \subseteq pending \cup {nextId}
        BY <2>1
      <4> QED BY <2>2, <4>1
    <3>3. \A c \in pending' : c < nextId => c \in pending
      BY <2>1, <2>2 DEF Id
    <3> QED BY <2>1, <2>2, <2>8, <3>1, <3>2, <3>3, <3>4 DEF Finished, Grows, CallInv
  <2> QED BY <2>1, <2>9, FinishingStep
<1>2. ASSUME NEW c \in Id, CancelCall(c) PROVE CallStep
  <2>1. c \in pending /\ FinishAll(posted, {}, {c}) /\ UNCHANGED <<socket, transport, buffer>>
    BY <1>2 DEF CancelCall, link
  <2>2. Finished({}, {} \cup {c})
    BY <2>1, PendingUnfinished, FinishAllCalls
  <2> QED BY <2>1, <2>2, FinishingStep
<1>3. CASE DisconnectFromDaemon
  <2>1. CASE socket' = "closing"
    <3>1. FinishAll(posted, {}, pending) /\ UNCHANGED transport /\ buffer' = <<>>
      BY <1>3, <2>1 DEF DisconnectFromDaemon
    <3>2. Finished({}, {} \cup pending)
      BY <3>1, PendingUnfinished, FinishAllCalls
    <3>3. Unsendable' \cap Issued \subseteq Unsendable
      BY <2>1, <3>2 DEF Unsendable, Issued, Finished
    <3> QED BY <3>1, <3>2, <3>3, TransportFacts, CallsKept DEF transport
  <2>2. CASE socket' # "closing"
    <3>1. /\ FinishAll(posted, {}, pending) \/ FinishAndLose(posted, {})
          /\ UNCHANGED transport \/ CloseTransport
          /\ buffer' = <<>>
      BY <1>3, <2>2 DEF DisconnectFromDaemon
    <3>2. Finished({}, pending)
      <4>1. {} \cup pending = pending
        OBVIOUS
      <4> QED BY <3>1, <4>1, PendingUnfinished, FinishAllCalls, FinishAndLoseCalls
    <3> QED BY <2>2, <3>1, <3>2, TransportFacts, ClosingStep
  <2> QED BY <2>1, <2>2
<1>4. ASSUME UNCHANGED <<socket, calls, buffer, transport>> PROVE CallStep
  <2>1. Finished({}, {})
    BY <1>4, PendingUnfinished, CallsUntouched DEF calls
  <2> QED BY <1>4, <2>1, FinishingStep
<1> QED BY <1>1, <1>2, <1>3, <1>4
        DEF Api, ReconnectNow, SetAutomaticReconnectEnabled

(* The replies that have been parsed answer calls of their connection, and *)
(* those that report success the daemon's success.                         *)
LEMMA ReadStep ==
  ASSUME CallInv, NEW n \in DOMAIN replies, ReadyRead(n)
  PROVE  CallStep /\ (infoKnown' /\ ~infoKnown => socket' = "connected")
<1> DEFINE rest   == SubSeq(replies, n + 1, Len(replies))
           all    == buffer \o SubSeq(replies, 1, n)
           bad    == {i \in DOMAIN all : all[i].kind = "bad"}
           parsed == {all[i] : i \in {j \in DOMAIN all : \A b \in bad : j < b}}
           ok     == {r.id : r \in {q \in parsed : q.kind \in {"status", "ok"}}} \cap pending
           error  == {r.id : r \in {q \in parsed : q.kind = "error"}} \cap pending
           status == \E r \in parsed : r.kind = "status" /\ r.id \in pending
<1>1. /\ replies \in Seq(Reply) /\ buffer \in Seq(Reply)
      /\ Genuine(replies, OnWire, answered) /\ Genuine(buffer, OnWire, answered)
  BY DEF CallInv, Genuine
<1>2. n \in Int /\ 1 <= n /\ n <= Len(replies)
  BY <1>1
<1>3. rest \in Seq(Reply) /\ Elements(rest) \subseteq Elements(replies)
  <2>1. n + 1 \in Int /\ Len(replies) \in Int /\ 1 <= n + 1 /\ Len(replies) <= Len(replies)
    BY <1>1, <1>2
  <2> QED BY <1>1, <2>1, SubSeqElements
<1>4. all \in Seq(Reply) /\ Elements(all) \subseteq Elements(buffer) \cup Elements(replies)
  <2> DEFINE arrived == SubSeq(replies, 1, n)
  <2>1. arrived \in Seq(Reply) /\ Elements(arrived) \subseteq Elements(replies)
    BY <1>1, <1>2, SubSeqElements
  <2>2. all = buffer \o arrived
    OBVIOUS
  <2> HIDE DEF arrived, all
  <2>3. /\ buffer \o arrived \in Seq(Reply)
        /\ Elements(buffer \o arrived) \subseteq Elements(buffer) \cup Elements(arrived)
    BY <1>1, <2>1, ConcatElements
  <2> QED BY <2>1, <2>2, <2>3
<1> HIDE DEF all, rest
<1>5. parsed \subseteq Elements(all)
  BY <1>4, ElementsOf
<1>6. \A r \in parsed : r.id \in OnWire /\ (r.kind \in {"status", "ok"} => r.id \in answered)
  BY <1>1, <1>4, <1>5 DEF Genuine
<1>7. ok \subseteq pending /\ error \subseteq pending /\ ok \subseteq answered
  BY <1>6
<1>8. status => socket # "closing"
  BY <1>6 DEF OnWire, Unsendable
<1>9. /\ socket \in {"connected", "closing"}
      /\ \/ /\ pending = {}
            /\ buffer' = all
            /\ replies' = rest
            /\ UNCHANGED <<link, calls, infoKnown, wire, answered>>
         \/ /\ pending # {} /\ bad = {}
            /\ buffer' = <<>>
            /\ replies' = rest
            /\ FinishAll(posted, ok, error)
            /\ infoKnown' = (infoKnown \/ status)
            /\ UNCHANGED <<link, wire, answered>>
         \/ /\ pending # {} /\ bad # {}
            /\ \E b \in bad : buffer' = SubSeq(all, b + 1, Len(all))
            /\ FinishAndLose(posted, ok)
            /\ Disconnected
  BY DEF ReadyRead, all, rest
<1> HIDE DEF bad, parsed, ok, error, status
<1>10. CASE /\ pending = {}
            /\ buffer' = all
            /\ replies' = rest
            /\ UNCHANGED <<link, calls, infoKnown, wire, answered>>
  <2>1. Finished({}, {}) /\ UNCHANGED socket
    BY <1>10, PendingUnfinished, CallsUntouched DEF calls, link
  <2>2. CallStep
    BY <1>3, <1>4, <1>10, <2>1, TransportFacts, SocketKept, CallsKept
  <2> QED BY <1>10, <2>2
<1>11. CASE /\ pending # {} /\ bad = {}
            /\ buffer' = <<>>
            /\ replies' = rest
            /\ FinishAll(posted, ok, error)
            /\ infoKnown' = (infoKnown \/ status)
            /\ UNCHANGED <<link, wire, answered>>
  <2>1. Finished(ok, ok \cup error)
    BY <1>7, <1>11, PendingUnfinished, FinishAllCalls
  <2>2. UNCHANGED socket
    BY <1>11 DEF link
  <2>3. CallStep
    BY <1>3, <1>7, <1>11, <2>1, <2>2, TransportFacts, SocketKept, CallsKept
  <2>4. infoKnown' /\ ~infoKnown => status
    BY <1>11, Zenon
  <2> QED BY <1>8, <1>9, <2>2, <2>3, <2>4
<1>12. CASE /\ pending # {} /\ bad # {}
            /\ \E b \in bad : buffer' = SubSeq(all, b + 1, Len(all))
            /\ FinishAndLose(posted, ok)
            /\ Disconnected
  <2>1. Finished(ok, pending)
    BY <1>7, <1>12, FinishAndLoseCalls
  <2>2. socket' = "unconnected" /\ CloseTransport /\ infoKnown' = FALSE
    BY <1>12 DEF Disconnected
  <2>3. buffer' \in Seq(Reply) /\ Elements(buffer') \subseteq Elements(all)
    <3>1. PICK b \in bad : buffer' = SubSeq(all, b + 1, Len(all))
      BY <1>12
    <3>2. /\ b + 1 \in Int /\ Len(all) \in Int /\ 1 <= b + 1
          /\ Len(all) <= Len(all)
      BY <1>4 DEF bad
    <3> QED BY <1>4, <3>1, <3>2, SubSeqElements
  <2> QED BY <1>4, <1>7, <2>1, <2>2, <2>3, ClosingStep
<1> QED BY <1>9, <1>10, <1>11, <1>12

LEMMA EventStep ==
  ASSUME CallInv, ConnectSucceeds \/ ConnectFails \/ ConnectionLost
  PROVE  CallStep
<1>1. CASE ConnectSucceeds
  <2>1. /\ socket' = "connected" /\ Send(posted, pending \ written)
        /\ UNCHANGED <<buffer, replies, answered>>
    BY <1>1 DEF ConnectSucceeds
  <2> QED BY <2>1, PendingUnfinished, SendStep
<1>2. CASE ConnectFails \/ ConnectionLost
  <2>1. /\ socket' = "unconnected" /\ FinishAll(posted, {}, pending)
        /\ UNCHANGED transport \/ CloseTransport
        /\ buffer' = buffer
    BY <1>2 DEF ConnectFails, ConnectionLost, Disconnected
  <2>2. Finished({}, {} \cup pending)
    BY <2>1, PendingUnfinished, FinishAllCalls
  <2> QED BY <2>1, <2>2, TransportFacts, ClosingStep
<1> QED BY <1>1, <1>2

LEMMA DaemonStep == ASSUME CallInv, Daemon PROVE CallStep
<1>1. ASSUME UNCHANGED <<socket, calls, buffer, transport>> PROVE CallStep
  <2>1. Finished({}, {})
    BY <1>1, PendingUnfinished, CallsUntouched DEF calls
  <2> QED BY <1>1, <2>1, FinishingStep
<1>2. ASSUME NEW i \in DOMAIN wire, NEW kind \in Kind, DaemonAnswers(i, kind)
      PROVE  CallStep
  <2> DEFINE reply == [id |-> wire[i], kind |-> kind]
             done  == IF kind \in {"status", "ok"} THEN answered \cup {wire[i]} ELSE answered
  <2>1. /\ wire' = SubSeq(wire, 1, i - 1) \o SubSeq(wire, i + 1, Len(wire))
        /\ replies' = Append(replies, reply)
        /\ answered' = done
        /\ UNCHANGED <<socket, calls, buffer>>
    BY <1>2 DEF DaemonAnswers, link
  <2>2. wire \in Seq(Id) /\ Elements(wire) \subseteq OnWire /\ wire[i] \in OnWire
    BY TransportFacts, ElementsOf
  <2>3. OnWire' = OnWire /\ Issued' = Issued
    BY <2>1 DEF OnWire, Issued, Unsendable, calls
  <2>4. wire' \in Seq(Id) /\ Elements(wire') \subseteq Elements(wire)
    <3>1. /\ i \in Int /\ 1 <= i /\ i <= Len(wire) /\ Len(wire) \in Int
          /\ i - 1 \in Int /\ i + 1 \in Int /\ i - 1 <= Len(wire) /\ 1 <= i + 1
          /\ Len(wire) <= Len(wire)
      BY <2>2
    <3> DEFINE before == SubSeq(wire, 1, i - 1)
               after  == SubSeq(wire, i + 1, Len(wire))
    <3>2. before \in Seq(Id) /\ Elements(before) \subseteq Elements(wire)
      BY <2>2, <3>1, SubSeqElements
    <3>3. after \in Seq(Id) /\ Elements(after) \subseteq Elements(wire)
      BY <2>2, <3>1, SubSeqElements
    <3>4. wire' = before \o after
      BY <2>1
    <3> HIDE DEF before, after
    <3>5. /\ before \o after \in Seq(Id)
          /\ Elements(before \o after) \subseteq Elements(before) \cup Elements(after)
      BY <3>2, <3>3, ConcatElements
    <3> QED BY <3>2, <3>3, <3>4, <3>5
  <2>5. reply \in Reply
    BY <2>2 DEF Reply, OnWire, Issued
  <2>6. replies \in Seq(Reply)
    BY TransportFacts
  <2>7. replies' \in Seq(Reply) /\ Elements(replies') = Elements(replies) \cup {reply}
    BY <2>1, <2>5, <2>6, AppendElements
  <2>8. done \subseteq Issued /\ answered \subseteq done
    BY <2>2 DEF CallInv, OnWire
  <2>9. Genuine(replies, OnWire, answered) /\ Genuine(buffer, OnWire, answered)
    BY DEF CallInv
  <2>10. Genuine(replies, OnWire, answered)'
    <3> SUFFICES ASSUME NEW r \in Elements(replies')
                 PROVE  r.id \in OnWire /\ (r.kind \in {"status", "ok"} => r.id \in done)
      BY <2>1, <2>3, <2>7 DEF Genuine
    <3>1. CASE r = reply
      BY <2>2, <3>1
    <3>2. CASE r \in Elements(replies)
      BY <2>8, <2>9, <3>2 DEF Genuine
    <3> QED BY <2>7, <3>1, <3>2
  <2>11. Genuine(buffer, OnWire, answered)'
    BY <2>1, <2>3, <2>8, <2>9 DEF Genuine
  <2> HIDE DEF done, reply
  <2>12. Finished({}, {})
    BY <2>1, PendingUnfinished, CallsUntouched DEF calls
  <2> QED
    BY <2>1, <2>2, <2>3, <2>4, <2>8, <2>10, <2>11, <2>12
       DEF CallStep, CallInv, Finished, Grows
<1> QED BY <1>1, <1>2 DEF Daemon, DaemonStartsOrStops, link

LEMMA NextCalls == CallInv /\ [Next]_vars => CallStep
<1> SUFFICES ASSUME CallInv, [Next]_vars PROVE CallStep
  OBVIOUS
<1>1. CASE UNCHANGED vars
  <2>1. Finished({}, {}) /\ UNCHANGED <<socket, transport, buffer>>
    BY <1>1, PendingUnfinished, CallsUntouched DEF vars, transport
  <2> QED BY <2>1, FinishingStep
<1>2. CASE Api
  BY <1>2, ApiStep
<1>3. CASE PostedJob
  BY <1>3, PostedStep
<1>4. ASSUME NEW c \in Id, Timeout(c) PROVE CallStep
  <2>1. c \in pending /\ FinishAll(posted, {}, {c}) /\ UNCHANGED <<socket, transport, buffer>>
    BY <1>4 DEF Timeout, link
  <2>2. Finished({}, {} \cup {c})
    BY <2>1, PendingUnfinished, FinishAllCalls
  <2> QED BY <2>1, <2>2, FinishingStep
<1>5. CASE ReconnectTimeout
  <2>1. CASE ~automatic \/ manual \/ socket = "connected"
    <3>1. UNCHANGED <<socket, calls, buffer, transport>>
      BY <1>5, <2>1 DEF ReconnectTimeout
    <3>2. Finished({}, {})
      BY <3>1, PendingUnfinished, CallsUntouched DEF calls
    <3> QED BY <3>1, <3>2, FinishingStep
  <2>2. CASE ~(~automatic \/ manual \/ socket = "connected")
    BY <1>5, <2>2, PendingUnfinished, StartStep DEF ReconnectTimeout
  <2> QED BY <2>1, <2>2
<1>6. CASE SocketEvent
  BY <1>6, EventStep, ReadStep DEF SocketEvent
<1>7. CASE Daemon
  BY <1>7, DaemonStep
<1> QED BY <1>1, <1>2, <1>3, <1>4, <1>5, <1>6, <1>7 DEF Next

LEMMA CallsInductive == Spec => []CallInv
<1>1. CallInv /\ [Next]_vars => CallInv'
  BY NextCalls DEF CallStep
<1> QED BY <1>1, InitCalls, PTL DEF Spec

(* Nothing known about a daemon survives its connection: a reply that      *)
(* carries knowledge is one to a call of the connection it arrives on.     *)
LEMMA NextKnown ==
  CallInv /\ KnownOnlyWhileConnected /\ [Next]_vars => KnownOnlyWhileConnected'
<1> SUFFICES ASSUME CallInv, KnownOnlyWhileConnected, [Next]_vars
             PROVE  KnownOnlyWhileConnected'
  OBVIOUS
<1> USE DEF KnownOnlyWhileConnected
<1>1. ASSUME UNCHANGED <<socket, infoKnown>> PROVE KnownOnlyWhileConnected'
  BY <1>1
<1>2. CASE Api
  BY <1>1, <1>2 DEF Api, CallAsync, CancelCall, DisconnectFromDaemon, ReconnectNow,
                    SetAutomaticReconnectEnabled, link
<1>3. ASSUME NEW queue, NEW running, socket # "connected",
             StartAsyncConnection(queue, running)
      PROVE  KnownOnlyWhileConnected'
  BY <1>3 DEF StartAsyncConnection
<1>4. CASE PostedJob
  <2>1. \/ UNCHANGED link /\ infoKnown' = infoKnown
        \/ socket # "connected" /\ StartAsyncConnection(Tail(posted), timer)
    BY <1>4 DEF PostedJob
  <2> QED BY <1>1, <1>3, <2>1 DEF link
<1>5. ASSUME NEW c \in Id, Timeout(c) PROVE KnownOnlyWhileConnected'
  BY <1>1, <1>5 DEF Timeout, link
<1>6. CASE ReconnectTimeout
  <2>1. \/ UNCHANGED <<socket, infoKnown>>
        \/ socket # "connected" /\ StartAsyncConnection(posted, Off)
    BY <1>6 DEF ReconnectTimeout
  <2> QED BY <1>1, <1>3, <2>1
<1>7. CASE SocketEvent
  <2>1. CASE ConnectSucceeds \/ ConnectFails \/ ConnectionLost
    BY <2>1 DEF ConnectSucceeds, ConnectFails, ConnectionLost, Disconnected
  <2>2. ASSUME NEW n \in DOMAIN replies, ReadyRead(n) PROVE KnownOnlyWhileConnected'
    <3>1. infoKnown' /\ ~infoKnown => socket' = "connected"
      BY <2>2, ReadStep
    <3>2. UNCHANGED socket \/ infoKnown' = FALSE
      BY <2>2 DEF ReadyRead, Disconnected, link
    <3> QED BY <3>1, <3>2
  <2> QED BY <1>7, <2>1, <2>2 DEF SocketEvent
<1>8. CASE Daemon
  BY <1>1, <1>8 DEF Daemon, DaemonAnswers, DaemonStartsOrStops, link
<1>9. CASE UNCHANGED vars
  BY <1>1, <1>9 DEF vars
<1> QED BY <1>2, <1>4, <1>5, <1>6, <1>7, <1>8, <1>9 DEF Next

(* The GUI never trusts the dry-run state or the schedule support of a     *)
(* daemon it is no longer connected to.                                    *)
THEOREM KnowledgeEndsWithConnection == Spec => []KnownOnlyWhileConnected
<1>1. Init => KnownOnlyWhileConnected
  BY DEF Init, KnownOnlyWhileConnected
<1> QED BY <1>1, NextKnown, CallsInductive, PTL DEF Spec

(* The client implements RemoteCalls: whatever the connection does, every  *)
(* handler runs at most once, after its call was issued, and with success  *)
(* only if the daemon answered this very call with success.                *)
THEOREM ClientKeepsPromise == Spec => HandlersRunOnce
<1>1. Init => Promise!Init
  <2> SUFFICES ASSUME Init PROVE Promise!Init
    OBVIOUS
  <2>1. Issued = {}
    BY DEF Init, Issued, Id
  <2> QED BY <2>1 DEF Init, Promise!Init
<1>2. CallInv /\ [Next]_vars => [Promise!Next]_(Promise!vars)
  <2> SUFFICES ASSUME CallInv, [Next]_vars PROVE Promise!Next
    OBVIOUS
  <2>1. CallStep
    BY NextCalls
  <2> QED BY <2>1 DEF CallStep, Grows, Promise!Next, Promise!Fails, Promise!Succeeds
<1> QED BY <1>1, <1>2, CallsInductive, PTL DEF Spec, HandlersRunOnce, Promise!Spec

-----------------------------------------------------------------------------
(* The order of the calls.                                                 *)

Queued(queue, c) == \E i \in DOMAIN queue : queue[i] = <<"send", c>>
Ascending(queue) == \A i, j \in DOMAIN queue : i < j => queue[i][2] < queue[j][2]

(* The deferred sends are queued in the order of the calls, and while      *)
(* connected each call that was not written is queued, and later than all  *)
(* that is on the wire.                                                    *)
OrderInv ==
  /\ written \subseteq pending
  /\ Ascending(posted)
  /\ socket \in {"unconnected", "connecting"} => wire = <<>>
  /\ socket # "connected" => written = {}
  /\ \A i, j \in DOMAIN wire : i < j => wire[i] < wire[j]
  /\ \A c, d \in pending : c < d /\ d \in written => c \in written
  /\ socket = "connected" =>
       \A c \in pending \ written : Queued(posted, c) /\ \A i \in DOMAIN wire : wire[i] < c

(* What a step makes of the calls and of the queue it leaves: the calls in *)
(* done are gone, new ones are queued behind.                              *)
Settled(queue, done) ==
  /\ nextId <= nextId'
  /\ pending \ done \subseteq pending'
  /\ \A c \in pending' : \/ c \in pending \ done
                         \/ c \in Id /\ c >= nextId /\ Queued(posted', c)
  /\ Ascending(posted')
  /\ \A c \in Id : Queued(queue, c) => Queued(posted', c)

LEMMA FinishSettled ==
  ASSUME CallInv, NEW queue, NEW ok, NEW failed, NEW lost \in Nat, NEW kept \in Nat,
         JobsOK(queue), Ascending(queue), Finish(queue, ok, failed, lost, kept)
  PROVE  Settled(queue, ok \cup failed)
<1> DEFINE n   == lost + kept
           S   == Sends(nextId, n)
           new == {c \in Id : nextId + lost <= c /\ c < nextId + lost + kept}
<1>1. /\ nextId' = nextId + lost + kept
      /\ pending' = (pending \ (ok \cup failed)) \cup new
      /\ posted' = queue \o S
      /\ nextId + lost + kept <= MaxCalls + 1
  BY DEF Finish
<1>2. nextId \in Int /\ 1 <= nextId /\ n \in Nat /\ nextId + n <= MaxCalls + 1 /\ MaxCalls \in Nat
  BY <1>1, BoundAssumption DEF CallInv
<1>3. queue \in Seq(Job) /\ \A i \in DOMAIN queue : queue[i][2] \in Id /\ queue[i][2] < nextId
  BY DEF JobsOK, Job
<1>4. /\ S \in Seq(Job) /\ Len(S) = n
      /\ \A i \in 1 .. n : S[i] = <<"send", nextId + i - 1>>
  <2> HIDE DEF n
  <2>1. \A i \in 1 .. n : nextId + i - 1 \in Id
    BY <1>2 DEF Id
  <2>2. \A i \in 1 .. n : <<"send", nextId + i - 1>> \in Job
    BY <2>1 DEF Job
  <2>3. S \in [1 .. n -> Job]
    BY <2>2 DEF Sends
  <2> QED BY <1>2, <2>3 DEF Sends
<1> HIDE DEF S
<1>5. /\ posted' \in Seq(Job) /\ Len(posted') = Len(queue) + n
      /\ \A i \in 1 .. Len(queue) + n :
           posted'[i] = IF i <= Len(queue) THEN queue[i] ELSE S[i - Len(queue)]
  <2>1. /\ queue \o S \in Seq(Job) /\ Len(queue \o S) = Len(queue) + Len(S)
        /\ \A i \in 1 .. Len(queue) + Len(S) :
             (queue \o S)[i] = IF i <= Len(queue) THEN queue[i] ELSE S[i - Len(queue)]
    BY <1>3, <1>4, ConcatProperties
  <2> QED BY <1>1, <1>4, <2>1
<1>6. Len(queue) \in Nat /\ DOMAIN queue = 1 .. Len(queue) /\ DOMAIN posted' = 1 .. Len(queue) + n
  BY <1>3, <1>5
<1>7. ASSUME NEW i \in DOMAIN queue PROVE i \in DOMAIN posted' /\ posted'[i] = queue[i]
  BY <1>2, <1>5, <1>6
<1>8. ASSUME NEW k \in 1 .. n
      PROVE  /\ Len(queue) + k \in DOMAIN posted'
             /\ posted'[Len(queue) + k] = <<"send", nextId + k - 1>>
  <2>1. k \in Int /\ 1 <= k /\ k <= n /\ n \in Int /\ Len(queue) \in Int /\ Len(queue) >= 0
    BY <1>2, <1>6
  <2>2. Len(queue) + k \in 1 .. Len(queue) + n /\ ~(Len(queue) + k <= Len(queue))
        /\ (Len(queue) + k) - Len(queue) = k
    BY <2>1
  <2> QED BY <1>4, <1>5, <1>6, <2>2
<1>9. \A i \in DOMAIN posted' : i \in DOMAIN queue \/ \E k \in 1 .. n : i = Len(queue) + k
  <2> SUFFICES ASSUME NEW i \in DOMAIN posted', i \notin DOMAIN queue
               PROVE  \E k \in 1 .. n : i = Len(queue) + k
    OBVIOUS
  <2>1. i \in Int /\ i > Len(queue) /\ i <= Len(queue) + n /\ Len(queue) \in Int /\ n \in Int
    BY <1>2, <1>6
  <2>2. i - Len(queue) \in 1 .. n /\ i = Len(queue) + (i - Len(queue))
    BY <2>1
  <2> QED BY <2>2
<1>10. Ascending(posted')
  <2> SUFFICES ASSUME NEW i \in DOMAIN posted', NEW j \in DOMAIN posted', i < j
               PROVE  posted'[i][2] < posted'[j][2]
    BY DEF Ascending
  <2>1. CASE i \in DOMAIN queue /\ j \in DOMAIN queue
    BY <1>7, <2>1 DEF Ascending
  <2>2. ASSUME i \in DOMAIN queue, NEW k \in 1 .. n, j = Len(queue) + k
        PROVE  posted'[i][2] < posted'[j][2]
    <3>1. posted'[i][2] \in Int /\ posted'[i][2] < nextId
      BY <1>3, <1>7, <2>2 DEF Id
    <3>2. posted'[j][2] = nextId + k - 1
      BY <1>8, <2>2
    <3>3. k \in Int /\ k >= 1
      BY <1>2
    <3> QED BY <1>2, <3>1, <3>2, <3>3
  <2>3. ASSUME NEW k \in 1 .. n, i = Len(queue) + k, NEW l \in 1 .. n, j = Len(queue) + l
        PROVE  posted'[i][2] < posted'[j][2]
    <3>1. posted'[i][2] = nextId + k - 1 /\ posted'[j][2] = nextId + l - 1
      BY <1>8, <2>3
    <3>2. k \in Int /\ l \in Int /\ k < l
      BY <1>2, <1>6, <2>3
    <3> QED BY <1>2, <3>1, <3>2
  <2>4. ASSUME NEW k \in 1 .. n, i = Len(queue) + k, j \in DOMAIN queue PROVE FALSE
    <3>1. k \in Int /\ k >= 1 /\ j \in Int /\ j <= Len(queue) /\ Len(queue) \in Int
      BY <1>2, <1>6, <2>4
    <3> QED BY <2>4, <3>1
  <2> QED BY <1>9, <2>1, <2>2, <2>3, <2>4
<1>11. ASSUME NEW c \in new PROVE c \in Id /\ c >= nextId /\ Queued(posted', c)
  <2>1. c \in Int /\ c \in Id /\ nextId + lost <= c /\ c < nextId + lost + kept
    BY DEF Id
  <2>2. c - nextId + 1 \in 1 .. n /\ nextId + (c - nextId + 1) - 1 = c /\ c >= nextId
    BY <1>2, <2>1
  <2>3. posted'[Len(queue) + (c - nextId + 1)] = <<"send", c>>
        /\ Len(queue) + (c - nextId + 1) \in DOMAIN posted'
    BY <1>8, <2>2
  <2> QED BY <2>1, <2>2, <2>3 DEF Queued
<1>12. \A c \in Id : Queued(queue, c) => Queued(posted', c)
  BY <1>7 DEF Queued
<1>13. nextId <= nextId'
  BY <1>1, <1>2
<1> HIDE DEF new
<1> QED BY <1>1, <1>10, <1>11, <1>12, <1>13 DEF Settled

LEMMA FinishAllSettled ==
  ASSUME CallInv, NEW queue, NEW ok, NEW failed, JobsOK(queue), Ascending(queue),
         FinishAll(queue, ok, failed)
  PROVE  Settled(queue, ok \cup failed)
<1>1. PICK kept \in 0 .. Cardinality(ok \cup failed) : Finish(queue, ok, failed, 0, kept)
  BY DEF FinishAll
<1>2. kept \in Nat
  OBVIOUS
<1> QED BY <1>1, <1>2, FinishSettled

LEMMA FinishAndLoseSettled ==
  ASSUME CallInv, NEW ok, Ascending(posted), FinishAndLose(posted, ok)
  PROVE  Settled(posted, ok \cup (pending \ ok))
<1>1. PICK lost \in 0 .. 2 * Cardinality(ok) + Cardinality(pending \ ok) :
        \E kept \in 0 .. lost : Finish(posted, ok, pending \ ok, lost, kept)
  BY DEF FinishAndLose
<1>2. PICK kept \in 0 .. lost : Finish(posted, ok, pending \ ok, lost, kept)
  BY <1>1
<1>3. lost \in Nat /\ kept \in Nat
  OBVIOUS
<1> QED BY <1>2, <1>3, FinishSettled DEF CallInv

LEMMA NothingSettled ==
  ASSUME CallInv, UNCHANGED <<pending, nextId>>, Ascending(posted')
  PROVE  Settled(posted', {})
BY DEF CallInv, Settled

(* The first job of an ascending queue is the least. *)
LEMMA TailAscending ==
  ASSUME CallInv, Ascending(posted), posted # <<>>
  PROVE  /\ Ascending(Tail(posted))
         /\ \A c \in Id : Queued(posted, c) =>
              \/ Head(posted) = <<"send", c>>
              \/ Queued(Tail(posted), c) /\ Head(posted)[2] < c
<1>1. posted \in Seq(Job)
  BY DEF CallInv, JobsOK
<1>2. /\ Tail(posted) \in Seq(Job) /\ Len(Tail(posted)) = Len(posted) - 1
      /\ \A i \in 1 .. Len(Tail(posted)) : Tail(posted)[i] = posted[i + 1]
  BY <1>1, HeadTailProperties
<1>3. Head(posted) = posted[1] /\ 1 \in DOMAIN posted /\ DOMAIN posted = 1 .. Len(posted)
      /\ Len(posted) \in Nat
  BY <1>1
<1>4. \A i \in DOMAIN Tail(posted) :
        i \in Int /\ i + 1 \in DOMAIN posted /\ Tail(posted)[i] = posted[i + 1]
  BY <1>1, <1>2
<1>5. Ascending(Tail(posted))
  <2> SUFFICES ASSUME NEW i \in DOMAIN Tail(posted), NEW j \in DOMAIN Tail(posted), i < j
               PROVE  Tail(posted)[i][2] < Tail(posted)[j][2]
    BY DEF Ascending
  <2>1. i + 1 \in DOMAIN posted /\ j + 1 \in DOMAIN posted /\ i + 1 < j + 1
    BY <1>4
  <2> QED BY <1>4, <2>1 DEF Ascending
<1>6. ASSUME NEW c \in Id, NEW i \in DOMAIN posted, posted[i] = <<"send", c>>, i # 1
      PROVE  Queued(Tail(posted), c) /\ Head(posted)[2] < c
  <2>1. i \in Int /\ 1 < i /\ i <= Len(posted) /\ Len(posted) \in Int
    BY <1>3, <1>6
  <2>2. i - 1 \in 1 .. Len(posted) - 1 /\ (i - 1) + 1 = i
    BY <2>1
  <2>3. i - 1 \in DOMAIN Tail(posted) /\ Tail(posted)[i - 1] = posted[i]
    BY <1>2, <2>2
  <2>4. posted[1][2] < posted[i][2]
    BY <1>3, <2>1 DEF Ascending
  <2> QED BY <1>3, <1>6, <2>3, <2>4 DEF Queued
<1> QED BY <1>3, <1>5, <1>6 DEF Queued

-----------------------------------------------------------------------------
(* A step that writes nothing.                                             *)
LEMMA OrderKept ==
  ASSUME CallInv, OrderInv, NEW queue, NEW done, Settled(queue, done),
         written' = written \ done \/ written' = {},
         socket' # "connected" => written' = {},
         socket' = "connected" => /\ socket = "connected" /\ written' = written \ done
                                  /\ UNCHANGED wire
                                  /\ \A c \in pending \ written :
                                       c \notin done => Queued(queue, c),
         wire' = wire \/ wire' = <<>>,
         socket' \in {"unconnected", "connecting"} => wire' = <<>>
  PROVE  OrderInv'
<1>1. /\ pending \ done \subseteq pending'
      /\ \A c \in pending' : \/ c \in pending \ done
                             \/ c \in Id /\ c >= nextId /\ Queued(posted', c)
      /\ Ascending(posted')
      /\ \A c \in Id : Queued(queue, c) => Queued(posted', c)
  BY DEF Settled
<1>2. /\ nextId \in Int /\ Id \subseteq Int
      /\ pending \subseteq Id /\ \A c \in pending : c < nextId
      /\ wire \in Seq(Id) /\ \A i \in DOMAIN wire : wire[i] \in Id /\ wire[i] < nextId
  <2>1. wire \in Seq(Id) /\ \A i \in DOMAIN wire : wire[i] \in OnWire
    BY TransportFacts, ElementsOf
  <2> QED BY <2>1 DEF CallInv, OnWire, Issued, Id
<1>3. written' \subseteq pending'
  BY <1>1 DEF OrderInv
<1>4. \A i, j \in DOMAIN wire' : i < j => wire'[i] < wire'[j]
  BY DEF OrderInv
<1>5. ASSUME NEW c \in pending', NEW d \in pending', c < d, d \in written' PROVE c \in written'
  <2>1. d \in written /\ d \in pending /\ written' = written \ done
    BY <1>5 DEF OrderInv
  <2>2. c \in pending \ done
    BY <1>1, <1>2, <1>5, <2>1
  <2> QED BY <1>5, <2>1, <2>2 DEF OrderInv
<1>6. ASSUME socket' = "connected", NEW c \in pending' \ written'
      PROVE  Queued(posted', c) /\ \A i \in DOMAIN wire' : wire'[i] < c
  <2>1. CASE c \in pending \ done
    <3>1. c \in pending \ written /\ c \in Id
      BY <1>2, <1>6, <2>1
    <3> QED BY <1>1, <1>6, <2>1, <3>1 DEF OrderInv
  <2>2. CASE c \in Id /\ c >= nextId /\ Queued(posted', c)
    <3>1. ASSUME NEW i \in DOMAIN wire PROVE wire[i] < c
      <4>1. wire[i] \in Int /\ wire[i] < nextId /\ nextId \in Int /\ c \in Int /\ c >= nextId
        BY <1>2, <2>2
      <4> QED BY <4>1
    <3> QED BY <1>6, <2>2, <3>1
  <2> QED BY <1>1, <2>1, <2>2
<1> QED BY <1>1, <1>3, <1>4, <1>5, <1>6 DEF OrderInv

(* A step that writes what is least among the calls not written yet.       *)
LEMMA SendOrder ==
  ASSUME CallInv, OrderInv, NEW queue, NEW unsent \in SUBSET (pending \ written),
         JobsOK(queue), Ascending(queue), Send(queue, unsent), socket' = "connected",
         \A c \in pending \ written : c \notin unsent => Queued(queue, c),
         \A c \in unsent : \A d \in pending \ written : d \notin unsent => c < d,
         \A c \in pending \ written : \A i \in DOMAIN wire : wire[i] < c
  PROVE  OrderInv'
<1>1. PICK refused \in SUBSET unsent :
        /\ FinishAll(queue, {}, refused)
        /\ written' = written \cup (unsent \ refused)
        /\ \E s \in [1 .. Cardinality(unsent \ refused) -> unsent \ refused] :
             /\ \A i, j \in DOMAIN s : i < j => s[i] < s[j]
             /\ wire' = wire \o s
  BY DEF Send
<1>2. PICK s \in [1 .. Cardinality(unsent \ refused) -> unsent \ refused] :
        /\ \A i, j \in DOMAIN s : i < j => s[i] < s[j]
        /\ wire' = wire \o s
  BY <1>1
<1>3. Settled(queue, {} \cup refused)
  BY <1>1, FinishAllSettled
<1>4. /\ pending \ refused \subseteq pending'
      /\ \A c \in pending' : \/ c \in pending \ refused
                             \/ c \in Id /\ c >= nextId /\ Queued(posted', c)
      /\ Ascending(posted')
      /\ \A c \in Id : Queued(queue, c) => Queued(posted', c)
  BY <1>3 DEF Settled
<1>5. /\ nextId \in Int /\ Id \subseteq Int
      /\ pending \subseteq Id /\ \A c \in pending : c < nextId
      /\ wire \in Seq(Id) /\ \A i \in DOMAIN wire : wire[i] \in Id /\ wire[i] < nextId
  <2>1. wire \in Seq(Id) /\ \A i \in DOMAIN wire : wire[i] \in OnWire
    BY TransportFacts, ElementsOf
  <2> QED BY <2>1 DEF CallInv, OnWire, Issued, Id
<1> DEFINE k == Cardinality(unsent \ refused)
<1>6. k \in Nat
  <2>1. IsFiniteSet(Id)
    BY BoundAssumption, FS_Interval DEF Id
  <2>2. IsFiniteSet(unsent \ refused)
    BY <1>5, <2>1, FS_Subset
  <2> QED BY <2>2, FS_CardinalityType
<1>7. s \in Seq(Id) /\ Len(s) = k /\ \A i \in 1 .. k : s[i] \in unsent \ refused
  <2>1. s \in [1 .. k -> unsent \ refused] /\ unsent \ refused \subseteq Id
    BY <1>2, <1>5
  <2> HIDE DEF k
  <2>2. s \in [1 .. k -> Id]
    BY <2>1
  <2>3. s \in Seq(Id)
    BY <1>6, <2>2
  <2>4. DOMAIN s = 1 .. k
    BY <2>2
  <2>5. Len(s) = k
    BY <1>6, <2>3, <2>4
  <2>6. \A i \in 1 .. k : s[i] \in unsent \ refused
    BY <2>1
  <2> QED BY <2>3, <2>5, <2>6
<1> HIDE DEF k
<1>8. /\ wire' \in Seq(Id) /\ DOMAIN wire' = 1 .. Len(wire) + k
      /\ \A i \in 1 .. Len(wire) + k : wire'[i] = IF i <= Len(wire) THEN wire[i] ELSE s[i - Len(wire)]
  <2>1. /\ wire \o s \in Seq(Id) /\ Len(wire \o s) = Len(wire) + Len(s)
        /\ \A i \in 1 .. Len(wire) + Len(s) :
             (wire \o s)[i] = IF i <= Len(wire) THEN wire[i] ELSE s[i - Len(wire)]
    BY <1>5, <1>7, ConcatProperties
  <2>2. wire' = wire \o s /\ Len(s) = k
    BY <1>2, <1>7
  <2> QED BY <2>1, <2>2
<1>9. Len(wire) \in Int /\ DOMAIN wire = 1 .. Len(wire)
  BY <1>5
<1>10. ASSUME NEW i \in DOMAIN wire', i > Len(wire)
       PROVE  i - Len(wire) \in 1 .. k /\ wire'[i] = s[i - Len(wire)] /\ wire'[i] \in unsent \ refused
  <2>1. i \in Int /\ k \in Int /\ i <= Len(wire) + k
    BY <1>6, <1>8, <1>9
  <2>2. i - Len(wire) \in 1 .. k /\ ~(i <= Len(wire))
    BY <1>9, <1>10, <2>1
  <2> QED BY <1>7, <1>8, <2>2
<1>11. ASSUME NEW i \in DOMAIN wire', ~(i > Len(wire))
       PROVE  i \in DOMAIN wire /\ wire'[i] = wire[i]
  BY <1>6, <1>8, <1>9, <1>11
<1>12. \A i, j \in DOMAIN wire' : i < j => wire'[i] < wire'[j]
  <2> SUFFICES ASSUME NEW i \in DOMAIN wire', NEW j \in DOMAIN wire', i < j
               PROVE  wire'[i] < wire'[j]
    OBVIOUS
  <2>1. CASE ~(i > Len(wire)) /\ ~(j > Len(wire))
    BY <1>11, <2>1 DEF OrderInv
  <2>2. CASE ~(i > Len(wire)) /\ j > Len(wire)
    BY <1>10, <1>11, <2>2
  <2>3. CASE i > Len(wire) /\ j > Len(wire)
    <3>1. i \in Int /\ j \in Int
      BY <1>8
    <3>2. i - Len(wire) < j - Len(wire)
      BY <1>9, <3>1
    <3>3. i - Len(wire) \in 1 .. k /\ wire'[i] = s[i - Len(wire)]
      BY <1>10, <2>3
    <3>4. j - Len(wire) \in 1 .. k /\ wire'[j] = s[j - Len(wire)]
      BY <1>10, <2>3
    <3>5. \A a, b \in 1 .. k : a < b => s[a] < s[b]
      BY <1>2 DEF k
    <3> QED BY <3>2, <3>3, <3>4, <3>5
  <2>4. CASE i > Len(wire) /\ ~(j > Len(wire))
    BY <1>8, <1>9, <2>4
  <2> QED BY <2>1, <2>2, <2>3, <2>4
<1>13. written' \subseteq pending'
  BY <1>1, <1>4 DEF OrderInv
<1>14. ASSUME NEW c \in pending', NEW d \in pending', c < d, d \in written' PROVE c \in written'
  <2>1. d \in pending /\ (d \in written \/ d \in unsent \ refused)
    BY <1>1, <1>14 DEF OrderInv
  <2>2. c \in pending \ refused
    BY <1>4, <1>5, <1>14, <2>1
  <2>3. CASE d \in written
    BY <1>1, <1>14, <2>1, <2>2, <2>3 DEF OrderInv
  <2>4. CASE d \in unsent /\ c \notin written
    <3>1. c \in unsent
      <4>1. c \in Int /\ d \in Int
        BY <1>5, <2>1, <2>2
      <4>2. c \notin unsent => d < c
        BY <2>2, <2>4
      <4> QED BY <1>14, <4>1, <4>2
    <3> QED BY <1>1, <2>2, <3>1
  <2> QED BY <1>1, <2>1, <2>3, <2>4
<1>15. ASSUME NEW c \in pending' \ written'
       PROVE  Queued(posted', c) /\ \A i \in DOMAIN wire' : wire'[i] < c
  <2>1. CASE c \in pending \ refused
    <3>1. c \in pending \ written /\ c \notin unsent /\ c \in Id
      BY <1>1, <1>5, <1>15, <2>1
    <3>2. Queued(posted', c)
      BY <1>4, <3>1
    <3>3. ASSUME NEW i \in DOMAIN wire' PROVE wire'[i] < c
      BY <1>10, <1>11, <3>1
    <3> QED BY <3>2, <3>3
  <2>2. CASE c \in Id /\ c >= nextId /\ Queued(posted', c)
    <3>1. ASSUME NEW i \in DOMAIN wire' PROVE wire'[i] < c
      <4>1. wire'[i] \in Int /\ wire'[i] < nextId
        BY <1>5, <1>10, <1>11
      <4>2. c \in Int /\ nextId \in Int /\ c >= nextId
        BY <1>5, <2>2
      <4> QED BY <4>1, <4>2
    <3> QED BY <2>2, <3>1
  <2> QED BY <1>4, <2>1, <2>2
<1> QED BY <1>4, <1>12, <1>13, <1>14, <1>15 DEF OrderInv

LEMMA StartOrder ==
  ASSUME CallInv, OrderInv, NEW queue, NEW running, socket # "connected", socket \in Socket,
         JobsOK(queue), Ascending(queue), StartAsyncConnection(queue, running)
  PROVE  OrderInv'
<1>1. CASE socket = "closing"
  <2>1. /\ FinishAll(queue, {}, pending)
        /\ socket' = "connecting" /\ CloseTransport /\ written' = {}
    BY <1>1 DEF StartAsyncConnection
  <2>2. Settled(queue, {} \cup pending)
    BY <2>1, FinishAllSettled
  <2> QED BY <2>1, <2>2, OrderKept DEF CloseTransport
<1>2. CASE socket \in {"unconnected", "connecting"}
  <2>1. /\ posted' = queue /\ UNCHANGED <<pending, nextId, written, wire>>
        /\ socket' = "connecting" /\ wire = <<>> /\ written = {}
    BY <1>2 DEF StartAsyncConnection, OrderInv, transport
  <2>2. Settled(posted', {})
    BY <2>1, NothingSettled
  <2> QED BY <2>1, <2>2, OrderKept
<1> QED BY <1>1, <1>2 DEF Socket

LEMMA PostedOrder ==
  ASSUME CallInv, OrderInv, socket \in Socket, PostedJob
  PROVE  OrderInv'
<1> DEFINE job == Head(posted)[1]
           c   == Head(posted)[2]
<1>1. posted # <<>> /\ Ascending(posted)
  BY DEF PostedJob, OrderInv
<1>2. /\ Head(posted) \in Job /\ Head(posted) = <<job, c>> /\ c \in Id
      /\ JobsOK(Tail(posted)) /\ Ascending(Tail(posted))
  BY <1>1, TailJobs, TailAscending DEF Job
<1>3. \A d \in Id : Queued(posted, d) =>
        (job = "send" /\ c = d) \/ (Queued(Tail(posted), d) /\ c < d)
  BY <1>1, <1>2, TailAscending
<1>4. pending \subseteq Id
  BY PendingUnfinished
<1>5. CASE job = "oversized"
  <2>1. FinishAll(Tail(posted), {}, {c}) /\ UNCHANGED <<socket, written, wire>>
    BY <1>5 DEF PostedJob, link, transport
  <2>2. Settled(Tail(posted), {} \cup {c})
    BY <1>2, <2>1, FinishAllSettled
  <2>3. c \notin pending
    <3>1. posted \in Seq(Job) /\ 1 \in DOMAIN posted /\ Head(posted) = posted[1]
      BY <1>1 DEF CallInv, JobsOK
    <3> QED BY <1>5, <3>1 DEF CallInv, JobsOK
  <2>4. written \ ({} \cup {c}) = written
    BY <2>3 DEF OrderInv
  <2>5. socket = "connected" => \A d \in pending \ written : Queued(Tail(posted), d)
    BY <1>3, <1>4, <1>5 DEF OrderInv
  <2>6. socket # "connected" => written = {}
    BY DEF OrderInv
  <2>7. socket \in {"unconnected", "connecting"} => wire = <<>>
    BY DEF OrderInv
  <2> QED BY <2>1, <2>2, <2>4, <2>5, <2>6, <2>7, OrderKept
<1>6. CASE job = "send" /\ c \notin pending
  <2>1. posted' = Tail(posted) /\ UNCHANGED <<socket, pending, nextId, written, wire>>
    BY <1>6 DEF PostedJob, link, transport
  <2>2. Settled(posted', {})
    BY <1>2, <2>1, NothingSettled
  <2>3. socket = "connected" => \A d \in pending \ written : Queued(posted', d)
    BY <1>3, <1>4, <1>6, <2>1 DEF OrderInv
  <2>4. socket # "connected" => written = {}
    BY DEF OrderInv
  <2>5. socket \in {"unconnected", "connecting"} => wire = <<>>
    BY DEF OrderInv
  <2> QED BY <2>1, <2>2, <2>3, <2>4, <2>5, OrderKept
<1>7. CASE job = "send" /\ c \in pending /\ socket = "connected"
  <2>1. Send(Tail(posted), {c} \ written) /\ socket' = "connected"
    BY <1>7 DEF PostedJob, link
  <2>2. \A d \in pending \ written : d # c => Queued(Tail(posted), d) /\ c < d
    BY <1>3, <1>4, <1>7 DEF OrderInv
  <2>3. \A d \in pending \ written : \A i \in DOMAIN wire : wire[i] < d
    BY <1>7 DEF OrderInv
  <2>4. \A d \in pending \ written : d \notin {c} \ written => Queued(Tail(posted), d)
    BY <2>2
  <2>5. \A e \in {c} \ written : \A d \in pending \ written : d \notin {c} \ written => e < d
    BY <2>2
  <2>6. {c} \ written \in SUBSET (pending \ written)
    BY <1>7
  <2> HIDE DEF c, job
  <2> QED BY <1>2, <2>1, <2>3, <2>4, <2>5, <2>6, SendOrder
<1>8. CASE job = "send" /\ c \in pending /\ socket # "connected"
  <2>1. StartAsyncConnection(Tail(posted), timer)
    BY <1>8 DEF PostedJob
  <2> QED BY <1>2, <1>8, <2>1, StartOrder
<1>9. job \in {"send", "oversized"}
  BY <1>2 DEF Job
<1> QED BY <1>5, <1>6, <1>7, <1>8, <1>9

-----------------------------------------------------------------------------
(* What remains of a sequence without its i-th element.                    *)
LEMMA Removed ==
  ASSUME NEW s \in Seq(Int), NEW i \in DOMAIN s
  PROVE  LET t == SubSeq(s, 1, i - 1) \o SubSeq(s, i + 1, Len(s))
         IN  /\ DOMAIN t = 1 .. Len(s) - 1
             /\ \A j \in 1 .. Len(s) - 1 : t[j] = s[IF j <= i - 1 THEN j ELSE j + 1]
<1> DEFINE a == SubSeq(s, 1, i - 1)
           b == SubSeq(s, i + 1, Len(s))
           t == a \o b
<1>1. i \in 1 .. Len(s) /\ Len(s) \in Nat /\ DOMAIN s = 1 .. Len(s)
  OBVIOUS
<1>2. a \in Seq(Int) /\ Len(a) = i - 1 /\ \A k \in 1 .. i - 1 : a[k] = s[k]
  BY <1>1, SubSeqProperties
<1>3. b \in Seq(Int) /\ Len(b) = Len(s) - i /\ \A k \in 1 .. Len(s) - i : b[k] = s[i + k]
  <2>1. i + 1 \in Int /\ Len(s) \in Int
    BY <1>1
  <2>2. \A k \in i + 1 .. Len(s) : s[k] \in Int
    BY <1>1
  <2>3. b \in Seq(Int)
    BY <2>1, <2>2, SubSeqProperties
  <2>4. Len(b) = IF i + 1 <= Len(s) THEN Len(s) - (i + 1) + 1 ELSE 0
    BY <2>1, <2>2, SubSeqProperties
  <2>5. \A k \in 1 .. Len(s) - (i + 1) + 1 : b[k] = s[i + 1 + k - 1]
    BY <2>1, <2>2, SubSeqProperties, SMTT(60)
  <2> HIDE DEF b
  <2>6. Len(b) = Len(s) - i
    BY <1>1, <2>4
  <2>7. ASSUME NEW k \in 1 .. Len(s) - i PROVE b[k] = s[i + k]
    <3>1. k \in 1 .. Len(s) - (i + 1) + 1 /\ i + 1 + k - 1 = i + k
      BY <1>1
    <3> QED BY <2>5, <3>1
  <2> QED BY <2>3, <2>6, <2>7
<1> HIDE DEF a, b
<1>4. t \in Seq(Int) /\ Len(t) = Len(s) - 1
      /\ \A j \in 1 .. Len(s) - 1 : t[j] = IF j <= i - 1 THEN a[j] ELSE b[j - (i - 1)]
  <2>1. t \in Seq(Int) /\ Len(t) = Len(a) + Len(b)
    BY <1>2, <1>3, ConcatProperties
  <2>2. \A j \in 1 .. Len(a) + Len(b) : t[j] = IF j <= Len(a) THEN a[j] ELSE b[j - Len(a)]
    BY <1>2, <1>3, ConcatProperties
  <2>3. Len(a) + Len(b) = Len(s) - 1
    BY <1>1, <1>2, <1>3
  <2> QED BY <1>2, <2>1, <2>2, <2>3
<1> HIDE DEF t
<1>5. ASSUME NEW j \in 1 .. Len(s) - 1
      PROVE  t[j] = s[IF j <= i - 1 THEN j ELSE j + 1]
  <2>1. i \in Int /\ j \in Int /\ Len(s) \in Int /\ 1 <= i /\ i <= Len(s) /\ 1 <= j /\ j <= Len(s) - 1
    BY <1>1
  <2>2. CASE j <= i - 1
    BY <1>2, <1>4, <2>1, <2>2
  <2>3. CASE ~(j <= i - 1)
    <3>1. j - (i - 1) \in 1 .. Len(s) - i
      BY <2>1, <2>3
    <3>2. i + (j - (i - 1)) = j + 1
      BY <2>1
    <3>3. b[j - (i - 1)] = s[i + (j - (i - 1))]
      BY <1>3, <3>1
    <3> QED BY <1>4, <2>3, <3>2, <3>3
  <2> QED BY <2>2, <2>3
<1>6. DOMAIN t = 1 .. Len(s) - 1
  BY <1>4
<1> QED BY <1>5, <1>6 DEF t, a, b

(* What is taken off the wire leaves the order of the rest.                *)
LEMMA RemovedAscends ==
  ASSUME NEW s \in Seq(Int), NEW i \in DOMAIN s, \A j, k \in DOMAIN s : j < k => s[j] < s[k]
  PROVE  LET t == SubSeq(s, 1, i - 1) \o SubSeq(s, i + 1, Len(s))
         IN  /\ \A j, k \in DOMAIN t : j < k => t[j] < t[k]
             /\ \A j \in DOMAIN t : \E k \in DOMAIN s : t[j] = s[k]
<1> DEFINE t == SubSeq(s, 1, i - 1) \o SubSeq(s, i + 1, Len(s))
<1>1. i \in 1 .. Len(s) /\ Len(s) \in Nat /\ DOMAIN s = 1 .. Len(s)
  OBVIOUS
<1>2. /\ DOMAIN t = 1 .. Len(s) - 1
      /\ \A j \in 1 .. Len(s) - 1 : t[j] = s[IF j <= i - 1 THEN j ELSE j + 1]
  BY Removed
<1> HIDE DEF t
<1>3. ASSUME NEW j \in DOMAIN t, NEW k \in DOMAIN t, j < k PROVE t[j] < t[k]
  <2> DEFINE p == IF j <= i - 1 THEN j ELSE j + 1
             q == IF k <= i - 1 THEN k ELSE k + 1
  <2>1. /\ j \in Int /\ 1 <= j /\ j <= Len(s) - 1
        /\ k \in Int /\ 1 <= k /\ k <= Len(s) - 1
        /\ Len(s) \in Int /\ i \in Int
    BY <1>1, <1>2
  <2>2. p \in 1 .. Len(s) /\ q \in 1 .. Len(s) /\ p < q
    BY <1>3, <2>1, SMTT(30)
  <2>3. t[j] = s[p] /\ t[k] = s[q]
    BY <1>2, <2>1
  <2> HIDE DEF p, q
  <2> QED BY <1>1, <2>2, <2>3
<1>4. ASSUME NEW j \in DOMAIN t PROVE \E k \in DOMAIN s : t[j] = s[k]
  <2> DEFINE p == IF j <= i - 1 THEN j ELSE j + 1
  <2>1. j \in Int /\ 1 <= j /\ j <= Len(s) - 1 /\ Len(s) \in Int
    BY <1>1, <1>2
  <2>2. p \in DOMAIN s
    BY <1>1, <2>1
  <2>3. t[j] = s[p]
    BY <1>2, <2>1
  <2> QED BY <2>2, <2>3
<1> QED BY <1>3, <1>4 DEF t

LEMMA AnswerOrder ==
  ASSUME CallInv, OrderInv, NEW i \in DOMAIN wire, NEW kind, DaemonAnswers(i, kind)
  PROVE  OrderInv'
<1>1. wire \in Seq(Id) /\ Id \subseteq Int
  BY TransportFacts DEF Id
<1>2. wire \in Seq(Int)
  <2>1. Len(wire) \in Nat /\ wire \in [1 .. Len(wire) -> Id]
    BY <1>1
  <2>2. wire \in [1 .. Len(wire) -> Int]
    BY <1>1, <2>1
  <2> QED BY <2>1, <2>2
<1>3. /\ \A j, k \in DOMAIN wire' : j < k => wire'[j] < wire'[k]
      /\ \A j \in DOMAIN wire' : \E k \in DOMAIN wire : wire'[j] = wire[k]
  <2>1. \A j, k \in DOMAIN wire : j < k => wire[j] < wire[k]
    BY DEF OrderInv
  <2>2. wire' = SubSeq(wire, 1, i - 1) \o SubSeq(wire, i + 1, Len(wire))
    BY DEF DaemonAnswers
  <2> QED BY <1>2, <2>1, <2>2, RemovedAscends
<1>4. /\ UNCHANGED <<socket, pending, written, posted>>
      /\ socket \in {"connected", "closing"}
  BY DEF DaemonAnswers, link, calls
<1>5. ASSUME socket = "connected", NEW c \in pending \ written
      PROVE  Queued(posted, c) /\ \A j \in DOMAIN wire' : wire'[j] < c
  BY <1>3, <1>5 DEF OrderInv
<1> QED BY <1>3, <1>4, <1>5 DEF OrderInv, Queued

-----------------------------------------------------------------------------
LEMMA InitOrder == Init => OrderInv
BY DEF Init, OrderInv, Ascending

(* The calls and the connection as they were, or the connection gone.      *)
LEMMA OrderUnchanged ==
  ASSUME OrderInv, UNCHANGED <<socket, pending, written, posted, wire>>
  PROVE  OrderInv'
BY DEF OrderInv, Ascending, Queued

LEMMA CallOrder ==
  ASSUME CallInv, OrderInv, NEW job \in {"send", "oversized"}, CallAsync(job)
  PROVE  OrderInv'
<1>1. /\ posted \in Seq(Job) /\ Ascending(posted)
      /\ \A i \in DOMAIN posted : posted[i][2] \in Int /\ posted[i][2] < nextId
      /\ nextId \in Id /\ nextId \in Int /\ pending \subseteq Id
  <2>1. posted \in Seq(Job) /\ \A i \in DOMAIN posted : posted[i] \in Job /\ posted[i][2] < nextId
    BY DEF CallInv, JobsOK
  <2>2. \A i \in DOMAIN posted : posted[i][2] \in Int
    BY <2>1 DEF Job, Id
  <2>3. nextId \in Id /\ nextId \in Int
    BY BoundAssumption DEF CallInv, CallAsync, Id
  <2> QED BY <2>1, <2>2, <2>3, PendingUnfinished DEF OrderInv
<1>2. <<job, nextId>> \in Job
  BY <1>1 DEF Job
<1>3. /\ posted' \in Seq(Job) /\ Len(posted') = Len(posted) + 1
      /\ \A i \in 1 .. Len(posted) : posted'[i] = posted[i]
      /\ posted'[Len(posted) + 1] = <<job, nextId>>
  BY <1>1, <1>2, AppendProperties DEF CallAsync
<1>4. Len(posted) \in Nat /\ DOMAIN posted = 1 .. Len(posted) /\ DOMAIN posted' = 1 .. Len(posted) + 1
  BY <1>1, <1>3
<1>5. Ascending(posted')
  <2> SUFFICES ASSUME NEW i \in DOMAIN posted', NEW j \in DOMAIN posted', i < j
               PROVE  posted'[i][2] < posted'[j][2]
    BY DEF Ascending
  <2>1. i \in DOMAIN posted /\ posted'[i] = posted[i]
    BY <1>3, <1>4
  <2>2. CASE j \in DOMAIN posted
    BY <1>1, <1>3, <1>4, <2>1, <2>2 DEF Ascending
  <2>3. CASE j = Len(posted) + 1
    BY <1>1, <1>3, <2>1, <2>3
  <2> QED BY <1>4, <2>2, <2>3
<1>6. \A c \in Id : Queued(posted, c) => Queued(posted', c)
  BY <1>3, <1>4 DEF Queued
<1>7. job = "send" => Queued(posted', nextId)
  BY <1>3, <1>4 DEF Queued
<1>8. /\ nextId' = nextId + 1 /\ UNCHANGED <<socket, written, wire>>
      /\ pending' = IF job = "send" THEN pending \cup {nextId} ELSE pending
  BY DEF CallAsync, link, transport
<1>9. Settled(posted, {})
  BY <1>1, <1>5, <1>6, <1>7, <1>8 DEF Settled
<1>10. socket = "connected" => \A c \in pending \ written : Queued(posted, c)
  BY DEF OrderInv
<1>11. socket # "connected" => written = {}
  BY DEF OrderInv
<1>12. socket \in {"unconnected", "connecting"} => wire = <<>>
  BY DEF OrderInv
<1> QED BY <1>8, <1>9, <1>10, <1>11, <1>12, OrderKept

(* A call that ends, cancelled or timed out, while nothing else happens.   *)
LEMMA EndedOrder ==
  ASSUME CallInv, OrderInv, NEW ok, NEW failed, ok \cup failed \subseteq pending,
         FinishAll(posted, ok, failed), UNCHANGED <<socket, wire>>,
         written' = written \ (ok \cup failed)
  PROVE  OrderInv'
<1>1. Settled(posted, ok \cup failed)
  BY FinishAllSettled DEF CallInv, OrderInv
<1>2. socket = "connected" => \A c \in pending \ written : Queued(posted, c)
  BY DEF OrderInv
<1>3. socket # "connected" => written = {}
  BY DEF OrderInv
<1>4. socket \in {"unconnected", "connecting"} => wire = <<>>
  BY DEF OrderInv
<1> QED BY <1>1, <1>2, <1>3, <1>4, OrderKept

(* A step after which nothing is connected.                                *)
LEMMA DownOrder ==
  ASSUME CallInv, OrderInv, NEW done, Settled(posted, done), written' = {},
         socket' # "connected", wire' = wire \/ wire' = <<>>,
         socket' \in {"unconnected", "connecting"} => wire' = <<>>
  PROVE  OrderInv'
BY OrderKept

LEMMA NextOrder ==
  CallInv /\ OrderInv /\ socket \in Socket /\ [Next]_vars => OrderInv'
<1> SUFFICES ASSUME CallInv, OrderInv, socket \in Socket, [Next]_vars PROVE OrderInv'
  OBVIOUS
<1>1. CASE UNCHANGED vars
  BY <1>1, OrderUnchanged DEF vars
<1>2. CASE Api
  <2>1. ASSUME NEW job \in {"send", "oversized"}, CallAsync(job) PROVE OrderInv'
    BY <2>1, CallOrder
  <2>2. ASSUME NEW c \in Id, CancelCall(c) PROVE OrderInv'
    <3>1. /\ c \in pending /\ FinishAll(posted, {}, {c}) /\ UNCHANGED <<socket, wire>>
          /\ written' = written \ {c}
      BY <2>2 DEF CancelCall, link, transport
    <3>2. {} \cup {c} \subseteq pending /\ written' = written \ ({} \cup {c})
      BY <3>1
    <3> QED BY <3>1, <3>2, EndedOrder
  <2>3. CASE DisconnectFromDaemon
    <3>1. written' = {} /\ Ascending(posted)
      BY <2>3 DEF DisconnectFromDaemon, OrderInv
    <3>2. CASE /\ socket \in {"unconnected", "connecting"} /\ socket' = "unconnected"
               /\ FinishAll(posted, {}, pending) /\ UNCHANGED transport
      <4>1. wire' = <<>>
        BY <3>2 DEF OrderInv, transport
      <4>2. Settled(posted, {} \cup pending)
        BY <3>1, <3>2, FinishAllSettled DEF CallInv
      <4> QED BY <3>1, <3>2, <4>1, <4>2, DownOrder
    <3>3. CASE socket' = "unconnected" /\ FinishAndLose(posted, {}) /\ CloseTransport
      <4>1. Settled(posted, {} \cup (pending \ {}))
        BY <3>1, <3>3, FinishAndLoseSettled
      <4> QED BY <3>1, <3>3, <4>1, DownOrder DEF CloseTransport
    <3>4. CASE socket' = "closing" /\ FinishAll(posted, {}, pending) /\ UNCHANGED transport
      <4>1. Settled(posted, {} \cup pending)
        BY <3>1, <3>4, FinishAllSettled DEF CallInv
      <4> QED BY <3>1, <3>4, <4>1, DownOrder DEF transport
    <3> QED BY <2>3, <3>2, <3>3, <3>4 DEF DisconnectFromDaemon
  <2>4. CASE ReconnectNow
    BY <2>4, OrderUnchanged DEF ReconnectNow, calls, transport
  <2>5. ASSUME NEW enabled \in BOOLEAN, SetAutomaticReconnectEnabled(enabled) PROVE OrderInv'
    BY <2>5, OrderUnchanged DEF SetAutomaticReconnectEnabled, calls, transport
  <2> QED BY <1>2, <2>1, <2>2, <2>3, <2>4, <2>5 DEF Api
<1>3. CASE PostedJob
  BY <1>3, PostedOrder
<1>4. ASSUME NEW c \in Id, Timeout(c) PROVE OrderInv'
  <2>1. /\ c \in pending /\ FinishAll(posted, {}, {c}) /\ UNCHANGED <<socket, wire>>
        /\ written' = written \ {c}
    BY <1>4 DEF Timeout, link, transport
  <2>2. {} \cup {c} \subseteq pending /\ written' = written \ ({} \cup {c})
    BY <2>1
  <2> QED BY <2>1, <2>2, EndedOrder
<1>5. CASE ReconnectTimeout
  <2>1. CASE ~automatic \/ manual \/ socket = "connected"
    BY <1>5, <2>1, OrderUnchanged DEF ReconnectTimeout, calls, transport
  <2>2. CASE ~(~automatic \/ manual \/ socket = "connected")
    <3>1. StartAsyncConnection(posted, Off) /\ socket # "connected"
      BY <1>5, <2>2 DEF ReconnectTimeout
    <3> QED BY <3>1, StartOrder DEF CallInv, OrderInv
  <2> QED BY <2>1, <2>2
<1>6. CASE ConnectSucceeds
  <2>1. socket = "connecting" /\ socket' = "connected" /\ Send(posted, pending \ written)
    BY <1>6 DEF ConnectSucceeds
  <2>2. wire = <<>> /\ DOMAIN wire = {} /\ JobsOK(posted) /\ Ascending(posted)
    BY <2>1 DEF OrderInv, CallInv
  <2> QED BY <2>1, <2>2, SendOrder
<1>7. CASE ConnectFails
  <2>1. /\ socket = "connecting" /\ socket' = "unconnected" /\ written' = {}
        /\ FinishAll(posted, {}, pending) /\ wire' = wire
    BY <1>7 DEF ConnectFails, transport
  <2>2. wire' = <<>> /\ JobsOK(posted) /\ Ascending(posted)
    BY <2>1 DEF OrderInv, CallInv
  <2>3. Settled(posted, {} \cup pending)
    BY <2>1, <2>2, FinishAllSettled
  <2> QED BY <2>1, <2>2, <2>3, DownOrder
<1>8. CASE ConnectionLost
  <2>1. /\ socket' = "unconnected" /\ written' = {} /\ wire' = <<>>
        /\ FinishAll(posted, {}, pending)
    BY <1>8 DEF ConnectionLost, Disconnected, CloseTransport
  <2>2. Settled(posted, {} \cup pending)
    BY <2>1, FinishAllSettled DEF OrderInv, CallInv
  <2> QED BY <2>1, <2>2, DownOrder
<1>9. ASSUME NEW n \in DOMAIN replies, ReadyRead(n) PROVE OrderInv'
  <2> DEFINE all    == buffer \o SubSeq(replies, 1, n)
             bad    == {i \in DOMAIN all : all[i].kind = "bad"}
             parsed == {all[i] : i \in {j \in DOMAIN all : \A b \in bad : j < b}}
             ok     == {r.id : r \in {q \in parsed : q.kind \in {"status", "ok"}}} \cap pending
             error  == {r.id : r \in {q \in parsed : q.kind = "error"}} \cap pending
  <2> HIDE DEF all, bad, parsed
  <2>1. \/ UNCHANGED <<link, calls, wire>>
        \/ /\ FinishAll(posted, ok, error) /\ written' = written \ (ok \cup error)
           /\ UNCHANGED <<link, wire>>
        \/ FinishAndLose(posted, ok) /\ Disconnected
    BY <1>9 DEF ReadyRead, all, bad, parsed
  <2>2. ok \cup error \subseteq pending
    OBVIOUS
  <2> HIDE DEF ok, error
  <2>3. CASE UNCHANGED <<link, calls, wire>>
    BY <2>3, OrderUnchanged DEF link, calls
  <2>4. CASE /\ FinishAll(posted, ok, error) /\ written' = written \ (ok \cup error)
             /\ UNCHANGED <<link, wire>>
    BY <2>2, <2>4, EndedOrder DEF link
  <2>5. CASE FinishAndLose(posted, ok) /\ Disconnected
    <3>1. socket' = "unconnected" /\ written' = {} /\ wire' = <<>>
      BY <2>5 DEF Disconnected, CloseTransport
    <3>2. Settled(posted, ok \cup (pending \ ok))
      BY <2>5, FinishAndLoseSettled DEF OrderInv
    <3> QED BY <3>1, <3>2, DownOrder
  <2> QED BY <2>1, <2>3, <2>4, <2>5
<1>10. ASSUME NEW i \in DOMAIN wire, NEW kind \in Kind, DaemonAnswers(i, kind) PROVE OrderInv'
  BY <1>10, AnswerOrder
<1>11. CASE DaemonStartsOrStops
  BY <1>11, OrderUnchanged DEF DaemonStartsOrStops, link, calls, transport
<1> QED
  BY <1>1, <1>2, <1>3, <1>4, <1>5, <1>6, <1>7, <1>8, <1>9, <1>10, <1>11 DEF Next, SocketEvent, Daemon

LEMMA OrderInductive == Spec => []OrderInv
<1>1. LinkInv => socket \in Socket
  BY DEF LinkInv
<1> QED BY <1>1, InitOrder, NextOrder, CallsInductive, LinkInductive, PTL DEF Spec

(* Requests reach the daemon in the order the program made them, for any   *)
(* number of calls, disconnects and reconnections.                         *)
THEOREM SentInOrderAlways == Spec => []SentInOrder
<1>1. OrderInv => SentInOrder
  BY DEF OrderInv, SentInOrder
<1> QED BY <1>1, OrderInductive, PTL

(* A call made on a connected client that was not written yet is still in  *)
(* the event queue: none is forgotten.                                     *)
THEOREM CallsRemembered == Spec => []NoForgottenCall
<1>1. OrderInv => NoForgottenCall
  BY DEF OrderInv, NoForgottenCall, Queued, Elements
<1> QED BY <1>1, OrderInductive, PTL

-----------------------------------------------------------------------------
(* What TypeOK says beyond the two invariants.                             *)
FlagsOK ==
  /\ infoKnown \in BOOLEAN
  /\ automatic \in BOOLEAN
  /\ manual \in BOOLEAN
  /\ attempt \in 0 .. MaxAttempts
  /\ timer \in {Off} \cup 0 .. MaxDelay
  /\ daemonUp \in BOOLEAN
  /\ owed \in BOOLEAN

LEMMA DelayBounded == \A n \in Nat : ReconnectDelay(n) \in 0 .. MaxDelay
<1> SUFFICES ASSUME NEW n \in Nat PROVE ReconnectDelay(n) \in 0 .. MaxDelay
  OBVIOUS
<1> DEFINE exponent == IF n - 1 < 0 THEN 0 ELSE IF n - 1 > 5 THEN 5 ELSE n - 1
<1>1. exponent \in {0, 1, 2, 3, 4, 5}
  OBVIOUS
<1>2. 2^exponent \in Nat
  <2> HIDE DEF exponent
  <2>1. 2^0 \in Nat /\ 2^1 \in Nat /\ 2^2 \in Nat /\ 2^3 \in Nat /\ 2^4 \in Nat /\ 2^5 \in Nat
    OBVIOUS
  <2> QED BY <1>1, <2>1
<1> DEFINE delay == 250 * 2^exponent
<1>3. delay \in Nat
  <2> HIDE DEF exponent
  <2> QED BY <1>2
<1>4. ReconnectDelay(n) = IF delay < MaxDelay THEN delay ELSE MaxDelay
  BY DEF ReconnectDelay
<1> HIDE DEF delay, exponent
<1> QED BY <1>3, <1>4 DEF MaxDelay

LEMMA ScheduleTypes ==
  ASSUME FlagsOK, NEW running \in {Off} \cup 0 .. MaxDelay, NEW manualNow,
         ScheduleReconnect(running, manualNow)
  PROVE  attempt' \in 0 .. MaxAttempts /\ timer' \in {Off} \cup 0 .. MaxDelay
<1>1. CASE ~automatic \/ manualNow \/ running # Off
  BY <1>1 DEF ScheduleReconnect, FlagsOK
<1>2. CASE ~(~automatic \/ manualNow \/ running # Off)
  <2>1. attempt' = (IF attempt < MaxAttempts THEN attempt + 1 ELSE MaxAttempts)
        /\ timer' = ReconnectDelay(attempt')
    BY <1>2 DEF ScheduleReconnect
  <2>2. attempt' \in 0 .. MaxAttempts /\ attempt' \in Nat
    BY <2>1, BoundAssumption DEF FlagsOK
  <2> QED BY <2>1, <2>2, DelayBounded
<1> QED BY <1>1, <1>2

LEMMA StartTypes ==
  ASSUME FlagsOK, socket \in Socket, socket # "connected", NEW queue,
         NEW running \in {Off} \cup 0 .. MaxDelay, StartAsyncConnection(queue, running),
         UNCHANGED <<automatic, daemonUp>>
  PROVE  FlagsOK'
<1>1. CASE socket = "connecting"
  BY <1>1 DEF StartAsyncConnection, FlagsOK
<1>2. CASE socket = "unconnected"
  BY <1>2 DEF StartAsyncConnection, FlagsOK
<1>3. CASE socket = "closing"
  <2>1. /\ manual' = FALSE /\ infoKnown' = FALSE /\ owed' = owed
        /\ ScheduleReconnect(running, FALSE)
    BY <1>3 DEF StartAsyncConnection
  <2> QED BY <2>1, ScheduleTypes DEF FlagsOK
<1> QED BY <1>1, <1>2, <1>3 DEF Socket

LEMMA DisconnectedTypes ==
  ASSUME FlagsOK, Disconnected, UNCHANGED <<automatic, daemonUp>>
  PROVE  FlagsOK'
<1>1. /\ infoKnown' = FALSE /\ UNCHANGED manual
      /\ owed' = (owed \/ (socket = "connected" /\ automatic /\ ~manual))
      /\ ScheduleReconnect(timer, manual)
  BY DEF Disconnected
<1>2. attempt' \in 0 .. MaxAttempts /\ timer' \in {Off} \cup 0 .. MaxDelay
  BY <1>1, ScheduleTypes DEF FlagsOK
<1> QED BY <1>1, <1>2 DEF FlagsOK

LEMMA NextFlags == FlagsOK /\ socket \in Socket /\ [Next]_vars => FlagsOK'
<1> SUFFICES ASSUME FlagsOK, socket \in Socket, [Next]_vars PROVE FlagsOK'
  OBVIOUS
<1> USE DEF FlagsOK
<1>0. Off \in {Off} \cup 0 .. MaxDelay /\ 0 \in {Off} \cup 0 .. MaxDelay /\ 0 \in 0 .. MaxAttempts
  BY BoundAssumption DEF MaxDelay
<1>1. CASE UNCHANGED vars
  BY <1>1 DEF vars
<1>2. CASE Api
  <2>1. ASSUME NEW job \in {"send", "oversized"}, CallAsync(job) PROVE FlagsOK'
    BY <2>1 DEF CallAsync, link
  <2>2. ASSUME NEW c \in Id, CancelCall(c) PROVE FlagsOK'
    BY <2>2 DEF CancelCall, link
  <2>3. CASE DisconnectFromDaemon
    BY <1>0, <2>3 DEF DisconnectFromDaemon, ResetReconnectState
  <2>4. CASE ReconnectNow
    BY <1>0, <2>4 DEF ReconnectNow
  <2>5. ASSUME NEW enabled \in BOOLEAN, SetAutomaticReconnectEnabled(enabled) PROVE FlagsOK'
    <3>1. CASE enabled
      BY <1>0, <2>5, <3>1 DEF SetAutomaticReconnectEnabled
    <3>2. CASE ~enabled
      BY <1>0, <2>5, <3>2 DEF SetAutomaticReconnectEnabled, ResetReconnectState
    <3> QED BY <3>1, <3>2
  <2> QED BY <1>2, <2>1, <2>2, <2>3, <2>4, <2>5 DEF Api
<1>3. CASE PostedJob
  <2>1. CASE UNCHANGED <<link, infoKnown, daemonUp>>
    BY <2>1 DEF link
  <2>2. CASE socket # "connected" /\ StartAsyncConnection(Tail(posted), timer) /\ UNCHANGED <<automatic, daemonUp>>
    BY <2>2, StartTypes
  <2> QED BY <1>3, <2>1, <2>2 DEF PostedJob
<1>4. ASSUME NEW c \in Id, Timeout(c) PROVE FlagsOK'
  BY <1>4 DEF Timeout, link
<1>5. CASE ReconnectTimeout
  <2>1. CASE ~automatic \/ manual \/ socket = "connected"
    BY <1>0, <1>5, <2>1 DEF ReconnectTimeout
  <2>2. CASE ~(~automatic \/ manual \/ socket = "connected")
    <3>1. StartAsyncConnection(posted, Off) /\ socket # "connected" /\ UNCHANGED <<automatic, daemonUp>>
      BY <1>5, <2>2 DEF ReconnectTimeout
    <3> QED BY <1>0, <3>1, StartTypes
  <2> QED BY <2>1, <2>2
<1>6. CASE ConnectSucceeds
  <2>1. /\ attempt' = 0 /\ timer' = Off /\ manual' = FALSE
        /\ owed' = (owed /\ attempt = 0)
        /\ UNCHANGED <<automatic, infoKnown, daemonUp>>
    BY <1>6 DEF ConnectSucceeds, ResetReconnectState
  <2> QED BY <1>0, <2>1
<1>7. CASE ConnectFails
  <2>1. ScheduleReconnect(timer, manual) /\ UNCHANGED <<automatic, manual, owed, infoKnown, daemonUp>>
    BY <1>7 DEF ConnectFails
  <2> QED BY <2>1, ScheduleTypes
<1>8. CASE ConnectionLost
  BY <1>8, DisconnectedTypes DEF ConnectionLost
<1>9. ASSUME NEW n \in DOMAIN replies, ReadyRead(n) PROVE FlagsOK'
  <2>1. \/ UNCHANGED <<link, infoKnown, daemonUp>>
        \/ UNCHANGED <<link, daemonUp>> /\ infoKnown' \in BOOLEAN
        \/ Disconnected /\ UNCHANGED <<automatic, daemonUp>>
    BY <1>9 DEF ReadyRead
  <2> QED BY <2>1, DisconnectedTypes DEF link
<1>10. ASSUME NEW i \in DOMAIN wire, NEW kind \in Kind, DaemonAnswers(i, kind) PROVE FlagsOK'
  BY <1>10 DEF DaemonAnswers, link
<1>11. CASE DaemonStartsOrStops
  BY <1>11 DEF DaemonStartsOrStops, link
<1> QED
  BY <1>1, <1>2, <1>3, <1>4, <1>5, <1>6, <1>7, <1>8, <1>9, <1>10, <1>11 DEF Next, SocketEvent, Daemon

(* The client's variables keep their types: in particular the backoff      *)
(* never leaves its range, however long the daemon stays away.             *)
THEOREM ClientTypeCorrect == Spec => []TypeOK
<1>1. Init => FlagsOK
  <2> SUFFICES ASSUME Init PROVE FlagsOK
    OBVIOUS
  <2>1. /\ infoKnown = FALSE /\ automatic = FALSE /\ manual = FALSE /\ owed = FALSE
        /\ daemonUp \in BOOLEAN /\ timer = Off
    BY DEF Init
  <2>2. attempt \in 0 .. MaxAttempts
    BY BoundAssumption DEF Init
  <2> QED BY <2>1, <2>2 DEF FlagsOK
<1>2. LinkInv => socket \in Socket
  BY DEF LinkInv
<1>3. CallInv /\ LinkInv /\ OrderInv /\ FlagsOK => TypeOK
  BY DEF CallInv, LinkInv, OrderInv, FlagsOK, TypeOK, JobsOK, Genuine, Issued
<1> QED
  BY <1>1, <1>2, <1>3, NextFlags, CallsInductive, LinkInductive, OrderInductive, PTL DEF Spec

=============================================================================
