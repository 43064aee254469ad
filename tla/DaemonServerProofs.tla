------------------------- MODULE DaemonServerProofs -------------------------
(***************************************************************************)
(* Proofs about DaemonServer for any number of connections and requests.   *)
(***************************************************************************)
EXTENDS DaemonServer, SequenceTheorems, TLAPS

-----------------------------------------------------------------------------
(* Where a connection can be.  The tables hold what is open, the backlog   *)
(* what waits, and a connection the server has not accepted has had        *)
(* neither answers nor lists.                                              *)

TrackedIsOpen == \A c \in Conn : c \in buffers <=> stage[c] \in {"open", "closing"}
BacklogWaits  == \A i \in DOMAIN backlog : stage[backlog[i]] = "queued"
Unaccepted ==
  \A c \in Conn : stage[c] \in {"new", "queued"} => outbox[c] = <<>> /\ deferred[c] = <<>>
Unused == \A c \in Conn : stage[c] = "new" => asked[c] = 0 /\ inbox[c] = <<>>

PeerInv ==
  /\ TypeOK
  /\ OnePeer
  /\ TrackedIsOpen
  /\ BacklogWaits
  /\ Unaccepted
  /\ Unused
  /\ ListsOwedToPeer



LEMMA NewestWaits ==
  ASSUME PeerInv, backlog # <<>>
  PROVE  Newest \in Conn /\ Newest \in Waiting /\ stage[Newest] = "queued" /\ Newest \notin buffers
<1>1. Len(backlog) \in DOMAIN backlog /\ backlog \in Seq(Conn)
  BY EmptySeq DEF PeerInv, TypeOK
<1> QED BY <1>1 DEF PeerInv, BacklogWaits, TrackedIsOpen, Newest, Waiting

LEMMA InitPeer == Init => PeerInv
<1> SUFFICES ASSUME Init PROVE PeerInv
  OBVIOUS
<1>1. TypeOK
  <2>1. 0 \in 0 .. MaxRequests
    BY ServerAssumption
  <2>2. hardware \in Write \cup {NoWrite}
    BY DEF Init
  <2>3. stage \in [Conn -> Stage] /\ backlog \in Seq(Conn)
    BY DEF Init, Stage
  <2>4. asked \in [Conn -> 0 .. MaxRequests] /\ inbox \in [Conn -> Seq(Request)]
    BY <2>1 DEF Init
  <2>5. outbox \in [Conn -> Seq(Answer)] /\ deferred \in [Conn -> Seq(Id)]
    BY DEF Init
  <2> QED BY <2>2, <2>3, <2>4, <2>5 DEF Init, TypeOK
<1>2. OnePeer /\ TrackedIsOpen /\ BacklogWaits /\ Unaccepted /\ Unused /\ ListsOwedToPeer
  BY DEF Init, OnePeer, TrackedIsOpen, BacklogWaits, Unaccepted, Unused, ListsOwedToPeer
<1> QED BY <1>1, <1>2 DEF PeerInv

LEMMA ConnectsPeer ==
  ASSUME PeerInv, NEW c \in Conn, Connects(c) PROVE PeerInv'
<1>1. TypeOK'
  BY DEF PeerInv, TypeOK, Connects, Stage, clients, manager
<1>2. BacklogWaits'
  <2> SUFFICES ASSUME NEW i \in DOMAIN backlog' PROVE stage'[backlog'[i]] = "queued"
    BY DEF BacklogWaits
  <2>1. /\ backlog' = Append(backlog, c) /\ backlog \in Seq(Conn)
        /\ stage' = [stage EXCEPT ![c] = "queued"] /\ stage \in [Conn -> Stage]
    BY DEF Connects, PeerInv, TypeOK
  <2>2. CASE i = Len(backlog) + 1
    BY <2>1, <2>2
  <2>3. CASE i # Len(backlog) + 1
    <3>1. i \in DOMAIN backlog /\ backlog'[i] = backlog[i]
      BY <2>1, <2>3
    <3> QED BY <2>1, <3>1 DEF PeerInv, BacklogWaits
  <2> QED BY <2>2, <2>3
<1>3. OnePeer' /\ TrackedIsOpen' /\ Unaccepted' /\ Unused' /\ ListsOwedToPeer'
  BY DEF PeerInv, TypeOK, Connects, OnePeer, TrackedIsOpen, Unaccepted, Unused,
         ListsOwedToPeer, clients, manager
<1> QED BY <1>1, <1>2, <1>3 DEF PeerInv

LEMMA ClientPeer ==
  ASSUME PeerInv, NEW c \in Conn, Leaves(c) \/ \E r \in Request : Asks(c, r)
  PROVE  PeerInv'
<1>1. CASE Leaves(c)
  BY <1>1 DEF PeerInv, TypeOK, Leaves, OnePeer, TrackedIsOpen, BacklogWaits, Unaccepted, Unused,
              ListsOwedToPeer, manager
<1>2. ASSUME NEW r \in Request, Asks(c, r) PROVE PeerInv'
  <2>1. asked[c] \in 0 .. MaxRequests /\ inbox[c] \in Seq(Request)
    BY DEF PeerInv, TypeOK
  <2>2. asked[c] + 1 \in 0 .. MaxRequests /\ Append(inbox[c], r) \in Seq(Request)
    BY ServerAssumption, <1>2, <2>1 DEF Asks
  <2>3. TypeOK'
    BY <1>2, <2>2 DEF PeerInv, TypeOK, Asks, manager
  <2>4. OnePeer' /\ TrackedIsOpen' /\ BacklogWaits' /\ Unaccepted' /\ Unused' /\ ListsOwedToPeer'
    BY <1>2 DEF PeerInv, TypeOK, Asks, OnePeer, TrackedIsOpen, BacklogWaits, Unaccepted, Unused,
                ListsOwedToPeer, manager
  <2> QED BY <2>3, <2>4 DEF PeerInv
<1> QED BY <1>1, <1>2

(* Dropping what closed sockets held keeps types and what is not closed.   *)
LEMMA DropKeeps ==
  ASSUME PeerInv, DropClosed
  PROVE  /\ inbox' \in [Conn -> Seq(Request)] /\ outbox' \in [Conn -> Seq(Answer)]
         /\ \A c \in Conn : stage'[c] # "closed" => inbox'[c] = inbox[c] /\ outbox'[c] = outbox[c]
<1>1. inbox \in [Conn -> Seq(Request)] /\ outbox \in [Conn -> Seq(Answer)]
  BY DEF PeerInv, TypeOK
<1> QED BY <1>1 DEF DropClosed

LEMMA HandOverPeer ==
  ASSUME PeerInv, HandleNewConnection PROVE PeerInv'
<1>1. Newest \in Conn /\ stage[Newest] = "queued" /\ Newest \notin buffers
  BY NewestWaits DEF HandleNewConnection
<1> DEFINE S == (buffers \cup Waiting) \ {Newest}
<1>2. /\ active' = Newest /\ buffers' = {Newest} /\ stage' = Opened({Newest})
      /\ deferred' = [c \in Conn |-> IF c \in S THEN <<>> ELSE deferred[c]]
      /\ exiting' \in BOOLEAN /\ DropClosed
  BY DEF HandleNewConnection, HandOver, HandleDisconnected, PeerInv, TypeOK
<1>3. deferred' = [c \in Conn |-> <<>>]
  <2>1. \A c \in Conn : c \notin S => deferred[c] = <<>>
    BY <1>1 DEF PeerInv, ListsOwedToPeer, Unaccepted
  <2> QED BY <1>2, <2>1
<1>4. \A c \in Conn : stage'[c] = IF c = Newest THEN "open"
                                  ELSE IF stage[c] = "new" THEN "new" ELSE "closed"
  BY <1>2 DEF Opened
<1>5. TypeOK'
  <2>1. stage' \in [Conn -> Stage]
    BY <1>2 DEF Opened, Stage
  <2>2. deferred' \in [Conn -> Seq(Id)]
    BY <1>3
  <2>3. /\ backlog' \in Seq(Conn) /\ buffers' \subseteq Conn
        /\ active' \in Conn \cup {NoConn} /\ accepted' \in BOOLEAN
    BY <1>1, <1>2 DEF HandleNewConnection
  <2> QED BY <1>2, <2>1, <2>2, <2>3, DropKeeps DEF PeerInv, TypeOK, HandleNewConnection, clients, manager
<1>6. OnePeer' /\ TrackedIsOpen' /\ ListsOwedToPeer'
  BY ServerAssumption, <1>1, <1>2, <1>3, <1>4 DEF OnePeer, TrackedIsOpen, ListsOwedToPeer
<1>7. BacklogWaits'
  BY DEF HandleNewConnection, BacklogWaits
<1>8. Unaccepted' /\ Unused'
  BY <1>2, <1>3, <1>4, DropKeeps DEF PeerInv, Unaccepted, Unused, HandleNewConnection, clients
<1> QED BY <1>5, <1>6, <1>7, <1>8 DEF PeerInv

LEMMA DisconnectedPeer ==
  ASSUME PeerInv, NEW c \in Conn, Disconnected(c) PROVE PeerInv'
<1>1. c \in buffers /\ active = c /\ buffers = {c}
  BY DEF PeerInv, Disconnected, TrackedIsOpen, OnePeer
<1>2. active' = NoConn /\ buffers' = {} /\ stage' = [stage EXCEPT ![c] = "closed"]
  BY <1>1 DEF Disconnected, HandleDisconnected
<1>3. deferred' = [d \in Conn |-> <<>>]
  <2>1. \A d \in Conn : d # c => deferred[d] = <<>>
    BY <1>1 DEF PeerInv, ListsOwedToPeer
  <2> QED BY <2>1 DEF Disconnected, HandleDisconnected
<1>4. TypeOK'
  <2>1. deferred' \in [Conn -> Seq(Id)]
    BY <1>3
  <2>2. exiting' \in BOOLEAN
    BY DEF Disconnected, HandleDisconnected, PeerInv, TypeOK
  <2>3. stage' \in [Conn -> Stage]
    BY <1>2 DEF PeerInv, TypeOK, Stage
  <2>4. inbox' \in [Conn -> Seq(Request)] /\ outbox' \in [Conn -> Seq(Answer)]
    BY DropKeeps DEF Disconnected
  <2> QED BY <1>2, <2>1, <2>2, <2>3, <2>4 DEF PeerInv, TypeOK, Disconnected, clients, manager
<1>5. OnePeer' /\ TrackedIsOpen' /\ ListsOwedToPeer'
  BY <1>1, <1>2, <1>3 DEF PeerInv, TypeOK, OnePeer, TrackedIsOpen, ListsOwedToPeer
<1>6. BacklogWaits'
  <2>1. \A i \in DOMAIN backlog : backlog[i] # c /\ backlog[i] \in Conn
    BY DEF PeerInv, TypeOK, BacklogWaits, Disconnected
  <2> QED BY <1>2, <2>1 DEF PeerInv, TypeOK, BacklogWaits, Disconnected
<1>7. Unaccepted' /\ Unused'
  BY <1>2, <1>3, DropKeeps DEF PeerInv, TypeOK, Unaccepted, Unused, Disconnected, clients
<1> QED BY <1>4, <1>5, <1>6, <1>7 DEF PeerInv
LEMMA ReadPeer ==
  ASSUME PeerInv, NEW c \in Conn, HandleReadyRead(c) PROVE PeerInv'
<1> DEFINE r == Head(inbox[c])
<1>1. c \in buffers /\ c = active /\ buffers = {c} /\ stage[c] = "open"
  BY DEF HandleReadyRead, PeerInv, OnePeer
<1>2. r \in Request /\ Tail(inbox[c]) \in Seq(Request)
  <2>1. inbox[c] \in Seq(Request) /\ inbox[c] # <<>>
    BY DEF PeerInv, TypeOK, HandleReadyRead
  <2> QED BY <2>1, HeadTailProperties
<1>3. /\ inbox' = [inbox EXCEPT ![c] = Tail(inbox[c])]
      /\ UNCHANGED <<left, asked, backlog, buffers, active, accepted, discovering, exiting, stopped>>
  BY DEF HandleReadyRead, clients
<1>4. stage' = stage \/ stage' = [stage EXCEPT ![c] = "closing"]
  BY DEF HandleReadyRead, WriteResponse
<1>5. \/ deferred' = deferred
      \/ discovering /\ deferred' = [deferred EXCEPT ![c] = Append(deferred[c], r.id)]
  BY DEF HandleReadyRead, Defers
<1>6. outbox' = outbox \/ outbox' = [outbox EXCEPT ![c] = Append(outbox[c], [id |-> r.id, mode |-> Told(r)])]
  BY DEF HandleReadyRead, WriteResponse
<1>7. TypeOK'
  <2>1. r.id \in Id /\ mode \in Mode /\ (r.kind \in {"write", "setDryRun"} => r.mode \in Mode)
    BY <1>2 DEF Request, PeerInv, TypeOK
  <2>2. ModeAfter(r) \in Mode
    BY <2>1 DEF ModeAfter
  <2>3. [id |-> r.id, mode |-> Told(r)] \in Answer
    BY <2>1, <2>2 DEF Answer, Told
  <2>4. stage' \in [Conn -> Stage]
    BY <1>4 DEF PeerInv, TypeOK, Stage
  <2>5. outbox' \in [Conn -> Seq(Answer)]
    <3>1. outbox \in [Conn -> Seq(Answer)] /\ outbox[c] \in Seq(Answer)
      BY DEF PeerInv, TypeOK
    <3>2. Append(outbox[c], [id |-> r.id, mode |-> Told(r)]) \in Seq(Answer)
      BY <2>3, <3>1, AppendProperties
    <3> QED BY <1>6, <3>1, <3>2
  <2>6. deferred' \in [Conn -> Seq(Id)]
    <3>1. deferred \in [Conn -> Seq(Id)] /\ deferred[c] \in Seq(Id)
      BY DEF PeerInv, TypeOK
    <3>2. Append(deferred[c], r.id) \in Seq(Id)
      BY <2>1, <3>1, AppendProperties
    <3> QED BY <1>5, <3>1, <3>2
  <2>7. mode' \in Mode
    BY <2>1, <2>2 DEF HandleReadyRead
  <2>8. hardware' \in Write \cup {NoWrite}
    <3>1. Executes(r) => [by |-> c, meant |-> r.mode, mode |-> mode] \in Write
      BY <2>1 DEF Executes, Write
    <3>2. hardware' = hardware \/ (Executes(r) /\ hardware' = [by |-> c, meant |-> r.mode, mode |-> mode])
      BY DEF HandleReadyRead
    <3> QED BY <3>1, <3>2 DEF PeerInv, TypeOK
  <2>9. inbox' \in [Conn -> Seq(Request)]
    BY <1>2, <1>3 DEF PeerInv, TypeOK
  <2> QED BY <1>3, <2>4, <2>5, <2>6, <2>7, <2>8, <2>9 DEF PeerInv, TypeOK
<1>8. OnePeer' /\ TrackedIsOpen'
  BY <1>1, <1>3, <1>4 DEF PeerInv, TypeOK, OnePeer, TrackedIsOpen
<1>9. BacklogWaits'
  <2>1. \A i \in DOMAIN backlog : backlog[i] # c /\ backlog[i] \in Conn
    BY <1>1 DEF PeerInv, TypeOK, BacklogWaits
  <2> QED BY <1>3, <1>4, <2>1 DEF PeerInv, TypeOK, BacklogWaits
<1>10. Unaccepted' /\ Unused'
  BY <1>1, <1>3, <1>4, <1>5, <1>6 DEF PeerInv, TypeOK, Unaccepted, Unused
<1>11. ListsOwedToPeer'
  BY <1>1, <1>3, <1>5 DEF PeerInv, TypeOK, ListsOwedToPeer
<1> QED BY <1>7, <1>8, <1>9, <1>10, <1>11 DEF PeerInv

(* The answers to the deferred lists of a connection.                      *)
LEMMA ListsAnswer ==
  ASSUME PeerInv, NEW c \in Conn
  PROVE  /\ Lists(c) \in Seq(Answer) /\ Len(Lists(c)) = Len(deferred[c])
         /\ deferred[c] = <<>> => Lists(c) = <<>>
         /\ \A i \in DOMAIN deferred[c] : Lists(c)[i] = [id |-> deferred[c][i], mode |-> mode]
<1>1. deferred[c] \in Seq(Id) /\ mode \in Mode
  BY DEF PeerInv, TypeOK
<1>2. \A i \in 1 .. Len(deferred[c]) : [id |-> deferred[c][i], mode |-> mode] \in Answer
  BY <1>1 DEF Answer
<1>3. DOMAIN deferred[c] = 1 .. Len(deferred[c]) /\ Len(deferred[c]) \in Nat
  BY <1>1
<1>4. Lists(c) = [i \in 1 .. Len(deferred[c]) |-> [id |-> deferred[c][i], mode |-> mode]]
  BY <1>3 DEF Lists
<1>5. Lists(c) \in Seq(Answer) /\ Len(Lists(c)) = Len(deferred[c])
  BY <1>2, <1>3, <1>4
<1> QED BY <1>1, <1>3, <1>4, <1>5

LEMMA CompletesPeer ==
  ASSUME PeerInv, DiscoveryCompletes PROVE PeerInv'
<1>1. PICK failed \in SUBSET {c \in buffers : deferred[c] # <<>>
                                               /\ (c \in left \/ stage[c] = "closing")} :
        SendDeferredDeviceLists(failed)
  BY DEF DiscoveryCompletes
<1>2. /\ UNCHANGED <<left, asked, inbox, backlog, buffers, active, accepted, mode, hardware, exiting,
                      stopped>>
      /\ discovering' = FALSE
  BY DEF DiscoveryCompletes, clients
<1>3. /\ stage' = [c \in Conn |-> IF c \in failed THEN "closing" ELSE stage[c]]
      /\ deferred' = [c \in Conn |-> <<>>]
      /\ outbox' = [c \in Conn |-> IF c \in buffers \ failed THEN outbox[c] \o Lists(c) ELSE outbox[c]]
  BY <1>1 DEF SendDeferredDeviceLists
<1>4. TypeOK'
  <2>1. \A c \in Conn : outbox[c] \o Lists(c) \in Seq(Answer)
    <3>1. \A c \in Conn : outbox[c] \in Seq(Answer) /\ Lists(c) \in Seq(Answer)
      BY ListsAnswer DEF PeerInv, TypeOK
    <3> QED BY <3>1, ConcatProperties
  <2>2. outbox' \in [Conn -> Seq(Answer)]
    BY <1>3, <2>1 DEF PeerInv, TypeOK
  <2>3. stage' \in [Conn -> Stage] /\ deferred' \in [Conn -> Seq(Id)]
    BY <1>3 DEF PeerInv, TypeOK, Stage
  <2> QED BY <1>2, <2>2, <2>3 DEF PeerInv, TypeOK
<1>5. OnePeer' /\ TrackedIsOpen' /\ ListsOwedToPeer'
  BY <1>1, <1>2, <1>3 DEF PeerInv, OnePeer, TrackedIsOpen, ListsOwedToPeer
<1>6. BacklogWaits'
  <2>1. \A i \in DOMAIN backlog : backlog[i] \notin failed /\ backlog[i] \in Conn
    <3>1. \A i \in DOMAIN backlog : backlog[i] \in Conn /\ stage[backlog[i]] = "queued"
      BY DEF PeerInv, TypeOK, BacklogWaits
    <3>2. \A c \in Conn : stage[c] = "queued" => c \notin failed
      BY <1>1 DEF PeerInv, TrackedIsOpen
    <3> QED BY <3>1, <3>2
  <2> QED BY <1>2, <1>3, <2>1 DEF PeerInv, BacklogWaits
<1>7. Unaccepted' /\ Unused'
  <2>1. \A c \in Conn : stage'[c] \in {"new", "queued"} => c \notin buffers /\ stage[c] = stage'[c]
    BY <1>1, <1>3 DEF PeerInv, TrackedIsOpen
  <2> QED BY <1>2, <1>3, <2>1 DEF PeerInv, Unaccepted, Unused
<1> QED BY <1>4, <1>5, <1>6, <1>7 DEF PeerInv

LEMMA QuitsPeer ==
  ASSUME PeerInv, Quits PROVE PeerInv'
<1>1. \A c \in Conn : stage'[c] = IF stage[c] = "new" THEN "new" ELSE "closed"
  BY DEF Quits, Opened
<1>2. TypeOK'
  <2>1. stage' \in [Conn -> Stage]
    BY DEF Quits, Opened, Stage
  <2>2. deferred' \in [Conn -> Seq(Id)] /\ backlog' \in Seq(Conn)
    BY DEF Quits
  <2>3. inbox' \in [Conn -> Seq(Request)] /\ outbox' \in [Conn -> Seq(Answer)]
    BY DropKeeps DEF Quits
  <2> QED BY <2>1, <2>2, <2>3 DEF PeerInv, TypeOK, Quits, clients, manager
<1>3. OnePeer' /\ TrackedIsOpen' /\ ListsOwedToPeer' /\ BacklogWaits'
  BY <1>1 DEF Quits, OnePeer, TrackedIsOpen, ListsOwedToPeer, BacklogWaits
<1>4. Unaccepted' /\ Unused'
  BY <1>1, DropKeeps DEF PeerInv, Unaccepted, Unused, Quits, clients
<1> QED BY <1>2, <1>3, <1>4 DEF PeerInv

LEMMA NextPeer == PeerInv /\ [Next]_vars => PeerInv'
<1> SUFFICES ASSUME PeerInv, [Next]_vars PROVE PeerInv'
  OBVIOUS
<1>1. ASSUME NEW c \in Conn, Client(c) PROVE PeerInv'
  BY <1>1, ConnectsPeer, ClientPeer DEF Client
<1>2. ASSUME NEW c \in Conn, Disconnected(c) PROVE PeerInv'
  BY <1>2, DisconnectedPeer
<1>3. ASSUME NEW c \in Conn, HandleReadyRead(c) PROVE PeerInv'
  BY <1>3, ReadPeer
<1>4. CASE UNCHANGED vars
  BY <1>4 DEF vars, clients, manager, PeerInv, TypeOK, OnePeer, TrackedIsOpen, BacklogWaits,
              Unaccepted, Unused, ListsOwedToPeer
<1> QED BY <1>1, <1>2, <1>3, <1>4, HandOverPeer, CompletesPeer, QuitsPeer DEF Next

LEMMA PeerInductive == Spec => []PeerInv
BY InitPeer, NextPeer, PTL DEF Spec

(* Type correctness of the server. *)
THEOREM TypeCorrect == Spec => []TypeOK
BY PeerInductive, PTL DEF PeerInv

(* One GUI at a time, for any number of connections that replace one       *)
(* another, disconnect and fail.                                           *)
THEOREM OneGuiAtATime == Spec => []OnePeer
BY PeerInductive, PTL DEF PeerInv

(* No device list is kept for a connection that is gone. *)
THEOREM NoListOwedToTheGone == Spec => []ListsOwedToPeer
BY PeerInductive, PTL DEF PeerInv

-----------------------------------------------------------------------------
(* Action properties. *)

(* Every write is the connected client's and in the mode it meant. *)
THEOREM WritesAreMeant == Spec => WritesAsMeant
<1> DEFINE Meant == hardware' # hardware =>
                      hardware'.by = active /\ hardware'.meant = hardware'.mode /\ ~discovering
<1>1. PeerInv /\ [Next]_vars => [Meant]_vars
  <2> SUFFICES ASSUME PeerInv, Next, hardware' # hardware
               PROVE  hardware'.by = active /\ hardware'.meant = hardware'.mode /\ ~discovering
    OBVIOUS
  <2>1. PICK c \in Conn : HandleReadyRead(c)
    BY DEF Next, Client, Connects, Leaves, Asks, Disconnected, HandleNewConnection,
           DiscoveryCompletes, Quits, manager
  <2>2. c = active
    BY <2>1 DEF HandleReadyRead, PeerInv, OnePeer
  <2>3. PICK r : Executes(r) /\ hardware' = [by |-> c, meant |-> r.mode, mode |-> mode]
    BY <2>1 DEF HandleReadyRead
  <2> QED BY <2>2, <2>3 DEF Executes, Unready
<1> QED BY <1>1, PeerInductive, PTL DEF Spec, WritesAsMeant

(* The daemon decides to exit only when its last client has gone. *)
THEOREM ExitsOnlyWhenDeserted == Spec => ExitsWhenDeserted
<1> DEFINE Deserted == ~exiting /\ exiting' => accepted' /\ active' = NoConn
<1>1. PeerInv /\ [Next]_vars => [Deserted]_vars
  <2> SUFFICES ASSUME PeerInv, Next, ~exiting, exiting'
               PROVE  accepted' /\ active' = NoConn
    OBVIOUS
  <2>1. CASE HandleNewConnection
    <3>1. {Newest} \ ((buffers \cup Waiting) \ {Newest}) # {}
      OBVIOUS
    <3> QED BY <2>1, <3>1 DEF HandleNewConnection, HandOver, HandleDisconnected, PeerInv, TypeOK
  <2>2. ASSUME NEW c \in Conn, Disconnected(c) PROVE accepted' /\ active' = NoConn
    <3>1. c = active
      BY <2>2 DEF Disconnected, PeerInv, TrackedIsOpen, OnePeer
    <3>2. accepted'
      BY <2>2 DEF Disconnected, HandleDisconnected, PeerInv, TypeOK
    <3> QED BY <2>2, <3>1, <3>2 DEF Disconnected
  <2> QED
    BY <2>1, <2>2 DEF Next, Client, Connects, Leaves, Asks, HandleReadyRead, DiscoveryCompletes, Quits
<1> QED BY <1>1, PeerInductive, PTL DEF Spec, ExitsWhenDeserted

-----------------------------------------------------------------------------
(* What the connected GUI knows. *)

LEMMA ReadTold ==
  ASSUME PeerInv, ToldModeIsCurrent, NEW c \in Conn, HandleReadyRead(c)
  PROVE  ToldModeIsCurrent'
<1> DEFINE r == Head(inbox[c])
           answer == [id |-> r.id, mode |-> Told(r)]
<1>1. c = active /\ active' = active /\ left' = left /\ active # NoConn
  BY ServerAssumption DEF HandleReadyRead, PeerInv, OnePeer, clients
<1>2. CASE outbox' = outbox /\ mode' = mode
  BY <1>1, <1>2 DEF ToldModeIsCurrent
<1>3. CASE c \in left
  BY <1>1, <1>3 DEF ToldModeIsCurrent
<1>4. CASE /\ outbox' = [outbox EXCEPT ![c] = Append(outbox[c], answer)]
           /\ mode' = ModeAfter(r) /\ c \notin left
  <2> DEFINE s == outbox[c]
  <2>0. /\ r.id \in Id /\ mode \in Mode /\ "unsaid" \notin Mode
        /\ ModeAfter(r) \in Mode
        /\ r.kind # "setDryRun" => ModeAfter(r) = mode
    <3>1. inbox[c] \in Seq(Request) /\ inbox[c] # <<>> /\ mode \in Mode
      BY DEF HandleReadyRead, PeerInv, TypeOK
    <3>2. r \in Request
      BY <3>1, HeadTailProperties
    <3>3. r.id \in Id /\ (r.kind = "setDryRun" => r.mode \in Mode)
      BY <3>2 DEF Request
    <3> QED BY <3>1, <3>3 DEF ModeAfter, Mode
  <2>1. s \in Seq(Answer) /\ outbox'[c] = Append(s, answer)
    BY <1>4 DEF PeerInv, TypeOK
  <2>2. /\ DOMAIN outbox'[c] = 1 .. Len(s) + 1 /\ Len(s) \in Nat
        /\ outbox'[c][Len(s) + 1] = answer
        /\ \A i \in 1 .. Len(s) : outbox'[c][i] = s[i]
        /\ DOMAIN s = 1 .. Len(s)
    <3>1. answer \in Answer
      BY <2>0 DEF Answer, Told
    <3> HIDE DEF answer, s
    <3> QED BY <2>1, <3>1, AppendProperties
  <2>3. Told(r) = "unsaid" => mode' = mode
    BY <1>4, <2>0 DEF Told, Unready
  <2>4. Told(r) # "unsaid" => Told(r) = mode'
    BY <1>4 DEF Told
  <2>5. ASSUME NEW i \in 1 .. Len(s) + 1, outbox'[c][i].mode # "unsaid",
               \A j \in 1 .. Len(s) + 1 : j > i => outbox'[c][j].mode = "unsaid"
        PROVE  outbox'[c][i].mode = mode'
    <3>1. CASE i = Len(s) + 1
      BY <2>2, <2>4, <2>5, <3>1
    <3>2. CASE i # Len(s) + 1
      <4>1. i \in 1 .. Len(s) /\ Len(s) + 1 > i /\ Len(s) + 1 \in 1 .. Len(s) + 1
        BY <2>2, <3>2
      <4>2. outbox'[c][Len(s) + 1].mode = "unsaid"
        BY <2>5, <4>1
      <4>3. mode' = mode
        BY <2>2, <2>3, <4>2
      <4>4. \A j \in 1 .. Len(s) : j > i => s[j].mode = "unsaid"
        <5>1. \A j \in 1 .. Len(s) : j \in 1 .. Len(s) + 1
          BY <2>2
        <5> QED BY <2>2, <2>5, <5>1
      <4>5. s[i].mode = mode
        BY <1>1, <1>4, <2>2, <2>5, <4>1, <4>4 DEF ToldModeIsCurrent
      <4> QED BY <2>2, <4>1, <4>3, <4>5
    <3> QED BY <3>1, <3>2
  <2> QED BY <1>1, <2>2, <2>5 DEF ToldModeIsCurrent
<1> QED BY <1>2, <1>3, <1>4 DEF HandleReadyRead, WriteResponse

LEMMA CompletesTold ==
  ASSUME PeerInv, ToldModeIsCurrent, DiscoveryCompletes PROVE ToldModeIsCurrent'
<1>1. active' = active /\ left' = left /\ mode' = mode
  BY DEF DiscoveryCompletes, clients
<1> SUFFICES ASSUME active # NoConn, active \notin left PROVE ToldModeIsCurrent'
  BY <1>1 DEF ToldModeIsCurrent
<1> DEFINE s == outbox[active]
           t == Lists(active)
<1>2. active \in Conn /\ s \in Seq(Answer)
  BY DEF PeerInv, TypeOK
<1>3. outbox'[active] = s \/ outbox'[active] = s \o t
  BY <1>2 DEF DiscoveryCompletes, SendDeferredDeviceLists
<1>4. CASE outbox'[active] = s
  BY <1>1, <1>4 DEF ToldModeIsCurrent
<1>5. CASE outbox'[active] = s \o t
  <2>1. t \in Seq(Answer) /\ mode # "unsaid" /\ \A i \in 1 .. Len(t) : t[i].mode = mode
    <3>1. deferred[active] \in Seq(Id)
      BY <1>2 DEF PeerInv, TypeOK
    <3>2. t \in Seq(Answer) /\ \A i \in DOMAIN deferred[active] : t[i].mode = mode
      <4>1. \A i \in DOMAIN deferred[active] : t[i] = [id |-> deferred[active][i], mode |-> mode]
        BY <1>2, ListsAnswer
      <4>2. t \in Seq(Answer)
        BY <1>2, ListsAnswer
      <4>3. ASSUME NEW i \in DOMAIN deferred[active] PROVE t[i].mode = mode
        <5>1. t[i] = [id |-> deferred[active][i], mode |-> mode]
          BY <4>1
        <5> HIDE DEF t
        <5> QED BY <5>1
      <4> QED BY <4>2, <4>3
    <3>3. DOMAIN deferred[active] = 1 .. Len(t)
      BY <1>2, <3>1, ListsAnswer
    <3> QED BY <3>2, <3>3 DEF PeerInv, TypeOK, Mode
  <2>2. /\ Len(s) \in Nat /\ Len(t) \in Nat /\ DOMAIN s = 1 .. Len(s)
        /\ DOMAIN (s \o t) = 1 .. Len(s) + Len(t)
        /\ \A i \in 1 .. Len(s) + Len(t) :
             (s \o t)[i] = IF i <= Len(s) THEN s[i] ELSE t[i - Len(s)]
    <3> HIDE DEF s, t
    <3> QED BY <1>2, <2>1, ConcatProperties
  <2>3. ASSUME NEW i \in 1 .. Len(s) + Len(t), (s \o t)[i].mode # "unsaid",
               \A j \in 1 .. Len(s) + Len(t) : j > i => (s \o t)[j].mode = "unsaid"
        PROVE  (s \o t)[i].mode = mode
    <3>1. CASE i > Len(s)
      <4>1. i - Len(s) \in 1 .. Len(t)
        BY <2>2, <3>1
      <4> QED BY <2>1, <2>2, <3>1, <4>1
    <3>2. CASE i <= Len(s)
      <4>1. Len(t) = 0
        <5> SUFFICES ASSUME Len(t) # 0 PROVE FALSE
          OBVIOUS
        <5> DEFINE last == Len(s) + Len(t)
        <5>1. last \in 1 .. Len(s) + Len(t) /\ last > i /\ ~(last <= Len(s))
              /\ last - Len(s) = Len(t) /\ Len(t) \in 1 .. Len(t)
          BY <2>2, <3>2
        <5>2. (s \o t)[last] = t[Len(t)]
          BY <2>2, <5>1
        <5> QED BY <2>1, <2>3, <5>1, <5>2
      <4>2. \A j \in 1 .. Len(s) : (s \o t)[j] = s[j]
        BY <2>2, <4>1
      <4>3. i \in DOMAIN s /\ \A j \in DOMAIN s : j > i => s[j].mode = "unsaid"
        BY <2>2, <2>3, <3>2, <4>1, <4>2
      <4>4. s[i].mode # "unsaid"
        BY <2>2, <2>3, <4>2, <4>3
      <4>5. s[i].mode = mode
        BY <4>3, <4>4 DEF ToldModeIsCurrent
      <4> QED BY <2>2, <4>2, <4>3, <4>5
    <3> QED BY <2>2, <3>1, <3>2
  <2> QED BY <1>1, <1>5, <2>2, <2>3 DEF ToldModeIsCurrent
<1> QED BY <1>3, <1>4, <1>5

(* What the connected GUI was told last about the dry-run mode is true. *)
THEOREM GuiKnowsTheMode == Spec => []ToldModeIsCurrent
<1>1. Init => ToldModeIsCurrent
  BY DEF Init, ToldModeIsCurrent
<1>2. PeerInv /\ ToldModeIsCurrent /\ [Next]_vars => ToldModeIsCurrent'
  <2> SUFFICES ASSUME PeerInv, ToldModeIsCurrent, [Next]_vars PROVE ToldModeIsCurrent'
    OBVIOUS
  <2>1. ASSUME NEW c \in Conn, Client(c) PROVE ToldModeIsCurrent'
    BY <2>1 DEF Client, Connects, Leaves, Asks, clients, manager, ToldModeIsCurrent
  <2>2. ASSUME NEW c \in Conn, Disconnected(c) PROVE ToldModeIsCurrent'
    <3>1. active' = NoConn
      BY <2>2 DEF Disconnected, PeerInv, TrackedIsOpen, OnePeer
    <3> QED BY <3>1 DEF ToldModeIsCurrent
  <2>3. CASE HandleNewConnection
    <3>1. active' = Newest /\ stage' = Opened({Newest}) /\ DropClosed
      BY <2>3 DEF HandleNewConnection, HandOver
    <3>2. Newest \in Conn /\ outbox[Newest] = <<>>
      BY <2>3, NewestWaits DEF HandleNewConnection, PeerInv, Unaccepted
    <3>3. outbox'[Newest] = <<>>
      BY <3>1, <3>2 DEF DropClosed
    <3> QED BY <3>1, <3>3 DEF ToldModeIsCurrent
  <2>4. CASE Quits
    BY <2>4 DEF Quits, ToldModeIsCurrent
  <2>5. CASE UNCHANGED vars
    BY <2>5 DEF vars, clients, manager, ToldModeIsCurrent
  <2> QED BY <2>1, <2>2, <2>3, <2>4, <2>5, ReadTold, CompletesTold DEF Next
<1> QED BY <1>1, <1>2, PeerInductive, PTL DEF Spec

-----------------------------------------------------------------------------
(* No request is lost or answered twice.                                   *)

LEMMA AppendIds ==
  ASSUME NEW S, NEW s \in Seq(S), NEW e \in S
  PROVE  /\ Ids(Append(s, e)) = Ids(s) \cup {e.id}
         /\ Entries(Append(s, e)) = Entries(s) \cup {e}
         /\ Len(Append(s, e)) = Len(s) + 1
<1> DEFINE t == Append(s, e)
<1>1. /\ DOMAIN t = 1 .. Len(s) + 1 /\ DOMAIN s = 1 .. Len(s) /\ Len(s) \in Nat
      /\ t[Len(s) + 1] = e /\ \A i \in 1 .. Len(s) : t[i] = s[i] /\ Len(t) = Len(s) + 1
  BY AppendProperties
<1>2. Len(t) = Len(s) + 1
  BY AppendProperties
<1>3. DOMAIN t = DOMAIN s \cup {Len(s) + 1}
  BY <1>1
<1> HIDE DEF t
<1>4. \A i \in DOMAIN s : t[i] = s[i]
  BY <1>1
<1>5. {t[i] : i \in DOMAIN t} = {s[i] : i \in DOMAIN s} \cup {e}
  BY <1>1, <1>3, <1>4
<1>6. {t[i].id : i \in DOMAIN t} = {s[i].id : i \in DOMAIN s} \cup {e.id}
  BY <1>1, <1>3, <1>4
<1>7. Ids(t) = Ids(s) \cup {e.id} /\ Entries(t) = Entries(s) \cup {e}
  BY <1>5, <1>6 DEF Ids, Entries
<1> QED BY <1>2, <1>7 DEF t

LEMMA TailIds ==
  ASSUME NEW S, NEW s \in Seq(S), s # <<>>
  PROVE  Ids(s) = Ids(Tail(s)) \cup {Head(s).id} /\ Len(s) = Len(Tail(s)) + 1
<1>1. /\ Len(s) \in Nat \ {0} /\ DOMAIN s = 1 .. Len(s) /\ Head(s) = s[1]
      /\ Len(Tail(s)) = Len(s) - 1 /\ DOMAIN Tail(s) = 1 .. Len(s) - 1
      /\ \A i \in 1 .. Len(s) - 1 : Tail(s)[i] = s[i + 1]
  BY HeadTailProperties, EmptySeq
<1>2. \A i \in DOMAIN s : i = 1 \/ (i - 1 \in DOMAIN Tail(s) /\ Tail(s)[i - 1] = s[i])
  BY <1>1
<1>3. \A i \in DOMAIN Tail(s) : i + 1 \in DOMAIN s /\ s[i + 1] = Tail(s)[i]
  BY <1>1
<1>4. 1 \in DOMAIN s
  BY <1>1
<1>5. Head(s) = s[1] /\ Len(s) = Len(Tail(s)) + 1
  BY <1>1
<1> DEFINE t == Tail(s)
           h == Head(s)
<1> HIDE DEF t, h
<1>6. {s[i].id : i \in DOMAIN s} = {t[i].id : i \in DOMAIN t} \cup {h.id}
  <2>1. \A i \in DOMAIN s : s[i] = h \/ \E j \in DOMAIN t : s[i] = t[j]
    BY <1>2, <1>5 DEF t, h
  <2>2. \A j \in DOMAIN t : \E i \in DOMAIN s : s[i] = t[j]
    BY <1>3 DEF t
  <2>3. \E i \in DOMAIN s : s[i] = h
    BY <1>4, <1>5 DEF h
  <2>4. ASSUME NEW y PROVE y \in {s[i].id : i \in DOMAIN s}
                            <=> y \in {t[i].id : i \in DOMAIN t} \cup {h.id}
    <3>1. ASSUME NEW i \in DOMAIN s, y = s[i].id
          PROVE  y \in {t[j].id : j \in DOMAIN t} \cup {h.id}
      BY <2>1, <3>1, Zenon
    <3>2. ASSUME NEW j \in DOMAIN t, y = t[j].id PROVE \E i \in DOMAIN s : y = s[i].id
      BY <2>2, <3>2, Zenon
    <3>3. ASSUME y = h.id PROVE \E i \in DOMAIN s : y = s[i].id
      BY <2>3, <3>3, Zenon
    <3> QED BY <3>1, <3>2, <3>3, Zenon
  <2> QED BY <2>4, Zenon
<1>7. Ids(s) = Ids(t) \cup {h.id}
  BY <1>6 DEF Ids
<1> QED BY <1>5, <1>7 DEF t, h

LEMMA ConcatIds ==
  ASSUME NEW S, NEW s \in Seq(S), NEW t \in Seq(S)
  PROVE  Ids(s \o t) = Ids(s) \cup Ids(t) /\ Len(s \o t) = Len(s) + Len(t)
<1> DEFINE u == s \o t
<1>1. /\ Len(s) \in Nat /\ Len(t) \in Nat /\ DOMAIN s = 1 .. Len(s) /\ DOMAIN t = 1 .. Len(t)
      /\ Len(u) = Len(s) + Len(t) /\ DOMAIN u = 1 .. Len(s) + Len(t)
      /\ \A i \in 1 .. Len(s) + Len(t) : u[i] = IF i <= Len(s) THEN s[i] ELSE t[i - Len(s)]
  BY ConcatProperties
<1> HIDE DEF u
<1>2. ASSUME NEW i \in DOMAIN u
      PROVE  \/ i \in DOMAIN s /\ u[i] = s[i]
             \/ i - Len(s) \in DOMAIN t /\ u[i] = t[i - Len(s)]
  <2>1. CASE i <= Len(s)
    BY <1>1, <2>1
  <2>2. CASE i > Len(s)
    BY <1>1, <2>2
  <2> QED BY <1>1, <2>1, <2>2
<1>3. \A i \in DOMAIN s : i \in DOMAIN u /\ u[i] = s[i]
  BY <1>1
<1>4. \A i \in DOMAIN t : i + Len(s) \in DOMAIN u /\ u[i + Len(s)] = t[i]
  BY <1>1
<1>5. {u[i].id : i \in DOMAIN u} = {s[i].id : i \in DOMAIN s} \cup {t[i].id : i \in DOMAIN t}
  BY <1>2, <1>3, <1>4
<1> QED BY <1>1, <1>5 DEF Ids, u

(* The condition for one connection, to move a request from one place to   *)
(* another by.                                                             *)
Once(c) ==
  /\ Ids(inbox[c]) \cup Entries(deferred[c]) \cup Ids(outbox[c]) = 1 .. asked[c]
  /\ Len(inbox[c]) + Len(deferred[c]) + Len(outbox[c]) = asked[c]

LEMMA EmptyIds == Ids(<<>>) = {}
BY DEF Ids

LEMMA SameOnce ==
  ASSUME NEW c, Once(c), inbox'[c] = inbox[c], deferred'[c] = deferred[c],
         outbox'[c] = outbox[c], asked'[c] = asked[c]
  PROVE  Once(c)'
BY DEF Once, Ids, Entries

LEMMA AsksOnce ==
  ASSUME PeerInv, NEW c \in Conn, NEW r \in Request, Asks(c, r), Once(c)
  PROVE  Once(c)'
<1>1. /\ inbox[c] \in Seq(Request) /\ asked[c] \in Nat /\ r.id = asked[c] + 1
      /\ inbox'[c] = Append(inbox[c], r) /\ asked'[c] = asked[c] + 1
      /\ outbox' = outbox /\ deferred' = deferred
  BY ServerAssumption DEF PeerInv, TypeOK, Asks
<1>2. Ids(inbox'[c]) = Ids(inbox[c]) \cup {asked[c] + 1} /\ Len(inbox'[c]) = Len(inbox[c]) + 1
  BY <1>1, AppendIds
<1>3. 1 .. asked'[c] = 1 .. asked[c] \cup {asked[c] + 1}
  BY <1>1
<1>4. Len(inbox[c]) \in Nat /\ Len(deferred[c]) \in Nat /\ Len(outbox[c]) \in Nat
  BY DEF PeerInv, TypeOK
<1>5. Entries(deferred'[c]) = Entries(deferred[c]) /\ Ids(outbox'[c]) = Ids(outbox[c])
  BY <1>1 DEF Entries
<1>6. Ids(inbox'[c]) \cup Entries(deferred'[c]) \cup Ids(outbox'[c]) = 1 .. asked'[c]
  BY <1>2, <1>3, <1>5 DEF Once
<1>7. Len(inbox'[c]) + Len(deferred'[c]) + Len(outbox'[c]) = asked'[c]
  <2>1. Len(inbox[c]) + Len(deferred[c]) + Len(outbox[c]) = asked[c]
    BY DEF Once
  <2>2. Len(deferred'[c]) = Len(deferred[c]) /\ Len(outbox'[c]) = Len(outbox[c])
    BY <1>1
  <2>3. Len(inbox'[c]) = Len(inbox[c]) + 1 /\ asked'[c] = asked[c] + 1
    BY <1>1, <1>2
  <2> DEFINE i == Len(inbox[c])
             d == Len(deferred[c])
             o == Len(outbox[c])
  <2>4. i \in Nat /\ d \in Nat /\ o \in Nat /\ i + d + o = asked[c]
    BY <1>4, <2>1
  <2>5. Len(inbox'[c]) = i + 1 /\ Len(deferred'[c]) = d /\ Len(outbox'[c]) = o
    BY <2>2, <2>3
  <2> HIDE DEF i, d, o
  <2> QED BY <2>3, <2>4, <2>5
<1> QED BY <1>6, <1>7 DEF Once, Ids

LEMMA ReadOnce ==
  ASSUME PeerInv, NEW c \in Conn, HandleReadyRead(c), Once(c), c \notin left, stage'[c] = "open"
  PROVE  Once(c)'
<1> DEFINE r == Head(inbox[c])
           answer == [id |-> r.id, mode |-> Told(r)]
<1>1. /\ inbox[c] \in Seq(Request) /\ inbox[c] # <<>> /\ inbox'[c] = Tail(inbox[c])
      /\ deferred[c] \in Seq(Id) /\ outbox[c] \in Seq(Answer) /\ asked' = asked
  BY DEF PeerInv, TypeOK, HandleReadyRead, clients
<1>2. Ids(inbox[c]) = Ids(inbox'[c]) \cup {r.id} /\ Len(inbox[c]) = Len(inbox'[c]) + 1
  BY <1>1, TailIds
<1>3. r \in Request /\ inbox'[c] \in Seq(Request)
  BY <1>1, HeadTailProperties
<1>4. r.id \in Id
  BY <1>3 DEF Request
<1>5. /\ Len(inbox'[c]) \in Nat /\ Len(deferred[c]) \in Nat /\ Len(outbox[c]) \in Nat
      /\ asked[c] \in Nat /\ asked'[c] = asked[c]
      /\ Len(inbox[c]) + Len(deferred[c]) + Len(outbox[c]) = asked[c]
  <2>1. Len(inbox[c]) + Len(deferred[c]) + Len(outbox[c]) = asked[c]
    BY DEF Once
  <2> QED BY <1>1, <1>3, <2>1, ServerAssumption DEF PeerInv, TypeOK
<1>6. CASE deferred' = [deferred EXCEPT ![c] = Append(deferred[c], r.id)] /\ outbox' = outbox
  <2>1. deferred'[c] = Append(deferred[c], r.id) /\ outbox'[c] = outbox[c]
    BY <1>6 DEF PeerInv, TypeOK
  <2>2. Entries(deferred'[c]) = Entries(deferred[c]) \cup {r.id} /\ Len(deferred'[c]) = Len(deferred[c]) + 1
    <3>1. /\ Entries(Append(deferred[c], r.id)) = Entries(deferred[c]) \cup {r.id}
          /\ Len(Append(deferred[c], r.id)) = Len(deferred[c]) + 1
      BY <1>1, <1>4, AppendIds
    <3> QED BY <2>1, <3>1
  <2>3. Ids(inbox'[c]) \cup Entries(deferred'[c]) \cup Ids(outbox'[c]) = 1 .. asked'[c]
    BY <1>1, <1>2, <2>1, <2>2 DEF Once
  <2>4. Len(inbox'[c]) + Len(deferred'[c]) + Len(outbox'[c]) = asked'[c]
    <3>1. Len(outbox'[c]) = Len(outbox[c])
      BY <2>1
    <3>2. Len(inbox[c]) = Len(inbox'[c]) + 1
      BY <1>2
    <3>3. Len(deferred'[c]) = Len(deferred[c]) + 1
      BY <2>2
    <3> DEFINE i == Len(inbox'[c])
               d == Len(deferred[c])
               o == Len(outbox[c])
    <3>4. i \in Nat /\ d \in Nat /\ o \in Nat /\ (i + 1) + d + o = asked'[c]
      BY <1>5, <3>2
    <3>5. Len(deferred'[c]) = d + 1 /\ Len(outbox'[c]) = o
      BY <3>1, <3>3
    <3> HIDE DEF i, d, o
    <3>6. i + Len(deferred'[c]) + Len(outbox'[c]) = asked'[c]
      BY <3>4, <3>5
    <3> QED BY <3>6 DEF i
  <2> QED BY <2>3, <2>4 DEF Once, Ids
<1>7. CASE deferred' = deferred /\ outbox' = [outbox EXCEPT ![c] = Append(outbox[c], answer)]
  <2>1. deferred'[c] = deferred[c] /\ outbox'[c] = Append(outbox[c], answer)
    BY <1>7 DEF PeerInv, TypeOK
  <2>2. Ids(outbox'[c]) = Ids(outbox[c]) \cup {r.id} /\ Len(outbox'[c]) = Len(outbox[c]) + 1
    <3>1. \A a \in {answer} : a.id = r.id
      OBVIOUS
    <3>2. outbox[c] \in Seq(Answer \cup {answer})
      BY <1>1
    <3> HIDE DEF answer
    <3> QED BY <2>1, <3>1, <3>2, AppendIds
  <2>3. Entries(deferred'[c]) = Entries(deferred[c])
    BY <2>1
  <2>4. Ids(inbox'[c]) \cup Entries(deferred'[c]) \cup Ids(outbox'[c]) = 1 .. asked'[c]
    BY <1>1, <1>2, <2>2, <2>3 DEF Once
  <2>5. Len(inbox'[c]) + Len(deferred'[c]) + Len(outbox'[c]) = asked'[c]
    <3>1. Len(deferred'[c]) = Len(deferred[c])
      BY <2>1
    <3>2. Len(inbox[c]) = Len(inbox'[c]) + 1
      BY <1>2
    <3>3. Len(outbox'[c]) = Len(outbox[c]) + 1
      BY <2>2
    <3> DEFINE i == Len(inbox'[c])
               d == Len(deferred[c])
               o == Len(outbox[c])
    <3>4. i \in Nat /\ d \in Nat /\ o \in Nat /\ (i + 1) + d + o = asked'[c]
      BY <1>5, <3>2
    <3>5. Len(deferred'[c]) = d /\ Len(outbox'[c]) = o + 1
      BY <3>1, <3>3
    <3> HIDE DEF i, d, o
    <3>6. i + Len(deferred'[c]) + Len(outbox'[c]) = asked'[c]
      BY <3>4, <3>5
    <3> QED BY <3>6 DEF i
  <2> QED BY <2>4, <2>5 DEF Once, Ids
<1>8. \/ deferred' = [deferred EXCEPT ![c] = Append(deferred[c], r.id)] /\ outbox' = outbox
      \/ deferred' = deferred /\ outbox' = [outbox EXCEPT ![c] = Append(outbox[c], answer)]
  <2>1. r.kind # "oversized"
    <3>1. stage \in [Conn -> Stage]
      BY DEF PeerInv, TypeOK
    <3>2. r.kind = "oversized" => stage'[c] = "closing"
      BY <3>1 DEF HandleReadyRead, Defers
    <3> QED BY <3>2
  <2> QED BY <2>1 DEF HandleReadyRead, WriteResponse
<1> QED BY <1>6, <1>7, <1>8

LEMMA CompletesOnce ==
  ASSUME PeerInv, NEW c \in Conn, DiscoveryCompletes, Once(c), c \notin left,
         stage'[c] \in {"queued", "open"}
  PROVE  Once(c)'
<1>1. PICK failed \in SUBSET {d \in buffers : deferred[d] # <<>>
                                               /\ (d \in left \/ stage[d] = "closing")} :
        SendDeferredDeviceLists(failed)
  BY DEF DiscoveryCompletes
<1>2. c \notin failed /\ deferred'[c] = <<>> /\ inbox' = inbox /\ asked' = asked
  BY <1>1 DEF SendDeferredDeviceLists, DiscoveryCompletes, clients
<1>3. CASE c \notin buffers
  <2>1. deferred[c] = <<>>
    BY <1>3 DEF PeerInv, ListsOwedToPeer
  <2>2. outbox'[c] = outbox[c]
    BY <1>1, <1>3 DEF SendDeferredDeviceLists
  <2> QED BY <1>2, <2>1, <2>2, SameOnce
<1>4. CASE c \in buffers
  <2>1. outbox'[c] = outbox[c] \o Lists(c)
    BY <1>1, <1>2, <1>4 DEF SendDeferredDeviceLists
  <2>2. /\ outbox[c] \in Seq(Answer) /\ inbox[c] \in Seq(Request)
        /\ deferred[c] \in Seq(Id) /\ asked[c] \in Nat
    BY ServerAssumption DEF PeerInv, TypeOK
  <2>3. /\ Ids(outbox'[c]) = Ids(outbox[c]) \cup Ids(Lists(c))
        /\ Len(outbox'[c]) = Len(outbox[c]) + Len(deferred[c])
    <3>1. Lists(c) \in Seq(Answer) /\ Len(Lists(c)) = Len(deferred[c])
      BY ListsAnswer
    <3>2. /\ Ids(outbox[c] \o Lists(c)) = Ids(outbox[c]) \cup Ids(Lists(c))
          /\ Len(outbox[c] \o Lists(c)) = Len(outbox[c]) + Len(Lists(c))
      BY <2>2, <3>1, ConcatIds
    <3> QED BY <2>1, <3>1, <3>2
  <2>4. Ids(Lists(c)) = Entries(deferred[c])
    <3>1. DOMAIN Lists(c) = DOMAIN deferred[c]
      BY DEF Lists
    <3>2. \A i \in DOMAIN deferred[c] : Lists(c)[i].id = deferred[c][i]
      BY DEF Lists
    <3> QED BY <3>1, <3>2 DEF Ids, Entries
  <2>5. Entries(deferred'[c]) = {} /\ Len(deferred'[c]) = 0
    BY <1>2 DEF Entries
  <2>6. Ids(inbox'[c]) \cup Entries(deferred'[c]) \cup Ids(outbox'[c]) = 1 .. asked'[c]
    BY <1>2, <2>3, <2>4, <2>5 DEF Once
  <2>7. Len(inbox'[c]) + Len(deferred'[c]) + Len(outbox'[c]) = asked'[c]
    <3>1. Len(inbox[c]) \in Nat /\ Len(outbox[c]) \in Nat /\ Len(deferred[c]) \in Nat
      BY <2>2
    <3>2. Len(inbox[c]) + Len(deferred[c]) + Len(outbox[c]) = asked[c]
      BY DEF Once
    <3>3. Len(inbox'[c]) = Len(inbox[c]) /\ asked'[c] = asked[c]
      BY <1>2
    <3>4. Len(outbox'[c]) = Len(outbox[c]) + Len(deferred[c])
      BY <2>3
    <3>5. Len(deferred'[c]) = 0
      BY <2>5
    <3> DEFINE i == Len(inbox[c])
               d == Len(deferred[c])
               o == Len(outbox[c])
    <3>6. i \in Nat /\ d \in Nat /\ o \in Nat /\ i + d + o = asked[c]
      BY <3>1, <3>2
    <3>7. Len(inbox'[c]) = i /\ Len(deferred'[c]) = 0 /\ Len(outbox'[c]) = o + d
      BY <3>3, <3>4, <3>5
    <3> HIDE DEF i, d, o
    <3> QED BY <3>3, <3>6, <3>7
  <2> QED BY <2>6, <2>7 DEF Once, Ids
<1> QED BY <1>3, <1>4

LEMMA NextOnce == PeerInv /\ EachAnsweredOnce /\ [Next]_vars => EachAnsweredOnce'
<1> SUFFICES ASSUME PeerInv, EachAnsweredOnce, [Next]_vars,
                    NEW d \in Conn, d \notin left', stage'[d] \in {"queued", "open"}
             PROVE  Once(d)'
  BY DEF EachAnsweredOnce, Once, Entries
<1>1. d \notin left /\ (stage[d] \in {"queued", "open"} => Once(d))
  <2>1. left \subseteq left'
    BY DEF Next, Client, Connects, Leaves, Asks, Disconnected, HandleReadyRead,
           HandleNewConnection, DiscoveryCompletes, Quits, vars, clients
  <2> QED BY <2>1 DEF EachAnsweredOnce, Once
<1>2. ASSUME NEW c \in Conn, Connects(c) PROVE Once(d)'
  <2>1. inbox' = inbox /\ deferred' = deferred /\ outbox' = outbox /\ asked' = asked
    BY <1>2 DEF Connects, clients
  <2>2. CASE d = c
    <3>1. inbox[d] = <<>> /\ deferred[d] = <<>> /\ outbox[d] = <<>> /\ asked[d] = 0
      BY <1>2, <2>2 DEF Connects, PeerInv, Unaccepted, Unused
    <3>2. Once(d)
      BY <3>1, EmptyIds DEF Once, Entries
    <3> QED BY <2>1, <3>2, SameOnce
  <2>3. CASE d # c
    <3>1. stage'[d] = stage[d]
      BY <1>2, <2>3 DEF Connects, PeerInv, TypeOK
    <3> QED BY <1>1, <2>1, <3>1, SameOnce
  <2> QED BY <2>2, <2>3
<1>3. ASSUME NEW c \in Conn, Leaves(c) PROVE Once(d)'
  BY <1>1, <1>3, SameOnce DEF Leaves
<1>4. ASSUME NEW c \in Conn, NEW r \in Request, Asks(c, r) PROVE Once(d)'
  <2>1. stage' = stage
    BY <1>4 DEF Asks
  <2>2. CASE d = c
    BY <1>1, <1>4, <2>1, <2>2, AsksOnce
  <2>3. CASE d # c
    <3>1. /\ inbox'[d] = inbox[d] /\ asked'[d] = asked[d]
          /\ deferred' = deferred /\ outbox' = outbox
      BY <1>4, <2>3 DEF Asks, PeerInv, TypeOK
    <3> QED BY <1>1, <2>1, <3>1, SameOnce
  <2> QED BY <2>2, <2>3
<1>5. ASSUME NEW c \in Conn, Disconnected(c) PROVE Once(d)'
  <2>1. d # c /\ stage'[d] = stage[d]
    BY <1>5 DEF Disconnected, PeerInv, TypeOK
  <2>2. deferred'[d] = deferred[d]
    BY <1>5, <2>1 DEF Disconnected, HandleDisconnected
  <2>3. inbox'[d] = inbox[d] /\ outbox'[d] = outbox[d] /\ asked' = asked
    BY <1>5, DropKeeps DEF Disconnected, clients
  <2> QED BY <1>1, <2>1, <2>2, <2>3, SameOnce
<1>6. ASSUME NEW c \in Conn, HandleReadyRead(c) PROVE Once(d)'
  <2>1. CASE d = c
    <3>1. stage[c] = "open" /\ stage'[c] = "open"
      BY <1>6, <2>1 DEF HandleReadyRead, WriteResponse, PeerInv, TypeOK
    <3> QED BY <1>1, <1>6, <2>1, <3>1, ReadOnce
  <2>2. CASE d # c
    <3>1. /\ inbox'[d] = inbox[d] /\ outbox'[d] = outbox[d] /\ asked' = asked
          /\ deferred'[d] = deferred[d] /\ stage'[d] = stage[d]
      BY <1>6, <2>2 DEF HandleReadyRead, WriteResponse, PeerInv, TypeOK, clients
    <3> QED BY <1>1, <3>1, SameOnce
  <2> QED BY <2>1, <2>2
<1>7. CASE HandleNewConnection
  <2>1. stage[Newest] = "queued" /\ Newest \in Conn
    BY <1>7, NewestWaits DEF HandleNewConnection
  <2>2. d = Newest
    BY <1>7 DEF HandleNewConnection, HandOver, Opened
  <2>3. deferred'[d] = deferred[d]
    BY <1>7, <2>2 DEF HandleNewConnection, HandOver, HandleDisconnected
  <2>4. inbox'[d] = inbox[d] /\ outbox'[d] = outbox[d] /\ asked' = asked
    BY <1>7, DropKeeps DEF HandleNewConnection, clients
  <2> QED BY <1>1, <2>1, <2>2, <2>3, <2>4, SameOnce
<1>8. CASE DiscoveryCompletes
  <2>1. stage[d] = stage'[d]
    BY <1>8 DEF DiscoveryCompletes, SendDeferredDeviceLists, PeerInv, TypeOK
  <2> QED BY <1>1, <1>8, <2>1, CompletesOnce
<1>9. CASE Quits
  BY <1>9 DEF Quits, Opened
<1>10. CASE UNCHANGED vars
  BY <1>1, <1>10, SameOnce DEF vars, clients
<1> QED BY <1>2, <1>3, <1>4, <1>5, <1>6, <1>7, <1>8, <1>9, <1>10 DEF Next, Client

(* Every request of a connected client is unread, owed or answered, and    *)
(* that once, for any number of requests.                                  *)
THEOREM NoRequestLostOrRepeated == Spec => []EachAnsweredOnce
<1>1. Init => EachAnsweredOnce
  BY DEF Init, EachAnsweredOnce
<1> QED BY <1>1, NextOnce, PeerInductive, PTL DEF Spec
=============================================================================
