------------------------------ MODULE FrameCodec ------------------------------
(***************************************************************************)
(* Newline-delimited frames over a local socket: how DaemonServer and      *)
(* DaemonClient read what arrives into a bounded buffer and take the       *)
(* frames out of it.  DaemonServer and DaemonClient (the modules) take     *)
(* whole frames; this one says that they may.                              *)
(***************************************************************************)
EXTENDS Indices, Sequences, SequencesExt

CONSTANTS
  MaxMessage,  \* kDaemonMaxMessageBytes; kDaemonMaxFrameBytes is one more
  Byte,        \* the bytes of payloads: compact JSON has no newline in it
  Stream       \* what is sent: a set of sequences of payloads

Newline  == "newline"
Blank    == "blank"
MaxFrame == MaxMessage + 1

(* What the constants are taken to be.                                      *)
CodecAssumption ==
  /\ MaxMessage \in Nat \ {0}
  /\ Newline \notin Byte /\ Stream \subseteq Seq(Seq(Byte))

VARIABLES
  sent,     \* the payloads the sender wrote
  wire,     \* bytes that have not arrived
  arrived,  \* bytes the socket holds (bytesAvailable)
  buffer,
  reading,  \* a readyRead handler is in its loop
  taken,    \* the payloads handed on
  broken    \* the connection was given up for an oversized frame

codecVars == <<sent, wire, arrived, buffer, reading, taken, broken>>

IsEmpty(payload) == \A i \in DOMAIN payload : payload[i] = Blank

CodecInit ==
  /\ sent \in Stream
  /\ wire = FlattenSeq([i \in DOMAIN sent |-> Append(sent[i], Newline)])
  /\ arrived = <<>> /\ buffer = <<>> /\ taken = <<>>
  /\ reading = FALSE /\ broken = FALSE

(* Mutant: a message of the longest length leaves no room for its newline. *)
ReadCapacityOfMessage == MaxMessage - Len(buffer)
ReadCapacity == MaxFrame - Len(buffer)

Least(a, b) == IF a < b THEN a ELSE b

(* socket->read(remainingCapacity). *)
Read(available) ==
  LET n == Least(ReadCapacity, Len(available))
  IN  /\ buffer' = buffer \o SubSeq(available, 1, n)
      /\ arrived' = SubSeq(available, n + 1, Len(available))

(* readyRead: the server takes what it holds before it reads on, a client  *)
(* that waits for answers reads first, and one that does not only reads.   *)
Arrives(k, reader) ==
  /\ ~reading /\ ~broken
  /\ k \in 1 .. Len(wire)
  /\ wire' = SubSeq(wire, k + 1, Len(wire))
  /\ LET available == arrived \o SubSeq(wire, 1, k)
     IN  IF reader = "server" THEN arrived' = available /\ UNCHANGED buffer
         ELSE Read(available)
  /\ reading' = (reader # "idleClient")
  /\ UNCHANGED <<sent, taken, broken>>

HasNewline == \E i \in DOMAIN buffer : buffer[i] = Newline
NewlineAt  == First({i \in DOMAIN buffer : buffer[i] = Newline})

OversizedFrame == IF HasNewline THEN NewlineAt - 1 > MaxMessage ELSE Len(buffer) > MaxMessage

(* takeNextDaemonFrame: a complete or an empty frame. *)
TakesFrame ==
  /\ reading /\ HasNewline /\ ~OversizedFrame
  /\ LET payload == SubSeq(buffer, 1, NewlineAt - 1)
     IN  taken' = IF IsEmpty(payload) THEN taken ELSE Append(taken, payload)
  /\ buffer' = SubSeq(buffer, NewlineAt + 1, Len(buffer))
  /\ UNCHANGED <<sent, wire, arrived, reading, broken>>

(* NeedMoreData: read on, or return to the event loop. *)
ReadsOn ==
  /\ reading /\ ~HasNewline /\ ~OversizedFrame
  /\ IF arrived # <<>> /\ ReadCapacity > 0
     THEN Read(arrived) /\ UNCHANGED reading
     ELSE reading' = FALSE /\ UNCHANGED <<buffer, arrived>>
  /\ UNCHANGED <<sent, wire, taken, broken>>

GivesUp ==
  /\ reading /\ OversizedFrame
  /\ broken' = TRUE /\ reading' = FALSE
  /\ buffer' = <<>> /\ arrived' = <<>>
  /\ UNCHANGED <<sent, wire, taken>>

CodecNext ==
  \/ \E k \in 1 .. Len(wire), reader \in {"server", "client", "idleClient"} : Arrives(k, reader)
  \/ TakesFrame \/ ReadsOn \/ GivesUp

CodecSpec == CodecInit /\ [][CodecNext]_codecVars

-----------------------------------------------------------------------------
Fits(payload) == Len(payload) <= MaxMessage

(* Kept[n]: those of the first n payloads that are not empty. *)
Kept ==
  LET kept[n \in 0 .. Len(sent)] ==
        IF n = 0 THEN <<>>
        ELSE IF IsEmpty(sent[n]) THEN kept[n - 1] ELSE Append(kept[n - 1], sent[n])
  IN  kept

(* The payloads before the first that is too long, without the empty ones. *)
Readable ==
  LET tooLong == {i \in DOMAIN sent : ~Fits(sent[i])}
  IN  Kept[IF tooLong = {} THEN Len(sent) ELSE First(tooLong) - 1]

(* In whatever portions the bytes arrive, and however late the client      *)
(* looks at them, exactly the frames sent are read, in order; a frame of   *)
(* the longest legal size is one of them, the connection breaks only at a  *)
(* longer one, and nothing is left in the socket but behind frames a       *)
(* waiting client has yet to look at.                                      *)
FramesAreRead ==
  /\ IsPrefix(taken, Readable)
  /\ broken => taken = Readable /\ \E i \in DOMAIN sent : ~Fits(sent[i])
  /\ HasNewline \/ reading \/ arrived = <<>> \/ Len(buffer) = MaxFrame
  /\ wire = <<>> /\ ~reading /\ ~broken /\ ~HasNewline /\ Len(buffer) < MaxFrame
       => taken = Readable /\ \A i \in DOMAIN sent : Fits(sent[i])
=============================================================================
