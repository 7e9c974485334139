----------------------------- MODULE PacketStream -----------------------------
(***************************************************************************)
(* One direction of a connection, byte by byte: Socket::write at one end,  *)
(* PSCProxyProtocol::read with Socket::read at the other, and a stream in  *)
(* between that comes in pieces.  A byte is the number of its packet and   *)
(* its place in it; the first two hold the size, the third the type.       *)
(***************************************************************************)
EXTENDS Packets, SequencesExt

CONSTANTS
  Sent,           \* the packets that the writer may send
  BodyLen,        \* the length of a body
  MaxPackets,     \* bound: packets
  MaxGarbage      \* bound: the size that bytes which are no header are taken for

ASSUME StreamAssumption ==
  /\ Sent \subseteq Request \cup Answer
  /\ BodyLen \in Nat \ {0}
  /\ MaxPackets \in Nat /\ MaxGarbage \in Nat /\ MaxGarbage >= 3 + BodyLen

VARIABLES
  sent,     \* the packets that were given to write
  written,  \* the loop's count of bytes, in the last of them
  wire,     \* bytes that were written and not read yet
  shut,     \* the writer has closed, or the connection is lost
  part,     \* where the reader is: "idle", "header", "body"; or it "failed"
  buf,      \* what Socket::read has of this part
  wanted,   \* the bytes that this part has
  data,     \* the caller's PacketData
  before,   \* history: data when the read began, while cut = 0
  taken,    \* history: the packets that read returned, up to the one before cut
  cut       \* history: the first packet that ::write took a part of, or 0

writerVars == <<sent, written, cut>>
readerVars == <<part, buf, wanted, data, before, taken>>
vars == <<writerVars, wire, shut, readerVars>>

Size(p) == IF p = ResetRequest THEN 3 ELSE 3 + BodyLen

(* The bytes of the n-th packet, p. *)
Bytes(n, p) == [i \in 1 .. Size(p) |-> [of |-> n, at |-> i]]

Byte == [of : Nat, at : Nat]

TypeOK ==
  /\ sent \in Seq(Sent) /\ written \in Nat /\ cut \in 0 .. Len(sent)
  /\ wire \in Seq(Byte) /\ shut \in BOOLEAN
  /\ part \in {"idle", "header", "body", "failed"}
  /\ buf \in Seq(Byte) /\ wanted \in Nat /\ Len(buf) <= wanted
  /\ data \in Seq(Byte) /\ before \in Seq(Byte) /\ taken \in Seq(Seq(Byte))

Init ==
  /\ sent = <<>> /\ written = 0 /\ cut = 0
  /\ wire = <<>> /\ shut = FALSE
  /\ part = "idle" /\ buf = <<>> /\ wanted = 0
  /\ data = <<>> /\ before = <<>> /\ taken = <<>>

-----------------------------------------------------------------------------
(* The writer.                                                             *)

Writing == sent # <<>> /\ written < Size(Last(sent))

writeStarts(p) ==
  /\ ~ shut /\ ~ Writing /\ Len(sent) < MaxPackets
  /\ sent' = Append(sent, p) /\ written' = 0
  /\ UNCHANGED <<cut, wire, shut, readerVars>>

(* One turn of the loop: ::write takes k bytes.  It is given the buffer    *)
(* from its start each time, not from where it had got to.                 *)
writePiece(k) ==
  /\ ~ shut /\ Writing
  /\ k \in 1 .. Size(Last(sent))
  /\ wire' = wire \o SubSeq(Bytes(Len(sent), Last(sent)), 1, k)
  /\ written' = written + k
  /\ cut' = IF cut = 0 /\ k < Size(Last(sent)) THEN Len(sent) ELSE cut
  /\ UNCHANGED <<sent, shut, readerVars>>

(* The writer ends, maybe in the middle of a packet, or the network fails. *)
close == ~ shut /\ shut' = TRUE /\ UNCHANGED <<writerVars, wire, readerVars>>

-----------------------------------------------------------------------------
(* The reader.                                                             *)

readStarts ==
  /\ part = "idle" /\ part' = "header" /\ wanted' = 3 /\ buf' = <<>>
  /\ before' = IF cut = 0 THEN data ELSE <<>>
  /\ UNCHANGED <<writerVars, wire, shut, data, taken>>

(* Mutant of readPiece: all that is there is taken.                        *)
readPieceTooMuch(k) ==
  /\ part \in {"header", "body"} /\ k = Len(wire)
  /\ buf' = buf \o wire /\ wire' = <<>>
  /\ UNCHANGED <<writerVars, shut, part, wanted, data, before, taken>>

(* Mutant of readPiece: the piece is put at the start of the buffer.       *)
readPieceOver(k) ==
  /\ part \in {"header", "body"} /\ k <= Len(wire) /\ Len(buf) + k <= wanted
  /\ buf' = SubSeq(wire, 1, k) \o buf
  /\ wire' = SubSeq(wire, k + 1, Len(wire))
  /\ UNCHANGED <<writerVars, shut, part, wanted, data, before, taken>>

(* ::read gives k bytes, no more than are there and than are wanted. *)
readPiece(k) ==
  /\ part \in {"header", "body"} /\ k <= Len(wire) /\ Len(buf) + k <= wanted
  /\ buf' = buf \o SubSeq(wire, 1, k)
  /\ wire' = SubSeq(wire, k + 1, Len(wire))
  /\ UNCHANGED <<writerVars, shut, part, wanted, data, before, taken>>

(* The header is there.  A size above 3 makes it read the body. *)
IsHeader(b) == \A i \in 1 .. 3 : b[i] = [of |-> b[1].of, at |-> i]

SizeField(b, size) == IF IsHeader(b) THEN size = Size(sent[b[1].of]) ELSE size \in 0 .. MaxGarbage

(* The history goes on as long as something is claimed of it.              *)
Noted(d) == taken' = IF cut = 0 \/ Len(taken) + 1 < cut THEN Append(taken, d) ELSE taken

headerEnds(size) ==
  /\ part = "header" /\ Len(buf) = wanted /\ SizeField(buf, size)
  /\ data' = buf /\ buf' = <<>>
  /\ IF size > 3
     THEN part' = "body" /\ wanted' = size - 3 /\ UNCHANGED taken
     ELSE part' = "idle" /\ wanted' = 0 /\ Noted(buf)
  /\ UNCHANGED <<writerVars, wire, shut, before>>

(* Mutant of bodyEnds: data is the body alone.                             *)
bodyEndsWithoutHeader ==
  /\ part = "body" /\ Len(buf) = wanted
  /\ data' = buf /\ Noted(data') /\ buf' = <<>>
  /\ part' = "idle" /\ wanted' = 0
  /\ UNCHANGED <<writerVars, wire, shut, before>>

bodyEnds ==
  /\ part = "body" /\ Len(buf) = wanted
  /\ data' = data \o buf /\ Noted(data') /\ buf' = <<>>
  /\ part' = "idle" /\ wanted' = 0
  /\ UNCHANGED <<writerVars, wire, shut, before>>

(* Mutant of readFails: an ended stream that gives nothing is read again.  *)
readFailsOnTime ==
  /\ part \in {"header", "body"} /\ Len(buf) < wanted
  /\ buf # <<>> \/ shut
  /\ IF buf = <<>> THEN UNCHANGED <<part, buf, wanted>>
     ELSE part' = "failed" /\ buf' = <<>> /\ wanted' = 0
  /\ UNCHANGED <<writerVars, wire, shut, data, before, taken>>

(* The ten seconds are over when it looks before another ::read, ::read    *)
(* fails, or gives nothing because the stream has ended.  The caller       *)
(* closes.                                                                 *)
readFails ==
  /\ part \in {"header", "body"} /\ Len(buf) < wanted
  /\ buf # <<>> \/ shut
  /\ part' = "failed" /\ buf' = <<>> /\ wanted' = 0
  /\ UNCHANGED <<writerVars, wire, shut, data, before, taken>>

Writer == (\E p \in Sent : writeStarts(p)) \/ (\E k \in 1 .. 3 + BodyLen : writePiece(k)) \/ close

Reader ==
  \/ readStarts \/ (\E k \in 1 .. Len(wire) : readPiece(k))
  \/ (\E size \in 0 .. MaxGarbage : headerEnds(size)) \/ bodyEnds \/ readFails

Progress ==
  \/ (\E k \in 1 .. Len(wire) : readPiece(k))
  \/ (\E size \in 0 .. MaxGarbage : headerEnds(size)) \/ bodyEnds \/ readFails

Terminating == part = "failed" /\ UNCHANGED vars

Spec == Init /\ [][Writer \/ Reader \/ Terminating]_vars

(* A read waits for the stream and for its clock, and for nothing else. *)
FairSpec == Spec /\ WF_vars(Progress)

-----------------------------------------------------------------------------
(* What read returns is what was written, packet for packet and whole, in  *)
(* the order of the writes: in whatever pieces it came, up to the first    *)
(* packet of which ::write took a part.  From there on nothing is claimed: *)
(* that packet is sent again from its start, behind its own beginning.     *)
Framed ==
  \A i \in 1 .. Len(taken) : cut = 0 \/ i < cut =>
    i <= Len(sent) /\ taken[i] = Bytes(i, sent[i])

(* A read that has begun ends once the other end is gone, in the middle of *)
(* a packet as well.                                                       *)
EndsWithStream == part \in {"header", "body"} /\ shut ~> part \notin {"header", "body"}

(* Bytes as Packets has them.                                              *)
Value(d) ==
  IF d = <<>> THEN NoData
  ELSE LET p == sent[d[1].of] IN IF Len(d) = Size(p) THEN p ELSE Header(p)

Reading == part \in {"header", "body"}

(* Until ::write takes a part of a packet, the stream is the queue of      *)
(* Connection, and what read may do is what ReadResults says.              *)
Queue == INSTANCE PacketQueue WITH
  arrived <- IF cut # 0 THEN <<>>
             ELSE SubSeq(sent, Len(taken) + (IF part = "failed" THEN 2 ELSE 1), Len(sent)),
  data <- IF cut # 0 THEN NoData ELSE Value(IF Reading THEN before ELSE data),
  open <- cut = 0 /\ part # "failed"

IsQueue == Queue!Spec
=============================================================================
