-------------------------- MODULE PacketStreamProofs --------------------------
(***************************************************************************)
(* PacketStream for every set of packets and every length of a body: what  *)
(* read returns is what was written, and up to the first packet that is    *)
(* written in part the stream is the queue of packets of Connection.       *)
(***************************************************************************)
EXTENDS PacketStream, SequenceTheorems, TLAPS

-----------------------------------------------------------------------------
(* The inductive invariant.                                                *)

(* The packets that were written whole, up to the one before cut.          *)
Whole == IF cut # 0 THEN cut - 1 ELSE IF Writing THEN Len(sent) - 1 ELSE Len(sent)

(* What the reader has of the packet that it reads, and what follows. *)
Unread == ((IF part = "body" THEN data ELSE <<>>) \o buf) \o wire

(* At place i of b the n-th packet is whole, and behind it begins the next *)
(* one or the stream ends.                                                 *)
PacketAt(b, i, n) ==
  /\ n \in 1 .. Whole
  /\ i + Size(sent[n]) <= Len(b) + 1
  /\ \A k \in 1 .. Size(sent[n]) : b[i + (k - 1)] = [of |-> n, at |-> k]
  /\ \/ i + Size(sent[n]) <= Len(b) /\ b[i + Size(sent[n])] = [of |-> n + 1, at |-> 1]
     \/ i + Size(sent[n]) = Len(b) + 1 /\ n = Whole /\ cut = 0

(* The next packet that read returns is noted.                             *)
Claimed == cut = 0 \/ Len(taken) + 1 < cut

(* The stream from the packet that is to be taken next: it begins there,   *)
(* and each first byte of a packet before cut is one of the whole packet.  *)
Stream(b) ==
  /\ b = <<>> => cut = 0 /\ Len(taken) = Whole
  /\ b # <<>> => b[1] = [of |-> Len(taken) + 1, at |-> 1]
  /\ \A i \in 1 .. Len(b) :
       b[i].at = 1 /\ (cut = 0 \/ b[i].of < cut) => PacketAt(b, i, b[i].of)

StreamInv == Claimed /\ part # "failed" => Stream(Unread)

(* Without a cut a packet is written at once. *)
WriterInv ==
  /\ cut = 0 /\ Writing => written = 0
  /\ cut = 0 => Len(taken) <= Whole
  /\ cut # 0 => Len(taken) < cut

(* How far the reader is.                                                  *)
ReaderInv ==
  /\ part \in {"idle", "failed"} => buf = <<>>
  /\ part = "header" => wanted = 3
  /\ part = "body" /\ Claimed =>
       Len(data) = 3 /\ wanted + 3 = Size(sent[Len(taken) + 1]) /\ wanted > 0

IInv == TypeOK /\ WriterInv /\ ReaderInv /\ StreamInv /\ Framed

(* The PacketData of the caller is of a packet that was sent, or empty.    *)
OfSent(d) == d # <<>> => d[1].of \in 1 .. Len(sent)

(* What the refinement needs, up to the first cut.                         *)
DataInv ==
  cut = 0 =>
    /\ OfSent(data) /\ OfSent(before)
    /\ part = "header" => data = before
    /\ part = "failed" /\ ~ shut => Len(taken) < Len(sent)

-----------------------------------------------------------------------------
(* Packets and their bytes.                                                *)

LEMMA SizeType ==
  ASSUME NEW p
  PROVE  Size(p) \in Nat /\ Size(p) >= 3 /\ (Size(p) > 3 => p # ResetRequest)
BY StreamAssumption DEF Size

LEMMA BytesType ==
  ASSUME NEW n \in Nat, NEW p
  PROVE  /\ Bytes(n, p) \in Seq(Byte) /\ Len(Bytes(n, p)) = Size(p)
         /\ \A i \in 1 .. Size(p) : Bytes(n, p)[i] = [of |-> n, at |-> i]
<1>1. Size(p) \in Nat
  BY SizeType
<1>2. \A i \in 1 .. Size(p) : [of |-> n, at |-> i] \in Byte
  BY DEF Byte
<1> QED BY <1>1, <1>2 DEF Bytes

(* What ::write takes of a packet are its first bytes.                     *)
LEMMA PieceType ==
  ASSUME NEW n \in Nat, NEW p, NEW k \in 1 .. Size(p)
  PROVE  /\ SubSeq(Bytes(n, p), 1, k) \in Seq(Byte)
         /\ Len(SubSeq(Bytes(n, p), 1, k)) = k
         /\ \A i \in 1 .. k : SubSeq(Bytes(n, p), 1, k)[i] = [of |-> n, at |-> i]
<1> DEFINE b == Bytes(n, p)
<1>0. Size(p) \in Nat /\ k \in Int /\ 1 \in Int /\ 1 <= k /\ k <= Size(p)
  BY SizeType
<1>1. b \in Seq(Byte) /\ \A i \in 1 .. k : i \in 1 .. Size(p) /\ b[i] = [of |-> n, at |-> i]
  BY <1>0, BytesType
<1>2. \A i \in 1 .. k : b[i] \in Byte
  <2> SUFFICES ASSUME NEW i \in 1 .. k PROVE [of |-> n, at |-> i] \in Byte
    BY <1>1
  <2> QED BY <1>0 DEF Byte
<1> HIDE DEF b
<1>3. /\ SubSeq(b, 1, k) \in Seq(Byte) /\ Len(SubSeq(b, 1, k)) = k
      /\ \A i \in 1 .. k - 1 + 1 : SubSeq(b, 1, k)[i] = b[1 + i - 1]
  BY <1>0, <1>2, SubSeqProperties
<1>4. \A i \in 1 .. k : i \in 1 .. k - 1 + 1 /\ 1 + i - 1 = i
  BY <1>0
<1>5. \A i \in 1 .. k : SubSeq(b, 1, k)[i] = b[i]
  BY <1>3, <1>4
<1> QED BY <1>1, <1>3, <1>5 DEF b

LEMMA Associative ==
  \A s, t, u \in Seq(Byte) : (s \o t) \o u = s \o (t \o u)
BY ConcatAssociative

LEMMA Joined ==
  \A s, t \in Seq(Byte) :
    Len(s) \in Nat /\ s \o t \in Seq(Byte) /\ Len(s \o t) = Len(s) + Len(t)
BY ConcatProperties

LEMMA JoinedAt ==
  \A s, t \in Seq(Byte) :
    (\A i \in 1 .. Len(s) : (s \o t)[i] = s[i]) /\ (Len(s) # 0 => s # <<>>)
BY ConcatProperties

(* A packet that was given to write last. *)
LEMMA LastSent ==
  ASSUME TypeOK, sent # <<>>
  PROVE  Len(sent) \in Nat /\ Len(sent) >= 1 /\ Last(sent) = sent[Len(sent)]
BY DEF TypeOK, Last

(* Its first k bytes are put on the wire.                                  *)
LEMMA WritePiece ==
  ASSUME TypeOK, NEW k, writePiece(k)
  PROVE  /\ sent # <<>> /\ Len(sent) \in Nat \ {0} /\ k \in Nat \ {0}
         /\ k <= Size(sent[Len(sent)]) /\ Last(sent) = sent[Len(sent)]
         /\ \E piece \in Seq(Byte) :
              /\ wire' = wire \o piece /\ Len(piece) = k
              /\ \A i \in 1 .. k : piece[i] = [of |-> Len(sent), at |-> i]
<1>1. sent # <<>> /\ k \in 1 .. Size(Last(sent))
  BY DEF writePiece, Writing
<1>2. Len(sent) \in Nat \ {0} /\ Last(sent) = sent[Len(sent)]
  BY <1>1, LastSent
<1>3. Size(Last(sent)) \in Nat
  BY SizeType
<1>4. /\ SubSeq(Bytes(Len(sent), Last(sent)), 1, k) \in Seq(Byte)
      /\ Len(SubSeq(Bytes(Len(sent), Last(sent)), 1, k)) = k
      /\ \A i \in 1 .. k : SubSeq(Bytes(Len(sent), Last(sent)), 1, k)[i] = [of |-> Len(sent), at |-> i]
  BY <1>1, <1>2, PieceType
<1>5. k \in Nat \ {0} /\ k <= Size(sent[Len(sent)])
  BY <1>1, <1>2, <1>3
<1>6. wire' = wire \o SubSeq(Bytes(Len(sent), Last(sent)), 1, k)
  BY DEF writePiece
<1> QED BY <1>1, <1>2, <1>4, <1>5, <1>6

(* A piece moves from the wire into the buffer.                            *)
LEMMA ReadPiece ==
  ASSUME TypeOK, NEW k \in 1 .. Len(wire), readPiece(k)
  PROVE  /\ buf' \in Seq(Byte) /\ wire' \in Seq(Byte) /\ Len(buf') <= wanted
         /\ \A a \in Seq(Byte) : (a \o buf') \o wire' = (a \o buf) \o wire
<1> DEFINE first == SubSeq(wire, 1, k)
           rest  == SubSeq(wire, k + 1, Len(wire))
<1>1. wire \in Seq(Byte) /\ buf \in Seq(Byte) /\ Len(wire) \in Nat /\ k \in Nat /\ k <= Len(wire)
  BY DEF TypeOK
<1>2. first \in Seq(Byte) /\ Len(first) = k
  BY <1>1, SubSeqProperties
<1>3. rest \in Seq(Byte)
  BY <1>1, SubSeqProperties
<1>4. first \o rest = wire
  <2>1. 1 \in 1 .. Len(wire) + 1 /\ k \in 1 - 1 .. Len(wire) /\ Len(wire) \in k .. Len(wire)
    BY <1>1
  <2>2. first \o rest = SubSeq(wire, 1, Len(wire))
    BY <1>1, <2>1, ConcatAdjacentSubSeq
  <2> QED BY <1>1, <2>2, SubSeqFull
<1> HIDE DEF first, rest
<1>5. buf' = buf \o first /\ wire' = rest /\ Len(buf) + k <= wanted
  BY DEF readPiece, first, rest
<1>6. buf \o first \in Seq(Byte) /\ Len(buf \o first) = Len(buf) + Len(first)
  BY <1>1, <1>2, ConcatProperties
<1>7. ASSUME NEW a \in Seq(Byte) PROVE (a \o buf') \o wire' = (a \o buf) \o wire
  <2>1. a \o buf \in Seq(Byte)
    BY <1>1, ConcatProperties
  <2>2. a \o (buf \o first) = (a \o buf) \o first
    BY <1>1, <1>2, <1>7, Associative
  <2>3. ((a \o buf) \o first) \o rest = (a \o buf) \o (first \o rest)
    BY <1>2, <1>3, <2>1, Associative
  <2> QED BY <1>4, <1>5, <2>2, <2>3
<1> QED BY <1>2, <1>3, <1>5, <1>6, <1>7

-----------------------------------------------------------------------------
(* Every step keeps the types.                                             *)
LEMMA TypesNext ==
  ASSUME TypeOK, [Writer \/ Reader \/ Terminating]_vars
  PROVE  TypeOK'
<1>0. Len(<<>>) = 0 /\ <<>> \in Seq(Byte) /\ Len(sent) \in Nat
  BY DEF TypeOK
<1>1. CASE UNCHANGED vars
  BY <1>1 DEF TypeOK, vars, writerVars, readerVars
<1>2. CASE \E p \in Sent : writeStarts(p)
  <2>1. PICK p \in Sent : writeStarts(p)
    BY <1>2
  <2>2. sent' \in Seq(Sent) /\ Len(sent') = Len(sent) + 1
    BY <2>1 DEF writeStarts, TypeOK
  <2>3. cut' \in 0 .. Len(sent')
    BY <1>0, <2>1, <2>2 DEF writeStarts, TypeOK
  <2> QED BY <2>1, <2>2, <2>3 DEF writeStarts, readerVars, TypeOK
<1>3. CASE \E k \in 1 .. 3 + BodyLen : writePiece(k)
  <2>1. PICK k : writePiece(k)
    BY <1>3
  <2>2. k \in Nat /\ Len(sent) \in Nat \ {0}
    BY <2>1, WritePiece
  <2>3. wire' \in Seq(Byte)
    <3>1. PICK piece \in Seq(Byte) : wire' = wire \o piece
      BY <2>1, WritePiece
    <3> QED BY <3>1, ConcatProperties DEF TypeOK
  <2>4. written' \in Nat
    BY <2>1, <2>2 DEF writePiece, TypeOK
  <2>5. cut' \in 0 .. Len(sent)
    BY <2>1, <2>2 DEF writePiece, TypeOK
  <2> QED BY <2>1, <2>3, <2>4, <2>5 DEF writePiece, readerVars, TypeOK
<1>4. CASE close
  BY <1>4 DEF close, writerVars, readerVars, TypeOK
<1>5. CASE readStarts
  BY <1>0, <1>5 DEF readStarts, writerVars, TypeOK
<1>6. CASE \E k \in 1 .. Len(wire) : readPiece(k)
  BY <1>6, ReadPiece DEF readPiece, writerVars, TypeOK
<1>7. CASE \E size \in 0 .. MaxGarbage : headerEnds(size)
  <2>1. PICK size \in 0 .. MaxGarbage : headerEnds(size)
    BY <1>7
  <2>2. taken' \in Seq(Seq(Byte))
    <3>1. taken' = taken \/ taken' = Append(taken, buf)
      BY <2>1 DEF headerEnds, Noted
    <3>2. buf \in Seq(Byte) /\ taken \in Seq(Seq(Byte))
      BY DEF TypeOK
    <3>3. Append(taken, buf) \in Seq(Seq(Byte))
      BY <3>2, AppendProperties
    <3> QED BY <3>1, <3>2, <3>3, Zenon
  <2>3. wanted' \in Nat /\ Len(buf') <= wanted'
    BY <1>0, <2>1, StreamAssumption DEF headerEnds
  <2> QED BY <1>0, <2>1, <2>2, <2>3 DEF headerEnds, writerVars, TypeOK
<1>8. CASE bodyEnds
  <2>1. data' \in Seq(Byte)
    BY <1>8, ConcatProperties DEF bodyEnds, TypeOK
  <2>2. taken' \in Seq(Seq(Byte))
    BY <1>8, <2>1 DEF bodyEnds, Noted, TypeOK
  <2> QED BY <1>0, <1>8, <2>1, <2>2 DEF bodyEnds, writerVars, TypeOK
<1>9. CASE readFails
  BY <1>0, <1>9 DEF readFails, writerVars, TypeOK
<1> QED
  BY <1>1, <1>2, <1>3, <1>4, <1>5, <1>6, <1>7, <1>8, <1>9 DEF Writer, Reader, Terminating

-----------------------------------------------------------------------------
(* What a step does to the stream.                                         *)

LEMMA WholeType ==
  ASSUME TypeOK
  PROVE  Whole \in Nat /\ Whole <= Len(sent)
BY DEF TypeOK, Whole, Writing

(* The next packet is given to write: no byte of it is on the wire yet.    *)
LEMMA StartedStream ==
  ASSUME TypeOK, NEW p \in Sent, writeStarts(p), NEW b \in Seq(Byte), Stream(b)
  PROVE  Stream(b)'
<1>1. Whole \in Nat /\ Whole <= Len(sent)
  BY WholeType
<1>2. /\ sent \in Seq(Sent) /\ cut' = cut /\ taken' = taken
      /\ \A n \in 1 .. Len(sent) : sent'[n] = sent[n]
  BY DEF TypeOK, writeStarts, readerVars
<1>3. Whole' = Whole
  <2>1. ~ Writing /\ sent' = Append(sent, p) /\ written' = 0
    BY DEF writeStarts
  <2>2. Len(sent') = Len(sent) + 1 /\ sent' # <<>> /\ Last(sent') = p
    BY <1>2, <2>1 DEF Last
  <2>3. Writing'
    BY <2>1, <2>2, SizeType DEF Writing
  <2> QED BY <1>2, <2>1, <2>2, <2>3, <1>1 DEF Whole
<1>4. \A i, n : PacketAt(b, i, n) => PacketAt(b, i, n)'
  <2> SUFFICES ASSUME NEW i, NEW n, PacketAt(b, i, n) PROVE PacketAt(b, i, n)'
    OBVIOUS
  <2>1. n \in 1 .. Whole /\ sent'[n] = sent[n]
    <3>1. n \in 1 .. Whole
      BY DEF PacketAt
    <3> QED BY <1>1, <1>2, <3>1
  <2> QED BY <1>2, <1>3, <2>1 DEF PacketAt
<1> QED BY <1>2, <1>3, <1>4 DEF Stream

(* A packet stays where it is when bytes follow, if they begin the next.   *)
LEMMA PacketStays ==
  ASSUME TypeOK, NEW b \in Seq(Byte), NEW piece \in Seq(Byte), piece # <<>>,
         NEW i \in 1 .. Len(b), NEW n, PacketAt(b, i, n),
         cut = 0 /\ n = Whole => piece[1] = [of |-> n + 1, at |-> 1],
         sent' = sent, Whole' \in Nat, Whole' >= Whole
  PROVE  PacketAt(b \o piece, i, n)'
<1> DEFINE c == b \o piece
<1>1. /\ Len(b) \in Nat /\ Len(piece) \in Nat /\ Len(piece) > 0 /\ Len(c) = Len(b) + Len(piece)
      /\ \A j \in 1 .. Len(b) : c[j] = b[j]
      /\ c[Len(b) + 1] = piece[1]
  OBVIOUS
<1>2. Size(sent[n]) \in Nat /\ Size(sent[n]) >= 3
  BY SizeType
<1>3. Whole \in Nat
  BY WholeType
<1> HIDE DEF c
<1>4. n \in 1 .. Whole' /\ i + Size(sent[n]) <= Len(c) + 1
  BY <1>1, <1>2, <1>3 DEF PacketAt
<1>5. \A k \in 1 .. Size(sent[n]) : c[i + (k - 1)] = [of |-> n, at |-> k]
  <2> TAKE k \in 1 .. Size(sent[n])
  <2>1. i + (k - 1) \in 1 .. Len(b) /\ b[i + (k - 1)] = [of |-> n, at |-> k]
    BY <1>1, <1>2 DEF PacketAt
  <2> QED BY <1>1, <2>1
<1>6. i + Size(sent[n]) <= Len(c) /\ c[i + Size(sent[n])] = [of |-> n + 1, at |-> 1]
  <2>1. CASE i + Size(sent[n]) <= Len(b) /\ b[i + Size(sent[n])] = [of |-> n + 1, at |-> 1]
    BY <1>1, <1>2, <2>1
  <2>2. CASE i + Size(sent[n]) = Len(b) + 1 /\ n = Whole /\ cut = 0
    BY <1>1, <2>2
  <2> QED BY <2>1, <2>2 DEF PacketAt
<1>7. PacketAt(c, i, n)' <=> /\ n \in 1 .. Whole'
                             /\ i + Size(sent[n]) <= Len(c) + 1
                             /\ \A k \in 1 .. Size(sent[n]) : c[i + (k - 1)] = [of |-> n, at |-> k]
                             /\ \/ i + Size(sent[n]) <= Len(c) /\ c[i + Size(sent[n])] = [of |-> n + 1, at |-> 1]
                                \/ i + Size(sent[n]) = Len(c) + 1 /\ n = Whole' /\ cut' = 0
  BY DEF PacketAt
<1> QED BY <1>4, <1>5, <1>6, <1>7 DEF c

(* ::write takes k bytes.  A packet that it takes whole is one of the      *)
(* stream; from the first one that it does not, nothing is claimed.        *)
LEMMA WrittenWhole ==
  ASSUME TypeOK, cut = 0 /\ Writing => written = 0, NEW k, writePiece(k)
  PROVE  /\ cut' = 0 => cut = 0 /\ k = Size(sent[Len(sent)]) /\ Whole = Len(sent) - 1 /\ Whole' = Len(sent)
         /\ cut' # 0 => Whole' = Whole /\ ((cut # 0 /\ cut' = cut) \/ (cut = 0 /\ cut' = Len(sent) /\ Whole = Len(sent) - 1))
<1>1. /\ sent # <<>> /\ Len(sent) \in Nat \ {0} /\ k \in Nat \ {0} /\ k <= Size(sent[Len(sent)])
      /\ Last(sent) = sent[Len(sent)]
  BY WritePiece
<1>2. Size(sent[Len(sent)]) \in Nat
  BY SizeType
<1>3. /\ Writing /\ sent' = sent /\ written' = written + k
      /\ cut' = IF cut = 0 /\ k < Size(Last(sent)) THEN Len(sent) ELSE cut
  BY DEF writePiece
<1>4. cut \in Nat
  BY DEF TypeOK
<1>5. ASSUME cut' = 0
      PROVE  cut = 0 /\ k = Size(sent[Len(sent)]) /\ Whole = Len(sent) - 1 /\ Whole' = Len(sent)
  <2>1. cut = 0 /\ k = Size(sent[Len(sent)])
    BY <1>1, <1>2, <1>3, <1>5
  <2>2. ~ Writing'
    <3>1. written' = Size(sent[Len(sent)])
      BY <1>2, <1>3, <2>1
    <3>2. Last(sent)' = sent[Len(sent)]
      BY <1>1, <1>3
    <3> QED BY <1>2, <3>1, <3>2 DEF Writing
  <2> QED BY <1>3, <1>5, <2>1, <2>2 DEF Whole
<1>6. ASSUME cut' # 0
      PROVE  Whole' = Whole /\ ((cut # 0 /\ cut' = cut) \/ (cut = 0 /\ cut' = Len(sent) /\ Whole = Len(sent) - 1))
  BY <1>1, <1>3, <1>6 DEF Whole
<1> QED BY <1>5, <1>6

LEMMA WrittenStream ==
  ASSUME TypeOK, cut = 0 /\ Writing => written = 0, NEW k, writePiece(k),
         NEW b \in Seq(Byte), NEW piece \in Seq(Byte), Len(piece) = k,
         \A j \in 1 .. k : piece[j] = [of |-> Len(sent), at |-> j],
         Stream(b), Claimed'
  PROVE  Stream(b \o piece)'
<1> DEFINE c == b \o piece
<1>1. Len(sent) \in Nat \ {0} /\ k \in Nat \ {0}
  BY WritePiece
<1>2. /\ cut' = 0 => cut = 0 /\ k = Size(sent[Len(sent)]) /\ Whole = Len(sent) - 1 /\ Whole' = Len(sent)
      /\ cut' # 0 => Whole' = Whole /\ ((cut # 0 /\ cut' = cut) \/ (cut = 0 /\ cut' = Len(sent) /\ Whole = Len(sent) - 1))
  BY WrittenWhole
<1>3. sent' = sent /\ taken' = taken
  BY DEF writePiece, readerVars
<1>4. /\ Len(b) \in Nat /\ Len(c) = Len(b) + k /\ piece # <<>>
      /\ piece[1] = [of |-> Len(sent), at |-> 1]
      /\ \A j \in 1 .. Len(b) : c[j] = b[j] /\ b[j] \in Byte
      /\ \A j \in 1 .. k : c[Len(b) + j] = [of |-> Len(sent), at |-> j]
  <2>1. Len(b) \in Nat /\ Len(c) = Len(b) + k
    <3>1. Len(b) \in Nat /\ Len(c) = Len(b) + Len(piece)
      BY Joined
    <3>2. Len(piece) = k
      OBVIOUS
    <3> HIDE DEF c
    <3> QED BY <3>1, <3>2
  <2>5. piece # <<>>
    <3>1. Len(piece) # 0
      BY <1>1
    <3> QED BY <3>1, EmptySeq
  <2>2. 1 \in 1 .. k
    BY <1>1
  <2>3. \A j \in 1 .. Len(b) : c[j] = b[j] /\ b[j] \in Byte
    OBVIOUS
  <2>4. \A j \in 1 .. k : c[Len(b) + j] = piece[j]
    BY <1>1
  <2> QED BY <2>1, <2>2, <2>3, <2>4, <2>5
<1>5. Len(taken) \in Nat /\ cut \in Nat /\ Whole \in Nat /\ Whole <= Len(sent) /\ Whole' \in Nat /\ Whole' >= Whole
  BY <1>1, <1>2, WholeType DEF TypeOK
<1> HIDE DEF c
<1>6. c # <<>>
  BY <1>1, <1>4
<1>7. c[1] = [of |-> Len(taken) + 1, at |-> 1]
  <2>1. CASE b = <<>>
    <3>1. cut = 0 /\ Len(taken) = Whole
      BY <2>1 DEF Stream
    <3>2. Len(b) = 0 /\ c[1] = [of |-> Len(sent), at |-> 1]
      BY <1>1, <1>4, <2>1
    <3>3. Len(sent) = Len(taken) + 1
      BY <1>1, <1>2, <1>5, <3>1
    <3> QED BY <3>2, <3>3
  <2>2. CASE b # <<>>
    <3>1. 1 \in 1 .. Len(b)
      BY <1>4, <2>2
    <3> QED BY <1>4, <2>2, <3>1 DEF Stream
  <2> QED BY <2>1, <2>2
<1>8. ASSUME NEW i \in 1 .. Len(c), c[i].at = 1 /\ (cut' = 0 \/ c[i].of < cut')
      PROVE  PacketAt(c, i, c[i].of)'
  <2>1. CASE i <= Len(b)
    <3>1. i \in 1 .. Len(b) /\ c[i] = b[i] /\ b[i] \in Byte
      BY <1>4, <2>1
    <3>2. cut = 0 \/ b[i].of < cut
      BY <1>2, <1>8, <3>1
    <3>3. PacketAt(b, i, b[i].of)
      BY <1>8, <3>1, <3>2 DEF Stream
    <3>4. cut = 0 /\ b[i].of = Whole => piece[1] = [of |-> b[i].of + 1, at |-> 1]
      BY <1>1, <1>2, <1>4, <1>5
    <3>5. PacketAt(b \o piece, i, b[i].of)'
      BY <1>3, <1>4, <1>5, <3>1, <3>3, <3>4, PacketStays
    <3>6. (c[i].of)' = (b[i].of)'
      BY <3>1
    <3> QED BY <3>5, <3>1 DEF c
  <2>2. CASE i > Len(b)
    <3>1. /\ i - Len(b) \in 1 .. k /\ i = Len(b) + (i - Len(b))
          /\ c[i] = [of |-> Len(sent), at |-> i - Len(b)]
      <4> DEFINE j == i - Len(b)
      <4>1. j \in 1 .. k /\ i = Len(b) + j
        BY <1>1, <1>4, <2>2
      <4>2. c[Len(b) + j] = [of |-> Len(sent), at |-> j]
        BY <1>4, <4>1
      <4> QED BY <4>1, <4>2
    <3>2. i = Len(b) + 1 /\ c[i].of = Len(sent)
      BY <1>4, <1>8, <3>1
    <3>3. cut' = 0 /\ k = Size(sent[Len(sent)]) /\ Whole' = Len(sent)
      <4>1. cut' = 0 \/ Len(sent) < cut'
        BY <1>8, <3>2
      <4>2. cut' \in 0 .. Len(sent)
        <5>1. cut' = 0 \/ cut' = cut \/ cut' = Len(sent)
          BY <1>2, Zenon
        <5>2. cut \in 0 .. Len(sent)
          BY DEF TypeOK
        <5> QED BY <1>1, <5>1, <5>2
      <4> QED BY <1>1, <1>2, <4>1, <4>2
    <3>4. \A j \in 1 .. k : i + (j - 1) = Len(b) + j
      BY <1>4, <3>2
    <3>5. \A j \in 1 .. k : c[i + (j - 1)] = [of |-> Len(sent), at |-> j]
      BY <1>4, <3>4
    <3>6. i + k = Len(c) + 1
      BY <1>1, <1>4, <3>2
    <3>7. PacketAt(c, i, Len(sent))' <=>
            /\ Len(sent) \in 1 .. Whole'
            /\ i + k <= Len(c) + 1
            /\ \A j \in 1 .. k : c[i + (j - 1)] = [of |-> Len(sent), at |-> j]
            /\ \/ i + k <= Len(c) /\ c[i + k] = [of |-> Len(sent) + 1, at |-> 1]
               \/ i + k = Len(c) + 1 /\ Len(sent) = Whole' /\ cut' = 0
      BY <1>3, <3>3 DEF PacketAt
    <3>8. PacketAt(c, i, Len(sent))'
      BY <1>1, <3>3, <3>5, <3>6, <3>7
    <3> QED BY <1>3, <3>2, <3>8
  <2> QED BY <1>4, <2>1, <2>2
<1>9. Stream(c)' <=> /\ c = <<>> => cut' = 0 /\ Len(taken) = Whole'
                     /\ c # <<>> => c[1] = [of |-> Len(taken) + 1, at |-> 1]
                     /\ \A i \in 1 .. Len(c) :
                          c[i].at = 1 /\ (cut' = 0 \/ c[i].of < cut') => PacketAt(c, i, c[i].of)'
  BY <1>3 DEF Stream
<1> QED BY <1>6, <1>7, <1>8, <1>9 DEF c

(* The next packet is at the start of the stream.  When it is taken, the   *)
(* rest is the stream from the one after it.                               *)
LEMMA FirstPacket ==
  ASSUME TypeOK, Claimed, NEW d \in Seq(Byte), NEW w \in Seq(Byte), Stream(d \o w), d # <<>>
  PROVE  PacketAt(d \o w, 1, Len(taken) + 1)
<1>1. d \o w # <<>> /\ Len(d \o w) \in Nat /\ 1 \in 1 .. Len(d \o w)
  OBVIOUS
<1>2. (d \o w)[1] = [of |-> Len(taken) + 1, at |-> 1]
  BY <1>1 DEF Stream
<1> QED BY <1>1, <1>2 DEF Stream, Claimed

LEMMA TakenPacket ==
  ASSUME TypeOK, Claimed, NEW d \in Seq(Byte), NEW w \in Seq(Byte), Stream(d \o w),
         Len(d) = Size(sent[Len(taken) + 1]),
         taken' = Append(taken, d), cut' = cut, sent' = sent, written' = written
  PROVE  /\ Len(taken) + 1 <= Whole /\ d = Bytes(Len(taken) + 1, sent[Len(taken) + 1])
         /\ Whole' = Whole /\ Len(taken') = Len(taken) + 1
         /\ Claimed' => Stream(w)'
<1> DEFINE n == Len(taken) + 1
           s == Size(sent[n])
           b == d \o w
<1>1. s \in Nat /\ s >= 3 /\ Len(d) = s /\ d # <<>> /\ n \in Nat /\ cut \in Nat
  BY SizeType DEF TypeOK
<1>2. /\ Len(b) = s + Len(w) /\ Len(w) \in Nat
      /\ \A j \in 1 .. s : b[j] = d[j]
      /\ \A j \in 1 .. Len(w) : b[s + j] = w[j] /\ w[j] \in Byte
  BY <1>1
<1>3. PacketAt(b, 1, n)
  BY <1>1, FirstPacket
<1>4. Stream(b)
  OBVIOUS
<1>5. Whole' = Whole /\ Whole \in Nat /\ Len(taken') = n
  BY WholeType DEF Whole, Writing, TypeOK
<1> HIDE DEF b
<1>6. n <= Whole
  BY <1>3, <1>5 DEF PacketAt
<1>7. d = Bytes(n, sent[n])
  <2>1. \A j \in 1 .. s : d[j] = [of |-> n, at |-> j]
    <3> TAKE j \in 1 .. s
    <3>1. 1 + (j - 1) = j
      BY <1>1
    <3>2. b[1 + (j - 1)] = [of |-> n, at |-> j]
      BY <1>3 DEF PacketAt
    <3> QED BY <1>2, <3>1, <3>2
  <2>2. /\ Bytes(n, sent[n]) \in Seq(Byte) /\ Len(Bytes(n, sent[n])) = s
        /\ \A j \in 1 .. s : Bytes(n, sent[n])[j] = [of |-> n, at |-> j]
    BY <1>1, BytesType
  <2> HIDE DEF s, n
  <2> QED BY <1>1, <2>1, <2>2, SeqEqual
<1>8. ASSUME Claimed' PROVE Stream(w)'
  <2>1. w = <<>> => cut = 0 /\ Len(taken') = Whole
    <3> SUFFICES ASSUME w = <<>> PROVE cut = 0 /\ n = Whole
      BY <1>5
    <3>1. Len(b) = s
      BY <1>1, <1>2
    <3> QED BY <1>1, <1>3, <3>1 DEF PacketAt
  <2>2. w # <<>> => w[1] = [of |-> Len(taken') + 1, at |-> 1]
    <3> SUFFICES ASSUME w # <<>> PROVE w[1] = [of |-> n + 1, at |-> 1]
      BY <1>5
    <3>1. 1 \in 1 .. Len(w) /\ Len(w) > 0
      BY <1>2
    <3>2. b[1 + s] = [of |-> n + 1, at |-> 1]
      BY <1>1, <1>2, <1>3, <3>1 DEF PacketAt
    <3>3. b[s + 1] = w[1] /\ s + 1 = 1 + s
      BY <1>1, <1>2, <3>1
    <3> QED BY <3>2, <3>3
  <2>3. ASSUME NEW i \in 1 .. Len(w), w[i].at = 1 /\ (cut = 0 \/ w[i].of < cut)
        PROVE  PacketAt(w, i, w[i].of)'
    <3> DEFINE m == w[i].of
               r == Size(sent[m])
    <3>1. s + i \in 1 .. Len(b) /\ b[s + i] = w[i] /\ w[i] \in Byte
      BY <1>1, <1>2
    <3>2. PacketAt(b, s + i, m)
      BY <1>4, <2>3, <3>1 DEF Stream
    <3>3. r \in Nat /\ r >= 3 /\ m \in Nat
      BY <3>1, SizeType DEF Byte
    <3> HIDE DEF m
    <3>4. m \in 1 .. Whole /\ i + r <= Len(w) + 1
      BY <1>1, <1>2, <3>2, <3>3 DEF PacketAt
    <3>5. \A k \in 1 .. r : w[i + (k - 1)] = [of |-> m, at |-> k]
      <4> TAKE k \in 1 .. r
      <4>1. i + (k - 1) \in 1 .. Len(w) /\ (s + i) + (k - 1) = s + (i + (k - 1))
        BY <1>1, <1>2, <3>3, <3>4
      <4>2. b[(s + i) + (k - 1)] = [of |-> m, at |-> k]
        BY <3>2 DEF PacketAt
      <4>3. b[s + (i + (k - 1))] = w[i + (k - 1)]
        BY <1>2, <4>1
      <4> QED BY <4>1, <4>2, <4>3
    <3>6. \/ i + r <= Len(w) /\ w[i + r] = [of |-> m + 1, at |-> 1]
          \/ i + r = Len(w) + 1 /\ m = Whole /\ cut = 0
      <4>1. CASE (s + i) + r <= Len(b) /\ b[(s + i) + r] = [of |-> m + 1, at |-> 1]
        <5>1. i + r \in 1 .. Len(w) /\ (s + i) + r = s + (i + r)
          <6>1. (s + i) + r <= Len(b)
            BY <4>1
          <6> QED BY <1>1, <1>2, <3>3, <6>1
        <5>2. b[s + (i + r)] = w[i + r]
          BY <1>2, <5>1
        <5> QED BY <4>1, <5>1, <5>2
      <4>2. CASE (s + i) + r = Len(b) + 1 /\ m = Whole /\ cut = 0
        <5>1. (s + i) + r = (s + Len(w)) + 1
          BY <1>2, <4>2
        <5>2. i + r = Len(w) + 1
          <6>1. i \in Nat /\ s \in Nat /\ r \in Nat /\ Len(w) \in Nat
            BY <1>1, <1>2, <3>3
          <6> HIDE DEF s, r
          <6> QED BY <5>1, <6>1
        <5> QED BY <4>2, <5>2
      <4> QED BY <3>2, <4>1, <4>2 DEF PacketAt
    <3>7. PacketAt(w, i, m)' <=>
            /\ m \in 1 .. Whole'
            /\ i + r <= Len(w) + 1
            /\ \A k \in 1 .. r : w[i + (k - 1)] = [of |-> m, at |-> k]
            /\ \/ i + r <= Len(w) /\ w[i + r] = [of |-> m + 1, at |-> 1]
               \/ i + r = Len(w) + 1 /\ m = Whole' /\ cut' = 0
      BY DEF PacketAt, m
    <3> QED BY <1>5, <3>4, <3>5, <3>6, <3>7 DEF m
  <2> QED BY <1>5, <2>1, <2>2, <2>3 DEF Stream
<1> QED BY <1>5, <1>6, <1>7, <1>8

-----------------------------------------------------------------------------
(* The invariant holds at the start and every step keeps it.               *)

LEMMA UnreadType ==
  ASSUME TypeOK
  PROVE  /\ (IF part = "body" THEN data ELSE <<>>) \in Seq(Byte)
         /\ (IF part = "body" THEN data ELSE <<>>) \o buf \in Seq(Byte)
         /\ Unread \in Seq(Byte)
<1>1. (IF part = "body" THEN data ELSE <<>>) \in Seq(Byte) /\ buf \in Seq(Byte) /\ wire \in Seq(Byte)
  BY DEF TypeOK
<1>2. (IF part = "body" THEN data ELSE <<>>) \o buf \in Seq(Byte)
  BY <1>1, Joined
<1> QED BY <1>1, <1>2, Joined DEF Unread

LEMMA NoPrefix == \A s \in Seq(Byte) : <<>> \o s = s /\ s \o <<>> = s
BY ConcatEmptySeq

LEMMA InvInit == Init => IInv
<1> SUFFICES ASSUME Init PROVE IInv
  OBVIOUS
<1> USE DEF Init
<1>1. /\ Len(<<>>) = 0 /\ <<>> \in Seq(Byte) /\ <<>> \in Seq(Sent) /\ <<>> \in Seq(Seq(Byte))
      /\ <<>> \o <<>> = <<>>
  BY NoPrefix
<1>2. TypeOK
  <2>1. cut \in 0 .. Len(sent) /\ Len(buf) <= wanted /\ wanted \in Nat
    BY <1>1
  <2> QED BY <1>1, <2>1 DEF TypeOK
<1>3. ~ Writing /\ Whole = 0
  BY <1>1 DEF Writing, Whole
<1>4. Unread = <<>>
  BY <1>1 DEF Unread
<1>5. StreamInv
  BY <1>1, <1>3, <1>4 DEF StreamInv, Stream
<1> QED BY <1>1, <1>2, <1>3, <1>5 DEF IInv, WriterInv, ReaderInv, Framed

(* What is claimed depends on what was written and taken. *)
LEMMA FramedStays ==
  ASSUME TypeOK, Framed, taken' = taken, cut' = 0 => cut = 0, cut' # 0 => (cut = 0 \/ cut' = cut),
         Len(sent') \in Nat, Len(sent') >= Len(sent), \A i \in 1 .. Len(sent) : sent'[i] = sent[i]
  PROVE  Framed'
<1> SUFFICES ASSUME NEW i \in 1 .. Len(taken), cut' = 0 \/ i < cut'
             PROVE  i <= Len(sent') /\ taken[i] = Bytes(i, sent'[i])
  BY DEF Framed
<1>1. i <= Len(sent) /\ taken[i] = Bytes(i, sent[i])
  BY DEF Framed
<1>2. i \in 1 .. Len(sent) /\ i <= Len(sent')
  BY <1>1 DEF TypeOK
<1> QED BY <1>1, <1>2

LEMMA InvWriteStarts ==
  ASSUME IInv, NEW p \in Sent, writeStarts(p), TypeOK'
  PROVE  IInv'
<1> USE DEF IInv
<1>1. /\ ~ Writing /\ sent' = Append(sent, p) /\ written' = 0 /\ cut' = cut /\ wire' = wire
      /\ part' = part /\ buf' = buf /\ wanted' = wanted /\ data' = data /\ taken' = taken
  BY DEF writeStarts, readerVars
<1>2. /\ sent \in Seq(Sent) /\ Len(sent) \in Nat /\ Len(sent') = Len(sent) + 1
      /\ \A i \in 1 .. Len(sent) : sent'[i] = sent[i]
  BY <1>1 DEF TypeOK
<1>3. Whole' = Whole
  <2>1. sent' # <<>> /\ Last(sent') = p
    BY <1>1, <1>2 DEF Last
  <2>2. Writing'
    BY <1>1, <2>1, SizeType DEF Writing
  <2> QED BY <1>1, <1>2, <2>2 DEF Whole
<1>4. WriterInv'
  BY <1>1, <1>3 DEF WriterInv
<1>5. Framed'
  BY <1>1, <1>2, FramedStays
<1>6. StreamInv'
  <2> SUFFICES ASSUME Claimed', part' # "failed" PROVE Stream(Unread)'
    BY DEF StreamInv
  <2>1. Unread' = Unread /\ Stream(Unread) /\ Unread \in Seq(Byte)
    BY <1>1, UnreadType DEF Claimed, StreamInv, Unread
  <2> DEFINE b == Unread
  <2> QED BY <2>1, StartedStream DEF Stream
<1>7. ReaderInv'
  <2>1. ASSUME part = "body", Claimed PROVE sent'[Len(taken) + 1] = sent[Len(taken) + 1]
    <3>1. Stream(Unread) /\ Unread \in Seq(Byte)
      BY <2>1, UnreadType DEF StreamInv
    <3>2. Len(data) = 3 /\ data \in Seq(Byte) /\ buf \in Seq(Byte) /\ wire \in Seq(Byte)
      BY <2>1 DEF ReaderInv, TypeOK
    <3>3. data \o buf \in Seq(Byte) /\ Len(data \o buf) = 3 + Len(buf) /\ Len(buf) \in Nat
      <4>1. /\ Len(buf) \in Nat /\ data \o buf \in Seq(Byte)
            /\ Len(data \o buf) = Len(data) + Len(buf)
        BY <3>2, Joined, Zenon
      <4> QED BY <3>2, <4>1, Zenon
    <3>4. Stream((data \o buf) \o wire) /\ data \o buf # <<>>
      BY <2>1, <3>1, <3>3, EmptySeq DEF Unread
    <3>5. PacketAt((data \o buf) \o wire, 1, Len(taken) + 1)
      BY <2>1, <3>2, <3>3, <3>4, FirstPacket
    <3>6. Len(taken) + 1 \in 1 .. Len(sent)
      BY <1>2, <3>5, WholeType DEF PacketAt
    <3> QED BY <1>2, <3>6
  <2> QED BY <1>1, <2>1 DEF ReaderInv, Claimed
<1> QED BY <1>4, <1>5, <1>6, <1>7

LEMMA InvWritePiece ==
  ASSUME IInv, NEW k, writePiece(k), TypeOK'
  PROVE  IInv'
<1> USE DEF IInv
<1>1. /\ Writing /\ sent' = sent /\ written' = written + k
      /\ part' = part /\ buf' = buf /\ wanted' = wanted /\ data' = data /\ taken' = taken
  BY DEF writePiece, readerVars
<1>2. /\ Len(sent) \in Nat \ {0} /\ k \in Nat \ {0} /\ sent # <<>> /\ Last(sent) = sent[Len(sent)]
  BY WritePiece
<1>3. cut = 0 /\ Writing => written = 0
  BY DEF WriterInv
<1>4. /\ cut' = 0 => cut = 0 /\ k = Size(sent[Len(sent)]) /\ Whole = Len(sent) - 1 /\ Whole' = Len(sent)
      /\ cut' # 0 => Whole' = Whole /\ ((cut # 0 /\ cut' = cut) \/ (cut = 0 /\ cut' = Len(sent) /\ Whole = Len(sent) - 1))
  BY <1>3, WrittenWhole
<1>5. Len(taken) \in Nat /\ Whole \in Nat /\ cut \in Nat
  BY WholeType DEF TypeOK
<1>6. ~ (cut' = 0 /\ Writing')
  <2> SUFFICES ASSUME cut' = 0 PROVE ~ Writing'
    OBVIOUS
  <2>1. written' = Size(sent[Len(sent)])
    <3>1. written = 0 /\ k = Size(sent[Len(sent)]) /\ Size(sent[Len(sent)]) \in Nat
      BY <1>1, <1>3, <1>4, SizeType
    <3> QED BY <1>1, <3>1
  <2>2. Last(sent)' = sent[Len(sent)] /\ Size(sent[Len(sent)]) \in Nat
    BY <1>1, <1>2, SizeType
  <2> QED BY <2>1, <2>2 DEF Writing
<1>7. Claimed' => Claimed
  BY <1>1, <1>4 DEF Claimed
<1>8. WriterInv'
  BY <1>1, <1>4, <1>5, <1>6 DEF WriterInv
<1>9. Framed'
  BY <1>1, <1>2, <1>4, FramedStays
<1>10. ReaderInv'
  BY <1>1, <1>7 DEF ReaderInv
<1>11. StreamInv'
  <2> SUFFICES ASSUME Claimed', part' # "failed" PROVE Stream(Unread)'
    BY DEF StreamInv
  <2> DEFINE a == (IF part = "body" THEN data ELSE <<>>) \o buf
  <2>1. PICK piece \in Seq(Byte) :
          /\ wire' = wire \o piece /\ Len(piece) = k
          /\ \A i \in 1 .. k : piece[i] = [of |-> Len(sent), at |-> i]
    BY WritePiece
  <2>2. a \in Seq(Byte) /\ Unread \in Seq(Byte) /\ wire \in Seq(Byte)
    BY UnreadType DEF TypeOK
  <2>3. Unread = a \o wire /\ Unread' = a \o wire'
    BY <1>1 DEF Unread
  <2> HIDE DEF a
  <2>4. Unread' = Unread \o piece
    <3>1. (a \o wire) \o piece = a \o (wire \o piece)
      BY <2>2, Associative
    <3> QED BY <2>1, <2>3, <3>1, Zenon
  <2>5. Stream(Unread)
    BY <1>1, <1>7 DEF StreamInv
  <2>6. PICK b \in Seq(Byte) : b = Unread
    BY <2>2
  <2>7. Stream(b \o piece)'
    BY <1>3, <2>1, <2>5, <2>6, WrittenStream
  <2>8. Unread' = b \o piece
    BY <2>4, <2>6
  <2> QED BY <2>7, <2>8 DEF Stream, PacketAt
<1> QED BY <1>8, <1>9, <1>10, <1>11

(* A step of the reader that returns no packet keeps the stream.           *)
LEMMA InvReading ==
  ASSUME IInv, TypeOK', ReaderInv', UNCHANGED <<writerVars, taken>>,
         part' # "failed" => part # "failed" /\ Unread' = Unread
  PROVE  IInv'
<1> USE DEF IInv
<1>1. sent' = sent /\ written' = written /\ cut' = cut /\ taken' = taken
  BY DEF writerVars
<1>2. Whole' = Whole /\ (Claimed' <=> Claimed) /\ WriterInv' /\ Framed'
  BY <1>1 DEF Whole, Writing, Claimed, WriterInv, Framed
<1>3. StreamInv'
  <2> SUFFICES ASSUME Claimed', part' # "failed" PROVE Stream(Unread)'
    BY DEF StreamInv
  <2>1. Unread' = Unread /\ Stream(Unread)
    BY <1>2 DEF StreamInv
  <2> QED BY <1>1, <1>2, <2>1 DEF Stream, PacketAt
<1> QED BY <1>2, <1>3

LEMMA InvReadStarts ==
  ASSUME IInv, readStarts, TypeOK'
  PROVE  IInv'
<1> USE DEF IInv
<1>1. /\ part = "idle" /\ part' = "header" /\ wanted' = 3 /\ buf' = <<>> /\ wire' = wire
      /\ UNCHANGED <<writerVars, taken>>
  BY DEF readStarts
<1>2. buf = <<>>
  BY <1>1 DEF ReaderInv
<1>3. Unread' = Unread
  BY <1>1, <1>2 DEF Unread
<1> QED BY <1>1, <1>3, InvReading DEF ReaderInv

LEMMA InvReadPiece ==
  ASSUME IInv, NEW k \in 1 .. Len(wire), readPiece(k), TypeOK'
  PROVE  IInv'
<1> USE DEF IInv
<1> DEFINE a == IF part = "body" THEN data ELSE <<>>
<1>1. /\ part \in {"header", "body"} /\ part' = part /\ wanted' = wanted /\ data' = data
      /\ UNCHANGED <<writerVars, taken>>
  BY DEF readPiece
<1>2. a \in Seq(Byte)
  BY UnreadType
<1>3. (a \o buf') \o wire' = (a \o buf) \o wire
  BY <1>2, ReadPiece
<1>4. Unread' = Unread
  BY <1>1, <1>3 DEF Unread
<1>5. ReaderInv'
  BY <1>1 DEF ReaderInv, Claimed, writerVars
<1> QED BY <1>1, <1>4, <1>5, InvReading

(* What a read returns next is the next packet.                            *)
LEMMA InvTaken ==
  ASSUME IInv, TypeOK', NEW d \in Seq(Byte), Noted(d), UNCHANGED writerVars,
         part \in {"header", "body"}, part' = "idle", buf' = <<>>, wire' = wire,
         Unread = d \o wire, Claimed => Len(d) = Size(sent[Len(taken) + 1])
  PROVE  IInv'
<1> USE DEF IInv
<1>1. sent' = sent /\ written' = written /\ cut' = cut /\ Len(taken) \in Nat /\ cut \in Nat
  BY DEF writerVars, TypeOK
<1>2. Whole' = Whole /\ Whole \in Nat /\ Whole <= Len(sent) /\ wire \in Seq(Byte)
  BY <1>1, WholeType DEF Whole, Writing, TypeOK
<1>3. ReaderInv'
  BY DEF ReaderInv
<1>4. Unread' = wire
  <2>1. <<>> \o <<>> = <<>> /\ <<>> \o wire = wire
    BY <1>2, NoPrefix
  <2> QED BY <2>1 DEF Unread
<1>5. CASE Claimed
  <2>1. taken' = Append(taken, d)
    BY <1>5 DEF Claimed, Noted
  <2>2. Stream(d \o wire)
    BY <1>5 DEF StreamInv
  <2>3. /\ Len(taken) + 1 <= Whole /\ d = Bytes(Len(taken) + 1, sent[Len(taken) + 1])
        /\ Len(taken') = Len(taken) + 1
        /\ Claimed' => Stream(wire)'
    <3>1. PICK w \in Seq(Byte) : w = wire
      BY <1>2
    <3>2. /\ Len(taken) + 1 <= Whole /\ d = Bytes(Len(taken) + 1, sent[Len(taken) + 1])
          /\ Len(taken') = Len(taken) + 1 /\ (Claimed' => Stream(w)')
      BY <1>1, <1>5, <2>1, <2>2, <3>1, TakenPacket
    <3> QED BY <3>1, <3>2 DEF Stream, PacketAt
  <2>4. WriterInv'
    <3>1. cut # 0 => Len(taken) + 1 < cut
      BY <1>5 DEF Claimed
    <3> QED BY <1>1, <1>2, <2>3, <3>1 DEF WriterInv, Writing
  <2>5. Framed'
    <3> SUFFICES ASSUME NEW i \in 1 .. Len(taken'), cut = 0 \/ i < cut
                 PROVE  i <= Len(sent) /\ taken'[i] = Bytes(i, sent[i])
      BY <1>1 DEF Framed
    <3>1. CASE i = Len(taken) + 1
      <4>1. taken'[i] = d
        BY <2>1, <3>1 DEF TypeOK
      <4>2. Len(sent) \in Nat
        BY DEF TypeOK
      <4> QED BY <1>1, <1>2, <2>3, <3>1, <4>1, <4>2
    <3>2. CASE i # Len(taken) + 1
      <4>1. i \in 1 .. Len(taken)
        BY <1>1, <2>3, <3>2
      <4>2. taken'[i] = taken[i]
        BY <2>1, <4>1, AppendProperties DEF TypeOK
      <4> QED BY <4>1, <4>2 DEF Framed
    <3> QED BY <3>1, <3>2
  <2>6. StreamInv'
    <3> SUFFICES ASSUME Claimed' PROVE Stream(Unread)'
      BY DEF StreamInv
    <3>1. Stream(wire)'
      BY <2>3
    <3> DEFINE u == Unread'
    <3>2. u = wire'
      BY <1>4
    <3> HIDE DEF u
    <3>3. Stream(Unread)' = Stream(wire)'
      BY <3>2 DEF Stream, PacketAt, u
    <3> QED BY <3>1, <3>3
  <2> QED BY <1>3, <2>4, <2>5, <2>6
<1>6. CASE ~ Claimed
  <2>1. taken' = taken /\ ~ Claimed'
    BY <1>1, <1>6 DEF Claimed, Noted
  <2> QED BY <1>1, <1>2, <1>3, <2>1 DEF WriterInv, Writing, Framed, StreamInv
<1> QED BY <1>5, <1>6

(* The header that is read is the one of the next packet. *)
LEMMA NextHeader ==
  ASSUME IInv, part = "header", Len(buf) = wanted, Claimed
  PROVE  /\ IsHeader(buf) /\ buf[1] = [of |-> Len(taken) + 1, at |-> 1]
         /\ Len(taken) + 1 \in 1 .. Whole
<1> USE DEF IInv
<1>1. buf \in Seq(Byte) /\ wire \in Seq(Byte) /\ Len(buf) = 3 /\ Len(taken) \in Nat
  BY DEF ReaderInv, TypeOK
<1>2. <<>> \o buf = buf /\ buf # <<>>
  <2>1. Len(buf) # 0
    BY <1>1
  <2> QED BY <1>1, <2>1, NoPrefix, JoinedAt
<1>3. Stream(buf \o wire)
  BY <1>2 DEF StreamInv, Unread
<1>4. PacketAt(buf \o wire, 1, Len(taken) + 1)
  BY <1>1, <1>2, <1>3, FirstPacket
<1>5. Size(sent[Len(taken) + 1]) \in Nat /\ Size(sent[Len(taken) + 1]) >= 3 /\ Whole \in Nat
  BY SizeType, WholeType
<1>6. \A j \in 1 .. 3 : buf[j] = [of |-> Len(taken) + 1, at |-> j]
  <2> TAKE j \in 1 .. 3
  <2>1. j \in 1 .. Size(sent[Len(taken) + 1]) /\ 1 + (j - 1) = j
    BY <1>5
  <2>2. (buf \o wire)[j] = buf[j]
    BY <1>1, JoinedAt
  <2> QED BY <1>4, <2>1, <2>2 DEF PacketAt
<1>7. Len(taken) + 1 \in 1 .. Whole
  BY <1>4, <1>5 DEF PacketAt
<1> QED BY <1>6, <1>7 DEF IsHeader

LEMMA InvHeaderEnds ==
  ASSUME IInv, NEW size \in 0 .. MaxGarbage, headerEnds(size), TypeOK'
  PROVE  IInv'
<1> USE DEF IInv
<1>1. /\ part = "header" /\ Len(buf) = wanted /\ wanted = 3 /\ SizeField(buf, size)
      /\ data' = buf /\ buf' = <<>> /\ wire' = wire /\ UNCHANGED writerVars
  BY DEF headerEnds, ReaderInv
<1>2. buf \in Seq(Byte) /\ wire \in Seq(Byte) /\ <<>> \o buf = buf /\ buf \o <<>> = buf /\ size \in Nat
  BY StreamAssumption, NoPrefix DEF TypeOK
<1>3. Unread = buf \o wire
  BY <1>1, <1>2 DEF Unread
<1>4. Claimed => size = Size(sent[Len(taken) + 1])
  BY <1>1, NextHeader DEF SizeField
<1>5. CASE size > 3
  <2>1. part' = "body" /\ wanted' = size - 3 /\ taken' = taken
    BY <1>5 DEF headerEnds
  <2>2. Unread' = Unread
    BY <1>1, <1>2, <1>3, <2>1 DEF Unread
  <2>3. ReaderInv'
    <3>1. Claimed' => Claimed
      BY <1>1, <2>1 DEF Claimed, writerVars
    <3>2. wanted' + 3 = size /\ wanted' > 0
      BY <1>2, <1>5, <2>1
    <3> QED BY <1>1, <1>4, <2>1, <3>1, <3>2 DEF ReaderInv, writerVars
  <2> QED BY <1>1, <2>1, <2>2, <2>3, InvReading
<1>6. CASE ~ size > 3
  <2>1. part' = "idle" /\ Noted(buf)
    BY <1>6 DEF headerEnds
  <2>2. Claimed => Len(buf) = Size(sent[Len(taken) + 1])
    <3> SUFFICES ASSUME Claimed PROVE Size(sent[Len(taken) + 1]) = 3
      BY <1>1
    <3>1. Size(sent[Len(taken) + 1]) >= 3 /\ Size(sent[Len(taken) + 1]) = size
      BY <1>4, SizeType
    <3> QED BY <1>2, <1>6, <3>1
  <2>3. PICK d \in Seq(Byte) : d = buf
    BY <1>2
  <2> QED BY <1>1, <1>3, <2>1, <2>2, <2>3, InvTaken DEF Noted
<1> QED BY <1>5, <1>6

LEMMA InvBodyEnds ==
  ASSUME IInv, bodyEnds, TypeOK'
  PROVE  IInv'
<1> USE DEF IInv
<1>1. /\ part = "body" /\ Len(buf) = wanted /\ Noted(data \o buf)
      /\ part' = "idle" /\ buf' = <<>> /\ wire' = wire /\ UNCHANGED writerVars
  BY DEF bodyEnds, Noted
<1>2. /\ data \o buf \in Seq(Byte) /\ Len(data \o buf) = Len(data) + Len(buf)
      /\ Len(data) \in Nat /\ Len(buf) \in Nat
  BY Joined DEF TypeOK
<1>3. Unread = (data \o buf) \o wire
  BY <1>1 DEF Unread
<1>4. Claimed => Len(data \o buf) = Size(sent[Len(taken) + 1])
  <2> SUFFICES ASSUME Claimed PROVE Len(data \o buf) = Size(sent[Len(taken) + 1])
    OBVIOUS
  <2>1. Len(data) = 3 /\ Len(buf) + 3 = Size(sent[Len(taken) + 1])
    BY <1>1 DEF ReaderInv
  <2> QED BY <1>2, <2>1
<1>5. PICK d \in Seq(Byte) : d = data \o buf
  BY <1>2
<1> QED BY <1>1, <1>3, <1>4, <1>5, InvTaken DEF Noted

LEMMA InvReadFails ==
  ASSUME IInv, readFails, TypeOK'
  PROVE  IInv'
BY InvReading DEF IInv, readFails, ReaderInv

LEMMA InvClose ==
  ASSUME IInv, close, TypeOK'
  PROVE  IInv'
<1> USE DEF IInv
<1>1. /\ UNCHANGED <<writerVars, taken>> /\ wire' = wire
      /\ part' = part /\ buf' = buf /\ wanted' = wanted /\ data' = data
  BY DEF close, readerVars
<1>2. Unread' = Unread /\ ReaderInv'
  BY <1>1 DEF Unread, ReaderInv, Claimed, writerVars
<1> QED BY <1>1, <1>2, InvReading

LEMMA InvNext == IInv /\ [Writer \/ Reader \/ Terminating]_vars => IInv'
<1> SUFFICES ASSUME IInv, [Writer \/ Reader \/ Terminating]_vars PROVE IInv'
  OBVIOUS
<1>1. TypeOK'
  BY TypesNext DEF IInv
<1>2. CASE UNCHANGED vars
  <2>1. /\ UNCHANGED <<writerVars, taken>> /\ wire' = wire
        /\ part' = part /\ buf' = buf /\ wanted' = wanted /\ data' = data
    BY <1>2 DEF vars, readerVars
  <2>2. Unread' = Unread /\ ReaderInv'
    BY <2>1 DEF Unread, ReaderInv, Claimed, writerVars, IInv
  <2> QED BY <1>1, <2>1, <2>2, InvReading
<1>3. CASE Writer
  BY <1>1, <1>3, InvWriteStarts, InvWritePiece, InvClose DEF Writer
<1>4. CASE Reader
  BY <1>1, <1>4, InvReadStarts, InvReadPiece, InvHeaderEnds, InvBodyEnds, InvReadFails DEF Reader
<1> QED BY <1>2, <1>3, <1>4 DEF Terminating

THEOREM StreamInvariant == Spec => []IInv
BY InvInit, InvNext, PTL DEF Spec

(* The types, for every set of packets and every length of a body.         *)
THEOREM StreamTypeCorrect == Spec => []TypeOK
<1>1. IInv => TypeOK
  BY DEF IInv
<1> QED BY <1>1, StreamInvariant, PTL

(* Every packet that PSCProxyProtocol::read returns is the one that was    *)
(* given to Socket::write at the same place, whole, in whatever pieces the *)
(* stream came, until ::write takes a part of a packet.                    *)
THEOREM FramedHolds == Spec => []Framed
<1>1. IInv => Framed
  BY DEF IInv
<1> QED BY <1>1, StreamInvariant, PTL

-----------------------------------------------------------------------------
(* The queue of packets that the stream is.                                *)

LEMMA Appended ==
  ASSUME NEW s \in Seq(Sent), NEW n \in Nat, n <= Len(s), NEW p \in Sent
  PROVE  SubSeq(Append(s, p), n + 1, Len(s) + 1) = Append(SubSeq(s, n + 1, Len(s)), p)
<1> DEFINE a == SubSeq(Append(s, p), n + 1, Len(s) + 1)
           b == Append(SubSeq(s, n + 1, Len(s)), p)
<1>1. Append(s, p) \in Seq(Sent) /\ Len(s) \in Nat /\ SubSeq(s, n + 1, Len(s)) \in Seq(Sent)
  BY SubSeqProperties
<1>2. a \in Seq(Sent) /\ b \in Seq(Sent)
  BY <1>1, SubSeqProperties
<1>3. Len(SubSeq(s, n + 1, Len(s))) = Len(s) - n
  BY <1>1
<1>4. Len(a) = Len(s) + 1 - n /\ Len(b) = Len(s) + 1 - n
  BY <1>1, <1>3
<1>5. \A i \in 1 .. Len(s) + 1 - n : a[i] = b[i]
  <2> TAKE i \in 1 .. Len(s) + 1 - n
  <2>1. a[i] = Append(s, p)[n + i]
    BY <1>1
  <2>2. CASE i <= Len(s) - n
    <3>1. n + i \in 1 .. Len(s) /\ i \in 1 .. Len(s) - n
      BY <1>1, <2>2
    <3>2. b[i] = s[n + i]
      BY <1>1, <1>3, <3>1
    <3> QED BY <1>1, <2>1, <3>1, <3>2
  <2>3. CASE i = Len(s) - n + 1
    <3>1. n + i = Len(s) + 1
      BY <1>1, <2>3
    <3>2. b[i] = p
      BY <1>1, <1>3, <2>3
    <3> QED BY <1>1, <2>1, <3>1, <3>2
  <2> QED BY <1>1, <2>2, <2>3
<1> HIDE DEF a, b
<1> QED BY <1>2, <1>4, <1>5, SeqEqual DEF a, b

LEMMA FirstOfRest ==
  ASSUME NEW s \in Seq(Sent), NEW n \in Nat, n < Len(s)
  PROVE  /\ SubSeq(s, n + 1, Len(s)) # <<>>
         /\ Head(SubSeq(s, n + 1, Len(s))) = s[n + 1]
         /\ Tail(SubSeq(s, n + 1, Len(s))) = SubSeq(s, n + 2, Len(s))
<1> DEFINE q == SubSeq(s, n + 1, Len(s))
           r == SubSeq(s, n + 2, Len(s))
<1>1. Len(s) \in Nat /\ q \in Seq(Sent) /\ Len(q) = Len(s) - n
  BY SubSeqProperties
<1>2. \A i \in 1 .. Len(s) - n : q[i] = s[n + i]
  BY <1>1
<1>3. r \in Seq(Sent) /\ Len(r) = Len(s) - n - 1 /\ \A i \in 1 .. Len(s) - n - 1 : r[i] = s[n + 1 + i]
  BY <1>1, SubSeqProperties
<1> HIDE DEF q, r
<1>4. q # <<>> /\ Head(q) = q[1] /\ q[1] = s[n + 1]
  BY <1>1, <1>2
<1>5. Tail(q) \in Seq(Sent) /\ Len(Tail(q)) = Len(s) - n - 1 /\ \A i \in 1 .. Len(s) - n - 1 : Tail(q)[i] = q[i + 1]
  BY <1>1, <1>4
<1>6. \A i \in 1 .. Len(s) - n - 1 : Tail(q)[i] = r[i]
  <2> TAKE i \in 1 .. Len(s) - n - 1
  <2>1. i + 1 \in 1 .. Len(s) - n /\ n + (i + 1) = n + 1 + i
    BY <1>1
  <2>2. q[i + 1] = s[n + (i + 1)]
    BY <1>2, <2>1
  <2> QED BY <1>3, <1>5, <2>1, <2>2
<1>7. Tail(q) = r
  BY <1>3, <1>5, <1>6, SeqEqual
<1> QED BY <1>4, <1>7 DEF q, r

LEMMA NothingRests ==
  ASSUME NEW s \in Seq(Sent), NEW n \in Nat, n >= Len(s)
  PROVE  SubSeq(s, n + 1, Len(s)) = <<>> /\ SubSeq(s, n + 2, Len(s)) = <<>>
<1>1. Len(s) \in Nat
  OBVIOUS
<1>2. SubSeq(s, n + 1, Len(s)) \in Seq(Sent) /\ SubSeq(s, n + 2, Len(s)) \in Seq(Sent)
  BY <1>1, SubSeqProperties
<1>3. Len(SubSeq(s, n + 1, Len(s))) = 0 /\ Len(SubSeq(s, n + 2, Len(s))) = 0
  BY <1>1
<1> QED BY <1>2, <1>3, EmptySeq

(* The queue's variables. *)
Arrived == IF cut # 0 THEN <<>>
           ELSE SubSeq(sent, Len(taken) + (IF part = "failed" THEN 2 ELSE 1), Len(sent))
Kept    == IF cut # 0 THEN NoData ELSE Value(IF Reading THEN before ELSE data)
Open    == cut = 0 /\ part # "failed"

LEMMA QueueVars == Queue!vars = <<Arrived, shut, Kept, Open>>
BY DEF Queue!vars, Arrived, Kept, Open

LEMMA QueueInit == Init => Queue!Init
<1> SUFFICES ASSUME Init PROVE Queue!Init
  OBVIOUS
<1>1. cut = 0 /\ part = "idle" /\ sent = <<>> /\ taken = <<>> /\ data = <<>> /\ shut = FALSE
  BY DEF Init
<1>2. <<>> \in Seq(Sent) /\ Len(<<>>) = 0
  OBVIOUS
<1>3. SubSeq(<<>>, 1, 0) = <<>>
  BY <1>2, NothingRests
<1>4. Value(<<>>) = NoData
  BY DEF Value
<1> QED BY <1>1, <1>2, <1>3, <1>4 DEF Queue!Init, Queue!NoData, NoData, Reading

(* From the first packet that is written in part the queue is torn. *)
LEMMA TornStep == cut' # 0 => Queue!tear
BY DEF Queue!tear, Queue!NoData, NoData

LEMMA QueueStutters ==
  ASSUME UNCHANGED <<Arrived, shut, Kept, Open>>
  PROVE  UNCHANGED Queue!vars
BY QueueVars DEF Queue!vars, Arrived, Kept, Open

LEMMA QueueReads ==
  ASSUME Open, NEW r \in ReadResults(Arrived, shut, Kept),
         Kept' = r.data, Open' = r.ok, Arrived' = Rest(Arrived), shut' = shut
  PROVE  Queue!read
BY DEF Queue!read, Arrived, Kept, Open, ReadResults, Queue!ReadResults, Rest, Queue!Rest,
       Header, Queue!Header, ResetRequest, Queue!ResetRequest, Prepare, Queue!Prepare

-----------------------------------------------------------------------------
(* Each step before the first packet written in part is one of the queue.  *)

QueueStep == [Queue!Next]_(Queue!vars)

LEMMA QueueWriteStarts ==
  ASSUME IInv, DataInv, cut' = 0, NEW p \in Sent, writeStarts(p)
  PROVE  DataInv' /\ QueueStep
<1>1. /\ ~ shut /\ sent' = Append(sent, p) /\ cut = 0 /\ shut' = shut
      /\ part' = part /\ buf' = buf /\ data' = data /\ before' = before /\ taken' = taken
  BY DEF writeStarts, readerVars
<1>2. /\ sent \in Seq(Sent) /\ Len(sent) \in Nat /\ Len(sent') = Len(sent) + 1
      /\ \A i \in 1 .. Len(sent) : sent'[i] = sent[i]
      /\ Len(taken) \in Nat /\ Len(taken) <= Len(sent) /\ (part = "failed" => Len(taken) + 1 <= Len(sent))
  BY <1>1, WholeType DEF IInv, TypeOK, WriterInv, DataInv
<1>3. DataInv'
  BY <1>1, <1>2 DEF DataInv, OfSent
<1>4. Arrived' = Append(Arrived, p)
  <2> DEFINE n == IF part = "failed" THEN Len(taken) + 1 ELSE Len(taken)
  <2>1. n \in Nat /\ n <= Len(sent) /\ n + 1 = Len(taken) + (IF part = "failed" THEN 2 ELSE 1)
    BY <1>2
  <2> HIDE DEF n
  <2>2. SubSeq(Append(sent, p), n + 1, Len(sent) + 1) = Append(SubSeq(sent, n + 1, Len(sent)), p)
    BY <1>2, <2>1, Appended
  <2> QED BY <1>1, <1>2, <2>1, <2>2 DEF Arrived
<1>5. Kept' = Kept /\ Open' = Open
  BY <1>1, <1>2 DEF Kept, Open, Value, Reading, DataInv, OfSent
<1>6. p \in Request \cup Answer
  BY StreamAssumption
<1>7. Queue!write(p)
  BY <1>1, <1>4, <1>5 DEF Queue!write, Arrived, Kept, Open
<1>8. p \in Queue!Request \cup Queue!Answer
  BY <1>6 DEF Request, Queue!Request, Answer, Queue!Answer, Auth, Queue!Auth, ResetRequest, Queue!ResetRequest,
              CmdRequest, Queue!CmdRequest, AuthReply, Queue!AuthReply, ResetReply, Queue!ResetReply,
              CmdReply, Queue!CmdReply, Prepare, Queue!Prepare
<1> QED BY <1>3, <1>7, <1>8 DEF QueueStep, Queue!Next

(* A step that leaves what the queue shows. *)
LEMMA QueueSame ==
  ASSUME DataInv, cut' = 0, UNCHANGED <<sent, cut, shut, part, data, before, taken>>
  PROVE  DataInv' /\ QueueStep
<1>1. DataInv'
  BY DEF DataInv, OfSent
<1>2. UNCHANGED <<Arrived, shut, Kept, Open>>
  BY DEF Arrived, Kept, Open, Value, Reading
<1> QED BY <1>1, <1>2, QueueStutters DEF QueueStep

LEMMA QueueWritePiece ==
  ASSUME IInv, DataInv, cut' = 0, NEW k, writePiece(k)
  PROVE  DataInv' /\ QueueStep
<1>1. UNCHANGED <<sent, shut, part, data, before, taken>>
  BY DEF writePiece, readerVars
<1>2. cut = 0
  <2>1. TypeOK /\ (cut = 0 /\ Writing => written = 0)
    BY DEF IInv, WriterInv
  <2> QED BY <2>1, WrittenWhole
<1> QED BY <1>1, <1>2, QueueSame

LEMMA QueueClose ==
  ASSUME DataInv, cut' = 0, close
  PROVE  DataInv' /\ QueueStep
<1>1. shut' = TRUE /\ UNCHANGED <<sent, cut, part, data, before, taken>>
  BY DEF close, writerVars, readerVars
<1>2. DataInv'
  BY <1>1 DEF DataInv, OfSent
<1>3. UNCHANGED <<Arrived, Kept, Open>>
  BY <1>1 DEF Arrived, Kept, Open, Value, Reading
<1>4. Queue!close
  BY <1>1, <1>3 DEF Queue!close, Arrived, Kept, Open
<1> QED BY <1>2, <1>4 DEF QueueStep, Queue!Next

LEMMA QueueReadStarts ==
  ASSUME IInv, DataInv, cut' = 0, readStarts
  PROVE  DataInv' /\ QueueStep
<1>1. /\ part = "idle" /\ part' = "header" /\ before' = data /\ cut = 0
      /\ UNCHANGED <<sent, cut, shut, data, taken>>
  BY DEF readStarts, writerVars
<1>2. DataInv'
  BY <1>1 DEF DataInv, OfSent
<1>3. UNCHANGED <<Arrived, shut, Kept, Open>>
  BY <1>1 DEF Arrived, Kept, Open, Value, Reading
<1> QED BY <1>2, <1>3, QueueStutters DEF QueueStep

(* A read returns the first packet of the queue. *)
LEMMA QueueTaken ==
  ASSUME IInv, DataInv, cut' = 0, UNCHANGED <<sent, cut, shut, before>>,
         Reading, part' = "idle", taken' = Append(taken, data'),
         Len(taken) + 1 \in 1 .. Len(sent), data' = Bytes(Len(taken) + 1, sent[Len(taken) + 1])
  PROVE  DataInv' /\ QueueStep
<1> DEFINE n == Len(taken) + 1
<1>1. sent \in Seq(Sent) /\ Len(sent) \in Nat /\ Len(taken) \in Nat /\ Len(taken') = n /\ cut = 0
  BY DEF IInv, TypeOK
<1>2. Size(sent[n]) \in Nat /\ 1 \in 1 .. Size(sent[n])
  BY SizeType
<1>3. /\ data' \in Seq(Byte) /\ Len(data') = Size(sent[n]) /\ data'[1] = [of |-> n, at |-> 1]
      /\ data' # <<>>
  <2>1. n \in Nat
    BY <1>1
  <2>2. data' \in Seq(Byte) /\ Len(data') = Size(sent[n]) /\ data'[1] = [of |-> n, at |-> 1]
    BY <1>2, <2>1, BytesType
  <2>3. Len(data') # 0
    BY <1>2, <2>2
  <2> QED BY <2>2, <2>3, EmptySeq
<1>4. Value(data') = sent[n] /\ Kept' = sent[n]
  BY <1>1, <1>3 DEF Value, Kept, Reading
<1>5. DataInv'
  BY <1>1, <1>3 DEF DataInv, OfSent
<1>6. Arrived # <<>> /\ Head(Arrived) = sent[n] /\ Tail(Arrived) = SubSeq(sent, Len(taken) + 2, Len(sent))
  <2>1. Len(taken) < Len(sent) /\ part # "failed"
    BY <1>1 DEF Reading
  <2> QED BY <1>1, <2>1, FirstOfRest DEF Arrived
<1>7. Arrived' = Rest(Arrived)
  <2>1. Len(taken') + 1 = Len(taken) + 2
    BY <1>1
  <2> QED BY <1>1, <1>6, <2>1 DEF Arrived, Rest
<1>8. Open /\ Open' = TRUE
  BY <1>1 DEF Open, Reading
<1>9. [ok |-> TRUE, data |-> sent[n]] \in ReadResults(Arrived, shut, Kept)
  BY <1>6 DEF ReadResults
<1>10. Queue!read
  BY <1>4, <1>7, <1>8, <1>9, QueueReads
<1> QED BY <1>5, <1>10 DEF QueueStep, Queue!Next

LEMMA QueueHeaderEnds ==
  ASSUME IInv, DataInv, cut' = 0, NEW size \in 0 .. MaxGarbage, headerEnds(size)
  PROVE  DataInv' /\ QueueStep
<1> USE DEF IInv
<1>1. /\ part = "header" /\ Len(buf) = wanted /\ wanted = 3 /\ SizeField(buf, size) /\ data' = buf
      /\ UNCHANGED <<sent, cut, shut, before>> /\ cut = 0
  BY DEF headerEnds, ReaderInv, writerVars
<1>2. Claimed /\ IsHeader(buf) /\ buf[1] = [of |-> Len(taken) + 1, at |-> 1] /\ Len(taken) + 1 \in 1 .. Whole
  BY <1>1, NextHeader DEF Claimed
<1>3. Len(taken) + 1 \in 1 .. Len(sent) /\ Len(taken) \in Nat
  BY <1>2, WholeType DEF TypeOK
<1>4. CASE size > 3
  <2>1. part' = "body" /\ taken' = taken
    BY <1>4 DEF headerEnds
  <2>2. DataInv'
    BY <1>1, <1>2, <1>3, <2>1 DEF DataInv, OfSent
  <2>3. UNCHANGED <<Arrived, shut, Kept, Open>>
    BY <1>1, <2>1 DEF Arrived, Kept, Open, Value, Reading
  <2> QED BY <2>2, <2>3, QueueStutters DEF QueueStep
<1>5. CASE ~ size > 3
  <2>1. part' = "idle" /\ taken' = Append(taken, buf)
    BY <1>1, <1>5 DEF headerEnds, Noted
  <2>2. Size(sent[Len(taken) + 1]) = 3
    <3>1. size = Size(sent[Len(taken) + 1])
      BY <1>1, <1>2 DEF SizeField
    <3> QED BY <1>5, <3>1, SizeType
  <2>3. buf = Bytes(Len(taken) + 1, sent[Len(taken) + 1])
    <3>1. buf \in Seq(Byte) /\ Len(buf) = 3 /\ \A j \in 1 .. 3 : buf[j] = [of |-> Len(taken) + 1, at |-> j]
      BY <1>1, <1>2 DEF TypeOK, IsHeader
    <3> DEFINE n == Len(taken) + 1
               b == Bytes(n, sent[n])
    <3>2. n \in Nat
      BY <1>3
    <3>3. b \in Seq(Byte) /\ Len(b) = 3 /\ \A j \in 1 .. 3 : b[j] = [of |-> n, at |-> j]
      <4>1. /\ b \in Seq(Byte) /\ Len(b) = Size(sent[n])
            /\ \A j \in 1 .. Size(sent[n]) : b[j] = [of |-> n, at |-> j]
        BY <3>2, BytesType
      <4> HIDE DEF b, n
      <4>2. Size(sent[n]) = 3
        BY <2>2 DEF n
      <4> QED BY <4>1, <4>2
    <3> HIDE DEF b
    <3>4. \A j \in 1 .. 3 : buf[j] = b[j]
      BY <3>1, <3>3
    <3>5. buf = b
      BY <3>1, <3>3, <3>4, SeqEqual
    <3> QED BY <3>5, Zenon DEF b
  <2> QED BY <1>1, <1>3, <2>1, <2>3, QueueTaken DEF Reading
<1> QED BY <1>4, <1>5

(* The header that the reader of a body has is the one of the next packet. *)
LEMMA NextBody ==
  ASSUME IInv, part = "body", Claimed
  PROVE  /\ Len(taken) + 1 \in 1 .. Len(sent) /\ data # <<>> /\ Len(data) = 3 /\ data[1].of = Len(taken) + 1
         /\ Size(sent[Len(taken) + 1]) > 3
<1> USE DEF IInv
<1>1. /\ data \in Seq(Byte) /\ buf \in Seq(Byte) /\ wire \in Seq(Byte) /\ Len(taken) \in Nat
      /\ Len(data) = 3 /\ wanted \in Nat /\ wanted + 3 = Size(sent[Len(taken) + 1]) /\ wanted > 0
  BY DEF ReaderInv, TypeOK
<1>2. data # <<>> /\ 1 \in 1 .. Len(data)
  <2>1. Len(data) # 0
    BY <1>1
  <2>2. data # <<>>
    BY <1>1, <2>1, JoinedAt
  <2> QED BY <1>1, <2>2
<1>3. buf \o wire \in Seq(Byte) /\ Unread = data \o (buf \o wire)
  <2>1. buf \o wire \in Seq(Byte)
    BY <1>1, Joined, Zenon
  <2>2. (data \o buf) \o wire = data \o (buf \o wire)
    BY <1>1, Associative, Zenon
  <2> QED BY <2>1, <2>2, Zenon DEF Unread
<1>4. Stream(data \o (buf \o wire))
  BY <1>3 DEF StreamInv
<1>5. PacketAt(data \o (buf \o wire), 1, Len(taken) + 1)
  BY <1>1, <1>2, <1>3, <1>4, FirstPacket
<1>6. (data \o (buf \o wire))[1] = data[1]
  BY <1>1, <1>2, <1>3, JoinedAt
<1>7. data[1] = [of |-> Len(taken) + 1, at |-> 1]
  <2>1. data \o (buf \o wire) # <<>>
    <3>1. Len(data \o (buf \o wire)) = 3 + Len(buf \o wire) /\ Len(buf \o wire) \in Nat /\ data \o (buf \o wire) \in Seq(Byte)
      <4>1. /\ Len(buf \o wire) \in Nat /\ data \o (buf \o wire) \in Seq(Byte)
            /\ Len(data \o (buf \o wire)) = Len(data) + Len(buf \o wire)
        BY <1>1, <1>3, Joined, Zenon
      <4> QED BY <1>1, <4>1, Zenon
    <3>2. Len(data \o (buf \o wire)) # 0
      BY <3>1
    <3> QED BY <3>1, <3>2, JoinedAt
  <2> QED BY <1>4, <1>6, <2>1 DEF Stream
<1>8. Len(taken) + 1 \in 1 .. Len(sent)
  BY <1>1, <1>5, WholeType DEF PacketAt, TypeOK
<1> QED BY <1>1, <1>2, <1>7, <1>8

LEMMA QueueBodyEnds ==
  ASSUME IInv, DataInv, cut' = 0, bodyEnds, Framed', TypeOK'
  PROVE  DataInv' /\ QueueStep
<1>1. /\ part = "body" /\ Len(buf) = wanted /\ data' = data \o buf /\ part' = "idle"
      /\ UNCHANGED <<sent, cut, shut, before>> /\ cut = 0 /\ taken' = Append(taken, data')
  BY DEF bodyEnds, writerVars, Noted
<1>2. Len(taken) + 1 \in 1 .. Len(sent)
  BY <1>1, NextBody DEF Claimed
<1>3. data' = Bytes(Len(taken) + 1, sent[Len(taken) + 1])
  <2>1. Len(taken') = Len(taken) + 1 /\ taken'[Len(taken) + 1] = data' /\ Len(taken) + 1 \in 1 .. Len(taken')
    BY <1>1 DEF IInv, TypeOK
  <2> QED BY <1>1, <2>1 DEF Framed
<1> QED BY <1>1, <1>2, <1>3, QueueTaken DEF Reading

(* A read that fails leaves the caller's data, or the header alone.        *)
LEMMA QueueReadFails ==
  ASSUME IInv, DataInv, cut' = 0, readFails
  PROVE  DataInv' /\ QueueStep
<1> DEFINE n == Len(taken) + 1
<1>1. /\ Reading /\ part' = "failed" /\ (buf # <<>> \/ shut) /\ cut = 0
      /\ UNCHANGED <<sent, cut, shut, data, before, taken>>
  BY DEF readFails, Reading, writerVars
<1>2. sent \in Seq(Sent) /\ Len(sent) \in Nat /\ Len(taken) \in Nat /\ Len(taken) <= Len(sent) /\ Claimed
  BY <1>1, WholeType DEF IInv, TypeOK, WriterInv, Claimed
<1>3. ~ shut => Len(taken) < Len(sent)
  <2> SUFFICES ASSUME ~ shut PROVE Len(taken) < Len(sent)
    OBVIOUS
  <2>1. CASE part = "body"
    BY <1>2, <2>1, NextBody
  <2>2. CASE part = "header"
    <3>1. buf \in Seq(Byte) /\ wire \in Seq(Byte) /\ buf # <<>> /\ <<>> \o buf = buf
      BY <1>1, NoPrefix DEF IInv, TypeOK
    <3>2. Stream(buf \o wire)
      BY <1>2, <2>2, <3>1 DEF IInv, StreamInv, Unread
    <3>3. PacketAt(buf \o wire, 1, n)
      BY <1>2, <3>1, <3>2, FirstPacket DEF IInv
    <3> QED BY <1>2, <3>3, WholeType DEF PacketAt, IInv
  <2> QED BY <1>1, <2>1, <2>2 DEF Reading
<1>4. DataInv'
  BY <1>1, <1>3 DEF DataInv, OfSent
<1>5. Arrived' = Rest(Arrived)
  <2>1. Arrived = SubSeq(sent, Len(taken) + 1, Len(sent)) /\ Arrived' = SubSeq(sent, Len(taken) + 2, Len(sent))
    BY <1>1 DEF Arrived, Reading
  <2>2. CASE Len(taken) < Len(sent)
    BY <1>2, <2>1, <2>2, FirstOfRest DEF Rest
  <2>3. CASE Len(taken) >= Len(sent)
    BY <1>2, <2>1, <2>3, NothingRests DEF Rest
  <2> QED BY <1>2, <2>2, <2>3
<1>6. Open /\ Open' = FALSE
  BY <1>1 DEF Open, Reading
<1>7. [ok |-> FALSE, data |-> Kept'] \in ReadResults(Arrived, shut, Kept)
  <2>1. CASE part = "header"
    <3>1. Kept' = Kept
      BY <1>1, <2>1 DEF Kept, Value, Reading, DataInv
    <3>2. Arrived = <<>> => shut
      <4> SUFFICES ASSUME ~ shut PROVE Arrived # <<>>
        OBVIOUS
      <4>1. part # "failed" /\ Len(taken) < Len(sent)
        BY <1>3, <2>1
      <4> QED BY <1>1, <1>2, <4>1, FirstOfRest DEF Arrived
    <3> QED BY <3>1, <3>2 DEF ReadResults
  <2>2. CASE part = "body"
    <3>1. n \in 1 .. Len(sent) /\ data # <<>> /\ Len(data) = 3 /\ data[1].of = n /\ Size(sent[n]) > 3
      BY <1>2, <2>2, NextBody
    <3>2. Size(sent[n]) \in Nat /\ sent[n] # ResetRequest
      BY <3>1, SizeType
    <3>3. Kept' = Header(sent[n])
      BY <1>1, <3>1, <3>2 DEF Kept, Value, Reading
    <3>4. Arrived # <<>> /\ Head(Arrived) = sent[n]
      <4>1. part # "failed" /\ Len(taken) < Len(sent)
        BY <1>2, <2>2, <3>1
      <4> QED BY <1>1, <1>2, <4>1, FirstOfRest DEF Arrived
    <3> QED BY <3>2, <3>3, <3>4 DEF ReadResults
  <2> QED BY <1>1, <2>1, <2>2 DEF Reading
<1>8. Queue!read
  <2>1. PICK v : v = Kept'
    OBVIOUS
  <2>2. [ok |-> FALSE, data |-> v] \in ReadResults(Arrived, shut, Kept)
    BY <1>7, <2>1
  <2> QED BY <1>1, <1>5, <1>6, <2>1, <2>2, QueueReads
<1> QED BY <1>4, <1>8 DEF QueueStep, Queue!Next

LEMMA QueueNext ==
  ASSUME IInv, DataInv, [Writer \/ Reader \/ Terminating]_vars, IInv'
  PROVE  DataInv' /\ QueueStep
<1>1. CASE cut' # 0
  BY <1>1, TornStep DEF DataInv, QueueStep, Queue!Next
<1>2. CASE cut' = 0
  <2>1. CASE UNCHANGED vars
    BY <1>2, <2>1, QueueSame DEF vars, writerVars, readerVars
  <2>2. CASE Writer
    BY <1>2, <2>2, QueueWriteStarts, QueueWritePiece, QueueClose DEF Writer
  <2>3. CASE Reader
    <3>1. CASE \E k \in 1 .. Len(wire) : readPiece(k)
      BY <1>2, <3>1, QueueSame DEF readPiece, writerVars
    <3>2. CASE readStarts
      BY <1>2, <3>2, QueueReadStarts
    <3>3. CASE \E size \in 0 .. MaxGarbage : headerEnds(size)
      BY <1>2, <3>3, QueueHeaderEnds
    <3>4. CASE bodyEnds
      BY <1>2, <3>4, QueueBodyEnds DEF IInv
    <3>5. CASE readFails
      BY <1>2, <3>5, QueueReadFails
    <3> QED BY <2>3, <3>1, <3>2, <3>3, <3>4, <3>5 DEF Reader
  <2> QED BY <2>1, <2>2, <2>3 DEF Terminating
<1> QED BY <1>1, <1>2

(* Until ::write takes a part of a packet, the bytes between Socket::write *)
(* and PSCProxyProtocol::read behave as the queue of packets of            *)
(* Connection: a read gives the next packet whole, or fails and leaves     *)
(* what ReadResults says.                                                  *)
THEOREM StreamIsQueue == Spec => IsQueue
<1>1. Init => DataInv
  BY DEF Init, DataInv, OfSent
<1>2. IInv /\ IInv' /\ DataInv /\ [Writer \/ Reader \/ Terminating]_vars
        => DataInv' /\ [Queue!Next]_(Queue!vars)
  BY QueueNext DEF QueueStep
<1> QED BY <1>1, <1>2, QueueInit, StreamInvariant, PTL DEF Spec, IsQueue, Queue!Spec
=============================================================================
