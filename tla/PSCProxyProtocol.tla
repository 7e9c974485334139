--------------------------- MODULE PSCProxyProtocol ---------------------------
(***************************************************************************)
(* PSCProxyProtocol: the bytes of a packet.  A packet begins with its size *)
(* in two bytes, high byte first, and its type in one; the rest is its     *)
(* body.  A PacketData is a sequence of bytes.                             *)
(*                                                                         *)
(* Packets is how the two programs are modelled on: there a packet is one  *)
(* value.  This module holds that against the bytes.                       *)
(***************************************************************************)
EXTENDS Naturals, Sequences

CONSTANTS
  ByteSize,      \* a byte is one of 0 .. ByteSize - 1
  Strings,       \* users and passwords: sequences of bytes without a 0
  Bodies,        \* ATRs, commands and answers: sequences of bytes
  GarbledBodies, \* what may follow the header of a packet that was cut on its way
  user, pass,    \* the server's credentials
  None           \* no value

Fits(n) == 3 + n < ByteSize * ByteSize

ASSUME ProtocolAssumption ==
  /\ ByteSize \in Nat /\ ByteSize > 5
  /\ Strings \subseteq Seq(1 .. ByteSize - 1) /\ user \in Strings /\ pass \in Strings
  /\ Bodies \subseteq Seq(0 .. ByteSize - 1) /\ GarbledBodies \subseteq Seq(0 .. ByteSize - 1)
  /\ \A u, p \in Strings : Fits(1 + Len(u) + 1 + Len(p) + 1)
  /\ \A b \in Bodies \cup GarbledBodies : Fits(Len(b))

VARIABLES
  data,    \* a PacketData
  packet,  \* history: the same as Packets sees it
  given    \* history: the body it was made of

vars == <<data, packet, given>>

P == INSTANCE Packets WITH Cmd <- Bodies \ {<<0>>}, Zero <- <<0>>

PacketType ==
  [AUTH_REQUEST |-> 0, AUTH_REPLY |-> 1, RESET_REQUEST |-> 2, RESET_REPLY |-> 3,
   CMD_REQUEST |-> 4, CMD_REPLY |-> 5]

protoVersion == 0
AUTHORIZED   == 0
UNAUTHORIZED == 1

-----------------------------------------------------------------------------
(* A uint16_t in two bytes. *)
setSize(size) == <<(size \div ByteSize) % ByteSize, size % ByteSize>>

getSize(d) == d[1] * ByteSize + d[2]

prepare(t, body) == setSize(3 + Len(body)) \o <<PacketType[t]>> \o body

checkPacketSanity(d, t) == Len(d) # 0 /\ getSize(d) = Len(d) /\ d[3] = PacketType[t]

(* Mutant of body: the type byte is taken for the first of the body.       *)
bodyWithType(d) == SubSeq(d, 3, Len(d))

body(d) == SubSeq(d, 4, Len(d))

(* A string as c_str() gives it. *)
CStr(s) == Append(s, 0)

(* Mutant of Agrees: only the bytes of the string itself are compared.     *)
AgreesWithPrefix(d, from, s, n) ==
  n = Len(s) + 1 /\ from + n - 1 <= Len(d) /\ \A i \in 1 .. Len(s) : d[from + i - 1] = s[i]

(* The loop that compares the bytes of d from a place on with a string     *)
(* ends after n bytes, with a 0 on both sides and all equal before it.     *)
Agrees(d, from, s, n) ==
  /\ n \in 1 .. Len(CStr(s)) /\ from + n - 1 <= Len(d)
  /\ \A i \in 1 .. n : d[from + i - 1] = CStr(s)[i] /\ (CStr(s)[i] = 0 <=> i = n)

parseAuth(d, u, p) ==
  /\ checkPacketSanity(d, "AUTH_REQUEST")
  /\ d[4] = protoVersion
  /\ \E n \in 1 .. Len(d), m \in 1 .. Len(d) : Agrees(d, 5, u, n) /\ Agrees(d, 5 + n, p, m)

parseAuthReply(d) == checkPacketSanity(d, "AUTH_REPLY") /\ d[4] = AUTHORIZED

-----------------------------------------------------------------------------
Init == data = <<>> /\ packet = P!NoData /\ given = <<>>

prepareAuth(u, p) ==
  /\ given' = <<protoVersion>> \o CStr(u) \o CStr(p)
  /\ data' = prepare("AUTH_REQUEST", given')
  /\ packet' = P!Auth(IF u = user /\ p = pass THEN "good" ELSE "bad")

prepareAuthReply(authorized) ==
  /\ given' = <<IF authorized THEN AUTHORIZED ELSE UNAUTHORIZED>>
  /\ data' = prepare("AUTH_REPLY", given')
  /\ packet' = P!AuthReply(authorized)

prepareResetRequest ==
  /\ given' = <<>>
  /\ data' = prepare("RESET_REQUEST", given')
  /\ packet' = P!ResetRequest

prepareResetReply(atr) ==
  /\ given' = atr
  /\ data' = prepare("RESET_REPLY", atr)
  /\ packet' = P!ResetReply

prepareCmdRequest(cmd) ==
  /\ given' = cmd
  /\ data' = prepare("CMD_REQUEST", cmd)
  /\ packet' = P!CmdRequest(cmd)

prepareCmdReply(cmdReply) ==
  /\ given' = cmdReply
  /\ data' = prepare("CMD_REPLY", cmdReply)
  /\ packet' = P!CmdReply(cmdReply)

(* Mutant of readHeader: the header is taken to have two bytes.            *)
readHeaderOfTwo ==
  /\ Len(data) > 3
  /\ data' = SubSeq(data, 1, 2)
  /\ packet' = P!Header(packet)
  /\ UNCHANGED given

(* read gave up on the body: the header is left. *)
readHeader ==
  /\ Len(data) > 3
  /\ data' = SubSeq(data, 1, 3)
  /\ packet' = P!Header(packet)
  /\ UNCHANGED given

(* It took the middle of a packet for a header, because an earlier one was *)
(* cut on its way.  As many bytes follow as the size field says, and none  *)
(* if it says less than a header.  A type that has a body of its own is    *)
(* left out: parse looks at bytes there that a short packet does not have. *)
readGarbled(b, size, t) ==
  /\ IF size > 3 THEN Len(b) = size - 3 ELSE b = <<>>
  /\ given' = b
  /\ data' = setSize(size) \o <<PacketType[t]>> \o b
  /\ packet' = [P!Prepare(t, b) EXCEPT !.whole = size >= 3]

Next ==
  \/ \E u, p \in Strings : prepareAuth(u, p)
  \/ \E authorized \in BOOLEAN : prepareAuthReply(authorized)
  \/ prepareResetRequest
  \/ \E b \in Bodies : prepareResetReply(b) \/ prepareCmdRequest(b) \/ prepareCmdReply(b)
  \/ readHeader
  \/ \E b \in GarbledBodies, size \in 0 .. 3 + ByteSize,
        t \in {"RESET_REQUEST", "RESET_REPLY", "CMD_REQUEST", "CMD_REPLY"} :
       readGarbled(b, size, t)

Spec == Init /\ [][Next]_vars

-----------------------------------------------------------------------------
TypeOK == data \in Seq(0 .. ByteSize - 1) /\ (data = <<>> \/ Len(data) >= 3)

(* Packets decides as the bytes do.  A packet is accepted as what it was   *)
(* made as and as nothing else, when all of it is there; credentials only  *)
(* if user and password are the server's, and not because the two run      *)
(* together in the same bytes or one begins the other; and a size field    *)
(* that says less than a header never.                                     *)
SameVerdicts ==
  /\ \A t \in DOMAIN PacketType : checkPacketSanity(data, t) <=> P!Sane(packet, t)
  /\ parseAuth(data, user, pass) <=> P!parseAuth(packet)
  /\ parseAuthReply(data) <=> P!parseAuthReply(packet)

(* What parse takes out of a packet is what prepare was given, up to the   *)
(* longest body that the size field has room for.                          *)
SameBody ==
  \A t \in {"RESET_REPLY", "CMD_REQUEST", "CMD_REPLY"} :
    checkPacketSanity(data, t) => body(data) = given
=============================================================================
