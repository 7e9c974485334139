------------------------------- MODULE Packets -------------------------------
(***************************************************************************)
(* The packets of PSCProxyProtocol as the two programs see them: what      *)
(* prepare* puts into a PacketData, what parse* accepts, and what a        *)
(* PacketData holds after PSCProxyProtocol::read.  A packet is one value:  *)
(* its type byte, the part of its body that decides anything, and whether  *)
(* the number of bytes held equals the size field.                         *)
(***************************************************************************)
EXTENDS Naturals, Sequences

CONSTANTS
  Cmd,    \* commands the set-top box sends to the card, told apart by content
  Zero,   \* the one-byte command 0, which the client takes for a reset
  None    \* no value

ASSUME CmdAssumption == Zero \notin Cmd /\ None \notin Cmd /\ Zero # None

(* A PacketData of size 0, as default-constructed. *)
NoData == [type |-> "none", body |-> None, whole |-> FALSE]

Prepare(t, b) == [type |-> t, body |-> b, whole |-> TRUE]

(* The bodies: credentials that match the server's or do not, the verdict, *)
(* the card's ATR, a command, and in a CMD_REPLY the card's answer to it.  *)
Auth(credentials)   == Prepare("AUTH_REQUEST", credentials)
AuthReply(accepted) == Prepare("AUTH_REPLY", IF accepted THEN "AUTHORIZED" ELSE "UNAUTHORIZED")
ResetRequest        == Prepare("RESET_REQUEST", None)
ResetReply          == Prepare("RESET_REPLY", "ATR")
CmdRequest(k)       == Prepare("CMD_REQUEST", k)
CmdReply(k)         == Prepare("CMD_REPLY", k)

Request == {Auth("good"), Auth("bad"), ResetRequest} \cup {CmdRequest(k) : k \in Cmd}
Answer  == {AuthReply(TRUE), AuthReply(FALSE), ResetReply} \cup {CmdReply(k) : k \in Cmd}

(* What PSCProxyProtocol::read leaves when the body never came. *)
Header(p) == [type |-> p.type, body |-> None, whole |-> FALSE]

-----------------------------------------------------------------------------
(* Mutant of Sane: the type test is forgotten, any whole packet will do.   *)
SaneWithoutType(data, t) == data.whole

(* checkPacketSanity: bytes are there, as many as the size field says, and *)
(* the type byte is the expected one.                                      *)
Sane(data, t) == data.whole /\ data.type = t

(* Mutant of parseAuth: user and password are not compared.                *)
AuthUnchecked(data) == Sane(data, "AUTH_REQUEST")

(* Mutant of parseAuthReply: any verdict will do.                          *)
AnyVerdict(data) == Sane(data, "AUTH_REPLY")

parseAuth(data)         == Sane(data, "AUTH_REQUEST") /\ data.body = "good"
parseAuthReply(data)    == Sane(data, "AUTH_REPLY") /\ data.body = "AUTHORIZED"
parseResetRequest(data) == Sane(data, "RESET_REQUEST")
parseResetReply(data)   == Sane(data, "RESET_REPLY")
parseCmdRequest(data)   == Sane(data, "CMD_REQUEST")
parseCmdReply(data)     == Sane(data, "CMD_REPLY")

-----------------------------------------------------------------------------
(* Pieces of data handed to the card emulator, each named for what it is.  *)
Piece == [kind : {"atr", "command", "answer"}, of : Cmd \cup {Zero, None}]

AtrPiece        == [kind |-> "atr", of |-> None]
CommandPiece(k) == [kind |-> "command", of |-> k]
AnswerPiece(k)  == [kind |-> "answer", of |-> k]

(* parseCmdReply pushes the bytes of the body onto cmdReply, which it does *)
(* not clear first, unlike parseResetReply and parseCmdRequest.            *)
CmdReplyData(cmdReply, data) == Append(cmdReply, AnswerPiece(data.body))

-----------------------------------------------------------------------------
(***************************************************************************)
(* What PSCProxyProtocol::read may return for the packets on their way to  *)
(* this end of a socket, data being the PacketData passed in and shut      *)
(* telling that the other end is gone.  Nothing there and the other end    *)
(* alive: the set is empty, the read blocks, for the ten seconds of        *)
(* Socket::read are only looked at between two pieces of data.  It gives   *)
(* up on that timeout, on an error and at the end of the stream, which may *)
(* all come in the middle of a packet: before the header is complete data  *)
(* is untouched, after it data is the header alone.  The caller sees rc<0  *)
(* (ok is FALSE) in both cases.                                            *)
(***************************************************************************)
ReadResults(arrived, shut, data) ==
  IF arrived = <<>>
  THEN IF shut THEN {[ok |-> FALSE, data |-> data]} ELSE {}
  ELSE {[ok |-> TRUE,  data |-> Head(arrived)],
        [ok |-> FALSE, data |-> data],
        [ok |-> FALSE, data |-> IF Head(arrived) = ResetRequest
                                THEN data ELSE Header(Head(arrived))]}

(* What is left on the socket: a reader that fails closes, so the tail of  *)
(* a packet cut in two is never read.                                      *)
Rest(arrived) == IF arrived = <<>> THEN <<>> ELSE Tail(arrived)
=============================================================================
