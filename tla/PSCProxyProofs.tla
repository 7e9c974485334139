--------------------------- MODULE PSCProxyProofs ---------------------------
(***************************************************************************)
(* The safety of PSCProxy for every number of clients and commands and     *)
(* whatever goes wrong: the types, then the inductive invariant, which the *)
(* steps of a client and those of the server keep, and the properties that *)
(* follow from it.  Under it each step is a step of RemoteCard, or the     *)
(* boxes and the card see nothing.  What the server keeps true by itself   *)
(* is in ProxyServerProofs.                                                *)
(***************************************************************************)
EXTENDS PSCProxyInvariant, PSCProxyRemoteCard, ProxyServerProofs

(* What is inductive: the types, and that the vector fits its storage.     *)
TypeInv == TypeOK /\ size <= Len(clients)

(* Only a CMD_REPLY parses as one, and its body is a command's answer.     *)
LEMMA CmdReplyBody ==
  ASSUME NEW q \in Seq(Answer), NEW shut, NEW sent, sent.type # "CMD_REPLY",
         NEW r \in ReadResults(q, shut, sent), parseCmdReply(r.data)
  PROVE  q # <<>> /\ r.data = Head(q) /\ r.data.body \in Cmd /\ r.data = CmdReply(r.data.body)
<1>1. r.data.whole /\ r.data.type = "CMD_REPLY"
  BY DEF parseCmdReply, Sane
<1>2. q # <<>> /\ r.data = Head(q)
  BY <1>1, ReadResultCases
<1>3. PICK k \in Cmd : r.data = CmdReply(k)
  BY <1>1, <1>2 DEF Answer, Prepare, AuthReply, ResetReply, CmdReply
<1> QED BY <1>2, <1>3 DEF CmdReply, Prepare

(* What the programs write are requests one way and replies the other.     *)
LEMMA PacketKinds ==
  /\ Auth("good") \in Request /\ Auth("bad") \in Request /\ ResetRequest \in Request
  /\ \A k \in Cmd \cup {Zero} : CommandPacket(k) \in Request
  /\ AuthReply(TRUE) \in Answer /\ AuthReply(FALSE) \in Answer /\ ResetReply \in Answer
  /\ \A k \in Cmd : CmdReply(k) \in Answer
BY DEF Request, Answer, CommandPacket

-----------------------------------------------------------------------------
(* Each step of a client keeps the types.                                  *)
LEMMA ClientTypes ==
  ASSUME TypeInv, NEW c \in Conn, Client(c)
  PROVE  TypeInv'
<1> USE DEF TypeInv, TypeOK, ConnTypeOK, ClientTypeOK, ServerTypeOK
<1>1. CASE Start(c)
  BY <1>1 DEF Client, Start, GoTo, ClientState, serverVars
<1>2. CASE authorize(c)
  <2>1. toServer' \in [Conn -> Seq(Request)]
    BY <1>2, SendType, PacketKinds DEF authorize, ClientSend
  <2> QED BY <1>2, <2>1 DEF Client, authorize, GoTo, ClientState, serverVars
<1>3. CASE checkAuthReply(c)
  <2>0. toClient' = [toClient EXCEPT ![c] = Rest(@)]
    BY <1>3 DEF checkAuthReply, ClientRead
  <2>1. toClient' \in [Conn -> Seq(Answer)]
    BY <2>0, ReadType
  <2> QED BY <1>3, <2>1 DEF Client, checkAuthReply, GoTo, ClientState, serverVars
<1>4. CASE requestATR(c)
  <2>1. toServer' \in [Conn -> Seq(Request)]
    BY <1>4, SendType, PacketKinds DEF requestATR, ClientSend
  <2> QED BY <1>4, <2>1 DEF Client, requestATR, GoTo, ClientState, serverVars
<1>5. CASE cacheATR(c)
  <2>0. toClient' = [toClient EXCEPT ![c] = Rest(@)]
    BY <1>5 DEF cacheATR, ClientRead
  <2>1. toClient' \in [Conn -> Seq(Answer)]
    BY <2>0, ReadType
  <2> QED BY <1>5, <2>1 DEF Client, cacheATR, GoTo, ClientState, serverVars
<1>6. CASE askReset(c)
  <2>1. toServer' \in [Conn -> Seq(Request)]
    BY <1>6, SendType, PacketKinds DEF askReset, ClientSend
  <2> QED BY <1>6, <2>1 DEF Client, askReset, serverVars
<1>7. ASSUME NEW k \in Cmd \cup {Zero}, askCommand(c, k)
      PROVE  TypeInv'
  <2>1. toServer' \in [Conn -> Seq(Request)]
    BY <1>7, SendType, PacketKinds DEF askCommand, ClientSend
  <2>2. issued' \subseteq Conn \X Cmd
    BY <1>7 DEF askCommand
  <2> QED BY <1>7, <2>1, <2>2 DEF Client, askCommand, serverVars
<1>8. CASE replyToReset(c)
  <2>0. toClient' = [toClient EXCEPT ![c] = Rest(@)]
    BY <1>8 DEF replyToReset, ClientRead
  <2>1. toClient' \in [Conn -> Seq(Answer)]
    BY <2>0, ReadType
  <2>2. <<AtrPiece>> \in Seq(Piece)
    BY DEF AtrPiece, Piece
  <2>3. wrote' \in [Conn -> Seq(Piece)] /\ state' \in [Conn -> ClientState]
    BY <1>8, <2>2 DEF replyToReset, GoTo, ClientState
  <2> QED BY <1>8, <2>1, <2>3 DEF Client, replyToReset, serverVars
<1>9. CASE replyToCommand(c)
  <2>0. toClient' = [toClient EXCEPT ![c] = Rest(@)]
    BY <1>9 DEF replyToCommand, ClientRead
  <2>1. toClient' \in [Conn -> Seq(Answer)]
    BY <2>0, ReadType
  <2>2. PICK r \in ReadResults(toClient[c], serverShut[c], CommandPacket(emulatorData[c])) :
          IF parseCmdReply(r.data)
          THEN /\ wrote' = [wrote EXCEPT ![c] =
                              CmdReplyData(<<CommandPiece(emulatorData[c])>>, r.data)]
               /\ UNCHANGED state
          ELSE GoTo(c, "CLOSED") /\ UNCHANGED wrote
    BY <1>9 DEF replyToCommand
  <2>3. parseCmdReply(r.data) => r.data.body \in Cmd
    <3>1. CommandPacket(emulatorData[c]).type # "CMD_REPLY"
      BY DEF CommandPacket, ResetRequest, CmdRequest, Prepare
    <3> QED BY <3>1, CmdReplyBody
  <2>4. ASSUME parseCmdReply(r.data)
        PROVE  CmdReplyData(<<CommandPiece(emulatorData[c])>>, r.data) \in Seq(Piece)
    <3>1. emulatorData[c] \in Cmd \cup {Zero, None}
      OBVIOUS
    <3>2. CommandPiece(emulatorData[c]) \in Piece /\ AnswerPiece(r.data.body) \in Piece
      BY <2>3, <2>4, <3>1 DEF CommandPiece, AnswerPiece, Piece
    <3> QED BY <3>2 DEF CmdReplyData
  <2>5. wrote' \in [Conn -> Seq(Piece)] /\ state' \in [Conn -> ClientState]
    BY <2>2, <2>4 DEF GoTo, ClientState
  <2> QED BY <1>9, <2>1, <2>5 DEF Client, replyToCommand, serverVars
<1>10. CASE Exit(c)
  BY <1>10 DEF Client, Exit, GoTo, ClientState, serverVars
<1> QED
  BY <1>1, <1>2, <1>3, <1>4, <1>5, <1>6, <1>7, <1>8, <1>9, <1>10
     DEF Client, ClientStep, ClientTick, EmulatorRequest, tickClosed, Leave

(* The server's part of it is ServerTypeInv, which it keeps by itself.      *)
LEMMA ServerKeepsTypes ==
  ASSUME TypeInv, Server
  PROVE  TypeInv'
<1>1. ServerTypeInv'
  BY ServerTypes DEF TypeInv, TypeOK, ServerTypeInv, Server
<1>2. ClientTypeOK'
  BY DEF TypeInv, TypeOK, ClientTypeOK, Server, clientVars
<1> QED BY <1>1, <1>2 DEF TypeInv, TypeOK, ServerTypeInv

(* The initial state has the types.                                        *)
LEMMA InitTypes == ASSUME Init PROVE TypeInv
<1>1. ClientTypeOK
  BY DEF Init, ClientInit, ClientTypeOK, ClientState
<1> QED BY <1>1, InitServerInv DEF Init, TypeInv, TypeOK, ServerTypeInv

(* Every step keeps the types.                                             *)
LEMMA NextTypes == ASSUME TypeInv, [Next]_vars PROVE TypeInv'
<1>1. ASSUME NEW c \in Conn, Network(c) PROVE TypeInv'
  BY <1>1 DEF Network, Break, clientVars, serverVars, TypeInv, TypeOK, ConnTypeOK,
              ClientTypeOK, ServerTypeOK
<1>2. CASE UNCHANGED vars
  BY <1>2 DEF vars, connVars, clientVars, serverVars, TypeInv, TypeOK, ConnTypeOK,
              ClientTypeOK, ServerTypeOK
<1> QED BY <1>1, <1>2, ClientTypes, ServerKeepsTypes DEF Next, Terminating

(* Every variable keeps its type in every reachable state, whatever the    *)
(* number of connections, the commands, the backlog and the faults.        *)
THEOREM TypeCorrect == Spec => []TypeOK
<1>1. Init => TypeInv
  BY InitTypes
<1>2. TypeInv /\ [Next]_vars => TypeInv'
  BY NextTypes
<1>3. TypeInv => TypeOK
  BY DEF TypeInv
<1> QED BY <1>1, <1>2, <1>3, PTL DEF Spec

-----------------------------------------------------------------------------
(* Queues of one packet.                                                   *)

(* Reading from a queue of at most one packet empties it.                  *)
LEMMA RestOfOne ==
  ASSUME NEW S, NEW q \in Seq(S), Len(q) <= 1
  PROVE  Rest(q) = <<>>
BY DEF Rest

(* Writing to an empty queue makes it a queue of that one packet.          *)
LEMMA QueueOfOne ==
  ASSUME NEW S, NEW q \in Seq(S), q = <<>>, NEW p \in S
  PROVE  /\ Append(q, p) # <<>>
         /\ Head(Append(q, p)) = p
         /\ Len(Append(q, p)) = 1
         /\ Len(q) = 0
OBVIOUS

(* Pushing one more piece onto a single one gives the two of them.         *)
LEMMA AppendToOne ==
  ASSUME NEW S, NEW x \in S, NEW y \in S
  PROVE  Append(<<x>>, y) = <<x, y>>
<1>1. <<x>> \in Seq(S) /\ Len(<<x>>) = 1 /\ <<x>>[1] = x
  OBVIOUS
<1>2. /\ Append(<<x>>, y) \in Seq(S) /\ Len(Append(<<x>>, y)) = 2
      /\ Append(<<x>>, y)[1] = x /\ Append(<<x>>, y)[2] = y
  BY <1>1
<1>3. <<x, y>> \in Seq(S) /\ Len(<<x, y>>) = 2 /\ <<x, y>>[1] = x /\ <<x, y>>[2] = y
  OBVIOUS
<1>4. \A i \in 1 .. 2 : i = 1 \/ i = 2
  OBVIOUS
<1>5. \A i \in 1 .. Len(<<x, y>>) : Append(<<x>>, y)[i] = <<x, y>>[i]
  BY <1>2, <1>3, <1>4
<1>6. Len(Append(<<x>>, y)) = Len(<<x, y>>)
  BY <1>2, <1>3
<1> QED BY <1>2, <1>3, <1>5, <1>6, SeqEqual

-----------------------------------------------------------------------------
(* What the packets are to each other.                                     *)

(* What a client waits to have answered, by its state and its call.        *)
LEMMA AwaitedCases ==
  ASSUME NEW s, NEW cl, NEW k, NEW a
  PROVE  /\ s = "AUTH_REQUESTED" => Awaited(s, cl, k, a) = Auth(a)
         /\ s = "AWAITING_ATR" => Awaited(s, cl, k, a) = ResetRequest
         /\ s = "IDLE" /\ cl = "reset" => Awaited(s, cl, k, a) = ResetRequest
         /\ s = "IDLE" /\ cl = "command" => Awaited(s, cl, k, a) = CommandPacket(k)
         /\ s \notin {"AUTH_REQUESTED", "AWAITING_ATR"} /\ (s = "IDLE" => cl = "none") =>
              Awaited(s, cl, k, a) = NoData
<1>1. s = "AUTH_REQUESTED" => Awaited(s, cl, k, a) = Auth(a)
  BY DEF Awaited
<1>2. s = "AWAITING_ATR" => Awaited(s, cl, k, a) = ResetRequest
  BY DEF Awaited
<1>3. s = "IDLE" /\ cl = "reset" => Awaited(s, cl, k, a) = ResetRequest
  BY DEF Awaited
<1>4. s = "IDLE" /\ cl = "command" => Awaited(s, cl, k, a) = CommandPacket(k)
  BY DEF Awaited
<1>5. s \notin {"AUTH_REQUESTED", "AWAITING_ATR"} /\ (s = "IDLE" => cl = "none") =>
        Awaited(s, cl, k, a) = NoData
  BY DEF Awaited
<1> QED BY <1>1, <1>2, <1>3, <1>4, <1>5

(* Each request has the one reply that the server gives to it.             *)
LEMMA OneReply ==
  /\ RepliesTo(Auth("good")) = {AuthReply(TRUE)}
  /\ RepliesTo(Auth("bad")) = {AuthReply(FALSE)}
  /\ RepliesTo(ResetRequest) = {ResetReply}
  /\ \A k : RepliesTo(CmdRequest(k)) = {CmdReply(k)}
  /\ RepliesTo(NoData) = {}
BY DEF RepliesTo, Auth, ResetRequest, CmdRequest, NoData, Prepare

(* A reply is taken only for what it is, and only if all of it is there.   *)
LEMMA ReplyParsed ==
  ASSUME NEW q \in Seq(Answer), NEW shut, NEW sent \in Request \cup {NoData},
         NEW r \in ReadResults(q, shut, sent)
  PROVE  /\ parseAuthReply(r.data) => q # <<>> /\ Head(q) = AuthReply(TRUE)
         /\ parseResetReply(r.data) => q # <<>> /\ Head(q) = ResetReply
         /\ parseCmdReply(r.data) =>
              q # <<>> /\ r.data = Head(q) /\ r.data.body \in Cmd /\ r.data = CmdReply(r.data.body)
<1>1. sent.type \notin {"AUTH_REPLY", "RESET_REPLY", "CMD_REPLY"}
  BY DEF Request, NoData, Auth, ResetRequest, CmdRequest, Prepare
<1>2. \/ q # <<>> /\ r.data = Head(q)
      \/ ~ r.ok /\ (r.data = sent \/ ~ r.data.whole)
  BY ReadResultCases
<1>3. ASSUME parseAuthReply(r.data) PROVE q # <<>> /\ Head(q) = AuthReply(TRUE)
  <2>1. r.data.whole /\ r.data.type = "AUTH_REPLY" /\ r.data.body = "AUTHORIZED"
    BY <1>3 DEF parseAuthReply, Sane
  <2>2. q # <<>> /\ r.data = Head(q)
    BY <1>1, <1>2, <2>1
  <2> QED BY <2>1, <2>2 DEF Answer, AuthReply, ResetReply, CmdReply, Prepare
<1>4. ASSUME parseResetReply(r.data) PROVE q # <<>> /\ Head(q) = ResetReply
  <2>1. r.data.whole /\ r.data.type = "RESET_REPLY"
    BY <1>4 DEF parseResetReply, Sane
  <2>2. q # <<>> /\ r.data = Head(q)
    BY <1>1, <1>2, <2>1
  <2> QED BY <2>1, <2>2 DEF Answer, AuthReply, ResetReply, CmdReply, Prepare
<1>5. ASSUME parseCmdReply(r.data)
      PROVE  q # <<>> /\ r.data = Head(q) /\ r.data.body \in Cmd /\ r.data = CmdReply(r.data.body)
  BY <1>1, <1>5, CmdReplyBody
<1> QED BY <1>3, <1>4, <1>5

-----------------------------------------------------------------------------
(* One connection.                                                         *)

(* The types of what belongs to one connection.                            *)
ConnTypes(c) ==
  /\ toServer[c] \in Seq(Request) /\ toClient[c] \in Seq(Answer)
  /\ call[c] \in {"none", "reset", "command"}
  /\ emulatorData[c] \in Cmd \cup {Zero, None}
  /\ state[c] \in ClientState

(* TypeOK, connection by connection.                                       *)
LEMMA TypesOfConn == TypeOK => \A c \in Conn : ConnTypes(c)
BY DEF TypeOK, ConnTypeOK, ClientTypeOK, ConnTypes

(* When the client waits for nothing, nothing is under way.                *)
LEMMA Quiet ==
  ASSUME NEW c \in Conn, ConnTypes(c), ConnInv(c), Alive(c),
         state[c] \notin {"AUTH_REQUESTED", "AWAITING_ATR"},
         state[c] = "IDLE" => call[c] = "none"
  PROVE  toServer[c] = <<>> /\ toClient[c] = <<>>
<1>1. Outstanding(c) = NoData
  BY AwaitedCases DEF Outstanding
<1>2. toServer[c] # <<>> => Head(toServer[c]) = NoData /\ Head(toServer[c]) \in Request
  BY <1>1 DEF ConnInv, QueueInv, ConnTypes
<1>3. toClient[c] # <<>> => Head(toClient[c]) \in {}
  BY <1>1, OneReply DEF ConnInv, QueueInv
<1> QED BY <1>2, <1>3, NoDataIsNoRequest

(* A step that leaves a connection's own state alone, but for shutting it  *)
(* (or freeing its session), keeps what the connection is held to.         *)
LEMMA ConnFrame ==
  ASSUME NEW c \in Conn, ConnInv(c),
         toServer'[c] = toServer[c], toClient'[c] = toClient[c],
         state'[c] = state[c], call'[c] = call[c], emulatorData'[c] = emulatorData[c],
         clientShut[c] => clientShut'[c], serverShut[c] => serverShut'[c],
         \/ sstate'[c] = sstate[c]
         \/ sstate'[c] = "none" /\ serverShut'[c]
         \/ sstate'[c] = "freed" /\ serverShut'[c] /\ sstate[c] # "none",
         \A i \in 1 .. Len(waiting') : waiting'[i] = c =>
           \E j \in 1 .. Len(waiting) : waiting[j] = c,
         issued \subseteq issued', CarriedOut \subseteq CarriedOut',
         \A k : <<c, k>> \in CarriedOut' => <<c, k>> \in CarriedOut
  PROVE  ConnInv(c)'
<1>1. CallInv(c)' /\ OffInv(c)'
  BY DEF ConnInv, CallInv, OffInv
<1>2. QueueInv(c)'
  BY DEF ConnInv, QueueInv, Alive, Outstanding
<1>3. SessionInv(c)'
  BY DEF ConnInv, SessionInv, Undecided, Decided, Granted
<1>4. CredentialsInv(c)'
  BY DEF ConnInv, CredentialsInv
<1>5. CommandInv(c)'
  BY DEF ConnInv, CommandInv, Alive
<1> QED BY <1>1, <1>2, <1>3, <1>4, <1>5 DEF ConnInv

(* A client that closes or exits keeps it, whatever it did with its queue. *)
LEMMA ConnGone ==
  ASSUME NEW c \in Conn, ConnInv(c), ConnTypes(c),
         toServer'[c] = toServer[c], sstate'[c] = sstate[c],
         state'[c] \in {"CLOSED", "EXITED"}, call'[c] = "none", emulatorData'[c] = None,
         UNCHANGED <<waiting, issued, cardLog>>
  PROVE  ConnInv(c)'
BY DEF ConnInv, CallInv, OffInv, QueueInv, Alive, SessionInv, Undecided, Decided, Granted,
       CredentialsInv, CommandInv, CarriedOut

(* A client with nothing under way sends the packet p it will wait on.     *)
LEMMA ConnSend ==
  ASSUME NEW c \in Conn, ConnInv(c), ConnTypes(c), Alive(c),
         toServer \in [Conn -> Seq(Request)],
         toServer[c] = <<>>, toClient[c] = <<>>,
         NEW p \in Request, ClientSend(c, p), Outstanding(c)' = p,
         p # Auth("bad") => c \in Good,
         p.type = "CMD_REQUEST" => <<c, p.body>> \in issued' \ CarriedOut,
         \/ state[c] = "INIT" /\ state'[c] = "AUTH_REQUESTED"
         \/ /\ state[c] \in {"AUTHORIZED", "IDLE"} /\ call[c] = "none"
            /\ state'[c] \in {"AWAITING_ATR", "IDLE"},
         CallInv(c)',
         UNCHANGED <<toClient, sstate, waiting, clientShut, serverShut, cardLog>>
  PROVE  ConnInv(c)'
<1>1. \/ toServer'[c] = <<>>
      \/ toServer'[c] # <<>> /\ Head(toServer'[c]) = p /\ Len(toServer'[c]) = 1
  BY QueueOfOne DEF ClientSend
<1>0. Len(<<>>) = 0
  OBVIOUS
<1>7. toClient'[c] = <<>>
  OBVIOUS
<1>8. Len(toServer'[c]) <= 1
  <2>1. CASE toServer'[c] = <<>>
    BY <1>0, <2>1
  <2>2. CASE Len(toServer'[c]) = 1
    BY <2>2
  <2> QED BY <1>1, <2>1, <2>2
<1>2. Len(toServer'[c]) <= 1 /\ toClient'[c] = <<>> /\ Len(toClient'[c]) = 0
  BY <1>0, <1>7, <1>8
<1>3. OffInv(c)' /\ QueueInv(c)'
  BY <1>1, <1>2 DEF OffInv, QueueInv, Alive
<1>4. SessionInv(c)'
  BY <1>1, <1>2 DEF ConnInv, SessionInv, Undecided, Decided, Granted
<1>5. CredentialsInv(c)'
  BY <1>1, <1>2 DEF ConnInv, CredentialsInv
<1>6. CommandInv(c)'
  BY <1>1, <1>2 DEF CommandInv, CarriedOut
<1> QED BY <1>3, <1>4, <1>5, <1>6 DEF ConnInv

(* A client takes the reply it waits on and goes on.                       *)
LEMMA ConnAdvance ==
  ASSUME NEW c \in Conn, ConnInv(c), ConnTypes(c), Alive(c),
         toClient \in [Conn -> Seq(Answer)],
         toClient[c] # <<>>, toClient' = [toClient EXCEPT ![c] = Rest(@)],
         \/ /\ state[c] = "AUTH_REQUESTED" /\ Head(toClient[c]) = AuthReply(TRUE)
            /\ state'[c] = "AUTHORIZED"
         \/ state[c] = "AWAITING_ATR" /\ state'[c] = "IDLE"
         \/ state[c] = "IDLE" /\ call[c] # "none" /\ state'[c] = "IDLE",
         call'[c] = "none", emulatorData'[c] = None,
         UNCHANGED <<toServer, sstate, waiting, clientShut, serverShut, issued, cardLog>>
  PROVE  ConnInv(c)'
<1>1. toServer'[c] = <<>> /\ toServer[c] = <<>>
  BY DEF ConnInv, QueueInv
<1>2. toClient'[c] = <<>>
  BY RestOfOne DEF ConnInv, QueueInv, ConnTypes
<1>3. Len(<<>>) = 0
  OBVIOUS
<1>4. CallInv(c)' /\ OffInv(c)'
  BY DEF CallInv, OffInv
<1>8. Len(toServer'[c]) <= 1 /\ Len(toClient'[c]) <= 1
  BY <1>1, <1>2, <1>3
<1>9. QueueInv(c)'
  BY <1>1, <1>2, <1>8 DEF QueueInv
<1>5. SessionInv(c)'
  <2>1. ~ Undecided(c)'
    BY <1>1 DEF Undecided
  <2>2. Decided(c)
    BY DEF Decided
  <2>3. Granted(c)
    BY DEF Granted
  <2> QED BY <2>1, <2>2, <2>3 DEF ConnInv, SessionInv
<1>6. CredentialsInv(c)'
  <2>1. CASE state[c] = "AUTH_REQUESTED"
    <3>1. Head(toClient[c]) \in RepliesTo(Auth(IF c \in Good THEN "good" ELSE "bad"))
      BY <2>1, AwaitedCases DEF ConnInv, QueueInv, Outstanding
    <3>2. AuthReply(TRUE) # AuthReply(FALSE)
      BY DEF AuthReply, Prepare
    <3>3. c \in Good
      BY <2>1, <3>1, <3>2, OneReply
    <3> QED BY <3>3 DEF CredentialsInv
  <2>2. CASE state[c] # "AUTH_REQUESTED"
    BY <2>2 DEF ConnInv, CredentialsInv
  <2> QED BY <2>1, <2>2
<1>7. CommandInv(c)'
  BY <1>1, <1>2 DEF CommandInv
<1> QED BY <1>4, <1>5, <1>6, <1>7, <1>9 DEF ConnInv

-----------------------------------------------------------------------------
(* The steps of a client.                                                  *)

(* The actions of a client, named once for the case splits below.          *)
LEMMA ClientCases ==
  ASSUME NEW c \in Conn, Client(c)
  PROVE  \/ Start(c) \/ authorize(c) \/ checkAuthReply(c) \/ requestATR(c) \/ cacheATR(c)
         \/ askReset(c) \/ (\E k \in Cmd \cup {Zero} : askCommand(c, k))
         \/ replyToReset(c) \/ replyToCommand(c)
         \/ Exit(c) /\ state[c] # "OFF"
BY DEF Client, ClientStep, ClientTick, EmulatorRequest, tickClosed, Leave

(* A client touches its own connection only.                               *)
LEMMA ClientLocal ==
  ASSUME TypeOK, NEW c \in Conn, Client(c), NEW d \in Conn, d # c
  PROVE  /\ toServer'[d] = toServer[d] /\ toClient'[d] = toClient[d]
         /\ state'[d] = state[d] /\ call'[d] = call[d]
         /\ emulatorData'[d] = emulatorData[d] /\ wrote'[d] = wrote[d]
         /\ clientShut'[d] = clientShut[d]
<1> USE DEF TypeOK, ConnTypeOK, ClientTypeOK, GoTo, ClientSend, ClientRead
<1>1. CASE Start(c) BY <1>1 DEF Start
<1>2. CASE authorize(c) BY <1>2 DEF authorize
<1>3. CASE checkAuthReply(c) BY <1>3 DEF checkAuthReply
<1>4. CASE requestATR(c) BY <1>4 DEF requestATR
<1>5. CASE cacheATR(c) BY <1>5 DEF cacheATR
<1>6. CASE askReset(c) BY <1>6 DEF askReset
<1>7. CASE \E k \in Cmd \cup {Zero} : askCommand(c, k) BY <1>7 DEF askCommand
<1>8. CASE replyToReset(c) BY <1>8 DEF replyToReset
<1>9. CASE replyToCommand(c) BY <1>9 DEF replyToCommand
<1>10. CASE Exit(c) BY <1>10 DEF Exit
<1> QED
  BY <1>1, <1>2, <1>3, <1>4, <1>5, <1>6, <1>7, <1>8, <1>9, <1>10, ClientCases

(* What a client leaves to the others.                                     *)
LEMMA ClientShared ==
  ASSUME TypeOK, NEW c \in Conn, Client(c)
  PROVE  /\ UNCHANGED <<serverShut, serverVars>>
         /\ issued \subseteq issued'
         /\ \/ UNCHANGED waiting
            \/ state[c] = "OFF" /\ waiting' = Append(waiting, c)
<1> USE DEF Client
<1>1. CASE Start(c) BY <1>1 DEF Start
<1>2. CASE authorize(c) BY <1>2 DEF authorize
<1>3. CASE checkAuthReply(c) BY <1>3 DEF checkAuthReply
<1>4. CASE requestATR(c) BY <1>4 DEF requestATR
<1>5. CASE cacheATR(c) BY <1>5 DEF cacheATR
<1>6. CASE askReset(c) BY <1>6 DEF askReset
<1>7. CASE \E k \in Cmd \cup {Zero} : askCommand(c, k) BY <1>7 DEF askCommand
<1>8. CASE replyToReset(c) BY <1>8 DEF replyToReset
<1>9. CASE replyToCommand(c) BY <1>9 DEF replyToCommand
<1>10. CASE Exit(c) BY <1>10 DEF Exit
<1> QED
  BY <1>1, <1>2, <1>3, <1>4, <1>5, <1>6, <1>7, <1>8, <1>9, <1>10, ClientCases

(* A client keeps what the other connections are held to.                  *)
LEMMA ClientKeepsOthers ==
  ASSUME IInv, NEW c \in Conn, Client(c), NEW d \in Conn, d # c
  PROVE  ConnInv(d)'
<1>1. TypeOK /\ ConnInv(d) /\ waiting \in Seq(Conn)
  BY DEF IInv, TypeOK, ConnTypeOK
<1>2. /\ UNCHANGED <<serverShut, serverVars>>
      /\ issued \subseteq issued'
      /\ \/ UNCHANGED waiting
         \/ waiting' = Append(waiting, c)
  BY <1>1, ClientShared
<1>3. \A i \in 1 .. Len(waiting') : waiting'[i] = d => \E j \in 1 .. Len(waiting) : waiting[j] = d
  <2>1. CASE UNCHANGED waiting
    BY <2>1
  <2>2. CASE waiting' = Append(waiting, c)
    BY <1>1, <2>2
  <2> QED BY <1>2, <2>1, <2>2
<1>4. /\ toServer'[d] = toServer[d] /\ toClient'[d] = toClient[d]
      /\ state'[d] = state[d] /\ call'[d] = call[d]
      /\ emulatorData'[d] = emulatorData[d] /\ clientShut'[d] = clientShut[d]
  BY <1>1, ClientLocal
<1>5. /\ sstate'[d] = sstate[d] /\ serverShut'[d] = serverShut[d]
      /\ CarriedOut' = CarriedOut
  BY <1>2 DEF serverVars, CarriedOut
<1> QED BY <1>1, <1>2, <1>3, <1>4, <1>5, ConnFrame

(* A client keeps what its own connection is held to.                      *)
LEMMA ClientKeepsOwn ==
  ASSUME IInv, NEW c \in Conn, Client(c)
  PROVE  ConnInv(c)'
<1> DEFINE a == IF c \in Good THEN "good" ELSE "bad"
<1>0. /\ TypeOK /\ ConnInv(c) /\ ConnTypes(c)
      /\ toServer \in [Conn -> Seq(Request)] /\ toClient \in [Conn -> Seq(Answer)]
      /\ state \in [Conn -> ClientState]
      /\ call \in [Conn -> {"none", "reset", "command"}]
      /\ emulatorData \in [Conn -> Cmd \cup {Zero, None}]
  BY TypesOfConn DEF IInv, TypeOK, ConnTypeOK, ClientTypeOK
<1>s. UNCHANGED <<serverShut, serverVars, sstate, cardLog, CarriedOut>>
  BY <1>0, ClientShared DEF serverVars, CarriedOut
<1>c. CallInv(c)
  BY <1>0 DEF ConnInv
<1>1. CASE Start(c)
  <2>1. /\ toServer'[c] = <<>> /\ toClient'[c] = <<>> /\ sstate'[c] = "none"
        /\ toServer[c] = <<>> /\ state[c] = "OFF"
    BY <1>0, <1>1, <1>s DEF Start, ConnInv, OffInv
  <2>2. state'[c] = "INIT" /\ call'[c] = call[c] /\ emulatorData'[c] = emulatorData[c]
    BY <1>0, <1>1 DEF Start, GoTo
  <2>3. Len(<<>>) = 0
    OBVIOUS
  <2>4. CallInv(c)' /\ OffInv(c)'
    BY <1>c, <2>1, <2>2 DEF CallInv, OffInv
  <2>5. QueueInv(c)'
    BY <2>1, <2>3 DEF QueueInv
  <2>6. SessionInv(c)'
    BY <2>1, <2>2 DEF SessionInv, Undecided, Decided, Granted
  <2>7. CredentialsInv(c)' /\ CommandInv(c)'
    BY <2>1, <2>2 DEF CredentialsInv, CommandInv
  <2> QED BY <2>4, <2>5, <2>6, <2>7 DEF ConnInv
<1>2. CASE authorize(c)
  <2>1. state[c] = "INIT" /\ state'[c] = "AUTH_REQUESTED" /\ call'[c] = call[c]
    BY <1>0, <1>2 DEF authorize, GoTo
  <2>2. toServer[c] = <<>> /\ toClient[c] = <<>>
    BY <1>0, <2>1, Quiet DEF Alive
  <2>3. Outstanding(c)' = Auth(a)
    BY <2>1, AwaitedCases DEF Outstanding
  <2>4. Auth(a) \in Request /\ (Auth(a) # Auth("bad") => c \in Good)
        /\ Auth(a).type # "CMD_REQUEST"
    BY PacketKinds DEF Auth, Prepare
  <2>5. ClientSend(c, Auth(a)) /\ UNCHANGED <<toClient, waiting, clientShut>>
    BY <1>2 DEF authorize
  <2>6. CallInv(c)'
    BY <1>c, <1>2, <2>1 DEF CallInv, authorize
  <2> QED BY <1>0, <1>s, <2>1, <2>2, <2>3, <2>4, <2>5, <2>6, ConnSend DEF Alive
<1>3. CASE checkAuthReply(c)
  <2>1. PICK r \in ReadResults(toClient[c], serverShut[c], NoData) :
          /\ toClient' = [toClient EXCEPT ![c] = Rest(@)]
          /\ GoTo(c, IF parseAuthReply(r.data) THEN "AUTHORIZED" ELSE "CLOSED")
    BY <1>3 DEF checkAuthReply, ClientRead
  <2>2. state[c] = "AUTH_REQUESTED" /\ call'[c] = "none" /\ emulatorData'[c] = None
    BY <1>0, <1>c, <1>3 DEF checkAuthReply, CallInv, ConnTypes
  <2>3. UNCHANGED <<toServer, clientShut, waiting, issued>>
    BY <1>3 DEF checkAuthReply
  <2>4. CASE parseAuthReply(r.data)
    <3>1. toClient[c] # <<>> /\ Head(toClient[c]) = AuthReply(TRUE)
      BY <1>0, <2>4, ReplyParsed
    <3> QED BY <1>0, <1>s, <2>1, <2>2, <2>3, <2>4, <3>1, ConnAdvance DEF Alive, GoTo
  <2>5. CASE ~ parseAuthReply(r.data)
    BY <1>0, <1>s, <2>1, <2>2, <2>3, <2>5, ConnGone DEF GoTo
  <2> QED BY <2>4, <2>5
<1>4. CASE requestATR(c)
  <2>1. state[c] = "AUTHORIZED" /\ state'[c] = "AWAITING_ATR" /\ call'[c] = call[c]
    BY <1>0, <1>4 DEF requestATR, GoTo
  <2>2. toServer[c] = <<>> /\ toClient[c] = <<>> /\ call[c] = "none" /\ c \in Good
    BY <1>0, <1>c, <2>1, Quiet DEF Alive, CallInv, ConnInv, CredentialsInv
  <2>3. Outstanding(c)' = ResetRequest
    BY <2>1, AwaitedCases DEF Outstanding
  <2>4. ResetRequest \in Request /\ ResetRequest.type # "CMD_REQUEST"
    BY PacketKinds DEF ResetRequest, Prepare
  <2>5. ClientSend(c, ResetRequest) /\ UNCHANGED <<toClient, waiting, clientShut>>
    BY <1>4 DEF requestATR
  <2>6. CallInv(c)'
    BY <1>c, <1>4, <2>1, <2>2 DEF CallInv, requestATR
  <2> QED BY <1>0, <1>s, <2>1, <2>2, <2>3, <2>4, <2>5, <2>6, ConnSend DEF Alive
<1>5. CASE cacheATR(c)
  <2>1. PICK r \in ReadResults(toClient[c], serverShut[c], NoData) :
          /\ toClient' = [toClient EXCEPT ![c] = Rest(@)]
          /\ GoTo(c, IF r.ok /\ parseResetReply(r.data) THEN "IDLE" ELSE "CLOSED")
    BY <1>5 DEF cacheATR, ClientRead
  <2>2. state[c] = "AWAITING_ATR" /\ call'[c] = "none" /\ emulatorData'[c] = None
    BY <1>0, <1>c, <1>5 DEF cacheATR, CallInv, ConnTypes
  <2>3. UNCHANGED <<toServer, clientShut, waiting, issued>>
    BY <1>5 DEF cacheATR
  <2>4. CASE r.ok /\ parseResetReply(r.data)
    <3>1. toClient[c] # <<>>
      BY <1>0, <2>4, ReplyParsed
    <3> QED BY <1>0, <1>s, <2>1, <2>2, <2>3, <2>4, <3>1, ConnAdvance DEF Alive, GoTo
  <2>5. CASE ~ (r.ok /\ parseResetReply(r.data))
    BY <1>0, <1>s, <2>1, <2>2, <2>3, <2>5, ConnGone DEF GoTo
  <2> QED BY <2>4, <2>5
<1>6. CASE askReset(c)
  <2>1. state[c] = "IDLE" /\ state'[c] = "IDLE" /\ call[c] = "none" /\ call'[c] = "reset"
    BY <1>0, <1>6 DEF askReset
  <2>2. toServer[c] = <<>> /\ toClient[c] = <<>> /\ c \in Good
    BY <1>0, <2>1, Quiet DEF Alive, ConnInv, CredentialsInv
  <2>3. Outstanding(c)' = ResetRequest
    BY <2>1, AwaitedCases DEF Outstanding
  <2>4. ResetRequest \in Request /\ ResetRequest.type # "CMD_REQUEST"
    BY PacketKinds DEF ResetRequest, Prepare
  <2>5. ClientSend(c, ResetRequest) /\ UNCHANGED <<toClient, waiting, clientShut, emulatorData>>
    BY <1>6 DEF askReset
  <2>6. CallInv(c)'
    BY <1>c, <2>1, <2>5 DEF CallInv
  <2> QED BY <1>0, <1>s, <2>1, <2>2, <2>3, <2>4, <2>5, <2>6, ConnSend DEF Alive
<1>7. ASSUME NEW k \in Cmd \cup {Zero}, askCommand(c, k)
      PROVE  ConnInv(c)'
  <2>1. /\ state[c] = "IDLE" /\ state'[c] = "IDLE" /\ call[c] = "none"
        /\ call'[c] = "command" /\ emulatorData'[c] = k
    BY <1>0, <1>7 DEF askCommand
  <2>2. toServer[c] = <<>> /\ toClient[c] = <<>> /\ c \in Good
    BY <1>0, <2>1, Quiet DEF Alive, ConnInv, CredentialsInv
  <2>3. Outstanding(c)' = CommandPacket(k)
    BY <2>1, AwaitedCases DEF Outstanding
  <2>4. CommandPacket(k) \in Request
    BY PacketKinds
  <2>5. CommandPacket(k).type = "CMD_REQUEST" => <<c, CommandPacket(k).body>> \in issued' \ CarriedOut
    <3>1. CASE k = Zero
      BY <3>1 DEF CommandPacket, ResetRequest, Prepare
    <3>2. CASE k # Zero
      <4>1. CommandPacket(k).body = k
        BY <3>2 DEF CommandPacket, CmdRequest, Prepare
      <4>2. <<c, k>> \in issued' /\ <<c, k>> \notin issued
        BY <1>7, <3>2 DEF askCommand
      <4>3. CarriedOut \subseteq issued
        BY DEF IInv, CardInv
      <4> QED BY <4>1, <4>2, <4>3
    <3> QED BY <3>1, <3>2
  <2>6. ClientSend(c, CommandPacket(k)) /\ UNCHANGED <<toClient, waiting, clientShut>>
    BY <1>7 DEF askCommand
  <2>7. k # None
    BY CmdAssumption
  <2>8. CallInv(c)'
    BY <2>1, <2>7 DEF CallInv
  <2> QED BY <1>0, <1>s, <2>1, <2>2, <2>3, <2>4, <2>5, <2>6, <2>8, ConnSend DEF Alive
<1>8. CASE replyToReset(c)
  <2>1. PICK r \in ReadResults(toClient[c], serverShut[c], ResetRequest) :
          /\ toClient' = [toClient EXCEPT ![c] = Rest(@)]
          /\ state'[c] = IF parseResetReply(r.data) THEN state[c] ELSE "CLOSED"
    BY <1>0, <1>8 DEF replyToReset, ClientRead, GoTo
  <2>2. /\ state[c] = "IDLE" /\ call[c] = "reset"
        /\ call'[c] = "none" /\ emulatorData'[c] = None
    BY <1>0, <1>c, <1>8 DEF replyToReset, CallInv
  <2>3. UNCHANGED <<toServer, clientShut, waiting, issued>>
    BY <1>8 DEF replyToReset
  <2>4. CASE parseResetReply(r.data)
    <3>1. toClient[c] # <<>>
      BY <1>0, <2>4, ReplyParsed, PacketKinds
    <3> QED BY <1>0, <1>s, <2>1, <2>2, <2>3, <2>4, <3>1, ConnAdvance DEF Alive
  <2>5. CASE ~ parseResetReply(r.data)
    BY <1>0, <1>s, <2>1, <2>2, <2>3, <2>5, ConnGone
  <2> QED BY <2>4, <2>5
<1>9. CASE replyToCommand(c)
  <2>1. PICK r \in ReadResults(toClient[c], serverShut[c], CommandPacket(emulatorData[c])) :
          /\ toClient' = [toClient EXCEPT ![c] = Rest(@)]
          /\ state'[c] = IF parseCmdReply(r.data) THEN state[c] ELSE "CLOSED"
    BY <1>0, <1>9 DEF replyToCommand, ClientRead, GoTo
  <2>2. /\ state[c] = "IDLE" /\ call[c] = "command"
        /\ call'[c] = "none" /\ emulatorData'[c] = None
    BY <1>0, <1>c, <1>9 DEF replyToCommand, CallInv
  <2>3. UNCHANGED <<toServer, clientShut, waiting, issued>>
    BY <1>9 DEF replyToCommand
  <2>4. CommandPacket(emulatorData[c]) \in Request
    BY <1>0, <1>c, <2>2, PacketKinds DEF CallInv
  <2>5. CASE parseCmdReply(r.data)
    <3>1. toClient[c] # <<>>
      BY <1>0, <2>4, <2>5, ReplyParsed
    <3> QED BY <1>0, <1>s, <2>1, <2>2, <2>3, <2>5, <3>1, ConnAdvance DEF Alive
  <2>6. CASE ~ parseCmdReply(r.data)
    BY <1>0, <1>s, <2>1, <2>2, <2>3, <2>6, ConnGone
  <2> QED BY <2>5, <2>6
<1>10. CASE Exit(c)
  <2>1. state'[c] = "EXITED" /\ call'[c] = "none" /\ emulatorData'[c] = None
    BY <1>0, <1>10 DEF Exit, GoTo
  <2> QED BY <1>0, <1>s, <1>10, <2>1, ConnGone DEF Exit
<1> QED
  BY <1>1, <1>2, <1>3, <1>4, <1>5, <1>6, <1>7, <1>8, <1>9, <1>10, ClientCases

(* What the invariant holds of the server by itself.                       *)
LEMMA ServerPart == ASSUME IInv PROVE ServerTypeInv /\ ServerInv
BY DEF IInv, TypeOK, ServerTypeInv, ServerInv, VectorInv

(* A client that starts begins to wait; to the server nothing happens.     *)
LEMMA ClientKeepsWaiting ==
  ASSUME IInv, NEW c \in Conn, Client(c)
  PROVE  ServerInv' /\ StartedInv'
<1>1. /\ TypeOK /\ ServerInv /\ StartedInv
      /\ waiting \in Seq(Conn) /\ state \in [Conn -> ClientState]
  BY DEF IInv, TypeOK, ConnTypeOK, ClientTypeOK
<1>2. /\ UNCHANGED serverVars
      /\ \/ UNCHANGED waiting
         \/ state[c] = "OFF" /\ waiting' = Append(waiting, c)
  BY <1>1, ClientShared
<1>3. \A d \in Conn : state[d] # "OFF" \/ d = c => state'[d] # "OFF"
  <2>1. state'[c] # "OFF"
    BY <1>1, ClientCases
       DEF Start, authorize, checkAuthReply, requestATR, cacheATR, askReset, askCommand,
           replyToReset, replyToCommand, Exit, GoTo, IInv, ConnInv, CallInv
  <2> QED BY <1>1, <2>1, ClientLocal
<1>4. CASE UNCHANGED waiting
  <2>1. \A i \in 1 .. Len(waiting) : waiting[i] \in Conn
    BY <1>1
  <2> QED BY <1>1, <1>2, <1>3, <1>4, <2>1, OthersKeepInv DEF StartedInv
<1>5. CASE state[c] = "OFF" /\ waiting' = Append(waiting, c)
  <2>1. \A i \in 1 .. Len(waiting) : waiting[i] \in Conn /\ waiting[i] # c
    BY <1>1, <1>5 DEF StartedInv
  <2>2. /\ Len(waiting') = Len(waiting) + 1 /\ waiting'[Len(waiting) + 1] = c
        /\ \A i \in 1 .. Len(waiting) : waiting'[i] = waiting[i]
    BY <1>1, <1>5
  <2>3. StartedInv'
    BY <1>1, <1>3, <2>1, <2>2 DEF StartedInv
  <2>4. sstate[c] = "none"
    BY <1>5 DEF IInv, ConnInv, OffInv
  <2> QED BY <1>1, <1>2, <1>5, <2>1, <2>3, <2>4, ConnectKeepsInv
<1> QED BY <1>2, <1>4, <1>5

(* A client keeps CardInv: it issues commands that nobody issued before.   *)
LEMMA ClientKeepsCard ==
  ASSUME IInv, NEW c \in Conn, Client(c)
  PROVE  CardInv'
<1>1. TypeOK /\ CardInv
  BY DEF IInv
<1>2. UNCHANGED <<cardLog, CarriedOut, OnlyAuthorized, AtMostOnce>>
  BY <1>1, ClientShared DEF serverVars, CarriedOut, OnlyAuthorized, AtMostOnce
<1>3. CASE UNCHANGED issued
  BY <1>1, <1>2, <1>3 DEF CardInv
<1>4. ASSUME NEW k \in Cmd \cup {Zero}, askCommand(c, k) PROVE CardInv'
  <2>1. issued' = issued \/ issued' = issued \cup {<<c, k>>}
    BY <1>4 DEF askCommand
  <2>2. \A d \in Conn : <<d, k>> \notin issued
    BY <1>4 DEF askCommand
  <2>3. ASSUME NEW d \in Conn, NEW e \in Conn, NEW m \in Cmd,
               <<d, m>> \in issued', <<e, m>> \in issued'
        PROVE  d = e
    <3>1. CASE m = k
      BY <2>1, <2>2, <2>3, <3>1
    <3>2. CASE m # k
      BY <1>1, <2>1, <2>3, <3>2 DEF CardInv
    <3> QED BY <3>1, <3>2
  <2>4. CarriedOut' \subseteq issued'
    BY <1>1, <1>2, <2>1 DEF CardInv
  <2> QED BY <1>1, <1>2, <2>3, <2>4 DEF CardInv
<1>5. UNCHANGED issued \/ \E k \in Cmd \cup {Zero} : askCommand(c, k)
  BY ClientCases
     DEF Start, authorize, checkAuthReply, requestATR, cacheATR, askReset,
         replyToReset, replyToCommand, Exit
<1> QED BY <1>3, <1>4, <1>5

(* What the emulator of c holds, by itself.                                *)
OwnAnswerOf(c) ==
  \A i \in 1 .. Len(wrote[c]) :
    wrote[c][i].kind = "answer" =>
      /\ wrote[c] = <<CommandPiece(wrote[c][i].of), wrote[c][i]>>
      /\ <<c, wrote[c][i].of>> \in CarriedOut

(* OwnAnswer, connection by connection.                                    *)
LEMMA OwnAnswerSplit == OwnAnswer <=> \A c \in Conn : OwnAnswerOf(c)
BY DEF OwnAnswer, OwnAnswerOf, CarriedOut

(* The reply that a blocked command is given is the card's answer to that  *)
(* command, and the emulator is handed the command with its answer.        *)
LEMMA ReplyIsOwn ==
  ASSUME IInv, NEW c \in Conn, call[c] = "command",
         NEW r \in ReadResults(toClient[c], serverShut[c], CommandPacket(emulatorData[c])),
         parseCmdReply(r.data)
  PROVE  \E k \in Cmd :
           /\ k = emulatorData[c] /\ <<c, k>> \in CarriedOut
           /\ CmdReplyData(<<CommandPiece(emulatorData[c])>>, r.data) =
                <<CommandPiece(k), AnswerPiece(k)>>
<1>1. /\ state[c] = "IDLE" /\ emulatorData[c] \in Cmd \cup {Zero}
      /\ ConnInv(c) /\ ConnTypes(c) /\ Alive(c)
  BY TypesOfConn DEF ConnInv, CallInv, IInv, ConnTypes, Alive
<1>2. PICK k \in Cmd \cup {Zero} : k = emulatorData[c]
  BY <1>1
<1>3. /\ toClient[c] # <<>> /\ r.data = Head(toClient[c])
      /\ r.data.body \in Cmd /\ r.data = CmdReply(r.data.body)
  <2>1. toClient[c] \in Seq(Answer)
    BY <1>1 DEF ConnTypes
  <2>2. r \in ReadResults(toClient[c], serverShut[c], CommandPacket(k))
    BY <1>2
  <2>3. CommandPacket(k).type # "CMD_REPLY"
    BY DEF CommandPacket, ResetRequest, CmdRequest, Prepare
  <2> QED BY <2>1, <2>2, <2>3, CmdReplyBody
<1>4. Outstanding(c) = CommandPacket(k)
  BY <1>1, <1>2, AwaitedCases DEF Outstanding
<1>5. r.data \in RepliesTo(CommandPacket(k))
  BY <1>1, <1>3, <1>4 DEF ConnInv, QueueInv
<1>6. r.data = CmdReply(k)
  <2>1. ResetReply # CmdReply(r.data.body)
    BY DEF ResetReply, CmdReply, Prepare
  <2> QED BY <1>3, <1>5, <2>1, OneReply DEF CommandPacket
<1>7. r.data.body = k /\ r.data.type = "CMD_REPLY" /\ k \in Cmd
  BY <1>3, <1>6 DEF CmdReply, Prepare
<1>8. <<c, k>> \in CarriedOut
  BY <1>1, <1>3, <1>7 DEF ConnInv, CommandInv
<1>9. CmdReplyData(<<CommandPiece(emulatorData[c])>>, r.data) =
        Append(<<CommandPiece(k)>>, AnswerPiece(k))
  BY <1>2, <1>7 DEF CmdReplyData
<1>10. CommandPiece(k) \in Piece /\ AnswerPiece(k) \in Piece
  BY DEF CommandPiece, AnswerPiece, Piece
<1>11. CmdReplyData(<<CommandPiece(emulatorData[c])>>, r.data) =
         <<CommandPiece(k), AnswerPiece(k)>>
  BY <1>9, <1>10, AppendToOne
<1> QED BY <1>2, <1>7, <1>8, <1>11

(* A client keeps what was told to the boxes true: it hands its emulator   *)
(* nothing but an ATR or the answer to the command it waits on.            *)
LEMMA ClientKeepsAnswer ==
  ASSUME IInv, NEW c \in Conn, Client(c)
  PROVE  \A d \in Conn : OwnAnswerOf(d)'
<1>1. /\ TypeOK /\ \A d \in Conn : OwnAnswerOf(d)
      /\ wrote \in [Conn -> Seq(Piece)] /\ ConnTypes(c)
  BY OwnAnswerSplit, TypesOfConn DEF IInv, TypeOK, ClientTypeOK
<1>2. CarriedOut' = CarriedOut
  BY <1>1, ClientShared DEF serverVars, CarriedOut
<1>3. ASSUME NEW d \in Conn, d # c PROVE OwnAnswerOf(d)'
  BY <1>1, <1>2, <1>3, ClientLocal DEF OwnAnswerOf
<1>4. ASSUME wrote'[c] = wrote[c] PROVE OwnAnswerOf(c)'
  BY <1>1, <1>2, <1>4 DEF OwnAnswerOf
<1>5. ASSUME wrote'[c] = <<AtrPiece>> PROVE OwnAnswerOf(c)'
  <2>1. \A i \in 1 .. Len(wrote'[c]) : wrote'[c][i] = AtrPiece
    BY <1>5
  <2> QED BY <2>1 DEF OwnAnswerOf, AtrPiece
<1>6. ASSUME replyToCommand(c),
             NEW r \in ReadResults(toClient[c], serverShut[c], CommandPacket(emulatorData[c])),
             parseCmdReply(r.data),
             wrote'[c] = CmdReplyData(<<CommandPiece(emulatorData[c])>>, r.data)
      PROVE  OwnAnswerOf(c)'
  <2>1. call[c] = "command"
    BY <1>6 DEF replyToCommand
  <2>2. PICK k \in Cmd :
          <<c, k>> \in CarriedOut /\ wrote'[c] = <<CommandPiece(k), AnswerPiece(k)>>
    BY <1>6, <2>1, ReplyIsOwn
  <2>3. \A i \in 1 .. Len(wrote'[c]) :
          wrote'[c][i].kind = "answer" => wrote'[c][i] = AnswerPiece(k)
    BY <2>2 DEF CommandPiece
  <2>4. AnswerPiece(k).of = k
    BY DEF AnswerPiece
  <2> QED BY <1>2, <2>2, <2>3, <2>4 DEF OwnAnswerOf
<1>7. \/ wrote'[c] = wrote[c]
      \/ wrote'[c] = <<AtrPiece>>
      \/ /\ replyToCommand(c)
         /\ \E r \in ReadResults(toClient[c], serverShut[c], CommandPacket(emulatorData[c])) :
              /\ parseCmdReply(r.data)
              /\ wrote'[c] = CmdReplyData(<<CommandPiece(emulatorData[c])>>, r.data)
  <2>1. CASE replyToReset(c)
    BY <1>1, <2>1 DEF replyToReset
  <2>2. CASE replyToCommand(c)
    BY <1>1, <2>2 DEF replyToCommand
  <2>3. CASE UNCHANGED wrote
    BY <2>3
  <2>4. UNCHANGED wrote \/ replyToReset(c) \/ replyToCommand(c)
    BY ClientCases
       DEF Start, authorize, checkAuthReply, requestATR, cacheATR, askReset, askCommand, Exit
  <2> QED BY <2>1, <2>2, <2>3, <2>4
<1>8. OwnAnswerOf(c)'
  BY <1>4, <1>5, <1>6, <1>7
<1> QED BY <1>3, <1>8

-----------------------------------------------------------------------------
(* The steps of the server, seen from its connections.                     *)

(* Once the server's last word leaves a session open, nothing is asked.    *)
LEMMA GrantedIsQuiet ==
  ASSUME NEW c \in Conn, ConnTypes(c), ConnInv(c), Granted(c)
  PROVE  toServer[c] = <<>>
<1>1. Alive(c)
  BY DEF Granted, Alive
<1>2. CASE state[c] = "AUTHORIZED" \/ (state[c] = "IDLE" /\ call[c] = "none")
  BY <1>1, <1>2, Quiet
<1>3. CASE toClient[c] # <<>>
  BY <1>1, <1>3 DEF ConnInv, QueueInv
<1> QED BY <1>2, <1>3 DEF Granted

(* A session ends without a word, by itself or with the server's process,  *)
(* and its connection keeps what it is held to.                            *)
LEMMA SessionEnds ==
  ASSUME NEW c \in Conn, ConnInv(c), ConnTypes(c), sstate[c] # "none",
         toServer'[c] = <<>>, toClient'[c] = toClient[c],
         UNCHANGED clientVars,
         sstate'[c] \in {"none", "CLOSED"},
         Granted(c) => clientShut'[c] \/ serverShut'[c],
         \A i \in 1 .. Len(waiting') : waiting'[i] # c,
         CarriedOut \subseteq CarriedOut'
  PROVE  ConnInv(c)'
<1> USE DEF clientVars
<1>0. Len(<<>>) = 0
  OBVIOUS
<1>1. CallInv(c)' /\ OffInv(c)'
  BY DEF ConnInv, CallInv, OffInv
<1>2. Len(toServer'[c]) <= 1
  BY <1>0
<1>3. QueueInv(c)'
  BY <1>2 DEF ConnInv, QueueInv, Alive, Outstanding
<1>4. Granted(c)' <=> Granted(c)
  BY DEF Granted
<1>5. SessionInv(c)'
  BY <1>4 DEF SessionInv
<1>6. CredentialsInv(c)'
  BY DEF ConnInv, CredentialsInv
<1>7. CommandInv(c)'
  BY DEF ConnInv, CommandInv, Alive
<1> QED BY <1>1, <1>3, <1>5, <1>6, <1>7 DEF ConnInv

(* The server answers a request, and its connection keeps what it is held  *)
(* to.                                                                     *)
LEMMA SessionReplies ==
  ASSUME NEW c \in Conn, ConnInv(c), ConnTypes(c), sstate[c] # "none",
         toClient \in [Conn -> Seq(Answer)],
         toServer[c] # <<>>, toServer'[c] = <<>>,
         NEW p \in Answer, Alive(c) => p \in RepliesTo(Head(toServer[c])), ServerSend(c, p),
         UNCHANGED <<clientVars, clientShut, serverShut, waiting>>,
         \/ sstate'[c] = "AUTHORIZED" /\ c \in Good
         \/ sstate'[c] = "CLOSED" /\ p = AuthReply(FALSE),
         \A i \in 1 .. Len(waiting) : waiting[i] # c,
         p.type = "CMD_REPLY" => <<c, p.body>> \in CarriedOut'
  PROVE  ConnInv(c)'
<1> USE DEF clientVars
<1>0. Len(<<>>) = 0
  OBVIOUS
<1>1. CallInv(c)' /\ OffInv(c)'
  BY DEF ConnInv, CallInv, OffInv
<1>2. Len(toServer'[c]) <= 1
  BY <1>0
<1>3. ASSUME Alive(c)
      PROVE  /\ toClient[c] = <<>> /\ Head(toServer[c]) = Outstanding(c)
             /\ \/ toClient'[c] = <<>> /\ clientShut[c]
                \/ toClient'[c] # <<>> /\ Head(toClient'[c]) = p /\ Len(toClient'[c]) = 1
  <2>1. toClient[c] = <<>> /\ Head(toServer[c]) = Outstanding(c)
    BY <1>3 DEF ConnInv, QueueInv
  <2>2. CASE clientShut[c]
    BY <2>1, <2>2 DEF ServerSend
  <2>3. CASE ~ clientShut[c]
    <3>1. toClient'[c] = Append(toClient[c], p)
      BY <2>3 DEF ServerSend
    <3>2. toClient[c] \in Seq(Answer)
      OBVIOUS
    <3> QED BY <2>1, <3>1, <3>2, QueueOfOne
  <2> QED BY <2>1, <2>2, <2>3
<1>4. Alive(c)' <=> Alive(c)
  BY DEF Alive
<1>5. Outstanding(c)' = Outstanding(c)
  BY DEF Outstanding
<1>6. QueueInv(c)'
  <2>1. Alive(c) => Len(toClient'[c]) <= 1
    <3>1. CASE Alive(c) /\ toClient'[c] = <<>>
      BY <1>0, <3>1
    <3>2. CASE Len(toClient'[c]) = 1
      BY <3>2
    <3> QED BY <1>3, <3>1, <3>2
  <2> QED BY <1>2, <1>3, <1>4, <1>5, <2>1 DEF QueueInv
<1>7. SessionInv(c)'
  <2>1. ~ Undecided(c)'
    <3>1. state[c] # "INIT"
      BY Quiet DEF Alive
    <3> QED BY <3>1 DEF Undecided
  <2>2. ASSUME Granted(c)', ~ clientShut[c] PROVE sstate'[c] = "AUTHORIZED"
    <3>1. Alive(c) /\ ~ Granted(c)
      BY <2>2, GrantedIsQuiet DEF Granted, Alive
    <3>2. \/ state[c] = "AUTH_REQUESTED" /\ Head(toClient'[c]) = AuthReply(TRUE)
          \/ state[c] \in {"AWAITING_ATR", "IDLE"}
      BY <2>2, <3>1 DEF Granted
    <3>3. Head(toClient'[c]) = p
      BY <1>3, <2>2, <3>1
    <3>4. CASE state[c] = "AUTH_REQUESTED" /\ Head(toClient'[c]) = AuthReply(TRUE)
      <4>1. p # AuthReply(FALSE)
        BY <3>3, <3>4 DEF AuthReply, Prepare
      <4> QED BY <4>1
    <3>5. CASE state[c] \in {"AWAITING_ATR", "IDLE"}
      <4>1. Outstanding(c) = ResetRequest \/ Outstanding(c) = CommandPacket(emulatorData[c])
        <5>1. state[c] = "AWAITING_ATR" \/ (state[c] = "IDLE" /\ call[c] \in {"reset", "command"})
          BY <3>1, <3>5 DEF ConnTypes, Granted
        <5>2. CASE state[c] = "AWAITING_ATR"
          BY <5>2, AwaitedCases DEF Outstanding
        <5>3. CASE state[c] = "IDLE" /\ call[c] \in {"reset", "command"}
          BY <5>3, AwaitedCases DEF Outstanding
        <5> QED BY <5>1, <5>2, <5>3
      <4>2. \/ p = ResetReply
            \/ \E k : p = CmdReply(k)
        BY <1>3, <3>1, <4>1, OneReply DEF CommandPacket
      <4>3. p # AuthReply(FALSE)
        BY <4>2 DEF ResetReply, CmdReply, AuthReply, Prepare
      <4> QED BY <4>3
    <3> QED BY <3>2, <3>4, <3>5
  <2> QED BY <2>1, <2>2 DEF SessionInv
<1>8. CredentialsInv(c)'
  BY DEF ConnInv, CredentialsInv
<1>9. CommandInv(c)'
  BY <1>3, <1>4 DEF CommandInv
<1> QED BY <1>1, <1>6, <1>7, <1>8, <1>9 DEF ConnInv

-----------------------------------------------------------------------------
(* The steps of the server, part by part of the invariant.                 *)

(* What every step has to keep, but for what the server keeps by itself.   *)
Kept == CardInv' /\ \A d \in Conn : ConnInv(d)' /\ OwnAnswerOf(d)'

(* The server never touches what the emulators hold.                       *)
LEMMA AnswersStay ==
  ASSUME IInv, UNCHANGED wrote, CarriedOut \subseteq CarriedOut'
  PROVE  \A d \in Conn : OwnAnswerOf(d)'
<1>1. \A d \in Conn : OwnAnswerOf(d)
  BY OwnAnswerSplit DEF IInv
<1> QED BY <1>1 DEF OwnAnswerOf

(* The card carries out a command that was issued and not carried out.     *)
LEMMA CardCarriesOut ==
  ASSUME IInv, NEW c \in Conn, NEW k \in Cmd, c \in Good,
         <<c, k>> \in issued \ CarriedOut,
         cardLog' = Append(cardLog, <<c, k>>), UNCHANGED issued
  PROVE  /\ CardInv'
         /\ CarriedOut' = CarriedOut \cup {<<c, k>>}
<1>1. cardLog \in Seq(Conn \X Cmd) /\ CardInv /\ issued \subseteq Conn \X Cmd
  BY DEF IInv, TypeOK, ServerTypeOK, ClientTypeOK
<1>2. /\ Len(cardLog') = Len(cardLog) + 1 /\ cardLog'[Len(cardLog) + 1] = <<c, k>>
      /\ \A i \in 1 .. Len(cardLog) : cardLog'[i] = cardLog[i] /\ cardLog[i] \in Conn \X Cmd
      /\ Len(cardLog) \in Nat
  BY <1>1
<1>3. CarriedOut' = CarriedOut \cup {<<c, k>>}
  BY <1>2 DEF CarriedOut
<1>4. OnlyAuthorized'
  BY <1>1, <1>2 DEF OnlyAuthorized, CardInv
<1>5. \A i \in 1 .. Len(cardLog) : cardLog[i][2] # k
  <2>1. ASSUME NEW i \in 1 .. Len(cardLog), cardLog[i][2] = k PROVE FALSE
    <3>1. cardLog[i] \in CarriedOut
      BY DEF CarriedOut
    <3>2. PICK d \in Conn : cardLog[i] = <<d, k>>
      BY <1>2, <2>1
    <3>3. <<d, k>> \in issued
      BY <1>1, <3>1, <3>2 DEF CardInv
    <3>4. d = c
      BY <1>1, <3>3 DEF CardInv
    <3> QED BY <3>1, <3>2, <3>4
  <2> QED BY <2>1
<1>6. AtMostOnce'
  <2>1. cardLog'[Len(cardLog) + 1][2] = k
    BY <1>2
  <2>2. \A i \in 1 .. Len(cardLog) : cardLog'[i][2] = cardLog[i][2]
    BY <1>2
  <2>3. \A i \in 1 .. Len(cardLog') : i \in 1 .. Len(cardLog) \/ i = Len(cardLog) + 1
    BY <1>2
  <2> QED BY <1>1, <1>5, <2>1, <2>2, <2>3 DEF AtMostOnce, CardInv
<1> QED BY <1>1, <1>3, <1>4, <1>6 DEF CardInv

(* A step that leaves the card alone keeps CardInv.                        *)
LEMMA CardRests ==
  ASSUME IInv, UNCHANGED <<cardLog, issued>>
  PROVE  CardInv' /\ CarriedOut' = CarriedOut
BY DEF IInv, CardInv, CarriedOut, OnlyAuthorized, AtMostOnce

(* A step that touches neither connections nor sessions keeps everything.  *)
LEMMA NothingSeen ==
  ASSUME IInv, UNCHANGED <<connVars, clientVars, sstate, cardLog>>
  PROVE  Kept
<1>1. CardInv' /\ CarriedOut' = CarriedOut /\ \A d \in Conn : OwnAnswerOf(d)'
  BY CardRests, AnswersStay DEF clientVars
<1>2. \A d \in Conn : ConnInv(d)'
  <2> TAKE d \in Conn
  <2>1. ConnInv(d)
    BY DEF IInv
  <2>2. \A i \in 1 .. Len(waiting') : waiting'[i] = d =>
          \E j \in 1 .. Len(waiting) : waiting[j] = d
    BY DEF connVars
  <2> QED BY <1>1, <2>1, <2>2, ConnFrame DEF connVars, clientVars
<1> QED BY <1>1, <1>2 DEF Kept

(* A process that ends with nothing half done keeps everything.            *)
LEMMA EndSeen ==
  ASSUME IInv, ProcessEnds,
         UNCHANGED <<toServer, toClient, clientShut, clientVars, cardLog>>
  PROVE  Kept
<1>1. CardInv' /\ CarriedOut' = CarriedOut /\ \A d \in Conn : OwnAnswerOf(d)'
  BY CardRests, AnswersStay DEF clientVars
<1>2. Len(waiting') = 0
  BY EndKeeps
<1>3. \A d \in Conn : ConnInv(d)'
  <2> TAKE d \in Conn
  <2>1. ConnInv(d)
    BY DEF IInv
  <2>2. sstate'[d] = "none" /\ serverShut'[d]
    BY DEF ProcessEnds
  <2> QED BY <1>1, <1>2, <2>1, <2>2, ConnFrame DEF clientVars
<1> QED BY <1>1, <1>3 DEF Kept

(* Nobody begins to wait for the server.                                   *)
LEMMA WaitersStay ==
  ASSUME IInv, ServerStep \/ PSCProxySignalHandler, NEW d \in Conn
  PROVE  \A i \in 1 .. Len(waiting') : waiting'[i] = d =>
           \E j \in 1 .. Len(waiting) : waiting[j] = d
BY ServerPart, WaitingNext DEF ServerInv

(* A client that is taken in gets a session and leaves the queue.          *)
LEMMA AcceptKeeps ==
  ASSUME IInv, acceptClient, UNCHANGED <<clientShut, clientVars>>
  PROVE  Kept
<1>1. /\ waiting \in Seq(Conn) /\ waiting # <<>> /\ StartedInv
      /\ sstate \in [Conn -> {"none", "INIT", "AUTHORIZED", "CLOSED", "freed"}]
  BY DEF IInv, TypeOK, ConnTypeOK, ServerTypeOK, acceptClient
<1>2. PICK c \in Conn : c = Head(waiting) /\ c = waiting[1] /\ 1 \in 1 .. Len(waiting)
  BY <1>1
<1>3. /\ sstate' = [sstate EXCEPT ![c] = "INIT"]
      /\ UNCHANGED <<toServer, toClient, serverShut, cardLog>>
  BY <1>2 DEF acceptClient, Become
<1>7. CardInv' /\ CarriedOut' = CarriedOut /\ \A d \in Conn : OwnAnswerOf(d)'
  BY <1>3, CardRests, AnswersStay DEF clientVars
<1>8. ASSUME NEW d \in Conn, d # c PROVE ConnInv(d)'
  <2>1. ConnInv(d)
    BY DEF IInv
  <2>2. sstate'[d] = sstate[d]
    BY <1>1, <1>3, <1>8
  <2>3. \A i \in 1 .. Len(waiting') : waiting'[i] = d =>
          \E j \in 1 .. Len(waiting) : waiting[j] = d
    BY WaitersStay DEF ServerStep
  <2> QED BY <1>3, <1>7, <2>1, <2>2, <2>3, ConnFrame DEF clientVars
<1>9. ConnInv(c)'
  <2>1. ConnInv(c) /\ state[c] # "OFF" /\ sstate'[c] = "INIT"
    BY <1>1, <1>2, <1>3 DEF IInv, StartedInv
  <2>2. ~ Decided(c) /\ ~ Granted(c)
    <3>1. ~ Decided(c)
      BY <1>2, <2>1 DEF ConnInv, SessionInv
    <3> QED BY <3>1 DEF Decided, Granted
  <2>3. ~ Decided(c)' /\ ~ Granted(c)'
    BY <1>3, <2>2 DEF Decided, Granted, clientVars
  <2>4. CallInv(c)' /\ OffInv(c)' /\ QueueInv(c)'
    BY <1>3, <2>1 DEF ConnInv, CallInv, OffInv, QueueInv, Alive, Outstanding, clientVars
  <2>5. SessionInv(c)'
    BY <2>1, <2>3 DEF SessionInv
  <2>6. CredentialsInv(c)' /\ CommandInv(c)'
    BY <1>3, <1>7, <2>1 DEF ConnInv, CredentialsInv, CommandInv, Alive, clientVars
  <2> QED BY <2>4, <2>5, <2>6 DEF ConnInv
<1> QED BY <1>7, <1>8, <1>9 DEF Kept

(* Who has a session does not wait for one.                                *)
LEMMA NotWaiting ==
  ASSUME IInv, NEW c \in Conn, sstate[c] # "none"
  PROVE  \A i \in 1 .. Len(waiting) : waiting[i] # c
BY DEF IInv, ServerInv, WaitingInv

(* Client::tick reads what there is, and says nothing.                     *)
LEMMA TickSilent ==
  ASSUME IInv, NEW c \in Conn, sstate[c] # "none",
         toServer' = [toServer EXCEPT ![c] = Rest(@)], NoReply(c),
         UNCHANGED <<clientShut, clientVars, cardLog>>,
         Granted(c) => clientShut[c] \/ serverShut[c]
  PROVE  Kept
<1>1. /\ CardInv' /\ CarriedOut' = CarriedOut /\ (\A d \in Conn : OwnAnswerOf(d)')
      /\ \A i \in 1 .. Len(waiting) : waiting[i] # c
  BY CardRests, AnswersStay, NotWaiting DEF clientVars
<1>2. /\ Become(c, "CLOSED")
      /\ UNCHANGED <<toClient, serverShut, waiting>>
  BY DEF NoReply, NextClient
<1>4. /\ sstate \in [Conn -> {"none", "INIT", "AUTHORIZED", "CLOSED", "freed"}]
      /\ toServer \in [Conn -> Seq(Request)] /\ ConnTypes(c) /\ ConnInv(c)
  BY TypesOfConn DEF IInv, TypeOK, ConnTypeOK, ServerTypeOK
<1>5. ConnInv(c)'
  <2>1. toServer'[c] = <<>>
    BY <1>4, RestOfOne DEF ConnInv, QueueInv
  <2>2. sstate'[c] = "CLOSED"
    BY <1>2, <1>4 DEF Become
  <2> QED BY <1>1, <1>2, <1>4, <2>1, <2>2, SessionEnds
<1>6. ASSUME NEW d \in Conn, d # c PROVE ConnInv(d)'
  <2>1. ConnInv(d) /\ toServer'[d] = toServer[d] /\ sstate'[d] = sstate[d]
    BY <1>2, <1>4, <1>6 DEF IInv, Become
  <2> QED BY <1>1, <1>2, <2>1, ConnFrame DEF clientVars
<1> QED BY <1>1, <1>5, <1>6 DEF Kept

(* Client::tick reads a request and answers it, or dies in the attempt.    *)
LEMMA TickReplies ==
  ASSUME IInv, NEW c \in Conn, sstate[c] # "none",
         toServer[c] # <<>>, toServer' = [toServer EXCEPT ![c] = Rest(@)],
         NEW p \in Answer, Alive(c) => p \in RepliesTo(Head(toServer[c])),
         NEW s, Reply(c, s, p),
         UNCHANGED <<clientShut, clientVars>>,
         \/ s = "AUTHORIZED" /\ c \in Good
         \/ s = "CLOSED" /\ p = AuthReply(FALSE),
         CardInv', CarriedOut \subseteq CarriedOut',
         \A d \in Conn : \A k : d # c /\ <<d, k>> \in CarriedOut' => <<d, k>> \in CarriedOut,
         p.type = "CMD_REPLY" => <<c, p.body>> \in CarriedOut'
  PROVE  Kept
<1>1. /\ \A d \in Conn : OwnAnswerOf(d)'
      /\ \A i \in 1 .. Len(waiting) : waiting[i] # c
  BY AnswersStay, NotWaiting DEF clientVars
<1>2. /\ sstate \in [Conn -> {"none", "INIT", "AUTHORIZED", "CLOSED", "freed"}]
      /\ toServer \in [Conn -> Seq(Request)] /\ toClient \in [Conn -> Seq(Answer)]
      /\ ConnTypes(c) /\ ConnInv(c)
  BY TypesOfConn DEF IInv, TypeOK, ConnTypeOK, ServerTypeOK
<1>3. toServer'[c] = <<>> /\ \A d \in Conn : d # c => toServer'[d] = toServer[d]
  BY <1>2, RestOfOne DEF ConnInv, QueueInv
<1>4. CASE Become(c, s) /\ ServerSend(c, p) /\ NextClient
  <2>1. UNCHANGED <<serverShut, waiting>>
    BY <1>4 DEF NextClient
  <2>3. sstate'[c] = s /\ \A d \in Conn : d # c => sstate'[d] = sstate[d]
    BY <1>2, <1>4 DEF Become
  <2>4. ConnInv(c)'
    BY <1>1, <1>2, <1>3, <1>4, <2>1, <2>3, SessionReplies
  <2>5. ASSUME NEW d \in Conn, d # c PROVE ConnInv(d)'
    <3>1. ConnInv(d)
      BY DEF IInv
    <3>2. toClient'[d] = toClient[d]
      BY <1>2, <1>4, <2>5 DEF ServerSend
    <3> QED BY <1>3, <2>1, <2>3, <2>5, <3>1, <3>2, ConnFrame DEF clientVars
  <2> QED BY <1>1, <2>4, <2>5 DEF Kept
<1>5. CASE Broken(c) /\ ProcessEnds /\ UNCHANGED toClient
  <2>1. Len(waiting') = 0
    BY <1>5, EndKeeps
  <2>2. \A d \in Conn : sstate'[d] = "none" /\ serverShut'[d]
    BY <1>5 DEF ProcessEnds
  <2>3. \A d \in Conn : \A i \in 1 .. Len(waiting') : waiting'[i] # d
    BY <2>1
  <2>4. ConnInv(c)'
    BY <1>2, <1>3, <1>5, <2>2, <2>3, SessionEnds
  <2>5. ASSUME NEW d \in Conn, d # c PROVE ConnInv(d)'
    <3>1. ConnInv(d)
      BY DEF IInv
    <3> QED BY <1>3, <1>5, <2>2, <2>3, <2>5, <3>1, ConnFrame DEF clientVars
  <2> QED BY <1>1, <2>4, <2>5 DEF Kept
<1> QED BY <1>4, <1>5 DEF Reply

(* What Client::tick reads is a request of its client, and how far the     *)
(* session is decides who that client is and what it can ask.              *)
LEMMA checkAuthKeeps ==
  ASSUME IInv, checkAuth, UNCHANGED <<clientShut, clientVars>>
  PROVE  Kept
<1>1. PICK c \in Conn : c = Ticked
  BY DEF checkAuth, Ticking, Ticked, IInv, TypeOK, ServerTypeOK
<1>2. PICK r \in ReadResults(toServer[c], clientShut[c], NoData) :
        /\ ServerRead(c, r)
        /\ \/ ~ r.ok /\ NoReply(c)
           \/ r.ok /\ parseAuth(r.data) /\ Reply(c, "AUTHORIZED", AuthReply(TRUE))
           \/ r.ok /\ ~ parseAuth(r.data) /\ Reply(c, "CLOSED", AuthReply(FALSE))
  BY <1>1 DEF checkAuth
<1>3. /\ sstate[c] = "INIT" /\ ConnTypes(c) /\ ConnInv(c) /\ UNCHANGED cardLog
      /\ toServer' = [toServer EXCEPT ![c] = Rest(@)]
  BY <1>1, <1>2, TypesOfConn DEF checkAuth, Ticking, ServerRead, IInv
<1>4. Granted(c) => clientShut[c] \/ serverShut[c]
  BY <1>3 DEF ConnInv, SessionInv
<1>5. CASE NoReply(c)
  BY <1>3, <1>4, <1>5, TickSilent
<1>6. CASE r.ok /\ parseAuth(r.data) /\ Reply(c, "AUTHORIZED", AuthReply(TRUE))
  <2>1. toServer[c] # <<>> /\ Head(toServer[c]) = Auth("good")
    BY <1>3, <1>6, RequestParsed DEF ConnTypes
  <2>2. c \in Good
    <3>1. Auth("good") # Auth("bad")
      BY DEF Auth, Prepare
    <3> QED BY <1>3, <2>1, <3>1 DEF ConnInv, CredentialsInv
  <2>3. AuthReply(TRUE) \in RepliesTo(Head(toServer[c]))
    BY <2>1, OneReply
  <2>4. AuthReply(TRUE).type # "CMD_REPLY"
    BY DEF AuthReply, Prepare
  <2>5. CardInv' /\ CarriedOut' = CarriedOut
    BY <1>3, CardRests DEF clientVars
  <2> QED BY <1>3, <1>6, <2>1, <2>2, <2>3, <2>4, <2>5, PacketKinds, TickReplies
<1>7. CASE r.ok /\ ~ parseAuth(r.data) /\ Reply(c, "CLOSED", AuthReply(FALSE))
  <2>1. toServer[c] # <<>> /\ Head(toServer[c]) # Auth("good")
    BY <1>3, <1>7, RequestParsed DEF ConnTypes
  <2>2. ASSUME Alive(c) PROVE Head(toServer[c]) = Auth("bad")
    <3>1. Head(toServer[c]) = Outstanding(c)
      BY <1>3, <2>1, <2>2 DEF ConnInv, QueueInv
    <3>2. ~ Decided(c) /\ state[c] # "INIT"
      BY <1>3, <2>1, Quiet DEF ConnInv, SessionInv, Alive
    <3>3. state[c] = "AUTH_REQUESTED"
      BY <1>3, <2>2, <3>2 DEF Decided, Alive, ConnTypes, ClientState
    <3> QED BY <2>1, <3>1, <3>3, AwaitedCases DEF Outstanding
  <2>3. Alive(c) => AuthReply(FALSE) \in RepliesTo(Head(toServer[c]))
    BY <2>2, OneReply
  <2>4. AuthReply(FALSE).type # "CMD_REPLY"
    BY DEF AuthReply, Prepare
  <2>5. CardInv' /\ CarriedOut' = CarriedOut
    BY <1>3, CardRests DEF clientVars
  <2> QED BY <1>3, <1>7, <2>1, <2>3, <2>4, <2>5, PacketKinds, TickReplies
<1> QED BY <1>2, <1>5, <1>6, <1>7

(* Between authorization and the end of the session the server answers     *)
(* each request by what its type asks for, and the card serves commands.   *)
LEMMA handleClientRequestsKeeps ==
  ASSUME IInv, handleClientRequests, UNCHANGED <<clientShut, clientVars>>
  PROVE  Kept
<1>1. PICK c \in Conn : c = Ticked
  BY DEF handleClientRequests, Ticking, Ticked, IInv, TypeOK, ServerTypeOK
<1>2. PICK r \in ReadResults(toServer[c], clientShut[c], NoData) :
        /\ ServerRead(c, r)
        /\ \/ /\ r.ok /\ parseResetRequest(r.data)
              /\ Reply(c, "AUTHORIZED", ResetReply)
              /\ UNCHANGED cardLog
           \/ /\ r.ok /\ parseCmdRequest(r.data)
              /\ cardLog' = Append(cardLog, <<c, r.data.body>>)
              /\ Reply(c, "AUTHORIZED", CmdReply(r.data.body))
           \/ NoReply(c) /\ UNCHANGED cardLog
  BY <1>1 DEF handleClientRequests
<1>3. /\ sstate[c] = "AUTHORIZED" /\ ConnTypes(c) /\ ConnInv(c) /\ ServerReadable(c)
      /\ toServer' = [toServer EXCEPT ![c] = Rest(@)]
  BY <1>1, <1>2, TypesOfConn DEF handleClientRequests, Ticking, ServerRead, IInv
<1>4. c \in Good
  BY <1>3 DEF ConnInv, CredentialsInv
<1>5. CASE NoReply(c) /\ UNCHANGED cardLog
  <2>1. Granted(c) => clientShut[c]
    BY <1>3, GrantedIsQuiet DEF ServerReadable
  <2> QED BY <1>3, <1>5, <2>1, TickSilent
<1>6. CASE /\ r.ok /\ parseResetRequest(r.data)
           /\ Reply(c, "AUTHORIZED", ResetReply)
           /\ UNCHANGED cardLog
  <2>1. toServer[c] # <<>> /\ Head(toServer[c]) = ResetRequest
    BY <1>3, <1>6, RequestParsed DEF ConnTypes
  <2>2. ResetReply \in RepliesTo(Head(toServer[c]))
    BY <2>1, OneReply
  <2>3. ResetReply.type # "CMD_REPLY"
    BY DEF ResetReply, Prepare
  <2>4. CardInv' /\ CarriedOut' = CarriedOut
    BY <1>6, CardRests DEF clientVars
  <2> QED BY <1>3, <1>4, <1>6, <2>1, <2>2, <2>3, <2>4, PacketKinds, TickReplies
<1>7. CASE /\ r.ok /\ parseCmdRequest(r.data)
           /\ cardLog' = Append(cardLog, <<c, r.data.body>>)
           /\ Reply(c, "AUTHORIZED", CmdReply(r.data.body))
  <2>1. /\ toServer[c] # <<>> /\ r.data.body \in Cmd
        /\ Head(toServer[c]) = CmdRequest(r.data.body)
    BY <1>3, <1>7, RequestParsed DEF ConnTypes
  <2>2. PICK k \in Cmd : k = r.data.body
    BY <2>1
  <2>3. CmdReply(k) \in RepliesTo(Head(toServer[c])) /\ CmdReply(k) \in Answer
    BY <2>1, <2>2, OneReply, PacketKinds
  <2>4. CmdReply(k).body = k
    BY DEF CmdReply, Prepare
  <2>5. <<c, k>> \in issued \ CarriedOut
    <3>1. CmdRequest(k).type = "CMD_REQUEST" /\ CmdRequest(k).body = k
      BY DEF CmdRequest, Prepare
    <3> QED BY <1>3, <2>1, <2>2, <3>1 DEF ConnInv, CommandInv
  <2>6. CardInv' /\ CarriedOut' = CarriedOut \cup {<<c, k>>}
    BY <1>4, <1>7, <2>2, <2>5, CardCarriesOut DEF clientVars
  <2>7. \A d \in Conn : \A m : d # c /\ <<d, m>> \in CarriedOut' => <<d, m>> \in CarriedOut
    BY <2>6
  <2>8. Reply(c, "AUTHORIZED", CmdReply(k))
    BY <1>7, <2>2
  <2> QED BY <1>3, <1>4, <2>1, <2>3, <2>4, <2>6, <2>7, <2>8, TickReplies
<1> QED BY <1>2, <1>5, <1>6, <1>7

(* Whichever Client is deleted, closed or not, its connection is shut, and *)
(* that is enough: to its client it is as if the server had gone.          *)
LEMMA eraseClientKeeps ==
  ASSUME IInv, eraseClient, UNCHANGED <<clientShut, clientVars>>
  PROVE  Kept
<1>1. /\ sstate \in [Conn -> {"none", "INIT", "AUTHORIZED", "CLOSED", "freed"}]
      /\ serverShut \in [Conn -> BOOLEAN]
      /\ UNCHANGED <<toServer, toClient, waiting, cardLog>>
  BY DEF IInv, TypeOK, ConnTypeOK, ServerTypeOK, eraseClient
<1>2. PICK v \in Conn : v = Victim /\ sstate[v] # "none"
  BY ServerPart, VictimHasSession DEF ServerInv
<1>3. Become(v, "freed") /\ serverShut' = [serverShut EXCEPT ![v] = TRUE]
  BY <1>2 DEF eraseClient
<1>4. CardInv' /\ CarriedOut' = CarriedOut /\ \A d \in Conn : OwnAnswerOf(d)'
  BY <1>1, CardRests, AnswersStay DEF clientVars
<1>5. ASSUME NEW d \in Conn PROVE ConnInv(d)'
  <2>1. ConnInv(d)
    BY DEF IInv
  <2>2. \/ sstate'[d] = sstate[d] /\ serverShut'[d] = serverShut[d]
        \/ sstate'[d] = "freed" /\ serverShut'[d] /\ sstate[d] # "none"
    BY <1>1, <1>2, <1>3 DEF Become
  <2>3. \A i \in 1 .. Len(waiting') : waiting'[i] = d =>
          \E j \in 1 .. Len(waiting) : waiting[j] = d
    BY <1>1
  <2> QED BY <1>1, <1>4, <2>1, <2>2, <2>3, ConnFrame DEF clientVars
<1> QED BY <1>4, <1>5 DEF Kept

(* Every step of the server keeps the inductive invariant.                 *)
LEMMA ServerKeeps ==
  ASSUME IInv, Server
  PROVE  Kept
<1>0. UNCHANGED <<clientShut, clientVars>>
  BY DEF Server
<1>1. CASE acceptClient
  BY <1>0, <1>1, AcceptKeeps
<1>2. CASE acceptThrows \/ PSCProxySignalHandler
  BY <1>0, <1>2, EndSeen DEF acceptThrows, PSCProxySignalHandler
<1>3. CASE checkAuth
  BY <1>0, <1>3, checkAuthKeeps
<1>4. CASE handleClientRequests
  BY <1>0, <1>4, handleClientRequestsKeeps
<1>5. CASE eraseClient
  BY <1>0, <1>5, eraseClientKeeps
<1>6. CASE \/ endAccept \/ skipClient \/ selectFails \/ endTick \/ keepClient
           \/ useFreed \/ endReap
  BY <1>0, <1>6, NothingSeen DEF endAccept, skipClient, NextClient, selectFails, endTick,
                                 keepClient, useFreed, endReap, connVars
<1> QED BY <1>1, <1>2, <1>3, <1>4, <1>5, <1>6 DEF Server, ServerStep

-----------------------------------------------------------------------------
(* The theorems.                                                           *)

(* The invariant holds before the first client starts.                     *)
LEMMA InitInv == ASSUME Init PROVE IInv
<1>0. Len(<<>>) = 0
  OBVIOUS
<1>1. TypeOK /\ ServerInv
  BY InitTypes, InitServerInv DEF Init, TypeInv
<1>2. waiting = <<>> /\ cardLog = <<>> /\ issued = {}
  BY DEF Init, ConnInit, ClientInit, ServerInit
<1>3. StartedInv
  BY <1>0, <1>2 DEF StartedInv
<1>4. CardInv
  BY <1>0, <1>2 DEF CardInv, CarriedOut, OnlyAuthorized, AtMostOnce
<1>5. ASSUME NEW c \in Conn PROVE ConnInv(c)
  <2>1. /\ state[c] = "OFF" /\ call[c] = "none" /\ emulatorData[c] = None
        /\ toServer[c] = <<>> /\ toClient[c] = <<>> /\ sstate[c] = "none"
        /\ Len(toServer[c]) <= 1
    BY <1>0 DEF Init, ConnInit, ClientInit, ServerInit
  <2> QED BY <2>1 DEF ConnInv, CallInv, OffInv, QueueInv, SessionInv, CredentialsInv,
                      CommandInv, Alive, Undecided, Decided, Granted
<1>6. OwnAnswer
  BY <1>0 DEF Init, ClientInit, OwnAnswer
<1> QED BY <1>1, <1>3, <1>4, <1>5, <1>6 DEF IInv

(* Every step of the clients, the server and the network keeps it.         *)
LEMMA NextInv == ASSUME IInv, [Next]_vars PROVE IInv'
<1>1. TypeOK'
  BY NextTypes, ServerPart DEF IInv, TypeInv, ServerTypeInv
<1>2. ASSUME Kept, ServerInv', StartedInv' PROVE IInv'
  BY <1>1, <1>2, OwnAnswerSplit DEF Kept, IInv, OwnAnswer, OwnAnswerOf, CarriedOut
<1>3. ASSUME NEW c \in Conn, Client(c) PROVE IInv'
  BY <1>2, <1>3, ClientKeepsOwn, ClientKeepsOthers, ClientKeepsWaiting, ClientKeepsCard,
     ClientKeepsAnswer DEF Kept
<1>4. ASSUME pc # "undefined", Server PROVE IInv'
  <2>1. ServerInv' /\ ServerTypeInv'
    BY <1>4, ServerPart, ServerKeepsInv DEF Server
  <2>2. StartedInv'
    <3>1. \A i \in 1 .. Len(waiting') : waiting'[i] \in Conn
      BY <2>1 DEF ServerTypeInv, ConnTypeOK
    <3>2. \A i \in 1 .. Len(waiting') : \E j \in 1 .. Len(waiting) : waiting[j] = waiting'[i]
      BY <1>4, <3>1, WaitersStay DEF Server
    <3> QED BY <1>4, <3>2 DEF IInv, StartedInv, Server, clientVars
  <2> QED BY <1>2, <1>4, <2>1, <2>2, ServerKeeps
<1>5. ASSUME NEW c \in Conn, Network(c) PROVE IInv'
  <2>1. /\ UNCHANGED <<toServer, toClient, waiting, clientVars, serverVars>>
        /\ clientShut' = [clientShut EXCEPT ![c] = TRUE]
        /\ serverShut' = [serverShut EXCEPT ![c] = TRUE]
    BY <1>5 DEF Network, Break
  <2>2. CardInv' /\ CarriedOut' = CarriedOut /\ \A d \in Conn : OwnAnswerOf(d)'
    BY <2>1, CardRests, AnswersStay DEF clientVars, serverVars
  <2>3. ServerInv' /\ StartedInv'
    BY <2>1, OthersKeepInv DEF IInv, StartedInv, clientVars
  <2>4. ASSUME NEW d \in Conn PROVE ConnInv(d)'
    <3>1. /\ ConnInv(d) /\ clientShut \in [Conn -> BOOLEAN] /\ serverShut \in [Conn -> BOOLEAN]
      BY DEF IInv, TypeOK, ConnTypeOK
    <3>2. (clientShut[d] => clientShut'[d]) /\ (serverShut[d] => serverShut'[d])
      BY <2>1, <3>1
    <3>3. \A i \in 1 .. Len(waiting') : waiting'[i] = d =>
            \E j \in 1 .. Len(waiting) : waiting[j] = d
      BY <2>1
    <3> QED BY <2>1, <2>2, <3>1, <3>2, <3>3, ConnFrame DEF clientVars, serverVars
  <2> QED BY <1>2, <2>2, <2>3, <2>4 DEF Kept
<1>6. ASSUME UNCHANGED vars PROVE IInv'
  <2>1. ServerInv' /\ StartedInv'
    BY <1>6, OthersKeepInv DEF IInv, StartedInv, vars, connVars, clientVars
  <2> QED BY <1>2, <1>6, <2>1, NothingSeen DEF vars, serverVars
<1> QED BY <1>3, <1>4, <1>5, <1>6 DEF Next, Terminating

(* The inductive invariant holds in every reachable state, whatever the    *)
(* number of clients, the commands, the backlog and the faults.            *)
THEOREM Invariance == Spec => []IInv
<1>1. Init => IInv
  BY InitInv
<1>2. IInv /\ [Next]_vars => IInv'
  BY NextInv
<1> QED BY <1>1, <1>2, PTL DEF Spec

(* No reply is ever left over: between a client that is there and the      *)
(* server at most one packet is under way, the request the client waits on *)
(* or the reply to it.                                                     *)
THEOREM StopAndWaitHolds == Spec => []StopAndWait
<1>1. IInv => StopAndWait
  BY DEF IInv, ConnInv, QueueInv, StopAndWait
<1> QED BY <1>1, Invariance, PTL

(* A client past authorization has the credentials and finds its session   *)
(* authorized, whatever the other clients do.                              *)
THEOREM InStepHolds == Spec => []InStep
<1>1. IInv => InStep
  BY DEF IInv, ConnInv, CredentialsInv, SessionInv, Granted, InStep
<1> QED BY <1>1, Invariance, PTL

(* The card is given each command once, whoever fails and when.            *)
THEOREM AtMostOnceHolds == Spec => []AtMostOnce
<1>1. IInv => AtMostOnce
  BY DEF IInv, CardInv
<1> QED BY <1>1, Invariance, PTL

(* A box is given no answer but the card's to the command it goes with.    *)
THEOREM OwnAnswerHolds == Spec => []OwnAnswer
<1>1. IInv => OwnAnswer
  BY DEF IInv
<1> QED BY <1>1, Invariance, PTL

(* Between two turns of the loop that reaps every open session has exactly *)
(* one slot of the vector, and who waits to be accepted none, whoever was  *)
(* closed, erased and deleted before, up to the first use of a Client that *)
(* is deleted.                                                             *)
THEOREM RosterHolds == Spec => []Roster
<1>1. IInv => Roster
  BY RosterOf DEF IInv
<1> QED BY <1>1, Invariance, PTL

-----------------------------------------------------------------------------
(* The refinement.                                                         *)

(* The step changes nothing that the promise is about.                     *)
Unseen == UNCHANGED <<issued, cardLog, emulatorData, wrote>>

(* What nobody sees is a stutter of the promise.                           *)
LEMMA UnseenIsStutter ==
  ASSUME Unseen
  PROVE  UNCHANGED Promise!rcVars
BY DEF Unseen, Promise!rcVars, Pending, Given

(* The card's log means the same to the programs and to the promise.       *)
LEMMA SameLog == Promise!CarriedOut = CarriedOut
BY DEF Promise!CarriedOut, CarriedOut

(* A client that holds no command has none pending.                        *)
LEMMA NothingPending ==
  ASSUME NEW c \in Conn, emulatorData[c] \in {Zero, None}
  PROVE  Pending(c) = None
BY CmdAssumption DEF Pending

(* The client lets go of what it holds, and the box is told nothing.       *)
LEMMA LetGo ==
  ASSUME TypeOK, NEW c \in Conn, emulatorData' = [emulatorData EXCEPT ![c] = None],
         UNCHANGED <<issued, cardLog, wrote>>
  PROVE  [Promise!Next]_(Promise!rcVars)
<1>1. /\ emulatorData \in [Conn -> Cmd \cup {Zero, None}] /\ None \notin Cmd
  BY CmdAssumption DEF TypeOK, ClientTypeOK
<1>2. [d \in Conn |-> Given(d)]' = [d \in Conn |-> Given(d)]
  BY DEF Given
<1>3. [d \in Conn |-> Pending(d)]' = [[d \in Conn |-> Pending(d)] EXCEPT ![c] = None]
  BY <1>1 DEF Pending
<1>4. CASE Pending(c) = None
  BY <1>2, <1>3, <1>4 DEF Promise!rcVars
<1>5. CASE Pending(c) # None
  <2>1. Promise!GiveUp(c)
    BY <1>2, <1>3, <1>5 DEF Promise!GiveUp
  <2> QED BY <2>1 DEF Promise!Next
<1> QED BY <1>4, <1>5

-----------------------------------------------------------------------------
(* The steps of a client.                                                  *)

(* A client that starts a command asks for it; a lone 0 asks for nothing.  *)
LEMMA AskImplements ==
  ASSUME IInv, NEW c \in Conn, NEW k \in Cmd \cup {Zero}, askCommand(c, k), UNCHANGED cardLog
  PROVE  [Promise!Next]_(Promise!rcVars)
<1>1. /\ emulatorData \in [Conn -> Cmd \cup {Zero, None}]
      /\ state[c] = "IDLE" /\ call[c] = "none" /\ emulatorData[c] = None /\ c \in Good
  BY DEF askCommand, IInv, TypeOK, ClientTypeOK, ConnInv, CallInv, CredentialsInv
<1>2. /\ emulatorData' = [emulatorData EXCEPT ![c] = k]
      /\ \A d \in Conn : <<d, k>> \notin issued
      /\ issued' = IF k = Zero THEN issued ELSE issued \cup {<<c, k>>}
      /\ UNCHANGED <<wrote, cardLog>>
  BY DEF askCommand
<1>3. [d \in Conn |-> Given(d)]' = [d \in Conn |-> Given(d)]
  BY <1>2 DEF Given
<1>4. Pending(c) = None /\ Zero \notin Cmd /\ None \notin Cmd
  BY <1>1, NothingPending, CmdAssumption
<1>5. CASE k = Zero
  <2>1. [d \in Conn |-> Pending(d)]' = [d \in Conn |-> Pending(d)]
    BY <1>1, <1>2, <1>4, <1>5 DEF Pending
  <2> QED BY <1>2, <1>3, <1>5, <2>1 DEF Promise!rcVars
<1>6. CASE k # Zero
  <2>1. [d \in Conn |-> Pending(d)]' = [[d \in Conn |-> Pending(d)] EXCEPT ![c] = k]
    BY <1>1, <1>2, <1>6 DEF Pending
  <2>2. Promise!Ask(c, k)
    BY <1>1, <1>2, <1>3, <1>4, <1>6, <2>1 DEF Promise!Ask
  <2> QED BY <1>6, <2>2 DEF Promise!Next
<1> QED BY <1>5, <1>6

(* A reset that is answered gives the box the ATR, else nothing is seen.   *)
LEMMA ResetImplements ==
  ASSUME IInv, NEW c \in Conn, replyToReset(c), UNCHANGED cardLog
  PROVE  [Promise!Next]_(Promise!rcVars)
<1>1. /\ wrote \in [Conn -> Seq(Piece)]
      /\ state[c] = "IDLE" /\ call[c] = "reset" /\ emulatorData[c] = None /\ c \in Good
  BY DEF replyToReset, IInv, TypeOK, ClientTypeOK, ConnInv, CallInv, CredentialsInv
<1>2. UNCHANGED <<issued, emulatorData, cardLog>>
  BY DEF replyToReset
<1>3. UNCHANGED wrote \/ wrote' = [wrote EXCEPT ![c] = <<AtrPiece>>]
  BY DEF replyToReset
<1>4. CASE UNCHANGED wrote
  BY <1>2, <1>4, UnseenIsStutter DEF Unseen
<1>5. CASE wrote' = [wrote EXCEPT ![c] = <<AtrPiece>>]
  <2>1. [d \in Conn |-> Pending(d)]' = [d \in Conn |-> Pending(d)] /\ Pending(c) = None
    BY <1>1, <1>2, NothingPending DEF Pending
  <2>2. Given(c)' = None
    <3>1. wrote'[c] = <<AtrPiece>>
      BY <1>1, <1>5
    <3>2. wrote'[c][Len(wrote'[c])].kind = "atr"
      BY <3>1 DEF AtrPiece
    <3> QED BY <3>2 DEF Given
  <2>3. \A d \in Conn : d # c => Given(d)' = Given(d)
    BY <1>1, <1>5 DEF Given
  <2>4. [d \in Conn |-> Given(d)]' = [[d \in Conn |-> Given(d)] EXCEPT ![c] = None]
    BY <2>2, <2>3
  <2>5. Promise!GiveAtr(c)
    BY <1>1, <1>2, <2>1, <2>4 DEF Promise!GiveAtr
  <2> QED BY <2>5 DEF Promise!Next
<1> QED BY <1>3, <1>4, <1>5

(* A command's reply gives the box the answer to the command it waits on,  *)
(* and a reply that does not come makes the client give up.                *)
LEMMA CommandImplements ==
  ASSUME IInv, NEW c \in Conn, replyToCommand(c), UNCHANGED cardLog
  PROVE  [Promise!Next]_(Promise!rcVars)
<1>1. /\ TypeOK /\ wrote \in [Conn -> Seq(Piece)]
      /\ emulatorData \in [Conn -> Cmd \cup {Zero, None}]
      /\ call[c] = "command"
  BY DEF replyToCommand, IInv, TypeOK, ClientTypeOK
<1>2. emulatorData' = [emulatorData EXCEPT ![c] = None] /\ UNCHANGED <<issued, cardLog>>
  BY DEF replyToCommand
<1>3. PICK r \in ReadResults(toClient[c], serverShut[c], CommandPacket(emulatorData[c])) :
        \/ /\ parseCmdReply(r.data)
           /\ wrote' = [wrote EXCEPT ![c] =
                          CmdReplyData(<<CommandPiece(emulatorData[c])>>, r.data)]
        \/ UNCHANGED wrote
  BY DEF replyToCommand
<1>4. CASE UNCHANGED wrote
  BY <1>1, <1>2, <1>4, LetGo
<1>5. CASE /\ parseCmdReply(r.data)
           /\ wrote' = [wrote EXCEPT ![c] =
                          CmdReplyData(<<CommandPiece(emulatorData[c])>>, r.data)]
  <2>1. PICK k \in Cmd :
          /\ k = emulatorData[c] /\ <<c, k>> \in CarriedOut
          /\ wrote' = [wrote EXCEPT ![c] = <<CommandPiece(k), AnswerPiece(k)>>]
    BY <1>1, <1>5, ReplyIsOwn
  <2>2. Pending(c) = k /\ None \notin Cmd
    BY <2>1, CmdAssumption DEF Pending
  <2>3. [d \in Conn |-> Pending(d)]' = [[d \in Conn |-> Pending(d)] EXCEPT ![c] = None]
    BY <1>1, <1>2, <2>2 DEF Pending
  <2>4. Given(c)' = k
    <3>1. wrote'[c] = <<CommandPiece(k), AnswerPiece(k)>>
      BY <1>1, <2>1
    <3>2. wrote'[c] # <<>> /\ wrote'[c][Len(wrote'[c])] = AnswerPiece(k)
      BY <3>1
    <3> QED BY <3>2 DEF Given, AnswerPiece
  <2>5. \A d \in Conn : d # c => Given(d)' = Given(d)
    BY <1>1, <2>1 DEF Given
  <2>6. [d \in Conn |-> Given(d)]' = [[d \in Conn |-> Given(d)] EXCEPT ![c] = k]
    BY <2>4, <2>5
  <2>7. Promise!GiveAnswer(c)
    BY <1>2, <2>1, <2>2, <2>3, <2>6, SameLog DEF Promise!GiveAnswer
  <2> QED BY <2>7 DEF Promise!Next
<1> QED BY <1>3, <1>4, <1>5

(* Every step of a client.                                                 *)
LEMMA ClientImplements ==
  ASSUME IInv, NEW c \in Conn, Client(c)
  PROVE  [Promise!Next]_(Promise!rcVars)
<1>1. UNCHANGED cardLog /\ TypeOK
  BY DEF Client, serverVars, IInv
<1>2. CASE Unseen
  BY <1>2, UnseenIsStutter
<1>3. ASSUME NEW k \in Cmd \cup {Zero}, askCommand(c, k) PROVE [Promise!Next]_(Promise!rcVars)
  BY <1>1, <1>3, AskImplements
<1>4. CASE replyToReset(c)
  BY <1>1, <1>4, ResetImplements
<1>5. CASE replyToCommand(c)
  BY <1>1, <1>5, CommandImplements
<1>6. CASE Exit(c)
  BY <1>1, <1>6, LetGo DEF Exit
<1>7. \/ Unseen \/ (\E k \in Cmd \cup {Zero} : askCommand(c, k))
      \/ replyToReset(c) \/ replyToCommand(c) \/ Exit(c)
  BY <1>1, ClientCases
     DEF Unseen, Start, authorize, checkAuthReply, requestATR, cacheATR, askReset
<1> QED BY <1>2, <1>3, <1>4, <1>5, <1>6, <1>7

-----------------------------------------------------------------------------
(* The steps of the server.                                                *)

(* What the card is given was asked for and not carried out before.        *)
LEMMA CardIsAsked ==
  ASSUME IInv, handleClientRequests
  PROVE  \/ UNCHANGED cardLog
         \/ \E c \in Conn : \E k \in Cmd :
              <<c, k>> \in issued \ CarriedOut /\ cardLog' = Append(cardLog, <<c, k>>)
<1>1. PICK c \in Conn : c = Ticked
  BY DEF handleClientRequests, Ticking, Ticked, IInv, TypeOK, ServerTypeOK
<1>2. PICK r \in ReadResults(toServer[c], clientShut[c], NoData) :
        \/ UNCHANGED cardLog
        \/ /\ r.ok /\ parseCmdRequest(r.data)
           /\ cardLog' = Append(cardLog, <<c, r.data.body>>)
  BY <1>1 DEF handleClientRequests
<1>3. CASE UNCHANGED cardLog
  BY <1>3
<1>4. CASE /\ r.ok /\ parseCmdRequest(r.data)
           /\ cardLog' = Append(cardLog, <<c, r.data.body>>)
  <2>1. PICK k \in Cmd :
          k = r.data.body /\ toServer[c] # <<>> /\ Head(toServer[c]) = CmdRequest(k)
    BY <1>4, TypesOfConn, RequestParsed DEF IInv, ConnTypes
  <2>2. CmdRequest(k).type = "CMD_REQUEST" /\ CmdRequest(k).body = k
    BY DEF CmdRequest, Prepare
  <2>3. <<c, k>> \in issued \ CarriedOut
    BY <2>1, <2>2 DEF IInv, ConnInv, CommandInv
  <2> QED BY <1>4, <2>1, <2>3
<1> QED BY <1>2, <1>3, <1>4

(* Every step of the server: the boxes see nothing of it, and the card     *)
(* nothing but the commands it is asked to carry out.                      *)
LEMMA ServerImplements ==
  ASSUME IInv, Server
  PROVE  [Promise!Next]_(Promise!rcVars)
<1>1. UNCHANGED <<issued, emulatorData, wrote>>
  BY DEF Server, clientVars
<1>2. CASE UNCHANGED cardLog
  BY <1>1, <1>2, UnseenIsStutter DEF Unseen
<1>3. ASSUME NEW c \in Conn, NEW k \in Cmd, <<c, k>> \in issued \ CarriedOut,
             cardLog' = Append(cardLog, <<c, k>>)
      PROVE  [Promise!Next]_(Promise!rcVars)
  <2>1. /\ [d \in Conn |-> Pending(d)]' = [d \in Conn |-> Pending(d)]
        /\ [d \in Conn |-> Given(d)]' = [d \in Conn |-> Given(d)]
    BY <1>1 DEF Pending, Given
  <2>2. Promise!CarryOut(c, k)
    BY <1>1, <1>3, <2>1, SameLog DEF Promise!CarryOut
  <2> QED BY <2>2 DEF Promise!Next
<1>4. UNCHANGED cardLog \/ handleClientRequests
  BY DEF Server, ServerStep, acceptClient, endAccept, acceptThrows, checkAuth, skipClient,
         selectFails, endTick, keepClient, eraseClient, useFreed, endReap,
         PSCProxySignalHandler
<1> QED BY <1>2, <1>3, <1>4, CardIsAsked

-----------------------------------------------------------------------------
(* The two programs keep the promise to the boxes, whatever the number of  *)
(* clients and commands and whatever is lost, cut, signalled or killed.    *)
THEOREM Implementation == Spec => KeepsPromise
<1>1. Init => Promise!Init
  <2> SUFFICES ASSUME Init PROVE Promise!Init
    OBVIOUS
  <2>1. issued = {} /\ cardLog = <<>>
    BY DEF Init, ClientInit, ServerInit
  <2>2. \A c \in Conn : Pending(c) = None /\ Given(c) = None
    BY CmdAssumption DEF Init, ClientInit, Pending, Given
  <2> QED BY <2>1, <2>2 DEF Promise!Init
<1>2. IInv /\ [Next]_vars => [Promise!Next]_(Promise!rcVars)
  <2> SUFFICES ASSUME IInv, [Next]_vars PROVE [Promise!Next]_(Promise!rcVars)
    OBVIOUS
  <2>1. ASSUME NEW c \in Conn, Client(c) PROVE [Promise!Next]_(Promise!rcVars)
    BY <2>1, ClientImplements
  <2>2. CASE Server
    BY <2>2, ServerImplements
  <2>3. ASSUME NEW c \in Conn, Network(c) PROVE [Promise!Next]_(Promise!rcVars)
    BY <2>3, UnseenIsStutter DEF Network, Unseen, clientVars, serverVars
  <2>4. CASE UNCHANGED vars
    BY <2>4, UnseenIsStutter DEF Unseen, vars, clientVars, serverVars
  <2> QED BY <2>1, <2>2, <2>3, <2>4 DEF Next, Terminating
<1> QED BY <1>1, <1>2, Invariance, PTL DEF Spec, KeepsPromise, Promise!Spec
=============================================================================
