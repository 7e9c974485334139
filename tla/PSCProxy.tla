------------------------------ MODULE PSCProxy ------------------------------
(***************************************************************************)
(* The whole of it: any number of client programs, one server program, and *)
(* the connections between them, with what makes it correct.               *)
(***************************************************************************)
EXTENDS ProxyClient, ProxyServer

vars == <<connVars, clientVars, serverVars>>

Init == ConnInit /\ ClientInit /\ ServerInit

Client(c) ==
  /\ \/ pc # "dead" /\ Start(c)
     \/ ClientStep(c)
  /\ UNCHANGED <<serverShut, serverVars>>

Server == (ServerStep \/ PSCProxySignalHandler) /\ UNCHANGED <<clientShut, clientVars>>

Network(c) == state[c] # "OFF" /\ Break(c) /\ UNCHANGED <<clientVars, serverVars>>

(* Both programs have ended, or the server's behaviour is undefined. *)
Terminating ==
  /\ \/ pc = "undefined"
     \/ pc = "dead" /\ \A c \in Conn : state[c] \in {"OFF", "EXITED"}
  /\ UNCHANGED vars

(* Once the server's behaviour is undefined the model says no more.        *)
Next ==
  \/ pc # "undefined" /\ \E c \in Conn : Client(c) \/ Network(c)
  \/ pc # "undefined" /\ Server
  \/ Terminating

Spec == Init /\ [][Next]_vars

(* Each process is scheduled again and again and its loop does not stop by *)
(* itself, and accept does not fail for ever while a client waits.         *)
(* Nothing is assumed of the box, the users' signals, the network or the   *)
(* start of a client, and nothing of select.                               *)
Fairness ==
  /\ WF_vars(ServerStep /\ UNCHANGED <<clientShut, clientVars>>)
  /\ SF_vars(acceptClient /\ UNCHANGED <<clientShut, clientVars>>)
  /\ \A c \in Conn : WF_vars(ClientTick(c) /\ UNCHANGED <<serverShut, serverVars>>)

FairSpec == Spec /\ Fairness

-----------------------------------------------------------------------------
TypeOK == ConnTypeOK /\ ClientTypeOK /\ ServerTypeOK

(* The client's process has connected and is still there. *)
Alive(c) == state[c] \notin {"OFF", "CLOSED", "EXITED"}

(* The packet a client in state s waits to have answered, when it is       *)
(* blocked in the call cl with the data k.                                 *)
Awaited(s, cl, k, credentials) ==
  CASE s = "AUTH_REQUESTED" -> Auth(credentials)
    [] s = "AWAITING_ATR"   -> ResetRequest
    [] s = "IDLE" /\ cl = "reset"   -> ResetRequest
    [] s = "IDLE" /\ cl = "command" -> CommandPacket(k)
    [] OTHER                -> NoData

Outstanding(c) ==
  Awaited(state[c], call[c], emulatorData[c], IF c \in Good THEN "good" ELSE "bad")

(* The replies the server may give to packet p: the type that belongs to   *)
(* it, and to a command nothing but the card's answer to that command.     *)
RepliesTo(p) ==
  CASE p.type = "AUTH_REQUEST"  -> {AuthReply(p.body = "good")}
    [] p.type = "RESET_REQUEST" -> {ResetReply}
    [] p.type = "CMD_REQUEST"   -> {CmdReply(p.body)}
    [] OTHER                    -> {}

(* Stop and wait: of a client that is alive at most one packet is under    *)
(* way, and it is the request the client waits on or the reply to that     *)
(* very request, never both, and never a reply left over from before.      *)
StopAndWait ==
  \A c \in Conn : Alive(c) =>
    /\ toServer[c] = <<>> \/ toClient[c] = <<>>
    /\ Len(toServer[c]) <= 1 /\ Len(toClient[c]) <= 1
    /\ toServer[c] # <<>> => Head(toServer[c]) = Outstanding(c)
    /\ toClient[c] # <<>> => Head(toClient[c]) \in RepliesTo(Outstanding(c))

(* The two state machines agree: a client past authorization whose         *)
(* connection is whole talks to a Client that is AUTHORIZED, whatever the  *)
(* other clients do, so that it is never turned away for a packet that its *)
(* state allows.                                                           *)
InStep ==
  \A c \in Conn :
    /\ state[c] \in {"AUTHORIZED", "AWAITING_ATR", "IDLE"} => c \in Good
    /\ /\ state[c] \in {"AUTHORIZED", "IDLE"} /\ call[c] = "none"
       /\ ~ clientShut[c] /\ ~ serverShut[c]
       => sstate[c] = "AUTHORIZED"

(* A command that the box issued once is put to the card at most once,     *)
(* whatever is lost and whoever fails: a smart card counts what it gets.   *)
AtMostOnce ==
  \A i, j \in 1 .. Len(cardLog) : cardLog[i][2] = cardLog[j][2] => i = j

(* What the box is given as an answer is the card's answer to the command  *)
(* it goes with, and the card was asked by this client's server session:   *)
(* no late, cut or misrouted reply is ever taken for it.                   *)
OwnAnswer ==
  \A c \in Conn : \A i \in 1 .. Len(wrote[c]) :
    wrote[c][i].kind = "answer" =>
      /\ wrote[c] = <<CommandPiece(wrote[c][i].of), wrote[c][i]>>
      /\ <<c, wrote[c][i].of>> \in {cardLog[j] : j \in 1 .. Len(cardLog)}

-----------------------------------------------------------------------------
(* After an interrupted select the server is blocked in a read on a client *)
(* that says nothing more: the one way in which a client, or the signal    *)
(* that interrupted the select, keeps all the others waiting for ever.     *)
Stuck == <>[](pc = "read" /\ ~ ServerReadable(Ticked))

(* A request of the emulator does not block the client for ever: the reply *)
(* comes, or the connection is seen to be gone.                            *)
Answered ==
  \A c \in Conn :
    Stuck \/ ((call[c] # "none") ~> (call[c] = "none" \/ pc = "undefined"))

(* A client that has connected is served, turned away, or gone, though     *)
(* accept fails now and then while it waits.                               *)
Admitted ==
  \A c \in Conn :
    \/ Stuck
    \/ (state[c] = "INIT")
         ~> (state[c] \in {"IDLE", "CLOSED", "EXITED"} \/ pc = "undefined")

(* The session of a client that left is closed and its socket released.    *)
Released ==
  \A c \in Conn :
    \/ Stuck
    \/ (sstate[c] \in {"INIT", "AUTHORIZED"} /\ clientShut[c])
         ~> (sstate[c] = "freed" \/ pc \in {"dead", "undefined"})

-----------------------------------------------------------------------------
(* "Cliean closed clients": closeInactiveClients deletes none but closed ones. *)
OnlyClosedDeleted ==
  [][\A c \in Conn : sstate'[c] = "freed" => sstate[c] \in {"CLOSED", "freed"}]_vars

(* "The command reply itself is full packet - 3 bytes of header": what the *)
(* box is given as the reply to a command is the reply.                    *)
ReplyIsPacketBody ==
  \A c \in Conn : \A i \in 1 .. Len(wrote[c]) : wrote[c][i].kind # "command"
=============================================================================
