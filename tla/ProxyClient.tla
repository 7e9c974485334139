----------------------------- MODULE ProxyClient -----------------------------
(***************************************************************************)
(* PSCProxyClient: the program beside the set-top box.  It authorizes      *)
(* itself, fetches the card's ATR, and then hands every reset and command  *)
(* of the card emulator to the server, one at a time, blocked until the    *)
(* reply is there.  Each c in Conn is one run of the program.              *)
(*                                                                         *)
(* The emulator's side (which tick finds a reset or a command waiting) is  *)
(* an input.  emulator->tick, whose state only decides that input, is part *)
(* of it.  Every command of Cmd is issued at most once, so that a command  *)
(* names one request of the box.                                           *)
(***************************************************************************)
EXTENDS Connection

CONSTANT Good   \* the clients built with the server's user and password

ASSUME GoodAssumption == Good \subseteq Conn

VARIABLES
  state,          \* PSCProxyClient::state, with OFF and EXITED outside the program
  call,           \* the branch of handleEmulatorRequests blocked in read
  emulatorData,   \* what emulator->read gave in that branch
  wrote,          \* history: the data last given to emulator->write
  issued          \* history: the commands the boxes issued, with their connection

clientVars == <<state, call, emulatorData, wrote, issued>>

ClientState == {"OFF", "INIT", "AUTH_REQUESTED", "AUTHORIZED", "AWAITING_ATR",
                "IDLE", "CLOSED", "EXITED"}

ClientTypeOK ==
  /\ state \in [Conn -> ClientState]
  /\ call \in [Conn -> {"none", "reset", "command"}]
  /\ emulatorData \in [Conn -> Cmd \cup {Zero, None}]
  /\ wrote \in [Conn -> Seq(Piece)]
  /\ issued \subseteq Conn \X Cmd

ClientInit ==
  /\ state = [c \in Conn |-> "OFF"]
  /\ call = [c \in Conn |-> "none"]
  /\ emulatorData = [c \in Conn |-> None]
  /\ wrote = [c \in Conn |-> <<>>]
  /\ issued = {}

GoTo(c, s) == state' = [state EXCEPT ![c] = s]

(* PSCProxyProtocol::read into a PacketData that holds data. *)
ClientRead(c, data, r) ==
  /\ r \in ReadResults(toClient[c], serverShut[c], data)
  /\ toClient' = [toClient EXCEPT ![c] = Rest(@)]

-----------------------------------------------------------------------------
(* main and ClientSocket::connect: the kernel completes connections up to  *)
(* one more than the backlog; beyond that connect waits.                   *)
Start(c) ==
  /\ state[c] = "OFF"
  /\ Len(waiting) <= Backlog
  /\ GoTo(c, "INIT")
  /\ waiting' = Append(waiting, c)
  /\ UNCHANGED <<toServer, toClient, clientShut, call, emulatorData, wrote, issued>>

authorize(c) ==
  /\ state[c] = "INIT"
  /\ ClientSend(c, Auth(IF c \in Good THEN "good" ELSE "bad"))
  /\ GoTo(c, "AUTH_REQUESTED")
  /\ UNCHANGED <<toClient, clientShut, waiting, call, emulatorData, wrote, issued>>

(* The return code of read is not looked at: data decides. *)
checkAuthReply(c) ==
  /\ state[c] = "AUTH_REQUESTED" /\ ClientReadable(c)
  /\ \E r \in ReadResults(toClient[c], serverShut[c], NoData) :
       /\ ClientRead(c, NoData, r)
       /\ GoTo(c, IF parseAuthReply(r.data) THEN "AUTHORIZED" ELSE "CLOSED")
  /\ UNCHANGED <<toServer, clientShut, waiting, call, emulatorData, wrote, issued>>

(* Socket::write returns at least the packet's size or throws. *)
requestATR(c) ==
  /\ state[c] = "AUTHORIZED"
  /\ ClientSend(c, ResetRequest)
  /\ GoTo(c, "AWAITING_ATR")
  /\ UNCHANGED <<toClient, clientShut, waiting, call, emulatorData, wrote, issued>>

cacheATR(c) ==
  /\ state[c] = "AWAITING_ATR" /\ ClientReadable(c)
  /\ \E r \in ReadResults(toClient[c], serverShut[c], NoData) :
       /\ ClientRead(c, NoData, r)
       /\ GoTo(c, IF r.ok /\ parseResetReply(r.data) THEN "IDLE" ELSE "CLOSED")
  /\ UNCHANGED <<toServer, clientShut, waiting, call, emulatorData, wrote, issued>>

-----------------------------------------------------------------------------
(* handleEmulatorRequests, up to the blocking read: a reset is waiting.    *)
askReset(c) ==
  /\ state[c] = "IDLE" /\ call[c] = "none"
  /\ ClientSend(c, ResetRequest)
  /\ call' = [call EXCEPT ![c] = "reset"]
  /\ UNCHANGED <<toClient, clientShut, waiting, state, emulatorData, wrote, issued>>

(* What the data branch writes: a lone 0 goes out as a RESET_REQUEST. *)
CommandPacket(k) == IF k = Zero THEN ResetRequest ELSE CmdRequest(k)

(* No reset is waiting, data k is. *)
askCommand(c, k) ==
  /\ state[c] = "IDLE" /\ call[c] = "none"
  /\ \A d \in Conn : <<d, k>> \notin issued
  /\ ClientSend(c, CommandPacket(k))
  /\ call' = [call EXCEPT ![c] = "command"]
  /\ emulatorData' = [emulatorData EXCEPT ![c] = k]
  /\ issued' = IF k = Zero THEN issued ELSE issued \cup {<<c, k>>}
  /\ UNCHANGED <<toClient, clientShut, waiting, state, wrote>>

(* The reset branch after its read.  data still holds the request when no  *)
(* header came, and the return code is not looked at.                      *)
replyToReset(c) ==
  /\ call[c] = "reset"
  /\ \E r \in ReadResults(toClient[c], serverShut[c], ResetRequest) :
       /\ ClientRead(c, ResetRequest, r)
       /\ IF parseResetReply(r.data)
          THEN /\ wrote' = [wrote EXCEPT ![c] = <<AtrPiece>>]
               /\ UNCHANGED state
          ELSE /\ GoTo(c, "CLOSED")
               /\ UNCHANGED wrote
  /\ call' = [call EXCEPT ![c] = "none"]
  /\ UNCHANGED <<toServer, clientShut, waiting, emulatorData, issued>>

(* Mutant of replyToCommand: what was not answered is sent once more.      *)
replyToCommandRetry(c) ==
  /\ call[c] = "command"
  /\ LET sent == CommandPacket(emulatorData[c])
     IN  \E r \in ReadResults(toClient[c], serverShut[c], sent) :
           /\ ClientRead(c, sent, r)
           /\ IF parseCmdReply(r.data)
              THEN /\ wrote' = [wrote EXCEPT ![c] =
                                  CmdReplyData(<<CommandPiece(emulatorData[c])>>, r.data)]
                   /\ call' = [call EXCEPT ![c] = "none"]
                   /\ emulatorData' = [emulatorData EXCEPT ![c] = None]
                   /\ UNCHANGED toServer
              ELSE /\ ClientSend(c, sent)
                   /\ UNCHANGED <<wrote, call, emulatorData>>
  /\ UNCHANGED <<state, clientShut, waiting, issued>>

(* The data branch after its read: emulatorData still holds the command.   *)
replyToCommand(c) ==
  /\ call[c] = "command"
  /\ LET sent == CommandPacket(emulatorData[c])
     IN  \E r \in ReadResults(toClient[c], serverShut[c], sent) :
           /\ ClientRead(c, sent, r)
           /\ IF parseCmdReply(r.data)
              THEN /\ wrote' = [wrote EXCEPT ![c] =
                                  CmdReplyData(<<CommandPiece(emulatorData[c])>>, r.data)]
                   /\ UNCHANGED state
              ELSE /\ GoTo(c, "CLOSED")
                   /\ UNCHANGED wrote
  /\ call' = [call EXCEPT ![c] = "none"]
  /\ emulatorData' = [emulatorData EXCEPT ![c] = None]
  /\ UNCHANGED <<toServer, clientShut, waiting, issued>>

-----------------------------------------------------------------------------
(* The process ends and its socket with it. *)
Exit(c) ==
  /\ GoTo(c, "EXITED")
  /\ clientShut' = [clientShut EXCEPT ![c] = TRUE]
  /\ call' = [call EXCEPT ![c] = "none"]
  /\ emulatorData' = [emulatorData EXCEPT ![c] = None]
  /\ UNCHANGED <<toServer, toClient, waiting, wrote, issued>>

(* tick returns false in CLOSED, and run returns. *)
tickClosed(c) == state[c] = "CLOSED" /\ Exit(c)

(* exit() after SIGINT, abort() after SIGTERM, or the exception of a write *)
(* to a connection that is gone, which nobody catches.                     *)
Leave(c) == state[c] \notin {"OFF", "CLOSED", "EXITED"} /\ Exit(c)

(* What run does without anything of the emulator: the ticks of the state  *)
(* machine and the second halves of handleEmulatorRequests.                *)
ClientTick(c) ==
  \/ authorize(c) \/ checkAuthReply(c) \/ requestATR(c) \/ cacheATR(c)
  \/ replyToReset(c) \/ replyToCommand(c) \/ tickClosed(c)

EmulatorRequest(c) == askReset(c) \/ \E k \in Cmd \cup {Zero} : askCommand(c, k)

ClientStep(c) == ClientTick(c) \/ EmulatorRequest(c) \/ Leave(c)
=============================================================================
