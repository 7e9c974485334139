----------------------------- MODULE ProxyServer -----------------------------
(***************************************************************************)
(* PSCProxyServer: the program beside the card reader.  One thread runs    *)
(* ProxyServer::run: take the waiting clients in, tick every client once,  *)
(* reap the closed ones, again.  A step of the model is one client taken   *)
(* in, one Client::tick, or one turn of the loop that reaps.               *)
(*                                                                         *)
(* clients is the storage of the vector: while closeInactiveClients runs,  *)
(* its first `size` slots are the vector and the rest what erase left      *)
(* behind.  A slot holds the connection of the Client it points to; the    *)
(* Client's state is "freed" once it is deleted.  The first use of a freed *)
(* Client makes pc "undefined", and the server takes no step of this model *)
(* from there: C++ lets it do anything, and nothing is claimed of it.      *)
(***************************************************************************)
EXTENDS Connection

VARIABLES
  pc,              \* where ProxyServer::run is
  it,              \* the loop variable of tickClients and closeInactiveClients
  clients,         \* the storage of the vector clients
  size,            \* clients.size() inside closeInactiveClients
  sstate,          \* Client::state of the Client that serves a connection
  cardLog          \* history: the commands given to the card, with their connection

serverVars == <<pc, it, clients, size, sstate, cardLog>>

ServerTypeOK ==
  /\ pc \in {"accept", "tick", "read", "reap", "undefined", "dead"}
  /\ it \in Nat \ {0}
  /\ clients \in Seq(Conn)
  /\ size \in Nat
  /\ sstate \in [Conn -> {"none", "INIT", "AUTHORIZED", "CLOSED", "freed"}]
  /\ cardLog \in Seq(Conn \X Cmd)

ServerInit ==
  /\ pc = "accept" /\ it = 1 /\ size = 0
  /\ clients = <<>>
  /\ sstate = [c \in Conn |-> "none"]
  /\ cardLog = <<>>

(* The process ends.  Its memory is gone, the kernel closes all its sockets *)
(* and resets the connections nobody accepted.                             *)
ProcessEnds ==
  /\ pc' = "dead" /\ it' = 1 /\ size' = 0
  /\ clients' = <<>>
  /\ sstate' = [c \in Conn |-> "none"]
  /\ serverShut' = [c \in Conn |-> TRUE]
  /\ waiting' = <<>>

Become(c, s) == sstate' = [sstate EXCEPT ![c] = s]

-----------------------------------------------------------------------------
(* handleNewClients: accept one more waiting client. *)
acceptClient ==
  /\ pc = "accept" /\ waiting # <<>>
  /\ clients' = Append(clients, Head(waiting))
  /\ Become(Head(waiting), "INIT")
  /\ waiting' = Tail(waiting)
  /\ UNCHANGED <<toServer, toClient, serverShut, pc, it, size, cardLog>>

(* connectWaitingClient returns -1: nobody waits, or accept failed. *)
endAccept ==
  /\ pc = "accept" /\ (waiting = <<>> \/ "accept" \in Faults)
  /\ pc' = "tick" /\ it' = 1
  /\ UNCHANGED <<toServer, toClient, serverShut, waiting, clients, size, sstate, cardLog>>

(* select on the listening socket fails: an exception nobody catches. *)
acceptThrows ==
  /\ "select" \in Faults /\ pc = "accept"
  /\ ProcessEnds
  /\ UNCHANGED <<toServer, toClient, cardLog>>

-----------------------------------------------------------------------------
Ticked == clients[it]

(* PSCProxyProtocol::read into a new PacketData. *)
ServerRead(c, r) ==
  /\ r \in ReadResults(toServer[c], clientShut[c], NoData)
  /\ toServer' = [toServer EXCEPT ![c] = Rest(@)]

(* tickClients goes on with the next client. *)
NextClient ==
  /\ pc' = "tick" /\ it' = it + 1
  /\ UNCHANGED <<serverShut, waiting, clients, size>>

(* Mutant of NoReply: the client is not closed.                            *)
NoReplyStaysOpen(c) == NextClient /\ UNCHANGED <<sstate, toClient>>

(* The client gets no reply. *)
NoReply(c) == Become(c, "CLOSED") /\ NextClient /\ UNCHANGED toClient

(* Mutant of Reply: the card's answer goes to the vector's first client.   *)
ReplyToFirst(c, s, p) ==
  \/ /\ ServerSend(IF p.type = "CMD_REPLY" THEN clients[1] ELSE c, p)
     /\ Become(c, s) /\ NextClient
  \/ Broken(c) /\ ProcessEnds /\ UNCHANGED toClient

(* The client is left in state s and p is written to it.  When the         *)
(* connection broke, write may throw, which ends the process.              *)
Reply(c, s, p) ==
  \/ Become(c, s) /\ ServerSend(c, p) /\ NextClient
  \/ Broken(c) /\ ProcessEnds /\ UNCHANGED toClient

(* Client::tick may read: data is there (pc "tick"), or select failed and  *)
(* the read that followed has been blocked until now (pc "read").          *)
Ticking(s) ==
  /\ pc \in {"tick", "read"} /\ it <= Len(clients)
  /\ sstate[Ticked] = s /\ ServerReadable(Ticked)

(* Mutant of checkAuth: the return after a failed read is missing.         *)
checkAuthNoReturn ==
  /\ Ticking("INIT")
  /\ LET c == Ticked IN
     \E r \in ReadResults(toServer[c], clientShut[c], NoData) :
       /\ ServerRead(c, r)
       /\ \/ parseAuth(r.data) /\ Reply(c, "AUTHORIZED", AuthReply(TRUE))
          \/ ~ parseAuth(r.data) /\ Reply(c, "CLOSED", AuthReply(FALSE))
  /\ UNCHANGED cardLog

(* Mutant of checkAuth: the session of an authorized client stays INIT.    *)
checkAuthStaysInit ==
  /\ Ticking("INIT")
  /\ LET c == Ticked IN
     \E r \in ReadResults(toServer[c], clientShut[c], NoData) :
       /\ ServerRead(c, r)
       /\ \/ ~ r.ok /\ NoReply(c)
          \/ r.ok /\ parseAuth(r.data) /\ Reply(c, "INIT", AuthReply(TRUE))
          \/ r.ok /\ ~ parseAuth(r.data) /\ Reply(c, "CLOSED", AuthReply(FALSE))
  /\ UNCHANGED cardLog

checkAuth ==
  /\ Ticking("INIT")
  /\ LET c == Ticked IN
     \E r \in ReadResults(toServer[c], clientShut[c], NoData) :
       /\ ServerRead(c, r)
       /\ \/ ~ r.ok /\ NoReply(c)
          \/ r.ok /\ parseAuth(r.data) /\ Reply(c, "AUTHORIZED", AuthReply(TRUE))
          \/ r.ok /\ ~ parseAuth(r.data) /\ Reply(c, "CLOSED", AuthReply(FALSE))
  /\ UNCHANGED cardLog

handleClientRequests ==
  /\ Ticking("AUTHORIZED")
  /\ LET c == Ticked IN
     \E r \in ReadResults(toServer[c], clientShut[c], NoData) :
       /\ ServerRead(c, r)
       /\ \/ /\ r.ok /\ parseResetRequest(r.data)
             /\ Reply(c, "AUTHORIZED", ResetReply)
             /\ UNCHANGED cardLog
          \/ /\ r.ok /\ parseCmdRequest(r.data)
             /\ cardLog' = Append(cardLog, <<c, r.data.body>>)
             /\ Reply(c, "AUTHORIZED", CmdReply(r.data.body))
          \/ /\ ~ (r.ok /\ (parseResetRequest(r.data) \/ parseCmdRequest(r.data)))
             /\ NoReply(c)
             /\ UNCHANGED cardLog

(* Nothing to read from this client. *)
skipClient ==
  /\ pc = "tick" /\ it <= Len(clients)
  /\ sstate[Ticked] \in {"INIT", "AUTHORIZED"} => ~ ServerReadable(Ticked)
  /\ sstate[Ticked] # "freed"
  /\ NextClient
  /\ UNCHANGED <<toServer, toClient, sstate, cardLog>>

(* newDataInSocket takes a failed select for new data; ::read blocks. *)
selectFails ==
  /\ "select" \in Faults /\ pc = "tick" /\ it <= Len(clients)
  /\ sstate[Ticked] \in {"INIT", "AUTHORIZED"} /\ ~ ServerReadable(Ticked)
  /\ pc' = "read"
  /\ UNCHANGED <<toServer, toClient, serverShut, waiting, it, clients, size, sstate, cardLog>>

(* Mutant of endTick: the loop starts one slot too early.                  *)
endTickOffByOne ==
  /\ pc = "tick" /\ it > Len(clients)
  /\ pc' = "reap" /\ it' = 0 /\ size' = Len(clients)
  /\ UNCHANGED <<toServer, toClient, serverShut, waiting, clients, sstate, cardLog>>

endTick ==
  /\ pc = "tick" /\ it > Len(clients)
  /\ pc' = "reap" /\ it' = 1 /\ size' = Len(clients)
  /\ UNCHANGED <<toServer, toClient, serverShut, waiting, clients, sstate, cardLog>>

-----------------------------------------------------------------------------
(* vector::erase of slot i among the first n: the slots after it move down *)
(* and slot n keeps what it held.                                          *)
Erase(slots, i, n) ==
  SubSeq(slots, 1, i - 1) \o SubSeq(slots, i + 1, n) \o SubSeq(slots, n, Len(slots))

(* closeInactiveClients at a Client that is not closed. *)
keepClient ==
  /\ pc = "reap" /\ it <= Len(clients)
  /\ sstate[Ticked] \notin {"CLOSED", "freed"}
  /\ it' = it + 1
  /\ UNCHANGED <<toServer, toClient, serverShut, waiting, pc, clients, size, sstate, cardLog>>

(* At a closed one: erase it, then delete what the iterator points at now. *)
Victim == Erase(clients, it, size)[it]

eraseClient ==
  /\ pc = "reap" /\ it <= size
  /\ sstate[Ticked] = "CLOSED" /\ sstate[Victim] # "freed"
  /\ clients' = Erase(clients, it, size)
  /\ size' = size - 1
  /\ Become(Victim, "freed")
  /\ serverShut' = [serverShut EXCEPT ![Victim] = TRUE]
  /\ it' = it + 1
  /\ UNCHANGED <<toServer, toClient, waiting, pc, cardLog>>

(* A freed Client is used, deleted again, or erase is called at the end of *)
(* the vector: undefined behaviour.                                        *)
useFreed ==
  /\ \/ pc = "tick" /\ it <= Len(clients) /\ sstate[Ticked] = "freed"
     \/ /\ pc = "reap" /\ it <= Len(clients)
        /\ \/ sstate[Ticked] = "freed"
           \/ sstate[Ticked] = "CLOSED" /\ (it > size \/ sstate[Victim] = "freed")
  /\ pc' = "undefined"
  /\ UNCHANGED <<toServer, toClient, serverShut, waiting, it, clients, size, sstate, cardLog>>

(* Mutant of endReap: the vector keeps its stale tail.                     *)
endReapKeepsTail ==
  /\ pc = "reap" /\ it > Len(clients)
  /\ pc' = "accept" /\ it' = 1 /\ size' = 0
  /\ UNCHANGED <<toServer, toClient, serverShut, waiting, clients, sstate, cardLog>>

(* The end of tick.  Nobody calls exit(), so run goes on. *)
endReap ==
  /\ pc = "reap" /\ it > Len(clients)
  /\ pc' = "accept" /\ it' = 1 /\ size' = 0
  /\ clients' = SubSeq(clients, 1, size)
  /\ UNCHANGED <<toServer, toClient, serverShut, waiting, sstate, cardLog>>

-----------------------------------------------------------------------------
(* SIGTERM ends in abort(), and so does SIGINT: serverGlobalPtr is never   *)
(* assigned.                                                               *)
PSCProxySignalHandler ==
  /\ "signal" \in Faults /\ pc # "dead"
  /\ ProcessEnds
  /\ UNCHANGED <<toServer, toClient, cardLog>>

ServerStep ==
  \/ acceptClient \/ endAccept \/ acceptThrows
  \/ checkAuth \/ handleClientRequests \/ skipClient \/ selectFails \/ endTick
  \/ keepClient \/ eraseClient \/ useFreed \/ endReap

-----------------------------------------------------------------------------
(* Between two turns of the loop that reaps, every session that is open    *)
(* has exactly one slot of the vector, so that it is ticked once a turn,   *)
(* and the ones that wait to be accepted have none.                        *)
Slots(c) == {i \in 1 .. Len(clients) : clients[i] = c}

Roster ==
  pc \in {"accept", "tick", "read"} =>
    \A c \in Conn :
      /\ sstate[c] \in {"INIT", "AUTHORIZED"} => \E i \in Slots(c) : Slots(c) = {i}
      /\ sstate[c] = "none" => Slots(c) = {}

-----------------------------------------------------------------------------
(* What the server keeps true by itself, whatever is written to it.        *)

(* The vector fits its storage, and its slots are sessions that began.     *)
VectorInv ==
  /\ size <= Len(clients)
  /\ \A i \in 1 .. Len(clients) : sstate[clients[i]] # "none"

(* Who waits to be accepted waits once, and has no session yet.            *)
WaitingInv ==
  /\ \A i, j \in 1 .. Len(waiting) : waiting[i] = waiting[j] => i = j
  /\ \A i \in 1 .. Len(waiting) : sstate[waiting[i]] = "none"

(* The slots that are the vector: all of them, and while the loop reaps    *)
(* the first `size`; the rest is what erase left behind.                   *)
VectorSize == IF pc = "reap" THEN size ELSE Len(clients)

(* What Roster needs of the turns of the loop that reaps, too: the vector  *)
(* holds nobody twice, and every session that is open.                     *)
RosterInv ==
  pc # "undefined" =>
    /\ \A i, j \in 1 .. VectorSize : clients[i] = clients[j] => i = j
    /\ \A c \in Conn : sstate[c] \in {"INIT", "AUTHORIZED"} =>
         \E i \in 1 .. VectorSize : clients[i] = c

ServerInv == VectorInv /\ WaitingInv /\ RosterInv
=============================================================================
