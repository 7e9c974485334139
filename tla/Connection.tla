----------------------------- MODULE Connection -----------------------------
(***************************************************************************)
(* The TCP connections between the clients and the server, one per client  *)
(* process: what Socket, ClientSocket and ServerSocket get from the        *)
(* kernel.  A connection is a queue of packets each way and, for each end, *)
(* whether that end is gone.  A packet in a queue has been written; how    *)
(* much of it has reached the reader is decided when it is read (see       *)
(* ReadResults).                                                           *)
(***************************************************************************)
EXTENDS Packets

CONSTANTS
  Conn,     \* the connections, each opened by one run of the client program
  Backlog,  \* the backlog passed to listen
  Faults    \* what an instance lets the surroundings do to the programs

(* select fails (it was interrupted by a signal), accept fails (no         *)
(* descriptors left), the network drops a connection, a signal stops the   *)
(* server.                                                                 *)
Fault == {"select", "accept", "network", "signal"}

ASSUME ConnectionAssumption == Backlog \in Nat /\ Faults \subseteq Fault

VARIABLES
  toServer, toClient,       \* packets written and not yet read
  clientShut, serverShut,   \* the socket at that end is closed, or the connection broke
  waiting                   \* connections complete and not yet accepted

connVars == <<toServer, toClient, clientShut, serverShut, waiting>>

ConnTypeOK ==
  /\ toServer \in [Conn -> Seq(Request)]
  /\ toClient \in [Conn -> Seq(Answer)]
  /\ clientShut \in [Conn -> BOOLEAN]
  /\ serverShut \in [Conn -> BOOLEAN]
  /\ waiting \in Seq(Conn)

ConnInit ==
  /\ toServer = [c \in Conn |-> <<>>]
  /\ toClient = [c \in Conn |-> <<>>]
  /\ clientShut = [c \in Conn |-> FALSE]
  /\ serverShut = [c \in Conn |-> FALSE]
  /\ waiting = <<>>

(* Both ends know that the connection is gone: a write may fail. *)
Broken(c) == clientShut[c] /\ serverShut[c]

(* Socket::write.  The kernel takes the packet; when the other end is      *)
(* already gone nobody will ever read it.                                  *)
ClientSend(c, p) ==
  toServer' = IF serverShut[c] THEN toServer ELSE [toServer EXCEPT ![c] = Append(@, p)]

ServerSend(c, p) ==
  toClient' = IF clientShut[c] THEN toClient ELSE [toClient EXCEPT ![c] = Append(@, p)]

(* Mutants of the two below: the end of the stream is not noticed.         *)
ClientSeesData(c) == toClient[c] # <<>>
ServerSeesData(c) == toServer[c] # <<>>

(* select finds the descriptor readable: data, or the end of the stream. *)
ClientReadable(c) == toClient[c] # <<>> \/ serverShut[c]
ServerReadable(c) == toServer[c] # <<>> \/ clientShut[c]

(* The network resets connection c. *)
Break(c) ==
  /\ "network" \in Faults /\ ~ Broken(c)
  /\ clientShut' = [clientShut EXCEPT ![c] = TRUE]
  /\ serverShut' = [serverShut EXCEPT ![c] = TRUE]
  /\ UNCHANGED <<toServer, toClient, waiting>>
=============================================================================
