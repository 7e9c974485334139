------------------------------ MODULE ProxyPeers ------------------------------
(***************************************************************************)
(* The server program alone, among peers of any kind: whoever connects may *)
(* write any packets in any order at any time, before it is authorized or  *)
(* after it was turned away, and need not wait for a reply or leave.  What *)
(* such a peer does with the replies is left out; the server never knows.  *)
(***************************************************************************)
EXTENDS ProxyServer

CONSTANT MaxPackets   \* bound: the packets that the peers write

ASSUME PeersAssumption == MaxPackets \in Nat

VARIABLES
  peers,     \* the connections that a peer has opened
  packets,   \* how many packets they wrote
  first      \* history: the first packet that each peer wrote

peerVars == <<peers, packets, first>>
peersVars == <<connVars, serverVars, peerVars>>

PeersInit ==
  /\ ConnInit /\ ServerInit
  /\ peers = {} /\ packets = 0
  /\ first = [c \in Conn |-> NoData]

(* The kernel completes the connection, as for ProxyClient's Start. *)
peerConnects(c) ==
  /\ pc # "dead" /\ c \notin peers
  /\ Len(waiting) <= Backlog
  /\ peers' = peers \cup {c}
  /\ waiting' = Append(waiting, c)
  /\ UNCHANGED <<toServer, toClient, clientShut, serverShut, serverVars, packets, first>>

peerWrites(c, p) ==
  /\ c \in peers /\ ~ clientShut[c] /\ packets < MaxPackets
  /\ ClientSend(c, p)
  /\ packets' = packets + 1
  /\ first' = [first EXCEPT ![c] = IF @ = NoData THEN p ELSE @]
  /\ UNCHANGED <<toClient, clientShut, serverShut, waiting, serverVars, peers>>

peerCloses(c) ==
  /\ c \in peers /\ ~ clientShut[c]
  /\ clientShut' = [clientShut EXCEPT ![c] = TRUE]
  /\ UNCHANGED <<toServer, toClient, serverShut, waiting, serverVars, peerVars>>

Peer(c) ==
  \/ peerConnects(c) \/ peerCloses(c)
  \/ \E p \in Request : peerWrites(c, p)
  \/ c \in peers /\ Break(c) /\ UNCHANGED <<serverVars, peerVars>>

PeersServer ==
  (ServerStep \/ PSCProxySignalHandler) /\ UNCHANGED <<clientShut, peerVars>>

PeersEnd == pc \in {"dead", "undefined"} /\ UNCHANGED peersVars

PeersNext ==
  \/ pc # "undefined" /\ \E c \in Conn : Peer(c)
  \/ pc # "undefined" /\ PeersServer
  \/ PeersEnd

PeersSpec == PeersInit /\ [][PeersNext]_peersVars

-----------------------------------------------------------------------------
PeersTypeOK ==
  /\ ConnTypeOK /\ ServerTypeOK
  /\ peers \subseteq Conn
  /\ packets \in Nat
  /\ first \in [Conn -> Request \cup {NoData}]

(* The card is given no command of a peer whose first packet was not an    *)
(* AUTH_REQUEST with the server's credentials: a command before that one,  *)
(* or after wrong credentials, ends the session, whatever the peer writes  *)
(* next and whatever becomes of the other peers.                           *)
CredentialsFirst ==
  \A i \in 1 .. Len(cardLog) : first[cardLog[i][1]] = Auth("good")
=============================================================================
