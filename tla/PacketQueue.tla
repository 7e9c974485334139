----------------------------- MODULE PacketQueue -----------------------------
(***************************************************************************)
(* One direction of a connection as Connection has it: a queue of packets. *)
(* A packet is put in whole, and what PSCProxyProtocol::read makes of the  *)
(* queue is ReadResults of Packets.  A reader that fails closes.           *)
(***************************************************************************)
EXTENDS Packets

VARIABLES
  arrived,  \* the packets that were written and not read yet
  shut,     \* the other end is gone, or the connection is
  data,     \* what the last read left in the caller's PacketData
  open      \* whether the reader is there

vars == <<arrived, shut, data, open>>

Init == arrived = <<>> /\ shut = FALSE /\ data = NoData /\ open = TRUE

write(p) == ~ shut /\ arrived' = Append(arrived, p) /\ UNCHANGED <<shut, data, open>>

close == shut' = TRUE /\ UNCHANGED <<arrived, data, open>>

read ==
  /\ open
  /\ \E r \in ReadResults(arrived, shut, data) : data' = r.data /\ open' = r.ok
  /\ arrived' = Rest(arrived)
  /\ UNCHANGED shut

(* A packet is written in part.  Nothing is promised from there on.        *)
tear == open' = FALSE /\ arrived' = <<>> /\ data' = NoData

Next == tear \/ (\E p \in Request \cup Answer : write(p)) \/ close \/ read

Spec == Init /\ [][Next]_vars
=============================================================================
