-------------------------- MODULE MCPSCProxyProtocol --------------------------
(* Bytes of one base-six digit instead of 256 values, so that the longest  *)
(* packet has 35 of them, and strings of up to two bytes.                  *)
EXTENDS PSCProxyProtocol, SequencesExt

ModelStrings == BoundedSeq(1 .. 2, 2)
ModelUser == <<1, 2>>
ModelPass == <<1>>
ModelGarbled == BoundedSeq({0, 5}, 3)
ModelBodies == BoundedSeq({0, 1, 5}, 3) \cup {[i \in 1 .. n |-> i % 6] : n \in 30 .. 32}
=============================================================================
