---------------------------- MODULE MCPacketStream ----------------------------
(* A packet that is a header alone, and one with a body.                   *)
EXTENDS PacketStream

ModelSent == {ResetRequest} \cup {CmdReply(k) : k \in Cmd}
=============================================================================
