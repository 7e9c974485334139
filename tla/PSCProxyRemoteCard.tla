------------------------- MODULE PSCProxyRemoteCard -------------------------
(***************************************************************************)
(* PSCProxy implements RemoteCard: the mapping from the state of the two   *)
(* programs to the state of the promise.                                   *)
(***************************************************************************)
EXTENDS PSCProxy

(* The command of a blocked call; a lone 0 is not a command to the card. *)
Pending(c) == IF emulatorData[c] \in Cmd THEN emulatorData[c] ELSE None

(* The answer is the last piece of what the emulator was handed. *)
Given(c) ==
  IF wrote[c] # <<>> /\ wrote[c][Len(wrote[c])].kind = "answer"
  THEN wrote[c][Len(wrote[c])].of
  ELSE None

Promise == INSTANCE RemoteCard
  WITH asked <- issued,
       log <- cardLog,
       pending <- [c \in Conn |-> Pending(c)],
       given <- [c \in Conn |-> Given(c)]

(* The programs keep the promise of RemoteCard to every box: each step of  *)
(* a client, of the server or of the network is a step of the promise or   *)
(* one that the boxes and the card do not see.                             *)
KeepsPromise == Promise!Spec
=============================================================================
