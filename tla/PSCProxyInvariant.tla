-------------------------- MODULE PSCProxyInvariant --------------------------
(***************************************************************************)
(* The inductive invariant of PSCProxy: what the safety properties need to *)
(* know of the states in between.  It says, connection by connection, how  *)
(* far the client is, what may be under way, and how far the server's      *)
(* session must then be.                                                   *)
(***************************************************************************)
EXTENDS PSCProxy

(* Who waits to be accepted has connected. *)
StartedInv == \A i \in 1 .. Len(waiting) : state[waiting[i]] # "OFF"

(* The blocked call and the data it holds. *)
CallInv(c) ==
  /\ call[c] # "none" => state[c] = "IDLE"
  /\ call[c] = "command" <=> emulatorData[c] # None

(* Before the client starts there is nothing. *)
OffInv(c) ==
  state[c] = "OFF" => toServer[c] = <<>> /\ toClient[c] = <<>> /\ sstate[c] = "none"

(* StopAndWait, connection by connection; the bound on the requests holds  *)
(* of clients that left, too.                                              *)
QueueInv(c) ==
  /\ Len(toServer[c]) <= 1
  /\ Alive(c) =>
       /\ toServer[c] = <<>> \/ toClient[c] = <<>>
       /\ Len(toClient[c]) <= 1
       /\ toServer[c] # <<>> => Head(toServer[c]) = Outstanding(c)
       /\ toClient[c] # <<>> => Head(toClient[c]) \in RepliesTo(Outstanding(c))

(* Authorization has been asked and not been decided. *)
Undecided(c) ==
  \/ state[c] = "INIT"
  \/ state[c] = "AUTH_REQUESTED" /\ toServer[c] # <<>>

(* The client's authorization was decided: no Client can be INIT any more. *)
Decided(c) ==
  \/ state[c] \in {"AUTHORIZED", "AWAITING_ATR", "IDLE"}
  \/ state[c] = "AUTH_REQUESTED" /\ toClient[c] # <<>>

(* The server's last word was a reply that leaves the session open. *)
Granted(c) ==
  \/ state[c] = "AUTHORIZED"
  \/ state[c] = "IDLE" /\ call[c] = "none"
  \/ state[c] = "AUTH_REQUESTED" /\ toClient[c] # <<>> /\ Head(toClient[c]) = AuthReply(TRUE)
  \/ state[c] \in {"AWAITING_ATR", "IDLE"} /\ toClient[c] # <<>>

SessionInv(c) ==
  /\ Undecided(c) => sstate[c] # "AUTHORIZED"
  /\ Decided(c) => sstate[c] # "INIT" /\ \A i \in 1 .. Len(waiting) : waiting[i] # c
  /\ Granted(c) /\ ~ clientShut[c] /\ ~ serverShut[c] => sstate[c] = "AUTHORIZED"

(* Only clients with the credentials have sent them or been let in. *)
CredentialsInv(c) ==
  \/ c \in Good
  \/ /\ state[c] \notin {"AUTHORIZED", "AWAITING_ATR", "IDLE"}
     /\ sstate[c] # "AUTHORIZED"
     /\ toServer[c] # <<>> => Head(toServer[c]) = Auth("bad")

(* No command reaches the card for a client without the credentials. *)
OnlyAuthorized == \A i \in 1 .. Len(cardLog) : cardLog[i][1] \in Good

CarriedOut == {cardLog[i] : i \in 1 .. Len(cardLog)}

(* What the card was given was issued, by who is allowed, and once. *)
CardInv ==
  /\ CarriedOut \subseteq issued
  /\ \A c, d \in Conn : \A k \in Cmd : <<c, k>> \in issued /\ <<d, k>> \in issued => c = d
  /\ OnlyAuthorized
  /\ AtMostOnce

(* A command on its way was issued and not carried out; a reply on its way *)
(* to a client that is there is to a command that was.                     *)
CommandInv(c) ==
  /\ toServer[c] # <<>> /\ Head(toServer[c]).type = "CMD_REQUEST" =>
       <<c, Head(toServer[c]).body>> \in issued \ CarriedOut
  /\ Alive(c) /\ toClient[c] # <<>> /\ Head(toClient[c]).type = "CMD_REPLY" =>
       <<c, Head(toClient[c]).body>> \in CarriedOut

(* Everything a connection is held to. *)
ConnInv(c) ==
  /\ CallInv(c) /\ OffInv(c) /\ QueueInv(c) /\ SessionInv(c)
  /\ CredentialsInv(c) /\ CommandInv(c)

(* The inductive invariant. *)
IInv ==
  /\ TypeOK
  /\ ServerInv
  /\ StartedInv
  /\ \A c \in Conn : ConnInv(c)
  /\ CardInv
  /\ OwnAnswer
=============================================================================
