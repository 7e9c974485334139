----------------------------- MODULE DummyDevices -----------------------------
(***************************************************************************)
(* The programs as they are built without any hardware: the client with a  *)
(* DummyCardEmulator, the server with a DummyCardReader.  A reset is       *)
(* answered with the ATR that the reader has; a command is written to the  *)
(* reader and its answer read, and then the client's box is given it.  How *)
(* requests and replies get across is in PSCProxy.                         *)
(***************************************************************************)
EXTENDS DummyCardEmulator

CONSTANT MaxAsked   \* bound: the commands that the reader is given

VARIABLES
  cardData, reply, serverPc, asked, length,  \* the variables of DummyCardReader
  served                                     \* the commands that the client has the answer to

serverVars == <<cardData, reply, serverPc, asked, length>>

R == INSTANCE DummyCardReader WITH readData <- cardData, result <- reply, pc <- serverPc

DevicesInit == Init /\ R!Init /\ served = 0

(* The client waits for the answer to a command. *)
Commanded == pc = "server" /\ result # <<>>

(* handleClientRequests: the one write and the one read for a command. *)
Server ==
  /\ \/ Commanded /\ asked = served /\ R!write
     \/ R!read
  /\ UNCHANGED <<vars, served>>

Answered == Commanded => asked > served /\ serverPc = "idle"

(* The client goes on with the answer, or does what needs none. *)
Client ==
  /\ \/ Clock \/ tick \/ resetRequested \/ read \/ nothingToDo \/ givesUp
     \/ Answered /\ write
  /\ served' = IF Commanded /\ pc' # "server" THEN asked ELSE served
  /\ UNCHANGED serverVars

Ended == pc = "gone" /\ serverPc = "idle" /\ UNCHANGED <<vars, serverVars, served>>

DevicesSpec == DevicesInit /\ [][Client \/ Server \/ Ended]_<<vars, serverVars, served>>

-----------------------------------------------------------------------------
(* The reader the server is built with is the CardReader it expects, with  *)
(* answers of 21 bytes at most, in whatever rhythm commands come.          *)
IsCardReader == R!IsCardReader
=============================================================================
