--------------------------- MODULE DummyCardReader ---------------------------
(***************************************************************************)
(* DummyCardReader: the reader without a card that the server is built     *)
(* with.  write makes up an answer, of random bytes and a random length,   *)
(* and read hands it out.  The bytes are those of CardReader.              *)
(***************************************************************************)
EXTENDS Naturals, Sequences

CONSTANT MaxAsked   \* bound: the commands of the server

VARIABLES
  readData,  \* the answer that was made up
  result,    \* what the last read gave
  pc,        \* where the server is: "read" or "idle"
  asked,     \* how many commands were written
  length     \* the length of the answer to the last of them

vars == <<readData, result, pc, asked, length>>

Answer(n, len) == [i \in 1 .. len |-> [of |-> n, at |-> i]]

(* What rand(min, max) may give: max + 1 too, for in a float the largest   *)
(* values of ::rand() are rounded up to RAND_MAX + 1.                      *)
rand(min, max) == min .. max + 1

(* The ATR, of seven bytes, is there from the start. *)
Init ==
  /\ readData = <<>> /\ result = Answer(0, 7)
  /\ pc = "idle" /\ asked = 0 /\ length = 7

write ==
  /\ pc = "idle" /\ asked < MaxAsked /\ pc' = "read"
  /\ asked' = asked + 1 /\ length' \in rand(2, 20)
  /\ readData' = Answer(asked', length')
  /\ UNCHANGED result

(* Mutant of read: the caller's vector is not cleared first.               *)
readWithoutClear ==
  /\ pc = "read" /\ pc' = "idle"
  /\ result' = result \o readData /\ readData' = <<>>
  /\ UNCHANGED <<asked, length>>

read ==
  /\ pc = "read" /\ pc' = "idle"
  /\ result' = readData /\ readData' = <<>>
  /\ UNCHANGED <<asked, length>>

Next == write \/ read

(* The server may be idle for ever. *)
Idle == pc = "idle" /\ UNCHANGED vars

Spec == Init /\ [][Next \/ Idle]_vars

-----------------------------------------------------------------------------
(* It is the CardReader that the server expects, and its answers have 21   *)
(* bytes at most.                                                          *)
Promise == INSTANCE CardReader WITH
  MaxAnswer <- 21,
  state <- IF pc = "idle" THEN "answered" ELSE "asked",
  reply <- IF pc = "idle" THEN result ELSE <<>>

IsCardReader == Promise!Spec
=============================================================================
