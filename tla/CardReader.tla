------------------------------ MODULE CardReader ------------------------------
(***************************************************************************)
(* What the server expects of a CardReader: it is reset when it is built,  *)
(* and from then on each command that is written is followed by a read,    *)
(* which gives the card's answer to that command, whole and nothing else.  *)
(* The reset counts as command 0, and the ATR is the answer to it.         *)
(***************************************************************************)
EXTENDS Naturals, Sequences

CONSTANT MaxAnswer   \* the longest answer of the card, in bytes

VARIABLES
  asked,    \* how many commands were written
  length,   \* the length of the card's answer to the last of them
  state,    \* "asked", "answered" or "gone"
  reply     \* what the last read gave

vars == <<asked, length, state, reply>>

(* A byte of an answer is the command it answers, and its place.           *)
Byte == [of : Nat, at : Nat]

Answer(n, len) == [i \in 1 .. len |-> [of |-> n, at |-> i]]

(* It is built, and the ATR is there already or has still to come. *)
Init ==
  /\ asked = 0 /\ length \in 0 .. MaxAnswer
  /\ \/ state = "asked" /\ reply = <<>>
     \/ state = "answered" /\ reply = Answer(0, length)

write ==
  /\ state = "answered" /\ state' = "asked"
  /\ asked' = asked + 1 /\ length' \in 0 .. MaxAnswer
  /\ reply' = <<>>

read ==
  /\ state = "asked" /\ state' = "answered"
  /\ reply' = Answer(asked, length)
  /\ UNCHANGED <<asked, length>>

(* The reader throws, and the server ends, or it is past what it can promise. *)
fail == state' = "gone" /\ reply' = <<>>

Next == write \/ read \/ fail

Spec == Init /\ [][Next]_vars
=============================================================================
