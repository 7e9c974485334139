----------------------------- MODULE RemoteCard -----------------------------
(***************************************************************************)
(* What the two programs together promise the boxes, with no packets, no   *)
(* sessions and no server loop: the one card carries out a command of a    *)
(* box at most once, only for boxes with the credentials, and a box is     *)
(* given the answer to the command it is waiting on and to no other, or    *)
(* is told nothing.  A command may be carried out after the box gave up.   *)
(***************************************************************************)
EXTENDS Naturals, Sequences

CONSTANTS Conn, Good, Cmd, None

VARIABLES
  asked,     \* the commands the boxes asked for, with the box
  log,       \* the commands the card carried out, in that order, with the box
  pending,   \* the command a box is waiting on, or None
  given      \* the command whose answer a box was given last, None after an ATR

rcVars == <<asked, log, pending, given>>

Init ==
  /\ asked = {}
  /\ log = <<>>
  /\ pending = [c \in Conn |-> None]
  /\ given = [c \in Conn |-> None]

CarriedOut == {log[i] : i \in 1 .. Len(log)}

Ask(c, k) ==
  /\ c \in Good /\ pending[c] = None
  /\ \A d \in Conn : <<d, k>> \notin asked
  /\ asked' = asked \cup {<<c, k>>}
  /\ pending' = [pending EXCEPT ![c] = k]
  /\ UNCHANGED <<log, given>>

CarryOut(c, k) ==
  /\ <<c, k>> \in asked \ CarriedOut
  /\ log' = Append(log, <<c, k>>)
  /\ UNCHANGED <<asked, pending, given>>

GiveAnswer(c) ==
  /\ <<c, pending[c]>> \in CarriedOut
  /\ given' = [given EXCEPT ![c] = pending[c]]
  /\ pending' = [pending EXCEPT ![c] = None]
  /\ UNCHANGED <<asked, log>>

GiveAtr(c) ==
  /\ c \in Good /\ pending[c] = None
  /\ given' = [given EXCEPT ![c] = None]
  /\ UNCHANGED <<asked, log, pending>>

GiveUp(c) ==
  /\ pending[c] # None
  /\ pending' = [pending EXCEPT ![c] = None]
  /\ UNCHANGED <<asked, log, given>>

Next ==
  \E c \in Conn :
    \/ \E k \in Cmd : Ask(c, k) \/ CarryOut(c, k)
    \/ GiveAnswer(c) \/ GiveAtr(c) \/ GiveUp(c)

Spec == Init /\ [][Next]_rcVars
=============================================================================
