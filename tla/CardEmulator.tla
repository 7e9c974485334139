----------------------------- MODULE CardEmulator -----------------------------
(***************************************************************************)
(* What the client expects of a CardEmulator.  The box sends bytes, which  *)
(* are numbered, and pulses the reset line.  The client takes one of the   *)
(* two at a time, and writes the answer before it takes another: a pulse   *)
(* once, and as a command a run of bytes, none of them missing in between, *)
(* none a second time.  It need not take all of them.                      *)
(***************************************************************************)
EXTENDS Naturals, Sequences

VARIABLES
  produced,  \* the bytes that the box has sent
  pulses,    \* the pulses of the reset line
  resets,    \* the resets that the client has taken
  done,      \* the bytes up to this one are not taken any more
  state,     \* "idle", "asked" (the client has a reset or a command), or "gone"
  command    \* the command

vars == <<produced, pulses, resets, done, state, command>>

Run(from, n) == [i \in 1 .. n |-> from + i]

Init ==
  /\ produced = 0 /\ pulses \in Nat /\ resets = 0 /\ done = 0
  /\ state = "idle" /\ command = <<>>

(* The box, at any time.  What was not taken yet may be lost with it. *)
send ==
  /\ produced' >= produced /\ done' \in done .. produced
  /\ UNCHANGED <<pulses, resets, state, command>>

pulse == pulses' = pulses + 1 /\ UNCHANGED <<produced, resets, done, state, command>>

resetRequested ==
  /\ state = "idle" /\ state' = "asked"
  /\ resets < pulses /\ resets' = resets + 1
  /\ UNCHANGED <<produced, pulses, done, command>>

read ==
  /\ state = "idle" /\ state' = "asked"
  /\ \E from \in done .. produced :
       \E n \in 0 .. produced - from :
         command' = Run(from, n) /\ done' = IF n = 0 THEN done ELSE from + n
  /\ UNCHANGED <<produced, pulses, resets>>

(* An answer is written, and more may come, or be thrown away, with it. *)
write ==
  /\ state = "asked" /\ state' = "idle" /\ command' = <<>>
  /\ produced' >= produced /\ done' \in done .. produced
  /\ UNCHANGED <<pulses, resets>>

(* The client closes, or the emulator is past what it can promise.         *)
leave == state' = "gone" /\ command' = <<>> /\ done' = 0

Next == send \/ pulse \/ resetRequested \/ read \/ write \/ leave

Spec == Init /\ [][Next]_vars
=============================================================================
