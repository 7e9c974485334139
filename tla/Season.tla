------------------------------- MODULE Season -------------------------------
(***************************************************************************)
(* Season: the card emulator on a serial line, between the set-top box and *)
(* the loop of PSCProxyClient in its state IDLE.  The box raises the reset *)
(* line and sends commands when it likes; the loop looks once a tick, and  *)
(* not at all while it waits for the server.  What is written to the box   *)
(* comes back as an echo, on the same wire as the box's own bytes.         *)
(*                                                                         *)
(* A byte of the box is the number it has among all that the box sent; one *)
(* that comes back is Echo.  The server's side is an input: the reply that *)
(* is written to the box has any length.                                   *)
(***************************************************************************)
EXTENDS Naturals, Sequences

CONSTANTS
  maxBufferLen,   \* the most that one Season::read takes
  MaxReply,       \* the longest ATR, or command with its answer
  MaxSent,        \* bound: the bytes the box sends
  MaxPulses       \* bound: how often the box raises the reset line

ASSUME SeasonAssumption ==
  /\ maxBufferLen \in Nat /\ MaxReply \in Nat
  /\ MaxSent \in Nat /\ MaxPulses \in Nat

VARIABLES
  line,            \* the CAR line as the box drives it: up is TRUE
  prevCARLineUp, rstRequested,
  rx,              \* the serial port's input buffer
  pc,              \* where the client's loop is
  call,            \* the branch of handleEmulatorRequests: "reset" or "command"
  result,          \* what the running or the last Season::read took
  left,            \* bytes that Season::write has still to write
  sent, pulses,    \* history: bytes and rising edges of the box
  resets,          \* history: resets that the client took
  since,           \* history: sent when the last Season::write began
  quiet            \* history: no reply was longer than a read, no read of an echo interrupted

lineVars == <<line, prevCARLineUp, rstRequested, pulses, resets>>
dataVars == <<rx, result, left, sent, since, quiet>>
vars == <<lineVars, dataVars, pc, call>>

Echo == 0

TypeOK ==
  /\ line \in BOOLEAN /\ prevCARLineUp \in BOOLEAN /\ rstRequested \in BOOLEAN
  /\ rx \in Seq(Nat) /\ result \in Seq(Nat)
  /\ pc \in {"tick", "handle", "read", "server", "write", "echo", "gone"}
  /\ call \in {"reset", "command"}
  /\ left \in Nat /\ sent \in Nat /\ pulses \in Nat /\ resets \in Nat /\ since \in Nat
  /\ quiet \in BOOLEAN

Init ==
  /\ line \in BOOLEAN
  /\ prevCARLineUp = TRUE /\ rstRequested = FALSE
  /\ rx = <<>> /\ result = <<>> /\ left = 0
  /\ pc = "tick" /\ call = "reset"
  /\ sent = 0 /\ pulses = 0 /\ resets = 0 /\ since = 0 /\ quiet = TRUE

-----------------------------------------------------------------------------
(* The box.                                                                *)

(* It pulls the reset line down, or lets it go up again. *)
Fall == line /\ line' = FALSE /\ UNCHANGED pulses

Rise == ~ line /\ pulses < MaxPulses /\ line' = TRUE /\ pulses' = pulses + 1

(* It sends a byte, but not while it is being talked to: there is one wire. *)
Send ==
  /\ pc # "write" /\ sent < MaxSent
  /\ rx' = Append(rx, sent + 1)
  /\ sent' = sent + 1
  /\ UNCHANGED <<result, left, since, quiet>>

Box ==
  /\ \/ (Fall \/ Rise) /\ UNCHANGED <<prevCARLineUp, rstRequested, resets, dataVars>>
     \/ Send /\ UNCHANGED lineVars
  /\ UNCHANGED <<pc, call>>

-----------------------------------------------------------------------------
(* The client's loop.                                                      *)

(* Season::tick: a reset is the line up that was down a tick ago. *)
tick ==
  /\ pc = "tick" /\ pc' = "handle"
  /\ rstRequested' = (rstRequested \/ (line /\ ~ prevCARLineUp))
  /\ prevCARLineUp' = line
  /\ UNCHANGED <<line, pulses, resets, dataVars, call>>

(* Mutant of resetRequested: the flag is not cleared.                      *)
resetStaysRequested ==
  /\ pc = "handle" /\ rstRequested
  /\ resets' = resets + 1
  /\ pc' = "server" /\ call' = "reset"
  /\ UNCHANGED <<line, prevCARLineUp, rstRequested, pulses, dataVars>>

resetRequested ==
  /\ pc = "handle" /\ rstRequested
  /\ rstRequested' = FALSE
  /\ resets' = resets + 1
  /\ pc' = "server" /\ call' = "reset"
  /\ UNCHANGED <<line, prevCARLineUp, pulses, dataVars>>

(* readDataAvail finds data, and read begins. *)
readStarts ==
  /\ pc = "handle" /\ ~ rstRequested /\ rx # <<>>
  /\ pc' = "read" /\ call' = "command" /\ result' = <<>>
  /\ UNCHANGED <<rx, left, sent, since, quiet, lineVars>>

(* It finds none, or select was interrupted. *)
nothingToDo ==
  /\ pc = "handle" /\ ~ rstRequested /\ pc' = "tick"
  /\ UNCHANGED <<lineVars, dataVars, call>>

(* One turn of the loop in Season::read. *)
readByte ==
  /\ pc \in {"read", "echo"} /\ rx # <<>> /\ Len(result) < maxBufferLen
  /\ result' = Append(result, Head(rx))
  /\ rx' = Tail(rx)
  /\ UNCHANGED <<left, sent, since, quiet, lineVars, pc, call>>

(* The loop ends with 350 ms of silence, after maxBufferLen bytes ... *)
readEnds ==
  /\ pc \in {"read", "echo"}
  /\ rx = <<>> \/ Len(result) >= maxBufferLen
  /\ pc' = IF pc = "read" THEN "server" ELSE "tick"
  /\ UNCHANGED <<lineVars, dataVars, call>>

(* ... or when a handled signal interrupts poll. *)
interrupted ==
  /\ pc \in {"read", "echo"}
  /\ pc' = IF pc = "read" THEN "server" ELSE "tick"
  /\ quiet' = (quiet /\ pc # "echo")
  /\ UNCHANGED <<lineVars, rx, result, left, sent, since, call>>

(* Mutant of writeStarts: the input is not flushed.                        *)
writeStartsUnflushed ==
  /\ pc = "server" /\ pc' = "write"
  /\ left' \in 0 .. MaxReply /\ since' = sent
  /\ quiet' = (quiet /\ left' <= maxBufferLen)
  /\ UNCHANGED <<rx, result, sent, lineVars, call>>

(* The server's reply was parsed; Season::write throws away the input. *)
writeStarts ==
  /\ pc = "server" /\ pc' = "write"
  /\ rx' = <<>> /\ left' \in 0 .. MaxReply /\ since' = sent
  /\ quiet' = (quiet /\ left' <= maxBufferLen)
  /\ UNCHANGED <<result, sent, lineVars, call>>

(* Mutant of writeByte: one byte too many.                                 *)
writeByteTooMany ==
  /\ pc = "write" /\ left >= 0
  /\ rx' = Append(rx, Echo) /\ left' = left - 1
  /\ UNCHANGED <<result, sent, since, quiet, lineVars, pc, call>>

writeByte ==
  /\ pc = "write" /\ left > 0
  /\ rx' = Append(rx, Echo) /\ left' = left - 1
  /\ UNCHANGED <<result, sent, since, quiet, lineVars, pc, call>>

(* Mutant of writeEnds: the echo is not read.                              *)
writeEndsDeaf ==
  /\ pc = "write" /\ left = 0
  /\ pc' = "tick" /\ result' = <<>>
  /\ UNCHANGED <<rx, left, sent, since, quiet, lineVars, call>>

(* All is written, and the read of the echo begins. *)
writeEnds ==
  /\ pc = "write" /\ left = 0
  /\ pc' = "echo" /\ result' = <<>>
  /\ UNCHANGED <<rx, left, sent, since, quiet, lineVars, call>>

(* The reply cannot be parsed and the client closes; a read or a write of  *)
(* the port fails, with an exception that nobody catches; or a signal ends *)
(* the program.                                                            *)
givesUp ==
  /\ pc # "gone" /\ pc' = "gone"
  /\ UNCHANGED <<lineVars, dataVars, call>>

Loop ==
  \/ tick \/ resetRequested \/ readStarts \/ nothingToDo \/ readByte \/ readEnds \/ interrupted
  \/ writeStarts \/ writeByte \/ writeEnds \/ givesUp

(* The program has ended. *)
Terminating == pc = "gone" /\ UNCHANGED vars

Next == Box \/ Loop \/ Terminating

Spec == Init /\ [][Next]_vars

-----------------------------------------------------------------------------
(* One pulse of the reset line is one reset at most, however long the loop *)
(* was away and whenever the line moves between two ticks.                 *)
ResetOnce == resets <= pulses

(* The client has bytes of a command to send to the card. *)
Asking == pc = "server" /\ call = "command"

(* A command is a gapless run of what the box sent, in order, all of it    *)
(* sent after the loop began to write its last answer: no byte twice, none *)
(* of a command that the box gave up before.                               *)
FreshCommand ==
  Asking => \A i \in 1 .. Len(result) : result[i] # Echo =>
    /\ since < result[i] /\ result[i] <= sent
    /\ \A j \in i + 1 .. Len(result) : result[j] = result[i] + (j - i)

(* The emulator never takes what it said itself for a command of the box,  *)
(* up to the first read of an echo that is interrupted, and the first      *)
(* reply that is longer than a read.                                       *)
NoEcho == quiet /\ Asking => \A i \in 1 .. Len(result) : result[i] # Echo

(* Up to then it is also the CardEmulator that the client expects.         *)
Promised == quiet /\ pc # "gone"

Promise == INSTANCE CardEmulator WITH
  produced <- sent,
  done <- IF ~ Promised THEN 0
          ELSE IF Asking /\ result # <<>> THEN result[Len(result)] ELSE since,
  state <- IF ~ Promised THEN "gone" ELSE IF pc = "server" THEN "asked" ELSE "idle",
  command <- IF Promised /\ Asking THEN result ELSE <<>>

IsCardEmulator == Promise!Spec
=============================================================================
