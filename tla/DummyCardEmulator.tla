-------------------------- MODULE DummyCardEmulator --------------------------
(***************************************************************************)
(* DummyCardEmulator: the emulator without a box, with the loop of         *)
(* PSCProxyClient in its state IDLE around it.  It asks for one reset, and *)
(* makes up a command of random bytes when five seconds have gone since    *)
(* the last.  The bytes are numbered, as in CardEmulator.                  *)
(***************************************************************************)
EXTENDS Naturals, Sequences

CONSTANTS
  MaxLen,    \* the longest command asked of rand
  MaxTime    \* bound: the seconds that pass

ASSUME DummyAssumption == MaxLen \in Nat /\ MaxTime \in Nat

VARIABLES
  now,                    \* what time(NULL) gives
  lastDataAvailTime, resetAlreadyRequested,
  readData,               \* the command that was made up and not read yet
  pc,                     \* where the client's loop is
  result,                 \* the command that the client has
  produced, resets        \* history: bytes that were made up, resets taken

vars == <<now, lastDataAvailTime, resetAlreadyRequested, readData, pc, result, produced, resets>>

Init ==
  /\ now = 0 /\ lastDataAvailTime = 0 /\ resetAlreadyRequested = FALSE
  /\ readData = <<>> /\ pc = "tick" /\ result = <<>>
  /\ produced = 0 /\ resets = 0

(* What rand(min, max) may give: max + 1 too, for in a float the largest   *)
(* values of ::rand() are rounded up to RAND_MAX + 1.                      *)
rand(min, max) == min .. max + 1

(* A command that was not read is replaced. *)
prepareReadData ==
  IF now - lastDataAvailTime >= 5
  THEN \E len \in rand(0, MaxLen) :
         /\ readData' = [i \in 1 .. len |-> produced + i]
         /\ produced' = produced + len /\ lastDataAvailTime' = now
  ELSE UNCHANGED <<readData, produced, lastDataAvailTime>>

-----------------------------------------------------------------------------
(* A second goes by, at any point of the loop. *)
Clock ==
  /\ now < MaxTime /\ now' = now + 1
  /\ UNCHANGED <<lastDataAvailTime, resetAlreadyRequested, readData, pc, result, produced, resets>>

tick ==
  /\ pc = "tick" /\ pc' = "handle"
  /\ prepareReadData
  /\ UNCHANGED <<now, resetAlreadyRequested, result, resets>>

resetRequested ==
  /\ pc = "handle" /\ ~ resetAlreadyRequested /\ pc' = "server"
  /\ resetAlreadyRequested' = TRUE /\ resets' = resets + 1
  /\ UNCHANGED <<now, lastDataAvailTime, readData, result, produced>>

(* Mutant of read: readData is not cleared.                                *)
readAndKeep ==
  /\ pc = "handle" /\ resetAlreadyRequested /\ readData # <<>> /\ pc' = "server"
  /\ result' = readData
  /\ UNCHANGED <<now, lastDataAvailTime, resetAlreadyRequested, readData, produced, resets>>

(* readDataAvail is true, and the command is read. *)
read ==
  /\ pc = "handle" /\ resetAlreadyRequested /\ readData # <<>> /\ pc' = "server"
  /\ result' = readData /\ readData' = <<>>
  /\ UNCHANGED <<now, lastDataAvailTime, resetAlreadyRequested, produced, resets>>

nothingToDo ==
  /\ pc = "handle" /\ resetAlreadyRequested /\ readData = <<>> /\ pc' = "tick"
  /\ UNCHANGED <<now, lastDataAvailTime, resetAlreadyRequested, readData, result, produced, resets>>

(* The server's reply is handed over. *)
write ==
  /\ pc = "server" /\ pc' = "tick"
  /\ prepareReadData /\ result' = <<>>
  /\ UNCHANGED <<now, resetAlreadyRequested, resets>>

(* The reply cannot be parsed and the client closes, or a signal ends it. *)
givesUp ==
  /\ pc # "gone" /\ pc' = "gone" /\ result' = <<>>
  /\ UNCHANGED <<now, lastDataAvailTime, resetAlreadyRequested, readData, produced, resets>>

Next == Clock \/ tick \/ resetRequested \/ read \/ nothingToDo \/ write \/ givesUp

Terminating == pc = "gone" /\ UNCHANGED vars

Spec == Init /\ [][Next \/ Terminating]_vars

-----------------------------------------------------------------------------
(* It is a CardEmulator of a box that pulses the reset line once: however  *)
(* long the server takes, a command is handed over once, and whole.        *)
Promise == INSTANCE CardEmulator WITH
  pulses <- 1,
  done <- IF pc = "gone" THEN 0
          ELSE IF result # <<>> THEN result[Len(result)] ELSE produced - Len(readData),
  state <- CASE pc = "server" -> "asked" [] pc = "gone" -> "gone" [] OTHER -> "idle",
  command <- result

IsCardEmulator == Promise!Spec
=============================================================================
