--------------------------- MODULE DummyDevicesProofs ---------------------------
(***************************************************************************)
(* The emulator and the reader of a build without hardware implement what  *)
(* the client and the server expect of them.                               *)
(***************************************************************************)
EXTENDS DummyDevices, Integers, TLAPS

devicesVars == <<vars, serverVars, served>>
DevicesNext == Client \/ Server \/ Ended

-----------------------------------------------------------------------------
(* The emulator.                                                           *)

(* The bytes that wait to be read are the last ones that were made up, and *)
(* a command that the client has is older.                                 *)
EmulatorInv ==
  /\ produced \in Nat /\ pc \in {"tick", "handle", "server", "gone"}
  /\ resetAlreadyRequested \in BOOLEAN /\ resets = IF resetAlreadyRequested THEN 1 ELSE 0
  /\ readData \in Seq(Nat) /\ Len(readData) <= produced
  /\ \A i \in 1 .. Len(readData) : readData[i] = produced - Len(readData) + i
  /\ result \in Seq(Nat) /\ (result # <<>> => pc = "server")
  /\ result # <<>> => result[Len(result)] <= produced - Len(readData)

(* What a command made up now looks like, or nothing changes.              *)
LEMMA Prepared ==
  ASSUME EmulatorInv, prepareReadData
  PROVE  /\ produced' \in Nat /\ produced <= produced'
         /\ readData' \in Seq(Nat) /\ Len(readData') <= produced'
         /\ \A i \in 1 .. Len(readData') : readData'[i] = produced' - Len(readData') + i
         /\ produced - Len(readData) <= produced' - Len(readData')
         /\ produced' - Len(readData') \in 0 .. produced
<1>0. produced \in Nat /\ readData \in Seq(Nat) /\ Len(readData) \in Nat /\ Len(readData) <= produced
  BY DEF EmulatorInv
<1>1. CASE now - lastDataAvailTime >= 5
  <2>1. PICK len \in rand(0, MaxLen) :
          readData' = [i \in 1 .. len |-> produced + i] /\ produced' = produced + len
    BY <1>1 DEF prepareReadData
  <2>2. len \in Nat
    BY DummyAssumption DEF rand
  <2>3. readData' \in Seq(Nat) /\ Len(readData') = len /\ \A i \in 1 .. len : readData'[i] = produced + i
    BY <1>0, <2>1, <2>2
  <2> QED BY <1>0, <2>1, <2>2, <2>3
<1>2. CASE ~ (now - lastDataAvailTime >= 5)
  <2>1. readData' = readData /\ produced' = produced
    BY <1>2 DEF prepareReadData
  <2> QED BY <1>0, <2>1 DEF EmulatorInv
<1> QED BY <1>1, <1>2

LEMMA EmulatorInvNext ==
  ASSUME EmulatorInv, [DevicesNext]_devicesVars
  PROVE  EmulatorInv'
<1>1. CASE tick
  BY <1>1, Prepared DEF tick, EmulatorInv
<1>2. CASE resetRequested
  BY <1>2 DEF resetRequested, EmulatorInv
<1>3. CASE read
  <2>1. result' = readData /\ readData' = <<>> /\ produced' = produced
    BY <1>3 DEF read
  <2>2. Len(readData) \in 1 .. Len(readData)
    BY <1>3 DEF read, EmulatorInv
  <2>3. readData[Len(readData)] = produced
    BY <2>2 DEF EmulatorInv
  <2>4. readData[Len(readData)] <= produced - Len(<<>>)
    BY <2>3 DEF EmulatorInv
  <2> QED BY <1>3, <2>1, <2>4 DEF read, EmulatorInv
<1>4. CASE write
  BY <1>4, Prepared DEF write, EmulatorInv
<1>5. CASE givesUp
  BY <1>5 DEF givesUp, EmulatorInv
<1>6. CASE Clock \/ nothingToDo
  BY <1>6 DEF Clock, nothingToDo, EmulatorInv
<1>7. CASE Server \/ Ended \/ UNCHANGED devicesVars
  BY <1>7 DEF Server, Ended, devicesVars, vars, EmulatorInv
<1> QED BY <1>1, <1>2, <1>3, <1>4, <1>5, <1>6, <1>7 DEF DevicesNext, Client

Done == IF pc = "gone" THEN 0
        ELSE IF result # <<>> THEN result[Len(result)] ELSE produced - Len(readData)

State == CASE pc = "server" -> "asked" [] pc = "gone" -> "gone" [] OTHER -> "idle"

LEMMA DoneType ==
  ASSUME EmulatorInv
  PROVE  Done \in Nat /\ Done <= produced
<1>1. produced \in Nat /\ Len(readData) \in Nat /\ Len(readData) <= produced
  BY DEF EmulatorInv
<1>2. CASE result # <<>>
  <2>1. Len(result) \in 1 .. Len(result) /\ result[Len(result)] \in Nat
    BY <1>2 DEF EmulatorInv
  <2> QED BY <1>1, <1>2, <2>1 DEF EmulatorInv, Done
<1>3. CASE result = <<>>
  BY <1>1, <1>3 DEF Done
<1> QED BY <1>2, <1>3

LEMMA EmulatorStep ==
  ASSUME EmulatorInv, EmulatorInv', [DevicesNext]_devicesVars
  PROVE  [Promise!Next]_(Promise!vars)
<1> DEFINE unchanged == UNCHANGED <<produced, resets, Done, State, result>>
<1>0. unchanged => UNCHANGED Promise!vars
  BY DEF Promise!vars, Done, State
<1>1. CASE tick
  <2>1. result = <<>> /\ result' = <<>> /\ State = "idle" /\ State' = "idle"
    BY <1>1 DEF tick, EmulatorInv, State
  <2>2. Done = produced - Len(readData) /\ Done' = produced' - Len(readData')
    BY <1>1, <2>1 DEF tick, Done
  <2>3. produced' >= produced /\ Done' >= Done
    BY <1>1, <2>2, Prepared DEF tick, EmulatorInv
  <2>4. Done' \in Done .. produced
    <3>1. Done' \in Nat /\ Done' <= produced
      BY <1>1, <2>2, Prepared DEF tick, EmulatorInv
    <3> QED BY <2>3, <3>1, DoneType DEF EmulatorInv
  <2>5. Promise!send
    <3>1. Promise!send <=> /\ produced' >= produced /\ Done' \in Done .. produced
                           /\ UNCHANGED <<resets, State, result>>
      BY DEF Promise!send, Done, State
    <3>2. resets' = resets
      BY <1>1 DEF tick
    <3> QED BY <2>1, <2>3, <2>4, <3>1, <3>2
  <2> QED BY <2>5 DEF Promise!Next
<1>2. CASE resetRequested
  <2>1. State = "idle" /\ State' = "asked" /\ Done' = Done
    BY <1>2 DEF resetRequested, State, Done
  <2>2. Promise!resetRequested
    BY <1>2, <2>1 DEF resetRequested, EmulatorInv, Promise!resetRequested, State, Done
  <2> QED BY <2>2 DEF Promise!Next
<1>3. CASE read
  <2> DEFINE n == Len(readData)
             from == produced - n
  <2>1. /\ result = <<>> /\ result' = readData /\ produced' = produced /\ resets' = resets
        /\ State = "idle" /\ State' = "asked"
    BY <1>3 DEF read, EmulatorInv, State
  <2>2. n \in Nat /\ n # 0 /\ from \in Nat /\ produced \in Nat /\ n \in 0 .. produced - from /\ n \in 1 .. n
    BY <1>3 DEF read, EmulatorInv
  <2>3. Done = from
    BY <1>3, <2>1 DEF read, Done
  <2>4. from \in Done .. produced
    BY <2>2, <2>3
  <2>5. result' = Promise!Run(from, n)
    <3>1. /\ readData = [i \in 1 .. n |-> readData[i]]
          /\ \A i \in 1 .. n : readData[i] = from + i
      BY DEF EmulatorInv
    <3> QED BY <2>1, <3>1 DEF Promise!Run
  <2>6. Done' = from + n
    <3>1. Done' = readData[n]
      BY <1>3, <2>1 DEF read, Done
    <3> QED BY <2>2, <3>1 DEF EmulatorInv
  <2> HIDE DEF n, from
  <2>7. Promise!read
    BY <2>1, <2>2, <2>4, <2>5, <2>6 DEF Promise!read, Done, State
  <2> QED BY <2>7 DEF Promise!Next
<1>4. CASE write
  <2>1. result' = <<>> /\ resets' = resets /\ State = "asked" /\ State' = "idle"
    BY <1>4 DEF write, State
  <2>2. Done' = produced' - Len(readData') /\ produced' >= produced
    BY <1>4, <2>1, Prepared DEF write, Done
  <2>3. Done <= produced - Len(readData)
    <3>1. produced - Len(readData) <= produced - Len(readData)
      BY DEF EmulatorInv
    <3> QED BY <1>4, <3>1 DEF write, Done, EmulatorInv
  <2>4. Done' >= Done
    <3>1. produced - Len(readData) <= produced' - Len(readData')
      BY <1>4, Prepared DEF write
    <3>2. Done \in Nat /\ produced - Len(readData) \in Int /\ produced' - Len(readData') \in Int
      BY DoneType DEF EmulatorInv
    <3> QED BY <2>2, <2>3, <3>1, <3>2
  <2>5. Done' \in Done .. produced
    <3>1. Done' \in Nat /\ Done' <= produced
      BY <1>4, <2>2, Prepared DEF write, EmulatorInv
    <3> QED BY <2>4, <3>1, DoneType DEF EmulatorInv
  <2>6. Promise!write
    <3>1. Promise!write <=> /\ State = "asked" /\ State' = "idle" /\ result' = <<>>
                            /\ produced' >= produced /\ Done' \in Done .. produced
                            /\ UNCHANGED resets
      BY DEF Promise!write, Done, State
    <3> QED BY <2>1, <2>2, <2>5, <3>1
  <2> QED BY <2>6 DEF Promise!Next
<1>5. CASE givesUp
  BY <1>5 DEF givesUp, Promise!leave, Promise!Next
<1>6. CASE Clock \/ nothingToDo
  <2>1. unchanged
    BY <1>6 DEF Clock, nothingToDo, Done, State
  <2> QED BY <1>0, <2>1
<1>7. CASE Server \/ Ended \/ UNCHANGED devicesVars
  <2>1. unchanged
    BY <1>7 DEF Server, Ended, devicesVars, vars, Done, State
  <2> QED BY <1>0, <2>1
<1> QED BY <1>1, <1>2, <1>3, <1>4, <1>5, <1>6, <1>7 DEF DevicesNext, Client

(* The emulator that makes commands up is the CardEmulator that the client *)
(* expects, whatever the length of commands and the answers of the server. *)
THEOREM DummyIsCardEmulator == DevicesSpec => IsCardEmulator
<1>1. DevicesInit => EmulatorInv
  <2> SUFFICES ASSUME Init PROVE EmulatorInv
    BY DEF DevicesInit
  <2>1. readData = <<>> /\ result = <<>> /\ readData \in Seq(Nat) /\ Len(readData) = 0
    BY DEF Init
  <2>2. resetAlreadyRequested \in BOOLEAN /\ resets = IF resetAlreadyRequested THEN 1 ELSE 0
    BY Zenon DEF Init
  <2>3. produced = 0 /\ pc = "tick"
    BY Zenon DEF Init
  <2> QED BY <2>1, <2>2, <2>3 DEF EmulatorInv
<1>2. EmulatorInv /\ [DevicesNext]_devicesVars => EmulatorInv'
  BY EmulatorInvNext
<1>3. DevicesInit => Promise!Init
  <2> SUFFICES ASSUME Init PROVE Promise!Init
    BY DEF DevicesInit
  <2>1. Promise!Init <=> /\ produced = 0 /\ 1 \in Nat /\ resets = 0 /\ Done = 0
                         /\ State = "idle" /\ result = <<>>
    BY DEF Promise!Init, Done, State
  <2>2. pc = "tick" /\ readData = <<>> /\ Len(readData) = 0
    BY DEF Init
  <2>3. State = "idle"
    BY DEF Init, State
  <2>4. produced = 0 /\ resets = 0 /\ result = <<>>
    BY Zenon DEF Init
  <2>5. Done = 0
    <3>1. Done = produced - Len(readData)
      BY <2>2, <2>4 DEF Done
    <3>2. \A n \in Nat : n = 0 => produced - n = 0
      BY <2>4
    <3> QED BY <2>2, <3>1, <3>2
  <2>6. 1 \in Nat
    OBVIOUS
  <2> QED BY <2>1, <2>3, <2>4, <2>5, <2>6, Zenon
<1>4. EmulatorInv /\ EmulatorInv' /\ [DevicesNext]_devicesVars => [Promise!Next]_(Promise!vars)
  BY EmulatorStep
<1> QED
  BY <1>1, <1>2, <1>3, <1>4, PTL DEF DevicesSpec, DevicesNext, devicesVars, IsCardEmulator, Promise!Spec

-----------------------------------------------------------------------------
(* The reader.                                                             *)

(* The answer that was made up waits to be read, or was the last to be.    *)
ReaderInv ==
  /\ asked \in Nat /\ length \in 0 .. 21 /\ serverPc \in {"idle", "read"}
  /\ serverPc = "idle" => reply = R!Answer(asked, length)
  /\ serverPc = "read" => cardData = R!Answer(asked, length)

(* What the emulator and the client do leaves the reader alone.            *)
LEMMA ServerSteps ==
  ASSUME [DevicesNext]_devicesVars
  PROVE  R!write \/ R!read \/ UNCHANGED serverVars
BY DEF DevicesNext, devicesVars, Client, Server, Ended

LEMMA ReaderInvNext ==
  ASSUME ReaderInv, [DevicesNext]_devicesVars
  PROVE  ReaderInv'
<1>1. CASE R!write
  <2>1. length' \in 0 .. 21
    BY <1>1 DEF R!write, R!rand
  <2> QED BY <1>1, <2>1 DEF R!write, ReaderInv
<1>2. CASE R!read
  BY <1>2 DEF R!read, ReaderInv
<1>3. CASE UNCHANGED serverVars
  BY <1>3 DEF serverVars, ReaderInv
<1> QED BY <1>1, <1>2, <1>3, ServerSteps

LEMMA ReaderStep ==
  ASSUME ReaderInv, ReaderInv', [DevicesNext]_devicesVars
  PROVE  [R!Promise!Next]_(R!Promise!vars)
<1>1. CASE R!write
  <2>1. length' \in 0 .. 21
    BY <1>1 DEF R!write, R!rand
  <2>2. R!Promise!write
    BY <1>1, <2>1 DEF R!write, R!Promise!write
  <2> QED BY <2>2 DEF R!Promise!Next
<1>2. CASE R!read
  <2>1. reply' = R!Promise!Answer(asked, length)
    BY <1>2 DEF R!read, ReaderInv, R!Answer, R!Promise!Answer
  <2>2. R!Promise!read
    BY <1>2, <2>1 DEF R!read, R!Promise!read
  <2> QED BY <2>2 DEF R!Promise!Next
<1>3. CASE UNCHANGED serverVars
  BY <1>3 DEF serverVars, R!Promise!vars
<1> QED BY <1>1, <1>2, <1>3, ServerSteps

(* The reader that makes answers up is the CardReader that the server      *)
(* expects, in whatever rhythm commands come: each answer is read whole,   *)
(* after its own command.                                                  *)
THEOREM DummyIsCardReader == DevicesSpec => IsCardReader
<1>1. DevicesInit => ReaderInv
  BY DEF DevicesInit, R!Init, ReaderInv
<1>2. ReaderInv /\ [DevicesNext]_devicesVars => ReaderInv'
  BY ReaderInvNext
<1>3. DevicesInit => R!Promise!Init
  BY DEF DevicesInit, R!Init, R!Promise!Init, R!Answer, R!Promise!Answer
<1>4. ReaderInv /\ ReaderInv' /\ [DevicesNext]_devicesVars => [R!Promise!Next]_(R!Promise!vars)
  BY ReaderStep
<1> QED
  BY <1>1, <1>2, <1>3, <1>4, PTL
     DEF DevicesSpec, DevicesNext, devicesVars, IsCardReader, R!IsCardReader, R!Promise!Spec
=============================================================================
