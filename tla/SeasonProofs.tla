---------------------------- MODULE SeasonProofs ----------------------------
(***************************************************************************)
(* Season for every buffer, every length of replies and every number of    *)
(* bytes and pulses of the box: its safety, and that it implements         *)
(* CardEmulator up to the first interrupted read of an echo and the first  *)
(* reply longer than a read.                                               *)
(***************************************************************************)
EXTENDS Season, SequenceTheorems, TLAPS

One(b) == IF b THEN 1 ELSE 0

(* A pulse is taken already, noted in the flag, or still to be seen.       *)
LedgerInv == resets + One(rstRequested) + One(line /\ ~ prevCARLineUp) <= pulses

(* In the input buffer the echo comes first, then the latest bytes of the  *)
(* box without a gap, all sent since the last write began.                 *)
RxInv ==
  /\ \A i \in 1 .. Len(rx) : rx[i] # Echo =>
       /\ since < rx[i] /\ rx[i] + Len(rx) = sent + i
       /\ \A j \in i .. Len(rx) : rx[j] # Echo
  /\ pc = "write" => \A i \in 1 .. Len(rx) : rx[i] = Echo

(* What was read of a command goes right before what is in the buffer.     *)
ResultInv ==
  pc = "read" \/ Asking =>
    \A i \in 1 .. Len(result) : result[i] # Echo =>
      /\ since < result[i] /\ result[i] + Len(result) + Len(rx) = sent + i
      /\ \A j \in i .. Len(result) : result[j] # Echo
      /\ \A j \in 1 .. Len(rx) : rx[j] # Echo

IInv == TypeOK /\ since <= sent /\ LedgerInv /\ RxInv /\ ResultInv

(* The echo of a reply fits into one read, and is gone when that ends.     *)
EchoInv ==
  /\ pc = "write" => Len(rx) + left <= maxBufferLen
  /\ pc = "echo" => \A i \in 1 .. Len(rx) : rx[i] = Echo => Len(result) + i <= maxBufferLen
  /\ pc \notin {"write", "echo", "gone"} => \A i \in 1 .. Len(rx) : rx[i] # Echo
  /\ pc = "read" \/ Asking => \A i \in 1 .. Len(result) : result[i] # Echo

-----------------------------------------------------------------------------
(* The numbers of an appended byte, and of a queue that lost its first.    *)
LEMMA QueueSteps ==
  ASSUME NEW q \in Seq(Nat)
  PROVE  /\ Len(q) \in Nat
         /\ \A i \in 1 .. Len(q) : q[i] \in Nat
         /\ \A x \in Nat : /\ Append(q, x) \in Seq(Nat)
                          /\ Len(Append(q, x)) = Len(q) + 1
                          /\ Append(q, x)[Len(q) + 1] = x
                          /\ \A i \in 1 .. Len(q) : Append(q, x)[i] = q[i]
         /\ q # <<>> => /\ Tail(q) \in Seq(Nat) /\ Head(q) = q[1] /\ Head(q) \in Nat
                        /\ Len(q) >= 1 /\ Len(Tail(q)) = Len(q) - 1
                        /\ \A i \in 1 .. Len(Tail(q)) : Tail(q)[i] = q[i + 1]
<1>1. q # <<>> => Len(q) >= 1
  OBVIOUS
<1>2. Len(q) \in Nat /\ \A i \in 1 .. Len(q) : q[i] \in Nat
  OBVIOUS
<1>3. ASSUME NEW x \in Nat
      PROVE  /\ Append(q, x) \in Seq(Nat)
             /\ Len(Append(q, x)) = Len(q) + 1
             /\ Append(q, x)[Len(q) + 1] = x
             /\ \A i \in 1 .. Len(q) : Append(q, x)[i] = q[i]
  OBVIOUS
<1>4. ASSUME q # <<>>
      PROVE  /\ Tail(q) \in Seq(Nat) /\ Head(q) = q[1] /\ Head(q) \in Nat
             /\ Len(Tail(q)) = Len(q) - 1
             /\ \A i \in 1 .. Len(Tail(q)) : Tail(q)[i] = q[i + 1]
  BY <1>4, HeadTailProperties
<1> QED BY <1>1, <1>2, <1>3, <1>4

(* Every step keeps the types.                                             *)
LEMMA KeepsTypes == ASSUME TypeOK, [Next]_vars PROVE TypeOK'
<1> USE DEF TypeOK
<1>1. CASE Box
  <2>1. CASE Fall \/ Rise
    <3>0. pulses + 1 \in Nat
      OBVIOUS
    <3>1. line' \in BOOLEAN /\ pulses' \in Nat
      <4>1. CASE Fall
        BY <4>1 DEF Fall
      <4>2. CASE Rise
        BY <3>0, <4>2 DEF Rise
      <4> QED BY <2>1, <4>1, <4>2
    <3>2. UNCHANGED <<prevCARLineUp, rstRequested, resets, rx, result, left, sent, since, quiet, pc, call>>
      BY <1>1, <2>1 DEF Box, Send, Fall, Rise, lineVars, dataVars
    <3> QED BY <3>1, <3>2
  <2>2. CASE Send
    BY <1>1, <2>2, QueueSteps DEF Box, Send, Fall, Rise, lineVars, dataVars
  <2> QED BY <1>1, <2>1, <2>2 DEF Box
<1>2. CASE tick
  BY <1>2 DEF tick, lineVars, dataVars
<1>3. CASE resetRequested
  <2>1. resets + 1 \in Nat
    OBVIOUS
  <2> QED BY <1>3, <2>1 DEF resetRequested, dataVars
<1>4. CASE readStarts
  BY <1>4 DEF readStarts, lineVars, dataVars
<1>5. CASE nothingToDo
  BY <1>5 DEF nothingToDo, lineVars, dataVars
<1>6. CASE readByte
  BY <1>6, QueueSteps DEF readByte, lineVars, dataVars
<1>7. CASE readEnds
  BY <1>7 DEF readEnds, lineVars, dataVars
<1>13. CASE interrupted
  <2>1. quiet' \in BOOLEAN
    BY <1>13 DEF interrupted
  <2> QED BY <1>13, <2>1 DEF interrupted, lineVars
<1>8. CASE writeStarts
  <2>1. quiet' \in BOOLEAN
    BY <1>8 DEF writeStarts
  <2>2. left' \in Nat
    BY <1>8, SeasonAssumption DEF writeStarts
  <2> QED BY <1>8, <2>1, <2>2 DEF writeStarts, lineVars
<1>9. CASE writeByte
  BY <1>9, QueueSteps DEF writeByte, lineVars, dataVars, Echo
<1>10. CASE writeEnds
  BY <1>10 DEF writeEnds, lineVars, dataVars
<1>11. CASE givesUp
  BY <1>11 DEF givesUp, lineVars, dataVars
<1>12. CASE UNCHANGED vars
  BY <1>12 DEF vars, lineVars, dataVars
<1> QED
  BY <1>1, <1>2, <1>3, <1>4, <1>5, <1>6, <1>7, <1>8, <1>9, <1>10, <1>11, <1>12, <1>13
     DEF Next, Loop, Terminating

(* Every step keeps the ledger of the pulses: only Rise adds to it, and    *)
(* that is a pulse.                                                        *)
LEMMA KeepsLedger == ASSUME IInv, [Next]_vars PROVE LedgerInv'
<1> USE DEF IInv, TypeOK, LedgerInv, One
<1>1. CASE UNCHANGED lineVars
  BY <1>1 DEF lineVars
<1>2. CASE (Fall \/ Rise) /\ UNCHANGED <<prevCARLineUp, rstRequested, resets>>
  <2>1. CASE Fall
    BY <1>2, <2>1 DEF Fall
  <2>2. CASE Rise
    BY <1>2, <2>2 DEF Rise
  <2> QED BY <1>2, <2>1, <2>2
<1>3. CASE tick
  BY <1>3 DEF tick
<1>4. CASE resetRequested
  BY <1>4 DEF resetRequested
<1>5. \/ UNCHANGED lineVars
      \/ (Fall \/ Rise) /\ UNCHANGED <<prevCARLineUp, rstRequested, resets>>
      \/ tick \/ resetRequested
  BY DEF Next, Box, Loop, Terminating, vars, Send, readStarts, nothingToDo, readByte, readEnds,
         interrupted, writeStarts, writeByte, writeEnds, givesUp
<1> QED BY <1>1, <1>2, <1>3, <1>4, <1>5

(* Every step keeps what is known of the input buffer.                     *)
LEMMA KeepsRx == ASSUME IInv, [Next]_vars PROVE since' <= sent' /\ RxInv'
<1>0. /\ Len(rx) \in Nat /\ \A i \in 1 .. Len(rx) : rx[i] \in Nat
      /\ Len(<<>>) = 0 /\ rx \in Seq(Nat) /\ sent \in Nat /\ since \in Nat
      /\ since <= sent
  BY DEF IInv, TypeOK
<1>1. CASE UNCHANGED <<rx, sent, since>> /\ (pc' # "write" \/ UNCHANGED pc)
  BY <1>1 DEF IInv, RxInv
<1>2. CASE Send /\ UNCHANGED pc
  <2>1. /\ rx' = Append(rx, sent + 1) /\ sent' = sent + 1 /\ since' = since
        /\ pc' # "write" /\ sent + 1 \in Nat
    BY <1>0, <1>2 DEF Send
  <2>2. /\ Len(rx') = Len(rx) + 1 /\ rx'[Len(rx) + 1] = sent + 1
        /\ \A i \in 1 .. Len(rx) : rx'[i] = rx[i]
    BY <1>0, <2>1, QueueSteps
  <2>3. \A i \in 1 .. Len(rx') : i \in 1 .. Len(rx) \/ i = Len(rx) + 1
    BY <1>0, <2>2
  <2>4. ASSUME NEW i \in 1 .. Len(rx'), rx'[i] # Echo
        PROVE  /\ since' < rx'[i] /\ rx'[i] + Len(rx') = sent' + i
               /\ \A j \in i .. Len(rx') : rx'[j] # Echo
    <3>1. CASE i = Len(rx) + 1
      <4>1. rx'[i] = sent + 1 /\ since < sent + 1 /\ rx'[i] + Len(rx') = sent' + i
        BY <1>0, <2>1, <2>2, <3>1
      <4>2. \A j \in i .. Len(rx') : j = i
        BY <1>0, <2>2, <3>1
      <4> QED BY <2>1, <2>4, <4>1, <4>2
    <3>2. CASE i \in 1 .. Len(rx)
      <4>0. rx[i] # Echo /\ rx[i] \in Nat /\ rx'[i] = rx[i]
        BY <1>0, <2>2, <2>4, <3>2
      <4>1. /\ since < rx[i] /\ rx[i] + Len(rx) = sent + i
            /\ \A j \in i .. Len(rx) : rx[j] # Echo
        BY <3>2, <4>0 DEF IInv, RxInv
      <4>2. ASSUME NEW j \in i .. Len(rx') PROVE rx'[j] # Echo
        <5>1. j \in i .. Len(rx) + 1
          BY <2>2
        <5>2. (j \in i .. Len(rx) /\ j \in 1 .. Len(rx)) \/ j = Len(rx) + 1
          <6>1. PICK l \in Nat : l = Len(rx)
            BY <1>0
          <6>2. i \in 1 .. l /\ j \in i .. l + 1
            BY <3>2, <5>1, <6>1
          <6>3. (j \in i .. l /\ j \in 1 .. l) \/ j = l + 1
            BY <6>2
          <6> QED BY <6>1, <6>3
        <5>3. sent + 1 # Echo
          BY <1>0 DEF Echo
        <5> QED BY <2>2, <4>1, <5>2, <5>3
      <4>3. rx[i] + (Len(rx) + 1) = (sent + 1) + i
        <5>1. PICK v \in Nat, l \in Nat, s \in Nat : v = rx[i] /\ l = Len(rx) /\ s = sent
          BY <1>0, <4>0
        <5>2. v + l = s + i /\ i \in Nat
          BY <3>2, <4>1, <5>1
        <5>3. v + (l + 1) = (s + 1) + i
          BY <5>2
        <5> QED BY <5>1, <5>3
      <4> QED BY <2>1, <2>2, <4>0, <4>1, <4>2, <4>3
    <3> QED BY <2>3, <3>1, <3>2
  <2> QED BY <1>0, <2>1, <2>4 DEF RxInv
<1>3. CASE readByte
  <2>1. rx # <<>> /\ rx' = Tail(rx) /\ UNCHANGED <<sent, since>> /\ pc' # "write"
    BY <1>3 DEF readByte
  <2>2. /\ Len(rx') = Len(rx) - 1 /\ Len(rx) >= 1
        /\ \A i \in 1 .. Len(rx') : rx'[i] = rx[i + 1]
    BY <1>0, <2>1, QueueSteps
  <2>3. ASSUME NEW i \in 1 .. Len(rx'), rx'[i] # Echo
        PROVE  /\ since' < rx'[i] /\ rx'[i] + Len(rx') = sent' + i
               /\ \A j \in i .. Len(rx') : rx'[j] # Echo
    <3>0. i + 1 \in 1 .. Len(rx) /\ i \in Nat
      BY <1>0, <2>2
    <3>1. rx[i + 1] # Echo /\ rx'[i] = rx[i + 1]
      BY <2>2, <2>3
    <3>2. /\ since < rx[i + 1] /\ rx[i + 1] + Len(rx) = sent + (i + 1)
          /\ \A j \in i + 1 .. Len(rx) : rx[j] # Echo
      BY <3>0, <3>1 DEF IInv, RxInv
    <3>3. \A j \in i .. Len(rx') : j \in 1 .. Len(rx') /\ j + 1 \in i + 1 .. Len(rx)
      BY <1>0, <2>2, <3>0
    <3>4. \A j \in i .. Len(rx') : rx'[j] # Echo
      BY <2>2, <3>2, <3>3
    <3>5. PICK v \in Nat : v = rx[i + 1]
      BY <1>0, <3>0
    <3>6. v + (Len(rx) - 1) = sent + i
      <4>1. v + Len(rx) = sent + (i + 1)
        BY <3>2, <3>5
      <4> QED BY <1>0, <3>0, <4>1
    <3> QED BY <2>1, <2>2, <3>1, <3>2, <3>4, <3>5, <3>6
  <2> QED BY <1>0, <2>1, <2>3 DEF RxInv
<1>4. CASE writeStarts
  <2>1. rx' = <<>> /\ since' = sent /\ sent' = sent
    BY <1>4 DEF writeStarts
  <2> QED BY <1>0, <2>1 DEF RxInv
<1>5. CASE writeByte
  <2>1. /\ \A i \in 1 .. Len(rx) : rx[i] = Echo
        /\ rx' = Append(rx, Echo) /\ UNCHANGED <<sent, since, pc>>
    BY <1>5 DEF writeByte, IInv, RxInv
  <2>2. /\ Len(rx') = Len(rx) + 1 /\ rx'[Len(rx) + 1] = Echo
        /\ \A i \in 1 .. Len(rx) : rx'[i] = rx[i]
    BY <1>0, <2>1, QueueSteps DEF Echo
  <2>3. \A i \in 1 .. Len(rx') : rx'[i] = Echo
    BY <1>0, <2>1, <2>2
  <2> QED BY <1>0, <2>1, <2>3 DEF RxInv
<1>6. \/ UNCHANGED <<rx, sent, since>> /\ (pc' # "write" \/ UNCHANGED pc)
      \/ Send /\ UNCHANGED pc
      \/ readByte \/ writeStarts \/ writeByte
  BY DEF Next, Box, Fall, Rise, Loop, Terminating, vars, dataVars, tick, resetRequested,
         readStarts, nothingToDo, readEnds, interrupted, writeEnds, givesUp
<1> QED BY <1>1, <1>2, <1>3, <1>4, <1>5, <1>6

(* What holds of the command that is being read, at its place i.           *)
Placed(i) ==
  /\ since < result[i] /\ result[i] + Len(result) + Len(rx) = sent + i
  /\ \A j \in i .. Len(result) : result[j] # Echo
  /\ \A j \in 1 .. Len(rx) : rx[j] # Echo

(* Every step keeps what is known of the command that is being read.       *)
LEMMA KeepsResult == ASSUME IInv, [Next]_vars PROVE ResultInv'
<1>0. /\ Len(rx) \in Nat /\ Len(result) \in Nat /\ Len(<<>>) = 0
      /\ \A i \in 1 .. Len(rx) : rx[i] \in Nat
      /\ \A i \in 1 .. Len(result) : result[i] \in Nat
      /\ rx \in Seq(Nat) /\ result \in Seq(Nat) /\ sent \in Nat /\ since \in Nat
  BY DEF IInv, TypeOK
<1>1. CASE UNCHANGED <<rx, result, sent, since>> /\ pc = "read"
  BY <1>1 DEF IInv, ResultInv
<1>2. CASE UNCHANGED <<rx, result, sent, since, pc, call>>
  BY <1>2 DEF IInv, ResultInv, Asking
<1>3. CASE Send /\ UNCHANGED <<pc, call>>
  <2>1. /\ rx' = Append(rx, sent + 1) /\ sent' = sent + 1 /\ UNCHANGED <<since, result>>
        /\ sent + 1 \in Nat /\ sent + 1 # Echo
    BY <1>0, <1>3 DEF Send, Echo
  <2>2. /\ Len(rx') = Len(rx) + 1 /\ rx'[Len(rx) + 1] = sent + 1
        /\ \A i \in 1 .. Len(rx) : rx'[i] = rx[i]
    BY <1>0, <2>1, QueueSteps
  <2>3. \A j \in 1 .. Len(rx') : j \in 1 .. Len(rx) \/ j = Len(rx) + 1
    BY <1>0, <2>2
  <2>4. ASSUME NEW i \in 1 .. Len(result), Placed(i) PROVE Placed(i)'
    <3>1. PICK v \in Nat : v = result[i]
      BY <1>0
    <3>2. v + Len(result) + (Len(rx) + 1) = (sent + 1) + i
      <4>1. v + Len(result) + Len(rx) = sent + i /\ i \in Nat
        BY <1>0, <2>4, <3>1 DEF Placed
      <4>2. PICK a \in Nat, b \in Nat, s \in Nat : a = Len(result) /\ b = Len(rx) /\ s = sent
        BY <1>0
      <4>3. v + a + b = s + i /\ i \in Nat
        BY <4>1, <4>2
      <4>4. v + a + (b + 1) = (s + 1) + i
        BY <4>3
      <4> QED BY <4>2, <4>4
    <3> QED BY <2>1, <2>2, <2>3, <2>4, <3>1, <3>2 DEF Placed
  <2> QED BY <1>3, <2>1, <2>4 DEF IInv, ResultInv, Asking, Placed
<1>4. CASE readStarts
  BY <1>0, <1>4 DEF readStarts, ResultInv
<1>5. CASE readByte
  <2>1. /\ rx # <<>> /\ rx' = Tail(rx) /\ result' = Append(result, Head(rx))
        /\ UNCHANGED <<sent, since, pc, call>> /\ pc \in {"read", "echo"}
    BY <1>5 DEF readByte
  <2>2. /\ Len(rx') = Len(rx) - 1 /\ Len(rx) >= 1 /\ Head(rx) = rx[1] /\ Head(rx) \in Nat
        /\ \A i \in 1 .. Len(rx') : rx'[i] = rx[i + 1]
    BY <1>0, <2>1, QueueSteps
  <2>3. /\ Len(result') = Len(result) + 1 /\ result'[Len(result) + 1] = rx[1]
        /\ \A i \in 1 .. Len(result) : result'[i] = result[i]
    BY <1>0, <2>1, <2>2, QueueSteps
  <2>4. CASE pc = "echo"
    BY <2>1, <2>4 DEF ResultInv, Asking
  <2>5. CASE pc = "read"
    <3>0. 1 \in 1 .. Len(rx) /\ \A j \in 1 .. Len(rx') : j + 1 \in 1 .. Len(rx)
      BY <1>0, <2>2
    <3>1. PICK m \in Nat : m = Len(result) + 1
      BY <1>0
    <3>2. \A i \in 1 .. Len(result') : i \in 1 .. Len(result) \/ i = m
      BY <1>0, <2>3, <3>1
    <3>3. ASSUME rx[1] # Echo PROVE Placed(m)'
      <4>1. /\ since < rx[1] /\ rx[1] + Len(rx) = sent + 1
            /\ \A j \in 1 .. Len(rx) : rx[j] # Echo
        BY <3>0, <3>3 DEF IInv, RxInv
      <4>2. PICK v \in Nat : v = rx[1]
        BY <2>2
      <4>3. v + (Len(result) + 1) + (Len(rx) - 1) = sent + m
        <5>1. v + Len(rx) = sent + 1
          BY <4>1, <4>2
        <5>2. PICK a \in Nat, b \in Nat, s \in Nat : a = Len(result) /\ b = Len(rx) /\ s = sent
          BY <1>0
        <5>3. v + b = s + 1 /\ m = a + 1
          BY <3>1, <5>1, <5>2
        <5>4. v + (a + 1) + (b - 1) = s + m
          BY <5>3
        <5> QED BY <5>2, <5>4
      <4>4. \A j \in m .. Len(result') : j = m
        BY <1>0, <2>3, <3>1
      <4>5. \A j \in 1 .. Len(rx') : rx'[j] # Echo
        BY <2>2, <3>0, <4>1
      <4>6. result'[m] = v
        BY <2>3, <3>1, <4>2
      <4> QED BY <2>1, <2>2, <2>3, <3>3, <4>1, <4>2, <4>3, <4>4, <4>5, <4>6 DEF Placed
    <3>4. ASSUME NEW i \in 1 .. Len(result), Placed(i) PROVE Placed(i)'
      <4>1. PICK v \in Nat : v = result[i]
        BY <1>0
      <4>2. v + (Len(result) + 1) + (Len(rx) - 1) = sent + i
        <5>1. v + Len(result) + Len(rx) = sent + i /\ i \in Nat
          BY <1>0, <3>4, <4>1 DEF Placed
        <5>2. PICK a \in Nat, b \in Nat, s \in Nat : a = Len(result) /\ b = Len(rx) /\ s = sent
          BY <1>0
        <5>3. v + a + b = s + i /\ i \in Nat
          BY <5>1, <5>2
        <5>4. v + (a + 1) + (b - 1) = s + i
          BY <5>3
        <5> QED BY <5>2, <5>4
      <4>3. \A j \in i .. Len(result') :
              (j \in i .. Len(result) /\ j \in 1 .. Len(result)) \/ j = m
        BY <1>0, <2>3, <3>1
      <4>4. result'[m] # Echo /\ \A j \in 1 .. Len(rx') : rx'[j] # Echo
        BY <2>2, <2>3, <3>0, <3>1, <3>4 DEF Placed
      <4>5. \A j \in i .. Len(result') : result'[j] # Echo
        BY <2>3, <3>4, <4>3, <4>4 DEF Placed
      <4> QED BY <2>1, <2>2, <2>3, <3>4, <4>1, <4>2, <4>4, <4>5 DEF Placed
    <3>5. \A i \in 1 .. Len(result) : result[i] # Echo => Placed(i)
      BY <2>5 DEF IInv, ResultInv, Placed
    <3>6. \A i \in 1 .. Len(result') : result'[i] # Echo => Placed(i)'
      BY <2>3, <3>1, <3>2, <3>3, <3>4, <3>5
    <3> QED BY <3>6 DEF ResultInv, Placed
  <2> QED BY <2>1, <2>4, <2>5
<1>6. CASE pc' # "read" /\ ~ Asking'
  BY <1>6 DEF ResultInv
<1>7. \/ UNCHANGED <<rx, result, sent, since>> /\ pc = "read"
      \/ UNCHANGED <<rx, result, sent, since, pc, call>>
      \/ Send /\ UNCHANGED <<pc, call>>
      \/ readStarts
      \/ readByte
      \/ pc' # "read" /\ ~ Asking'
  BY DEF Next, Box, Fall, Rise, Loop, Terminating, vars, dataVars, tick, resetRequested,
         nothingToDo, readEnds, interrupted, writeStarts, writeByte, writeEnds, givesUp, Asking
<1> QED BY <1>1, <1>2, <1>3, <1>4, <1>5, <1>6, <1>7

-----------------------------------------------------------------------------
LEMMA InitInv == ASSUME Init PROVE IInv
<1>1. TypeOK /\ since <= sent
  <2>1. rx \in Seq(Nat) /\ result \in Seq(Nat)
    BY DEF Init
  <2>2. line \in BOOLEAN /\ prevCARLineUp \in BOOLEAN /\ rstRequested \in BOOLEAN
    BY DEF Init
  <2>3. /\ left \in Nat /\ sent \in Nat /\ pulses \in Nat /\ resets \in Nat
        /\ since \in Nat /\ since <= sent
    BY DEF Init
  <2> QED BY <2>1, <2>2, <2>3 DEF Init, TypeOK
<1>2. LedgerInv
  BY DEF Init, LedgerInv, One
<1>3. RxInv /\ ResultInv
  BY DEF Init, RxInv, ResultInv, Asking
<1> QED BY <1>1, <1>2, <1>3 DEF IInv

LEMMA NextInv == ASSUME IInv, [Next]_vars PROVE IInv'
<1>1. TypeOK
  BY DEF IInv
<1> QED BY <1>1, KeepsTypes, KeepsLedger, KeepsRx, KeepsResult DEF IInv

(* The inductive invariant holds in every reachable state of the emulator. *)
THEOREM SeasonInvariance == Spec => []IInv
BY InitInv, NextInv, PTL DEF Spec

(* Every variable of Season keeps its type, whatever the box sends and     *)
(* however long the replies are.                                           *)
THEOREM SeasonTypeCorrect == Spec => []TypeOK
<1>1. IInv => TypeOK
  BY DEF IInv
<1> QED BY <1>1, SeasonInvariance, PTL

(* The client takes at most one reset for a pulse of the reset line, for   *)
(* every number of pulses and every moment at which tick samples the line. *)
THEOREM ResetOnceHolds == Spec => []ResetOnce
<1>1. IInv => ResetOnce
  BY DEF IInv, TypeOK, LedgerInv, One, ResetOnce
<1> QED BY <1>1, SeasonInvariance, PTL

(* What Season::read hands to the client as a command is a gapless run of  *)
(* bytes sent since the last answer, for every size of the buffer, with    *)
(* interrupted reads and replies of any length.                            *)
THEOREM FreshCommandHolds == Spec => []FreshCommand
<1>1. ASSUME IInv PROVE FreshCommand
  <2>0. /\ Len(rx) \in Nat /\ Len(result) \in Nat /\ sent \in Nat
        /\ \A i \in 1 .. Len(result) : result[i] \in Nat
    BY <1>1 DEF IInv, TypeOK
  <2> SUFFICES ASSUME Asking, NEW i \in 1 .. Len(result), result[i] # Echo
               PROVE  /\ since < result[i] /\ result[i] <= sent
                      /\ \A j \in i + 1 .. Len(result) : result[j] = result[i] + (j - i)
    BY DEF FreshCommand
  <2>1. \A k \in 1 .. Len(result) : result[k] # Echo => Placed(k)
    BY <1>1 DEF IInv, ResultInv, Placed
  <2>2. PICK v \in Nat, a \in Nat, b \in Nat, s \in Nat :
          v = result[i] /\ a = Len(result) /\ b = Len(rx) /\ s = sent
    BY <2>0
  <2>3. v + a + b = s + i /\ i \in Nat /\ i <= a
    BY <2>0, <2>1, <2>2 DEF Placed
  <2>4. v <= s
    BY <2>3
  <2>5. ASSUME NEW j \in i + 1 .. Len(result) PROVE result[j] = result[i] + (j - i)
    <3>1. j \in i .. Len(result) /\ j \in 1 .. Len(result) /\ j \in Nat /\ j >= i
      BY <2>0, <2>3
    <3>2. PICK w \in Nat : w = result[j]
      BY <2>0, <3>1
    <3>3. Placed(j)
      BY <2>1, <3>1 DEF Placed
    <3>4. w + a + b = s + j
      BY <2>2, <3>2, <3>3 DEF Placed
    <3>5. w = v + (j - i)
      BY <2>3, <3>1, <3>4
    <3> QED BY <2>2, <3>2, <3>5
  <2> QED BY <2>1, <2>2, <2>4, <2>5 DEF Placed
<1> QED BY <1>1, SeasonInvariance, PTL

-----------------------------------------------------------------------------
(* Once a read of an echo was interrupted, or a reply too long, that stays. *)
LEMMA QuietBefore == ASSUME IInv, [Next]_vars, quiet' PROVE quiet
<1>1. CASE UNCHANGED quiet
  BY <1>1
<1>2. CASE interrupted \/ writeStarts
  BY <1>2 DEF interrupted, writeStarts
<1>3. UNCHANGED quiet \/ interrupted \/ writeStarts
  BY DEF Next, Box, Send, Loop, Terminating, vars, dataVars, tick, resetRequested, readStarts,
         nothingToDo, readByte, readEnds, writeByte, writeEnds, givesUp
<1> QED BY <1>1, <1>2, <1>3

(* Until then every step keeps the echo where the read of it takes it.     *)
LEMMA KeepsEcho == ASSUME quiet', IInv, EchoInv, [Next]_vars PROVE EchoInv'
<1>0. /\ Len(rx) \in Nat /\ Len(result) \in Nat /\ Len(<<>>) = 0 /\ left \in Nat
      /\ rx \in Seq(Nat) /\ result \in Seq(Nat) /\ sent \in Nat
      /\ maxBufferLen \in Nat /\ MaxReply \in Nat
  BY SeasonAssumption DEF IInv, TypeOK
<1>1. CASE UNCHANGED <<rx, result, left, pc, call>>
  BY <1>1 DEF EchoInv, Asking
<1>2. CASE /\ UNCHANGED <<rx, result, left>>
           /\ pc \notin {"write", "echo", "gone"} /\ pc' \notin {"write", "echo"}
           /\ pc = "read" \/ ~ (pc' = "read" \/ Asking')
  BY <1>2 DEF EchoInv
<1>3. CASE pc' = "gone"
  BY <1>3 DEF EchoInv, Asking
<1>4. CASE Send /\ UNCHANGED <<pc, call>>
  <2>1. /\ rx' = Append(rx, sent + 1) /\ UNCHANGED <<result, left>> /\ pc # "write"
        /\ sent + 1 \in Nat /\ sent + 1 # Echo
    BY <1>0, <1>4 DEF Send, Echo
  <2>2. /\ Len(rx') = Len(rx) + 1 /\ rx'[Len(rx) + 1] = sent + 1
        /\ \A i \in 1 .. Len(rx) : rx'[i] = rx[i]
    BY <1>0, <2>1, QueueSteps
  <2>3. \A i \in 1 .. Len(rx') : i \in 1 .. Len(rx) \/ i = Len(rx) + 1
    BY <1>0, <2>2
  <2>4. \A i \in 1 .. Len(rx') : rx'[i] = Echo => i \in 1 .. Len(rx) /\ rx[i] = Echo
    BY <2>1, <2>2, <2>3
  <2> QED BY <1>4, <2>1, <2>4 DEF EchoInv, Asking
<1>5. CASE readStarts
  BY <1>0, <1>5 DEF readStarts, EchoInv, Asking
<1>6. CASE readByte
  <2>1. /\ rx # <<>> /\ rx' = Tail(rx) /\ result' = Append(result, Head(rx))
        /\ UNCHANGED <<left, pc, call>> /\ pc \in {"read", "echo"}
    BY <1>6 DEF readByte
  <2>2. /\ Len(rx') = Len(rx) - 1 /\ Len(rx) >= 1 /\ Head(rx) = rx[1] /\ Head(rx) \in Nat
        /\ \A i \in 1 .. Len(rx') : rx'[i] = rx[i + 1]
    BY <1>0, <2>1, QueueSteps
  <2>3. /\ Len(result') = Len(result) + 1 /\ result'[Len(result) + 1] = rx[1]
        /\ \A i \in 1 .. Len(result) : result'[i] = result[i]
    BY <1>0, <2>1, <2>2, QueueSteps
  <2>4. 1 \in 1 .. Len(rx) /\ \A i \in 1 .. Len(rx') : i \in Nat /\ i + 1 \in 1 .. Len(rx)
    BY <1>0, <2>2
  <2>5. CASE pc = "read"
    <3>1. \A i \in 1 .. Len(result') : i \in 1 .. Len(result) \/ i = Len(result) + 1
      BY <1>0, <2>3
    <3>2. \A i \in 1 .. Len(rx) : rx[i] # Echo
      BY <2>5 DEF EchoInv
    <3>3. \A i \in 1 .. Len(result) : result[i] # Echo
      BY <2>5 DEF EchoInv
    <3>4. \A i \in 1 .. Len(result') : result'[i] # Echo
      BY <2>3, <2>4, <3>1, <3>2, <3>3
    <3>5. \A i \in 1 .. Len(rx') : rx'[i] # Echo
      BY <2>2, <2>4, <3>2
    <3> QED BY <2>1, <2>5, <3>4, <3>5 DEF EchoInv
  <2>6. CASE pc = "echo"
    <3>1. ASSUME NEW i \in 1 .. Len(rx'), rx'[i] = Echo
          PROVE  Len(result') + i <= maxBufferLen
      <4>1. i \in Nat /\ i + 1 \in 1 .. Len(rx) /\ rx[i + 1] = Echo
        BY <2>2, <2>4, <3>1
      <4>2. Len(result) + (i + 1) <= maxBufferLen
        BY <2>6, <4>1 DEF EchoInv
      <4>3. PICK a \in Nat : a = Len(result)
        BY <1>0
      <4>4. (a + 1) + i <= maxBufferLen
        BY <1>0, <4>1, <4>2, <4>3
      <4> QED BY <2>3, <4>3, <4>4
    <3> QED BY <2>1, <2>6, <3>1 DEF EchoInv, Asking
  <2> QED BY <2>1, <2>5, <2>6
<1>7. CASE readEnds /\ pc = "echo"
  <2>1. /\ rx = <<>> \/ Len(result) >= maxBufferLen
        /\ pc' = "tick" /\ UNCHANGED <<rx, result, left, call>>
    BY <1>7 DEF readEnds, dataVars
  <2>2. ASSUME NEW i \in 1 .. Len(rx), rx[i] = Echo PROVE FALSE
    <3>1. Len(result) + i <= maxBufferLen
      BY <1>7, <2>2 DEF EchoInv
    <3>2. i \in Nat /\ i >= 1 /\ rx # <<>>
      BY <1>0
    <3> QED BY <1>0, <2>1, <3>1, <3>2
  <2> QED BY <2>1, <2>2 DEF EchoInv, Asking
<1>8. CASE writeStarts
  <2>1. /\ rx' = <<>> /\ left' \in 0 .. MaxReply /\ pc' = "write"
        /\ left' <= maxBufferLen
    BY <1>8 DEF writeStarts
  <2>2. Len(rx') = 0 /\ left' \in Nat /\ left' <= maxBufferLen
    BY <1>0, <2>1
  <2>3. PICK n \in Nat : n = left'
    BY <2>2
  <2>4. n <= maxBufferLen
    BY <2>2, <2>3
  <2>5. 0 + n <= maxBufferLen
    <3>1. maxBufferLen \in Nat
      BY <1>0
    <3> QED BY <2>4, <3>1
  <2>6. Len(rx') + left' <= maxBufferLen
    BY <2>2, <2>3, <2>5
  <2> QED BY <2>1, <2>6 DEF EchoInv, Asking
<1>9. CASE writeByte
  <2>1. /\ pc = "write" /\ left > 0 /\ rx' = Append(rx, Echo) /\ left' = left - 1
        /\ UNCHANGED pc
    BY <1>9 DEF writeByte
  <2>2. Len(rx') = Len(rx) + 1
    BY <1>0, <2>1, QueueSteps DEF Echo
  <2>3. PICK a \in Nat : a = Len(rx)
    BY <1>0
  <2>4. (a + 1) + (left - 1) <= maxBufferLen
    BY <1>0, <2>1, <2>3 DEF EchoInv
  <2> QED BY <2>1, <2>2, <2>3, <2>4 DEF EchoInv, Asking
<1>10. CASE writeEnds
  <2>1. /\ pc = "write" /\ left = 0 /\ pc' = "echo" /\ result' = <<>> /\ UNCHANGED rx
    BY <1>10 DEF writeEnds
  <2>2. Len(rx) <= maxBufferLen
    BY <1>0, <2>1 DEF EchoInv
  <2>3. \A i \in 1 .. Len(rx') : Len(result') + i <= maxBufferLen
    BY <1>0, <2>1, <2>2
  <2> QED BY <2>1, <2>3 DEF EchoInv, Asking
<1>11. \/ UNCHANGED <<rx, result, left, pc, call>>
       \/ /\ UNCHANGED <<rx, result, left>>
          /\ pc \notin {"write", "echo", "gone"} /\ pc' \notin {"write", "echo"}
          /\ pc = "read" \/ ~ (pc' = "read" \/ Asking')
       \/ pc' = "gone"
       \/ Send /\ UNCHANGED <<pc, call>>
       \/ readStarts \/ readByte
       \/ readEnds /\ pc = "echo"
       \/ writeStarts \/ writeByte \/ writeEnds
  <2>1. CASE tick \/ resetRequested \/ nothingToDo
    BY <2>1 DEF tick, resetRequested, nothingToDo, dataVars, Asking
  <2>2. CASE readEnds
    BY <2>2 DEF readEnds, dataVars
  <2>3. CASE givesUp
    BY <2>3 DEF givesUp
  <2>6. CASE interrupted
    BY <2>6 DEF interrupted, Asking
  <2>4. CASE Box
    BY <2>4 DEF Box, dataVars
  <2>5. CASE UNCHANGED vars
    BY <2>5 DEF vars, dataVars
  <2> QED BY <2>1, <2>2, <2>3, <2>4, <2>5, <2>6 DEF Next, Loop, Terminating
<1> QED
  BY <1>1, <1>2, <1>3, <1>4, <1>5, <1>6, <1>7, <1>8, <1>9, <1>10, <1>11

(* No byte that Season wrote itself is taken for a command of the box, up  *)
(* to the first read of an echo that a signal interrupts, and the first    *)
(* reply that is longer than the buffer of a read.                         *)
THEOREM NoEchoHolds == Spec => []NoEcho
<1>1. Init => (quiet => EchoInv)
  BY DEF Init, EchoInv, Asking
<1>2. IInv /\ (quiet => EchoInv) /\ [Next]_vars => (quiet => EchoInv)'
  BY QuietBefore, KeepsEcho
<1>3. (quiet => EchoInv) => NoEcho
  BY DEF EchoInv, NoEcho
<1> QED BY <1>1, <1>2, <1>3, SeasonInvariance, PTL DEF Spec

-----------------------------------------------------------------------------
(* The refinement.                                                         *)

RInv == IInv /\ (quiet => EchoInv)

(* A quiet command is a run of bytes that the box sent since the last      *)
(* answer.                                                                 *)
LEMMA QuietCommand ==
  ASSUME RInv, quiet, pc = "read" \/ Asking
  PROVE  \A i \in 1 .. Len(result) :
           /\ result[i] \in Nat /\ since < result[i] /\ result[i] <= sent
           /\ result[i] = result[1] + (i - 1)
<1>1. result \in Seq(Nat) /\ Len(result) \in Nat /\ since \in Nat /\ sent \in Nat /\ Len(rx) \in Nat
  BY DEF RInv, IInv, TypeOK
<1>2. ASSUME NEW i \in 1 .. Len(result)
      PROVE  result[i] \in Nat /\ since < result[i] /\ result[i] + Len(result) + Len(rx) = sent + i
  <2>1. result[i] \in Nat /\ result[i] # Echo
    BY <1>1, <1>2 DEF RInv, EchoInv
  <2> QED
    BY <1>2, <2>1 DEF RInv, IInv, ResultInv
<1>3. ASSUME NEW i \in 1 .. Len(result)
      PROVE  result[i] <= sent /\ result[i] = result[1] + (i - 1)
  <2>1. 1 \in 1 .. Len(result) /\ i <= Len(result) /\ i \in Nat
    BY <1>1
  <2>2. PICK v \in Nat, w \in Nat, a \in Nat, b \in Nat, s \in Nat :
          v = result[1] /\ w = result[i] /\ a = Len(result) /\ b = Len(rx) /\ s = sent
    BY <1>1, <1>2, <2>1
  <2>3. v + a + b = s + 1
    BY <1>2, <2>1, <2>2
  <2>4. w + a + b = s + i /\ i <= a
    BY <1>2, <2>1, <2>2
  <2>5. w <= s /\ w = v + (i - 1)
    BY <2>1, <2>3, <2>4
  <2> QED
    BY <2>2, <2>5
<1> QED
  BY <1>2, <1>3

(* What is done with is among what the box sent. *)
Done == IF Asking /\ result # <<>> THEN result[Len(result)] ELSE since

LEMMA DoneIsSent ==
  ASSUME RInv, quiet
  PROVE  Done \in Nat /\ Done <= sent /\ since \in Nat /\ sent \in Nat
<1>1. since \in Nat /\ sent \in Nat /\ since <= sent
  BY DEF RInv, IInv, TypeOK
<1>2. CASE Asking /\ result # <<>>
  <2>1. result \in Seq(Nat)
    BY DEF RInv, IInv, TypeOK
  <2>2. Len(result) \in 1 .. Len(result)
    BY <1>2, <2>1
  <2> QED
    BY <1>1, <1>2, <2>2, QuietCommand DEF Done
<1>3. CASE ~ (Asking /\ result # <<>>)
  BY <1>1, <1>3 DEF Done
<1> QED
  BY <1>2, <1>3

-----------------------------------------------------------------------------
(* A step of the box is one of CardEmulator's.                             *)
LEMMA BoxRefines ==
  ASSUME RInv, Promised, Promised', Box
  PROVE  Promise!Next \/ UNCHANGED Promise!vars
<1>1. CASE Fall /\ UNCHANGED <<prevCARLineUp, rstRequested, resets, dataVars, pc, call>>
  BY <1>1 DEF Fall, dataVars, Promise!vars, Asking, Promised
<1>2. CASE Rise /\ UNCHANGED <<prevCARLineUp, rstRequested, resets, dataVars, pc, call>>
  <2>1. Promise!pulse
    BY <1>2 DEF Rise, dataVars, Promise!pulse, Asking, Promised
  <2> QED BY <2>1 DEF Promise!Next
<1>3. CASE Send /\ UNCHANGED <<lineVars, pc, call>>
  <2>1. Done \in Nat /\ Done <= sent /\ sent \in Nat
    BY DoneIsSent DEF Promised
  <2>2. sent' = sent + 1 /\ UNCHANGED <<result, since, pulses, resets, pc, call>>
    BY <1>3 DEF Send, lineVars
  <2>3. sent' >= sent /\ Done \in Done .. sent
    BY <2>1, <2>2
  <2>4. Promise!send
    BY <2>2, <2>3 DEF Promise!send, Done, Asking, Promised
  <2> QED BY <2>4 DEF Promise!Next
<1> QED
  BY <1>1, <1>2, <1>3 DEF Box

(* Nor does the client see anything of a step outside the state "server".  *)
LEMMA InnerStutters ==
  ASSUME Promised, Promised', UNCHANGED <<sent, pulses, resets, since>>,
         pc # "server", pc' # "server"
  PROVE  UNCHANGED Promise!vars
BY DEF Promise!vars, Asking, Promised

(* The end of a read is CardEmulator's read.                               *)
LEMMA ReadRefines ==
  ASSUME RInv, Promised, Promised', pc = "read", pc' = "server",
         UNCHANGED <<result, sent, since, pulses, resets, call>>
  PROVE  Promise!read
<1>1. /\ result \in Seq(Nat) /\ Len(result) \in Nat /\ since \in Nat /\ sent \in Nat
      /\ since <= sent
  BY DEF RInv, IInv, TypeOK
<1>2. CASE Asking' /\ result # <<>>
  <2>1. /\ 1 \in 1 .. Len(result) /\ Len(result) \in 1 .. Len(result) /\ Len(result) # 0
    BY <1>1, <1>2
  <2>2. PICK v \in Nat, n \in Nat : v = result[1] /\ n = Len(result)
    BY <1>1, <2>1
  <2>3. /\ since < v /\ v + (n - 1) <= sent /\ result[n] = v + (n - 1) /\ n >= 1
        /\ \A i \in 1 .. n : result[i] = v + (i - 1)
    BY <1>1, <2>1, <2>2, QuietCommand DEF Promised
  <2>4. /\ v - 1 \in since .. sent /\ n \in 0 .. sent - (v - 1) /\ n # 0
        /\ result[n] = (v - 1) + n
        /\ \A i \in 1 .. n : result[i] = (v - 1) + i
    BY <1>1, <2>2, <2>3
  <2>5. result = [i \in 1 .. n |-> (v - 1) + i]
    <3>1. result = [i \in 1 .. Len(result) |-> result[i]]
      BY <1>1
    <3> QED BY <2>2, <2>4, <3>1
  <2>6. result = Promise!Run(v - 1, n)
    BY <2>5 DEF Promise!Run
  <2> QED
    BY <1>2, <2>2, <2>4, <2>6 DEF Promise!read, Promised, Asking
<1>3. CASE ~ (Asking' /\ result # <<>>)
  <2>1. since \in since .. sent /\ 0 \in 0 .. sent - since
    BY <1>1
  <2>2. Promise!Run(since, 0) = <<>>
    <3>1. 1 .. 0 = {}
      OBVIOUS
    <3> QED BY <3>1 DEF Promise!Run
  <2> QED
    BY <1>3, <2>1, <2>2 DEF Promise!read, Promised, Asking
<1> QED
  BY <1>2, <1>3

LEMMA ResetRefines ==
  ASSUME RInv, Promised, Promised', resetRequested
  PROVE  Promise!resetRequested
<1>1. resets < pulses
  BY DEF resetRequested, RInv, IInv, LedgerInv, TypeOK, One
<1>2. /\ pc = "handle" /\ pc' = "server" /\ call' = "reset" /\ resets' = resets + 1
      /\ UNCHANGED <<pulses, sent, since, result>>
  BY DEF resetRequested, dataVars
<1> QED
  BY <1>1, <1>2 DEF Promise!resetRequested, Asking, Promised

LEMMA WriteRefines ==
  ASSUME RInv, Promised, Promised', writeStarts
  PROVE  Promise!write
<1>1. Done \in Nat /\ Done <= sent /\ sent \in Nat
  BY DoneIsSent DEF Promised
<1>2. /\ pc = "server" /\ pc' = "write" /\ since' = sent
      /\ UNCHANGED <<result, sent, pulses, resets, call>>
  BY DEF writeStarts, lineVars
<1>3. sent' >= sent /\ since' \in Done .. sent
  BY <1>1, <1>2
<1> QED
  BY <1>2, <1>3 DEF Promise!write, Done, Asking, Promised

(* Every step is one of CardEmulator's, or none of its variables moves.    *)
LEMMA SeasonRefines ==
  ASSUME RInv, [Next]_vars
  PROVE  [Promise!Next]_(Promise!vars)
<1> SUFFICES Promise!Next \/ UNCHANGED Promise!vars
  OBVIOUS
<1>1. CASE ~ Promised'
  BY <1>1 DEF Promise!Next, Promise!leave
<1>2. CASE Promised'
  <2>1. quiet /\ pc' # "gone"
    BY <1>2, QuietBefore DEF RInv, Promised
  <2>2. CASE pc = "gone"
    <3>1. Box \/ UNCHANGED vars
      BY <2>1, <2>2 DEF Next, Loop, Terminating, tick, resetRequested, readStarts, nothingToDo,
           readByte, readEnds, interrupted, writeStarts, writeByte, writeEnds, givesUp
    <3> QED BY <2>1, <2>2, <3>1 DEF Box, vars
  <2>3. CASE pc # "gone"
    <3>1. Promised
      BY <2>1, <2>3 DEF Promised
    <3>2. CASE tick \/ nothingToDo \/ readStarts \/ readByte \/ writeByte \/ writeEnds
      <4>1. UNCHANGED <<sent, pulses, resets, since>> /\ pc # "server" /\ pc' # "server"
        BY <3>2 DEF tick, nothingToDo, readStarts, readByte, writeByte, writeEnds, lineVars, dataVars
      <4> QED BY <1>2, <3>1, <4>1, InnerStutters
    <3>3. CASE readEnds \/ interrupted
      <4>1. /\ UNCHANGED <<result, sent, since, pulses, resets, call>>
            /\ \/ pc = "read" /\ pc' = "server"
               \/ pc # "server" /\ pc' # "server"
        BY <3>3 DEF readEnds, interrupted, lineVars, dataVars
      <4> QED BY <1>2, <3>1, <4>1, InnerStutters, ReadRefines DEF Promise!Next
    <3>4. CASE UNCHANGED vars
      BY <3>4 DEF vars, lineVars, dataVars, Promise!vars, Asking, Promised
    <3>5. CASE Box \/ resetRequested \/ writeStarts
      BY <1>2, <3>1, <3>5, BoxRefines, ResetRefines, WriteRefines DEF Promise!Next
    <3>6. ~ givesUp
      BY <2>1 DEF givesUp
    <3> QED
      BY <3>2, <3>3, <3>4, <3>5, <3>6 DEF Next, Loop, Terminating
  <2> QED BY <2>2, <2>3
<1> QED BY <1>1, <1>2

(* Season implements CardEmulator for every buffer, every reply and every  *)
(* box: a reset for a pulse, commands without a gap and without a byte     *)
(* taken twice, up to the first echo whose read a signal interrupts, and   *)
(* the first reply that is longer than a read.                             *)
THEOREM SeasonIsCardEmulator == Spec => IsCardEmulator
<1>1. Init => Promise!Init
  BY DEF Init, Promise!Init, Promised, Asking
<1>2. Init => (quiet => EchoInv)
  BY DEF Init, EchoInv, Asking
<1>3. IInv /\ (quiet => EchoInv) /\ [Next]_vars => (quiet => EchoInv)'
  BY QuietBefore, KeepsEcho
<1>4. IInv /\ (quiet => EchoInv) /\ [Next]_vars => [Promise!Next]_(Promise!vars)
  BY SeasonRefines DEF RInv
<1> QED
  BY <1>1, <1>2, <1>3, <1>4, SeasonInvariance, PTL DEF Spec, IsCardEmulator, Promise!Spec
=============================================================================
