---------------------------- MODULE PhoenixProofs ----------------------------
(***************************************************************************)
(* What Phoenix reads, for every buffer, every length of commands and      *)
(* answers, every number of commands and every pace of the card.           *)
(***************************************************************************)
EXTENDS Phoenix, SequenceTheorems, TLAPS

(* All that the card has to say from the flush on. *)
Reply == late \o Answer(asked, length)

(* What was read, what is in the port and what the card has still to send  *)
(* are that, in this order; while a command is written or the card is      *)
(* reset, what is left of earlier answers is on its way and nothing was    *)
(* read yet.                                                               *)
FlowInv ==
  /\ pc = "open" => asked = 0 /\ late = <<>> /\ toSend \in OnItsWay
  /\ pc = "flushed" => asked = 0 /\ late = <<>> /\ rx \o toSend \in OnItsWay
  /\ pc = "low" => asked = 0 /\ rx = late /\ toSend = <<>>
  /\ asked = 0 => late \in OnItsWay
  /\ pc = "write" => asked # 0 /\ rx \o toSend = late
  /\ pc = "read" => result \o (rx \o toSend) = Reply

(* While no read ended too early nothing of an earlier answer is left, and *)
(* what was read is the answer.                                            *)
PromptInv ==
  prompt => /\ late = <<>>
            /\ pc = "idle" => rx = <<>> /\ toSend = <<>> /\ result = Answer(asked, length)

IInv ==
  /\ TypeOK /\ length \in 0 .. MaxAnswer
  /\ FlowInv /\ PromptInv /\ FreshReply /\ OwnAtr

-----------------------------------------------------------------------------
(* An answer is a sequence of bytes, with its length.                      *)
LEMMA AnswerType ==
  ASSUME NEW n \in Nat, NEW len \in Nat
  PROVE  /\ Answer(n, len) \in Seq(Byte)
         /\ Len(Answer(n, len)) = len
         /\ \A i \in 1 .. len : Answer(n, len)[i] = [of |-> n, at |-> i]
BY DEF Answer, Byte

(* IsPrefix, element by element. *)
LEMMA PrefixElements ==
  ASSUME NEW s \in Seq(Byte), NEW t \in Seq(Byte),
         Len(s) <= Len(t), \A i \in 1 .. Len(s) : s[i] = t[i]
  PROVE  IsPrefix(s, t)
<1>1. \A i \in 1 .. Len(s) : s[i] \in Byte /\ t[i] \in Byte
  BY ElementOfSeq
<1>2. SubSeq(s, 1, Len(s)) = SubSeq(t, 1, Len(s))
  BY <1>1
<1> QED
  BY <1>2 DEF IsPrefix

(* A sequence begins whatever is made by appending to it.                  *)
LEMMA PrefixOfConcat ==
  ASSUME NEW s \in Seq(Byte), NEW r \in Seq(Byte)
  PROVE  IsPrefix(s, s \o r)
<1>1. s \o r \in Seq(Byte) /\ Len(s \o r) = Len(s) + Len(r)
  BY ConcatProperties
<1>2. \A i \in 1 .. Len(s) : s[i] = (s \o r)[i]
  BY ConcatProperties
<1>3. Len(s) <= Len(s \o r)
  BY <1>1
<1> QED
  BY <1>1, <1>2, <1>3, PrefixElements

(* Concatenation, with the set of elements fixed for the provers.          *)
LEMMA Associative ==
  \A s, t, u \in Seq(Byte) : (s \o t) \o u = s \o (t \o u)
BY ConcatAssociative

(* A byte that moves from one queue to the next stays in its place. *)
LEMMA MoveByte ==
  ASSUME NEW s \in Seq(Byte), NEW t \in Seq(Byte), t # <<>>
  PROVE  Append(s, Head(t)) \o Tail(t) = s \o t
<1>1. /\ Append(s, Head(t)) \in Seq(Byte) /\ Tail(t) \in Seq(Byte)
      /\ Len(Append(s, Head(t)) \o Tail(t)) = Len(s \o t)
  OBVIOUS
<1>2. \A i \in 1 .. Len(s \o t) : (Append(s, Head(t)) \o Tail(t))[i] = (s \o t)[i]
  OBVIOUS
<1> QED
  BY <1>1, <1>2, SeqEqual

(* Nor does what is behind it. *)
LEMMA ReadByte ==
  ASSUME NEW s \in Seq(Byte), NEW t \in Seq(Byte), t # <<>>, NEW u \in Seq(Byte)
  PROVE  Append(s, Head(t)) \o (Tail(t) \o u) = s \o (t \o u)
<1>1. Append(s, Head(t)) \in Seq(Byte) /\ Tail(t) \in Seq(Byte)
  OBVIOUS
<1>2. (Append(s, Head(t)) \o Tail(t)) \o u = Append(s, Head(t)) \o (Tail(t) \o u)
  <2>1. PICK a \in Seq(Byte), r \in Seq(Byte) : a = Append(s, Head(t)) /\ r = Tail(t)
    BY <1>1
  <2>2. (a \o r) \o u = a \o (r \o u)
    BY Associative, SMTT(30)
  <2> QED BY <2>1, <2>2
<1>3. (s \o t) \o u = s \o (t \o u)
  BY Associative
<1> QED
  BY <1>2, <1>3, MoveByte

-----------------------------------------------------------------------------
(* The variables are well typed at the start and stay so.                  *)
LEMMA TypeNext ==
  ASSUME TypeOK, [Next \/ Terminating]_vars
  PROVE  TypeOK'
<1> USE PhoenixAssumption DEF TypeOK
<1>1. ASSUME Send PROVE TypeOK'
  BY <1>1 DEF Send
<1>2. CASE openFails \/ fail
  BY <1>2 DEF openFails, fail, cardVars
<1>3. CASE flush \/ resetLow
  <2>1. CASE flush
    BY <2>1 DEF flush
  <2>2. CASE resetLow
    BY <2>2 DEF resetLow
  <2> QED
    BY <1>3, <2>1, <2>2
<1>4. CASE resetHigh
  BY <1>4, AnswerType DEF resetHigh
<1>5. CASE writeStarts
  BY <1>5 DEF writeStarts
<1>6. CASE writeByte
  BY <1>6 DEF writeByte, cardVars
<1>7. CASE writeEnds
  BY <1>7, AnswerType DEF writeEnds
<1>8. CASE readByte
  BY <1>8 DEF readByte
<1>9. CASE readEnds \/ interrupted
  BY <1>9 DEF readEnds, interrupted, ReadOver, cardVars
<1>10. CASE Terminating \/ UNCHANGED vars
  BY <1>10 DEF Terminating, vars, cardVars
<1> QED
  BY <1>1, <1>2, <1>3, <1>4, <1>5, <1>6, <1>7, <1>8, <1>9, <1>10 DEF Next

(* What may be on its way is a sequence of bytes.                          *)
LEMMA OnItsWayType == \A q \in OnItsWay : q \in Seq(Byte)
<1>1. Straggler \in Byte
  BY PhoenixAssumption DEF Straggler, Byte
<1>2. <<Straggler>> \in Seq(Byte) /\ <<>> \in Seq(Byte)
  BY <1>1, EmptySeq
<1> QED
  BY <1>2 DEF OnItsWay

(* What has come in of what may be on its way is one of these, too.        *)
LEMMA OnItsWayPart ==
  ASSUME NEW q \in Seq(Byte), NEW r \in Seq(Byte), q \o r \in OnItsWay
  PROVE  q \in OnItsWay
<1>1. Len(q \o r) = Len(q) + Len(r)
  BY ConcatProperties
<1>2. CASE q = <<>>
  BY <1>2 DEF OnItsWay
<1>3. CASE q # <<>>
  <2>1. Len(q) >= 1
    BY <1>3
  <2>2. q \o r = <<Straggler>>
    BY <1>1, <2>1 DEF OnItsWay
  <2>3. <<Straggler>> \in Seq(Byte) /\ Len(<<Straggler>>) = 1 /\ <<Straggler>>[1] = Straggler
    BY OnItsWayType DEF OnItsWay
  <2>4. Len(q) = 1 /\ q[1] = Straggler
    <3>1. Len(q) \in Nat /\ Len(r) \in Nat /\ Len(q) + Len(r) = 1
      BY <1>1, <2>2, <2>3
    <3>2. Len(q) = 1
      <4>1. \A m, n \in Nat : m + n = 1 /\ m >= 1 => m = 1
        OBVIOUS
      <4> QED BY <2>1, <3>1, <4>1
    <3>3. \A i \in 1 .. Len(q) : (q \o r)[i] = q[i]
      BY ConcatProperties
    <3> QED BY <2>2, <2>3, <3>2, <3>3
  <2>5. q = <<Straggler>>
    BY <2>3, <2>4, SeqEqual
  <2> QED
    BY <2>5 DEF OnItsWay
<1> QED
  BY <1>2, <1>3

(* An ATR that is read short is the beginning of every longer one.         *)
LEMMA AtrFromFlow ==
  ASSUME TypeOK, FlowInv, length \in 0 .. MaxAnswer, pc = "read", asked = 0
  PROVE  IsPrefix(result, late \o Answer(0, MaxAnswer)) /\ late \in OnItsWay
<1>1. /\ result \in Seq(Byte) /\ rx \o toSend \in Seq(Byte) /\ late \in Seq(Byte)
      /\ length \in Nat /\ length <= MaxAnswer /\ MaxAnswer \in Nat
  BY PhoenixAssumption DEF TypeOK
<1>2. /\ Answer(0, length) \in Seq(Byte) /\ Len(Answer(0, length)) = length
      /\ Answer(0, MaxAnswer) \in Seq(Byte) /\ Len(Answer(0, MaxAnswer)) = MaxAnswer
      /\ \A i \in 1 .. length : Answer(0, length)[i] = Answer(0, MaxAnswer)[i]
  <2>1. \A len \in Nat :
          /\ Answer(0, len) \in Seq(Byte) /\ Len(Answer(0, len)) = len
          /\ \A i \in 1 .. len : Answer(0, len)[i] = [of |-> 0, at |-> i]
    BY AnswerType
  <2>2. \A i \in 1 .. length : i \in 1 .. MaxAnswer
    BY <1>1
  <2> QED
    BY <1>1, <2>1, <2>2
<1> DEFINE short == late \o Answer(0, length)
           long == late \o Answer(0, MaxAnswer)
<1>3. /\ short \in Seq(Byte) /\ long \in Seq(Byte)
      /\ Len(short) <= Len(long)
      /\ \A i \in 1 .. Len(short) : short[i] = long[i]
  BY <1>1, <1>2, ConcatProperties
<1>4. result \o (rx \o toSend) = short
  BY DEF FlowInv, Reply
<1> HIDE DEF short, long
<1>5. Len(result) <= Len(short) /\ \A i \in 1 .. Len(result) : result[i] = short[i]
  BY <1>1, <1>3, <1>4, ConcatProperties
<1>6. Len(result) <= Len(long) /\ \A i \in 1 .. Len(result) : result[i] = long[i]
  BY <1>1, <1>3, <1>5
<1>7. IsPrefix(result, long)
  BY <1>1, <1>3, <1>6, PrefixElements
<1> QED
  BY <1>7 DEF FlowInv, long

(* The invariant holds of a reader that is about to be opened ...          *)
LEMMA InvInit == Init => IInv
<1> SUFFICES ASSUME Init PROVE IInv
  OBVIOUS
<1>1. rx \in Seq(Byte) /\ toSend \in Seq(Byte) /\ <<>> \in Seq(Byte)
  <2>1. Stale \in Byte
    BY DEF Stale, Byte
  <2>2. <<Stale>> \in Seq(Byte) /\ <<>> \in Seq(Byte)
    BY <2>1, EmptySeq
  <2>3. (rx = <<>> \/ rx = <<Stale>>) /\ toSend \in OnItsWay
    BY DEF Init
  <2> QED
    BY <2>2, <2>3, OnItsWayType
<1>2. TypeOK /\ length \in 0 .. MaxAnswer
  BY <1>1, PhoenixAssumption DEF Init, TypeOK
<1>3. FlowInv /\ PromptInv /\ FreshReply
  BY DEF Init, FlowInv, PromptInv, FreshReply, OnItsWay
<1>4. IsPrefix(<<>>, <<>> \o Answer(0, MaxAnswer))
  <2>1. Answer(0, MaxAnswer) \in Seq(Byte)
    BY PhoenixAssumption, AnswerType
  <2>2. Len(<<>>) = 0 /\ <<>> \o Answer(0, MaxAnswer) = Answer(0, MaxAnswer)
    BY <2>1, ConcatEmptySeq
  <2> QED
    BY <1>1, <2>1, <2>2, PrefixOfConcat
<1> QED
  BY <1>2, <1>3, <1>4 DEF Init, IInv, OwnAtr, OnItsWay

-----------------------------------------------------------------------------
(* Each step keeps the parts of IInv that it can disturb.                  *)
LEMMA FlowNext ==
  ASSUME IInv, [Next \/ Terminating]_vars, TypeOK'
  PROVE  FlowInv'
<1> USE DEF IInv
<1>1. CASE Send
  <2>1. rx' \o toSend' = rx \o toSend
    BY <1>1, MoveByte DEF Send, TypeOK
  <2>2. toSend \in OnItsWay => toSend' \in OnItsWay
    <3>1. Tail(<<Straggler>>) = <<>> /\ Tail(toSend) = toSend'
      BY <1>1 DEF Send
    <3> QED BY <1>1, <3>1 DEF Send, OnItsWay
  <2> QED
    BY <1>1, <2>1, <2>2 DEF Send, FlowInv, Reply
<1>2. CASE openFails \/ fail
  BY <1>2 DEF openFails, fail, cardVars, FlowInv, Reply
<1>3. CASE flush
  <2>1. /\ pc' = "flushed" /\ asked' = 0 /\ late' = <<>> /\ rx' = <<>>
        /\ toSend' = toSend /\ toSend \in OnItsWay /\ late' \in OnItsWay
    BY <1>3 DEF flush, FlowInv, OnItsWay
  <2>2. rx' \o toSend' = toSend
    BY <2>1, OnItsWayType, ConcatEmptySeq
  <2> QED
    BY <2>1, <2>2 DEF FlowInv
<1>11. CASE resetLow
  <2>1. rx \in OnItsWay
    BY <1>11, OnItsWayPart DEF resetLow, FlowInv, TypeOK
  <2> QED
    BY <1>11, <2>1 DEF resetLow, FlowInv
<1>4. CASE resetHigh
  <2>1. /\ rx' = late' /\ late' \in OnItsWay /\ result' = <<>> /\ pc' = "read"
        /\ toSend' = Answer(asked', length') /\ asked' = 0
    BY <1>4 DEF resetHigh, FlowInv
  <2>2. late' \o toSend' \in Seq(Byte)
    BY <2>1, OnItsWayType, ConcatProperties DEF TypeOK
  <2>3. result' \o (rx' \o toSend') = Reply'
    BY <2>1, <2>2, ConcatEmptySeq DEF Reply
  <2> QED
    BY <2>1, <2>3 DEF FlowInv
<1>5. CASE writeStarts
  <2>1. rx' \o toSend' = late' /\ asked' # 0
    BY <1>5, ConcatEmptySeq DEF writeStarts, TypeOK
  <2> QED
    BY <1>5, <2>1 DEF writeStarts, FlowInv
<1>6. CASE writeByte
  BY <1>6 DEF writeByte, cardVars, FlowInv
<1>7. CASE writeEnds
  <2>1. /\ rx \in Seq(Byte) /\ toSend \in Seq(Byte)
        /\ Answer(asked, length) \in Seq(Byte) /\ rx \o toSend = late
    BY <1>7, AnswerType DEF writeEnds, TypeOK, FlowInv
  <2>2. /\ rx' = rx /\ toSend' = toSend \o Answer(asked, length) /\ result' = <<>>
        /\ pc' = "read" /\ Reply' = Reply /\ asked' = asked /\ late' = late
    BY <1>7 DEF writeEnds, Reply, Answer
  <2>3. rx \o (toSend \o Answer(asked, length)) = Reply
    <3>1. rx \o (toSend \o Answer(asked, length)) = (rx \o toSend) \o Answer(asked, length)
      BY <2>1, Associative
    <3> QED
      BY <2>1, <3>1 DEF Reply
  <2>4. rx' \o toSend' = Reply' /\ Reply' \in Seq(Byte)
    BY <2>1, <2>2, <2>3, ConcatProperties
  <2>5. result' \o (rx' \o toSend') = Reply'
    BY <2>2, <2>4, ConcatEmptySeq
  <2> QED
    BY <1>7, <2>2, <2>5 DEF FlowInv
<1>8. CASE readByte
  <2>1. /\ result \in Seq(Byte) /\ rx \in Seq(Byte) /\ toSend \in Seq(Byte) /\ rx # <<>>
        /\ result' = Append(result, Head(rx)) /\ rx' = Tail(rx) /\ toSend' = toSend
    BY <1>8 DEF readByte, TypeOK
  <2>2. result' \o (rx' \o toSend') = result \o (rx \o toSend)
    BY <2>1, ReadByte
  <2> QED
    BY <1>8, <2>2 DEF readByte, FlowInv, Reply
<1>9. CASE readEnds \/ interrupted
  BY <1>9 DEF readEnds, interrupted, ReadOver, cardVars, FlowInv
<1>10. CASE Terminating \/ UNCHANGED vars
  BY <1>10 DEF Terminating, vars, cardVars, FlowInv, Reply
<1> QED
  BY <1>1, <1>2, <1>3, <1>4, <1>5, <1>6, <1>7, <1>8, <1>9, <1>10, <1>11 DEF Next

(* A read that ends when the card is done took the answer and no more.     *)
LEMMA PromptNext ==
  ASSUME IInv, [Next \/ Terminating]_vars
  PROVE  PromptInv'
<1> USE DEF IInv
<1>1. CASE Send
  BY <1>1 DEF Send, PromptInv
<1>2. CASE openFails \/ fail \/ flush \/ resetLow \/ resetHigh
  BY <1>2 DEF openFails, fail, flush, resetLow, resetHigh, cardVars, PromptInv
<1>3. CASE writeStarts
  BY <1>3 DEF writeStarts, PromptInv
<1>4. CASE writeByte \/ writeEnds \/ readByte
  BY <1>4 DEF writeByte, writeEnds, readByte, cardVars, PromptInv
<1>5. CASE readEnds \/ interrupted
  <2>1. /\ pc = "read" /\ UNCHANGED <<rx, toSend, result, asked, length, late>>
        /\ prompt' => prompt /\ rx = <<>> /\ toSend = <<>>
    BY <1>5 DEF readEnds, interrupted, ReadOver, cardVars
  <2>2. ASSUME prompt' PROVE result = Answer(asked, length)
    <3>1. result \o (<<>> \o <<>>) = <<>> \o Answer(asked, length)
      BY <2>1, <2>2 DEF FlowInv, PromptInv, Reply
    <3>2. result \in Seq(Byte) /\ Answer(asked, length) \in Seq(Byte)
      BY AnswerType DEF TypeOK
    <3> QED
      BY <3>1, <3>2, EmptySeq, ConcatEmptySeq
  <2> QED
    BY <2>1, <2>2 DEF PromptInv
<1>6. CASE Terminating \/ UNCHANGED vars
  BY <1>6 DEF Terminating, vars, cardVars, PromptInv
<1> QED
  BY <1>1, <1>2, <1>3, <1>4, <1>5, <1>6 DEF Next

(* A running read is fresh by FlowInv; an ended one does not change.       *)
LEMMA FreshNext ==
  ASSUME IInv, [Next \/ Terminating]_vars, TypeOK', FlowInv'
  PROVE  FreshReply'
<1>1. CASE pc' = "read"
  <2>1. result' \in Seq(Byte) /\ rx' \o toSend' \in Seq(Byte)
    BY DEF TypeOK
  <2>2. result' \o (rx' \o toSend') = late' \o Answer(asked', length')
    BY <1>1 DEF FlowInv, Reply, Answer
  <2> QED
    BY <2>1, <2>2, PrefixOfConcat DEF FreshReply, Answer
<1>2. CASE pc' = "idle" /\ pc \in {"read", "idle"}
  <2>1. UNCHANGED <<result, late, asked, length>>
    BY <1>2 DEF Next, Send, openFails, fail, flush, resetLow, resetHigh, writeStarts, writeByte,
             writeEnds, readByte, readEnds, interrupted, ReadOver, Terminating, vars, cardVars
  <2> QED
    BY <1>2, <2>1 DEF IInv, FreshReply
<1>3. pc' = "idle" => pc \in {"read", "idle"}
  BY DEF Next, Send, openFails, fail, flush, resetLow, resetHigh, writeStarts, writeByte,
         writeEnds, readByte, readEnds, interrupted, ReadOver, Terminating, vars, cardVars
<1> QED
  BY <1>1, <1>2, <1>3 DEF FreshReply

(* Only the read after the reset writes the ATR.                           *)
LEMMA AtrNext ==
  ASSUME IInv, [Next \/ Terminating]_vars
  PROVE  OwnAtr'
<1>1. CASE (readEnds \/ interrupted) /\ asked = 0
  BY <1>1, AtrFromFlow DEF readEnds, interrupted, ReadOver, IInv, OwnAtr, Answer
<1>2. CASE ~ ((readEnds \/ interrupted) /\ asked = 0)
  <2>1. atr' = atr
    BY <1>2 DEF Next, Send, openFails, fail, flush, resetLow, resetHigh, writeStarts, writeByte,
             writeEnds, readByte, readEnds, interrupted, ReadOver, Terminating, vars, cardVars
  <2> QED
    BY <2>1 DEF IInv, OwnAtr
<1> QED
  BY <1>1, <1>2

(* ... and each step keeps it, by the lemmas above for its parts.          *)
LEMMA InvNext == IInv /\ [Next \/ Terminating]_vars => IInv'
<1> SUFFICES ASSUME IInv, [Next \/ Terminating]_vars PROVE IInv'
  OBVIOUS
<1>1. TypeOK'
  BY TypeNext DEF IInv
<1>2. (length \in 0 .. MaxAnswer)'
  BY DEF IInv, Next, Send, openFails, fail, flush, resetLow, resetHigh, writeStarts, writeByte,
         writeEnds, readByte, readEnds, interrupted, ReadOver, Terminating, vars, cardVars
<1> QED
  BY <1>1, <1>2, FlowNext, PromptNext, FreshNext, AtrNext DEF IInv

-----------------------------------------------------------------------------
(* The inductive invariant holds of every execution of Phoenix.            *)
THEOREM Invariance == Spec => []IInv
  BY InvInit, InvNext, PTL DEF Spec

(* The variables of Phoenix keep their types. *)
THEOREM PhoenixTypeCorrect == Spec => []TypeOK
<1>1. IInv => TypeOK
  BY DEF IInv
<1> QED
  BY <1>1, Invariance, PTL

(* No reply of Phoenix holds a byte from before its command was begun, and *)
(* none has a gap, at whatever pace the card answers.                      *)
THEOREM FreshReplyHolds == Spec => []FreshReply
<1>1. IInv => FreshReply
  BY DEF IInv
<1> QED
  BY <1>1, Invariance, PTL

(* What getAtr gives is a beginning of the card's ATR, for ever, but for a *)
(* byte that came in between the flush and the reset.                      *)
THEOREM OwnAtrHolds == Spec => []OwnAtr
<1>1. IInv => OwnAtr
  BY DEF IInv
<1> QED
  BY <1>1, Invariance, PTL

(* Phoenix implements the CardReader that the server expects, up to the    *)
(* first read that ends before the card is done.                           *)
THEOREM PhoenixIsCardReader == Spec => IsCardReader
<1> USE DEF Promise!Init, Promise!Next, Promise!vars
<1>1. Init => Promise!Init
  BY DEF Init
<1>2. IInv /\ [Next \/ Terminating]_vars => [Promise!Next]_(Promise!vars)
  <2> SUFFICES ASSUME IInv, [Next \/ Terminating]_vars
               PROVE  Promise!Next \/ UNCHANGED Promise!vars
    OBVIOUS
  <2>1. CASE Send \/ flush \/ resetHigh \/ writeByte \/ writeEnds \/ readByte
    BY <2>1 DEF Send, flush, resetHigh, writeByte, writeEnds, readByte, cardVars, IInv, PromptInv
  <2>2. CASE openFails \/ fail
    BY <2>2 DEF openFails, fail, cardVars, Promise!fail
  <2>3. CASE writeStarts /\ prompt
    BY <2>3 DEF writeStarts, Promise!write
  <2>4. CASE (readEnds \/ interrupted) /\ prompt'
    BY <2>4, PromptNext DEF readEnds, interrupted, ReadOver, cardVars, PromptInv, Promise!read, Promise!Answer, Answer
  <2>5. CASE (readEnds \/ interrupted \/ writeStarts) /\ ~ prompt'
    BY <2>5 DEF Promise!fail
  <2>6. CASE resetLow
    BY <2>6 DEF resetLow, Promise!fail
  <2>7. CASE Terminating \/ UNCHANGED vars
    BY <2>7 DEF Terminating, vars, cardVars
  <2> QED
    BY <2>1, <2>2, <2>3, <2>4, <2>5, <2>6, <2>7 DEF Next, writeStarts
<1> QED
  BY <1>1, <1>2, Invariance, PTL DEF Spec, IsCardReader, Promise!Spec
=============================================================================
