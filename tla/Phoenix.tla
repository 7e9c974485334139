------------------------------- MODULE Phoenix -------------------------------
(***************************************************************************)
(* Phoenix: the card reader on a serial line, with the card that sits in   *)
(* it.  The card answers a command once it is complete and sends the bytes *)
(* of its answer one by one, at its own pace; read takes 350 ms without a  *)
(* byte for the end of the answer.  The bytes are those of CardReader.     *)
(***************************************************************************)
EXTENDS Naturals, Sequences, SequencesExt

CONSTANTS
  maxBufferLen,  \* the most that one read takes
  MaxCommand,    \* the longest command
  MaxAnswer,     \* the longest answer, or ATR
  MaxAsked       \* bound: the commands of the server

ASSUME PhoenixAssumption ==
  /\ maxBufferLen \in Nat /\ MaxCommand \in Nat /\ MaxAnswer \in Nat /\ MaxAsked \in Nat

VARIABLES
  rx,       \* the serial port's input buffer
  toSend,   \* what the card has still to send
  pc,       \* "open", "flushed", "low" (the card is held in reset), "read", "idle",
            \* "write", "gone"
  left,     \* bytes of the command that are still to be written
  result,   \* what the running or the last read took
  atr,      \* the answer to the reset, which getAtr gives from then on
  asked,    \* how many commands were written; 0 stands for the reset
  length,   \* the length of the card's answer to the last of them
  late,     \* history: what comes after the flush and before that answer
  prompt    \* history: the card was done whenever a read ended, and when it was reset

cardVars == <<rx, toSend>>
vars == <<cardVars, pc, left, result, atr, asked, length, late, prompt>>

Byte == [of : Nat, at : Nat]

Answer(n, len) == [i \in 1 .. len |-> [of |-> n, at |-> i]]

(* A byte from before the port was opened. *)
Stale == [of |-> 0, at |-> 0]

(* What the card may be sending then: nothing, or the last byte of an      *)
(* answer to a server that is gone.                                        *)
Straggler == [of |-> 0, at |-> MaxAnswer + 1]
OnItsWay == {<<>>, <<Straggler>>}

TypeOK ==
  /\ rx \in Seq(Byte) /\ toSend \in Seq(Byte) /\ late \in Seq(Byte)
  /\ result \in Seq(Byte) /\ atr \in Seq(Byte)
  /\ pc \in {"open", "flushed", "low", "read", "idle", "write", "gone"}
  /\ left \in Nat /\ asked \in Nat /\ length \in Nat /\ prompt \in BOOLEAN

Init ==
  /\ rx \in {<<>>, <<Stale>>} /\ toSend \in OnItsWay
  /\ pc = "open" /\ left = 0
  /\ result = <<>> /\ atr = <<>>
  /\ asked = 0 /\ length \in 0 .. MaxAnswer /\ late = <<>> /\ prompt = TRUE

-----------------------------------------------------------------------------
(* The card sends the next byte of its answer. *)
Send ==
  /\ toSend # <<>>
  /\ rx' = Append(rx, Head(toSend)) /\ toSend' = Tail(toSend)
  /\ UNCHANGED <<pc, left, result, atr, asked, length, late, prompt>>

(* Mutant of flush: the input is left as it is.                            *)
flushNothing ==
  /\ pc = "open" /\ pc' = "flushed"
  /\ UNCHANGED <<cardVars, left, result, atr, asked, length, late, prompt>>

(* init2: the port cannot be opened or set up, and the server never runs. *)
openFails ==
  /\ pc = "open" /\ pc' = "gone"
  /\ UNCHANGED <<cardVars, left, result, atr, asked, length, late, prompt>>

(* reset: the input is flushed ... *)
flush ==
  /\ pc = "open" /\ pc' = "flushed"
  /\ rx' = <<>>
  /\ UNCHANGED <<toSend, left, result, atr, asked, length, late, prompt>>

(* ... the reset line is held down, which silences the card; what came in  *)
(* since the flush stays in the port ...                                   *)
resetLow ==
  /\ pc = "flushed" /\ pc' = "low"
  /\ toSend' = <<>>
  /\ late' = rx /\ prompt' = (prompt /\ rx = <<>>)
  /\ UNCHANGED <<rx, left, result, atr, asked, length>>

(* ... and released, whereupon the card sends its ATR. *)
resetHigh ==
  /\ pc = "low" /\ pc' = "read"
  /\ toSend' = Answer(0, length) /\ result' = <<>>
  /\ UNCHANGED <<rx, left, atr, asked, length, late, prompt>>

(* Mutant of writeStarts: the input is not flushed.                        *)
writeStartsUnflushed ==
  /\ pc = "idle" /\ asked < MaxAsked /\ pc' = "write"
  /\ left' \in 0 .. MaxCommand /\ length' \in 0 .. MaxAnswer
  /\ left' = 0 => length' = 0
  /\ asked' = asked + 1 /\ late' = toSend
  /\ UNCHANGED <<cardVars, result, atr, prompt>>

(* A command is to be written, and the input is flushed first.  A card     *)
(* does not answer an empty one.                                           *)
writeStarts ==
  /\ pc = "idle" /\ asked < MaxAsked /\ pc' = "write"
  /\ left' \in 0 .. MaxCommand /\ length' \in 0 .. MaxAnswer
  /\ left' = 0 => length' = 0
  /\ asked' = asked + 1 /\ late' = toSend
  /\ rx' = <<>>
  /\ UNCHANGED <<toSend, result, atr, prompt>>

(* Mutant of writeByte: one byte too many.                                 *)
writeByteTooMany ==
  /\ pc = "write" /\ left >= 0 /\ left' = left - 1
  /\ UNCHANGED <<cardVars, pc, result, atr, asked, length, late, prompt>>

writeByte ==
  /\ pc = "write" /\ left > 0 /\ left' = left - 1
  /\ UNCHANGED <<cardVars, pc, result, atr, asked, length, late, prompt>>

(* Mutant of writeEnds: the reply is put behind what was read before.      *)
writeEndsKeeping ==
  /\ pc = "write" /\ left = 0 /\ pc' = "read"
  /\ toSend' = toSend \o Answer(asked, length)
  /\ UNCHANGED <<rx, left, result, atr, asked, length, late, prompt>>

(* The card has the whole command, and the read of the answer begins. *)
writeEnds ==
  /\ pc = "write" /\ left = 0 /\ pc' = "read"
  /\ toSend' = toSend \o Answer(asked, length)
  /\ result' = <<>>
  /\ UNCHANGED <<rx, left, atr, asked, length, late, prompt>>

(* One turn of the loop in read. *)
readByte ==
  /\ pc = "read" /\ rx # <<>> /\ Len(result) < maxBufferLen
  /\ result' = Append(result, Head(rx)) /\ rx' = Tail(rx)
  /\ UNCHANGED <<toSend, pc, left, atr, asked, length, late, prompt>>

(* Mutant of Silence: the first byte is waited for without limit.          *)
SilenceAfterByte == rx = <<>> /\ result # <<>>

(* poll times out. *)
Silence == rx = <<>>

ReadOver ==
  /\ pc = "read" /\ pc' = "idle"
  /\ atr' = IF asked = 0 THEN result ELSE atr
  /\ prompt' = (prompt /\ rx = <<>> /\ toSend = <<>>)
  /\ UNCHANGED <<cardVars, left, result, asked, length, late>>

(* The loop ends with 350 ms of silence, after maxBufferLen bytes ... *)
readEnds == (Silence \/ Len(result) >= maxBufferLen) /\ ReadOver

(* ... or when a handled signal interrupts poll. *)
interrupted == ReadOver

(* A read or write of the port fails, or the server ends. *)
fail ==
  /\ pc \notin {"open", "gone"} /\ pc' = "gone"
  /\ UNCHANGED <<cardVars, left, result, atr, asked, length, late, prompt>>

Next ==
  \/ Send \/ openFails \/ flush \/ resetLow \/ resetHigh
  \/ writeStarts \/ writeByte \/ writeEnds \/ readByte \/ readEnds \/ interrupted \/ fail

Terminating == pc = "gone" /\ UNCHANGED vars

Spec == Init /\ [][Next \/ Terminating]_vars

(* The read runs in the server's only thread, and poll has its timeout. *)
FairSpec == Spec /\ WF_vars(readByte \/ readEnds)

-----------------------------------------------------------------------------
(* Whatever the pace of the card, a reply is a beginning of what came in   *)
(* after the flush before its command: nothing from before it, and         *)
(* nothing left out.  Where it ends, and whether it begins with the rest   *)
(* of an earlier answer, is up to the card.                                *)
FreshReply ==
  pc \in {"read", "idle"} => IsPrefix(result, late \o Answer(asked, length))

(* The ATR that getAtr gives for ever after is a beginning of the card's:  *)
(* nothing that was in the port, or that a later command brought.  Only a  *)
(* byte that came in between the flush and the reset may be before it.     *)
OwnAtr == \E s \in OnItsWay : IsPrefix(atr, s \o Answer(0, MaxAnswer))

(* A read comes to an end, with a card that is mute, slow or talks without *)
(* a pause: all clients wait for it.                                       *)
ReadEnds == pc = "read" ~> pc # "read"

(* Up to the first read that ends before the card is done, because the     *)
(* card paused, the answer was too long or a signal came, Phoenix is the   *)
(* CardReader that the server expects.                                     *)
Promise == INSTANCE CardReader WITH
  state <- IF ~ prompt \/ pc = "gone" THEN "gone"
           ELSE IF pc = "idle" THEN "answered" ELSE "asked",
  reply <- IF prompt /\ pc = "idle" THEN result ELSE <<>>

IsCardReader == Promise!Spec
=============================================================================
