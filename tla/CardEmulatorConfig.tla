-------------------------- MODULE CardEmulatorConfig --------------------------
(***************************************************************************)
(* CardEmulatorConfig: the settings of the card emulator, read line by     *)
(* line from a file when the client starts.  A line is a sequence of       *)
(* tokens: "#", "=", " " (a blank or a tab), the prefix "card_emulator.",  *)
(* one token for each other word, and one for each digit.                  *)
(***************************************************************************)
EXTENDS Naturals, Sequences, FiniteSets, SequencesExt, FiniteSetsExt

CONSTANTS
  Tokens,     \* the tokens of which lines are made
  Lines,      \* the lines that a file may hold
  MaxLines,   \* bound: the lines of a file
  UIntSize,   \* the values of an unsigned int are 0 .. UIntSize - 1
  NoFile      \* what there is when the file cannot be opened

ASSUME ConfigAssumption ==
  /\ Lines \subseteq Seq(Tokens) /\ {"/dev/ttyS0", "0", "2"} \subseteq Tokens
  /\ MaxLines \in Nat /\ UIntSize \in Nat /\ UIntSize > 200000

VARIABLES
  file,       \* the lines of the file, one at least, or NoFile
  pc,         \* "open", "loop" (eof is tested), "parse", "built", "thrown", "running"
  next,       \* how many lines getline has taken
  line,       \* the line that is parsed
  eof,        \* eofbit of the stream
  devName, resetDelay, dataTXDelay, emulatorType,
  emulator    \* what createNewEmulator made: its class, its port and its delay

settings == <<devName, resetDelay, dataTXDelay, emulatorType>>
vars == <<file, pc, next, line, eof, settings, emulator>>

Digits == <<"0", "1", "2", "3", "4", "5", "6", "7", "8", "9">>

Default == [devName |-> <<"/dev/ttyS0">>, resetDelay |-> 10000, dataTXDelay |-> 200,
            emulatorType |-> "DUMMY"]

NoEmulator    == [class |-> "none", devName |-> <<>>, dataTXDelay |-> 0]
DummyEmulator == [class |-> "DummyCardEmulator", devName |-> <<>>, dataTXDelay |-> 200000]

TypeOK ==
  /\ file = NoFile \/ file \in Seq(Lines) \ {<<>>}
  /\ pc \in {"open", "loop", "parse", "built", "thrown", "running"}
  /\ next \in 0 .. MaxLines /\ line \in Lines \cup {<<>>} /\ eof \in BOOLEAN
  /\ devName \in Seq(Tokens)
  /\ resetDelay \in 0 .. UIntSize - 1 /\ dataTXDelay \in 0 .. UIntSize - 1
  /\ emulatorType \in {"DUMMY", "SEASON"}
  /\ emulator \in [class : {"none", "DummyCardEmulator", "Season"},
                   devName : Seq(Tokens), dataTXDelay : 0 .. UIntSize - 1]

Init ==
  /\ file \in {NoFile} \cup (BoundedSeq(Lines, MaxLines) \ {<<>>})
  /\ pc = "open" /\ next = 0 /\ line = <<>> /\ eof = FALSE
  /\ devName = Default.devName /\ resetDelay = Default.resetDelay
  /\ dataTXDelay = Default.dataTXDelay /\ emulatorType = Default.emulatorType
  /\ emulator = NoEmulator

-----------------------------------------------------------------------------
(* The pieces of a line.                                                   *)

(* What comes before the first token of ends. *)
UpTo(tokens, ends) ==
  LET at == {i \in 1 .. Len(tokens) : tokens[i] \in ends}
  IN  IF at = {} THEN tokens ELSE SubSeq(tokens, 1, Min(at) - 1)

(* Mutant of Cleaned: only a comment ends the line.                        *)
CleanedOfComment(tokens) == UpTo(tokens, {"#"})

Cleaned(tokens) == UpTo(tokens, {"#", " "})
Key(tokens)     == UpTo(Cleaned(tokens), {"="})
HasValue(tokens) == Len(Key(tokens)) < Len(Cleaned(tokens))
Value(tokens)   == SubSeq(Cleaned(tokens), Len(Key(tokens)) + 2, Len(Cleaned(tokens)))

(* The key without the prefix, or nothing if it is not the emulator's. *)
configKey(tokens) ==
  IF Key(tokens) # <<>> /\ Head(Key(tokens)) = "card_emulator." THEN Tail(Key(tokens)) ELSE <<>>

Numeric(str) == ToSet(str) \subseteq ToSet(Digits)
DigitOf(d)   == (CHOOSE n \in 1 .. 10 : Digits[n] = d) - 1

(* Mutant of strToUInt: the number may grow.                               *)
strToNumber(str) ==
  LET ret[i \in 0 .. Len(str)] == IF i = 0 THEN 0 ELSE ret[i - 1] * 10 + DigitOf(str[i])
  IN  ret[Len(str)]

(* ret as each turn of the loop leaves it. *)
strToUInt(str) ==
  LET ret[i \in 0 .. Len(str)] ==
        IF i = 0 THEN 0 ELSE (ret[i - 1] * 10 + DigitOf(str[i])) % UIntSize
  IN  ret[Len(str)]

EmulatorTypeOf(value) == IF value = <<"season">> THEN "SEASON" ELSE "DUMMY"

(* The lines that are refused with an exception. *)
Refused(tokens) ==
  /\ Cleaned(tokens) # <<>>
  /\ \/ ~ HasValue(tokens)
     \/ configKey(tokens) = <<"type">> /\ Value(tokens) \notin {<<"season">>, <<"dummy">>}
     \/ configKey(tokens) \in {<<"data_tx_delay">>, <<"reset_delay">>} /\ ~ Numeric(Value(tokens))

Sets(tokens, key) ==
  Cleaned(tokens) # <<>> /\ ~ Refused(tokens) /\ configKey(tokens) = <<key>>

-----------------------------------------------------------------------------
(* The constructor.                                                        *)

(* open sets failbit when the file cannot be opened, but exceptions are    *)
(* asked for with badbit only.                                             *)
open ==
  /\ pc = "open" /\ pc' = "loop"
  /\ UNCHANGED <<file, next, line, eof, settings, emulator>>

(* Mutant of getline: the end of the file is not noticed.                  *)
getlineNoEof ==
  /\ pc = "loop" /\ ~ eof /\ pc' = "parse"
  /\ IF file = NoFile \/ next = Len(file) THEN UNCHANGED <<line, next>>
     ELSE line' = file[next + 1] /\ next' = next + 1
  /\ UNCHANGED <<file, eof, settings, emulator>>

(* A line is taken.  The last one, which has no newline at its end but may *)
(* be empty, reaches the end of the file.  On a stream with failbit        *)
(* nothing happens: neither line nor eofbit change.                        *)
getline ==
  /\ pc = "loop" /\ ~ eof /\ pc' = "parse"
  /\ IF file = NoFile THEN UNCHANGED <<line, next, eof>>
     ELSE /\ line' = file[next + 1] /\ next' = next + 1
          /\ eof' = (next + 1 = Len(file))
  /\ UNCHANGED <<file, settings, emulator>>

(* Reading fails with badbit, which is thrown on as a runtime_error. *)
readFails ==
  /\ pc = "loop" /\ ~ eof /\ file # NoFile /\ pc' = "thrown"
  /\ UNCHANGED <<file, next, line, eof, settings, emulator>>

(* parseLine and handleKeyValue.  A line without "=" is found out by the   *)
(* byte behind its end, which std::string keeps at 0.  setResetDelay gives *)
(* resetDelay its own value.                                               *)
parseLine ==
  /\ pc = "parse" /\ ~ Refused(line) /\ pc' = "loop"
  /\ devName' = IF Sets(line, "dev_name") THEN Value(line) ELSE devName
  /\ dataTXDelay' = IF Sets(line, "data_tx_delay") THEN strToUInt(Value(line)) ELSE dataTXDelay
  /\ emulatorType' = IF Sets(line, "type") THEN EmulatorTypeOf(Value(line)) ELSE emulatorType
  /\ UNCHANGED <<file, next, line, eof, resetDelay, emulator>>

(* Nobody catches: the client dies. *)
refuseLine ==
  /\ pc = "parse" /\ Refused(line) /\ pc' = "thrown"
  /\ UNCHANGED <<file, next, line, eof, settings, emulator>>

endOfFile ==
  /\ pc = "loop" /\ eof /\ pc' = "built"
  /\ UNCHANGED <<file, next, line, eof, settings, emulator>>

(* Mutant of createNewEmulator: the emulator has the defaults.             *)
createDefaultEmulator ==
  /\ pc = "built" /\ pc' = "running"
  /\ emulator' = IF emulatorType = "DUMMY" THEN DummyEmulator
                 ELSE [class |-> "Season", devName |-> Default.devName, dataTXDelay |-> dataTXDelay]
  /\ UNCHANGED <<file, next, line, eof, settings>>

(* Season takes its settings, and opens its port, in its constructor; the  *)
(* CardEmulatorConfig that it keeps a reference to is gone right after.    *)
createNewEmulator ==
  /\ pc = "built" /\ pc' = "running"
  /\ emulator' = IF emulatorType = "DUMMY" THEN DummyEmulator
                 ELSE [class |-> "Season", devName |-> devName, dataTXDelay |-> dataTXDelay]
  /\ UNCHANGED <<file, next, line, eof, settings>>

(* The port cannot be opened or set up. *)
seasonThrows ==
  /\ pc = "built" /\ emulatorType = "SEASON" /\ pc' = "thrown"
  /\ UNCHANGED <<file, next, line, eof, settings, emulator>>

Step == open \/ getline \/ readFails \/ parseLine \/ refuseLine \/ endOfFile \/ createNewEmulator
        \/ seasonThrows

Terminating == pc \in {"thrown", "running"} /\ UNCHANGED vars

Next == Step \/ Terminating

Spec == Init /\ [][Next]_vars

(* The constructor runs in the client's only thread and waits for nothing. *)
FairSpec == Spec /\ WF_vars(Step)

-----------------------------------------------------------------------------
(* A plain reading of a file, to hold the constructor to.  What a line     *)
(* says is what no "#" or " " precedes.                                    *)
Said(tokens) == {i \in 1 .. Len(tokens) : \A j \in 1 .. i : tokens[j] \notin {"#", " "}}

Assigns(tokens, key) ==
  {1, 2, 3} \subseteq Said(tokens) /\ SubSeq(tokens, 1, 3) = <<"card_emulator.", key, "=">>

Assigned(tokens) == SubSeq(tokens, 4, Cardinality(Said(tokens)))

(* The number that digits write: the value of each by its place, from the  *)
(* right.                                                                  *)
Decimal(str) ==
  LET place[i \in 0 .. Len(str)] == IF i = 0 THEN 1 ELSE 10 * place[i - 1]
      sum[i \in 0 .. Len(str)] ==
        IF i = 0 THEN 0 ELSE sum[i - 1] + DigitOf(str[Len(str) + 1 - i]) * place[i - 1]
  IN  sum[Len(str)]

(* The value of the last line that assigns to a key, or the default.       *)
LastOf(key, default) ==
  LET at == {i \in 1 .. Len(file) : Assigns(file[i], key)}
  IN  IF at = {} THEN default ELSE Assigned(file[Max(at)])

(* A line says nothing, or has a "=", and its value is one the key allows. *)
Sound(tokens) ==
  /\ Said(tokens) # {} => \E i \in Said(tokens) : tokens[i] = "="
  /\ Assigns(tokens, "type") => Assigned(tokens) \in {<<"season">>, <<"dummy">>}
  /\ \A key \in {"data_tx_delay", "reset_delay"} :
       Assigns(tokens, key) => Numeric(Assigned(tokens))

(* All of the file was parsed. *)
Built == pc \in {"built", "running"}

(* A configuration that is built comes from a sound file, read to its end, *)
(* and the emulator has what the file says last, or the defaults: class,   *)
(* port, and a delay wrapped to an unsigned int.  No line is passed over   *)
(* and none outlives a later one.                                          *)
SettingsOfFile ==
  /\ Built => file # NoFile /\ \A i \in 1 .. Len(file) : Sound(file[i])
  /\ pc = "running" =>
       emulator = IF LastOf("type", <<"dummy">>) = <<"dummy">> THEN DummyEmulator
                  ELSE [class |-> "Season", devName |-> LastOf("dev_name", Default.devName),
                        dataTXDelay |-> Decimal(LastOf("data_tx_delay", <<"2", "0", "0">>)) % UIntSize]

(* The constructor comes to an end, with the settings or an exception,     *)
(* whatever a file that can be opened holds.                               *)
Ends == file # NoFile ~> pc \in {"running", "thrown"}

(* "Error while opening": a file that cannot be opened is reported with an *)
(* exception.                                                              *)
MissingFileReported == file = NoFile ~> pc = "thrown"
=============================================================================
