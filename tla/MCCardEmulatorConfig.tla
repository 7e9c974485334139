------------------------- MODULE MCCardEmulatorConfig -------------------------
(* Files of a few lines, among them each kind that parseLine tells apart:  *)
(* empty, commented, indented, with blanks around the "=", of another      *)
(* program, with a key or a value that is unknown, and a number that does  *)
(* not fit.                                                                *)
EXTENDS CardEmulatorConfig

Emulator(key, value) == <<"card_emulator.", key, "=">> \o value

ModelLines == {
  <<>>, <<"#", "card_emulator.">>,
  Emulator("type", <<"season">>), Emulator("type", <<"dummy", " ", "#", "season">>),
  Emulator("type", <<"phoenix">>),
  Emulator("dev_name", <<"/dev/ttyS1">>), Emulator("dev_name", <<"/dev/a", "=", "b">>),
  Emulator("data_tx_delay", <<"2", "6", "2", "1", "4", "7">>), Emulator("data_tx_delay", <<>>),
  Emulator("data_tx_delay", <<"5", "#", "0">>), Emulator("data_tx_delay", <<"5", "ms">>),
  Emulator("reset_delay", <<"7">>), Emulator("colour", <<"1">>),
  <<" ">> \o Emulator("type", <<"season">>),
  <<"card_emulator.", "type", " ", "=", " ", "season">>,
  <<"card_reader.", "type", "=", "phoenix">> }

ModelTokens == UNION {ToSet(tokens) : tokens \in ModelLines} \cup {"/dev/ttyS0"}
=============================================================================
