CONSTANTS
  Tokens <- ModelTokens
  Lines <- ModelLines
  MaxLines = 3
  UIntSize = 262144
  NoFile = NoFile
SPECIFICATION FairSpec
INVARIANTS TypeOK SettingsOfFile
PROPERTY Ends
