CONSTANTS
  Tokens <- ModelTokens
  Lines <- ModelLines
  MaxLines = 1
  UIntSize = 262144
  NoFile = NoFile
SPECIFICATION FairSpec
PROPERTY MissingFileReported
