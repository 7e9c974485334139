CONSTANTS
  maxBufferLen = 3
  MaxCommand = 2
  MaxAnswer = 4
  MaxAsked = 3
SPECIFICATION FairSpec
INVARIANTS TypeOK FreshReply OwnAtr
PROPERTIES ReadEnds IsCardReader
