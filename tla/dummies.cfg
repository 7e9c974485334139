CONSTANTS
  MaxLen = 2
  MaxTime = 16
  MaxAsked = 2
SPECIFICATION DevicesSpec
PROPERTIES IsCardEmulator IsCardReader
