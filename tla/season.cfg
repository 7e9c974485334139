CONSTANTS
  maxBufferLen = 3
  MaxReply = 4
  MaxSent = 6
  MaxPulses = 2
SPECIFICATION Spec
INVARIANTS TypeOK ResetOnce FreshCommand NoEcho
PROPERTY IsCardEmulator
