CONSTANTS
  Cmd = {k}
  Zero = Zero
  None = None
  Sent <- ModelSent
  BodyLen = 2
  MaxPackets = 2
  MaxGarbage = 5
SPECIFICATION FairSpec
INVARIANTS TypeOK Framed
PROPERTIES EndsWithStream IsQueue
