CONSTANTS
  Cmd = {k1}
  Zero = Zero
  None = None
  Conn = {a}
  Good = {a}
  Backlog = 1
  Faults = {}
SPECIFICATION Spec
INVARIANT ReplyIsPacketBody
