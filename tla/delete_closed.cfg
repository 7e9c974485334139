CONSTANTS
  Cmd = {}
  Zero = Zero
  None = None
  Conn = {a, b}
  Good = {a}
  Backlog = 1
  Faults = {}
SPECIFICATION Spec
PROPERTY OnlyClosedDeleted
