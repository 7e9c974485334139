CONSTANTS
  Cmd = {k1}
  Zero = Zero
  None = None
  Conn = {a, b}
  Good = {a}
  Backlog = 1
  Faults = {"select", "accept", "network", "signal"}
SPECIFICATION FairSpec
INVARIANT InStep
PROPERTIES Answered Admitted Released
