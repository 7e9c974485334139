CONSTANTS
  Cmd = {k1}
  Zero = Zero
  None = None
  Conn = {a, b, c}
  Backlog = 1
  Faults = {"network", "signal"}
  MaxPackets = 3
SPECIFICATION PeersSpec
INVARIANTS PeersTypeOK Roster CredentialsFirst
SYMMETRY Symmetry
