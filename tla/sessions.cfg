CONSTANTS
  Cmd = {k1, k2}
  Zero = Zero
  None = None
  Conn = {a, b}
  Good = {a, b}
  Backlog = 1
  Faults = {"select", "accept", "network", "signal"}
SPECIFICATION Spec
INVARIANTS TypeOK StopAndWait InStep OwnAnswer AtMostOnce
PROPERTY KeepsPromise
SYMMETRY Symmetry
