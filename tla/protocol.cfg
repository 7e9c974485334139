CONSTANTS
  ByteSize = 6
  Strings <- ModelStrings
  Bodies <- ModelBodies
  GarbledBodies <- ModelGarbled
  user <- ModelUser
  pass <- ModelPass
  None = None
SPECIFICATION Spec
INVARIANTS TypeOK SameVerdicts SameBody
