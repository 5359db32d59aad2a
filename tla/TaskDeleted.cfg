CONSTANTS
  Tasks = {t1}
  Requests = {r1}
  Phases = 1
  Retries = 0
  Endpoints <- AllEndpoints
  MaxBoots = 0
  MaxFaults = 0
  None = None
SPECIFICATION Spec
INVARIANT DeletedIsRemoved
