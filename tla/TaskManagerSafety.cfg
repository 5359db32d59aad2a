CONSTANTS
  Tasks = {t1}
  Requests = {r1, r2}
  Phases = 1
  Retries = 1
  Endpoints <- KeepingEndpoints
  MaxBoots = 1
  MaxFaults = 1
  None = None
SPECIFICATION Spec
INVARIANTS
  TypeOK
  GateMeansPaused
  ActiveHasWorker
  CompletedAccountsForCompany
  QuietRowMatches
PROPERTIES
  OutcomeIsFinal
  ImplementsLifecycle
