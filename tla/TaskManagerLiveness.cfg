CONSTANTS
  Tasks = {t1}
  Requests = {r1}
  Phases = 2
  Retries = 0
  Endpoints <- AllEndpoints
  MaxBoots = 0
  MaxFaults = 1
  None = None
SPECIFICATION FairSpec
INVARIANTS
  GateMeansPaused
  CompletedAccountsForCompany
PROPERTIES
  ProgressNeverRegresses
  GoneIsGone
  RunEnds
  CancelEndsRun
  OutcomeReachesRow
