SPECIFICATION OfficeSpec
CONSTANTS
  mia = mia
  cy = cy
  ada = ada
  nobody = nobody
  ea = ea
  eb = eb
  noe = noe
  c1 = c1
  c2 = c2
  h1 = h1
  laptop = laptop
  phone = phone
  paper = paper
  p1 = p1
  s1 = s1
  s2 = s2
  unitA = unitA
  unitB = unitB
  unitC = unitC
  unitD = unitD
  nou = nou
  Users <- Office
  RoleOf <- OfficeRoles
  NoUser = nobody
  Employees = {ea, eb}
  NoEmployee = noe
  Manager <- Line
  Salaries = {1}
  Statuses = {"left"}
  Logins = {ada, cy}
  Changes = {c1, c2}
  Claimed = {c1}
  Required = {c1}
  Hires = {h1}
  Sensitive = {h1}
  Cleared = {ea}
  Flows = {"offboarding"}
  Devices = {laptop, phone}
  RecoveryCodes = {paper}
  MAX_FAILED_ATTEMPTS = 2
  MaxVersion = 1
  MaxSecrets = 2
  MaxClock = 1
  MaxOpen = 1
  Policies = {p1}
  Rules = {"r1"}
  Singletons = {"workflow"}
  Shapes = {"default", "wide"}
  Sessions = {s1, s2}
  MaxVersions = 3
  Units = {unitA, unitB, unitC, unitD}
  NoUnit = nou
  Viewers = {mia}
  UNIT = 2
  LiveRules <- RuleSpace
  MaxLive = 3
  MaxProbed = 14
  DelegationPairs <- CfoStandsIn
  GivenRoles = {"admin", "auditor"}
  Requests = {"first", "second"}
  MaxBump = 2
INVARIANTS
  NoMutualRises ClaimsStandUp CodesCountOnce EarlierSessionsEnd
  LiveIsLatest ChangesReviewedByAnother SeesWhatIsBeneath InboxIsTheWork
  MatricesShowWhatHolds LastAdminOnlyByRace
CHECK_DEADLOCK FALSE
