CONSTANTS
  Requests = {r1, r2}
  Notes = {n1}
  work = work
  home = home
  alice = alice
  stranger = stranger
  Scopes = {work}
  Subjects <- MCOneSubject
  Asked <- MCGranted
  Grants <- MCOneGrant
  MaxVersions = 2
SPECIFICATION FairSpec
INVARIANTS AuditedDisclosure RefusalsAudited
PROPERTIES ImplementsLedger EveryRequestEnds
CHECK_DEADLOCK FALSE
