CONSTANTS
  Requests = {r1}
  Notes = {n1}
  work = work
  home = home
  alice = alice
  stranger = stranger
  Scopes = {work, home}
  Subjects <- MCSubjects
  Asked <- MCWellFormed
  Grants <- MCNarrowGrants
  MaxVersions = 1
SPECIFICATION Spec
INVARIANTS AllowedMeansReturned
CHECK_DEADLOCK FALSE
