CONSTANTS
  Requests = {r1}
  Notes = {n1, n2}
  work = work
  home = home
  alice = alice
  stranger = stranger
  Scopes = {work, home}
  Subjects <- MCSubjects
  Asked <- MCBroad
  Grants <- MCNarrowGrants
  MaxVersions = 2
SPECIFICATION Spec
SYMMETRY MCNoteSymmetry
INVARIANTS TypeOK EventsTellTheTruth UnauthenticatedLearnNothing ScopedDisclosure
CHECK_DEADLOCK FALSE
