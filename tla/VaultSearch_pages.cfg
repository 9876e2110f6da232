CONSTANTS
  Runes <- MCRunes
  Blanks <- MCBlanks
  Space = " "
  Width <- MCWidth
  Lower <- MCLower
  Segments <- MCSegments
  LowerSegment <- MCLowerSegment
  SnippetLength = 4
  Absent = Absent
  Paths <- MCPaths
  Collation <- MCCollation
  Notes <- MCNotes
  Times <- MCTimes
  Vaults <- MCVaults
  Queries <- MCQueries
  Cursors <- MCCursors
  DefaultLimit = 2
  MaxLimit = 2
  MaxChanges = 2
SPECIFICATION Spec
INVARIANTS TypeOK ExactPages MissesOnlyWhatWasPulled RepeatsOnlyWhatWasPushed
  TimeIsNotAheadOfContent SnippetShowsTheMatch
PROPERTY PagingEnds
CHECK_DEADLOCK FALSE
