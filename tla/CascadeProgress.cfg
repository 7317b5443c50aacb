SPECIFICATION FairSpec
CONSTANTS
  Snippets = {s1, s2}
  MaxRevisions = 1
  Pool = 5
PROPERTIES
  ProgramEnds
  RequestsAreAnswered
