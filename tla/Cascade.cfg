SPECIFICATION Spec
CONSTANTS
  Snippets = {s1, s2}
  MaxRevisions = 2
  Pool = 8
INVARIANTS
  TypeOK
  PayloadsAreAttributed
  ExitIsEarned
  ReviewersInOrder
  SessionsAreCovered
  NothingStrands
  SnippetsAreUnderWay
  ReviewedSnippetsExist
  StoppedCoderIsOnDisk
  ReturnDisconnects
PROPERTIES
  ImplementsPhases
SYMMETRY SnippetSymmetry
