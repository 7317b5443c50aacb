SPECIFICATION Spec
CONSTANTS
  Snippets = {s1}
  MaxRevisions = 1
  Pool = 8
INVARIANTS
  ReviewOnlyWhenReady
