SPECIFICATION Spec
CONSTANTS
  r1 = r1 r2 = r2 r3 = r3 r4 = r4 initial = initial edited = edited none = none
  Requests = {r1, r2, r3, r4}
  Trees = {initial, edited}
  NoTree = none
  MaxCommits = 4
SYMMETRY Symmetric
CHECK_DEADLOCK FALSE
INVARIANTS TypeOK CommitsExist TemplateImmutable
PROPERTIES BuiltOnRead
