CONSTANTS
  Width = 8
  Indices = {0, 1, 2, 4}
  Values = {v, w}
  NotUsed = NotUsed
  MaxBlock = 5

SPECIFICATION Spec
INVARIANT TypeOK
PROPERTY ArgsAreMap
