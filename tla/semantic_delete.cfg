CONSTANTS
  a = a
  sa = sa
  b = b
  t = t
  u = u
  blank = blank
  Options <- MCOptions
  Filters <- MCFilters
  Bit <- MCBit
  Blank = blank
  Callers = {c1}
  Prompts = {a, sa, b}
  Strip <- MCStrip
  Similar <- MCSimilar
  Responses = {r1, r2}
  Document = Document
  None = None
  Workspace = TRUE
SYMMETRY Symmetry
SPECIFICATION Spec
PROPERTY DeletedIsGone
