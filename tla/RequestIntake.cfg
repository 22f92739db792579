SPECIFICATION MCSpec
CONSTANTS
  Documents = {d1, d2, d3, d4}
  Names = {n1, up, txt}
  Plain = {n1, txt}
  Path <- MCPath
  Parsable = {n1, up}
  Workers = {w1, w2}
  Limit = 3
  None = None
INVARIANTS NumbersDense FileStored OpenUntilLimit FileIsDocumentAlone DeduplicatedAlone
SYMMETRY Symmetry
CHECK_DEADLOCK FALSE
