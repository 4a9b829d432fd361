SPECIFICATION Spec
CONSTANTS
  Workers = {w1, w2}
  i1 = i1
  Isbns = {i1}
  NoIsbn = noisbn
  Copies <- One
  Files <- Single
  MaxId = 2
  Faults = FALSE
INVARIANTS IsbnsEnforced
