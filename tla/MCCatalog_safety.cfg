SPECIFICATION LiveSpec
CONSTANTS
  Workers = {w1, w2}
  i1 = i1
  Isbns = {i1}
  NoIsbn = noisbn
  Copies <- AroundZero
  Files <- Mixed
  MaxId = 2
  Faults = TRUE
INVARIANTS TypeOK AvailableWithinTotal
PROPERTIES ClearedStayGone ImplementsShelf ImportEnds
