SPECIFICATION LiveSpec
CONSTANTS
  i1 = i1
  i2 = i2
  Items = {i1, i2}
  Searches = {"", "x"}
  Matches <- TwoSearches
  Tasks = {1, 2}
INVARIANTS TypeOK SelectionShown ListSettles
PROPERTIES SpinnerEnds
