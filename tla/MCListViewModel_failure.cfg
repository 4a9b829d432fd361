SPECIFICATION Spec
CONSTANTS
  i1 = i1
  i2 = i2
  Items = {i1, i2}
  Searches = {""}
  Matches <- OneSearch
  Tasks = {1, 2}
PROPERTIES FailureReported
