SPECIFICATION LiveSpec
CONSTANTS
  t1 = t1
  t2 = t2
  Tasks = {k1, k2}
  Tokens = {t1, t2}
  NoToken = notoken
  RoleOf <- TwoRoles
INVARIANTS TypeOK ReasonShown ScreenMatchesToken
PROPERTIES SpinnersEnd
