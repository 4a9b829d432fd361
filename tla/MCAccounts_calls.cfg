SPECIFICATION LiveSpec
CONSTANTS
  Workers = {w1, w2}
  Names = {admin, ana}
  EmptyName = noname
  SeedName = admin
  Passwords = {pw1}
  SeedPassword = pw1
  NoPassword = nopw
  ShortPassword = short
  Tokens = {t1}
  NoToken = notoken
  MaxId = 3
  Faults = TRUE
INVARIANTS TypeOK UsernamesUnique IdentityStable
PROPERTIES TokenMeaning ImplementsTokenServer ImplementsStore CallsAnswered
