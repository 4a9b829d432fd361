SPECIFICATION SoloSpec
CONSTANTS
  Workers = {w1, w2}
  Names = {admin, ana}
  EmptyName = noname
  SeedName = admin
  Passwords = {pw1}
  SeedPassword = pw1
  NoPassword = nopw
  ShortPassword = short
  Tokens = {t1, t2}
  NoToken = notoken
  MaxId = 3
  Faults = FALSE
SYMMETRY Interchangeable
INVARIANTS ServesAdmin
PROPERTIES LastAdminKept OnlyAdminsWrite
