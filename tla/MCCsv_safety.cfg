SPECIFICATION Spec
CONSTANTS
  a = a
  d = d
  Letters = {a}
  Digits = {d}
  Comma = comma
  Quote = quote
  Newline = newline
  Minus = minus
  Shelves <- AllShelves
INVARIANTS TypeOK RoundTrip
