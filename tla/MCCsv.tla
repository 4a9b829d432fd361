-------------------------------- MODULE MCCsv --------------------------------
(***************************************************************************)
(* Csv for TLC: every book with short fields alone, and every pair of      *)
(* books with shorter ones.                                                *)
(***************************************************************************)
EXTENDS Csv

CONSTANTS a, d   \* a letter and a digit

Strings(length) == UNION {[1..n -> {a, Comma, Quote, Newline}] : n \in 1..length}
Books(titles, authors) ==
  [title : titles, author : authors, isbn : {<<>>, <<a>>, <<Quote>>},
   total : {<<d>>, <<Minus, d>>}]

AllShelves ==
  {<<b>> : b \in Books(Strings(3), Strings(2))}
    \union {<<b, c>> : b, c \in Books(Strings(1), Strings(1))}
=============================================================================
