----------------------------- MODULE MCCatalog ------------------------------
(***************************************************************************)
(* Catalog for TLC.                                                        *)
(***************************************************************************)
EXTENDS Catalog

CONSTANT i1   \* an ISBN

\* The fields in the order TLC keeps them: its workers share these values.
Line(isbn, total) == [isbn |-> isbn, total |-> total, kind |-> "book"]
Malformed == [kind |-> "malformed"]

\* Copy counts.
AroundZero == {-1, 0, 1}
One == {1}

\* A line to skip, and a number an update would refuse.
Mixed == {<<Malformed, Line(i1, -1)>>}

\* One book.
Single == {<<Line(i1, 1)>>}
=============================================================================
