----------------------------- MODULE MCBookPage -----------------------------
(***************************************************************************)
(* BookPage for TLC.                                                       *)
(***************************************************************************)
EXTENDS BookPage

\* Books within the range of the boxes, and beyond it on either side: an import
\* stores negative numbers too.
FewBooks == [total : {-1}, available : {-1}] \union [total : {2}, available : {1}]
            \union [total : {3}, available : {3}]
=============================================================================
