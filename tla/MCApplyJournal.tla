--------------------------- MODULE MCApplyJournal ---------------------------
(***************************************************************************)
(* Small instances of ApplyJournal: two documents with proposals over both *)
(* and over one, or one document with any proposal and more transactions.  *)
(***************************************************************************)
EXTENDS ApplyJournal, TLC

CONSTANTS d1, d2, a, b, c, t1, t2, t3

BothOrOne == {[d \in Docs |-> b], [d \in {d1} |-> a]}
OnlyB     == [{d1} -> {b}]
AnyOne    == [{d1} -> Contents]

\* Transaction identifiers are interchangeable.
Symmetry == Permutations(TxIds)
=============================================================================
