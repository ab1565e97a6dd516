--------------------------- MODULE MCSharedReads ---------------------------
(***************************************************************************)
(* SharedReads for TLC: two readers, and words at both ends of the range.  *)
(***************************************************************************)
EXTENDS SharedReads, TLC

CONSTANTS r1, r2

\* The readers are alike, and only invariants are checked.
Symmetry == Permutations(Readers)

Ends == {-32768, 32767}

\* The bytes of a word that is never measured, so that it shows wherever a
\* failed transfer, and only that, has left it.
StackBytes == {<<0, 1>>}
=============================================================================
