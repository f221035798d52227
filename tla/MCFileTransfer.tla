--------------------------- MODULE MCFileTransfer ---------------------------
(* Constants for TLC. *)
EXTENDS FileTransfer, TLC

CONSTANTS t1, t2, a, b, c, d

\* Two chunks of two cells, the second not full, and one chunk: from either the
\* other is an edit that changes contents, length and number of chunks.
Edits == {<<a, b, c>>, <<a, d>>}

Symmetry == Permutations(Transfers)
=============================================================================
