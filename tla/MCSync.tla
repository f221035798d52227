------------------------------- MODULE MCSync -------------------------------
(* Constants for TLC. *)
EXTENDS Sync, TLC

CONSTANTS k1, k2, x, y, f, p

\* A text, an image, and a copy in a file manager, which also offers a text.
Anything == {Only("text", x), Only("image", y),
             [Only("files", f) EXCEPT !["text"] = p]}

Symmetry == Permutations(Clients)

\* A text, an image, and a copy that offers both.
TextsAndImages == {Only("text", x), Only("image", y), [Only("text", x) EXCEPT !["image"] = y]}

\* Neither comes back once lost, and CalmCopiesArrive speaks of no other states.
CalmSoFar == calm /\ fresh
=============================================================================
