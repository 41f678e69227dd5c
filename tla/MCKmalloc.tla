----------------------------- MODULE MCKmalloc -----------------------------
(***************************************************************************)
(* Kmalloc for TLC: pages of 4 words, a heap of a few pages, and requests  *)
(* that leave nothing, a sliver, or a block behind, and one too large.     *)
(***************************************************************************)
EXTENDS Kmalloc

Requests == {8, 24, 48, 104}
=============================================================================
