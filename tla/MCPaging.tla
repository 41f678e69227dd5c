------------------------------ MODULE MCPaging ------------------------------
(***************************************************************************)
(* Paging for TLC: tables of 4 entries, pages of 4 bytes, 40 frames.  The  *)
(* pages are one in the low map and two of the heap region that share the  *)
(* tables of two levels, which map_addr has to make.                       *)
(***************************************************************************)
EXTENDS Paging

MapPages  == {<<0, 1, 0, 2>>, <<2, 2, 1, 0>>, <<2, 2, 1, 3>>}
MapFrames == {0, 3}

\* The run meets the hypotheses of the theorems of PagingProofs.
ASSUME RunAssumption ==
  Small /\ ImageMarked /\ HighMapCovers /\ HeapFits /\ KeepOffHighMap /\ KeepOffKernel
=============================================================================
