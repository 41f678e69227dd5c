---------------------------- MODULE MCPageAlloc ----------------------------
(***************************************************************************)
(* PageAlloc for TLC: pages of 4 bytes and a machine of 19 frames, of      *)
(* which the image ends behind the eleventh and three lie in the last byte  *)
(* of the bitmap, which is not whole.                                      *)
(***************************************************************************)
EXTENDS PageAlloc

\* A frame of the kernel, one that was handed out, one outside of memory.
JunkValues == {0, 2, 12, 30}

\* The image reaches from the second frame to address 44.
ImageFrames == 1..10
=============================================================================
