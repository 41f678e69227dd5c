----------------------------- MODULE MCScanCode -----------------------------
(***************************************************************************)
(* ScanCode for TLC.  PageUp is left out: scan2_ext_to_keycode has the     *)
(* keycode of PageDown in its place.                                       *)
(***************************************************************************)
EXTENDS ScanCode

TypingKeys == AllKeys \ {"PAGEUP"}
=============================================================================
