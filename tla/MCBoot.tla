------------------------------- MODULE MCBoot -------------------------------
(***************************************************************************)
(* An instance of Boot for TLC: the firmware leaves both ports interrupting *)
(* with translation on (0x47), or neither (0x04).                          *)
(***************************************************************************)
EXTENDS Boot

MCString    == <<110, 117>>
MCSelfTests == {CONTROLLER_TEST_OK, 252}
=============================================================================
