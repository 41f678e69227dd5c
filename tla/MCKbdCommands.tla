--------------------------- MODULE MCKbdCommands ---------------------------
(***************************************************************************)
(* Instances of KbdCommands for TLC.  kmain issues ECHO and SET_SCAN_SET 2 *)
(* (kmain.c:35-36); SET_LED stands for a command with any other argument.  *)
(***************************************************************************)
EXTENDS KbdCommands

Echo    == [com |-> PS2_KBD_COM_ECHO, arg |-> COMMAND_NO_ARG]
SetScan == [com |-> PS2_KBD_COM_SET_SCAN_SET, arg |-> 2]
SetLed  == [com |-> PS2_KBD_COM_SET_LED, arg |-> 7]

KmainCalls == {Echo, SetScan}
AllCalls   == {Echo, SetScan, SetLed}
=============================================================================
