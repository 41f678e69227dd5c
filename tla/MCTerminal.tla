----------------------------- MODULE MCTerminal -----------------------------
(***************************************************************************)
(* Instances of Terminal for TLC: kmain prints "%d" with either byte below *)
(* the buffer of itoa, and a line with a string, an unknown conversion and *)
(* a character above 127; the handler a letter, or its "\nps2_kbd: ECHO\n". *)
(***************************************************************************)
EXTENDS Terminal

MCHighChars == {"0xE9"}
MCColors == <<"grey", "red">>
MCKmainText ==
  {vprintk(<<"%", "d">>, <<12>>, below) : below \in {NUL, "?"}}
    \union {vprintk(<<"%", "s", LF, "%", "q", "%", "c">>, <<<<"n">>, "0xE9">>, NUL)}
MCIrqText == {<<"k">>, <<LF, "E", LF>>}
=============================================================================
