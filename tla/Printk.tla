------------------------------- MODULE Printk -------------------------------
(***************************************************************************)
(* Number conversion and formatting of kernel/printk.c, as operators from  *)
(* arguments to the characters given to the terminal.  A character is a    *)
(* string of length one, NUL the terminator.                               *)
(***************************************************************************)
EXTENDS Integers, Sequences, SequencesExt

NUL     == "NUL"
STR     == 24       \* char str[24] of vprintk, the buffer of itoa
digits  == <<"0", "1", "2", "3", "4", "5", "6", "7",
             "8", "9", "a", "b", "c", "d", "e", "f">>

\* The digits of num, last digit first, as the loop of itoa writes them.
Remainders(num, base) ==
  LET written[n \in 0..num] ==
        IF n = 0 THEN <<>> ELSE <<digits[(n % base) + 1]>> \o written[n \div base]
  IN IF num = 0 THEN <<digits[1]>> ELSE written[num]

\* Fault: the digits stay in the order in which they were found.
Swapped_Nothing(idx, i) == FALSE

\* Whether cell i of the buffer takes part in the reversal of idx digits: the
\* loop runs from idx, the terminator, down to the middle, and exchanges cell
\* i with cell idx - 1 - i.  Its first exchange is that of buf[idx] with buf[-1].
Swapped(idx, i) ==
  LET pivot == (idx + 1) \div 2
  IN i \in pivot..idx \/ idx - 1 - i \in pivot..idx

\* itoa: the buffer afterwards.  Cell -1 is the byte below the buffer.
itoa(buf, num, base) ==
  LET rem == Remainders(num, base)
      idx == Len(rem)
      written == [i \in DOMAIN buf |->
                    IF i \in 0..idx-1 THEN rem[i + 1] ELSE IF i = idx THEN NUL ELSE buf[i]]
  IN [i \in DOMAIN buf |-> IF Swapped(idx, i) THEN written[idx - 1 - i] ELSE written[i]]

\* char str[24] = {0}, on top of the stack byte below
ZeroBuffer(below) == [i \in -1..STR-1 |-> IF i = -1 THEN below ELSE NUL]

\* The string in a buffer: the cells before the first terminator
Text(buf) ==
  LET len == CHOOSE n \in 0..STR-1 : buf[n] = NUL /\ \A i \in 0..n-1 : buf[i] # NUL
  IN [i \in 1..len |-> buf[i - 1]]

\* What one conversion prints of argument a: a character, a string, a number in
\* base 10 or 16.  Any other letter prints nothing and takes no argument.
Converted(letter, a, below) ==
  CASE letter = "c" -> <<a>>
    [] letter = "s" -> a
    [] letter = "d" -> Text(itoa(ZeroBuffer(below), a, 10))
    [] letter = "x" -> Text(itoa(ZeroBuffer(below), a, 16))
    [] OTHER        -> <<>>

\* The characters vprintk prints, one character of fmt after the other.
vprintk(fmt, list, below) ==
  LET Step(acc, c) ==
        IF acc.percent
        THEN LET takes == c \in {"c", "d", "s", "x"}
             IN [out     |-> IF takes THEN acc.out \o Converted(c, list[acc.next], below)
                             ELSE acc.out,
                 next    |-> IF takes THEN acc.next + 1 ELSE acc.next,
                 percent |-> FALSE]
        ELSE IF c = "%" THEN [acc EXCEPT !.percent = TRUE]
        ELSE [acc EXCEPT !.out = Append(@, c)]
  IN FoldLeft(Step, [out |-> <<>>, next |-> 1, percent |-> FALSE], fmt).out
=============================================================================
