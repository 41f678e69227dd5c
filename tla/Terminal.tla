------------------------------ MODULE Terminal ------------------------------
(***************************************************************************)
(* The VGA text terminal (arch/x86_64/vga_print.c) and its two users:      *)
(* kmain, which prints with printk, and the keyboard's interrupt handler,  *)
(* which prints too and interrupts kmain between any two memory accesses   *)
(* of vga_putchar.  Both threads run the same code; the handler runs to    *)
(* completion before kmain goes on.  The cursor is not volatile: each      *)
(* thread loads it into its registers "row" and "col" and stores it back,  *)
(* and a compiler may leave out a store that the next one overwrites.      *)
(***************************************************************************)
EXTENDS Printk, FiniteSets

CONSTANTS
  VGA_WIDTH, VGA_HEIGHT,   \* 80 and 25 in the code
  Colors,                  \* values of vga_color; the first is the initial one
  HighChars,               \* characters above 127
  KmainText,               \* texts kmain prints
  IrqText,                 \* texts the handler prints
  MaxPrints,               \* bound: texts printed by kmain
  MaxIrqs,                 \* bound: texts printed by the handler
  MaxSets                  \* bound: calls of vga_set_pos and vga_set_color

LF    == "\n"
Blank == " "

ASSUME ScreenAssumption == VGA_WIDTH \in Nat \ {0} /\ VGA_HEIGHT \in Nat \ {0, 1}

VARIABLES
  vga_row, vga_column, vga_color,
  vga_buffer,            \* screen cells: index |-> [char, color]
  pc, text, row, col,    \* per thread: next access, characters left, registers
  prints, irqs, sets,    \* spent of the bounds
  out,                   \* history: characters printed, with their colours
  nested,                \* history: the handler ran inside a vga_putchar of kmain
  raced,                 \* history: it began while the cursor was off the screen
  moved,                 \* history: vga_set_pos was called
  stray                  \* history: a store outside the screen

cursor  == <<vga_row, vga_column>>
bounds  == <<prints, irqs, sets>>
history == <<out, nested, raced, moved, stray>>
vars    == <<cursor, vga_color, vga_buffer, pc, text, row, col, bounds, history>>

Threads == {"kmain", "irq"}
Cells   == 0..VGA_WIDTH * VGA_HEIGHT - 1

AllOnes == "0xFF"

\* entry: char is signed, and the sign of c fills the bits of the colour.
entry(c, color) == [char |-> c, color |-> IF c \in HighChars THEN AllOnes ELSE color]

\* What a caller of vga_putchar asks for
Wanted(c, color) == [char |-> c, color |-> color]

\* vga_terminal_initialize
Init ==
  /\ vga_row = 0 /\ vga_column = 0 /\ vga_color = Colors[1]
  /\ vga_buffer = [i \in Cells |-> entry(Blank, Colors[1])]
  /\ pc = [t \in Threads |-> "idle"] /\ text = [t \in Threads |-> <<>>]
  /\ row = [t \in Threads |-> 0] /\ col = [t \in Threads |-> 0]
  /\ prints = 0 /\ irqs = 0 /\ sets = 0
  /\ out = <<>> /\ nested = FALSE /\ raced = FALSE /\ moved = FALSE /\ stray = FALSE

Busy(t) == pc[t] # "idle" \/ text[t] # <<>>
Runs(t) == t = "irq" \/ ~Busy("irq")

Goto(t, from, to) == Runs(t) /\ pc[t] = from /\ pc' = [pc EXCEPT ![t] = to]

-----------------------------------------------------------------------------
(* vga_putchar, one memory access after the other, by thread t             *)

\* vga_write: the next character of the text
NextChar(t) ==
  /\ text[t] # <<>>
  /\ Goto(t, "idle", IF Head(text[t]) = LF THEN "newline" ELSE "position")
  /\ out' = Append(out, Wanted(Head(text[t]), vga_color))
  /\ UNCHANGED <<cursor, vga_color, vga_buffer, text, row, col, bounds,
                 nested, raced, moved, stray>>

\* if (c == '\n') vga_column = 0
Newline(t) ==
  /\ Goto(t, "newline", "next_row")
  /\ vga_column' = 0
  /\ UNCHANGED <<vga_row, vga_color, vga_buffer, text, row, col, bounds, history>>

\* The cursor is loaded for vga_putentryat.
LoadPosition(t) ==
  /\ Goto(t, "position", "put")
  /\ row' = [row EXCEPT ![t] = vga_row] /\ col' = [col EXCEPT ![t] = vga_column]
  /\ UNCHANGED <<cursor, vga_color, vga_buffer, text, bounds, history>>

\* vga_putentryat; a store behind the screen changes no cell of it.
PutEntry(t) ==
  LET index == row[t] * VGA_WIDTH + col[t]
  IN /\ Goto(t, "put", "column")
     /\ vga_buffer' = [i \in Cells |->
                         IF i = index THEN entry(Head(text[t]), vga_color) ELSE vga_buffer[i]]
     /\ stray' = (stray \/ index \notin Cells)
     /\ UNCHANGED <<cursor, vga_color, text, row, col, bounds, out, nested, raced, moved>>

\* ++vga_column, the load
LoadColumn(t) ==
  /\ Goto(t, "column", "wrap")
  /\ col' = [col EXCEPT ![t] = vga_column + 1]
  /\ UNCHANGED <<cursor, vga_color, vga_buffer, text, row, bounds, history>>

\* ++vga_column == VGA_WIDTH
Wraps(t) == col[t] = VGA_WIDTH

\* ++vga_column, the store, of VGA_WIDTH too; on the way to the check the row
\* is loaded.
StoreColumn(t) ==
  /\ Goto(t, "wrap", IF Wraps(t) THEN "reset" ELSE "check")
  /\ vga_column' = col[t]
  /\ row' = [row EXCEPT ![t] = vga_row]
  /\ UNCHANGED <<vga_row, vga_color, vga_buffer, text, col, bounds, history>>

\* vga_column = 0, behind the store of VGA_WIDTH or in its place
ResetColumn(t) ==
  /\ \/ Goto(t, "reset", "next_row")
     \/ Wraps(t) /\ Goto(t, "wrap", "next_row")
  /\ vga_column' = 0
  /\ UNCHANGED <<vga_row, vga_color, vga_buffer, text, row, col, bounds, history>>

\* ++vga_row, the load and the store
LoadRow(t) ==
  /\ Goto(t, "next_row", "store_row")
  /\ row' = [row EXCEPT ![t] = vga_row + 1]
  /\ UNCHANGED <<cursor, vga_color, vga_buffer, text, col, bounds, history>>

StoreRow(t) ==
  /\ Goto(t, "store_row", "check")
  /\ vga_row' = row[t]
  /\ UNCHANGED <<vga_column, vga_color, vga_buffer, text, row, col, bounds, history>>

\* The character is done.
Finish(t) == text' = [text EXCEPT ![t] = Tail(@)]

\* Fault: the screen scrolls one row late.
AtBottom_Late(r) == r = VGA_HEIGHT + 1

AtBottom(r) == r = VGA_HEIGHT

\* if (vga_row == VGA_HEIGHT), on the register or on memory again
Check(t) ==
  \E r \in {row[t], vga_row} :
    /\ Goto(t, "check", IF AtBottom(r) THEN "scroll" ELSE "idle")
    /\ IF AtBottom(r) THEN UNCHANGED text ELSE Finish(t)
    /\ UNCHANGED <<cursor, vga_color, vga_buffer, row, col, bounds, history>>

\* Fault: the last line is moved up and stays where it is as well.
scroll_NoBlank(by) ==
  [i \in Cells |-> IF i + by * VGA_WIDTH \in Cells THEN vga_buffer[i + by * VGA_WIDTH]
                   ELSE vga_buffer[i]]

\* scroll: every line moves up by lines, blanks in the current colour behind it
scroll(by) ==
  [i \in Cells |-> IF i + by * VGA_WIDTH \in Cells THEN vga_buffer[i + by * VGA_WIDTH]
                   ELSE entry(Blank, vga_color)]

\* One step: a handler that runs inside it finds vga_row at VGA_HEIGHT, as it
\* does just before and just after.
Scroll(t) ==
  /\ Goto(t, "scroll", "back")
  /\ vga_buffer' = scroll(1)
  /\ UNCHANGED <<cursor, vga_color, text, row, col, bounds, history>>

\* --vga_row, the load and the store
LoadBack(t) ==
  /\ Goto(t, "back", "store_back")
  /\ row' = [row EXCEPT ![t] = vga_row - 1]
  /\ UNCHANGED <<cursor, vga_color, vga_buffer, text, col, bounds, history>>

StoreBack(t) ==
  /\ Goto(t, "store_back", "idle")
  /\ vga_row' = row[t]
  /\ Finish(t)
  /\ UNCHANGED <<vga_column, vga_color, vga_buffer, row, col, bounds, history>>

vga_putchar(t) ==
  \/ NextChar(t) \/ Newline(t) \/ LoadPosition(t) \/ PutEntry(t) \/ LoadColumn(t)
  \/ StoreColumn(t) \/ ResetColumn(t) \/ LoadRow(t) \/ StoreRow(t) \/ Check(t) \/ Scroll(t)
  \/ LoadBack(t) \/ StoreBack(t)

-----------------------------------------------------------------------------
(* The callers                                                             *)

\* printk by kmain
KmainPrints(s) ==
  /\ Runs("kmain") /\ ~Busy("kmain") /\ prints < MaxPrints
  /\ prints' = prints + 1
  /\ text' = [text EXCEPT !["kmain"] = s]
  /\ UNCHANGED <<cursor, vga_color, vga_buffer, pc, row, col, irqs, sets, history>>

\* An interrupt at any moment, whose handler prints s
IrqPrints(s) ==
  /\ ~Busy("irq") /\ irqs < MaxIrqs
  /\ irqs' = irqs + 1
  /\ text' = [text EXCEPT !["irq"] = s]
  /\ nested' = (nested \/ pc["kmain"] # "idle")
  /\ raced' = (raced \/ vga_row = VGA_HEIGHT \/ vga_column = VGA_WIDTH)
  /\ UNCHANGED <<cursor, vga_color, vga_buffer, pc, row, col, prints, sets, out, moved, stray>>

vga_set_color(color) ==
  /\ Runs("kmain") /\ ~Busy("kmain") /\ sets < MaxSets
  /\ sets' = sets + 1 /\ vga_color' = color
  /\ UNCHANGED <<cursor, vga_buffer, pc, text, row, col, prints, irqs, history>>

\* Callers name a position on the screen: the function does not check it.
vga_set_pos(x, y) ==
  /\ Runs("kmain") /\ ~Busy("kmain") /\ sets < MaxSets
  /\ sets' = sets + 1 /\ vga_column' = x /\ vga_row' = y /\ moved' = TRUE
  /\ UNCHANGED <<vga_color, vga_buffer, pc, text, row, col, prints, irqs, out, nested,
                 raced, stray>>

Quiet == ~Busy("kmain") /\ ~Busy("irq") /\ UNCHANGED vars

Next ==
  \/ \E t \in Threads : vga_putchar(t)
  \/ \E s \in KmainText : KmainPrints(s)
  \/ \E s \in IrqText : IrqPrints(s)
  \/ \E i \in DOMAIN Colors : vga_set_color(Colors[i])
  \/ \E x \in 0..VGA_WIDTH-1, y \in 0..VGA_HEIGHT-1 : vga_set_pos(x, y)
  \/ Quiet

Spec == Init /\ [][Next]_vars

-----------------------------------------------------------------------------
(* Properties                                                              *)

\* Wherever else the handler interrupts vga_putchar, stores stay in the screen
\* and, once nobody prints, the cursor is on it: unless a handler began while
\* vga_row was VGA_HEIGHT, from the store of the row to the end of the scroll, or
\* while vga_column was VGA_WIDTH, between its two stores at the end of a row.
InScreen ==
  ~raced => /\ ~stray
            /\ vga_column \in 0..VGA_WIDTH /\ vga_row \in 0..VGA_HEIGHT
            /\ (~Busy("kmain") /\ ~Busy("irq")) =>
                 vga_column < VGA_WIDTH /\ vga_row < VGA_HEIGHT

\* Index of the last newline before character i of out, 0 if there is none
LineStart(i) ==
  LET nl == {m \in 1..i-1 : out[m].char = LF}
  IN IF nl = {} THEN 0 ELSE CHOOSE m \in nl : \A n \in nl : n <= m

\* Where character i of everything printed belongs on an endless roll of paper
PaperColumn(i) == (i - 1 - LineStart(i)) % VGA_WIDTH
PaperLine(i) ==
  Cardinality({m \in 1..i-1 : out[m].char = LF \/ PaperColumn(m) = VGA_WIDTH - 1})

\* A cell shows a character, in its colour unless the character is above 127.
Looks(cell, w) ==
  cell.char = w.char /\ (w.char \notin HighChars => cell.color = w.color)

\* What the screen shows and where the cursor is, once nobody prints: the last
\* lines of all text printed so far, each character in its colour (above 127
\* entry() loses it), laid out line by line; where no handler ran in the middle
\* of a character.  The code gets there by scrolling, one character at a time.
ScreenShowsText ==
  ~Busy("kmain") /\ ~Busy("irq") /\ ~nested /\ ~moved =>
    LET end == Len(out) + 1
        top == IF PaperLine(end) < VGA_HEIGHT THEN 0 ELSE PaperLine(end) - VGA_HEIGHT + 1
        At(y, x) == {i \in DOMAIN out : /\ out[i].char # LF
                                        /\ PaperLine(i) = top + y /\ PaperColumn(i) = x}
    IN /\ vga_row = PaperLine(end) - top /\ vga_column = PaperColumn(end)
       /\ \A y \in 0..VGA_HEIGHT-1, x \in 0..VGA_WIDTH-1 :
            LET cell == vga_buffer[y * VGA_WIDTH + x]
            IN IF At(y, x) = {} THEN cell.char = Blank
               ELSE \E i \in At(y, x) : Looks(cell, out[i])
=============================================================================
