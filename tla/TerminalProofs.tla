--------------------------- MODULE TerminalProofs ---------------------------
(***************************************************************************)
(* Proofs about the terminal, for a screen of any size, any texts and any  *)
(* number of interrupts.                                                   *)
(*                                                                         *)
(* The row may be VGA_HEIGHT only from the store of the row to the end of  *)
(* the scroll, and the column VGA_WIDTH only between its two stores, in    *)
(* the thread that runs; a handler that begins elsewhere finds both on the *)
(* screen and leaves them so, whatever kmain still has in its registers.   *)
(*                                                                         *)
(* What the screen shows is compared with the paper of ScreenShowsText at  *)
(* each access: before and after the character is drawn, and before and    *)
(* after the scroll.  The paper is never computed for a whole text; it is  *)
(* enough how the place of the next character depends on the last one.     *)
(***************************************************************************)
EXTENDS Terminal, FiniteSetTheorems, SequenceTheorems, WellFoundedInduction,
        NaturalsInduction, TLAPS

Steps == {"idle", "newline", "position", "put", "column", "wrap", "reset",
          "next_row", "store_row", "check", "scroll", "back", "store_back"}

TypeOK ==
  /\ pc \in [Threads -> Steps]
  /\ vga_row \in Int /\ vga_column \in Int
  /\ row \in [Threads -> Int] /\ col \in [Threads -> Int]
  /\ text = [t \in Threads |-> text[t]]
  /\ raced \in BOOLEAN /\ stray \in BOOLEAN

\* Where the row is VGA_HEIGHT
Scrolling == {"scroll", "back", "store_back"}

\* The cursor in memory and in the registers of the thread that runs
CursorOf(t) ==
  /\ pc[t] # "reset" => vga_column \in 0..VGA_WIDTH-1
  /\ pc[t] = "reset" => vga_column = VGA_WIDTH
  /\ pc[t] = "put" => col[t] \in 0..VGA_WIDTH-1
  /\ pc[t] = "wrap" => col[t] \in 1..VGA_WIDTH
  /\ pc[t] \notin Scrolling \union {"check"} => vga_row \in 0..VGA_HEIGHT-1
  /\ pc[t] = "put" => row[t] \in 0..VGA_HEIGHT-1
  /\ pc[t] = "store_row" => row[t] \in 1..VGA_HEIGHT
  /\ pc[t] = "check" => /\ vga_row \in 0..VGA_HEIGHT /\ row[t] \in 0..VGA_HEIGHT
                        /\ row[t] = VGA_HEIGHT <=> vga_row = VGA_HEIGHT
  /\ pc[t] \in Scrolling => vga_row = VGA_HEIGHT
  /\ pc[t] = "store_back" => row[t] = VGA_HEIGHT - 1

\* kmain while a handler runs that began with the cursor on the screen
Parked ==
  /\ pc["kmain"] \notin Scrolling \union {"reset"}
  /\ pc["kmain"] = "put" => col["kmain"] \in 0..VGA_WIDTH-1
  /\ pc["kmain"] = "wrap" => col["kmain"] \in 1..VGA_WIDTH
  /\ pc["kmain"] \in {"put", "check"} => row["kmain"] \in 0..VGA_HEIGHT-1
  /\ pc["kmain"] = "store_row" => row["kmain"] \in 1..VGA_HEIGHT

CursorInv ==
  raced = FALSE =>
    /\ stray = FALSE
    /\ Busy("irq") => CursorOf("irq") /\ Parked
    /\ ~Busy("irq") => CursorOf("kmain")

ScreenInv == TypeOK /\ CursorInv

-----------------------------------------------------------------------------
(* The steps of vga_putchar                                                *)

\* A position on the screen is a cell.
LEMMA OnScreen ==
  ASSUME NEW r \in 0..VGA_HEIGHT-1, NEW c \in 0..VGA_WIDTH-1
  PROVE  r * VGA_WIDTH + c \in Cells
<1>1. VGA_WIDTH \in Nat /\ VGA_HEIGHT \in Nat /\ r \in Nat /\ c \in Nat
  BY ScreenAssumption
<1>2. (VGA_HEIGHT - 1 - r) * VGA_WIDTH >= 0
  BY <1>1, SMT
<1>3. (VGA_HEIGHT - 1 - r) * VGA_WIDTH = VGA_HEIGHT * VGA_WIDTH - VGA_WIDTH - r * VGA_WIDTH
  BY <1>1, SMT
<1>4. VGA_HEIGHT * VGA_WIDTH = VGA_WIDTH * VGA_HEIGHT
  BY <1>1, SMT
<1>5. r * VGA_WIDTH >= 0 /\ r * VGA_WIDTH \in Int /\ VGA_HEIGHT * VGA_WIDTH \in Int
  BY <1>1, SMT
<1>6. r * VGA_WIDTH + c <= VGA_WIDTH * VGA_HEIGHT - 1
  BY <1>1, <1>2, <1>3, <1>4, <1>5
<1> QED
  BY <1>1, <1>5, <1>6 DEF Cells

\* A step of thread t leaves the other one's registers and text alone.
Apart(t) ==
  \A u \in Threads \ {t} :
    pc'[u] = pc[u] /\ row'[u] = row[u] /\ col'[u] = col[u] /\ text'[u] = text[u]

\* What every step does to the invariant, seen from the thread that makes it
Keeps(t) ==
  /\ TypeOK' /\ Apart(t) /\ raced' = raced
  /\ CursorOf(t) /\ stray = FALSE => CursorOf(t)' /\ stray' = FALSE

LEMMA NextCharKeeps ==
  ASSUME TypeOK, NEW t \in Threads, NextChar(t)  PROVE Keeps(t)
<1>1. PICK to \in {"newline", "position"} : pc[t] = "idle" /\ pc' = [pc EXCEPT ![t] = to]
  BY DEF NextChar, Goto
<1>2. UNCHANGED <<vga_row, vga_column, text, row, col, raced, stray>>
  BY DEF NextChar, cursor
<1> QED
  BY <1>1, <1>2 DEF Keeps, TypeOK, CursorOf, Apart, Steps, Scrolling

LEMMA NewlineKeeps ==
  ASSUME TypeOK, NEW t \in Threads, Newline(t)  PROVE Keeps(t)
<1>1. pc[t] = "newline" /\ pc' = [pc EXCEPT ![t] = "next_row"] /\ vga_column' = 0
  BY DEF Newline, Goto
<1>2. UNCHANGED <<vga_row, text, row, col, raced, stray>>
  BY DEF Newline, history
<1> QED
  BY <1>1, <1>2, ScreenAssumption
     DEF Keeps, TypeOK, CursorOf, Apart, Steps, Scrolling

LEMMA LoadPositionKeeps ==
  ASSUME TypeOK, NEW t \in Threads, LoadPosition(t)  PROVE Keeps(t)
<1>1. /\ pc[t] = "position" /\ pc' = [pc EXCEPT ![t] = "put"]
      /\ row' = [row EXCEPT ![t] = vga_row] /\ col' = [col EXCEPT ![t] = vga_column]
  BY DEF LoadPosition, Goto
<1>2. UNCHANGED <<vga_row, vga_column, text, raced, stray>>
  BY DEF LoadPosition, cursor, history
<1> QED
  BY <1>1, <1>2, ScreenAssumption
     DEF Keeps, TypeOK, CursorOf, Apart, Steps, Scrolling

LEMMA PutEntryKeeps ==
  ASSUME TypeOK, NEW t \in Threads, PutEntry(t)  PROVE Keeps(t)
<1>1. /\ pc[t] = "put" /\ pc' = [pc EXCEPT ![t] = "column"]
      /\ stray' = (stray \/ row[t] * VGA_WIDTH + col[t] \notin Cells)
  BY DEF PutEntry, Goto
<1>2. UNCHANGED <<vga_row, vga_column, text, row, col, raced>>
  BY DEF PutEntry, cursor
<1>3. stray' \in BOOLEAN
  BY <1>1
<1>4. CursorOf(t) => row[t] * VGA_WIDTH + col[t] \in Cells
  BY <1>1, OnScreen DEF CursorOf
<1>5. CursorOf(t) /\ stray = FALSE => stray' = FALSE
  BY <1>1, <1>4
<1> QED
  BY <1>1, <1>2, <1>3, <1>5
     DEF Keeps, TypeOK, CursorOf, Apart, Steps, Scrolling

LEMMA LoadColumnKeeps ==
  ASSUME TypeOK, NEW t \in Threads, LoadColumn(t)  PROVE Keeps(t)
<1>1. /\ pc[t] = "column" /\ pc' = [pc EXCEPT ![t] = "wrap"]
      /\ col' = [col EXCEPT ![t] = vga_column + 1]
  BY DEF LoadColumn, Goto
<1>2. UNCHANGED <<vga_row, vga_column, text, row, raced, stray>>
  BY DEF LoadColumn, cursor, history
<1> QED
  BY <1>1, <1>2, ScreenAssumption
     DEF Keeps, TypeOK, CursorOf, Apart, Steps, Scrolling

LEMMA StoreColumnKeeps ==
  ASSUME TypeOK, NEW t \in Threads, StoreColumn(t)  PROVE Keeps(t)
<1>1. /\ pc[t] = "wrap" /\ vga_column' = col[t]
      /\ row' = [row EXCEPT ![t] = vga_row]
      /\ \/ pc' = [pc EXCEPT ![t] = "reset"] /\ col[t] = VGA_WIDTH
         \/ pc' = [pc EXCEPT ![t] = "check"] /\ col[t] # VGA_WIDTH
  BY DEF StoreColumn, Goto, Wraps
<1>2. UNCHANGED <<vga_row, text, col, raced, stray>>
  BY DEF StoreColumn, history
<1> QED
  BY <1>1, <1>2, ScreenAssumption DEF Keeps, TypeOK, CursorOf, Apart, Steps, Scrolling

LEMMA ResetColumnKeeps ==
  ASSUME TypeOK, NEW t \in Threads, ResetColumn(t)  PROVE Keeps(t)
<1>1. /\ pc[t] \in {"reset", "wrap"} /\ pc' = [pc EXCEPT ![t] = "next_row"]
      /\ vga_column' = 0
  BY DEF ResetColumn, Goto
<1>2. UNCHANGED <<vga_row, text, row, col, raced, stray>>
  BY DEF ResetColumn, history
<1> QED
  BY <1>1, <1>2, ScreenAssumption DEF Keeps, TypeOK, CursorOf, Apart, Steps, Scrolling

LEMMA LoadRowKeeps ==
  ASSUME TypeOK, NEW t \in Threads, LoadRow(t)  PROVE Keeps(t)
<1>1. /\ pc[t] = "next_row" /\ pc' = [pc EXCEPT ![t] = "store_row"]
      /\ row' = [row EXCEPT ![t] = vga_row + 1]
  BY DEF LoadRow, Goto
<1>2. UNCHANGED <<vga_row, vga_column, text, col, raced, stray>>
  BY DEF LoadRow, cursor, history
<1> QED
  BY <1>1, <1>2, ScreenAssumption
     DEF Keeps, TypeOK, CursorOf, Apart, Steps, Scrolling

LEMMA StoreRowKeeps ==
  ASSUME TypeOK, NEW t \in Threads, StoreRow(t)  PROVE Keeps(t)
<1>1. /\ pc[t] = "store_row" /\ pc' = [pc EXCEPT ![t] = "check"] /\ vga_row' = row[t]
  BY DEF StoreRow, Goto
<1>2. UNCHANGED <<vga_column, text, row, col, raced, stray>>
  BY DEF StoreRow, history
<1> QED
  BY <1>1, <1>2, ScreenAssumption
     DEF Keeps, TypeOK, CursorOf, Apart, Steps, Scrolling

LEMMA CheckKeeps ==
  ASSUME TypeOK, NEW t \in Threads, Check(t)  PROVE Keeps(t)
<1>1. PICK r \in {row[t], vga_row} :
        /\ pc[t] = "check"
        /\ \/ pc' = [pc EXCEPT ![t] = "scroll"] /\ r = VGA_HEIGHT /\ text' = text
           \/ /\ pc' = [pc EXCEPT ![t] = "idle"] /\ r # VGA_HEIGHT
              /\ text' = [text EXCEPT ![t] = Tail(@)]
  BY DEF Check, Goto, AtBottom, Finish
<1>2. UNCHANGED <<vga_row, vga_column, row, col, raced, stray>>
  BY DEF Check, cursor, history
<1>3. text' = [u \in Threads |-> text'[u]] /\ \A u \in Threads \ {t} : text'[u] = text[u]
  BY <1>1 DEF TypeOK
<1>4. TypeOK' /\ Apart(t) /\ raced' = raced
  BY <1>1, <1>2, <1>3 DEF TypeOK, Apart, Steps
<1>5. ASSUME CursorOf(t), stray = FALSE  PROVE CursorOf(t)' /\ stray' = FALSE
  <2>1. CASE pc'[t] = "scroll" /\ r = VGA_HEIGHT
    <3>1. vga_row' = VGA_HEIGHT /\ vga_column' \in 0..VGA_WIDTH-1
      BY <1>1, <1>2, <1>5, <2>1 DEF CursorOf
    <3> QED
      BY <1>5, <2>1, <3>1, <1>2 DEF CursorOf, Scrolling
  <2>2. CASE pc'[t] = "idle" /\ r # VGA_HEIGHT
    <3>1. vga_row' \in 0..VGA_HEIGHT-1 /\ vga_column' \in 0..VGA_WIDTH-1
      BY <1>1, <1>2, <1>5, <2>2, ScreenAssumption DEF CursorOf
    <3> QED
      BY <1>2, <1>5, <2>2, <3>1 DEF CursorOf, Scrolling
  <2> QED
    BY <1>1, <2>1, <2>2 DEF TypeOK
<1> QED
  BY <1>4, <1>5 DEF Keeps

LEMMA ScrollKeeps ==
  ASSUME TypeOK, NEW t \in Threads, Scroll(t)  PROVE Keeps(t)
<1>1. pc[t] = "scroll" /\ pc' = [pc EXCEPT ![t] = "back"]
  BY DEF Scroll, Goto
<1>2. UNCHANGED <<vga_row, vga_column, text, row, col, raced, stray>>
  BY DEF Scroll, cursor, history
<1> QED
  BY <1>1, <1>2 DEF Keeps, TypeOK, CursorOf, Apart, Steps, Scrolling

LEMMA LoadBackKeeps ==
  ASSUME TypeOK, NEW t \in Threads, LoadBack(t)  PROVE Keeps(t)
<1>1. /\ pc[t] = "back" /\ pc' = [pc EXCEPT ![t] = "store_back"]
      /\ row' = [row EXCEPT ![t] = vga_row - 1]
  BY DEF LoadBack, Goto
<1>2. UNCHANGED <<vga_row, vga_column, text, col, raced, stray>>
  BY DEF LoadBack, cursor, history
<1> QED
  BY <1>1, <1>2, ScreenAssumption
     DEF Keeps, TypeOK, CursorOf, Apart, Steps, Scrolling

LEMMA StoreBackKeeps ==
  ASSUME TypeOK, NEW t \in Threads, StoreBack(t)  PROVE Keeps(t)
<1>1. /\ pc[t] = "store_back" /\ pc' = [pc EXCEPT ![t] = "idle"] /\ vga_row' = row[t]
      /\ text' = [text EXCEPT ![t] = Tail(@)]
  BY DEF StoreBack, Goto, Finish
<1>2. UNCHANGED <<vga_column, row, col, raced, stray>>
  BY DEF StoreBack, history
<1>3. text' = [u \in Threads |-> text'[u]] /\ \A u \in Threads \ {t} : text'[u] = text[u]
  BY <1>1 DEF TypeOK
<1> QED
  BY <1>1, <1>2, <1>3, ScreenAssumption
     DEF Keeps, TypeOK, CursorOf, Apart, Steps, Scrolling

LEMMA PutcharKeeps ==
  ASSUME TypeOK, NEW t \in Threads, vga_putchar(t)  PROVE Keeps(t)
BY NextCharKeeps, NewlineKeeps, LoadPositionKeeps, PutEntryKeeps, LoadColumnKeeps,
   StoreColumnKeeps, ResetColumnKeeps, LoadRowKeeps, StoreRowKeeps, CheckKeeps, ScrollKeeps,
   LoadBackKeeps, StoreBackKeeps DEF vga_putchar

-----------------------------------------------------------------------------
(* Both threads                                                            *)

LEMMA PutcharRuns ==
  ASSUME NEW t \in Threads, vga_putchar(t)
  PROVE  Runs(t) /\ Busy(t)
BY DEF vga_putchar, NextChar, Newline, LoadPosition, PutEntry, LoadColumn, StoreColumn,
       ResetColumn, LoadRow, StoreRow, Check, Scroll, LoadBack, StoreBack, Goto, Busy

LEMMA KmainKeeps ==
  ASSUME ScreenInv, vga_putchar("kmain")
  PROVE  ScreenInv'
<1>1. "kmain" \in Threads /\ "irq" \in Threads \ {"kmain"}
  BY DEF Threads
<1>2. Keeps("kmain") /\ ~Busy("irq")
  BY <1>1, PutcharKeeps, PutcharRuns DEF ScreenInv, Runs
<1>3. (~Busy("irq"))'
  BY <1>1, <1>2 DEF Keeps, Apart, Busy
<1>4. CursorInv'
  BY <1>2, <1>3 DEF ScreenInv, CursorInv, Keeps
<1> QED
  BY <1>2, <1>4 DEF ScreenInv, Keeps

LEMMA IrqKeeps ==
  ASSUME ScreenInv, vga_putchar("irq")
  PROVE  ScreenInv'
<1>1. "irq" \in Threads /\ "kmain" \in Threads \ {"irq"}
  BY DEF Threads
<1>2. Keeps("irq") /\ Busy("irq")
  BY <1>1, PutcharKeeps, PutcharRuns DEF ScreenInv
<1>3. ASSUME raced' = FALSE
      PROVE  stray' = FALSE /\ CursorOf("irq")' /\ Parked'
  <2>1. stray = FALSE /\ CursorOf("irq") /\ Parked
    BY <1>2, <1>3 DEF ScreenInv, CursorInv, Keeps
  <2>2. Parked'
    BY <1>1, <1>2, <2>1 DEF Keeps, Apart, Parked
  <2> QED
    BY <1>2, <2>1, <2>2 DEF Keeps
<1>4. ASSUME raced' = FALSE, (~Busy("irq"))'
      PROVE  CursorOf("kmain")'
  <2>1. pc'["irq"] = "idle"
    BY <1>4 DEF Busy
  <2>2. vga_row' \in 0..VGA_HEIGHT-1 /\ vga_column' \in 0..VGA_WIDTH-1
    BY <1>3, <1>4, <2>1 DEF CursorOf, Scrolling
  <2>3. Parked'
    BY <1>3, <1>4
  <2>4. pc'["kmain"] = "check" =>
          /\ vga_row' \in 0..VGA_HEIGHT /\ row'["kmain"] \in 0..VGA_HEIGHT
          /\ row'["kmain"] # VGA_HEIGHT /\ vga_row' # VGA_HEIGHT
    BY <2>2, <2>3, ScreenAssumption DEF Parked
  <2> QED
    BY <2>2, <2>3, <2>4 DEF CursorOf, Parked, Scrolling
<1>5. CursorInv'
  BY <1>3, <1>4 DEF CursorInv
<1> QED
  BY <1>2, <1>5 DEF ScreenInv, Keeps

LEMMA KmainPrintsKeeps ==
  ASSUME ScreenInv, NEW s, KmainPrints(s)
  PROVE  ScreenInv'
<1>1. /\ text' = [text EXCEPT !["kmain"] = s]
      /\ UNCHANGED <<vga_row, vga_column, pc, row, col, raced, stray>>
  BY DEF KmainPrints, cursor, history
<1>2. text'["irq"] = text["irq"] /\ text' = [t \in Threads |-> text'[t]]
  BY <1>1 DEF ScreenInv, TypeOK, Threads
<1>3. Busy("irq")' <=> Busy("irq")
  BY <1>1, <1>2 DEF Busy
<1> QED
  BY <1>1, <1>2, <1>3 DEF ScreenInv, TypeOK, CursorInv, CursorOf, Parked

LEMMA IrqPrintsKeeps ==
  ASSUME ScreenInv, NEW s, IrqPrints(s)
  PROVE  ScreenInv'
<1>1. /\ text' = [text EXCEPT !["irq"] = s]
      /\ UNCHANGED <<vga_row, vga_column, pc, row, col, stray>>
      /\ ~Busy("irq") /\ raced' = (raced \/ vga_row = VGA_HEIGHT \/ vga_column = VGA_WIDTH)
  BY DEF IrqPrints, cursor
<1>2. text' = [t \in Threads |-> text'[t]] /\ raced' \in BOOLEAN
  BY <1>1 DEF ScreenInv, TypeOK, Threads
<1>3. TypeOK'
  BY <1>1, <1>2 DEF ScreenInv, TypeOK
<1>4. ASSUME raced' = FALSE
      PROVE  stray' = FALSE /\ CursorOf("irq")' /\ Parked' /\ CursorOf("kmain")'
  <2>1. raced = FALSE /\ vga_row # VGA_HEIGHT /\ vga_column # VGA_WIDTH
    BY <1>1, <1>4 DEF ScreenInv, TypeOK
  <2>2. stray = FALSE /\ CursorOf("kmain")
    BY <1>1, <2>1 DEF ScreenInv, CursorInv
  <2>3. pc["kmain"] \in Steps
    BY DEF ScreenInv, TypeOK, Threads
  <2>4. vga_row \in 0..VGA_HEIGHT-1 /\ vga_column \in 0..VGA_WIDTH-1
    BY <2>1, <2>2, <2>3, ScreenAssumption DEF CursorOf, Steps, Scrolling
  <2>5. Parked
    BY <2>1, <2>2, ScreenAssumption DEF CursorOf, Parked, Scrolling
  <2>6. pc["irq"] = "idle"
    BY <1>1 DEF Busy
  <2>7. CursorOf("irq")
    BY <2>4, <2>6 DEF CursorOf, Scrolling
  <2> QED
    BY <1>1, <2>2, <2>5, <2>7 DEF CursorOf, Parked
<1> QED
  BY <1>3, <1>4 DEF ScreenInv, CursorInv

LEMMA SetPosKeeps ==
  ASSUME ScreenInv, NEW x \in 0..VGA_WIDTH-1, NEW y \in 0..VGA_HEIGHT-1, vga_set_pos(x, y)
  PROVE  ScreenInv'
<1>1. /\ vga_column' = x /\ vga_row' = y /\ ~Busy("irq") /\ ~Busy("kmain")
      /\ UNCHANGED <<pc, text, row, col, raced, stray>>
  BY DEF vga_set_pos, Runs
<1>2. TypeOK'
  BY <1>1 DEF ScreenInv, TypeOK
<1>3. CursorOf("kmain")' /\ (~Busy("irq"))'
  BY <1>1 DEF CursorOf, Busy, Scrolling
<1>4. CursorInv'
  BY <1>1, <1>3 DEF ScreenInv, CursorInv
<1> QED
  BY <1>2, <1>4 DEF ScreenInv

LEMMA ScreenNext == ScreenInv /\ [Next]_vars => ScreenInv'
<1> SUFFICES ASSUME ScreenInv, [Next]_vars  PROVE ScreenInv'
  OBVIOUS
<1>1. CASE \E t \in Threads : vga_putchar(t)
  BY <1>1, KmainKeeps, IrqKeeps DEF Threads
<1>2. CASE \E s \in KmainText : KmainPrints(s)
  BY <1>2, KmainPrintsKeeps
<1>3. CASE \E s \in IrqText : IrqPrints(s)
  BY <1>3, IrqPrintsKeeps
<1>4. CASE \E i \in DOMAIN Colors : vga_set_color(Colors[i])
  <2>1. UNCHANGED <<vga_row, vga_column, pc, text, row, col, raced, stray>>
    BY <1>4 DEF vga_set_color, cursor, history
  <2> QED
    BY <2>1 DEF ScreenInv, TypeOK, CursorInv, CursorOf, Parked, Busy
<1>5. CASE \E x \in 0..VGA_WIDTH-1, y \in 0..VGA_HEIGHT-1 : vga_set_pos(x, y)
  BY <1>5, SetPosKeeps
<1>6. CASE UNCHANGED vars
  <2>1. UNCHANGED <<vga_row, vga_column, pc, text, row, col, raced, stray>>
    BY <1>6 DEF vars, cursor, history
  <2> QED
    BY <2>1 DEF ScreenInv, TypeOK, CursorInv, CursorOf, Parked, Busy
<1> QED
  BY <1>1, <1>2, <1>3, <1>4, <1>5, <1>6 DEF Next, Quiet

LEMMA ScreenInit == Init => ScreenInv
<1> SUFFICES ASSUME Init  PROVE ScreenInv
  OBVIOUS
<1>1. /\ pc = [t \in Threads |-> "idle"] /\ text = [t \in Threads |-> <<>>]
      /\ row = [t \in Threads |-> 0] /\ col = [t \in Threads |-> 0]
      /\ vga_row = 0 /\ vga_column = 0 /\ raced = FALSE /\ stray = FALSE
  BY DEF Init
<1>2. TypeOK
  <2>1. text = [t \in Threads |-> text[t]]
    BY <1>1, Zenon
  <2>2. pc \in [Threads -> Steps]
    BY <1>1 DEF Steps
  <2>3. /\ vga_row \in Int /\ vga_column \in Int
        /\ row \in [Threads -> Int] /\ col \in [Threads -> Int]
    BY <1>1
  <2>4. raced \in BOOLEAN /\ stray \in BOOLEAN
    BY <1>1
  <2> QED
    BY <2>1, <2>2, <2>3, <2>4, Zenon DEF TypeOK
<1>3. ~Busy("irq") /\ CursorOf("kmain")
  BY <1>1, ScreenAssumption DEF Busy, CursorOf, Threads, Scrolling
<1> QED
  BY <1>1, <1>2, <1>3 DEF ScreenInv, CursorInv

\* On a screen of any size, whatever kmain and the handler print and wherever
\* the handler interrupts vga_putchar, unless it begins while vga_row is
\* VGA_HEIGHT or vga_column VGA_WIDTH: no store misses the screen, and the cursor
\* is on it once nobody prints.
THEOREM ScreenSafe == Spec => []InScreen
<1>1. ScreenInv => InScreen
  <2> SUFFICES ASSUME ScreenInv, ~raced
               PROVE  /\ ~stray
                      /\ vga_column \in 0..VGA_WIDTH /\ vga_row \in 0..VGA_HEIGHT
                      /\ (~Busy("kmain") /\ ~Busy("irq")) =>
                           vga_column < VGA_WIDTH /\ vga_row < VGA_HEIGHT
    BY DEF InScreen
  <2>1. raced = FALSE
    BY DEF ScreenInv, TypeOK
  <2>2. stray = FALSE
    BY <2>1 DEF ScreenInv, CursorInv
  <2>3. pc["irq"] \in Steps /\ pc["kmain"] \in Steps
    BY DEF ScreenInv, TypeOK, Threads
  <2>4. CursorOf("irq") \/ (~Busy("irq") /\ CursorOf("kmain"))
    BY <2>1 DEF ScreenInv, CursorInv
  <2>5. vga_column \in 0..VGA_WIDTH /\ vga_row \in 0..VGA_HEIGHT
    BY <2>3, <2>4, ScreenAssumption DEF CursorOf, Steps, Scrolling
  <2>6. ASSUME ~Busy("kmain"), ~Busy("irq")  PROVE vga_column < VGA_WIDTH /\ vga_row < VGA_HEIGHT
    <3>1. pc["kmain"] = "idle" /\ pc["irq"] = "idle"
      BY <2>6 DEF Busy
    <3>2. vga_column \in 0..VGA_WIDTH-1 /\ vga_row \in 0..VGA_HEIGHT-1
      BY <2>4, <3>1 DEF CursorOf, Scrolling
    <3> QED
      BY <3>2, ScreenAssumption
  <2> QED
    BY <2>2, <2>5, <2>6
<1> QED
  BY <1>1, ScreenInit, ScreenNext, PTL DEF Spec

-----------------------------------------------------------------------------
(* The picture on the screen                                               *)

\* The line of the paper at the top of the screen once the cursor is where
\* character i belongs
Top(i) == IF PaperLine(i) < VGA_HEIGHT THEN 0 ELSE PaperLine(i) - VGA_HEIGHT + 1

\* The characters among the first k that belong into column x of a line
Printed(k, line, x) ==
  {i \in 1..k : out[i].char # LF /\ PaperLine(i) = line /\ PaperColumn(i) = x}

\* The cell in row y and column x shows the first k characters, from line top on.
Shown(k, top, y, x) ==
  IF Printed(k, top + y, x) = {} THEN vga_buffer[y * VGA_WIDTH + x].char = Blank
  ELSE \E i \in Printed(k, top + y, x) : Looks(vga_buffer[y * VGA_WIDTH + x], out[i])

Shows(k, top) == \A y \in 0..VGA_HEIGHT-1, x \in 0..VGA_WIDTH-1 : Shown(k, top, y, x)

\* The cursor in the middle of the last character: before it has moved, with
\* the column behind the end of its row, with the column moved, and with the
\* row moved
Before ==
  vga_row = PaperLine(Len(out)) - Top(Len(out)) /\ vga_column = PaperColumn(Len(out))
Beyond ==
  /\ vga_row = PaperLine(Len(out)) - Top(Len(out)) /\ PaperColumn(Len(out) + 1) = 0
  /\ PaperLine(Len(out) + 1) = PaperLine(Len(out)) + 1
Between ==
  /\ vga_row = PaperLine(Len(out)) - Top(Len(out)) /\ vga_column = PaperColumn(Len(out) + 1)
  /\ PaperLine(Len(out) + 1) = PaperLine(Len(out)) + 1
Behind ==
  /\ vga_row = PaperLine(Len(out) + 1) - Top(Len(out))
  /\ vga_column = PaperColumn(Len(out) + 1)

\* The picture: without the last character, with it, and scrolled behind it
Undrawn  == Shows(Len(out) - 1, Top(Len(out)))
Drawn    == Shows(Len(out), Top(Len(out)))
Scrolled == Shows(Len(out), Top(Len(out) + 1))

\* Thread t prints the last character of out.
Prints(t) ==
  /\ Len(out) >= 1
  /\ out[Len(out)] = Wanted(Head(text[t]), vga_color)
  /\ pc[t] \in {"position", "put"} => Undrawn
  /\ pc[t] \in {"newline", "column", "wrap", "reset", "next_row", "store_row", "check",
               "scroll"} => Drawn
  /\ pc[t] \in {"back", "store_back"} => Scrolled
  /\ pc[t] = "newline" => Head(text[t]) = LF
  /\ pc[t] \in {"position", "put", "column", "wrap", "reset"} => Head(text[t]) # LF
  /\ pc[t] \in {"newline", "position", "put", "column", "wrap"} => Before
  /\ pc[t] = "put" => row[t] = vga_row /\ col[t] = vga_column
  /\ pc[t] = "wrap" => col[t] = vga_column + 1
  /\ pc[t] = "reset" => Beyond
  /\ pc[t] \in {"next_row", "store_row"} => Between
  /\ pc[t] = "store_row" => row[t] = vga_row + 1
  /\ pc[t] \in {"check", "scroll", "back", "store_back"} => Behind
  /\ pc[t] = "check" => row[t] = vga_row
  /\ pc[t] \in {"scroll", "back", "store_back"} => vga_row = VGA_HEIGHT
  /\ pc[t] = "store_back" => row[t] = VGA_HEIGHT - 1

\* Nobody prints: the cursor and the picture are those of all of out.
Resting ==
  /\ Scrolled
  /\ vga_row = PaperLine(Len(out) + 1) - Top(Len(out) + 1)
  /\ vga_column = PaperColumn(Len(out) + 1)

PictureInv ==
  nested = FALSE /\ moved = FALSE =>
    /\ pc["kmain"] = "idle" \/ ~Busy("irq")
    /\ pc["kmain"] = "idle" /\ pc["irq"] = "idle" => Resting
    /\ \A t \in Threads : pc[t] # "idle" => Prints(t)

OutOK ==
  /\ \E S : out \in Seq(S)
  /\ nested \in BOOLEAN /\ moved \in BOOLEAN

-----------------------------------------------------------------------------
(* The paper                                                               *)

\* Some positions of the first k, if any, have a last one.
LEMMA LastOf ==
  ASSUME NEW k \in Nat, NEW M \in SUBSET (1..k), M # {}
  PROVE  \E m \in M : \A n \in M : n <= m
<1> DEFINE A == {k - m : m \in M}
<1>1. A \in SUBSET Nat /\ A # {}
  <2>1. \A m \in M : m \in 1..k /\ k - m \in Nat
    OBVIOUS
  <2>2. PICK m \in M : TRUE
    OBVIOUS
  <2>3. k - m \in A
    OBVIOUS
  <2> QED BY <2>1, <2>3
<1>2. PICK x \in A : \A y \in A : ~(<<y, x>> \in OpToRel(<, Nat))
  <2> HIDE DEF A
  <2> QED BY <1>1, WFMin, NatLessThanWellFounded, Zenon
<1>3. \A y \in A : ~(y < x)
  BY <1>1, <1>2 DEF OpToRel
<1>4. PICK m \in M : x = k - m
  OBVIOUS
<1>5. ASSUME NEW n \in M  PROVE n <= m
  <2>1. ~(k - n < k - m)
    BY <1>3, <1>4
  <2> QED BY <2>1
<1> QED BY <1>5

LEMMA LineBegins ==
  ASSUME NEW i \in Nat \ {0}
  PROVE  LineStart(i) \in 0..i-1
<1> DEFINE nl == {m \in 1..i-1 : out[m].char = LF}
<1>1. nl \in SUBSET (1..i-1) /\ i - 1 \in Nat
  OBVIOUS
<1>2. LineStart(i) = IF nl = {} THEN 0 ELSE CHOOSE m \in nl : \A n \in nl : n <= m
  BY DEF LineStart
<1> HIDE DEF nl
<1>3. nl # {} => \E m \in nl : \A n \in nl : n <= m
  BY <1>1, LastOf
<1>4. nl # {} => LineStart(i) \in nl
  BY <1>2, <1>3
<1>5. CASE nl = {}
  BY <1>2, <1>5
<1>6. CASE nl # {}
  <2>1. \A m \in nl : m \in 1..i-1
    BY <1>1
  <2>2. LineStart(i) \in 1..i-1
    BY <1>4, <1>6, <2>1
  <2> QED BY <2>2
<1> QED BY <1>5, <1>6

LEMMA LinesAreNat ==
  ASSUME NEW i \in Nat \ {0}
  PROVE  /\ PaperLine(i) \in Nat
         /\ IsFiniteSet({m \in 1..i-1 : out[m].char = LF \/ PaperColumn(m) = VGA_WIDTH - 1})
<1>1. IsFiniteSet(1..i-1)
  BY FS_Interval
<1>2. IsFiniteSet({m \in 1..i-1 : out[m].char = LF \/ PaperColumn(m) = VGA_WIDTH - 1})
  BY <1>1, FS_Subset
<1> QED
  BY <1>2, FS_CardinalityType DEF PaperLine

\* Later characters are on the same line or on a later one.
LEMMA LinesGrow ==
  ASSUME NEW i \in Nat \ {0}, NEW j \in Nat, i <= j
  PROVE  PaperLine(i) <= PaperLine(j)
<1> DEFINE Ends(k) == {m \in 1..k-1 : out[m].char = LF \/ PaperColumn(m) = VGA_WIDTH - 1}
<1>1. Ends(i) \subseteq Ends(j)
  OBVIOUS
<1>2. IsFiniteSet(Ends(j))
  <2>1. j \in Nat \ {0}
    OBVIOUS
  <2> QED BY <2>1, LinesAreNat
<1>3. Cardinality(Ends(i)) <= Cardinality(Ends(j))
  BY <1>1, <1>2, FS_Subset
<1> QED
  BY <1>3 DEF PaperLine

LEMMA ModStep ==
  ASSUME NEW a \in Nat
  PROVE  (a + 1) % VGA_WIDTH =
           IF (a % VGA_WIDTH) + 1 = VGA_WIDTH THEN 0 ELSE (a % VGA_WIDTH) + 1
<1> DEFINE W == VGA_WIDTH  q == a \div W  r == a % W
<1>1. W \in Nat /\ W > 0
  BY ScreenAssumption
<1>2. q \in Nat /\ r \in 0..W-1 /\ a = q * W + r
  BY <1>1, SMT
<1>3. (q + 1) * W = q * W + W
  BY <1>1, <1>2
<1> HIDE DEF W, q, r
<1>4. CASE r + 1 = W
  <2>1. a + 1 = (q + 1) * W
    BY <1>1, <1>2, <1>3, <1>4
  <2>2. (q + 1) * W % W = 0
    BY <1>1, <1>2
  <2> QED BY <1>4, <2>1, <2>2 DEF W, r
<1>5. CASE r + 1 # W
  <2>1. a + 1 = q * W + (r + 1) /\ r + 1 \in 0..W-1
    BY <1>1, <1>2, <1>5
  <2>2. (q * W + (r + 1)) % W = r + 1
    BY <1>1, <1>2, <2>1
  <2> QED BY <1>5, <2>1, <2>2 DEF W, r
<1> QED BY <1>4, <1>5

\* Where the character behind character i belongs.
LEMMA PaperStep ==
  ASSUME NEW i \in Nat \ {0}
  PROVE  /\ PaperColumn(i) \in 0..VGA_WIDTH-1 /\ PaperColumn(i + 1) \in 0..VGA_WIDTH-1
         /\ out[i].char = LF =>
              PaperColumn(i + 1) = 0 /\ PaperLine(i + 1) = PaperLine(i) + 1
         /\ out[i].char # LF /\ PaperColumn(i) + 1 = VGA_WIDTH =>
              PaperColumn(i + 1) = 0 /\ PaperLine(i + 1) = PaperLine(i) + 1
         /\ out[i].char # LF /\ PaperColumn(i) + 1 # VGA_WIDTH =>
              PaperColumn(i + 1) = PaperColumn(i) + 1 /\ PaperLine(i + 1) = PaperLine(i)
<1> DEFINE nl(k) == {m \in 1..k-1 : out[m].char = LF}
           Ends(k) == {m \in 1..k-1 : out[m].char = LF \/ PaperColumn(m) = VGA_WIDTH - 1}
<1>1. (i + 1) - 1 = i /\ i + 1 \in Nat \ {0}
  OBVIOUS
<1>2. ASSUME out[i].char = LF  PROVE LineStart(i + 1) = i
  <2>1. nl(i + 1) = nl(i) \union {i}
    BY <1>2
  <2>2. \A n \in nl(i + 1) : n \in Nat /\ n <= i
    OBVIOUS
  <2>3. i \in nl(i + 1)
    BY <2>1
  <2>4. LineStart(i + 1) = CHOOSE m \in nl(i + 1) : \A n \in nl(i + 1) : n <= m
    BY <2>3 DEF LineStart
  <2> DEFINE c == CHOOSE m \in nl(i + 1) : \A n \in nl(i + 1) : n <= m
  <2>5. c \in nl(i + 1) /\ \A n \in nl(i + 1) : n <= c
    BY <2>2, <2>3
  <2>6. c = i
    <3> HIDE DEF c
    <3> QED BY <2>2, <2>3, <2>5
  <2> QED BY <2>4, <2>6
<1>3. ASSUME out[i].char # LF  PROVE LineStart(i + 1) = LineStart(i)
  <2>1. nl(i + 1) = nl(i)
    BY <1>3
  <2> DEFINE Final(M) == IF M = {} THEN 0 ELSE CHOOSE m \in M : \A n \in M : n <= m
  <2>2. LineStart(i + 1) = Final(nl(i + 1)) /\ LineStart(i) = Final(nl(i))
    BY DEF LineStart
  <2> HIDE DEF nl, Final
  <2> QED BY <2>1, <2>2
<1>4. LineStart(i) \in 0..i-1 /\ LineStart(i + 1) \in 0..i
  BY <1>1, LineBegins
<1>5. PaperColumn(i) \in 0..VGA_WIDTH-1 /\ PaperColumn(i + 1) \in 0..VGA_WIDTH-1
  <2>1. i - 1 - LineStart(i) \in Int /\ (i + 1) - 1 - LineStart(i + 1) \in Int
    BY <1>4
  <2> QED BY <2>1, ScreenAssumption DEF PaperColumn
<1>6. ASSUME out[i].char = LF  PROVE PaperColumn(i + 1) = 0
  <2>1. (i + 1) - 1 - LineStart(i + 1) = 0
    BY <1>2, <1>6
  <2>2. 0 % VGA_WIDTH = 0
    BY ScreenAssumption
  <2> QED BY <2>1, <2>2 DEF PaperColumn
<1>7. ASSUME out[i].char # LF
      PROVE  PaperColumn(i + 1) = IF PaperColumn(i) + 1 = VGA_WIDTH THEN 0 ELSE PaperColumn(i) + 1
  <2> DEFINE a == i - 1 - LineStart(i)
  <2>1. a \in Nat /\ (i + 1) - 1 - LineStart(i + 1) = a + 1
    BY <1>3, <1>4, <1>7
  <2>2. PaperColumn(i) = a % VGA_WIDTH /\ PaperColumn(i + 1) = (a + 1) % VGA_WIDTH
    BY <2>1 DEF PaperColumn
  <2> HIDE DEF a
  <2>3. (a + 1) % VGA_WIDTH = IF (a % VGA_WIDTH) + 1 = VGA_WIDTH THEN 0 ELSE (a % VGA_WIDTH) + 1
    BY <2>1, ModStep
  <2> QED BY <2>2, <2>3
<1>8. PaperLine(i) = Cardinality(Ends(i)) /\ PaperLine(i + 1) = Cardinality(Ends(i + 1))
  BY DEF PaperLine
<1>9. IsFiniteSet(Ends(i)) /\ i \notin Ends(i)
  BY LinesAreNat
<1>10. ASSUME out[i].char = LF \/ PaperColumn(i) = VGA_WIDTH - 1
       PROVE  PaperLine(i + 1) = PaperLine(i) + 1
  <2>1. Ends(i + 1) = Ends(i) \union {i}
    BY <1>10
  <2> HIDE DEF Ends
  <2> QED BY <1>8, <1>9, <2>1, FS_AddElement
<1>11. ASSUME ~(out[i].char = LF \/ PaperColumn(i) = VGA_WIDTH - 1)
       PROVE  PaperLine(i + 1) = PaperLine(i)
  <2>1. Ends(i + 1) = Ends(i)
    BY <1>11
  <2> QED BY <1>8, <2>1
<1>12. PaperColumn(i) + 1 = VGA_WIDTH <=> PaperColumn(i) = VGA_WIDTH - 1
  BY <1>5, ScreenAssumption
<1> QED
  BY <1>4, <1>5, <1>6, <1>7, <1>10, <1>11, <1>12

\* What is printed later does not move what was printed before.
LEMMA PaperKept ==
  ASSUME NEW N \in Nat, \A m \in 1..N : out'[m] = out[m]
  PROVE  \A i \in 1..N+1 : /\ LineStart(i)' = LineStart(i)
                            /\ PaperColumn(i)' = PaperColumn(i)
                            /\ PaperLine(i)' = PaperLine(i)
                            /\ Top(i)' = Top(i)
<1>1. ASSUME NEW i \in 1..N+1  PROVE LineStart(i)' = LineStart(i)
  <2> DEFINE nl == {m \in 1..i-1 : out[m].char = LF}
             nlx == {m \in 1..i-1 : out'[m].char = LF}
             Final(M) == IF M = {} THEN 0 ELSE CHOOSE m \in M : \A n \in M : n <= m
  <2>1. nlx = nl
    OBVIOUS
  <2>2. LineStart(i)' = Final(nlx) /\ LineStart(i) = Final(nl)
    BY DEF LineStart
  <2> HIDE DEF nl, nlx, Final
  <2> QED BY <2>1, <2>2
<1>2. ASSUME NEW i \in 1..N+1  PROVE PaperColumn(i)' = PaperColumn(i)
  BY <1>1 DEF PaperColumn
<1>3. ASSUME NEW i \in 1..N+1  PROVE PaperLine(i)' = PaperLine(i)
  <2> DEFINE E == {m \in 1..i-1 : out[m].char = LF \/ PaperColumn(m) = VGA_WIDTH - 1}
             Ex == {m \in 1..i-1 : out'[m].char = LF \/ PaperColumn(m)' = VGA_WIDTH - 1}
  <2>1. \A m \in 1..i-1 : out'[m] = out[m] /\ PaperColumn(m)' = PaperColumn(m)
    BY <1>2
  <2>2. Ex = E
    BY <2>1
  <2>3. PaperLine(i) = Cardinality(E) /\ PaperLine(i)' = Cardinality(Ex)
    BY DEF PaperLine
  <2> HIDE DEF E, Ex
  <2> QED BY <2>2, <2>3
<1> QED
  BY <1>1, <1>2, <1>3 DEF Top

-----------------------------------------------------------------------------
(* The picture, step by step                                               *)

LEMMA LenOut ==
  ASSUME OutOK  PROVE Len(out) \in Nat
BY LenProperties DEF OutOK

\* A step that prints no new character leaves the paper alone,
LEMMA SamePaper ==
  ASSUME OutOK, Len(out) >= 1, out' = out
  PROVE  /\ PaperLine(Len(out))' = PaperLine(Len(out))
         /\ PaperLine(Len(out) + 1)' = PaperLine(Len(out) + 1)
         /\ PaperColumn(Len(out))' = PaperColumn(Len(out))
         /\ PaperColumn(Len(out) + 1)' = PaperColumn(Len(out) + 1)
         /\ Top(Len(out))' = Top(Len(out)) /\ Top(Len(out) + 1)' = Top(Len(out) + 1)
BY DEF PaperLine, PaperColumn, LineStart, Top

\* and the picture too unless it stores into the screen.
LEMMA SamePicture ==
  ASSUME out' = out, vga_buffer' = vga_buffer
  PROVE  /\ Undrawn' <=> Undrawn
         /\ Drawn' <=> Drawn
         /\ Scrolled' <=> Scrolled
<1>1. Undrawn' <=> Undrawn
  BY DEF Undrawn, Shows, Shown, Printed, PaperLine, PaperColumn, LineStart, Top
<1>2. Drawn' <=> Drawn
  BY DEF Drawn, Shows, Shown, Printed, PaperLine, PaperColumn, LineStart, Top
<1>3. Scrolled' <=> Scrolled
  BY DEF Scrolled, Shows, Shown, Printed, PaperLine, PaperColumn, LineStart, Top
<1> QED BY <1>1, <1>2, <1>3

\* Where the last character is, and where the next one will be.
LEMMA LastPlace ==
  ASSUME OutOK, Len(out) >= 1
  PROVE  LET n == Len(out)
         IN /\ PaperLine(n) \in Nat /\ PaperLine(n + 1) \in {PaperLine(n), PaperLine(n) + 1}
            /\ Top(n) \in Nat /\ PaperLine(n) - Top(n) \in 0..VGA_HEIGHT-1
            /\ PaperColumn(n) \in 0..VGA_WIDTH-1
            /\ PaperLine(n + 1) - Top(n) = VGA_HEIGHT => Top(n + 1) = Top(n) + 1
            /\ PaperLine(n + 1) - Top(n) # VGA_HEIGHT => Top(n + 1) = Top(n)
<1> DEFINE n == Len(out)
<1>1. n \in Nat \ {0}
  BY LenOut
<1>3. PaperLine(n) \in Nat
  BY <1>1, LinesAreNat
<1>4. PaperColumn(n) \in 0..VGA_WIDTH-1 /\ PaperLine(n + 1) \in {PaperLine(n), PaperLine(n) + 1}
  BY <1>1, PaperStep
<1> HIDE DEF n
<1>5. /\ Top(n) \in Nat /\ PaperLine(n) - Top(n) \in 0..VGA_HEIGHT-1
      /\ PaperLine(n + 1) - Top(n) = VGA_HEIGHT => Top(n + 1) = Top(n) + 1
      /\ PaperLine(n + 1) - Top(n) # VGA_HEIGHT => Top(n + 1) = Top(n)
  BY <1>3, <1>4, ScreenAssumption DEF Top
<1> QED BY <1>3, <1>4, <1>5 DEF n

\* Two positions on the screen are the same cell only if they are the same.
LEMMA CellsApart ==
  ASSUME NEW y \in Nat, NEW x \in 0..VGA_WIDTH-1, NEW r \in Nat, NEW c \in 0..VGA_WIDTH-1,
         y * VGA_WIDTH + x = r * VGA_WIDTH + c
  PROVE  y = r /\ x = c
<1> DEFINE W == VGA_WIDTH
<1>1. W \in Nat /\ W > 0 /\ x \in 0..W-1 /\ c \in 0..W-1
  BY ScreenAssumption
<1>2. y * W + x = r * W + c
  OBVIOUS
<1> HIDE DEF W
<1>3. ASSUME NEW a \in Nat, NEW b \in Nat, a < b  PROVE a * W + W <= b * W
  <2>1. (b - a - 1) * W >= 0
    BY <1>1, <1>3
  <2>2. (b - a - 1) * W = b * W - a * W - W
    BY <1>1
  <2> QED BY <1>1, <2>1, <2>2
<1>4. y * W \in Int /\ r * W \in Int
  BY <1>1
<1>5. ~(y < r)
  <2>1. y < r => y * W + W <= r * W
    BY <1>3
  <2> QED BY <1>1, <1>2, <1>4, <2>1
<1>6. ~(r < y)
  <2>1. r < y => r * W + W <= y * W
    BY <1>3
  <2> QED BY <1>1, <1>2, <1>4, <2>1
<1>7. y = r
  BY <1>5, <1>6
<1> QED BY <1>1, <1>2, <1>4, <1>7

\* What a step that stores into the screen has to show.
LEMMA PrimedPicture ==
  ASSUME out' = out
  PROVE  LET n == Len(out)
             Cell(y, x) == vga_buffer'[y * VGA_WIDTH + x]
             ShowsFrom(top) ==
               \A y \in 0..VGA_HEIGHT-1, x \in 0..VGA_WIDTH-1 :
                 IF Printed(n, top + y, x) = {} THEN Cell(y, x).char = Blank
                 ELSE \E i \in Printed(n, top + y, x) : Looks(Cell(y, x), out[i])
         IN /\ ShowsFrom(Top(n)) => Drawn'
            /\ ShowsFrom(Top(n + 1)) => Scrolled'
<1>1. /\ \A k, line, x : Printed(k, line, x)' = Printed(k, line, x)
      /\ \A i : Top(i)' = Top(i)
  BY DEF Printed, PaperLine, PaperColumn, LineStart, Top
<1>2. Drawn' = \A y \in 0..VGA_HEIGHT-1, x \in 0..VGA_WIDTH-1 :
                 Shown(Len(out), Top(Len(out)), y, x)'
  BY DEF Drawn, Shows
<1>3. Scrolled' = \A y \in 0..VGA_HEIGHT-1, x \in 0..VGA_WIDTH-1 :
                 Shown(Len(out), Top(Len(out) + 1), y, x)'
  BY DEF Scrolled, Shows
<1>4. Top(Len(out))' = Top(Len(out)) /\ Top(Len(out) + 1)' = Top(Len(out) + 1)
  BY DEF PaperLine, PaperColumn, LineStart, Top
<1> QED BY <1>1, <1>2, <1>3, <1>4 DEF Shown

\* vga_putentryat draws the last character where it belongs, and no other cell.
LEMMA DrawStep ==
  ASSUME OutOK, Len(out) >= 1, out' = out, out[Len(out)].char # LF, Undrawn, Before,
         NEW new, Looks(new, out[Len(out)]),
         vga_buffer' = [i \in Cells |-> IF i = vga_row * VGA_WIDTH + vga_column
                                        THEN new ELSE vga_buffer[i]]
  PROVE  Drawn'
<1> DEFINE n == Len(out)  top == Top(n)
<1>1. /\ n \in Nat \ {0} /\ top \in Nat
      /\ vga_row \in 0..VGA_HEIGHT-1 /\ vga_column \in 0..VGA_WIDTH-1
      /\ PaperLine(n) = top + vga_row /\ PaperColumn(n) = vga_column
  BY LenOut, LastPlace DEF Before
<1>2. SUFFICES ASSUME NEW y \in 0..VGA_HEIGHT-1, NEW x \in 0..VGA_WIDTH-1
               PROVE  IF Printed(n, top + y, x) = {}
                      THEN vga_buffer'[y * VGA_WIDTH + x].char = Blank
                      ELSE \E i \in Printed(n, top + y, x) :
                             Looks(vga_buffer'[y * VGA_WIDTH + x], out[i])
  BY PrimedPicture
<1>3. y * VGA_WIDTH + x \in Cells
  BY OnScreen
<1>4. CASE y = vga_row /\ x = vga_column
  <2>1. n \in Printed(n, top + y, x)
    BY <1>1, <1>4 DEF Printed
  <2>2. vga_buffer'[y * VGA_WIDTH + x] = new
    BY <1>3, <1>4
  <2> QED BY <2>1, <2>2
<1>5. CASE ~(y = vga_row /\ x = vga_column)
  <2>1. y * VGA_WIDTH + x # vga_row * VGA_WIDTH + vga_column
    BY <1>1, <1>5, CellsApart
  <2>2. vga_buffer'[y * VGA_WIDTH + x] = vga_buffer[y * VGA_WIDTH + x]
    BY <1>3, <2>1
  <2>3. Printed(n, top + y, x) = Printed(n - 1, top + y, x)
    <3>1. n \notin Printed(n, top + y, x)
      BY <1>1, <1>5 DEF Printed
    <3> HIDE DEF n, top
    <3> QED BY <1>1, <3>1 DEF Printed
  <2>4. Shown(n - 1, top, y, x)
    BY DEF Undrawn, Shows
  <2> QED BY <2>2, <2>3, <2>4 DEF Shown
<1> QED BY <1>4, <1>5

\* scroll moves the picture one line up: nothing is printed yet on the line of
\* the paper that becomes the last one of the screen.
LEMMA ScrollStep ==
  ASSUME OutOK, Len(out) >= 1, out' = out, Drawn, Behind, vga_row = VGA_HEIGHT,
         vga_buffer' = scroll(1)
  PROVE  Scrolled'
<1> DEFINE n == Len(out)  top == Top(n)  W == VGA_WIDTH  H == VGA_HEIGHT
<1>1. /\ n \in Nat \ {0} /\ top \in Nat /\ PaperLine(n) \in Nat /\ PaperLine(n) - top <= H - 1
      /\ Top(n + 1) = top + 1
  BY LenOut, LastPlace DEF Behind
<1>2. W \in Nat \ {0} /\ H \in Nat \ {0, 1}
  BY ScreenAssumption
<1>3. SUFFICES ASSUME NEW y \in 0..H-1, NEW x \in 0..W-1
               PROVE  IF Printed(n, top + 1 + y, x) = {}
                      THEN vga_buffer'[y * W + x].char = Blank
                      ELSE \E i \in Printed(n, top + 1 + y, x) :
                             Looks(vga_buffer'[y * W + x], out[i])
  BY <1>1, PrimedPicture
<1>4. y * W + x \in Cells /\ (y + 1) * W + x = (y * W + x) + 1 * W
  <2>1. (y + 1) * W = y * W + W /\ y * W \in Int
    BY <1>2
  <2> QED BY <1>2, <2>1, OnScreen
<1>5. CASE y < H - 1
  <2>1. y + 1 \in 0..H-1
    BY <1>2, <1>5
  <2>2. (y + 1) * W + x \in Cells
    BY <2>1, OnScreen
  <2>3. vga_buffer'[y * W + x] = vga_buffer[(y + 1) * W + x]
    BY <1>4, <2>2 DEF scroll
  <2>4. Shown(n, top, y + 1, x)
    BY <2>1 DEF Drawn, Shows
  <2>5. top + (y + 1) = top + 1 + y
    BY <1>1
  <2> QED BY <2>3, <2>4, <2>5 DEF Shown
<1>6. CASE y = H - 1
  <2>1. (y + 1) * W + x \notin Cells
    <3>1. (y + 1) * W = W * H /\ W * H \in Int
      BY <1>2, <1>6
    <3> QED BY <1>2, <3>1 DEF Cells
  <2>2. vga_buffer'[y * W + x].char = Blank
    BY <1>4, <2>1 DEF scroll, entry
  <2>3. Printed(n, top + 1 + y, x) = {}
    <3>1. ASSUME NEW i \in 1..n  PROVE PaperLine(i) # top + 1 + y
      <4>1. PaperLine(i) <= PaperLine(n) /\ PaperLine(i) \in Nat
        <5>1. i \in Nat \ {0} /\ n \in Nat /\ i <= n
          BY <1>1
        <5> HIDE DEF n
        <5> QED BY <5>1, LinesGrow, LinesAreNat
      <4> HIDE DEF top, n
      <4> QED BY <1>1, <1>2, <1>6, <4>1
    <3> QED BY <3>1 DEF Printed
  <2> QED BY <2>2, <2>3
<1> QED BY <1>2, <1>5, <1>6

\* A new character goes where the cursor rests.
LEMMA AppendStep ==
  ASSUME OutOK, Resting, NEW e, out' = Append(out, e), UNCHANGED <<vga_buffer, vga_row, vga_column>>
  PROVE  /\ (\E S : out \in Seq(S))'
         /\ Len(out') >= 1 /\ out'[Len(out')] = e
         /\ Before'
         /\ e.char = LF => Drawn'
         /\ e.char # LF => Undrawn'
<1>1. PICK S : out \in Seq(S)
  BY DEF OutOK
<1>2. out \in Seq(S \union {e}) /\ e \in S \union {e}
  BY <1>1
<1>3. PICK n \in Nat : n = Len(out)
  BY <1>1, LenProperties
<1>4. /\ out' \in Seq(S \union {e}) /\ Len(out') = n + 1
      /\ out'[n + 1] = e /\ \A m \in 1..n : out'[m] = out[m]
  BY <1>2, <1>3, AppendProperties, LenProperties
<1>5. \A i \in 1..n+1 : /\ PaperColumn(i)' = PaperColumn(i)
                        /\ PaperLine(i)' = PaperLine(i) /\ Top(i)' = Top(i)
  BY <1>4, PaperKept
<1>6. n + 1 \in 1..n+1 /\ (n + 1) - 1 = n
  OBVIOUS
<1>7. /\ PaperLine(Len(out))' = PaperLine(n + 1) /\ PaperColumn(Len(out))' = PaperColumn(n + 1)
      /\ Top(Len(out))' = Top(n + 1)
  BY <1>4, <1>5, <1>6
<1>8. Before'
  BY <1>3, <1>7 DEF Before, Resting
<1>9. ASSUME NEW line, NEW x
      PROVE  /\ Printed(n, line, x)' = Printed(n, line, x)
             /\ e.char = LF => Printed(n + 1, line, x)' = Printed(n, line, x)
  <2>1. \A i \in 1..n : /\ PaperColumn(i)' = PaperColumn(i) /\ PaperLine(i)' = PaperLine(i)
                        /\ out'[i] = out[i] /\ i \in 1..n+1
    BY <1>4, <1>5
  <2>2. Printed(n, line, x)' = Printed(n, line, x)
    BY <2>1 DEF Printed
  <2>3. \A i \in 1..n+1 : i \in 1..n \/ i = n + 1
    OBVIOUS
  <2>4. ASSUME e.char = LF  PROVE Printed(n + 1, line, x)' = Printed(n, line, x)
    BY <1>4, <2>1, <2>3, <2>4 DEF Printed
  <2> QED BY <2>2, <2>4
<1>10. PICK top : top = Top(n + 1)
  OBVIOUS
<1>11. Shows(n, top)
  BY <1>3, <1>10 DEF Resting, Scrolled
<1>12. Shows(n, top)' /\ (e.char = LF => Shows(n + 1, top)')
  <2>1. ASSUME NEW y \in 0..VGA_HEIGHT-1, NEW x \in 0..VGA_WIDTH-1
        PROVE  Shown(n, top, y, x)' /\ (e.char = LF => Shown(n + 1, top, y, x)')
    <3>1. Shown(n, top, y, x)
      BY <1>11 DEF Shows
    <3>2. \A i \in Printed(n, top + y, x) : out'[i] = out[i]
      BY <1>4 DEF Printed
    <3>3. Shown(n, top, y, x)'
      BY <1>9, <3>1, <3>2 DEF Shown
    <3>4. ASSUME e.char = LF  PROVE Shown(n + 1, top, y, x)'
      BY <1>9, <3>1, <3>2, <3>4 DEF Shown
    <3> QED BY <3>3, <3>4
  <2> QED BY <2>1 DEF Shows
<1>13. (e.char = LF => Drawn') /\ Undrawn'
  BY <1>4, <1>6, <1>7, <1>10, <1>12 DEF Drawn, Undrawn
<1>14. (\E U : out \in Seq(U))'
  BY <1>4
<1> QED
  BY <1>3, <1>4, <1>8, <1>13, <1>14

\* A step of thread t inside a character leads to the next one or to its end.
Draws(t) ==
  out' = out /\ (pc'[t] # "idle" => Prints(t)') /\ (pc'[t] = "idle" => Resting')

LEMMA NewlineDraws ==
  ASSUME TypeOK, OutOK, NEW t \in Threads, Prints(t), Newline(t)  PROVE Draws(t)
<1>1. /\ pc[t] = "newline" /\ pc'[t] = "next_row" /\ vga_column' = 0
      /\ UNCHANGED <<vga_row, vga_color, vga_buffer, text, row, col, out>>
  BY DEF Newline, Goto, history, TypeOK
<1>2. /\ Len(out) >= 1 /\ out[Len(out)] = Wanted(Head(text[t]), vga_color) /\ Head(text[t]) = LF
      /\ Drawn /\ Before
  BY <1>1 DEF Prints
<1>3. Len(out) \in Nat \ {0} /\ out[Len(out)].char = LF
  BY <1>2, LenOut DEF Wanted
<1>4. PaperColumn(Len(out) + 1) = 0 /\ PaperLine(Len(out) + 1) = PaperLine(Len(out)) + 1
  BY <1>3, PaperStep
<1>5. Between'
  BY <1>1, <1>2, <1>4, SamePaper DEF Before, Between
<1>6. Drawn'
  BY <1>1, <1>2, SamePicture
<1> QED
  BY <1>1, <1>2, <1>5, <1>6 DEF Draws, Prints

LEMMA LoadPositionDraws ==
  ASSUME TypeOK, OutOK, NEW t \in Threads, Prints(t), LoadPosition(t)  PROVE Draws(t)
<1>1. /\ pc[t] = "position" /\ pc'[t] = "put" /\ row'[t] = vga_row /\ col'[t] = vga_column
      /\ UNCHANGED <<vga_row, vga_column, vga_color, vga_buffer, text, out>>
  BY DEF LoadPosition, Goto, cursor, history, TypeOK
<1>2. /\ Len(out) >= 1 /\ out[Len(out)] = Wanted(Head(text[t]), vga_color) /\ Head(text[t]) # LF
      /\ Undrawn /\ Before
  BY <1>1 DEF Prints
<1>3. Before' /\ Undrawn'
  BY <1>1, <1>2, SamePaper, SamePicture DEF Before
<1> QED
  BY <1>1, <1>2, <1>3 DEF Draws, Prints

LEMMA PutEntryDraws ==
  ASSUME TypeOK, OutOK, NEW t \in Threads, Prints(t), PutEntry(t)  PROVE Draws(t)
<1>1. /\ pc[t] = "put" /\ pc'[t] = "column"
      /\ vga_buffer' = [i \in Cells |-> IF i = row[t] * VGA_WIDTH + col[t]
                                        THEN entry(Head(text[t]), vga_color) ELSE vga_buffer[i]]
      /\ UNCHANGED <<vga_row, vga_column, vga_color, text, row, col, out>>
  BY DEF PutEntry, Goto, cursor, TypeOK
<1>2. /\ Len(out) >= 1 /\ out[Len(out)] = Wanted(Head(text[t]), vga_color) /\ Head(text[t]) # LF
      /\ Undrawn /\ Before /\ row[t] = vga_row /\ col[t] = vga_column
  BY <1>1 DEF Prints
<1> DEFINE new == entry(Head(text[t]), vga_color)
<1>3. out[Len(out)].char # LF /\ Looks(new, out[Len(out)])
  BY <1>2 DEF entry, Wanted, Looks
<1>4. vga_buffer' = [i \in Cells |-> IF i = vga_row * VGA_WIDTH + vga_column
                                     THEN new ELSE vga_buffer[i]]
  BY <1>1, <1>2
<1> HIDE DEF new
<1>5. Drawn'
  BY <1>1, <1>2, <1>3, <1>4, DrawStep
<1>6. Before'
  BY <1>1, <1>2, SamePaper DEF Before
<1> QED
  BY <1>1, <1>2, <1>5, <1>6 DEF Draws, Prints

LEMMA LoadColumnDraws ==
  ASSUME TypeOK, OutOK, NEW t \in Threads, Prints(t), LoadColumn(t)  PROVE Draws(t)
<1>1. /\ pc[t] = "column" /\ pc'[t] = "wrap" /\ col'[t] = vga_column + 1
      /\ UNCHANGED <<vga_row, vga_column, vga_color, vga_buffer, text, row, out>>
  BY DEF LoadColumn, Goto, cursor, history, TypeOK
<1>2. /\ Len(out) >= 1 /\ out[Len(out)] = Wanted(Head(text[t]), vga_color) /\ Head(text[t]) # LF
      /\ Drawn /\ Before
  BY <1>1 DEF Prints
<1>3. Before' /\ Drawn'
  BY <1>1, <1>2, SamePaper, SamePicture DEF Before
<1> QED
  BY <1>1, <1>2, <1>3 DEF Draws, Prints

\* What lies behind the last character of a row of the paper, and of another one.
LEMMA EndOfRow ==
  ASSUME OutOK, Len(out) >= 1, out[Len(out)].char # LF
  PROVE  /\ PaperColumn(Len(out)) + 1 = VGA_WIDTH =>
              /\ PaperColumn(Len(out) + 1) = 0
              /\ PaperLine(Len(out) + 1) = PaperLine(Len(out)) + 1
         /\ PaperColumn(Len(out)) + 1 # VGA_WIDTH =>
              /\ PaperColumn(Len(out) + 1) = PaperColumn(Len(out)) + 1
              /\ PaperLine(Len(out) + 1) = PaperLine(Len(out))
<1>1. Len(out) \in Nat \ {0}
  BY LenOut
<1> QED BY <1>1, PaperStep

LEMMA StoreColumnDraws ==
  ASSUME TypeOK, OutOK, NEW t \in Threads, Prints(t), StoreColumn(t)  PROVE Draws(t)
<1>1. /\ pc[t] = "wrap" /\ row'[t] = vga_row
      /\ pc'[t] = IF col[t] = VGA_WIDTH THEN "reset" ELSE "check"
      /\ vga_column' = col[t]
      /\ UNCHANGED <<vga_row, vga_color, vga_buffer, text, col, out>>
  BY DEF StoreColumn, Goto, history, Wraps, TypeOK
<1>2. /\ Len(out) >= 1 /\ out[Len(out)] = Wanted(Head(text[t]), vga_color) /\ Head(text[t]) # LF
      /\ Drawn /\ Before /\ col[t] = vga_column + 1
  BY <1>1 DEF Prints
<1>3. out[Len(out)].char # LF
  BY <1>2 DEF Wanted
<1>4. Drawn'
  BY <1>1, <1>2, SamePicture
<1>5. CASE col[t] = VGA_WIDTH
  <2>1. PaperColumn(Len(out)) + 1 = VGA_WIDTH
    BY <1>2, <1>5 DEF Before
  <2>2. PaperColumn(Len(out) + 1) = 0 /\ PaperLine(Len(out) + 1) = PaperLine(Len(out)) + 1
    BY <1>2, <1>3, <2>1, EndOfRow
  <2>3. Beyond'
    BY <1>1, <1>2, <1>5, <2>2, SamePaper DEF Before, Beyond
  <2> QED
    BY <1>1, <1>2, <1>4, <1>5, <2>3 DEF Draws, Prints
<1>6. CASE col[t] # VGA_WIDTH
  <2>1. PaperColumn(Len(out)) + 1 # VGA_WIDTH
    BY <1>2, <1>6 DEF Before
  <2>2. /\ PaperColumn(Len(out) + 1) = PaperColumn(Len(out)) + 1
        /\ PaperLine(Len(out) + 1) = PaperLine(Len(out))
    BY <1>2, <1>3, <2>1, EndOfRow
  <2>3. Behind'
    BY <1>1, <1>2, <1>6, <2>2, SamePaper DEF Before, Behind
  <2> QED
    BY <1>1, <1>2, <1>4, <1>6, <2>3 DEF Draws, Prints
<1> QED BY <1>5, <1>6

LEMMA ResetColumnDraws ==
  ASSUME TypeOK, OutOK, NEW t \in Threads, Prints(t), ResetColumn(t)  PROVE Draws(t)
<1>1. /\ pc[t] = "reset" \/ (pc[t] = "wrap" /\ col[t] = VGA_WIDTH)
      /\ pc'[t] = "next_row" /\ vga_column' = 0
      /\ UNCHANGED <<vga_row, vga_color, vga_buffer, text, row, col, out>>
  BY DEF ResetColumn, Goto, history, Wraps, TypeOK
<1>2. /\ Len(out) >= 1 /\ out[Len(out)] = Wanted(Head(text[t]), vga_color) /\ Head(text[t]) # LF
      /\ Drawn
  BY <1>1 DEF Prints
<1>3. Drawn'
  BY <1>1, <1>2, SamePicture
<1>4. Beyond
  <2>1. CASE pc[t] = "reset"
    BY <2>1 DEF Prints
  <2>2. CASE pc[t] = "wrap" /\ col[t] = VGA_WIDTH
    <3>1. Before /\ PaperColumn(Len(out)) + 1 = VGA_WIDTH
      BY <2>2 DEF Prints, Before
    <3>2. out[Len(out)].char # LF
      BY <1>2 DEF Wanted
    <3> QED BY <1>2, <3>1, <3>2, EndOfRow DEF Before, Beyond
  <2> QED BY <1>1, <2>1, <2>2
<1>5. Between'
  BY <1>1, <1>2, <1>4, SamePaper DEF Beyond, Between
<1> QED
  BY <1>1, <1>2, <1>3, <1>5 DEF Draws, Prints

LEMMA LoadRowDraws ==
  ASSUME TypeOK, OutOK, NEW t \in Threads, Prints(t), LoadRow(t)  PROVE Draws(t)
<1>1. /\ pc[t] = "next_row" /\ pc'[t] = "store_row" /\ row'[t] = vga_row + 1
      /\ UNCHANGED <<vga_row, vga_column, vga_color, vga_buffer, text, col, out>>
  BY DEF LoadRow, Goto, cursor, history, TypeOK
<1>2. /\ Len(out) >= 1 /\ out[Len(out)] = Wanted(Head(text[t]), vga_color) /\ Drawn /\ Between
  BY <1>1 DEF Prints
<1>3. Between' /\ Drawn'
  BY <1>1, <1>2, SamePaper, SamePicture DEF Between
<1> QED
  BY <1>1, <1>2, <1>3 DEF Draws, Prints

LEMMA StoreRowDraws ==
  ASSUME TypeOK, OutOK, NEW t \in Threads, Prints(t), StoreRow(t)  PROVE Draws(t)
<1>1. /\ pc[t] = "store_row" /\ pc'[t] = "check" /\ vga_row' = row[t]
      /\ UNCHANGED <<vga_column, vga_color, vga_buffer, text, row, col, out>>
  BY DEF StoreRow, Goto, history, TypeOK
<1>2. /\ Len(out) >= 1 /\ out[Len(out)] = Wanted(Head(text[t]), vga_color) /\ Drawn /\ Between
      /\ row[t] = vga_row + 1
  BY <1>1 DEF Prints
<1>3. PaperLine(Len(out)) \in Nat /\ Top(Len(out)) \in Nat
  BY <1>2, LastPlace
<1>4. Behind'
  BY <1>1, <1>2, <1>3, SamePaper DEF Between, Behind
<1>5. Drawn'
  BY <1>1, <1>2, SamePicture
<1> QED
  BY <1>1, <1>2, <1>4, <1>5 DEF Draws, Prints

\* The cursor and the picture at rest stay what they are.
LEMMA RestingKept ==
  ASSUME OutOK, Resting, UNCHANGED <<vga_row, vga_column, vga_buffer, out>>
  PROVE  Resting'
<1>1. Scrolled'
  BY SamePicture DEF Resting
<1>2. /\ PaperLine(Len(out) + 1)' = PaperLine(Len(out) + 1)
      /\ PaperColumn(Len(out) + 1)' = PaperColumn(Len(out) + 1)
      /\ Top(Len(out) + 1)' = Top(Len(out) + 1)
  BY DEF PaperLine, PaperColumn, LineStart, Top
<1> QED BY <1>1, <1>2 DEF Resting

LEMMA CheckDraws ==
  ASSUME TypeOK, OutOK, NEW t \in Threads, Prints(t), Check(t)  PROVE Draws(t)
<1>1. /\ pc[t] = "check"
      /\ UNCHANGED <<vga_row, vga_column, vga_color, vga_buffer, row, col, out>>
  BY DEF Check, Goto, cursor, history
<1>2. /\ Len(out) >= 1 /\ out[Len(out)] = Wanted(Head(text[t]), vga_color) /\ Drawn /\ Behind
      /\ row[t] = vga_row
  BY <1>1 DEF Prints
<1>3. /\ pc' = [pc EXCEPT ![t] = IF vga_row = VGA_HEIGHT THEN "scroll" ELSE "idle"]
      /\ vga_row = VGA_HEIGHT => text' = text
  BY <1>2 DEF Check, Goto, AtBottom
<1>4. pc'[t] = IF vga_row = VGA_HEIGHT THEN "scroll" ELSE "idle"
  BY <1>3 DEF TypeOK
<1>5. CASE vga_row = VGA_HEIGHT
  <2>1. Behind' /\ Drawn'
    BY <1>1, <1>2, SamePaper, SamePicture DEF Behind
  <2> QED
    BY <1>1, <1>2, <1>3, <1>4, <1>5, <2>1 DEF Draws, Prints
<1>6. CASE vga_row # VGA_HEIGHT
  <2>1. Top(Len(out) + 1) = Top(Len(out))
    BY <1>2, <1>6, LastPlace DEF Behind
  <2>2. Resting
    BY <1>2, <2>1 DEF Resting, Drawn, Scrolled, Behind
  <2> QED
    BY <1>1, <1>4, <1>6, <2>2, RestingKept DEF Draws
<1> QED BY <1>5, <1>6

LEMMA ScrollDraws ==
  ASSUME TypeOK, OutOK, NEW t \in Threads, Prints(t), Scroll(t)  PROVE Draws(t)
<1>1. /\ pc[t] = "scroll" /\ pc'[t] = "back" /\ vga_buffer' = scroll(1)
      /\ UNCHANGED <<vga_row, vga_column, vga_color, text, row, col, out>>
  BY DEF Scroll, Goto, cursor, history, TypeOK
<1>2. /\ Len(out) >= 1 /\ out[Len(out)] = Wanted(Head(text[t]), vga_color) /\ Drawn /\ Behind
      /\ vga_row = VGA_HEIGHT
  BY <1>1 DEF Prints
<1>3. Scrolled'
  BY <1>1, <1>2, ScrollStep
<1>4. Behind'
  BY <1>1, <1>2, SamePaper DEF Behind
<1> QED
  BY <1>1, <1>2, <1>3, <1>4 DEF Draws, Prints

LEMMA LoadBackDraws ==
  ASSUME TypeOK, OutOK, NEW t \in Threads, Prints(t), LoadBack(t)  PROVE Draws(t)
<1>1. /\ pc[t] = "back" /\ pc'[t] = "store_back" /\ row'[t] = vga_row - 1
      /\ UNCHANGED <<vga_row, vga_column, vga_color, vga_buffer, text, col, out>>
  BY DEF LoadBack, Goto, cursor, history, TypeOK
<1>2. /\ Len(out) >= 1 /\ out[Len(out)] = Wanted(Head(text[t]), vga_color) /\ Scrolled /\ Behind
      /\ vga_row = VGA_HEIGHT
  BY <1>1 DEF Prints
<1>3. Behind' /\ Scrolled'
  BY <1>1, <1>2, SamePaper, SamePicture DEF Behind
<1> QED
  BY <1>1, <1>2, <1>3 DEF Draws, Prints

LEMMA StoreBackDraws ==
  ASSUME TypeOK, OutOK, NEW t \in Threads, Prints(t), StoreBack(t)  PROVE Draws(t)
<1>1. /\ pc[t] = "store_back" /\ pc'[t] = "idle" /\ vga_row' = row[t]
      /\ UNCHANGED <<vga_column, vga_buffer, out>>
  BY DEF StoreBack, Goto, history, TypeOK
<1>2. /\ Len(out) >= 1 /\ Scrolled /\ Behind /\ vga_row = VGA_HEIGHT /\ row[t] = VGA_HEIGHT - 1
  BY <1>1 DEF Prints
<1>3. /\ PaperLine(Len(out)) \in Nat /\ PaperLine(Len(out) + 1) \in Nat /\ Top(Len(out)) \in Nat
      /\ Top(Len(out) + 1) = Top(Len(out)) + 1
  BY <1>2, LastPlace DEF Behind
<1>4. VGA_HEIGHT - 1 = PaperLine(Len(out) + 1) - Top(Len(out) + 1)
  BY <1>2, <1>3, ScreenAssumption DEF Behind
<1>5. Scrolled'
  BY <1>1, <1>2, SamePicture
<1>6. Resting'
  BY <1>1, <1>2, <1>4, <1>5, SamePaper DEF Resting, Behind
<1> QED
  BY <1>1, <1>6 DEF Draws

LEMMA NextCharDraws ==
  ASSUME TypeOK, OutOK, NEW t \in Threads, Resting, NextChar(t)
  PROVE  pc'[t] # "idle" /\ Prints(t)'
<1> DEFINE e == Wanted(Head(text[t]), vga_color)
<1>1. /\ pc[t] = "idle"
      /\ pc'[t] = IF Head(text[t]) = LF THEN "newline" ELSE "position"
      /\ out' = Append(out, e)
      /\ UNCHANGED <<vga_row, vga_column, vga_color, vga_buffer, text, row, col, nested, moved>>
  BY DEF NextChar, Goto, cursor, TypeOK
<1>2. e.char = Head(text[t])
  BY DEF Wanted
<1> HIDE DEF e
<1>3. /\ (\E S : out \in Seq(S))' /\ Len(out') >= 1 /\ out'[Len(out')] = e /\ Before'
      /\ e.char = LF => Drawn'
      /\ e.char # LF => Undrawn'
  BY <1>1, AppendStep
<1>4. e = Wanted(Head(text'[t]), vga_color')
  BY <1>1 DEF e
<1>5. Prints(t)'
  BY <1>1, <1>2, <1>3, <1>4 DEF Prints
<1> QED
  BY <1>1, <1>3, <1>5

LEMMA PutcharDraws ==
  ASSUME TypeOK, OutOK, NEW t \in Threads, Prints(t), vga_putchar(t), ~NextChar(t)
  PROVE  Draws(t)
BY NewlineDraws, LoadPositionDraws, PutEntryDraws, LoadColumnDraws, StoreColumnDraws,
   ResetColumnDraws, LoadRowDraws, StoreRowDraws, CheckDraws, ScrollDraws, LoadBackDraws,
   StoreBackDraws
   DEF vga_putchar

\* A step of vga_putchar that is not its first is one inside a character.
LEMMA InsideCharacter ==
  ASSUME NEW t \in Threads, vga_putchar(t), ~NextChar(t)
  PROVE  pc[t] # "idle"
BY DEF vga_putchar, Newline, LoadPosition, PutEntry, LoadColumn, StoreColumn,
         ResetColumn, LoadRow,
       StoreRow, Check, Scroll, LoadBack, StoreBack, Goto

LEMMA PutcharShows ==
  ASSUME ScreenInv, OutOK, PictureInv, NEW t \in Threads, vga_putchar(t)
  PROVE  OutOK' /\ PictureInv'
<1>1. TypeOK /\ Keeps(t) /\ Runs(t) /\ Busy(t)
  BY PutcharKeeps, PutcharRuns DEF ScreenInv
<1>2. PICK u \in Threads : u # t /\ Threads = {t, u} /\ {t, u} = {"kmain", "irq"}
  BY DEF Threads
<1>3. /\ pc'[u] = pc[u] /\ text'[u] = text[u]
  BY <1>1, <1>2 DEF Keeps, Apart
<1>4. UNCHANGED <<nested, moved>>
  BY DEF vga_putchar, NextChar, Newline, LoadPosition, PutEntry, LoadColumn, StoreColumn,
         ResetColumn, LoadRow,
         StoreRow, Check, Scroll, LoadBack, StoreBack, history
<1>5. NextChar(t) \/ out' = out
  BY DEF vga_putchar, NextChar, Newline, LoadPosition, PutEntry, LoadColumn, StoreColumn,
         ResetColumn, LoadRow,
         StoreRow, Check, Scroll, LoadBack, StoreBack, history
<1>6. OutOK'
  <2>1. CASE out' = out
    BY <1>4, <2>1 DEF OutOK
  <2>2. CASE NextChar(t)
    <3>1. PICK S : out \in Seq(S)
      BY DEF OutOK
    <3>2. PICK e : out' = Append(out, e)
      BY <2>2 DEF NextChar
    <3>3. out' \in Seq(S \union {e})
      BY <3>1, <3>2
    <3> QED BY <1>4, <3>3 DEF OutOK
  <2> QED BY <1>5, <2>1, <2>2
<1>7. ASSUME nested' = FALSE, moved' = FALSE
      PROVE  /\ (pc["kmain"] = "idle" \/ ~Busy("irq"))'
             /\ pc'["kmain"] = "idle" /\ pc'["irq"] = "idle" => Resting'
             /\ \A v \in Threads : pc'[v] # "idle" => Prints(v)'
  <2>1. /\ pc["kmain"] = "idle" \/ ~Busy("irq")
        /\ pc["kmain"] = "idle" /\ pc["irq"] = "idle" => Resting
        /\ \A v \in Threads : pc[v] # "idle" => Prints(v)
    BY <1>4, <1>7 DEF PictureInv
  <2>2. pc[u] = "idle" /\ (u = "irq" => ~Busy("irq"))
    BY <1>1, <1>2, <2>1 DEF Runs, Busy
  <2>3. (pc["kmain"] = "idle" \/ ~Busy("irq"))'
    BY <1>2, <1>3, <2>2 DEF Busy
  <2>4. CASE NextChar(t)
    <3>1. Resting
      BY <1>2, <2>1, <2>2, <2>4 DEF NextChar, Goto
    <3>2. pc'[t] # "idle" /\ Prints(t)'
      BY <1>1, <2>4, <3>1, NextCharDraws
    <3> QED BY <1>2, <1>3, <2>2, <2>3, <3>2
  <2>5. CASE ~NextChar(t)
    <3>1. Prints(t)
      BY <2>1, <2>5, InsideCharacter
    <3>2. Draws(t)
      BY <1>1, <2>5, <3>1, PutcharDraws
    <3> QED BY <1>2, <1>3, <2>2, <2>3, <3>2 DEF Draws
  <2> QED BY <2>4, <2>5
<1> QED
  BY <1>6, <1>7 DEF PictureInv

\* What the callers do between two texts, interrupts included
LEMMA CallersShow ==
  ASSUME ScreenInv, OutOK, PictureInv, UNCHANGED <<vga_buffer, pc, out>>, nested' \in BOOLEAN,
         moved' \in BOOLEAN,
         nested' = FALSE /\ moved' = FALSE =>
           /\ nested = FALSE /\ moved = FALSE /\ UNCHANGED <<vga_row, vga_column>>
           /\ pc["kmain"] = "idle" /\ pc["irq"] = "idle"
  PROVE  OutOK' /\ PictureInv'
<1>1. OutOK'
  BY DEF OutOK
<1>2. ASSUME nested' = FALSE, moved' = FALSE
      PROVE  pc'["kmain"] = "idle" /\ pc'["irq"] = "idle" /\ Resting'
  BY <1>2, RestingKept DEF PictureInv
<1> QED
  BY <1>1, <1>2 DEF PictureInv, Threads

LEMMA PictureNext ==
  ScreenInv /\ OutOK /\ PictureInv /\ [Next]_vars => OutOK' /\ PictureInv'
<1> SUFFICES ASSUME ScreenInv, OutOK, PictureInv, [Next]_vars  PROVE OutOK' /\ PictureInv'
  OBVIOUS
<1>1. CASE \E t \in Threads : vga_putchar(t)
  BY <1>1, PutcharShows
<1>2. CASE \E s \in KmainText : KmainPrints(s)
  <2>1. /\ UNCHANGED <<vga_row, vga_column, vga_buffer, pc, out, nested, moved>>
        /\ pc["kmain"] = "idle" /\ pc["irq"] = "idle"
    BY <1>2 DEF KmainPrints, cursor, history, Busy, Runs
  <2> QED BY <2>1, CallersShow DEF OutOK
<1>3. CASE \E s \in IrqText : IrqPrints(s)
  <2>1. /\ UNCHANGED <<vga_row, vga_column, vga_buffer, pc, out, moved>>
        /\ pc["irq"] = "idle" /\ nested' = (nested \/ pc["kmain"] # "idle")
    BY <1>3 DEF IrqPrints, cursor, Busy
  <2>2. nested' \in BOOLEAN /\ (nested' = FALSE => nested = FALSE /\ pc["kmain"] = "idle")
    BY <2>1 DEF OutOK
  <2> QED BY <2>1, <2>2, CallersShow DEF OutOK
<1>4. CASE \E i \in DOMAIN Colors : vga_set_color(Colors[i])
  <2>1. /\ UNCHANGED <<vga_row, vga_column, vga_buffer, pc, out, nested, moved>>
        /\ pc["kmain"] = "idle" /\ pc["irq"] = "idle"
    BY <1>4 DEF vga_set_color, cursor, history, Busy, Runs
  <2> QED BY <2>1, CallersShow DEF OutOK
<1>5. CASE \E x \in 0..VGA_WIDTH-1, y \in 0..VGA_HEIGHT-1 : vga_set_pos(x, y)
  <2>1. UNCHANGED <<vga_buffer, pc, out, nested>> /\ moved' = TRUE
    BY <1>5 DEF vga_set_pos
  <2> QED BY <2>1, CallersShow DEF OutOK
<1>6. CASE UNCHANGED vars
  <2>1. UNCHANGED <<vga_row, vga_column, vga_color, vga_buffer, pc, text, row, col, out, nested, moved>>
    BY <1>6 DEF vars, cursor, history
  <2>2. OutOK'
    BY <2>1 DEF OutOK
  <2>3. ASSUME NEW t \in Threads, Prints(t)  PROVE Prints(t)'
    <3>1. Len(out) >= 1
      BY <2>3 DEF Prints
    <3>2. /\ Undrawn' <=> Undrawn
          /\ Drawn' <=> Drawn
          /\ Scrolled' <=> Scrolled
      BY <2>1, SamePicture
    <3>3. (Before => Before') /\ (Beyond => Beyond')
          /\ (Between => Between') /\ (Behind => Behind')
      BY <2>1, <3>1, SamePaper DEF Before, Beyond, Between, Behind
    <3> QED BY <2>1, <2>3, <3>2, <3>3 DEF Prints
  <2>4. Resting => Resting'
    BY <2>1, RestingKept
  <2> QED BY <2>1, <2>2, <2>3, <2>4 DEF PictureInv, Busy
<1> QED
  BY <1>1, <1>2, <1>3, <1>4, <1>5, <1>6 DEF Next, Quiet

LEMMA PictureInit == Init => OutOK /\ PictureInv
<1> SUFFICES ASSUME Init  PROVE OutOK /\ PictureInv
  OBVIOUS
<1>1. /\ pc = [t \in Threads |-> "idle"] /\ out = <<>> /\ nested = FALSE /\ moved = FALSE
      /\ vga_row = 0 /\ vga_column = 0 /\ vga_buffer = [i \in Cells |-> entry(Blank, Colors[1])]
  BY DEF Init
<1>2. OutOK
  <2>1. out \in Seq({})
    BY <1>1
  <2> QED BY <1>1, <2>1 DEF OutOK
<1>3. Len(out) = 0 /\ Len(out) + 1 = 1
  BY <1>1
<1>4. PaperLine(1) = 0 /\ PaperColumn(1) = 0
  <2>1. 1..1-1 = {}
    OBVIOUS
  <2>2. PaperLine(1) = Cardinality({})
    BY <2>1 DEF PaperLine
  <2>3. LineStart(1) = 0
    BY <2>1 DEF LineStart
  <2>4. (1 - 1 - 0) % VGA_WIDTH = 0
    BY ScreenAssumption
  <2> QED BY <2>2, <2>3, <2>4, FS_EmptySet DEF PaperColumn
<1>5. Top(1) = 0
  BY <1>4, ScreenAssumption DEF Top
<1>6. Scrolled
  <2>1. ASSUME NEW y \in 0..VGA_HEIGHT-1, NEW x \in 0..VGA_WIDTH-1
        PROVE  Shown(0, 0, y, x)
    <3>1. Printed(0, 0 + y, x) = {}
      BY DEF Printed
    <3>2. vga_buffer[y * VGA_WIDTH + x].char = Blank
      BY <1>1, OnScreen DEF entry
    <3> QED BY <3>1, <3>2 DEF Shown
  <2> QED BY <1>3, <1>5, <2>1 DEF Scrolled, Shows
<1>7. Resting
  BY <1>1, <1>3, <1>4, <1>5, <1>6 DEF Resting
<1> QED
  BY <1>1, <1>2, <1>7 DEF PictureInv, Threads

\* On a screen of any size and for texts of any length, as long as no handler
\* began in the middle of a character and nobody moved the cursor: once nobody
\* prints, the screen shows the last lines of everything that was printed, and
\* the cursor is behind it, however often vga_putchar has scrolled.
THEOREM TextSafe == Spec => []ScreenShowsText
<1>1. OutOK /\ PictureInv => ScreenShowsText
  <2> SUFFICES ASSUME OutOK, PictureInv, ~Busy("kmain"), ~Busy("irq"), ~nested, ~moved
               PROVE  ScreenShowsText
    BY DEF ScreenShowsText
  <2>1. Resting
    BY DEF PictureInv, OutOK, Busy
  <2>2. DOMAIN out = 1..Len(out)
    BY LenProperties DEF OutOK
  <2> QED BY <2>1, <2>2 DEF Resting, Scrolled, Shows, Shown, Printed, Top, ScreenShowsText
<1> QED
  BY <1>1, ScreenInit, ScreenNext, PictureInit, PictureNext, PTL DEF Spec
=============================================================================
