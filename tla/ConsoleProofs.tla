--------------------------- MODULE ConsoleProofs ---------------------------
(***************************************************************************)
(* The console for every size of the screen, every set of writers and       *)
(* everything they print.  That the cursor comes back to the screen needs   *)
(* one variable and one register: a row below the screen was stored by a    *)
(* writer whose register holds a row below the screen too, so that          *)
(* whichever of the two its test reads, it scrolls.  That the screen is     *)
(* exact until two writers meet needs, for each label of terminal_putchar,  *)
(* what is left of the call from there (Finishes), and which registers hold *)
(* what the memory does (Agrees).                                           *)
(***************************************************************************)
EXTENDS Console, TLAPS

\* what the steps need to know of the variables that RowRecovers speaks of
RowTypes ==
    /\ terminal_row \in Nat
    /\ row_reg \in [Writers -> Nat \cup {NoValue}]
    /\ pc \in [Writers -> Labels]
    /\ \A w \in Writers : pc[w] = "store" => row_reg[w] \in Nat

RowInv == RowTypes /\ RowRecovers

\* steps of w that leave the row alone and do not take w away from its test
LEMMA RowKept ==
    ASSUME RowInv, NEW w \in Writers, ~WillScroll(w),
           UNCHANGED <<terminal_row, row_reg>>,
           NEW l \in Labels, pc' = [pc EXCEPT ![w] = l], l # "store"
    PROVE  RowInv'
<1>1. RowTypes'
  BY DEF RowInv, RowTypes
<1>2. ASSUME terminal_row' >= Height
      PROVE  \E v \in Writers : WillScroll(v)'
  <2>1. PICK v \in Writers : WillScroll(v)
    BY <1>2 DEF RowInv, RowRecovers
  <2>2. v # w
    BY <2>1
  <2>3. WillScroll(v)'
    BY <2>1, <2>2 DEF WillScroll, RowInv, RowTypes
  <2> QED BY <2>3
<1> QED BY <1>1, <1>2 DEF RowInv, RowRecovers

\* w leaves its test: it has scrolled if the row was below the screen
LEMMA RowTested ==
    ASSUME ScreenSizes, RowInv, NEW w \in Writers,
           NEW r \in Reads(w, row_reg, terminal_row), ScrollIf(Off(r)),
           pc[w] \in {"prompt", "check"}, NEW l \in {"key", "idle"},
           pc' = [pc EXCEPT ![w] = l],
           row_reg' \in [Writers -> Nat \cup {NoValue}],
           \A v \in Writers \ {w} : row_reg'[v] = row_reg[v]
    PROVE  RowInv'
<1>1. r \in Nat /\ terminal_row \in Nat /\ Height \in Nat /\ Height > 1
  BY DEF RowInv, RowTypes, Reads, NoValue, ScreenSizes
<1>2. terminal_row' = IF r >= Height THEN Height - 1 ELSE terminal_row
  BY DEF ScrollIf, Off
<1>3. RowTypes'
  <2>1. terminal_row' \in Nat
    BY <1>1, <1>2
  <2>2. pc' \in [Writers -> Labels]
    BY DEF RowInv, RowTypes, Labels
  <2>3. \A v \in Writers : pc'[v] = "store" => row_reg'[v] \in Nat
    BY DEF RowInv, RowTypes
  <2> QED BY <2>1, <2>2, <2>3 DEF RowTypes
<1>4. ASSUME terminal_row' >= Height
      PROVE  \E v \in Writers : WillScroll(v)'
  <2>1. r < Height /\ terminal_row >= Height
    BY <1>1, <1>2, <1>4
  <2>2. PICK v \in Writers : WillScroll(v)
    BY <2>1 DEF RowInv, RowRecovers
  <2>3. v # w
    BY <2>1, <2>2, <1>1 DEF Reads, WillScroll
  <2>4. WillScroll(v)'
    BY <2>2, <2>3 DEF WillScroll, RowInv, RowTypes
  <2> QED BY <2>4
<1> QED BY <1>3, <1>4 DEF RowInv, RowRecovers

LEMMA RowInvInit == ScreenSizes /\ Init => RowInv
<1> SUFFICES ASSUME ScreenSizes, Init PROVE RowInv
  OBVIOUS
<1>1. PICK r \in {0, Height - 1}, c \in {0, Width - 1} : shown = Marked(r, c)
  BY DEF Init
<1>2. terminal_row \in Nat /\ terminal_row < Height
  BY <1>1 DEF Init, Marked, ScreenSizes
<1>3. RowTypes
  BY <1>2 DEF Init, RowTypes, Labels, NoValue
<1> QED BY <1>2, <1>3 DEF RowInv, RowRecovers, ScreenSizes

LEMMA RowInvStep ==
    ASSUME ScreenSizes, RowInv, [Next]_vars
    PROVE  RowInv'
<1> USE DEF At, Goto, Scrolls
<1>0. Height \in Nat /\ Height > 1
  BY DEF ScreenSizes
<1>1. ASSUME NEW w \in Writers, NEW c \in Prints[w], terminal_putchar(w, c)
      PROVE  RowInv'
  <2>1. First(c) \in (Labels \ {"store"}) \ Scrolls
    BY DEF First, Labels
  <2>2. RowTypes'
    BY <1>1, <2>1 DEF terminal_putchar, terminal, RowInv, RowTypes, NoValue
  <2>3. \A v \in Writers : WillScroll(v) => WillScroll(v)'
    BY <1>1 DEF terminal_putchar, WillScroll, RowInv, RowTypes
  <2> QED BY <1>1, <2>2, <2>3 DEF terminal_putchar, terminal, RowInv, RowRecovers
<1>2. ASSUME NEW w \in Writers, terminal_clear(w)
      PROVE  RowInv'
  BY <1>0, <1>2 DEF terminal_clear, regs, RowInv, RowTypes, RowRecovers
<1>3. ASSUME NEW w \in Writers, NEW on \in BOOLEAN, SetPager(w, on)
      PROVE  RowInv'
  BY <1>3 DEF SetPager, terminal, regs, RowInv, RowTypes, RowRecovers, WillScroll
<1>4. ASSUME NEW w \in Writers, Step(w)
      PROVE  RowInv'
  <2>1. CASE PutCell(w)
    BY <2>1, RowKept DEF PutCell, regs, WillScroll, Labels
  <2>2. CASE LoadColumn(w)
    BY <2>2, RowKept DEF LoadColumn, terminal, WillScroll, Labels
  <2>3. CASE StoreColumn(w)
    BY <2>3, RowKept DEF StoreColumn, regs, WillScroll, Labels
  <2>4. CASE Tab(w)
    BY <2>4, RowKept DEF Tab, regs, WillScroll, Labels
  <2>5. CASE Wrap(w)
    <3>1. PICK c \in Reads(w, col_reg, terminal_column) :
             pc' = [pc EXCEPT ![w] = IF c >= Width THEN "home" ELSE "check"]
      BY <2>5 DEF Wrap
    <3>2. UNCHANGED <<terminal_row, row_reg>> /\ ~WillScroll(w)
      BY <2>5 DEF Wrap, terminal, regs, WillScroll
    <3> QED BY <3>1, <3>2, RowKept DEF Labels
  <2>6. CASE TestBack(w)
    <3>1. PICK l \in {"back", "check"} : pc' = [pc EXCEPT ![w] = l]
      BY <2>6 DEF TestBack
    <3>2. UNCHANGED <<terminal_row, row_reg>> /\ ~WillScroll(w)
      BY <2>6 DEF TestBack, terminal, WillScroll
    <3> QED BY <3>1, <3>2, RowKept DEF Labels
  <2>7. CASE Back(w)
    BY <2>7, RowKept DEF Back, regs, WillScroll, Labels
  <2>8. CASE BlankCell(w)
    BY <2>8, RowKept DEF BlankCell, regs, WillScroll, Labels
  <2>9. CASE Home(w)
    <3>1. PICK l \in {"check", "load"} : pc' = [pc EXCEPT ![w] = l]
      BY <2>9 DEF Home
    <3>2. UNCHANGED <<terminal_row, row_reg>> /\ ~WillScroll(w)
      BY <2>9 DEF Home, regs, WillScroll
    <3> QED BY <3>1, <3>2, RowKept DEF Labels
  <2>10. CASE LoadRow(w)
    <3>1. RowTypes'
      BY <2>10 DEF LoadRow, terminal, RowInv, RowTypes, Labels
    <3>2. \A v \in Writers : WillScroll(v) => WillScroll(v)'
      BY <2>10 DEF LoadRow, WillScroll, RowInv, RowTypes
    <3> QED BY <2>10, <3>1, <3>2 DEF LoadRow, terminal, RowInv, RowRecovers
  <2>11. CASE StoreRow(w)
    <3>1. row_reg[w] \in Nat /\ terminal_row' = row_reg[w] /\ UNCHANGED row_reg
      BY <2>11 DEF StoreRow, regs, RowInv, RowTypes
    <3>2. PICK l \in {"pager", "check"} : pc' = [pc EXCEPT ![w] = l]
      BY <2>11 DEF StoreRow
    <3>3. RowTypes'
      BY <3>1, <3>2 DEF RowInv, RowTypes, Labels
    <3>4. terminal_row' >= Height => WillScroll(w)'
      BY <3>1, <3>2 DEF WillScroll, RowInv, RowTypes
    <3> QED BY <3>3, <3>4 DEF RowInv, RowRecovers
  <2>12. CASE CountLine(w)
    <3>1. UNCHANGED <<terminal_row, row_reg>>
      BY <2>12 DEF CountLine, TestPager, LoadLines, StoreLines, TestLines, terminal, regs
    <3>2. PICK l \in Scrolls : pc' = [pc EXCEPT ![w] = l] /\ pc[w] \in Scrolls
      BY <2>12 DEF CountLine, TestPager, LoadLines, StoreLines, TestLines
    <3>3. RowTypes'
      BY <3>1, <3>2 DEF RowInv, RowTypes, Labels
    <3>4. \A v \in Writers : WillScroll(v) => WillScroll(v)'
      BY <2>12, <3>1, <3>2 DEF WillScroll, RowInv, RowTypes
    <3> QED BY <3>1, <3>3, <3>4 DEF RowInv, RowRecovers
  <2>13. CASE Prompt(w)
    <3>1. PICK r \in Reads(w, row_reg, terminal_row) : ScrollIf(Off(r))
      BY <2>13 DEF Prompt
    <3>2. /\ row_reg' \in [Writers -> Nat \cup {NoValue}]
          /\ \A v \in Writers \ {w} : row_reg'[v] = row_reg[v]
      BY <2>13 DEF Prompt, RowInv, RowTypes
    <3> QED BY <2>13, <3>1, <3>2, RowTested DEF Prompt
  <2>14. CASE Check(w)
    <3>1. PICK r \in Reads(w, row_reg, terminal_row) : ScrollIf(Off(r))
      BY <2>14 DEF Check
    <3>2. /\ row_reg' \in [Writers -> Nat \cup {NoValue}]
          /\ \A v \in Writers \ {w} : row_reg'[v] = row_reg[v]
      BY <2>14 DEF Check, regs, RowInv, RowTypes
    <3> QED BY <2>14, <3>1, <3>2, RowTested DEF Check
  <2>15. ASSUME NEW q \in BOOLEAN, Key(w, q)
         PROVE  RowInv'
    <3>1. PICK l \in {"idle", "check"} : pc' = [pc EXCEPT ![w] = l]
      BY <2>15 DEF Key
    <3>2. UNCHANGED <<terminal_row, row_reg>> /\ ~WillScroll(w)
      BY <2>15 DEF Key, regs, WillScroll
    <3> QED BY <3>1, <3>2, RowKept DEF Labels
  <2> QED
    BY <1>4, <2>1, <2>2, <2>3, <2>4, <2>5, <2>6, <2>7, <2>8, <2>9, <2>10, <2>11,
       <2>12, <2>13, <2>14, <2>15 DEF Step
<1>5. CASE UNCHANGED vars
  BY <1>5 DEF vars, terminal, regs, RowInv, RowTypes, RowRecovers, WillScroll
<1> QED BY <1>1, <1>2, <1>3, <1>4, <1>5 DEF Next

(* The cursor is below the screen only while a writer is about to scroll, for   *)
(* every number of writers that interrupt each other inside terminal_putchar    *)
(* (vga.c:53, 87), whether its test loads terminal_row again or not.            *)
THEOREM ConsoleRecovers == Spec => []RowRecovers
<1> USE ScreenSizes
<1>1. Init => RowInv
  BY RowInvInit
<1>2. RowInv /\ [Next]_vars => RowInv'
  BY RowInvStep
<1>3. RowInv => RowRecovers
  BY DEF RowInv
<1> QED BY <1>1, <1>2, <1>3, PTL DEF Spec

-----------------------------------------------------------------------------
(* What is on the screen while no two writers have met: there is at most one  *)
(* writer inside terminal_putchar, and finishing its call would leave the     *)
(* screen that an atomic call has left, of which each of its labels has done  *)
(* a part.                                                                    *)

Chars == {Blank, "mark"} \cup UNION {Prints[w] : w \in Writers}

Scr(cells, r, c) == [cells |-> cells, row |-> r, col |-> c]

\* the screen with the cursor at the start of the line after r
NextLine(cells, r) ==
    IF r + 1 < Height THEN Scr(cells, r + 1, 0) ELSE Scr(ScrolledCells(cells), Height - 1, 0)

Now == Scr(terminal_buffer, terminal_row, terminal_column)

Alone == \A v, w \in Writers : pc[v] # "idle" /\ pc[w] # "idle" => v = w

Idle == \A w \in Writers : pc[w] = "idle"

\* the screen that w would leave
Finishes(w) ==
    /\ pc[w] = "put" =>
          shown = IF terminal_column + 1 < Width
                  THEN Scr(Written(terminal_buffer, Cursor, ch[w]), terminal_row, terminal_column + 1)
                  ELSE NextLine(Written(terminal_buffer, Cursor, ch[w]), terminal_row)
    /\ pc[w] \in {"load_col", "store_col"} =>
          shown = IF terminal_column + 1 < Width
                  THEN Scr(terminal_buffer, terminal_row, terminal_column + 1)
                  ELSE NextLine(terminal_buffer, terminal_row)
    /\ pc[w] = "tab" =>
          shown = IF NextTab(terminal_column) < Width
                  THEN Scr(terminal_buffer, terminal_row, NextTab(terminal_column))
                  ELSE NextLine(terminal_buffer, terminal_row)
    /\ pc[w] = "wrap" =>
          shown = IF terminal_column < Width THEN Now ELSE NextLine(terminal_buffer, terminal_row)
    /\ pc[w] \in {"test_back", "back"} =>
          shown = IF terminal_column = 0 THEN Now
                  ELSE Scr(Written(terminal_buffer, Cursor - 1, Blank),
                           terminal_row, terminal_column - 1)
    /\ pc[w] = "blank" =>
          shown = Scr(Written(terminal_buffer, Cursor, Blank), terminal_row, terminal_column)
    /\ pc[w] = "home" =>
          shown = IF ch[w] = "return" THEN Scr(terminal_buffer, terminal_row, 0)
                  ELSE NextLine(terminal_buffer, terminal_row)
    /\ pc[w] \in {"load", "store"} => shown = NextLine(terminal_buffer, terminal_row)
    /\ pc[w] \in Scrolls =>
          shown = IF terminal_row < Height THEN Now
                  ELSE Scr(ScrolledCells(terminal_buffer), Height - 1, terminal_column)
    /\ pc[w] = "key" => shown = Now

\* where the cursor is, and that the registers hold what the memory does
Agrees(w) ==
    /\ pc[w] \notin Scrolls => terminal_row \in 0 .. Height - 1
    /\ pc[w] \notin {"wrap", "home"} => terminal_column \in 0 .. Width - 1
    /\ pc[w] \in {"put", "load_col", "store_col", "tab", "wrap"} => ch[w] # "return"
    /\ pc[w] \in {"load", "store", "key"} \cup (Scrolls \ {"check"}) => terminal_column = 0
    /\ pc[w] = "store_col" => col_reg[w] = terminal_column + 1
    /\ pc[w] \in {"put", "load_col", "tab"} => col_reg[w] = NoValue
    /\ pc[w] \in {"put", "load_col", "store_col", "tab", "wrap", "test_back", "back", "blank",
                  "home", "key"} => row_reg[w] = NoValue
    /\ pc[w] = "wrap" => col_reg[w] \in {NoValue, terminal_column}
    /\ pc[w] = "back" => col_reg[w] = terminal_column /\ terminal_column # 0
    /\ pc[w] = "store" => row_reg[w] = terminal_row + 1
    /\ pc[w] \in Scrolls \ {"check"} => row_reg[w] = terminal_row
    /\ pc[w] = "check" => row_reg[w] \in {NoValue, terminal_row}
    /\ pc[w] = "check" /\ row_reg[w] = NoValue => terminal_row < Height

Exact ==
    ~met => /\ Alone
            /\ Idle => shown = Now
            /\ \A w \in Writers : pc[w] # "idle" => Finishes(w) /\ Agrees(w)

(* The lines counted for the pager are rows that the cursor went down, and it  *)
(* has not left the screen since; a count that was stored and not yet tested   *)
(* is still there, unless the pager was turned on or off meanwhile.            *)
Counted ==
    ~met => /\ rows <= terminal_row \/ terminal_row >= Height - 1
            /\ pager_lines <= Height - 1
            /\ (\A w \in Writers : pc[w] \notin {"full", "prompt", "key"})
                  => pager_lines = 0 \/ ~Full(pager_lines)
            /\ \A w \in Writers :
                  /\ pc[w] = "store_lines" => line_reg[w] \in 1 .. Height - 1
                  /\ pc[w] = "full" => pager_lines \in {0, line_reg[w]}

-----------------------------------------------------------------------------
(* Types.                                                                   *)

Shape ==
    /\ TypeOK
    /\ ch = [w \in Writers |-> ch[w]]
    /\ shown \in Screens(Chars)
    /\ \A w \in Writers : pc[w] # "idle" => ch[w] \in Prints[w]
    /\ \A w \in Writers : pc[w] = "store" => row_reg[w] \in Nat
    /\ \A w \in Writers : pc[w] = "store_col" => col_reg[w] \in 0 .. SizeMod - 1
    /\ \A w \in Writers : pc[w] = "store_lines" => line_reg[w] \in Nat

LEMMA Sizes ==
    /\ Width \in Nat \ {0} /\ Height \in Nat /\ Height > 1 /\ TabStop \in Nat \ {0}
    /\ MaxPuts \in Nat /\ SizeMod \in Nat /\ 2 * Width < SizeMod
    /\ Width * Height \in Nat /\ Width * Height < SizeMod
    /\ TabStop <= Width
<1>1. Width \in Nat \ {0} /\ Height \in Nat /\ Height > 1 /\ TabStop \in Nat \ {0} /\ MaxPuts \in Nat
  BY ScreenSizes, ConsoleBounds
<1>2. \A m \in Nat, h \in Nat : h > 1 => m * h >= 2 * m /\ m * h \in Nat
  BY Z3
<1>3. Width * Height >= 2 * Width /\ Width * Height \in Nat
  BY <1>1, <1>2
<1>4. SizeMod \in Nat /\ Width * Height < SizeMod
  BY <1>1, <1>3, ConsoleBounds
<1>5. TabStop <= Width
  <2>1. ASSUME Width < TabStop PROVE Width % TabStop = Width
    BY <1>1, <2>1, Z3
  <2> QED
    BY <1>1, <2>1, ScreenSizes
<1> QED
  BY <1>1, <1>3, <1>4, <1>5

\* a cell inside the screen has an address inside the cells
LEMMA CellAt ==
    ASSUME NEW r \in 0 .. Height - 1, NEW c \in 0 .. Width - 1
    PROVE  r * Width + c \in Cells
<1>1. \A m \in Nat, h \in Nat, x \in Nat : x < h => x * m + m <= m * h /\ x * m \in Nat
  BY Z3
<1>2. r * Width + Width <= Width * Height /\ r * Width \in Nat
  BY <1>1, Sizes
<1> QED
  BY <1>2, Sizes DEF Cells

LEMMA TabBounds ==
    ASSUME NEW c \in 0 .. SizeMod - 1
    PROVE  NextTab(c) \in Nat /\ NextTab(c) <= c + TabStop
<1>1. \A n \in Nat, t \in Nat \ {0} : (n \div t) \in Nat /\ (n \div t) * t <= n
  BY Z3
<1>2. (c \div TabStop) \in Nat /\ (c \div TabStop) * TabStop <= c
  BY <1>1, Sizes
<1>3. \A a \in Nat, t \in Nat : (a + 1) * t = a * t + t /\ a * t \in Nat
  BY Z3
<1> QED
  BY <1>2, <1>3, Sizes DEF NextTab

LEMMA ModRange == \A n \in Int : n % SizeMod \in 0 .. SizeMod - 1
BY Sizes, Z3

LEMMA CellOperators ==
    ASSUME NEW b \in [Cells -> Chars]
    PROVE  /\ ScrolledCells(b) \in [Cells -> Chars]
           /\ \A r : BlankedRow(b, r) \in [Cells -> Chars]
           /\ \A i : \A c \in Chars : Written(b, i, c) \in [Cells -> Chars]
BY DEF ScrolledCells, BlankedRow, Written, Chars

LEMMA ScreenOf ==
    /\ \A s \in Screens(Chars) :
          /\ s = Scr(s.cells, s.row, s.col) /\ s.cells \in [Cells -> Chars]
          /\ s.row \in 0 .. Height - 1 /\ s.col \in 0 .. Width - 1
    /\ \A b \in [Cells -> Chars], r \in 0 .. Height - 1, c \in 0 .. Width - 1 :
          Scr(b, r, c) \in Screens(Chars)
BY DEF Screens, Scr

\* the operators of Screen, on a screen taken apart
LEMMA AdvancedAt ==
    ASSUME NEW b, NEW r, NEW c
    PROVE  Advanced(Scr(b, r, c)) = NextLine(b, r)
<1>1. Scr(b, r, c).cells = b /\ Scr(b, r, c).row = r
  BY DEF Scr
<1> QED
  BY <1>1 DEF Advanced, NextLine, Scr

LEMMA MovedAt ==
    ASSUME NEW b, NEW r, NEW c, NEW d
    PROVE  Moved(Scr(b, r, c), d) = IF d < Width THEN Scr(b, r, d) ELSE NextLine(b, r)
<1>1. [Scr(b, r, c) EXCEPT !.col = d] = Scr(b, r, d)
  BY DEF Scr
<1> QED
  BY <1>1, AdvancedAt DEF Moved

LEMMA PutAt ==
    ASSUME NEW b, NEW r, NEW c, NEW x
    PROVE  /\ x = "newline" => Put(Scr(b, r, c), x) = NextLine(b, r)
           /\ x = "return" => Put(Scr(b, r, c), x) = Scr(b, r, 0)
           /\ x = "tab" => Put(Scr(b, r, c), x) =
                              IF NextTab(c) < Width THEN Scr(b, r, NextTab(c)) ELSE NextLine(b, r)
           /\ x = "backspace" => Put(Scr(b, r, c), x) =
                              IF c = 0 THEN Scr(b, r, c)
                              ELSE Scr(Written(b, (r * Width + c) - 1, Blank), r, c - 1)
           /\ x \notin {"newline", "return", "tab", "backspace"} =>
                 Put(Scr(b, r, c), x) =
                    IF c + 1 < Width THEN Scr(Written(b, r * Width + c, x), r, c + 1)
                    ELSE NextLine(Written(b, r * Width + c, x), r)
<1>0. Scr(b, r, c).cells = b /\ Scr(b, r, c).row = r /\ Scr(b, r, c).col = c
  BY DEF Scr
<1>1. CASE x = "newline"
  BY <1>1, AdvancedAt DEF Put
<1>2. CASE x = "return"
  BY <1>2 DEF Put, Scr
<1>3. CASE x = "tab"
  BY <1>0, <1>3, MovedAt DEF Put
<1>4. CASE x = "backspace"
  <2>1. Position(Scr(b, r, c)) = r * Width + c
    BY <1>0 DEF Position
  <2>2. Put(Scr(b, r, c), "backspace") =
           IF c = 0 THEN Scr(b, r, c) ELSE Scr(Written(b, (r * Width + c) - 1, Blank), r, c - 1)
    BY <1>0, <2>1 DEF Put, Scr
  <2> QED
    BY <1>4, <2>2
<1>5. CASE x \notin {"newline", "return", "tab", "backspace"}
  <2>1. Position(Scr(b, r, c)) = r * Width + c
    BY <1>0 DEF Position
  <2>2. [Scr(b, r, c) EXCEPT !.cells = Written(@, r * Width + c, x)]
           = Scr(Written(b, r * Width + c, x), r, c)
    BY DEF Scr
  <2> QED
    BY <1>0, <1>5, <2>1, <2>2, MovedAt DEF Put
<1> QED
  BY <1>1, <1>2, <1>3, <1>4, <1>5

LEMMA NextLineTyped ==
    ASSUME NEW b \in [Cells -> Chars], NEW r \in 0 .. Height - 1
    PROVE  NextLine(b, r) \in Screens(Chars)
<1>1. ScrolledCells(b) \in [Cells -> Chars]
  BY CellOperators
<1>2. 0 \in 0 .. Width - 1 /\ Height - 1 \in 0 .. Height - 1
  BY Sizes
<1>3. r + 1 < Height => r + 1 \in 0 .. Height - 1
  BY Sizes
<1> QED
  BY <1>1, <1>2, <1>3, ScreenOf DEF NextLine

LEMMA PutTyped ==
    ASSUME NEW s \in Screens(Chars), NEW x \in Chars
    PROVE  Put(s, x) \in Screens(Chars)
<1> DEFINE b == s.cells
           r == s.row
           c == s.col
<1>1. s = Scr(b, r, c) /\ b \in [Cells -> Chars] /\ r \in 0 .. Height - 1 /\ c \in 0 .. Width - 1
  BY ScreenOf
<1>2. \A i : Written(b, i, x) \in [Cells -> Chars] /\ Written(b, i, Blank) \in [Cells -> Chars]
  BY <1>1, CellOperators DEF Chars
<1>3. NextTab(c) \in Nat
  BY <1>1, TabBounds, Sizes
<1>4. /\ c # 0 => c - 1 \in 0 .. Width - 1
      /\ c + 1 < Width => c + 1 \in 0 .. Width - 1
      /\ NextTab(c) < Width => NextTab(c) \in 0 .. Width - 1
      /\ 0 \in 0 .. Width - 1
  BY <1>1, <1>3, Sizes
<1> HIDE DEF b, r, c
<1>5. CASE x = "newline"
  BY <1>1, <1>5, PutAt, NextLineTyped
<1>6. CASE x = "return"
  BY <1>1, <1>4, <1>6, PutAt, ScreenOf
<1>7. CASE x = "tab"
  BY <1>1, <1>4, <1>7, PutAt, ScreenOf, NextLineTyped
<1>8. CASE x = "backspace"
  BY <1>1, <1>2, <1>4, <1>8, PutAt, ScreenOf
<1>9. CASE x \notin {"newline", "return", "tab", "backspace"}
  <2> DEFINE d == Written(b, r * Width + c, x)
  <2>1. d \in [Cells -> Chars]
    BY <1>2
  <2>2. Put(s, x) = IF c + 1 < Width THEN Scr(d, r, c + 1) ELSE NextLine(d, r)
    BY <1>1, <1>9, PutAt
  <2> HIDE DEF d
  <2> QED
    BY <1>1, <1>4, <2>1, <2>2, ScreenOf, NextLineTyped
<1> QED
  BY <1>5, <1>6, <1>7, <1>8, <1>9

LEMMA MarkedTyped ==
    ASSUME NEW r \in {0, Height - 1}, NEW c \in {0, Width - 1}
    PROVE  Marked(r, c) \in Screens(Chars)
<1> DEFINE b == [i \in Cells |-> IF i % Width = 0 /\ i \div Width <= r THEN "mark" ELSE Blank]
<1>1. b \in [Cells -> Chars]
  BY DEF Chars
<1>2. r \in 0 .. Height - 1 /\ c \in 0 .. Width - 1
  BY Sizes
<1>3. Marked(r, c) = Scr(b, r, c)
  BY DEF Marked, Scr
<1> HIDE DEF b
<1> QED
  BY <1>1, <1>2, <1>3, ScreenOf

LEMMA ShapeStarts == Init => Shape
<1> SUFFICES ASSUME Init PROVE Shape
  OBVIOUS
<1>1. PICK r \in {0, Height - 1}, c \in {0, Width - 1} : shown = Marked(r, c)
  BY DEF Init
<1>2. shown \in Screens(Chars)
  BY <1>1, MarkedTyped
<1>3. /\ terminal_buffer \in [Cells -> Chars] /\ terminal_row \in 0 .. Height - 1
      /\ terminal_column \in 0 .. Width - 1
      /\ shown.row \in 0 .. Height - 1 /\ shown.col \in 0 .. Width - 1
  BY <1>2, ScreenOf DEF Init
<1>4. terminal_row \in Nat /\ terminal_column \in 0 .. SizeMod - 1 /\ puts \in 0 .. MaxPuts
  BY <1>3, Sizes DEF Init
<1>5. /\ pc \in [Writers -> Labels] /\ \A w \in Writers : pc[w] = "idle"
      /\ ch = [w \in Writers |-> ch[w]] /\ \A w \in Writers : ch[w] = "newline"
  BY DEF Init, Labels
<1>6. /\ row_reg \in [Writers -> Nat \cup {NoValue}] /\ line_reg \in [Writers -> Nat \cup {NoValue}]
      /\ col_reg \in [Writers -> 0 .. SizeMod - 1 \cup {NoValue}]
  BY DEF Init
<1>7. pager_enabled \in BOOLEAN /\ pager_lines \in Nat /\ met \in BOOLEAN /\ rows \in Nat
  BY DEF Init
<1> QED
  BY <1>2, <1>3, <1>4, <1>5, <1>6, <1>7 DEF Shape, TypeOK, Chars

ScreenTyped ==
    /\ terminal_buffer \in [Cells -> Chars]
    /\ terminal_row \in Nat /\ terminal_column \in 0 .. SizeMod - 1

PagerTyped ==
    /\ pager_enabled \in BOOLEAN /\ pager_lines \in Nat
    /\ puts \in 0 .. MaxPuts /\ met \in BOOLEAN /\ rows \in Nat

RegsTyped ==
    /\ row_reg \in [Writers -> Nat \cup {NoValue}]
    /\ col_reg \in [Writers -> 0 .. SizeMod - 1 \cup {NoValue}]
    /\ \A w \in Writers : pc[w] = "store" => row_reg[w] \in Nat
    /\ \A w \in Writers : pc[w] = "store_col" => col_reg[w] \in 0 .. SizeMod - 1
    /\ line_reg \in [Writers -> Nat \cup {NoValue}]
    /\ \A w \in Writers : pc[w] = "store_lines" => line_reg[w] \in Nat

CharsTyped ==
    /\ pc \in [Writers -> Labels]
    /\ ch = [w \in Writers |-> ch[w]]
    /\ \A w \in Writers : ch[w] \in Prints[w] \cup {"newline"}
    /\ \A w \in Writers : pc[w] # "idle" => ch[w] \in Prints[w]

\* the parts of Shape, so that a step need only speak of those it touches
LEMMA ShapeParts ==
    Shape <=> ScreenTyped /\ PagerTyped /\ RegsTyped /\ CharsTyped /\ shown \in Screens(Chars)
<1>1. shown \in Screens(Chars) => shown.row \in 0 .. Height - 1 /\ shown.col \in 0 .. Width - 1
  BY ScreenOf
<1> QED
  BY <1>1 DEF Shape, TypeOK, ScreenTyped, PagerTyped, RegsTyped, CharsTyped, Chars

LEMMA PartsAfter ==
    ASSUME ScreenTyped', PagerTyped', RegsTyped', CharsTyped', shown' \in Screens(Chars)
    PROVE  Shape'
<1>1. shown'.row \in 0 .. Height - 1 /\ shown'.col \in 0 .. Width - 1
  BY ScreenOf
<1> QED
  BY <1>1 DEF Shape, TypeOK, ScreenTyped, PagerTyped, RegsTyped, CharsTyped, Chars

\* w goes on at label l with its character
LEMMA GoesOn ==
    ASSUME CharsTyped, NEW w \in Writers, pc[w] # "idle", NEW l \in Labels, Goto(w, l), ch' = ch
    PROVE  CharsTyped'
BY DEF CharsTyped, Goto

\* a test of w reads a value of the type of the variable
LEMMA ReadsTyped ==
    ASSUME Shape, NEW w \in Writers
    PROVE  /\ Reads(w, row_reg, terminal_row) \subseteq Nat
           /\ Reads(w, col_reg, terminal_column) \subseteq 0 .. SizeMod - 1
<1>1. ScreenTyped /\ RegsTyped
  BY ShapeParts
<1>2. row_reg[w] # NoValue => row_reg[w] \in Nat
  BY <1>1 DEF RegsTyped
<1>3. col_reg[w] # NoValue => col_reg[w] \in 0 .. SizeMod - 1
  BY <1>1 DEF RegsTyped
<1> QED
  BY <1>1, <1>2, <1>3 DEF Reads, ScreenTyped

LEMMA ScrollTyped ==
    ASSUME ScreenTyped, NEW off, ScrollIf(off), UNCHANGED terminal_column
    PROVE  ScreenTyped'
BY Sizes, CellOperators DEF ScreenTyped, ScrollIf

LEMMA CellTyped ==
    ASSUME ScreenTyped, NEW i, NEW c \in Chars, WriteCell(i, c),
           UNCHANGED <<terminal_row, terminal_column>>
    PROVE  ScreenTyped'
BY CellOperators DEF ScreenTyped, WriteCell

\* the steps that touch neither the pager nor the history
LEMMA ShapeStep1 ==
    ASSUME Shape, NEW w \in Writers,
           \/ PutCell(w) \/ LoadColumn(w) \/ StoreColumn(w) \/ Tab(w) \/ Wrap(w)
           \/ TestBack(w) \/ Back(w) \/ BlankCell(w)
    PROVE  Shape'
<1>1. ScreenTyped /\ PagerTyped /\ RegsTyped /\ CharsTyped /\ shown \in Screens(Chars)
  BY ShapeParts
<1>2. UNCHANGED <<pager, puts, history, ch>>
  BY DEF PutCell, LoadColumn, StoreColumn, Tab, Wrap, TestBack, Back, BlankCell
<1>3. PagerTyped' /\ shown' \in Screens(Chars)
  BY <1>1, <1>2 DEF PagerTyped, pager, history
<1>4. PICK l \in Labels \ {"idle", "store", "store_lines"} : Goto(w, l) /\ (l = "store_col" => LoadColumn(w))
  BY DEF PutCell, LoadColumn, StoreColumn, Tab, Wrap, TestBack, Back, BlankCell, Labels
<1>5. CharsTyped'
  BY <1>1, <1>2, <1>4, GoesOn DEF PutCell, LoadColumn, StoreColumn, Tab, Wrap, TestBack,
                                  Back, BlankCell, At
<1>6. UNCHANGED <<row_reg, line_reg>>
  BY DEF PutCell, LoadColumn, StoreColumn, Tab, Wrap, TestBack, Back, BlankCell, regs
<1>7. ASSUME col_reg' = col_reg \/ \E c \in 0 .. SizeMod - 1 : col_reg' = [col_reg EXCEPT ![w] = c],
             LoadColumn(w) => col_reg'[w] \in 0 .. SizeMod - 1
      PROVE  RegsTyped'
  BY <1>1, <1>4, <1>6, <1>7 DEF RegsTyped, CharsTyped, Goto
<1>8. CASE PutCell(w)
  <2>1. ch[w] \in Chars
    BY <1>1, <1>8 DEF PutCell, At, CharsTyped, Chars
  <2>2. RegsTyped'
    BY <1>7, <1>8 DEF PutCell, LoadColumn, At, regs
  <2> QED
    BY <1>1, <1>3, <1>5, <1>8, <2>1, <2>2, CellTyped, PartsAfter DEF PutCell
<1>9. CASE LoadColumn(w)
  <2>1. (terminal_column + 1) % SizeMod \in 0 .. SizeMod - 1
    BY <1>1, ModRange DEF ScreenTyped
  <2>2. RegsTyped'
    BY <1>1, <1>7, <1>9, <2>1 DEF LoadColumn, RegsTyped
  <2>3. ScreenTyped'
    BY <1>1, <1>9 DEF LoadColumn, terminal, ScreenTyped
  <2> QED
    BY <1>3, <1>5, <2>2, <2>3, PartsAfter
<1>10. CASE StoreColumn(w)
  <2>1. RegsTyped'
    BY <1>7, <1>10 DEF StoreColumn, LoadColumn, At, regs
  <2>2. ScreenTyped'
    BY <1>1, <1>10 DEF StoreColumn, At, ScreenTyped, RegsTyped
  <2> QED
    BY <1>3, <1>5, <2>1, <2>2, PartsAfter
<1>11. CASE Tab(w)
  <2>1. RegsTyped'
    BY <1>7, <1>11 DEF Tab, LoadColumn, At, regs
  <2>2. NextTab(terminal_column) % SizeMod \in 0 .. SizeMod - 1
    BY <1>1, TabBounds, ModRange DEF ScreenTyped
  <2>3. ScreenTyped'
    BY <1>1, <1>11, <2>2 DEF Tab, ScreenTyped
  <2> QED
    BY <1>3, <1>5, <2>1, <2>3, PartsAfter
<1>12. CASE Wrap(w)
  <2>1. RegsTyped'
    BY <1>7, <1>12 DEF Wrap, LoadColumn, At, regs
  <2>2. ScreenTyped'
    BY <1>1, <1>12 DEF Wrap, terminal, ScreenTyped
  <2> QED
    BY <1>3, <1>5, <2>1, <2>2, PartsAfter
<1>13. CASE TestBack(w)
  <2>1. RegsTyped'
    BY <1>1, <1>7, <1>13 DEF TestBack, LoadColumn, At, ScreenTyped, RegsTyped
  <2>2. ScreenTyped'
    BY <1>1, <1>13 DEF TestBack, terminal, ScreenTyped
  <2> QED
    BY <1>3, <1>5, <2>1, <2>2, PartsAfter
<1>14. CASE Back(w)
  <2>1. RegsTyped'
    BY <1>7, <1>14 DEF Back, LoadColumn, At, regs
  <2>2. PICK c \in 0 .. SizeMod - 1 : terminal_column' = (c - 1) % SizeMod
    BY <1>14, ReadsTyped DEF Back, Before
  <2>3. terminal_column' \in 0 .. SizeMod - 1
    BY <2>2, ModRange
  <2>4. ScreenTyped'
    BY <1>1, <1>14, <2>3 DEF Back, ScreenTyped
  <2> QED
    BY <1>3, <1>5, <2>1, <2>4, PartsAfter
<1>15. CASE BlankCell(w)
  <2>1. RegsTyped'
    BY <1>7, <1>15 DEF BlankCell, LoadColumn, At, regs
  <2>2. Blank \in Chars
    BY DEF Chars
  <2> QED
    BY <1>1, <1>3, <1>5, <1>15, <2>1, <2>2, CellTyped, PartsAfter DEF BlankCell
<1> QED
  BY <1>8, <1>9, <1>10, <1>11, <1>12, <1>13, <1>14, <1>15

LEMMA ShapeStep2 ==
    ASSUME Shape, NEW w \in Writers,
           \/ Home(w) \/ LoadRow(w) \/ StoreRow(w) \/ Prompt(w) \/ Check(w)
    PROVE  Shape'
<1>1. ScreenTyped /\ PagerTyped /\ RegsTyped /\ CharsTyped /\ shown \in Screens(Chars)
  BY ShapeParts
<1>2. UNCHANGED <<pager, puts, shown, met, ch, col_reg, line_reg>>
  BY DEF Home, LoadRow, StoreRow, Prompt, Check, pager, history, regs
<1>3. PICK l \in Labels \ {"store_col", "store_lines"} : Goto(w, l) /\ (l = "store" => LoadRow(w))
  BY DEF Home, LoadRow, StoreRow, Prompt, Check, Labels
<1>4. CharsTyped'
  BY <1>1, <1>2, <1>3, GoesOn DEF Home, LoadRow, StoreRow, Prompt, Check, At
<1>5. PagerTyped'
  <2>1. rows' \in {rows, rows + 1}
    BY DEF Home, LoadRow, StoreRow, Prompt, Check, history
  <2> QED
    BY <1>1, <1>2, <2>1 DEF PagerTyped, pager
<1>6. RegsTyped'
  <2>1. CASE LoadRow(w)
    BY <1>1, <1>2, <1>3, <2>1 DEF LoadRow, RegsTyped, ScreenTyped, CharsTyped, Goto
  <2>2. CASE ~LoadRow(w)
    <3>1. row_reg' = row_reg \/ row_reg' = [row_reg EXCEPT ![w] = NoValue]
      BY <2>2 DEF Home, StoreRow, Prompt, Check, regs
    <3> QED
      BY <1>1, <1>2, <1>3, <2>2, <3>1 DEF RegsTyped, CharsTyped, Goto
  <2> QED
    BY <2>1, <2>2
<1>7. ScreenTyped'
  <2>1. CASE Home(w)
    BY <1>1, <2>1, Sizes DEF Home, ScreenTyped
  <2>2. CASE LoadRow(w)
    BY <1>1, <2>2 DEF LoadRow, terminal, ScreenTyped
  <2>3. CASE StoreRow(w)
    BY <1>1, <2>3 DEF StoreRow, At, ScreenTyped, RegsTyped
  <2>4. CASE Prompt(w) \/ Check(w)
    BY <1>1, <2>4, ScrollTyped DEF Prompt, Check
  <2> QED
    BY <2>1, <2>2, <2>3, <2>4
<1> QED
  BY <1>1, <1>2, <1>4, <1>5, <1>6, <1>7, PartsAfter

LEMMA ShapeCount == ASSUME Shape, NEW w \in Writers, CountLine(w) PROVE Shape'
<1> USE DEF CountLine, TestPager, LoadLines, StoreLines, TestLines
<1>1. ScreenTyped /\ PagerTyped /\ RegsTyped /\ CharsTyped /\ shown \in Screens(Chars)
  BY ShapeParts
<1>2. UNCHANGED <<terminal, pager_enabled, puts, history, ch, row_reg, col_reg>>
  BY DEF pager, regs
<1>3. PICK l \in Labels \ {"idle", "store", "store_col"} :
         Goto(w, l) /\ (l = "store_lines" => LoadLines(w))
  BY DEF Labels
<1>4. CharsTyped'
  BY <1>1, <1>2, <1>3, GoesOn DEF At
<1>5. PagerTyped'
  <2>1. pager_lines' \in Nat
    BY <1>1 DEF At, pager, PagerTyped, RegsTyped
  <2> QED
    BY <1>1, <1>2, <2>1 DEF PagerTyped, history
<1>6. RegsTyped'
  <2>1. CASE LoadLines(w)
    BY <1>1, <1>2, <1>3, <2>1 DEF RegsTyped, PagerTyped, CharsTyped, Goto
  <2>2. CASE ~LoadLines(w)
    <3>1. line_reg' = line_reg \/ line_reg' = [line_reg EXCEPT ![w] = NoValue]
      BY <2>2 DEF regs
    <3>2. l # "store_lines"
      BY <1>3, <2>2
    <3> QED
      BY <1>1, <1>2, <1>3, <3>1, <3>2 DEF RegsTyped, CharsTyped, Goto
  <2> QED
    BY <2>1, <2>2
<1>7. ScreenTyped' /\ shown' \in Screens(Chars)
  BY <1>1, <1>2 DEF ScreenTyped, terminal, history
<1> QED
  BY <1>4, <1>5, <1>6, <1>7, PartsAfter

LEMMA ShapeKey == ASSUME Shape, NEW w \in Writers, NEW q \in BOOLEAN, Key(w, q) PROVE Shape'
<1>1. ScreenTyped /\ PagerTyped /\ RegsTyped /\ CharsTyped /\ shown \in Screens(Chars)
  BY ShapeParts
<1>2. PICK l \in {"idle", "check"} : Goto(w, l)
  BY DEF Key
<1>3. CharsTyped'
  BY <1>1, <1>2, GoesOn DEF Key, At, Labels
<1>4. PagerTyped' /\ RegsTyped'
  BY <1>1, <1>2 DEF Key, Show, regs, PagerTyped, RegsTyped, CharsTyped, Goto
<1>5. ScreenTyped'
  BY <1>1, Sizes, CellOperators DEF Key, ScreenTyped
<1>6. [shown EXCEPT !.cells = BlankedRow(@, shown.row)] \in Screens(Chars)
  <2>1. BlankedRow(shown.cells, shown.row) \in [Cells -> Chars]
    BY <1>1, ScreenOf, CellOperators
  <2> QED
    BY <1>1, <2>1 DEF Screens
<1>7. shown' \in Screens(Chars)
  BY <1>1, <1>6 DEF Key, Show
<1> QED
  BY <1>3, <1>4, <1>5, <1>7, PartsAfter

LEMMA ClearedTyped == Cleared \in Screens(Chars)
<1>1. [i \in Cells |-> Blank] \in [Cells -> Chars] /\ 0 \in 0 .. Height - 1 /\ 0 \in 0 .. Width - 1
  BY Sizes DEF Chars
<1> QED
  BY <1>1, ScreenOf DEF Cleared, Scr

LEMMA ShapeSteps == Shape /\ [Next]_vars => Shape'
<1> SUFFICES ASSUME Shape, [Next]_vars PROVE Shape'
  OBVIOUS
<1>0. ScreenTyped /\ PagerTyped /\ RegsTyped /\ CharsTyped /\ shown \in Screens(Chars)
  BY ShapeParts
<1>1. ASSUME NEW w \in Writers, NEW c \in Prints[w], terminal_putchar(w, c) PROVE Shape'
  <2>1. Put(shown, c) \in Screens(Chars)
    BY <1>0, PutTyped DEF Chars
  <2>2. shown' \in Screens(Chars)
    BY <1>0, <1>1, <2>1 DEF terminal_putchar, Show
  <2>3. First(c) \in Labels \ {"store", "store_col", "store_lines"}
    BY DEF First, Labels
  <2>4. CharsTyped' /\ RegsTyped'
    <3>1. CharsTyped'
      BY <1>0, <1>1, <2>3 DEF terminal_putchar, Goto, CharsTyped
    <3>2. /\ pc' = [pc EXCEPT ![w] = First(c)]
          /\ row_reg' = [row_reg EXCEPT ![w] = NoValue]
          /\ col_reg' = [col_reg EXCEPT ![w] = NoValue] /\ UNCHANGED line_reg
      BY <1>1 DEF terminal_putchar, Goto
    <3>3. RegsTyped'
      BY <1>0, <2>3, <3>2 DEF CharsTyped, RegsTyped
    <3> QED
      BY <3>1, <3>3
  <2>5. PagerTyped'
    BY <1>0, <1>1, Sizes DEF terminal_putchar, Show, pager, PagerTyped
  <2>6. ScreenTyped'
    BY <1>0, <1>1 DEF terminal_putchar, terminal, ScreenTyped
  <2> QED
    BY <2>2, <2>4, <2>5, <2>6, PartsAfter
<1>2. ASSUME NEW w \in Writers, terminal_clear(w) PROVE Shape'
  <2>1. shown' \in Screens(Chars) /\ Cleared.cells \in [Cells -> Chars]
    BY <1>0, <1>2, ClearedTyped, ScreenOf DEF terminal_clear, Show
  <2>2. ScreenTyped'
    BY <1>2, <2>1, Sizes DEF terminal_clear, ScreenTyped
  <2>3. PagerTyped' /\ RegsTyped' /\ CharsTyped'
    BY <1>0, <1>2, Sizes DEF terminal_clear, Show, regs, PagerTyped, RegsTyped, CharsTyped
  <2> QED
    BY <2>1, <2>2, <2>3, PartsAfter
<1>3. ASSUME NEW w \in Writers, NEW on \in BOOLEAN, SetPager(w, on) PROVE Shape'
  BY <1>0, <1>3, PartsAfter DEF SetPager, terminal, regs, ScreenTyped, PagerTyped, RegsTyped, CharsTyped
<1>4. ASSUME NEW w \in Writers, Step(w) PROVE Shape'
  BY <1>4, ShapeStep1, ShapeStep2, ShapeCount, ShapeKey DEF Step
<1>5. CASE UNCHANGED vars
  BY <1>0, <1>5, PartsAfter DEF vars, terminal, pager, regs, history,
                                ScreenTyped, PagerTyped, RegsTyped, CharsTyped
<1> QED
  BY <1>1, <1>2, <1>3, <1>4, <1>5 DEF Next

LEMMA ShapeAlways == Spec => []Shape
BY ShapeStarts, ShapeSteps, PTL DEF Spec

-----------------------------------------------------------------------------
(* The screen is exact.                                                     *)

Inside(w) == Finishes(w) /\ Agrees(w)

\* w goes on in its call, and nobody else is inside one
LEMMA ExactGoesOn ==
    ASSUME Shape, Exact, NEW w \in Writers, pc[w] # "idle",
           NEW l \in Labels \ {"idle"}, Goto(w, l), met => met',
           ~met' => Inside(w)'
    PROVE  Exact'
<1> SUFFICES ASSUME ~met, ~met'
             PROVE  /\ Alone' /\ (Idle' => shown' = Now')
                    /\ \A v \in Writers : pc'[v] # "idle" => Inside(v)'
  BY DEF Exact, Inside
<1>1. pc \in [Writers -> Labels] /\ Alone
  BY DEF Shape, TypeOK, Exact
<1>2. \A v \in Writers : pc'[v] # "idle" <=> pc[v] # "idle"
  BY <1>1 DEF Goto
<1>3. Alone'
  BY <1>1, <1>2 DEF Alone
<1>4. ~Idle'
  BY <1>2 DEF Idle
<1>5. \A v \in Writers : pc'[v] # "idle" => v = w
  BY <1>1, <1>2 DEF Alone
<1> QED
  BY <1>3, <1>4, <1>5

\* w leaves its call
LEMMA ExactEnds ==
    ASSUME Shape, Exact, NEW w \in Writers, pc[w] # "idle", Goto(w, "idle"),
           met => met', ~met' => shown' = Now'
    PROVE  Exact'
<1> SUFFICES ASSUME ~met, ~met'
             PROVE  /\ Alone' /\ (Idle' => shown' = Now')
                    /\ \A v \in Writers : pc'[v] # "idle" => Inside(v)'
  BY DEF Exact, Inside
<1>1. pc \in [Writers -> Labels] /\ Alone
  BY DEF Shape, TypeOK, Exact
<1>2. \A v \in Writers : pc'[v] = "idle"
  BY <1>1 DEF Goto, Alone
<1> QED
  BY <1>2 DEF Alone

\* what the invariant says while w is inside
LEMMA ExactInside ==
    ASSUME Shape, Exact, ~met, NEW w \in Writers, pc[w] # "idle"
    PROVE  Finishes(w) /\ Agrees(w)
BY DEF Exact

LEMMA NowTyped ==
    ASSUME Shape
    PROVE  /\ shown = Scr(shown.cells, shown.row, shown.col)
           /\ shown = Now => /\ terminal_row \in 0 .. Height - 1 /\ terminal_column \in 0 .. Width - 1
                             /\ terminal_buffer = shown.cells
           /\ terminal_row \in Nat /\ terminal_column \in 0 .. SizeMod - 1
           /\ pc \in [Writers -> Labels] /\ row_reg \in [Writers -> Nat \cup {NoValue}]
           /\ col_reg \in [Writers -> 0 .. SizeMod - 1 \cup {NoValue}]
<1>1. shown \in Screens(Chars)
  BY DEF Shape
<1>2. shown = Now => /\ terminal_row = shown.row /\ terminal_column = shown.col
                     /\ terminal_buffer = shown.cells
  BY DEF Now, Scr
<1> QED
  BY <1>1, <1>2, ScreenOf DEF Shape, TypeOK

\* a small number is its own value of size_t
LEMMA Small == \A n \in 0 .. SizeMod - 1 : n % SizeMod = n
BY Sizes, Z3

LEMMA CursorCell ==
    ASSUME terminal_row \in 0 .. Height - 1, terminal_column \in 0 .. Width - 1
    PROVE  Cursor \in Cells /\ Cursor \in Nat /\ Cursor % SizeMod = Cursor
<1>1. Cursor \in Cells
  BY CellAt DEF Cursor
<1>2. Cursor \in 0 .. SizeMod - 1
  BY <1>1, Sizes DEF Cells
<1> QED
  BY <1>1, <1>2, Small

LEMMA ExactStep1 ==
    ASSUME Shape, Exact, NEW w \in Writers,
           \/ PutCell(w) \/ LoadColumn(w) \/ StoreColumn(w) \/ Tab(w)
           \/ TestBack(w) \/ Back(w) \/ BlankCell(w)
    PROVE  Exact'
<1>1. /\ pc \in [Writers -> Labels] /\ terminal_row \in Nat /\ terminal_column \in 0 .. SizeMod - 1
      /\ col_reg \in [Writers -> 0 .. SizeMod - 1 \cup {NoValue}]
      /\ row_reg \in [Writers -> Nat \cup {NoValue}]
  BY NowTyped
<1>2. pc[w] # "idle" /\ UNCHANGED <<shown, met>> /\ ch' = ch
  BY DEF PutCell, LoadColumn, StoreColumn, Tab, TestBack, Back, BlankCell, At, history
<1>3. CASE PutCell(w)
  <2>1. Goto(w, "load_col") /\ UNCHANGED <<terminal_row, terminal_column, regs>> /\ pc[w] = "put"
    BY <1>3 DEF PutCell, At
  <2>2. ASSUME ~met PROVE Inside(w)'
    <3>1. Finishes(w) /\ Agrees(w)
      BY <1>2, <2>2, ExactInside
    <3>2. terminal_row \in 0 .. Height - 1 /\ terminal_column \in 0 .. Width - 1
      BY <2>1, <3>1 DEF Agrees, Scrolls
    <3>3. terminal_buffer' = Written(terminal_buffer, Cursor, ch[w])
      BY <1>3, <3>2, CursorCell DEF PutCell, WriteCell
    <3>4. pc'[w] = "load_col"
      BY <1>1, <2>1 DEF Goto
    <3>5. Finishes(w)'
      BY <1>2, <2>1, <3>1, <3>3, <3>4 DEF Finishes, Scrolls
    <3>6. Agrees(w)'
      BY <1>2, <2>1, <3>1, <3>2, <3>4 DEF Agrees, Scrolls, regs
    <3> QED
      BY <3>5, <3>6 DEF Inside
  <2> QED
    BY <1>2, <2>1, <2>2, ExactGoesOn DEF Labels
<1>4. CASE LoadColumn(w)
  <2>1. /\ Goto(w, "store_col") /\ UNCHANGED <<terminal, row_reg>> /\ pc[w] = "load_col"
        /\ col_reg'[w] = (terminal_column + 1) % SizeMod
    BY <1>1, <1>4 DEF LoadColumn, At
  <2>2. ASSUME ~met PROVE Inside(w)'
    <3>1. Finishes(w) /\ Agrees(w)
      BY <1>2, <2>2, ExactInside
    <3>2. terminal_row \in 0 .. Height - 1 /\ terminal_column \in 0 .. Width - 1
      BY <2>1, <3>1 DEF Agrees, Scrolls
    <3>3. col_reg'[w] = terminal_column + 1
      BY <2>1, <3>2, Small, Sizes
    <3>4. pc'[w] = "store_col"
      BY <1>1, <2>1 DEF Goto
    <3>5. Finishes(w)'
      BY <1>2, <2>1, <3>1, <3>4 DEF Finishes, Scrolls, terminal
    <3>6. Agrees(w)'
      BY <1>2, <2>1, <3>1, <3>2, <3>3, <3>4 DEF Agrees, Scrolls, terminal
    <3> QED
      BY <3>5, <3>6 DEF Inside
  <2> QED
    BY <1>2, <2>1, <2>2, ExactGoesOn DEF Labels
<1>5. CASE StoreColumn(w)
  <2>1. /\ Goto(w, "wrap") /\ UNCHANGED <<terminal_buffer, terminal_row, regs>>
        /\ pc[w] = "store_col" /\ terminal_column' = col_reg[w]
    BY <1>5 DEF StoreColumn, At
  <2>2. ASSUME ~met PROVE Inside(w)'
    <3>1. Finishes(w) /\ Agrees(w)
      BY <1>2, <2>2, ExactInside
    <3>2. terminal_row \in 0 .. Height - 1 /\ terminal_column' = terminal_column + 1
      BY <2>1, <3>1 DEF Agrees, Scrolls
    <3>4. pc'[w] = "wrap"
      BY <1>1, <2>1 DEF Goto
    <3>5. Finishes(w)'
      BY <1>2, <2>1, <3>1, <3>2, <3>4 DEF Finishes, Scrolls, Now
    <3>6. Agrees(w)'
      BY <1>2, <2>1, <3>1, <3>2, <3>4 DEF Agrees, Scrolls, regs
    <3> QED
      BY <3>5, <3>6 DEF Inside
  <2> QED
    BY <1>2, <2>1, <2>2, ExactGoesOn DEF Labels
<1>6. CASE Tab(w)
  <2>1. /\ Goto(w, "wrap") /\ UNCHANGED <<terminal_buffer, terminal_row, regs>>
        /\ pc[w] = "tab" /\ terminal_column' = NextTab(terminal_column) % SizeMod
    BY <1>6 DEF Tab, At
  <2>2. ASSUME ~met PROVE Inside(w)'
    <3>1. Finishes(w) /\ Agrees(w)
      BY <1>2, <2>2, ExactInside
    <3>2. terminal_row \in 0 .. Height - 1 /\ terminal_column \in 0 .. Width - 1
      BY <2>1, <3>1 DEF Agrees, Scrolls
    <3>3. terminal_column' = NextTab(terminal_column)
      <4>1. NextTab(terminal_column) \in 0 .. SizeMod - 1
        BY <1>1, <3>2, TabBounds, Sizes
      <4> QED
        BY <2>1, <4>1, Small
    <3>4. pc'[w] = "wrap"
      BY <1>1, <2>1 DEF Goto
    <3>5. Finishes(w)'
      BY <1>2, <2>1, <3>1, <3>3, <3>4 DEF Finishes, Scrolls, Now
    <3>6. Agrees(w)'
      BY <1>2, <2>1, <3>1, <3>2, <3>4 DEF Agrees, Scrolls, regs
    <3> QED
      BY <3>5, <3>6 DEF Inside
  <2> QED
    BY <1>2, <2>1, <2>2, ExactGoesOn DEF Labels
<1>7. CASE TestBack(w)
  <2>1. PICK l \in {"back", "check"} :
           /\ Goto(w, l) /\ (l = "back" <=> terminal_column # 0)
           /\ UNCHANGED <<terminal, row_reg>> /\ pc[w] = "test_back" /\ col_reg'[w] = terminal_column
    BY <1>1, <1>7 DEF TestBack, MayMoveBack, At
  <2>2. ASSUME ~met PROVE Inside(w)'
    <3>1. Finishes(w) /\ Agrees(w)
      BY <1>2, <2>2, ExactInside
    <3>2. terminal_row \in 0 .. Height - 1 /\ terminal_column \in 0 .. Width - 1
      BY <2>1, <3>1 DEF Agrees, Scrolls
    <3>4. pc'[w] = l
      BY <1>1, <2>1 DEF Goto
    <3>5. Finishes(w)'
      BY <1>2, <2>1, <3>1, <3>2, <3>4, Sizes DEF Finishes, Scrolls, Now, terminal, Cursor
    <3>6. Agrees(w)'
      BY <1>2, <2>1, <3>1, <3>2, <3>4, Sizes DEF Agrees, Scrolls, terminal
    <3> QED
      BY <3>5, <3>6 DEF Inside
  <2> QED
    BY <1>2, <2>1, <2>2, ExactGoesOn DEF Labels
<1>8. CASE Back(w)
  <2>1. /\ Goto(w, "blank") /\ UNCHANGED <<terminal_buffer, terminal_row, regs>> /\ pc[w] = "back"
        /\ \E c \in Reads(w, col_reg, terminal_column) : terminal_column' = (c - 1) % SizeMod
    BY <1>8 DEF Back, Before, At
  <2>2. ASSUME ~met PROVE Inside(w)'
    <3>1. Finishes(w) /\ Agrees(w)
      BY <1>2, <2>2, ExactInside
    <3>2. /\ terminal_row \in 0 .. Height - 1 /\ terminal_column \in 1 .. Width - 1
          /\ col_reg[w] = terminal_column
      BY <2>1, <3>1, Sizes DEF Agrees, Scrolls, regs
    <3>3. terminal_column' = terminal_column - 1
      BY <2>1, <3>2, Small, Sizes DEF Reads
    <3>4. pc'[w] = "blank"
      BY <1>1, <2>1 DEF Goto
    <3>5. Cursor' = Cursor - 1
      <4>1. \A a \in Int, b \in Int : a + (b - 1) = (a + b) - 1
        OBVIOUS
      <4>2. terminal_row * Width \in Int
        BY <3>2, CellAt, Sizes, Z3
      <4> QED
        BY <2>1, <3>2, <3>3, <4>1, <4>2 DEF Cursor
    <3>6. Finishes(w)'
      BY <1>2, <2>1, <3>1, <3>2, <3>3, <3>4, <3>5 DEF Finishes, Scrolls
    <3>7. Agrees(w)'
      BY <1>2, <2>1, <3>1, <3>2, <3>3, <3>4, Sizes DEF Agrees, Scrolls, regs
    <3> QED
      BY <3>6, <3>7 DEF Inside
  <2> QED
    BY <1>2, <2>1, <2>2, ExactGoesOn DEF Labels
<1>9. CASE BlankCell(w)
  <2>1. /\ Goto(w, "check") /\ UNCHANGED <<terminal_row, terminal_column, row_reg>>
        /\ pc[w] = "blank"
    BY <1>9 DEF BlankCell, At, regs
  <2>2. ASSUME ~met PROVE Inside(w)'
    <3>1. Finishes(w) /\ Agrees(w)
      BY <1>2, <2>2, ExactInside
    <3>2. terminal_row \in 0 .. Height - 1 /\ terminal_column \in 0 .. Width - 1
      BY <2>1, <3>1 DEF Agrees, Scrolls
    <3>3. terminal_buffer' = Written(terminal_buffer, Cursor, Blank)
      BY <1>9, <3>2, CursorCell DEF BlankCell, WriteCell
    <3>4. pc'[w] = "check"
      BY <1>1, <2>1 DEF Goto
    <3>5. Finishes(w)'
      BY <1>2, <2>1, <3>1, <3>2, <3>3, <3>4, Sizes DEF Finishes, Scrolls, Now
    <3>6. Agrees(w)'
      BY <1>2, <2>1, <3>1, <3>2, <3>4, Sizes DEF Agrees, Scrolls, regs
    <3> QED
      BY <3>5, <3>6 DEF Inside
  <2> QED
    BY <1>2, <2>1, <2>2, ExactGoesOn DEF Labels
<1> QED
  BY <1>3, <1>4, <1>5, <1>6, <1>7, <1>8, <1>9

LEMMA ExactStep2 ==
    ASSUME Shape, Exact, NEW w \in Writers,
           Wrap(w) \/ Home(w) \/ LoadRow(w) \/ StoreRow(w) \/ CountLine(w) \/ Prompt(w)
    PROVE  Exact'
<1>1. /\ pc \in [Writers -> Labels] /\ terminal_row \in Nat /\ terminal_column \in 0 .. SizeMod - 1
      /\ col_reg \in [Writers -> 0 .. SizeMod - 1 \cup {NoValue}]
      /\ row_reg \in [Writers -> Nat \cup {NoValue}]
  BY NowTyped
<1>2. pc[w] # "idle" /\ UNCHANGED <<shown, met>> /\ ch' = ch
  BY DEF Wrap, Home, LoadRow, StoreRow, CountLine, TestPager, LoadLines, StoreLines, TestLines,
         Prompt, At, history
<1>3. CASE Wrap(w)
  <2>1. PICK c \in Reads(w, col_reg, terminal_column) : Goto(w, IF c >= Width THEN "home" ELSE "check")
    BY <1>3 DEF Wrap
  <2>2. UNCHANGED <<terminal, regs>> /\ pc[w] = "wrap"
    BY <1>3 DEF Wrap, At
  <2>3. PICK l \in {"home", "check"} : Goto(w, l) /\ l = IF c >= Width THEN "home" ELSE "check"
    BY <2>1
  <2>4. ASSUME ~met PROVE Inside(w)'
    <3>1. Finishes(w) /\ Agrees(w)
      BY <1>2, <2>4, ExactInside
    <3>2. c = terminal_column /\ terminal_row \in 0 .. Height - 1
      BY <2>1, <2>2, <3>1 DEF Agrees, Scrolls, Reads
    <3>3. pc'[w] = l
      BY <1>1, <2>3 DEF Goto
    <3>4. Finishes(w)'
      BY <1>1, <1>2, <2>2, <2>3, <3>1, <3>2, <3>3, Sizes DEF Finishes, Now, Agrees, Scrolls, terminal
    <3>5. Agrees(w)'
      BY <1>1, <1>2, <2>2, <2>3, <3>1, <3>2, <3>3, Sizes DEF Agrees, Scrolls, terminal, regs
    <3> QED
      BY <3>4, <3>5 DEF Inside
  <2> QED
    BY <1>2, <2>3, <2>4, ExactGoesOn DEF Labels
<1>4. CASE Home(w)
  <2>1. PICK l \in {"check", "load"} :
           /\ Goto(w, l) /\ (l = "check" <=> ch[w] = "return") /\ terminal_column' = 0
           /\ UNCHANGED <<terminal_buffer, terminal_row, regs>> /\ pc[w] = "home"
    BY <1>4 DEF Home, At
  <2>2. ASSUME ~met PROVE Inside(w)'
    <3>1. Finishes(w) /\ Agrees(w)
      BY <1>2, <2>2, ExactInside
    <3>2. terminal_row \in 0 .. Height - 1
      BY <2>1, <3>1 DEF Agrees, Scrolls
    <3>3. pc'[w] = l
      BY <1>1, <2>1 DEF Goto
    <3>4. Finishes(w)'
      BY <1>1, <1>2, <2>1, <3>1, <3>2, <3>3, Sizes DEF Finishes, Scrolls, Now
    <3>5. Agrees(w)'
      BY <1>1, <1>2, <2>1, <3>1, <3>2, <3>3, Sizes DEF Agrees, Scrolls, regs
    <3> QED
      BY <3>4, <3>5 DEF Inside
  <2> QED
    BY <1>2, <2>1, <2>2, ExactGoesOn DEF Labels
<1>5. CASE LoadRow(w)
  <2>1. /\ Goto(w, "store") /\ UNCHANGED terminal /\ pc[w] = "load"
        /\ row_reg'[w] = terminal_row + 1
    BY <1>1, <1>5 DEF LoadRow, At
  <2>2. ASSUME ~met PROVE Inside(w)'
    <3>1. Finishes(w) /\ Agrees(w)
      BY <1>2, <2>2, ExactInside
    <3>2. pc'[w] = "store"
      BY <1>1, <2>1 DEF Goto
    <3>3. Finishes(w)'
      BY <1>2, <2>1, <3>1, <3>2 DEF Finishes, Scrolls, terminal
    <3>4. Agrees(w)'
      BY <1>2, <2>1, <3>1, <3>2 DEF Agrees, Scrolls, terminal
    <3> QED
      BY <3>3, <3>4 DEF Inside
  <2> QED
    BY <1>2, <2>1, <2>2, ExactGoesOn DEF Labels
<1>6. CASE StoreRow(w)
  <2>1. PICK l \in {"pager", "check"} :
           /\ Goto(w, l) /\ UNCHANGED <<terminal_buffer, terminal_column, regs>> /\ pc[w] = "store"
           /\ terminal_row' = row_reg[w]
    BY <1>6 DEF StoreRow, At
  <2>2. ASSUME ~met PROVE Inside(w)'
    <3>1. Finishes(w) /\ Agrees(w)
      BY <1>2, <2>2, ExactInside
    <3>2. /\ terminal_row \in 0 .. Height - 1 /\ terminal_column = 0
          /\ terminal_row' = terminal_row + 1 /\ row_reg'[w] = terminal_row'
      BY <1>1, <2>1, <3>1 DEF Agrees, Scrolls, regs
    <3>3. pc'[w] = l
      BY <1>1, <2>1 DEF Goto
    <3>4. shown = IF terminal_row' < Height THEN Scr(terminal_buffer, terminal_row', 0)
                  ELSE Scr(ScrolledCells(terminal_buffer), Height - 1, 0)
      BY <2>1, <3>1, <3>2 DEF Finishes, Scrolls, NextLine
    <3>5. Finishes(w)'
      BY <1>2, <2>1, <3>2, <3>3, <3>4 DEF Finishes, Scrolls, Now
    <3>6. Agrees(w)'
      BY <1>2, <2>1, <3>1, <3>2, <3>3, Sizes DEF Agrees, Scrolls, NoValue
    <3> QED
      BY <3>5, <3>6 DEF Inside
  <2> QED
    BY <1>2, <2>1, <2>2, ExactGoesOn DEF Labels
<1>7. CASE CountLine(w)
  <2>1. PICK l \in Scrolls : /\ Goto(w, l) /\ UNCHANGED <<terminal, row_reg>>
                             /\ pc[w] \in Scrolls \ {"check"}
    BY <1>7 DEF CountLine, TestPager, LoadLines, StoreLines, TestLines, At, Scrolls, regs
  <2>2. ASSUME ~met PROVE Inside(w)'
    <3>1. Finishes(w) /\ Agrees(w)
      BY <1>2, <2>2, ExactInside
    <3>2. pc'[w] = l
      BY <1>1, <2>1 DEF Goto
    <3>3. Finishes(w)'
      BY <1>2, <2>1, <3>1, <3>2 DEF Finishes, Now, terminal, Scrolls
    <3>4. Agrees(w)'
      BY <1>1, <1>2, <2>1, <3>1, <3>2, Sizes DEF Agrees, terminal, NoValue, Scrolls
    <3> QED
      BY <3>3, <3>4 DEF Inside
  <2> QED
    BY <1>2, <2>1, <2>2, ExactGoesOn DEF Labels, Scrolls
<1>8. CASE Prompt(w)
  <2>1. PICK r \in Reads(w, row_reg, terminal_row) : ScrollIf(Off(r))
    BY <1>8 DEF Prompt
  <2>2. /\ Goto(w, "key") /\ UNCHANGED terminal_column /\ pc[w] = "prompt"
        /\ row_reg'[w] = NoValue
    BY <1>1, <1>8 DEF Prompt, At
  <2>3. ASSUME ~met PROVE Inside(w)'
    <3>1. Finishes(w) /\ Agrees(w)
      BY <1>2, <2>3, ExactInside
    <3>2. r = terminal_row /\ terminal_column = 0
      BY <2>1, <2>2, <3>1 DEF Agrees, Scrolls, Reads
    <3>3. pc'[w] = "key"
      BY <1>1, <2>2 DEF Goto
    <3>4. shown = Now' /\ terminal_row' \in 0 .. Height - 1
      <4>1. shown = IF terminal_row < Height THEN Now
                    ELSE Scr(ScrolledCells(terminal_buffer), Height - 1, terminal_column)
        BY <2>2, <3>1 DEF Finishes, Scrolls
      <4>2. CASE terminal_row < Height
        BY <1>1, <2>1, <2>2, <3>2, <4>1, <4>2, Sizes DEF ScrollIf, Off, Now
      <4>3. CASE terminal_row >= Height
        BY <1>1, <2>1, <2>2, <3>2, <4>1, <4>3, Sizes DEF ScrollIf, Off, Now
      <4> QED
        BY <1>1, <4>2, <4>3, Sizes
    <3>5. Finishes(w)'
      BY <1>2, <3>3, <3>4 DEF Finishes, Scrolls
    <3>6. Agrees(w)'
      BY <2>2, <3>2, <3>3, <3>4, Sizes DEF Agrees, Scrolls
    <3> QED
      BY <3>5, <3>6 DEF Inside
  <2> QED
    BY <1>2, <2>2, <2>3, ExactGoesOn DEF Labels
<1> QED
  BY <1>3, <1>4, <1>5, <1>6, <1>7, <1>8

LEMMA ExactCheck == ASSUME Shape, Exact, NEW w \in Writers, Check(w) PROVE Exact'
<1>1. PICK r \in Reads(w, row_reg, terminal_row) : ScrollIf(Off(r))
  BY DEF Check
<1>2. /\ Goto(w, "idle") /\ UNCHANGED <<terminal_column, shown, met>>
      /\ pc[w] = "check" /\ terminal_row \in Nat
  BY NowTyped DEF Check, At, history
<1>3. ASSUME ~met PROVE shown' = Now'
  <2>1. Finishes(w) /\ Agrees(w)
    BY <1>2, <1>3, ExactInside
  <2>2. r = terminal_row
    BY <1>1, <1>2, <2>1 DEF Agrees, Scrolls, Reads
  <2>3. CASE terminal_row < Height
    BY <1>1, <1>2, <2>1, <2>2, <2>3, Sizes DEF ScrollIf, Off, Now, Finishes, Scrolls
  <2>4. CASE terminal_row >= Height
    BY <1>1, <1>2, <2>1, <2>2, <2>4, Sizes DEF ScrollIf, Off, Now, Finishes, Scrolls
  <2> QED
    BY <1>2, <2>3, <2>4, Sizes
<1> QED
  BY <1>2, <1>3, ExactEnds

LEMMA ExactKey == ASSUME Shape, Exact, NEW w \in Writers, NEW q \in BOOLEAN, Key(w, q) PROVE Exact'
<1>1. /\ pc[w] = "key" /\ terminal_column' = 0 /\ UNCHANGED <<terminal_row, ch, regs>>
      /\ terminal_buffer' = BlankedRow(terminal_buffer, terminal_row)
      /\ Goto(w, IF q THEN "idle" ELSE "check")
      /\ Show(w, [shown EXCEPT !.cells = BlankedRow(@, shown.row)])
  BY DEF Key, At
<1>2. met => met'
  BY <1>1 DEF Show
<1>3. ASSUME ~met' PROVE shown' = Now' /\ terminal_row' \in 0 .. Height - 1
  <2>1. Finishes(w) /\ Agrees(w)
    BY <1>1, <1>2, <1>3, ExactInside
  <2>2. shown = Scr(terminal_buffer, terminal_row, 0) /\ terminal_row \in 0 .. Height - 1
    BY <1>1, <2>1 DEF Finishes, Agrees, Scrolls, Now
  <2>3. shown' = [shown EXCEPT !.cells = BlankedRow(@, shown.row)]
    BY <1>1, <1>3 DEF Show
  <2>4. shown.row = terminal_row /\ shown.cells = terminal_buffer
    BY <2>2 DEF Scr
  <2>5. shown' = Scr(BlankedRow(terminal_buffer, terminal_row), terminal_row, 0)
    BY <2>2, <2>3, <2>4 DEF Scr
  <2> QED
    BY <1>1, <2>2, <2>5 DEF Now
<1>4. CASE q
  BY <1>1, <1>2, <1>3, <1>4, ExactEnds
<1>5. CASE ~q
  <2>1. Goto(w, "check")
    BY <1>1, <1>5
  <2>2. ASSUME ~met' PROVE Inside(w)'
    <3>1. pc'[w] = "check"
      BY <2>1, NowTyped DEF Goto
    <3>2. Finishes(w)'
      BY <1>3, <2>2, <3>1, Sizes DEF Finishes, Scrolls
    <3>3. row_reg'[w] = NoValue
      BY <1>1, <1>2, <2>2, ExactInside DEF Agrees, Scrolls, regs
    <3>4. Agrees(w)'
      BY <1>1, <1>3, <2>2, <3>1, <3>3, Sizes DEF Agrees, Scrolls
    <3> QED
      BY <3>2, <3>4 DEF Inside
  <2> QED
    BY <1>1, <1>2, <2>1, <2>2, ExactGoesOn DEF Labels
<1> QED
  BY <1>4, <1>5

\* a call begins: with nobody inside, what is on the screen is exact
LEMMA ExactCall ==
    ASSUME Shape, Exact, NEW w \in Writers, NEW c \in Prints[w], terminal_putchar(w, c)
    PROVE  Exact'
<1> SUFFICES ASSUME ~met'
             PROVE  /\ Alone' /\ (Idle' => shown' = Now')
                    /\ \A v \in Writers : pc'[v] # "idle" => Inside(v)'
  BY DEF Exact, Inside
<1>1. /\ pc[w] = "idle" /\ Goto(w, First(c)) /\ UNCHANGED terminal
      /\ ch' = [ch EXCEPT ![w] = c]
      /\ row_reg' = [row_reg EXCEPT ![w] = NoValue] /\ col_reg' = [col_reg EXCEPT ![w] = NoValue]
      /\ Show(w, Put(shown, c))
  BY DEF terminal_putchar, At
<1>2. /\ ~met /\ \A v \in Writers : pc[v] = "idle"
      /\ shown' = Put(shown, c)
  BY <1>1 DEF Show
<1>3. pc \in [Writers -> Labels] /\ ch = [v \in Writers |-> ch[v]]
  BY DEF Shape, TypeOK
<1>4. First(c) \in Labels \ {"idle"}
  BY DEF First, Labels
<1>5. pc'[w] = First(c) /\ \A v \in Writers : pc'[v] # "idle" => v = w
  BY <1>1, <1>2, <1>3, <1>4 DEF Goto
<1>6. shown = Now
  BY <1>2 DEF Exact, Idle
<1>7. /\ terminal_row \in 0 .. Height - 1 /\ terminal_column \in 0 .. Width - 1
      /\ row_reg \in [Writers -> Nat \cup {NoValue}]
      /\ col_reg \in [Writers -> 0 .. SizeMod - 1 \cup {NoValue}]
  BY <1>6, NowTyped
<1>8. ch'[w] = c /\ row_reg'[w] = NoValue /\ col_reg'[w] = NoValue
  BY <1>1, <1>3, <1>7
<1>9. shown' = Put(Scr(terminal_buffer, terminal_row, terminal_column), c)
  BY <1>2, <1>6 DEF Now
<1>10. Inside(w)'
  <2>1. CASE c = "newline" \/ c = "return"
    <3>1. First(c) = "home"
      BY <2>1 DEF First
    <3>2. Finishes(w)'
      BY <1>1, <1>5, <1>8, <1>9, <2>1, <3>1, PutAt DEF Finishes, Scrolls, terminal
    <3> QED
      BY <1>1, <1>5, <1>7, <1>8, <3>1, <3>2 DEF Inside, Agrees, Scrolls, terminal
  <2>2. CASE c = "tab"
    <3>1. First(c) = "tab"
      BY <2>2 DEF First
    <3>2. Finishes(w)'
      BY <1>1, <1>5, <1>8, <1>9, <2>2, <3>1, PutAt DEF Finishes, Scrolls, terminal
    <3> QED
      BY <1>1, <1>5, <1>7, <1>8, <2>2, <3>1, <3>2 DEF Inside, Agrees, Scrolls, terminal
  <2>3. CASE c = "backspace"
    <3>1. First(c) = "test_back"
      BY <2>3 DEF First
    <3>2. Finishes(w)'
      BY <1>1, <1>5, <1>8, <1>9, <2>3, <3>1, PutAt DEF Finishes, Scrolls, terminal, Cursor, Now
    <3> QED
      BY <1>1, <1>5, <1>7, <1>8, <3>1, <3>2 DEF Inside, Agrees, Scrolls, terminal
  <2>4. CASE c \notin {"newline", "return", "tab", "backspace"}
    <3>1. First(c) = "put"
      BY <2>4 DEF First
    <3>2. Finishes(w)'
      BY <1>1, <1>5, <1>8, <1>9, <2>4, <3>1, PutAt DEF Finishes, Scrolls, terminal, Cursor
    <3> QED
      BY <1>1, <1>5, <1>7, <1>8, <2>4, <3>1, <3>2 DEF Inside, Agrees, Scrolls, terminal
  <2> QED
    BY <2>1, <2>2, <2>3, <2>4
<1>11. Alone' /\ ~Idle'
  BY <1>4, <1>5 DEF Alone, Idle
<1> QED
  BY <1>5, <1>10, <1>11

LEMMA ExactClear == ASSUME Shape, Exact, NEW w \in Writers, terminal_clear(w) PROVE Exact'
<1> SUFFICES ASSUME ~met'
             PROVE  /\ Alone' /\ (Idle' => shown' = Now')
                    /\ \A v \in Writers : pc'[v] # "idle" => Inside(v)'
  BY DEF Exact, Inside
<1>1. /\ \A v \in Writers : pc'[v] = "idle"
      /\ shown' = Cleared
  BY DEF terminal_clear, Show, At
<1>2. Now' = Cleared
  BY DEF terminal_clear, Now, Scr, Cleared
<1> QED
  BY <1>1, <1>2 DEF Alone

LEMMA ExactSame == Exact /\ UNCHANGED <<terminal, shown, met, pc, ch, regs>> => Exact'
BY DEF terminal, regs, Exact, Alone, Idle, Finishes, Agrees, Scrolls, Now, Cursor

LEMMA ExactStarts == Init => Exact
<1> SUFFICES ASSUME Init PROVE Exact
  OBVIOUS
<1>1. shown = Scr(shown.cells, shown.row, shown.col)
  BY ShapeStarts, NowTyped
<1>2. shown = Now
  BY <1>1 DEF Init, Now
<1>3. \A w \in Writers : pc[w] = "idle"
  BY DEF Init
<1> QED
  BY <1>2, <1>3 DEF Exact, Alone

LEMMA ExactSteps == Shape /\ Exact /\ [Next]_vars => Exact'
<1> SUFFICES ASSUME Shape, Exact, [Next]_vars PROVE Exact'
  OBVIOUS
<1>1. ASSUME NEW w \in Writers, Step(w) PROVE Exact'
  BY <1>1, ExactStep1, ExactStep2, ExactCheck, ExactKey DEF Step
<1>2. ASSUME NEW w \in Writers, NEW on \in BOOLEAN, SetPager(w, on) PROVE Exact'
  BY <1>2, ExactSame DEF SetPager
<1>3. CASE UNCHANGED vars
  BY <1>3, ExactSame DEF vars, history
<1> QED
  BY <1>1, <1>2, <1>3, ExactCall, ExactClear DEF Next

-----------------------------------------------------------------------------
(* The lines that the pager has counted.                                    *)

LEMMA CountedStarts == Init => Counted
<1> SUFFICES ASSUME Init PROVE Counted
  OBVIOUS
<1>1. terminal_row \in Nat
  BY ShapeStarts, NowTyped
<1>2. rows = 0 /\ pager_lines = 0 /\ \A w \in Writers : pc[w] = "idle"
  BY DEF Init
<1> QED
  BY <1>1, <1>2, Sizes DEF Counted

LEMMA CountedSteps == Shape /\ Exact /\ Counted /\ [Next]_vars => Counted'
<1> SUFFICES ASSUME Shape, Exact, Counted, [Next]_vars, ~met' PROVE Counted'
  BY DEF Counted
<1>1. /\ pc \in [Writers -> Labels] /\ terminal_row \in Nat /\ rows \in Nat /\ pager_lines \in Nat
      /\ row_reg \in [Writers -> Nat \cup {NoValue}]
  BY DEF Shape, TypeOK
<1> DEFINE Stopped == \E w \in Writers : pc[w] \in {"full", "prompt", "key"}
\* the row stays, or the screen scrolls, and the counts are the same or zero
<1>2. ASSUME ~met,
             terminal_row' \in {terminal_row, Height - 1},
             rows' = rows \/ rows' = 0, pager_lines' = pager_lines \/ pager_lines' = 0,
             Stopped => Stopped' \/ pager_lines' = 0,
             \A v \in Writers : pc'[v] \in {"store_lines", "full"}
                => pc'[v] = pc[v] /\ line_reg'[v] = line_reg[v]
      PROVE  Counted'
  <2>1. rows' <= terminal_row' \/ terminal_row' >= Height - 1
    BY <1>1, <1>2, Sizes DEF Counted
  <2>2. pager_lines' <= Height - 1
    BY <1>1, <1>2, Sizes DEF Counted
  <2>3. (\A w \in Writers : pc'[w] \notin {"full", "prompt", "key"})
           => pager_lines' = 0 \/ ~Full(pager_lines')
    <3>1. ~Stopped' => pager_lines' = 0 \/ (~Stopped /\ pager_lines' = pager_lines)
      BY <1>2
    <3> QED
      BY <1>2, <3>1 DEF Counted, Full
  <2>4. \A v \in Writers :
           /\ pc'[v] = "store_lines" => line_reg'[v] \in 1 .. Height - 1
           /\ pc'[v] = "full" => pager_lines' \in {0, line_reg'[v]}
    BY <1>2 DEF Counted
  <2> QED
    BY <2>1, <2>2, <2>3, <2>4 DEF Counted
<1>3. ASSUME NEW w \in Writers, NEW c \in Prints[w], terminal_putchar(w, c) PROVE Counted'
  <2>1. ~met /\ UNCHANGED <<terminal_row, rows, pager_lines, line_reg>> /\ ~Stopped
    BY <1>3 DEF terminal_putchar, Show, At, terminal, pager
  <2>2. \A v \in Writers : pc'[v] \notin {"store_lines", "full"}
    BY <1>1, <1>3 DEF terminal_putchar, Show, At, Goto, First
  <2> QED
    BY <1>1, <1>2, <2>1, <2>2
<1>4. ASSUME NEW w \in Writers, terminal_clear(w) PROVE Counted'
  <2>1. rows' = 0 /\ pager_lines' = 0 /\ terminal_row' = 0
    BY <1>4 DEF terminal_clear
  <2>2. \A v \in Writers : pc'[v] = "idle"
    BY <1>4 DEF terminal_clear, Show, At
  <2> QED
    BY <2>1, <2>2, Sizes DEF Counted
<1>5. ASSUME NEW w \in Writers, NEW on \in BOOLEAN, SetPager(w, on) PROVE Counted'
  <2>1. /\ ~met /\ UNCHANGED <<terminal_row, pc, line_reg>> /\ rows' = 0 /\ pager_lines' = 0
    BY <1>5 DEF SetPager, terminal, regs
  <2> QED
    BY <1>1, <1>2, <2>1
<1>6. CASE UNCHANGED vars
  BY <1>1, <1>2, <1>6 DEF vars, terminal, pager, history, regs
<1>7. ASSUME NEW w \in Writers,
             \/ PutCell(w) \/ LoadColumn(w) \/ StoreColumn(w) \/ Tab(w) \/ Wrap(w)
             \/ TestBack(w) \/ Back(w) \/ BlankCell(w) \/ Home(w) \/ LoadRow(w)
      PROVE  Counted'
  <2>1. UNCHANGED <<terminal_row, rows, pager_lines, line_reg, met>>
    BY <1>7 DEF PutCell, LoadColumn, StoreColumn, Tab, Wrap, TestBack, Back, BlankCell, Home,
                LoadRow, terminal, pager, history, regs
  <2>2. /\ pc[w] \notin {"full", "prompt", "key"} /\ pc'[w] \notin {"store_lines", "full"}
        /\ \A v \in Writers \ {w} : pc'[v] = pc[v]
    BY <1>1, <1>7 DEF PutCell, LoadColumn, StoreColumn, Tab, Wrap, TestBack, Back, BlankCell,
                      Home, LoadRow, Goto, At
  <2> QED
    BY <1>1, <1>2, <2>1, <2>2
<1>8. ASSUME NEW w \in Writers, StoreRow(w) PROVE Counted'
  <2>1. /\ ~met /\ terminal_row' = row_reg[w] /\ rows' = rows + 1 /\ pc[w] = "store"
        /\ UNCHANGED <<pager_lines, line_reg>> /\ \E l \in {"pager", "check"} : Goto(w, l)
    BY <1>8 DEF StoreRow, At, pager, regs
  <2>2. row_reg[w] = terminal_row + 1
    BY <2>1, ExactInside DEF Agrees
  <2>3. ~Stopped
    BY <2>1 DEF Exact, Alone
  <2>4. pager_lines = 0 \/ ~Full(pager_lines)
    BY <2>1, <2>3 DEF Counted
  <2>5. \A v \in Writers : pc'[v] \notin {"store_lines", "full"}
    BY <1>1, <2>1 DEF Exact, Alone, Goto
  <2>6. rows' <= terminal_row' \/ terminal_row' >= Height - 1
    BY <1>1, <2>1, <2>2, Sizes DEF Counted
  <2> QED
    BY <1>1, <2>1, <2>4, <2>5, <2>6 DEF Counted, Full
<1>9. ASSUME NEW w \in Writers, CountLine(w) PROVE Counted'
  <2>1. ~met /\ UNCHANGED <<terminal_row, rows>> /\ pc[w] \in Scrolls
    BY <1>9 DEF CountLine, TestPager, LoadLines, StoreLines, TestLines, At, terminal, history, Scrolls
  <2>2. \A v \in Writers \ {w} : pc[v] = "idle"
    BY <2>1 DEF Exact, Alone, Scrolls
  <2>3. CASE TestPager(w)
    <3>1. UNCHANGED <<pager_lines, line_reg>> /\ pc[w] = "pager"
          /\ \E l \in {"load_lines", "check"} : Goto(w, l)
      BY <2>3 DEF TestPager, At, pager, regs
    <3>2. ~Stopped /\ \A v \in Writers : pc'[v] \notin {"store_lines", "full"}
      BY <1>1, <2>2, <3>1 DEF Goto
    <3> QED
      BY <1>1, <1>2, <2>1, <3>1, <3>2
  <2>4. CASE LoadLines(w)
    <3>1. /\ UNCHANGED pager_lines /\ pc[w] = "load_lines" /\ Goto(w, "store_lines")
          /\ line_reg'[w] = pager_lines + 1
      BY <2>4, ShapeParts DEF LoadLines, At, pager, RegsTyped
    <3>2. ~Stopped
      BY <2>2, <3>1
    <3>3. pager_lines = 0 \/ ~Full(pager_lines)
      BY <2>1, <3>2 DEF Counted
    <3>4. line_reg'[w] \in 1 .. Height - 1
      BY <1>1, <3>1, <3>3, Sizes DEF Full
    <3>5. \A v \in Writers : pc'[v] # "full" /\ (pc'[v] = "store_lines" => v = w)
      BY <1>1, <2>2, <3>1 DEF Goto
    <3> QED
      BY <2>1, <3>1, <3>3, <3>4, <3>5 DEF Counted, Full
  <2>5. CASE StoreLines(w)
    <3>1. /\ pager_lines' = line_reg[w] /\ UNCHANGED line_reg /\ pc[w] = "store_lines" /\ Goto(w, "full")
      BY <2>5 DEF StoreLines, At, regs
    <3>2. line_reg[w] \in 1 .. Height - 1
      BY <2>1, <3>1 DEF Counted
    <3>3. pc'[w] = "full" /\ \A v \in Writers : pc'[v] # "store_lines" /\ (pc'[v] = "full" => v = w)
      BY <1>1, <2>2, <3>1 DEF Goto
    <3>4. pager_lines' <= Height - 1
      BY <3>1, <3>2, Sizes
    <3> QED
      BY <2>1, <3>1, <3>3, <3>4 DEF Counted
  <2>6. CASE TestLines(w)
    <3>1. PICK n \in Reads(w, line_reg, pager_lines) : Goto(w, IF Full(n) THEN "prompt" ELSE "check")
      BY <2>6 DEF TestLines
    <3>2. UNCHANGED pager_lines /\ pc[w] = "full"
      BY <2>6 DEF TestLines, At, pager
    <3>3. pager_lines \in {0, line_reg[w]}
      BY <2>1, <3>2 DEF Counted
    <3>4. \A v \in Writers : pc'[v] \notin {"store_lines", "full"}
      BY <1>1, <2>2, <3>1 DEF Goto
    <3>5. pager_lines = 0 \/ ~Full(pager_lines) \/ pc'[w] = "prompt"
      BY <1>1, <3>1, <3>3 DEF Goto, Reads
    <3> QED
      BY <2>1, <3>2, <3>4, <3>5 DEF Counted, Full
  <2> QED
    BY <1>9, <2>3, <2>4, <2>5, <2>6 DEF CountLine
<1>10. ASSUME NEW w \in Writers, Prompt(w) \/ Check(w) PROVE Counted'
  <2>1. ~met /\ UNCHANGED <<rows, pager_lines, line_reg>>
    BY <1>10 DEF Prompt, Check, pager, history, regs
  <2>2. terminal_row' \in {terminal_row, Height - 1}
    BY <1>10 DEF Prompt, Check, ScrollIf
  <2>3. CASE Prompt(w)
    <3>1. pc' = [pc EXCEPT ![w] = "key"] /\ pc'[w] = "key"
      BY <1>1, <2>3 DEF Prompt, Goto
    <3> QED
      BY <1>1, <1>2, <2>1, <2>2, <3>1
  <2>4. CASE Check(w)
    <3>1. pc[w] = "check"
      BY <2>4 DEF Check, At
    <3>2. ~Stopped /\ \A v \in Writers : pc'[v] = "idle"
      BY <1>1, <2>1, <2>4, <3>1 DEF Exact, Alone, Check, Goto
    <3> QED
      BY <1>1, <1>2, <2>1, <2>2, <3>2
  <2> QED
    BY <1>10, <2>3, <2>4
<1>11. ASSUME NEW w \in Writers, NEW q \in BOOLEAN, Key(w, q) PROVE Counted'
  <2>1. ~met /\ UNCHANGED <<terminal_row, line_reg>> /\ rows' = 0 /\ pager_lines' = 0
    BY <1>11 DEF Key, Show, regs
  <2>2. PICK l \in {"idle", "check"} : Goto(w, l)
    BY <1>11 DEF Key
  <2> QED
    BY <1>1, <1>2, <2>1, <2>2 DEF Goto
<1> HIDE DEF Stopped
<1> QED
  BY <1>3, <1>4, <1>5, <1>6, <1>7, <1>8, <1>9, <1>10, <1>11 DEF Next, Step

ConsoleInv == Shape /\ Exact /\ Counted

LEMMA ConsoleAlways == Spec => []ConsoleInv
<1>1. Init => ConsoleInv
  BY ShapeStarts, ExactStarts, CountedStarts DEF ConsoleInv
<1>2. ConsoleInv /\ [Next]_vars => ConsoleInv'
  BY ShapeSteps, ExactSteps, CountedSteps DEF ConsoleInv
<1> QED
  BY <1>1, <1>2, PTL DEF Spec

-----------------------------------------------------------------------------
(* Theorems.                                                                *)

(* However the writers interrupt each other, the cells hold nothing but what was *)
(* printed, the column that a backspace takes below 0 stays a value of size_t,   *)
(* and atomic calls would have left the cursor on the screen.                    *)
THEOREM ConsoleTyped == Spec => []TypeOK
<1>1. ConsoleInv => TypeOK
  BY DEF ConsoleInv, Shape
<1> QED
  BY <1>1, ConsoleAlways, PTL

(* Wrapping, tabs, backspaces, scrolling and the pager's prompt leave exactly   *)
(* the screen of atomic calls while no two writers meet, for every size of the  *)
(* screen and all they print.                                                   *)
THEOREM SerialExact == Spec => []SerialIsExact
<1>1. ConsoleInv => SerialIsExact
  BY DEF ConsoleInv, Exact, Idle, SerialIsExact, Now, Scr
<1> QED
  BY <1>1, ConsoleAlways, PTL

(* When the pager stops, what it has counted is still above its prompt, for      *)
(* every height of the screen.                                                  *)
THEOREM PagerShowsAll == Spec => []NothingScrolledAway
<1>1. ASSUME ConsoleInv PROVE NothingScrolledAway
  <2> SUFFICES ASSUME NEW w \in Writers, pc[w] = "key", ~met, rows = pager_lines
               PROVE  rows <= terminal_row
    BY DEF NothingScrolledAway
  <2>1. rows <= terminal_row \/ terminal_row >= Height - 1
    BY <1>1 DEF ConsoleInv, Counted
  <2>2. pager_lines <= Height - 1 /\ terminal_row \in Nat /\ pager_lines \in Nat
    BY <1>1 DEF ConsoleInv, Counted, Shape, TypeOK
  <2> QED
    BY <2>1, <2>2, Sizes
<1> QED
  BY <1>1, ConsoleAlways, PTL
=============================================================================
