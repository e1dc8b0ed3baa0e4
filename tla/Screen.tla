------------------------------- MODULE Screen -------------------------------
(***************************************************************************)
(* The text screen as one writer sees it: what terminal_putchar, terminal_  *)
(* clear and terminal_scroll of vga.c do to the cells and the cursor when   *)
(* nobody interferes.  Cells are numbered line by line.  Colours and the    *)
(* hardware cursor are left out.                                            *)
(***************************************************************************)
EXTENDS Integers

CONSTANTS Width, Height, TabStop, Blank

ASSUME ScreenSizes ==
    /\ Width \in Nat \ {0} /\ Height \in Nat \ {0, 1} /\ TabStop \in Nat \ {0}
    /\ Width % TabStop = 0

Cells == 0 .. Width * Height - 1

Screens(chars) == [cells : [Cells -> chars], row : 0 .. Height - 1, col : 0 .. Width - 1]

Cleared == [cells |-> [i \in Cells |-> Blank], row |-> 0, col |-> 0]

ScrolledCells(cells) ==
    [i \in Cells |-> IF i + Width \in Cells THEN cells[i + Width] ELSE Blank]

BlankedRow(cells, r) ==
    [i \in Cells |-> IF i \div Width = r THEN Blank ELSE cells[i]]

Written(cells, i, ch) == [j \in Cells |-> IF j = i THEN ch ELSE cells[j]]

NextTab(c) == (c \div TabStop + 1) * TabStop

\* the cursor to the start of the next line, scrolling at the last one
Advanced(s) ==
    IF s.row + 1 < Height THEN [cells |-> s.cells, row |-> s.row + 1, col |-> 0]
    ELSE [cells |-> ScrolledCells(s.cells), row |-> Height - 1, col |-> 0]

\* the cursor to column c, or to the next line beyond the last column
Moved(s, c) == IF c < Width THEN [s EXCEPT !.col = c] ELSE Advanced(s)

Position(s) == s.row * Width + s.col

Put(s, ch) ==
    CASE ch = "newline"   -> Advanced(s)
      [] ch = "return"    -> [s EXCEPT !.col = 0]
      [] ch = "tab"       -> Moved(s, NextTab(s.col))
      [] ch = "backspace" -> IF s.col = 0 THEN s
                             ELSE [cells |-> Written(s.cells, Position(s) - 1, Blank),
                                   row |-> s.row, col |-> s.col - 1]
      [] OTHER            -> Moved([s EXCEPT !.cells = Written(@, Position(s), ch)], s.col + 1)
=============================================================================
