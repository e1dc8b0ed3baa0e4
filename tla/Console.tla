------------------------------- MODULE Console -------------------------------
(***************************************************************************)
(* The console of vga.c, shared without a lock by the shell and its tasks:  *)
(* terminal_putchar step by step, preempted between any two steps, with the *)
(* pager that stops a long output and waits for a key.  A variable that is  *)
(* incremented is loaded and stored in two steps, and a test that follows   *)
(* may use the register or load again, as a compiler may translate it.      *)
(* Loops over the cells (scrolling, clearing) are one step: once two        *)
(* writers have met no property speaks of cells.                            *)
(***************************************************************************)
EXTENDS Screen, FiniteSets

CONSTANTS
    Writers,    \* threads that print
    Prints,     \* the characters each of them prints
    SizeMod,    \* number of values of size_t
    MaxPuts     \* bound: characters printed, screens cleared

ASSUME ConsoleBounds ==
    /\ SizeMod \in Nat /\ SizeMod > Width * Height + MaxPuts /\ MaxPuts \in Nat
    /\ IsFiniteSet(Writers) /\ DOMAIN Prints = Writers

NoValue == -1

VARIABLES
    terminal_buffer, terminal_row, terminal_column, pager_enabled, pager_lines,
    pc, ch,            \* each writer: its position in terminal_putchar, its character
    row_reg, col_reg, line_reg,  \* its registers
    puts,              \* calls so far
    \* history: the screen if each call were atomic, until two writers meet;
    \* rows that the cursor went down since the pager last stopped
    shown, met, rows

terminal == <<terminal_buffer, terminal_row, terminal_column>>
pager    == <<pager_enabled, pager_lines>>
regs     == <<row_reg, col_reg, line_reg>>
history  == <<shown, met, rows>>
vars     == <<terminal, pager, pc, ch, regs, puts, history>>

Labels == {"idle", "put", "load_col", "store_col", "wrap", "tab", "test_back",
           "back", "blank", "home", "load", "store", "pager", "load_lines", "store_lines",
           "full", "prompt", "key", "check"}

\* from terminal_row++ to the test of terminal_row
Scrolls == {"pager", "load_lines", "store_lines", "full", "prompt", "check"}

\* earlier output has left a mark on each row
Marked(r, c) ==
    [cells |-> [i \in Cells |-> IF i % Width = 0 /\ i \div Width <= r THEN "mark" ELSE Blank],
     row |-> r, col |-> c]

Init ==
    /\ \E r \in {0, Height - 1}, c \in {0, Width - 1} : shown = Marked(r, c)
    /\ terminal_buffer = shown.cells
    /\ terminal_row = shown.row /\ terminal_column = shown.col
    /\ pager_enabled = FALSE /\ pager_lines = 0
    /\ pc = [w \in Writers |-> "idle"] /\ ch = [w \in Writers |-> "newline"]
    /\ row_reg = [w \in Writers |-> NoValue] /\ col_reg = [w \in Writers |-> NoValue]
    /\ line_reg = [w \in Writers |-> NoValue]
    /\ puts = 0
    /\ met = FALSE /\ rows = 0

-----------------------------------------------------------------------------

(* Faulty variants, each of one operator defined further down.  They model no *)
(* code; putting one in the place of its original must break a property.     *)
BelowLast(r)     == r > Height
WholeScreen(n)   == n >= Height
AlwaysMoves(c)   == TRUE
SignedBefore(c)  == c - 1

Off(r)         == r >= Height
Full(n)        == n >= Height - 2
MayMoveBack(c) == c # 0
Before(c)      == (c - 1) % SizeMod

At(w, label) == pc[w] = label
Goto(w, label) == pc' = [pc EXCEPT ![w] = label]

\* what w's test of a variable that it has just incremented may read
Reads(w, reg, var) == IF reg[w] = NoValue THEN {var} ELSE {var, reg[w]}

\* an address outside the cells is somewhere else in video memory
WriteCell(i, c) == terminal_buffer' = Written(terminal_buffer, i % SizeMod, c)

Cursor == terminal_row * Width + terminal_column

-----------------------------------------------------------------------------
(* What a writer may begin while it is not inside terminal_putchar.          *)

First(c) == CASE c = "newline"   -> "home"
              [] c = "return"    -> "home"
              [] c = "tab"       -> "tab"
              [] c = "backspace" -> "test_back"
              [] OTHER           -> "put"

Show(w, s) ==
    /\ met' = (met \/ \E v \in Writers \ {w} : pc[v] # "idle")
    /\ shown' = IF met' THEN shown ELSE s

terminal_putchar(w, c) ==
    /\ At(w, "idle") /\ puts < MaxPuts /\ c \in Prints[w]
    /\ puts' = puts + 1
    /\ ch' = [ch EXCEPT ![w] = c]
    /\ Goto(w, First(c))
    /\ row_reg' = [row_reg EXCEPT ![w] = NoValue]
    /\ col_reg' = [col_reg EXCEPT ![w] = NoValue]
    /\ Show(w, Put(shown, c))
    /\ UNCHANGED <<terminal, pager, line_reg, rows>>

terminal_clear(w) ==
    /\ At(w, "idle") /\ puts < MaxPuts
    /\ puts' = puts + 1
    /\ terminal_buffer' = Cleared.cells /\ terminal_row' = 0 /\ terminal_column' = 0
    /\ pager_lines' = 0
    /\ Show(w, Cleared) /\ rows' = 0
    /\ UNCHANGED <<pager_enabled, pc, ch, regs>>

\* terminal_enable_pager and terminal_disable_pager
SetPager(w, on) ==
    /\ At(w, "idle") /\ pager_enabled # on
    /\ pager_enabled' = on /\ pager_lines' = 0 /\ rows' = 0
    /\ UNCHANGED <<terminal, pc, ch, regs, puts, shown, met>>

-----------------------------------------------------------------------------
(* terminal_putchar.                                                        *)

PutCell(w) ==
    /\ At(w, "put")
    /\ WriteCell(Cursor, ch[w])
    /\ Goto(w, "load_col")
    /\ UNCHANGED <<terminal_row, terminal_column, pager, ch, regs, puts, history>>

LoadColumn(w) ==
    /\ At(w, "load_col")
    /\ col_reg' = [col_reg EXCEPT ![w] = (terminal_column + 1) % SizeMod]
    /\ Goto(w, "store_col")
    /\ UNCHANGED <<terminal, pager, ch, row_reg, line_reg, puts, history>>

StoreColumn(w) ==
    /\ At(w, "store_col")
    /\ terminal_column' = col_reg[w]
    /\ Goto(w, "wrap")
    /\ UNCHANGED <<terminal_buffer, terminal_row, pager, ch, regs, puts, history>>

Tab(w) ==
    /\ At(w, "tab")
    /\ terminal_column' = NextTab(terminal_column) % SizeMod
    /\ Goto(w, "wrap")
    /\ UNCHANGED <<terminal_buffer, terminal_row, pager, ch, regs, puts, history>>

Wrap(w) ==
    /\ At(w, "wrap")
    /\ \E c \in Reads(w, col_reg, terminal_column) :
          Goto(w, IF c >= Width THEN "home" ELSE "check")
    /\ UNCHANGED <<terminal, pager, ch, regs, puts, history>>

TestBack(w) ==
    /\ At(w, "test_back")
    /\ col_reg' = [col_reg EXCEPT ![w] = terminal_column]
    /\ Goto(w, IF MayMoveBack(terminal_column) THEN "back" ELSE "check")
    /\ UNCHANGED <<terminal, pager, ch, row_reg, line_reg, puts, history>>

\* a column that went back to 0 after the test goes down to SizeMod - 1
Back(w) ==
    /\ At(w, "back")
    /\ \E c \in Reads(w, col_reg, terminal_column) : terminal_column' = Before(c)
    /\ Goto(w, "blank")
    /\ UNCHANGED <<terminal_buffer, terminal_row, pager, ch, regs, puts, history>>

BlankCell(w) ==
    /\ At(w, "blank")
    /\ WriteCell(Cursor, Blank)
    /\ Goto(w, "check")
    /\ UNCHANGED <<terminal_row, terminal_column, pager, ch, regs, puts, history>>

Home(w) ==
    /\ At(w, "home")
    /\ terminal_column' = 0
    /\ Goto(w, IF ch[w] = "return" THEN "check" ELSE "load")
    /\ UNCHANGED <<terminal_buffer, terminal_row, pager, ch, regs, puts, history>>

LoadRow(w) ==
    /\ At(w, "load")
    /\ row_reg' = [row_reg EXCEPT ![w] = terminal_row + 1]
    /\ Goto(w, "store")
    /\ UNCHANGED <<terminal, pager, ch, col_reg, line_reg, puts, history>>

StoreRow(w) ==
    /\ At(w, "store")
    /\ terminal_row' = row_reg[w]
    /\ Goto(w, IF ch[w] = "newline" THEN "pager" ELSE "check")
    /\ rows' = rows + 1
    /\ UNCHANGED <<terminal_buffer, terminal_column, pager, ch, regs, puts, shown, met>>

TestPager(w) ==
    /\ At(w, "pager")
    /\ Goto(w, IF pager_enabled THEN "load_lines" ELSE "check")
    /\ UNCHANGED <<terminal, pager, ch, regs, puts, history>>

LoadLines(w) ==
    /\ At(w, "load_lines")
    /\ line_reg' = [line_reg EXCEPT ![w] = pager_lines + 1]
    /\ Goto(w, "store_lines")
    /\ UNCHANGED <<terminal, pager, ch, row_reg, col_reg, puts, history>>

StoreLines(w) ==
    /\ At(w, "store_lines")
    /\ pager_lines' = line_reg[w]
    /\ Goto(w, "full")
    /\ UNCHANGED <<terminal, pager_enabled, ch, regs, puts, history>>

TestLines(w) ==
    /\ At(w, "full")
    /\ \E n \in Reads(w, line_reg, pager_lines) :
          Goto(w, IF Full(n) THEN "prompt" ELSE "check")
    /\ line_reg' = [line_reg EXCEPT ![w] = NoValue]
    /\ UNCHANGED <<terminal, pager, ch, row_reg, col_reg, puts, history>>

\* if (pager_enabled) { pager_lines++; if (pager_lines >= VGA_HEIGHT - 2)
CountLine(w) == TestPager(w) \/ LoadLines(w) \/ StoreLines(w) \/ TestLines(w)

ScrollIf(off) ==
    IF off THEN /\ terminal_buffer' = ScrolledCells(terminal_buffer)
                /\ terminal_row' = Height - 1
    ELSE UNCHANGED <<terminal_buffer, terminal_row>>

\* the message is drawn on the cursor's row and stays until the key comes
Prompt(w) ==
    /\ At(w, "prompt")
    /\ \E r \in Reads(w, row_reg, terminal_row) : ScrollIf(Off(r))
    /\ row_reg' = [row_reg EXCEPT ![w] = NoValue]
    /\ Goto(w, "key")
    /\ UNCHANGED <<terminal_column, pager, ch, col_reg, line_reg, puts, history>>

\* keyboard_getchar returned; for q the call returns before the check
Key(w, q) ==
    /\ At(w, "key")
    /\ terminal_buffer' = BlankedRow(terminal_buffer, terminal_row)
    /\ terminal_column' = 0
    /\ pager_lines' = 0
    /\ pager_enabled' = (pager_enabled /\ ~q)
    /\ Goto(w, IF q THEN "idle" ELSE "check")
    /\ Show(w, [shown EXCEPT !.cells = BlankedRow(@, shown.row)]) /\ rows' = 0
    /\ UNCHANGED <<terminal_row, ch, regs, puts>>

Check(w) ==
    /\ At(w, "check")
    /\ \E r \in Reads(w, row_reg, terminal_row) : ScrollIf(Off(r))
    /\ Goto(w, "idle")
    /\ UNCHANGED <<terminal_column, pager, ch, regs, puts, history>>

-----------------------------------------------------------------------------

Step(w) ==
    \/ PutCell(w) \/ LoadColumn(w) \/ StoreColumn(w) \/ Tab(w) \/ Wrap(w)
    \/ TestBack(w) \/ Back(w) \/ BlankCell(w)
    \/ Home(w) \/ LoadRow(w) \/ StoreRow(w)
    \/ CountLine(w) \/ Prompt(w) \/ Check(w)
    \/ \E q \in BOOLEAN : Key(w, q)

Next == \E w \in Writers :
    \/ \E c \in Prints[w] : terminal_putchar(w, c)
    \/ terminal_clear(w)
    \/ \E on \in BOOLEAN : SetPager(w, on)
    \/ Step(w)

Spec == Init /\ [][Next]_vars

-----------------------------------------------------------------------------
(* Properties.                                                              *)

TypeOK ==
    /\ terminal_buffer \in [Cells -> {Blank, "mark"} \cup UNION {Prints[w] : w \in Writers}]
    /\ terminal_row \in Nat /\ terminal_column \in 0 .. SizeMod - 1
    /\ pager_enabled \in BOOLEAN /\ pager_lines \in Nat
    /\ pc \in [Writers -> Labels] /\ \A w \in Writers : ch[w] \in Prints[w] \cup {"newline"}
    /\ row_reg \in [Writers -> Nat \cup {NoValue}] /\ line_reg \in [Writers -> Nat \cup {NoValue}]
    /\ col_reg \in [Writers -> 0 .. SizeMod - 1 \cup {NoValue}]
    /\ puts \in 0 .. MaxPuts /\ met \in BOOLEAN /\ rows \in Nat
    /\ shown.row \in 0 .. Height - 1 /\ shown.col \in 0 .. Width - 1

(* A writer that has moved the cursor below the screen and not yet tested that. *)
WillScroll(w) == pc[w] \in Scrolls /\ row_reg[w] >= Height

(* However writers interrupt each other between terminal_row++ and the test of  *)
(* terminal_row (vga.c:53, 87), the cursor is below the screen only while one   *)
(* of them is about to scroll: the console always comes back.                   *)
RowRecovers == terminal_row >= Height => \E w \in Writers : WillScroll(w)

(* As long as no two writers met inside terminal_putchar, wrapping, tabs,       *)
(* backspaces, scrolling and the pager's own prompt leave exactly the screen    *)
(* that atomic calls would have left (vga.c:47).                                *)
SerialIsExact ==
    ~met /\ (\A w \in Writers : pc[w] = "idle")
        => shown = [cells |-> terminal_buffer, row |-> terminal_row, col |-> terminal_column]

(* When the pager stops, the lines since its last stop are still on the screen  *)
(* above its prompt, if no line was broken at the right margin and one writer   *)
(* prints (vga.c:56).                                                           *)
NothingScrolledAway ==
    \A w \in Writers :
        pc[w] = "key" /\ ~met /\ rows = pager_lines => rows <= terminal_row
=============================================================================
