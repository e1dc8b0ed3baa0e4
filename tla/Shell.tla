-------------------------------- MODULE Shell --------------------------------
(***************************************************************************)
(* The login and the command line of shell.c: keys edit a line on the       *)
(* screen and in its buffer, the arrows recall earlier lines, Enter adds    *)
(* the line to the history and has execute_command split it into words in   *)
(* place.  Each key is handled in one step on the screen of Screen (Console *)
(* has the races inside terminal_putchar); between two keys of a command    *)
(* line a task may print.                                                   *)
(***************************************************************************)
EXTENDS Screen, Sequences, FiniteSets, SequencesExt

CONSTANTS
    CMD_BUFFER_SIZE, MAX_HISTORY, MAX_ARGS,
    FieldSize,   \* of the login's two buffers
    Accounts,    \* pairs of a user name and its password
    Star,        \* shown for a character of a password
    Letters,     \* printable characters other than the space
    Prompt,      \* the last character of the prompt; the others are left out
    Output,      \* a character that commands and tasks print
    Box, Boxes,  \* one that menu and files draw straight into video memory, and
                 \* the cells that it takes
    MaxChars     \* bound: characters in the history and the line together

ASSUME ShellSizes ==
    /\ CMD_BUFFER_SIZE \in Nat \ {0} /\ MAX_HISTORY \in Nat \ {0} /\ MAX_ARGS \in Nat \ {0}
    /\ FieldSize \in Nat \ {0} /\ FieldSize <= CMD_BUFFER_SIZE /\ MaxChars \in Nat
ASSUME ShellChars ==
    /\ Blank \notin Letters \cup {Prompt, Output, Star}
    /\ Box \notin Letters \cup {Blank, Prompt, Output, Star}
    /\ {"newline", "return", "tab", "backspace"}
         \cap (Letters \cup {Blank, Prompt, Output, Star, Box}) = {}

VARIABLES
    screen,
    line,          \* the first cmd_len characters of cmd_buffer, or of user or pass
    user, attempts,   \* locals of login_screen; attempts is capped at HintAfter
    history, history_pos,
    stage,         \* "user", "pass", "key": reading a line; "split": in
                   \* execute_command's loop; "run": its command
    argv, tok,     \* its locals: the words found, the characters left
    \* history: the cursor could not follow the line, because a backspace met
    \* the left margin or a task printed
    astray

vars == <<screen, line, user, attempts, history, history_pos, stage, argv, tok, astray>>

Space == Blank
cmd_len == Len(line)
history_count == Len(history)

-----------------------------------------------------------------------------

(* Faulty variants, each of one operator defined further down.  They model no *)
(* code; putting one in the place of its original must break a property.     *)
ShiftedTwice(h) == SubSeq(h, 3, Len(h))
OneKept(n)      == IF n = 0 THEN 0 ELSE n - 1
AnyNumber(n)    == TRUE
AnyLength       == TRUE

PutAll(s, chars) ==
    LET after[n \in 0 .. Len(chars)] == IF n = 0 THEN s ELSE Put(after[n - 1], chars[n])
    IN  after[Len(chars)]

\* terminal_putchar('\b') for every character of the line
Backspaces(n) == [i \in 1 .. n |-> "backspace"]
Erased(n) == n
WithoutLine == PutAll(screen, Backspaces(Erased(cmd_len)))

\* some of those backspaces would find the cursor at the left margin
Stuck(n) == screen.col < n

\* history_add: the oldest entry is shifted out of a full history
Shifted(h) == SubSeq(h, 2, Len(h))
history_add(cmd) ==
    history' = Append(IF history_count < MAX_HISTORY THEN history ELSE Shifted(history), cmd)

\* history[history_pos], counted from 0
Recalled(pos) == history[pos + 1]

HasRoom == cmd_len < (IF stage = "key" THEN CMD_BUFFER_SIZE ELSE FieldSize) - 1

\* what a character of a line looks like
Echo(c) == IF stage = "pass" THEN Star ELSE c

HintAfter == 3

\* a prompt of the login, or print_prompt, and the start of a line
Ask(s, next) ==
    /\ screen' = Put(s, Prompt)
    /\ line' = <<>> /\ history_pos' = Len(history')
    /\ stage' = next /\ argv' = <<>> /\ tok' = <<>>
    /\ astray' = FALSE

Init ==
    /\ screen = Put(Cleared, Prompt)
    /\ line = <<>> /\ history = <<>> /\ history_pos = 0
    /\ user = <<>> /\ attempts = 0
    /\ stage = "user" /\ argv = <<>> /\ tok = <<>>
    /\ astray = FALSE

-----------------------------------------------------------------------------
(* The keys of a line.                                                      *)

Reading == {"user", "pass", "key"}
Typing == stage \in Reading /\ UNCHANGED <<stage, argv, tok, history, user, attempts>>

Type(c) ==
    /\ Typing
    /\ HasRoom /\ Len(FlattenSeq(history)) + cmd_len < MaxChars
    /\ line' = Append(line, c) /\ screen' = Put(screen, Echo(c))
    /\ UNCHANGED <<history_pos, astray>>

Backspace ==
    /\ Typing
    /\ cmd_len > 0
    /\ line' = Front(line) /\ screen' = Put(screen, "backspace")
    /\ astray' = (astray \/ Stuck(1))
    /\ UNCHANGED history_pos

\* the line is erased and the entry at pos put in its place
Show(pos) ==
    /\ history_pos' = pos
    /\ astray' = (astray \/ Stuck(cmd_len))
    /\ line' = Recalled(pos) /\ screen' = PutAll(WithoutLine, line')

Up == stage = "key" /\ Typing /\ history_pos > 0 /\ Show(history_pos - 1)

Down ==
    /\ stage = "key" /\ Typing
    /\ IF history_pos < history_count - 1 THEN Show(history_pos + 1)
       ELSE /\ history_pos' = history_count
            /\ astray' = (astray \/ Stuck(cmd_len))
            /\ line' = <<>> /\ screen' = WithoutLine

\* Enter in login_screen
EnterUser ==
    /\ stage = "user"
    /\ user' = line
    /\ UNCHANGED <<history, attempts>>
    /\ Ask(Put(screen, "newline"), "pass")

\* what login_screen and shell_init print
Refusal == <<"newline", Output, "newline">>
Greeting == <<"newline", Output, "newline", "newline">>
Hint == IF attempts' >= HintAfter THEN <<Output, "newline">> ELSE <<>>

EnterPassword ==
    /\ stage = "pass"
    /\ user' = <<>> /\ UNCHANGED history
    /\ IF <<user, line>> \in Accounts
       THEN attempts' = 0 /\ Ask(PutAll(Cleared, Greeting), "key")
       ELSE /\ attempts' = IF attempts < HintAfter THEN attempts + 1 ELSE attempts
            /\ Ask(PutAll(Put(screen, "newline"), Refusal \o Hint \o <<"newline">>), "user")

\* Enter in shell_run
Enter ==
    /\ stage = "key"
    /\ UNCHANGED <<user, attempts>>
    /\ IF cmd_len > 0
       THEN /\ history_add(line)
            /\ screen' = Put(screen, "newline")
            /\ stage' = "split" /\ tok' = line
            /\ UNCHANGED <<line, history_pos, argv, astray>>
       ELSE UNCHANGED history /\ Ask(Put(screen, "newline"), "key")

\* a demo task prints a line of its own while the shell waits for a key
TaskPrints ==
    /\ stage = "key" /\ Typing
    /\ screen' = PutAll(screen, <<"newline", Output, "newline">>)
    /\ astray' = TRUE
    /\ UNCHANGED <<line, history_pos>>

-----------------------------------------------------------------------------
(* execute_command.                                                         *)

MoreArgs(n) == n < MAX_ARGS

\* the position of the first character of s that is a space or is none
FirstIs(s, space) ==
    LET found == {i \in 1 .. Len(s) : (s[i] = Space) = space}
    IN  IF found = {} THEN Len(s) + 1 ELSE CHOOSE i \in found : \A j \in found : i <= j

\* one turn of the loop: spaces are skipped, a word is taken, the space after
\* it becomes its NUL
Split ==
    LET from == SubSeq(tok, FirstIs(tok, FALSE), Len(tok))
        end  == FirstIs(from, TRUE)
    IN  /\ stage = "split"
        /\ IF tok # <<>> /\ MoreArgs(Len(argv)) /\ from # <<>>
           THEN /\ argv' = Append(argv, SubSeq(from, 1, end - 1))
                /\ tok' = SubSeq(from, end + 1, Len(from))
                /\ UNCHANGED stage
           ELSE stage' = "run" /\ UNCHANGED <<argv, tok>>
        /\ UNCHANGED <<screen, line, user, attempts, history, history_pos, astray>>

\* menu and files return on ESC with their boxes on a screen that they cleared
\* before, and the cursor where terminal_clear left it
Boxed == [Cleared EXCEPT !.cells = [i \in Cells |-> IF i \in Boxes THEN Box ELSE Blank]]

\* a command leaves the screen as it was, cleared or with boxes on it, and may
\* print a line; without words there is none
Run ==
    /\ stage = "run"
    /\ UNCHANGED <<history, user, attempts>>
    /\ IF argv = <<>> THEN Ask(screen, "key")
       ELSE \E s \in {screen, Cleared, Boxed}, out \in {<<>>, <<Output, "newline">>} :
               Ask(PutAll(s, out), "key")

Next ==
    \/ \E c \in Letters \cup {Space} : Type(c)
    \/ Backspace \/ Up \/ Down \/ EnterUser \/ EnterPassword \/ Enter \/ TaskPrints
    \/ Split \/ Run

Spec == Init /\ [][Next]_vars

-----------------------------------------------------------------------------
(* Properties.                                                              *)

Lines == UNION {[1 .. n -> Letters \cup {Space}] : n \in 0 .. CMD_BUFFER_SIZE - 1}

(* The line leaves room for its NUL, also when it is recalled, and the position *)
(* in the history is inside it or one past it while entries are shifted out.    *)
TypeOK ==
    /\ screen \in Screens(Letters \cup {Blank, Prompt, Output, Star, Box})
    /\ line \in Lines /\ tok \in Lines /\ user \in Lines /\ attempts \in 0 .. HintAfter
    /\ stage \in {"user", "pass"} => cmd_len < FieldSize
    /\ Len(history) <= MAX_HISTORY /\ \A i \in 1 .. Len(history) : history[i] \in Lines \ {<<>>}
    /\ history_pos \in 0 .. history_count
    /\ stage \in Reading \cup {"split", "run"} /\ Len(argv) <= MAX_ARGS
    /\ astray \in BOOLEAN

(* While a line is edited, the cells before the cursor are the prompt and the   *)
(* line, and nothing that was typed or printed is left in those after it, only  *)
(* what menu or files drew there (shell.c:463, 783), through wrapping and       *)
(* scrolling and the lines that the arrows put there, unless a backspace met    *)
(* the left margin, which terminal_putchar cannot cross (vga.c:79,              *)
(* shell.c:912).                                                                *)
LineShown ==
    stage \in Reading /\ ~astray =>
        LET text == <<Prompt>> \o [i \in 1 .. cmd_len |-> Echo(line[i])]
            end  == Position(screen)
        IN  /\ \A i \in 1 .. Len(text) :
                  LET p == end - Len(text) + i - 1 IN p \in Cells => screen.cells[p] = text[i]
            /\ \A p \in Cells : p >= end => screen.cells[p] \in {Blank, Box}

(* The history is the last MAX_HISTORY lines, in order, although a full one is  *)
(* shifted and execute_command overwrites the line (shell.c:70, 919).           *)
History == INSTANCE LastEntries
               WITH kept <- history, Entry <- Lines, Capacity <- MAX_HISTORY
HistoryInOrder == History!Spec

\* the words of a line: a word starts at a character that is no space and
\* follows none, and goes up to the next space
WordStarts(s) == {i \in 1 .. Len(s) : s[i] # Space /\ (i = 1 \/ s[i - 1] = Space)}
WordFrom(s, i) ==
    LET ends == {j \in i .. Len(s) : \A k \in i .. j : s[k] # Space}
    IN  SubSeq(s, i, CHOOSE j \in ends : \A k \in ends : k <= j)

(* The argument vector is the words of the line, up to MAX_ARGS of them, when   *)
(* the command runs (shell.c:795).                                              *)
WordsSplit ==
    stage = "run" =>
        LET starts == WordStarts(line)
        IN  /\ Len(argv) = IF Cardinality(starts) < MAX_ARGS THEN Cardinality(starts)
                           ELSE MAX_ARGS
            /\ \A i \in starts :
                  LET n == Cardinality({j \in starts : j <= i})
                  IN  n <= MAX_ARGS => argv[n] = WordFrom(line, i)
=============================================================================
