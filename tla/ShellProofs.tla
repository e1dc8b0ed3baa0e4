----------------------------- MODULE ShellProofs -----------------------------
(***************************************************************************)
(* The shell's command line for every size of its buffers, its history and *)
(* the screen, and for every account and letter.  LineInv is about the      *)
(* line, the history and the words and needs nothing of the screen;         *)
(* ScreenInv and WordsInv, the text before the cursor and the loop of       *)
(* execute_command, are inductive beside it.                                *)
(***************************************************************************)
EXTENDS Shell, SequenceTheorems, FiniteSetTheorems, LeastElement

LineChars == Letters \cup {Space}
Shorter == {s \in Seq(LineChars) : Len(s) <= CMD_BUFFER_SIZE - 1}

LEMMA ShellSizesAre ==
    /\ CMD_BUFFER_SIZE \in Nat \ {0} /\ MAX_HISTORY \in Nat \ {0} /\ MAX_ARGS \in Nat \ {0}
    /\ FieldSize \in Nat \ {0} /\ FieldSize <= CMD_BUFFER_SIZE
BY ShellSizes

(* The lines are the sequences that leave room for a NUL.                    *)
LEMMA LinesAre == Lines = Shorter
<1>1. ASSUME NEW s \in Lines PROVE s \in Shorter
  <2>1. PICK n \in 0 .. CMD_BUFFER_SIZE - 1 : s \in [1 .. n -> LineChars]
    BY DEF Lines, LineChars
  <2>2. s \in Seq(LineChars) /\ Len(s) = n
    BY <2>1, ShellSizesAre
  <2> QED
    BY <2>2 DEF Shorter
<1>2. ASSUME NEW s \in Shorter PROVE s \in Lines
  <2>1. s \in Seq(LineChars) /\ Len(s) \in 0 .. CMD_BUFFER_SIZE - 1
    BY ShellSizesAre, LenProperties DEF Shorter
  <2>2. s \in [1 .. Len(s) -> LineChars]
    BY <2>1, LenProperties
  <2> QED
    BY <2>1, <2>2 DEF Lines, LineChars
<1> QED
  BY <1>1, <1>2

-----------------------------------------------------------------------------
(* The line, the history and the words: everything but the screen.           *)

Words == Seq(LineChars)

LineInv ==
    /\ line \in Shorter /\ tok \in Shorter /\ user \in Shorter /\ attempts \in 0 .. HintAfter
    /\ stage \in {"user", "pass"} => cmd_len < FieldSize
    /\ history \in Seq(Shorter \ {<<>>}) /\ Len(history) <= MAX_HISTORY
    /\ history_pos \in 0 .. history_count
    /\ stage \in Reading \cup {"split", "run"}
    /\ argv \in Seq(Words) /\ Len(argv) <= MAX_ARGS
    /\ astray \in BOOLEAN

LEMMA NoLine == <<>> \in Shorter /\ Len(<<>>) = 0
BY ShellSizesAre DEF Shorter

LEMMA LineStarts == Init => LineInv
<1> SUFFICES ASSUME Init PROVE LineInv
  OBVIOUS
<1>1. history \in Seq(Shorter \ {<<>>}) /\ argv \in Seq(Words) /\ Len(history) = 0 /\ Len(argv) = 0
  BY EmptySeq DEF Init
<1>3. history_pos \in 0 .. history_count /\ Len(history) <= MAX_HISTORY /\ Len(argv) <= MAX_ARGS
  BY <1>1, ShellSizesAre DEF Init, history_count
<1>2. line \in Shorter /\ tok \in Shorter /\ user \in Shorter
  BY NoLine DEF Init
<1>4. cmd_len < FieldSize
  BY NoLine, ShellSizesAre DEF Init, cmd_len
<1>5. attempts \in 0 .. HintAfter
  BY DEF Init, HintAfter
<1>7. astray \in BOOLEAN
  BY DEF Init
<1>6. stage \in Reading \cup {"split", "run"}
  BY DEF Init, Reading
<1> QED
  BY <1>1, <1>2, <1>3, <1>4, <1>5, <1>6, <1>7 DEF LineInv

(* A prompt starts an empty line at the end of the history.                  *)
LEMMA AskKeeps ==
    ASSUME LineInv, NEW s, NEW next \in Reading, Ask(s, next),
           user' \in Shorter, attempts' \in 0 .. HintAfter,
           history' \in Seq(Shorter \ {<<>>}), Len(history') <= MAX_HISTORY
    PROVE  LineInv'
<1>1. Len(history') \in 0 .. Len(history')
  BY LenProperties
<1>2. line' = <<>> /\ tok' = <<>> /\ argv' = <<>> /\ astray' = FALSE /\ stage' = next
      /\ history_pos' = Len(history')
  BY DEF Ask
<1>3. argv' \in Seq(Words) /\ Len(argv') <= MAX_ARGS
  BY <1>2, ShellSizesAre, EmptySeq
<1>4. line' \in Shorter /\ tok' \in Shorter /\ cmd_len' < FieldSize
  BY <1>2, NoLine, ShellSizesAre DEF cmd_len
<1>5. history_pos' \in 0 .. history_count'
  BY <1>1, <1>2 DEF history_count
<1>6. stage' \in Reading \cup {"split", "run"} /\ astray' \in BOOLEAN
  BY <1>2
<1> QED
  BY <1>3, <1>4, <1>5, <1>6 DEF LineInv

(* Shifting the oldest entry out before a new one comes in is the same as     *)
(* dropping it afterwards.                                                   *)
LEMMA ShiftedIn ==
    ASSUME NEW S, NEW h \in Seq(S), h # <<>>, NEW e \in S
    PROVE  /\ Append(SubSeq(h, 2, Len(h)), e) = Tail(Append(h, e))
           /\ Tail(Append(h, e)) \in Seq(S) /\ Len(Tail(Append(h, e))) = Len(h)
<1>1. Len(h) \in Nat \ {0}
  BY EmptySeq
<1>2. PICK all : all = Append(h, e)
  OBVIOUS
<1>3. /\ all \in Seq(S) /\ all # <<>> /\ Len(all) = Len(h) + 1
      /\ \A i \in 1 .. Len(h) : all[i] = h[i]
      /\ all[Len(h) + 1] = e
  BY <1>2, AppendProperties
<1>4. /\ Tail(all) \in Seq(S) /\ Len(Tail(all)) = Len(h)
      /\ \A i \in 1 .. Len(h) : Tail(all)[i] = all[i + 1]
  BY <1>1, <1>3, HeadTailProperties
<1>5. PICK t : t = SubSeq(h, 2, Len(h))
  OBVIOUS
<1>6. /\ t \in Seq(S) /\ Len(t) = Len(h) - 1
      /\ \A i \in 1 .. Len(h) - 1 : t[i] = h[i + 1]
  <2>1. \A i \in 2 .. Len(h) : h[i] \in S
    BY <1>1, ElementOfSeq
  <2>2. /\ t \in Seq(S) /\ Len(t) = IF 2 <= Len(h) THEN Len(h) - 2 + 1 ELSE 0
        /\ \A i \in 1 .. Len(h) - 2 + 1 : t[i] = h[2 + i - 1]
    BY <1>1, <1>5, <2>1, SubSeqProperties
  <2>3. Len(t) = Len(h) - 1
    <3>1. CASE 2 <= Len(h)
      BY <1>1, <2>2, <3>1
    <3>2. CASE ~(2 <= Len(h))
      <4>1. \A n \in Nat \ {0} : ~(2 <= n) => n = 1
        OBVIOUS
      <4>2. Len(h) = 1
        BY <1>1, <3>2, <4>1, Zenon
      <4> QED
        BY <2>2, <3>2, <4>2
    <3> QED
      BY <3>1, <3>2
  <2>4. ASSUME NEW i \in 1 .. Len(h) - 1 PROVE t[i] = h[i + 1]
    <3>1. i \in 1 .. Len(h) - 2 + 1 /\ 2 + i - 1 = i + 1
      BY <1>1
    <3> QED
      BY <2>2, <3>1
  <2> QED
    BY <2>2, <2>3, <2>4
<1>7. PICK new : new = Append(t, e)
  OBVIOUS
<1>8. /\ new \in Seq(S) /\ Len(new) = Len(t) + 1
      /\ \A i \in 1 .. Len(t) : new[i] = t[i]
      /\ new[Len(t) + 1] = e
  BY <1>6, <1>7, AppendProperties
<1>9. ASSUME NEW i \in 1 .. Len(new) PROVE new[i] = Tail(all)[i]
  <2>1. CASE i = Len(h)
    BY <1>1, <1>3, <1>4, <1>6, <1>8, <2>1
  <2>2. CASE i # Len(h)
    BY <1>1, <1>3, <1>4, <1>6, <1>8, <1>9, <2>2
  <2> QED
    BY <2>1, <2>2
<1>10. new = Tail(all)
  BY <1>1, <1>4, <1>6, <1>8, <1>9, SeqEqual
<1> QED
  BY <1>2, <1>4, <1>5, <1>7, <1>10

(* history_add.                                                              *)
LEMMA HistoryAdded ==
    ASSUME LineInv, NEW cmd \in Shorter \ {<<>>}, history_add(cmd)
    PROVE  /\ history' \in Seq(Shorter \ {<<>>}) /\ Len(history') <= MAX_HISTORY
           /\ Len(history) <= Len(history')
           /\ History!Added(cmd)
<1>1. PICK S : S = Shorter \ {<<>>}
  OBVIOUS
<1>2. /\ history \in Seq(S) /\ Len(history) \in Nat /\ Len(history) <= MAX_HISTORY
      /\ MAX_HISTORY \in Nat \ {0} /\ cmd \in S
  BY <1>1, LenProperties, ShellSizesAre DEF LineInv
<1>3. Append(history, cmd) \in Seq(S) /\ Len(Append(history, cmd)) = Len(history) + 1
  BY <1>2, AppendProperties
<1>4. CASE Len(history) < MAX_HISTORY
  <2>1. history' = Append(history, cmd)
    BY <1>4 DEF history_add, history_count
  <2> QED
    BY <1>1, <1>2, <1>3, <1>4, <2>1 DEF History!Added
<1>5. CASE ~(Len(history) < MAX_HISTORY)
  <2>1. Len(history) = MAX_HISTORY /\ history # <<>>
    BY <1>2, <1>5, EmptySeq
  <2>2. history' = Append(SubSeq(history, 2, Len(history)), cmd)
    BY <1>5 DEF history_add, history_count, Shifted
  <2>3. /\ history' = Tail(Append(history, cmd)) /\ history' \in Seq(S)
        /\ Len(history') = Len(history)
    BY <1>2, <2>1, <2>2, ShiftedIn
  <2> QED
    BY <1>1, <1>2, <1>3, <2>1, <2>3 DEF History!Added
<1> QED
  BY <1>4, <1>5

-----------------------------------------------------------------------------
(* One step.                                                                 *)

(* A part of a sequence.                                                     *)
LEMMA PartOf ==
    ASSUME NEW S, NEW s \in Seq(S), NEW m \in Nat \ {0}, NEW n \in Nat, n <= Len(s)
    PROVE  /\ SubSeq(s, m, n) \in Seq(S)
           /\ Len(SubSeq(s, m, n)) = IF m <= n THEN n - m + 1 ELSE 0
           /\ Len(SubSeq(s, m, n)) <= Len(s)
           /\ \A i \in 1 .. Len(SubSeq(s, m, n)) : SubSeq(s, m, n)[i] = s[m + i - 1]
<1>1. Len(s) \in Nat
  OBVIOUS
<1>2. \A i \in m .. n : s[i] \in S
  BY <1>1, ElementOfSeq
<1>3. PICK t : t = SubSeq(s, m, n)
  OBVIOUS
<1>4. /\ t \in Seq(S) /\ Len(t) = IF m <= n THEN n - m + 1 ELSE 0
      /\ \A i \in 1 .. n - m + 1 : t[i] = s[m + i - 1]
  BY <1>2, <1>3, SubSeqProperties
<1>5. Len(t) <= Len(s)
  BY <1>1, <1>4
<1>6. ASSUME NEW i \in 1 .. Len(t) PROVE t[i] = s[m + i - 1]
  <2>1. i \in 1 .. n - m + 1
    BY <1>4
  <2> QED
    BY <1>4, <2>1
<1> QED
  BY <1>3, <1>4, <1>5, <1>6

LEMMA LineGrows ==
    ASSUME LineInv, NEW c \in LineChars, Typing, HasRoom, line' = Append(line, c)
    PROVE  line' \in Shorter /\ (stage \in {"user", "pass"} => cmd_len' < FieldSize)
<1>1. line \in Seq(LineChars) /\ Len(line) \in Nat
  BY LenProperties DEF LineInv, Shorter
<1>2. line' \in Seq(LineChars) /\ Len(line') = Len(line) + 1
  BY <1>1, AppendProperties
<1>3. CASE stage = "key"
  <2>1. Len(line) < CMD_BUFFER_SIZE - 1
    BY <1>3 DEF HasRoom, cmd_len
  <2> QED
    BY <1>1, <1>2, <1>3, <2>1, ShellSizesAre DEF Shorter
<1>4. CASE stage # "key"
  <2>1. Len(line) < FieldSize - 1
    BY <1>4 DEF HasRoom, cmd_len
  <2>2. line' \in Shorter
    BY <1>1, <1>2, <2>1, ShellSizesAre DEF Shorter
  <2>3. cmd_len' < FieldSize
    BY <1>1, <1>2, <2>1, ShellSizesAre DEF cmd_len
  <2> QED
    BY <2>2, <2>3
<1> QED
  BY <1>3, <1>4

LEMMA LineShrinks ==
    ASSUME LineInv, cmd_len > 0, line' = Front(line)
    PROVE  line' \in Shorter /\ cmd_len' = cmd_len - 1
<1>1. line \in Seq(LineChars) /\ Len(line) \in Nat /\ Len(line) <= CMD_BUFFER_SIZE - 1
  BY LenProperties DEF LineInv, Shorter
<1>2. Len(line) - 1 \in Nat /\ Len(line) - 1 <= Len(line)
  BY <1>1 DEF cmd_len
<1>3. line' = SubSeq(line, 1, Len(line) - 1)
  BY DEF Front
<1>4. /\ line' \in Seq(LineChars)
      /\ Len(line') = IF 1 <= Len(line) - 1 THEN Len(line) - 1 - 1 + 1 ELSE 0
  BY <1>1, <1>2, <1>3, PartOf
<1>5. Len(line') = Len(line) - 1
  <2>1. \A n \in Nat : n - 1 \in Nat => (IF 1 <= n - 1 THEN n - 1 - 1 + 1 ELSE 0) = n - 1
    OBVIOUS
  <2> QED
    BY <1>1, <1>2, <1>4, <2>1, Zenon
<1> QED
  BY <1>1, <1>4, <1>5, ShellSizesAre DEF Shorter, cmd_len

(* An entry of the history fits the line's buffer.                           *)
LEMMA EntryFits ==
    ASSUME LineInv, NEW pos \in 0 .. history_count - 1
    PROVE  Recalled(pos) \in Shorter
<1>1. history \in Seq(Shorter \ {<<>>}) /\ Len(history) \in Nat
  BY LenProperties DEF LineInv
<1>2. pos + 1 \in 1 .. Len(history)
  BY <1>1 DEF history_count
<1>3. history[pos + 1] \in Shorter \ {<<>>}
  BY <1>1, <1>2, ElementOfSeq
<1> QED
  BY <1>3 DEF Recalled

\* the conjuncts of LineInv
LEMMA LineParts ==
    ASSUME LineInv
    PROVE  /\ line \in Shorter /\ tok \in Shorter /\ user \in Shorter /\ attempts \in 0 .. HintAfter
           /\ stage \in {"user", "pass"} => cmd_len < FieldSize
           /\ history \in Seq(Shorter \ {<<>>}) /\ Len(history) <= MAX_HISTORY
           /\ history_pos \in 0 .. history_count
           /\ stage \in Reading \cup {"split", "run"}
           /\ argv \in Seq(Words) /\ Len(argv) <= MAX_ARGS
           /\ astray \in BOOLEAN
BY DEF LineInv

\* a key that edits the line
LEMMA EditKeeps ==
    ASSUME LineInv, Typing, line' \in Shorter, stage \in {"user", "pass"} => cmd_len' < FieldSize,
           history_pos' \in 0 .. history_count, astray' \in BOOLEAN
    PROVE  LineInv'
<1>1. /\ stage' = stage /\ argv' = argv /\ tok' = tok /\ history' = history
      /\ user' = user /\ attempts' = attempts
  BY DEF Typing
<1>2. history_count' = history_count
  BY <1>1 DEF history_count
<1>3. /\ tok' \in Shorter /\ user' \in Shorter /\ attempts' \in 0 .. HintAfter
      /\ stage' \in {"user", "pass"} => cmd_len' < FieldSize
      /\ history' \in Seq(Shorter \ {<<>>}) /\ Len(history') <= MAX_HISTORY
      /\ history_pos' \in 0 .. history_count'
      /\ stage' \in Reading \cup {"split", "run"}
      /\ argv' \in Seq(Words) /\ Len(argv') <= MAX_ARGS
  BY <1>1, <1>2, LineParts, Zenon
<1> QED
  BY <1>3 DEF LineInv

LEMMA LineTyped ==
    ASSUME LineInv, NEW c \in Letters \cup {Space}, Type(c)
    PROVE  LineInv'
<1>1. Typing /\ HasRoom /\ line' = Append(line, c) /\ history_pos' = history_pos /\ astray' = astray
  BY DEF Type
<1>2. line' \in Shorter /\ (stage \in {"user", "pass"} => cmd_len' < FieldSize)
  BY <1>1, LineGrows DEF LineChars
<1>3. history_pos' \in 0 .. history_count /\ astray' \in BOOLEAN
  BY <1>1, LineParts, Zenon
<1> QED
  BY <1>1, <1>2, <1>3, EditKeeps

LEMMA LineBackspaced == ASSUME LineInv, Backspace PROVE LineInv'
<1>1. Typing /\ cmd_len > 0 /\ line' = Front(line) /\ history_pos' = history_pos
      /\ astray' = (astray \/ Stuck(1))
  BY DEF Backspace
<1>2. line' \in Shorter /\ cmd_len' = cmd_len - 1
  BY <1>1, LineShrinks
<1>3. cmd_len \in Nat
  BY LineParts, LenProperties DEF Shorter, cmd_len
<1>4. stage \in {"user", "pass"} => cmd_len' < FieldSize
  BY <1>2, <1>3, LineParts, ShellSizesAre
<1>5. history_pos' \in 0 .. history_count /\ astray' \in BOOLEAN
  BY <1>1, LineParts, Zenon
<1> QED
  BY <1>1, <1>2, <1>4, <1>5, EditKeeps

LEMMA LineRecalled ==
    ASSUME LineInv, stage = "key", Typing, NEW pos \in 0 .. history_count - 1, Show(pos)
    PROVE  LineInv'
<1>1. history_pos' = pos /\ astray' = (astray \/ Stuck(cmd_len)) /\ line' = Recalled(pos)
  BY DEF Show
<1>2. line' \in Shorter /\ stage \notin {"user", "pass"}
  BY <1>1, EntryFits
<1>3. history_count \in Nat
  BY LineParts, LenProperties DEF history_count
<1>4. history_pos' \in 0 .. history_count
  BY <1>1, <1>3
<1>5. astray' \in BOOLEAN
  BY <1>1, LineParts, Zenon
<1> QED
  BY <1>2, <1>4, <1>5, EditKeeps

LEMMA LineUp == ASSUME LineInv, Up PROVE LineInv'
<1>1. stage = "key" /\ Typing /\ history_pos > 0 /\ Show(history_pos - 1)
  BY DEF Up
<1>2. history_count \in Nat /\ history_pos \in 0 .. history_count
  BY LineParts, LenProperties DEF history_count
<1>3. history_pos - 1 \in 0 .. history_count - 1
  BY <1>1, <1>2
<1> QED
  BY <1>1, <1>3, LineRecalled

LEMMA LineDown == ASSUME LineInv, Down PROVE LineInv'
<1>1. stage = "key" /\ Typing
  BY DEF Down
<1>2. history_count \in Nat /\ history_pos \in 0 .. history_count
  BY LineParts, LenProperties DEF history_count
<1>3. CASE history_pos < history_count - 1
  <2>1. history_pos + 1 \in 0 .. history_count - 1
    BY <1>2, <1>3
  <2>2. Show(history_pos + 1)
    BY <1>3 DEF Down
  <2> QED
    BY <1>1, <2>1, <2>2, LineRecalled
<1>4. CASE ~(history_pos < history_count - 1)
  <2>1. history_pos' = history_count /\ astray' = (astray \/ Stuck(cmd_len)) /\ line' = <<>>
    BY <1>4 DEF Down
  <2>2. line' \in Shorter /\ stage \notin {"user", "pass"}
    BY <1>1, <2>1, NoLine
  <2>3. history_pos' \in 0 .. history_count
    BY <1>2, <2>1
  <2>4. astray' \in BOOLEAN
    BY <2>1, LineParts, Zenon
  <2> QED
    BY <1>1, <2>2, <2>3, <2>4, EditKeeps
<1> QED
  BY <1>3, <1>4

LEMMA LineAsked == ASSUME LineInv, EnterUser \/ EnterPassword PROVE LineInv'
<1>1. CASE EnterUser
  <2>1. user' = line /\ history' = history /\ attempts' = attempts
        /\ Ask(Put(screen, "newline"), "pass")
    BY <1>1 DEF EnterUser
  <2>2. /\ user' \in Shorter /\ attempts' \in 0 .. HintAfter
        /\ history' \in Seq(Shorter \ {<<>>}) /\ Len(history') <= MAX_HISTORY
    BY <2>1, LineParts, Zenon
  <2>3. "pass" \in Reading
    BY DEF Reading
  <2> QED
    BY <2>1, <2>2, <2>3, AskKeeps
<1>2. CASE EnterPassword
  <2>1. user' = <<>> /\ history' = history
    BY <1>2 DEF EnterPassword
  <2>2. user' \in Shorter
    BY <2>1, NoLine
  <2>3. history' \in Seq(Shorter \ {<<>>}) /\ Len(history') <= MAX_HISTORY
    BY <2>1, LineParts, Zenon
  <2>4. attempts' \in 0 .. HintAfter
    BY <1>2, LineParts DEF EnterPassword, HintAfter
  <2>5. "key" \in Reading /\ "user" \in Reading
    BY DEF Reading
  <2>6. \E s : \E next \in {"key", "user"} : Ask(s, next)
    BY <1>2 DEF EnterPassword
  <2> QED
    BY <2>2, <2>3, <2>4, <2>5, <2>6, AskKeeps
<1> QED
  BY <1>1, <1>2

LEMMA LineEntered == ASSUME LineInv, Enter PROVE LineInv'
<1>1. stage = "key" /\ user' = user /\ attempts' = attempts
  BY DEF Enter
<1>2. user' \in Shorter /\ attempts' \in 0 .. HintAfter
  BY <1>1, LineParts, Zenon
<1>3. CASE cmd_len > 0
  <2>1. history_add(line) /\ stage' = "split" /\ tok' = line /\ line' = line
        /\ history_pos' = history_pos /\ argv' = argv /\ astray' = astray
    BY <1>3 DEF Enter
  <2>2. line \in Shorter \ {<<>>}
    BY <1>3, LineParts, NoLine DEF cmd_len
  <2>3. /\ history' \in Seq(Shorter \ {<<>>}) /\ Len(history') <= MAX_HISTORY
        /\ Len(history) <= Len(history')
    BY <2>1, <2>2, HistoryAdded
  <2>4. history_pos' \in 0 .. history_count'
    <3>1. Len(history) \in Nat /\ Len(history') \in Nat /\ history_pos \in 0 .. Len(history)
      BY <2>3, LineParts, LenProperties DEF history_count
    <3> QED
      BY <2>1, <2>3, <3>1 DEF history_count
  <2>5. /\ line' \in Shorter /\ tok' \in Shorter /\ argv' \in Seq(Words) /\ Len(argv') <= MAX_ARGS
        /\ astray' \in BOOLEAN
    BY <2>1, LineParts, Zenon
  <2>6. stage' \notin {"user", "pass"} /\ stage' \in Reading \cup {"split", "run"}
    BY <2>1
  <2> QED
    BY <1>2, <2>3, <2>4, <2>5, <2>6 DEF LineInv
<1>4. CASE ~(cmd_len > 0)
  <2>1. history' = history /\ Ask(Put(screen, "newline"), "key")
    BY <1>4 DEF Enter
  <2>2. history' \in Seq(Shorter \ {<<>>}) /\ Len(history') <= MAX_HISTORY
    BY <2>1, LineParts, Zenon
  <2>3. "key" \in Reading
    BY DEF Reading
  <2> QED
    BY <1>2, <2>1, <2>2, <2>3, AskKeeps
<1> QED
  BY <1>3, <1>4

-----------------------------------------------------------------------------
(* execute_command's words.                                                  *)

(* The loop that looks for a space, or for the end of the spaces, stops at    *)
(* the first one, or at the NUL.                                             *)
LEMMA FirstFound ==
    ASSUME NEW s \in Seq(LineChars), NEW space \in BOOLEAN
    PROVE  /\ FirstIs(s, space) \in 1 .. Len(s) + 1
           /\ \A j \in 1 .. Len(s) : j < FirstIs(s, space) => (s[j] = Space) # space
           /\ FirstIs(s, space) <= Len(s) => (s[FirstIs(s, space)] = Space) = space
<1>1. PICK found : found = {i \in 1 .. Len(s) : (s[i] = Space) = space}
  OBVIOUS
<1>2. Len(s) \in Nat
  OBVIOUS
<1>3. CASE found = {}
  <2>1. FirstIs(s, space) = Len(s) + 1
    BY <1>1, <1>3 DEF FirstIs
  <2>2. \A j \in 1 .. Len(s) : (s[j] = Space) # space
    BY <1>1, <1>3
  <2>3. Len(s) + 1 \in 1 .. Len(s) + 1 /\ ~(Len(s) + 1 <= Len(s))
    BY <1>2
  <2> QED
    BY <2>1, <2>2, <2>3, Zenon
<1>4. CASE found # {}
  <2>1. found \in SUBSET Nat
    BY <1>1, <1>2
  <2>2. \E i \in found : \A j \in found : i <= j
    BY <1>4, <2>1, MinIsLeast
  <2>3. PICK f : f = CHOOSE i \in found : \A j \in found : i <= j
    OBVIOUS
  <2>4. f \in found /\ \A j \in found : f <= j
    BY <2>2, <2>3
  <2>5. FirstIs(s, space) = f
    BY <1>1, <1>4, <2>3 DEF FirstIs
  <2>6. f \in 1 .. Len(s) /\ (s[f] = Space) = space
    BY <1>1, <2>4
  <2>7. ASSUME NEW j \in 1 .. Len(s), j < f PROVE (s[j] = Space) # space
    <3>1. j \notin found
      BY <1>2, <2>4, <2>6, <2>7
    <3> QED
      BY <1>1, <3>1
  <2>8. f \in 1 .. Len(s) + 1
    BY <1>2, <2>6
  <2> QED
    BY <2>5, <2>6, <2>7, <2>8, Zenon
<1> QED
  BY <1>3, <1>4

\* what is left when the spaces in front of a word are skipped
Unspaced == SubSeq(tok, FirstIs(tok, FALSE), Len(tok))

LEMMA LineSplit == ASSUME LineInv, Split PROVE LineInv'
<1>1. /\ stage = "split" /\ history' = history /\ history_pos' = history_pos /\ line' = line
      /\ user' = user /\ attempts' = attempts /\ astray' = astray
  BY DEF Split
<1>2. /\ line' \in Shorter /\ user' \in Shorter /\ attempts' \in 0 .. HintAfter
      /\ history' \in Seq(Shorter \ {<<>>}) /\ Len(history') <= MAX_HISTORY
      /\ history_pos' \in 0 .. history_count' /\ astray' \in BOOLEAN
  BY <1>1, LineParts, Zenon DEF history_count
<1>3. CASE tok # <<>> /\ MoreArgs(Len(argv)) /\ Unspaced # <<>>
  <2>1. PICK from : from = Unspaced
    OBVIOUS
  <2>2. PICK end : end = FirstIs(from, TRUE)
    OBVIOUS
  <2>3. /\ argv' = Append(argv, SubSeq(from, 1, end - 1))
        /\ tok' = SubSeq(from, end + 1, Len(from))
        /\ stage' = stage
    BY <1>3, <2>1, <2>2 DEF Split, Unspaced
  <2>4. tok \in Seq(LineChars) /\ Len(tok) \in Nat /\ Len(tok) <= CMD_BUFFER_SIZE - 1
    BY LineParts, LenProperties DEF Shorter
  <2>5. PICK start : start = FirstIs(tok, FALSE)
    OBVIOUS
  <2>15. start \in 1 .. Len(tok) + 1
    BY <2>4, <2>5, FirstFound
  <2>16. start \in Nat \ {0}
    BY <2>4, <2>15
  <2>17. from = SubSeq(tok, start, Len(tok))
    BY <2>1, <2>5 DEF Unspaced
  <2>6. from \in Seq(LineChars) /\ Len(from) \in Nat /\ Len(from) <= Len(tok)
    BY <2>4, <2>16, <2>17, PartOf, LenProperties
  <2>7. end \in 1 .. Len(from) + 1
    BY <2>2, <2>6, FirstFound
  <2>8. end - 1 \in Nat /\ end - 1 <= Len(from) /\ end + 1 \in Nat \ {0}
    BY <2>6, <2>7
  <2>9. SubSeq(from, 1, end - 1) \in Words
    BY <2>6, <2>8, PartOf DEF Words
  <2>10. tok' \in Seq(LineChars) /\ Len(tok') <= Len(from) /\ Len(tok') \in Nat
    BY <2>3, <2>6, <2>8, PartOf, LenProperties
  <2>11. tok' \in Shorter
    BY <2>4, <2>6, <2>10, ShellSizesAre DEF Shorter
  <2>12. argv' \in Seq(Words) /\ Len(argv') = Len(argv) + 1 /\ Len(argv) \in Nat
    BY <2>3, <2>9, LineParts, AppendProperties, LenProperties
  <2>13. Len(argv') <= MAX_ARGS
    BY <1>3, <2>12, ShellSizesAre DEF MoreArgs
  <2>14. stage' \notin {"user", "pass"} /\ stage' \in Reading \cup {"split", "run"}
    BY <1>1, <2>3
  <2> QED
    BY <1>2, <2>11, <2>12, <2>13, <2>14 DEF LineInv
<1>4. CASE ~(tok # <<>> /\ MoreArgs(Len(argv)) /\ Unspaced # <<>>)
  <2>1. stage' = "run" /\ argv' = argv /\ tok' = tok
    BY <1>4 DEF Split, Unspaced
  <2>2. tok' \in Shorter /\ argv' \in Seq(Words) /\ Len(argv') <= MAX_ARGS
    BY <2>1, LineParts, Zenon
  <2>3. stage' \notin {"user", "pass"} /\ stage' \in Reading \cup {"split", "run"}
    BY <2>1
  <2> QED
    BY <1>2, <2>2, <2>3 DEF LineInv
<1> QED
  BY <1>3, <1>4

-----------------------------------------------------------------------------
(* Every step.                                                               *)

\* the screen on which Run asks for the next line
LEMMA RunAsks ==
    ASSUME Run
    PROVE  \/ Ask(screen, "key")
           \/ \E s \in {screen, Cleared, Boxed}, out \in {<<>>, <<Output, "newline">>} :
                 Ask(PutAll(s, out), "key")
<1>1. CASE argv = <<>>
  BY <1>1 DEF Run
<1>2. CASE argv # <<>>
  BY <1>2 DEF Run
<1> QED
  BY <1>1, <1>2

LEMMA LineRest == ASSUME LineInv, TaskPrints \/ Run PROVE LineInv'
<1>1. CASE TaskPrints
  <2>1. stage = "key" /\ Typing /\ line' = line /\ history_pos' = history_pos /\ astray' = TRUE
    BY <1>1 DEF TaskPrints
  <2>2. line' \in Shorter /\ history_pos' \in 0 .. history_count /\ astray' \in BOOLEAN
    BY <2>1, LineParts, Zenon
  <2> QED
    BY <2>1, <2>2, EditKeeps
<1>2. CASE Run
  <2>1. history' = history /\ user' = user /\ attempts' = attempts
    BY <1>2 DEF Run
  <2>2. /\ user' \in Shorter /\ attempts' \in 0 .. HintAfter
        /\ history' \in Seq(Shorter \ {<<>>}) /\ Len(history') <= MAX_HISTORY
    BY <2>1, LineParts, Zenon
  <2>3. \E s : Ask(s, "key")
    BY <1>2, RunAsks
  <2>4. "key" \in Reading
    BY DEF Reading
  <2> QED
    BY <2>2, <2>3, <2>4, AskKeeps
<1> QED
  BY <1>1, <1>2

LEMMA LineSame == LineInv /\ UNCHANGED vars => LineInv'
BY DEF LineInv, vars, cmd_len, history_count

LEMMA LineSteps == LineInv /\ [Next]_vars => LineInv'
<1> SUFFICES ASSUME LineInv, [Next]_vars PROVE LineInv'
  OBVIOUS
<1>1. \/ \E c \in Letters \cup {Space} : Type(c)
      \/ Backspace \/ Up \/ Down \/ EnterUser \/ EnterPassword \/ Enter \/ TaskPrints
      \/ Split \/ Run \/ UNCHANGED vars
  BY Zenon DEF Next
<1> QED
  BY <1>1, LineTyped, LineBackspaced, LineUp, LineDown, LineAsked, LineEntered, LineSplit,
     LineRest, LineSame, Zenon

LEMMA LineAlways == Spec => []LineInv
BY LineStarts, LineSteps, PTL DEF Spec

(* The history is the last MAX_HISTORY lines that were entered, in order,     *)
(* whatever their number: history_add shifts a full one before it adds, and   *)
(* no other step, execute_command among them, writes to it.                   *)
THEOREM HistoryKept == Spec => HistoryInOrder
<1>1. Init => History!Init
  BY DEF Init, History!Init
<1>2. LineInv /\ [Next]_vars => [History!Next]_history
  <2> SUFFICES ASSUME LineInv, [Next]_vars, history' # history PROVE History!Next
    OBVIOUS
  <2>1. Enter
    BY DEF Next, vars, Typing, Type, Backspace, Up, Down, EnterUser, EnterPassword, TaskPrints,
           Split, Run
  <2>2. cmd_len > 0 /\ history_add(line)
    BY <2>1 DEF Enter
  <2>3. line \in Shorter \ {<<>>}
    BY <2>2, LineParts, NoLine DEF cmd_len
  <2>4. History!Added(line)
    BY <2>2, <2>3, HistoryAdded
  <2>5. line \in Lines
    BY <2>3, LinesAre
  <2> QED
    BY <2>4, <2>5 DEF History!Next
<1> QED
  BY <1>1, <1>2, LineAlways, PTL DEF Spec, HistoryInOrder, History!Spec

-----------------------------------------------------------------------------
(* The screen under one writer.                                              *)

Glyphs == Letters \cup {Blank, Prompt, Output, Star, Box}

LEMMA Sizes ==
    /\ Width \in Nat \ {0} /\ Height \in Nat /\ Height > 1 /\ Width * Height \in Nat
BY ScreenSizes, Z3

\* a screen taken apart, and the cursor at the start of the next line
Scr(b, r, c) == [cells |-> b, row |-> r, col |-> c]
NextLine(b, r) ==
    IF r + 1 < Height THEN Scr(b, r + 1, 0) ELSE Scr(ScrolledCells(b), Height - 1, 0)

LEMMA ScreenOf ==
    /\ \A s \in Screens(Glyphs) :
          /\ s = Scr(s.cells, s.row, s.col) /\ s.cells \in [Cells -> Glyphs]
          /\ s.row \in 0 .. Height - 1 /\ s.col \in 0 .. Width - 1
    /\ \A b \in [Cells -> Glyphs], r \in 0 .. Height - 1, c \in 0 .. Width - 1 :
          Scr(b, r, c) \in Screens(Glyphs)
BY DEF Screens, Scr

LEMMA ScrParts ==
    ASSUME NEW b, NEW r, NEW c
    PROVE  /\ Scr(b, r, c).cells = b /\ Scr(b, r, c).row = r /\ Scr(b, r, c).col = c
           /\ Position(Scr(b, r, c)) = r * Width + c
BY DEF Scr, Position

LEMMA AdvancedAt ==
    ASSUME NEW b, NEW r, NEW c
    PROVE  Advanced(Scr(b, r, c)) = NextLine(b, r)
BY ScrParts DEF Advanced, NextLine, Scr

LEMMA MovedAt ==
    ASSUME NEW b, NEW r, NEW c, NEW d
    PROVE  Moved(Scr(b, r, c), d) = IF d < Width THEN Scr(b, r, d) ELSE NextLine(b, r)
<1>1. [Scr(b, r, c) EXCEPT !.col = d] = Scr(b, r, d)
  BY DEF Scr
<1> QED
  BY <1>1, AdvancedAt DEF Moved

\* the three characters that the shell and its commands print
LEMMA PutAt ==
    ASSUME NEW b, NEW r, NEW c
    PROVE  /\ Put(Scr(b, r, c), "newline") = NextLine(b, r)
           /\ Put(Scr(b, r, c), "backspace") =
                 IF c = 0 THEN Scr(b, r, c)
                 ELSE Scr(Written(b, (r * Width + c) - 1, Blank), r, c - 1)
           /\ \A x \in Glyphs :
                 Put(Scr(b, r, c), x) =
                    IF c + 1 < Width THEN Scr(Written(b, r * Width + c, x), r, c + 1)
                    ELSE NextLine(Written(b, r * Width + c, x), r)
<1>1. Put(Scr(b, r, c), "newline") = NextLine(b, r)
  BY AdvancedAt DEF Put
<1>2. Put(Scr(b, r, c), "backspace") =
         IF c = 0 THEN Scr(b, r, c) ELSE Scr(Written(b, (r * Width + c) - 1, Blank), r, c - 1)
  BY ScrParts DEF Put, Scr
<1>3. ASSUME NEW x \in Glyphs
      PROVE  Put(Scr(b, r, c), x) =
                IF c + 1 < Width THEN Scr(Written(b, r * Width + c, x), r, c + 1)
                ELSE NextLine(Written(b, r * Width + c, x), r)
  <2>1. x # "newline" /\ x # "return" /\ x # "tab" /\ x # "backspace"
    BY ShellChars DEF Glyphs
  <2>2. [Scr(b, r, c) EXCEPT !.cells = Written(@, r * Width + c, x)]
           = Scr(Written(b, r * Width + c, x), r, c)
    BY DEF Scr
  <2> QED
    BY <2>1, <2>2, ScrParts, MovedAt DEF Put
<1> QED
  BY <1>1, <1>2, <1>3

\* the cells from end on are blank or a box's; those before end are the first n of text
BlankFrom(b, end) == \A p \in Cells : p >= end => b[p] \in {Blank, Box}
ShownTo(b, end, text, n) == \A i \in 1 .. n : end - n + i - 1 \in Cells => b[end - n + i - 1] = text[i]

Blanks(s) == BlankFrom(s.cells, Position(s))
Shows(s, text, n) == ShownTo(s.cells, Position(s), text, n)

LEMMA CellsAre ==
    /\ \A p : p \in Cells <=> p \in Nat /\ p < Width * Height
    /\ \A r \in 0 .. Height - 1, c \in 0 .. Width - 1 :
          r * Width \in Nat /\ r * Width + c \in Cells
    /\ \A r \in Nat : (r + 1) * Width = r * Width + Width
    /\ (Height - 1) * Width = Width * Height - Width
<1>1. \A m \in Nat, h \in Nat, x \in Nat :
         /\ x < h => x * m + m <= m * h
         /\ x * m \in Nat /\ (x + 1) * m = x * m + m /\ (h - 1) * m = m * h - m
  BY Z3
<1>2. \A r \in 0 .. Height - 1 : r * Width + Width <= Width * Height /\ r * Width \in Nat
  BY <1>1, Sizes
<1> QED
  BY <1>1, <1>2, Sizes DEF Cells

(* What is written before the end of the screen stays in front of the cursor  *)
(* when terminal_scroll moves it up a line.                                  *)
LEMMA ScrolledShows ==
    ASSUME NEW b \in [Cells -> Glyphs], NEW text, NEW n \in Nat, NEW end \in Nat,
           end <= Width * Height, BlankFrom(b, end)
    PROVE  /\ ScrolledCells(b) \in [Cells -> Glyphs]
           /\ BlankFrom(ScrolledCells(b), end - Width)
           /\ ShownTo(b, end, text, n) => ShownTo(ScrolledCells(b), end - Width, text, n)
<1>1. ScrolledCells(b) \in [Cells -> Glyphs]
  BY DEF ScrolledCells, Glyphs
<1>2. ASSUME NEW p \in Cells
      PROVE  ScrolledCells(b)[p] = IF p + Width \in Cells THEN b[p + Width] ELSE Blank
  BY DEF ScrolledCells
<1>3. ASSUME NEW p \in Cells, p >= end - Width PROVE ScrolledCells(b)[p] \in {Blank, Box}
  <2>1. p \in Nat /\ p + Width >= end
    BY <1>3, CellsAre, Sizes
  <2> QED
    BY <1>2, <2>1 DEF BlankFrom
<1>4. ASSUME ShownTo(b, end, text, n), NEW i \in 1 .. n, end - Width - n + i - 1 \in Cells
      PROVE  ScrolledCells(b)[end - Width - n + i - 1] = text[i]
  <2>1. PICK p : p = end - Width - n + i - 1
    OBVIOUS
  <2>2. p \in Cells /\ p \in Nat /\ p + Width = end - n + i - 1 /\ p + Width < end
    BY <1>4, <2>1, CellsAre, Sizes
  <2>3. p + Width \in Cells
    BY <2>2, CellsAre, Sizes
  <2>4. b[p + Width] = text[i]
    BY <1>4, <2>2, <2>3 DEF ShownTo
  <2> QED
    BY <1>2, <2>1, <2>2, <2>3, <2>4
<1> QED
  BY <1>1, <1>3, <1>4 DEF BlankFrom, ShownTo

\* the cursor leaves the line that ends at `end`
LEMMA NextLineShows ==
    ASSUME NEW b \in [Cells -> Glyphs], NEW r \in 0 .. Height - 1, NEW text, NEW n \in Nat,
           BlankFrom(b, r * Width + Width)
    PROVE  /\ NextLine(b, r) \in Screens(Glyphs) /\ Blanks(NextLine(b, r))
           /\ ShownTo(b, r * Width + Width, text, n) => Shows(NextLine(b, r), text, n)
<1>1. r \in Nat /\ r * Width \in Nat /\ (r + 1) * Width = r * Width + Width
  BY CellsAre, Sizes
<1>2. 0 \in 0 .. Width - 1
  BY Sizes
<1>3. CASE r + 1 < Height
  <2>1. PICK s : s = Scr(b, r + 1, 0)
    OBVIOUS
  <2>2. NextLine(b, r) = s /\ r + 1 \in 0 .. Height - 1
    BY <1>1, <1>3, <2>1, Sizes DEF NextLine
  <2>3. s \in Screens(Glyphs)
    BY <1>2, <2>1, <2>2, ScreenOf
  <2>4. s.cells = b /\ Position(s) = (r + 1) * Width + 0
    BY <2>1, ScrParts
  <2>5. Position(s) = r * Width + Width
    BY <1>1, <2>4, Sizes
  <2> QED
    BY <2>2, <2>3, <2>4, <2>5 DEF Blanks, Shows
<1>4. CASE ~(r + 1 < Height)
  <2>1. PICK s : s = Scr(ScrolledCells(b), Height - 1, 0)
    OBVIOUS
  <2>2. NextLine(b, r) = s /\ Height - 1 \in 0 .. Height - 1 /\ r = Height - 1
    BY <1>1, <1>4, <2>1, Sizes DEF NextLine
  <2>3. PICK end : end = r * Width + Width
    OBVIOUS
  <2>4. end = Width * Height /\ end \in Nat
    BY <1>1, <2>2, <2>3, CellsAre, Sizes
  <2>5. s.cells = ScrolledCells(b) /\ Position(s) = (Height - 1) * Width + 0
    BY <2>1, ScrParts
  <2>6. Position(s) = end - Width
    BY <2>4, <2>5, CellsAre, Sizes
  <2>7. /\ ScrolledCells(b) \in [Cells -> Glyphs]
        /\ BlankFrom(ScrolledCells(b), end - Width)
        /\ ShownTo(b, end, text, n) => ShownTo(ScrolledCells(b), end - Width, text, n)
    BY <2>3, <2>4, ScrolledShows
  <2>8. s \in Screens(Glyphs)
    BY <1>2, <2>1, <2>2, <2>7, ScreenOf
  <2> QED
    BY <2>2, <2>3, <2>5, <2>6, <2>7, <2>8 DEF Blanks, Shows
<1> QED
  BY <1>3, <1>4

(* A printable character continues the text before the cursor, at the margin  *)
(* of the last line too.                                                     *)
LEMMA GlyphShows ==
    ASSUME NEW s \in Screens(Glyphs), Blanks(s), NEW x \in Glyphs, NEW text, NEW n \in Nat
    PROVE  /\ Put(s, x) \in Screens(Glyphs) /\ Blanks(Put(s, x))
           /\ Shows(s, text, n) /\ text[n + 1] = x => Shows(Put(s, x), text, n + 1)
<1>1. PICK b : b = s.cells
  OBVIOUS
<1>2. PICK r : r = s.row
  OBVIOUS
<1>3. PICK c : c = s.col
  OBVIOUS
<1>4. s = Scr(b, r, c) /\ b \in [Cells -> Glyphs] /\ r \in 0 .. Height - 1 /\ c \in 0 .. Width - 1
  BY <1>1, <1>2, <1>3, ScreenOf
<1>5. PICK at : at = r * Width + c
  OBVIOUS
<1>6. at \in Cells /\ at \in Nat /\ Position(s) = at
  BY <1>4, <1>5, CellsAre, ScrParts
<1>7. PICK d : d = Written(b, at, x)
  OBVIOUS
<1>8. d \in [Cells -> Glyphs] /\ \A p \in Cells : d[p] = IF p = at THEN x ELSE b[p]
  BY <1>4, <1>7 DEF Written
<1>9. BlankFrom(d, at + 1)
  <2> SUFFICES ASSUME NEW p \in Cells, p >= at + 1 PROVE d[p] \in {Blank, Box}
    BY DEF BlankFrom
  <2>1. p # at /\ p >= at
    BY <1>6, CellsAre
  <2> QED
    BY <1>1, <1>6, <1>8, <2>1 DEF Blanks, BlankFrom
<1>10. ASSUME Shows(s, text, n), text[n + 1] = x PROVE ShownTo(d, at + 1, text, n + 1)
  <2> SUFFICES ASSUME NEW i \in 1 .. n + 1, (at + 1) - (n + 1) + i - 1 \in Cells
               PROVE  d[(at + 1) - (n + 1) + i - 1] = text[i]
    BY DEF ShownTo
  <2>1. (at + 1) - (n + 1) + i - 1 = at - n + i - 1
    BY <1>6
  <2>2. CASE i = n + 1
    <3>1. at - n + i - 1 = at
      BY <1>6, <2>2
    <3> QED
      BY <1>6, <1>8, <1>10, <2>1, <2>2, <3>1
  <2>3. CASE i # n + 1
    <3>1. i \in 1 .. n /\ at - n + i - 1 # at
      BY <1>6, <2>3
    <3>2. b[at - n + i - 1] = text[i]
      BY <1>1, <1>6, <1>10, <2>1, <3>1 DEF Shows, ShownTo
    <3> QED
      BY <1>8, <2>1, <3>1, <3>2
  <2> QED
    BY <2>2, <2>3
<1>11. Put(s, x) = IF c + 1 < Width THEN Scr(d, r, c + 1) ELSE NextLine(d, r)
  BY <1>4, <1>5, <1>7, PutAt
<1>12. CASE c + 1 < Width
  <2>1. PICK t : t = Scr(d, r, c + 1)
    OBVIOUS
  <2>2. c + 1 \in 0 .. Width - 1
    BY <1>4, <1>12, Sizes
  <2>3. t \in Screens(Glyphs) /\ t.cells = d /\ Position(t) = r * Width + (c + 1)
    BY <1>4, <1>8, <2>1, <2>2, ScreenOf, ScrParts
  <2>4. Position(t) = at + 1
    BY <1>4, <1>5, <2>3, CellsAre, Sizes
  <2> QED
    BY <1>9, <1>10, <1>11, <1>12, <2>1, <2>3, <2>4 DEF Blanks, Shows
<1>13. CASE ~(c + 1 < Width)
  <2>1. at + 1 = r * Width + Width
    BY <1>4, <1>5, <1>13, CellsAre, Sizes
  <2>2. n + 1 \in Nat
    OBVIOUS
  <2>3. /\ NextLine(d, r) \in Screens(Glyphs) /\ Blanks(NextLine(d, r))
        /\ ShownTo(d, at + 1, text, n + 1) => Shows(NextLine(d, r), text, n + 1)
    BY <1>4, <1>8, <1>9, <2>1, <2>2, NextLineShows
  <2> QED
    BY <1>10, <1>11, <1>13, <2>3
<1> QED
  BY <1>12, <1>13

LEMMA NewlineShows ==
    ASSUME NEW s \in Screens(Glyphs), Blanks(s)
    PROVE  Put(s, "newline") \in Screens(Glyphs) /\ Blanks(Put(s, "newline"))
<1>1. PICK b : b = s.cells
  OBVIOUS
<1>2. PICK r : r = s.row
  OBVIOUS
<1>3. PICK c : c = s.col
  OBVIOUS
<1>4. s = Scr(b, r, c) /\ b \in [Cells -> Glyphs] /\ r \in 0 .. Height - 1 /\ c \in 0 .. Width - 1
  BY <1>1, <1>2, <1>3, ScreenOf
<1>5. Position(s) = r * Width + c /\ r * Width \in Nat
  BY <1>4, CellsAre, ScrParts
<1>6. BlankFrom(b, r * Width + Width)
  <2> SUFFICES ASSUME NEW p \in Cells, p >= r * Width + Width PROVE b[p] \in {Blank, Box}
    BY DEF BlankFrom
  <2>1. p >= Position(s)
    BY <1>4, <1>5, CellsAre, Sizes
  <2> QED
    BY <1>1, <2>1 DEF Blanks, BlankFrom
<1> QED
  BY <1>4, <1>6, PutAt, NextLineShows

(* A backspace takes the last character back, unless it is at the margin.     *)
LEMMA BackspaceShows ==
    ASSUME NEW s \in Screens(Glyphs), Blanks(s), NEW text, NEW n \in Nat
    PROVE  /\ Put(s, "backspace") \in Screens(Glyphs) /\ Blanks(Put(s, "backspace"))
           /\ s.col > 0 => Put(s, "backspace").col = s.col - 1
           /\ s.col > 0 /\ Shows(s, text, n + 1) => Shows(Put(s, "backspace"), text, n)
<1>1. PICK b : b = s.cells
  OBVIOUS
<1>2. PICK r : r = s.row
  OBVIOUS
<1>3. PICK c : c = s.col
  OBVIOUS
<1>4. s = Scr(b, r, c) /\ b \in [Cells -> Glyphs] /\ r \in 0 .. Height - 1 /\ c \in 0 .. Width - 1
  BY <1>1, <1>2, <1>3, ScreenOf
<1>5. CASE c = 0
  <2>1. Put(s, "backspace") = s
    BY <1>4, <1>5, PutAt
  <2>2. ~(s.col > 0)
    BY <1>3, <1>5
  <2> QED
    BY <2>1, <2>2
<1>6. CASE c # 0
  <2>1. PICK at : at = r * Width + c
    OBVIOUS
  <2>2. at \in Cells /\ at \in Nat /\ Position(s) = at /\ c - 1 \in 0 .. Width - 1 /\ at - 1 \in Nat
    BY <1>4, <1>6, <2>1, CellsAre, ScrParts, Sizes
  <2>3. PICK d : d = Written(b, at - 1, Blank)
    OBVIOUS
  <2>4. d \in [Cells -> Glyphs] /\ \A p \in Cells : d[p] = IF p = at - 1 THEN Blank ELSE b[p]
    BY <1>4, <2>3 DEF Written, Glyphs
  <2>5. PICK t : t = Scr(d, r, c - 1)
    OBVIOUS
  <2>6. Put(s, "backspace") = t
    BY <1>4, <1>6, <2>1, <2>3, <2>5, PutAt
  <2>7. t \in Screens(Glyphs) /\ t.cells = d /\ t.col = c - 1 /\ Position(t) = r * Width + (c - 1)
    BY <1>4, <2>2, <2>4, <2>5, ScreenOf, ScrParts
  <2>8. Position(t) = at - 1
    BY <1>4, <2>1, <2>7, CellsAre, Sizes
  <2>9. BlankFrom(d, at - 1)
    <3> SUFFICES ASSUME NEW p \in Cells, p >= at - 1 PROVE d[p] \in {Blank, Box}
      BY DEF BlankFrom
    <3>1. p # at - 1 => p >= at
      BY <2>2, CellsAre
    <3> QED
      BY <1>1, <2>2, <2>4, <3>1 DEF Blanks, BlankFrom
  <2>10. ASSUME Shows(s, text, n + 1) PROVE ShownTo(d, at - 1, text, n)
    <3> SUFFICES ASSUME NEW i \in 1 .. n, at - 1 - n + i - 1 \in Cells
                 PROVE  d[at - 1 - n + i - 1] = text[i]
      BY DEF ShownTo
    <3>1. i \in 1 .. n + 1 /\ at - 1 - n + i - 1 = at - (n + 1) + i - 1
          /\ at - 1 - n + i - 1 # at - 1
      BY <2>2
    <3>2. b[at - (n + 1) + i - 1] = text[i]
      BY <1>1, <2>2, <2>10, <3>1 DEF Shows, ShownTo
    <3> QED
      BY <2>4, <3>1, <3>2
  <2> QED
    BY <1>3, <2>6, <2>7, <2>8, <2>9, <2>10 DEF Blanks, Shows
<1> QED
  BY <1>5, <1>6

-----------------------------------------------------------------------------
(* A string is put one character after the other.                            *)

(* What holds at 0 and is carried from each position to the next holds at     *)
(* every position of a string.                                               *)
LEMMA StepsReach ==
    ASSUME NEW n \in Nat, NEW S, 0 \in S, \A k \in 1 .. n : k - 1 \in S => k \in S
    PROVE  \A k \in 0 .. n : k \in S
<1>1. PICK D : D = {k \in 0 .. n : k \notin S}
  OBVIOUS
<1>2. ASSUME D # {} PROVE FALSE
  <2>1. D \in SUBSET Nat
    BY <1>1
  <2>2. PICK m : m \in D /\ \A y \in D : m <= y
    BY <1>2, <2>1, MinIsLeast
  <2>3. m \in 1 .. n /\ m \notin S
    BY <1>1, <2>2
  <2>4. m - 1 \in 0 .. n /\ m - 1 \notin D
    BY <2>1, <2>2, <2>3
  <2> QED
    BY <1>1, <2>3, <2>4
<1> QED
  BY <1>1, <1>2

(* The recursive function in PutAll exists.                                  *)
LEMMA PutAllSteps ==
    ASSUME NEW s, NEW chars, Len(chars) \in Nat
    PROVE  \E after :
              /\ after[0] = s /\ PutAll(s, chars) = after[Len(chars)]
              /\ \A k \in 1 .. Len(chars) : after[k] = Put(after[k - 1], chars[k])
<1>1. PICK n : n = Len(chars)
  OBVIOUS
<1> DEFINE Body(f, m) == [k \in 0 .. m |-> IF k = 0 THEN s ELSE Put(f[k - 1], chars[k])]
           S == {m \in 0 .. n : \E f : f = Body(f, m)}
<1>2. 0 \in S
  <2>1. PICK f : f = [k \in 0 .. 0 |-> s]
    OBVIOUS
  <2>2. Body(f, 0) = f
    BY <2>1
  <2> QED
    BY <1>1, <2>2
<1>3. ASSUME NEW m \in 1 .. n, m - 1 \in S PROVE m \in S
  <2>1. PICK f : f = Body(f, m - 1)
    BY <1>3
  <2>2. PICK g : g = [k \in 0 .. m |-> IF k = m THEN Put(f[m - 1], chars[m]) ELSE f[k]]
    OBVIOUS
  <2>3. \A k \in 0 .. m - 1 : f[k] = IF k = 0 THEN s ELSE Put(f[k - 1], chars[k])
    BY <2>1
  <2>4. ASSUME NEW k \in 0 .. m PROVE g[k] = IF k = 0 THEN s ELSE Put(g[k - 1], chars[k])
    <3>1. CASE k = m
      BY <1>1, <2>2, <3>1
    <3>2. CASE k # m
      <4>1. k \in 0 .. m - 1 /\ g[k] = f[k]
        BY <1>1, <2>2, <3>2
      <4>2. k # 0 => k - 1 \in 0 .. m /\ k - 1 # m /\ g[k - 1] = f[k - 1]
        BY <1>1, <2>2, <4>1
      <4> QED
        BY <2>3, <4>1, <4>2
    <3> QED
      BY <3>1, <3>2
  <2>5. g = Body(g, m)
    BY <2>2, <2>4
  <2> QED
    BY <2>5
<1>4. n \in S
  <2>1. n \in Nat /\ n \in 0 .. n
    BY <1>1
  <2> HIDE DEF S
  <2> QED
    BY <1>2, <1>3, <2>1, StepsReach
<1>5. \E f : f = Body(f, n)
  BY <1>4
<1>6. PICK after : after = CHOOSE f : f = Body(f, n)
  OBVIOUS
<1>7. after = Body(after, n)
  BY <1>5, <1>6
<1>8. PutAll(s, chars) = after[n]
  BY <1>1, <1>6 DEF PutAll
<1>9. after[0] = s /\ \A k \in 1 .. n : after[k] = Put(after[k - 1], chars[k])
  BY <1>1, <1>7
<1> QED
  BY <1>1, <1>8, <1>9

LEMMA PutShows ==
    ASSUME NEW s \in Screens(Glyphs), Blanks(s), NEW x \in Glyphs \cup {"newline", "backspace"}
    PROVE  Put(s, x) \in Screens(Glyphs) /\ Blanks(Put(s, x))
<1>1. 0 \in Nat
  OBVIOUS
<1>2. PICK text : text = <<>>
  OBVIOUS
<1> QED
  BY <1>1, <1>2, GlyphShows, NewlineShows, BackspaceShows

(* Whatever is printed, the cells after the cursor are blank.                *)
LEMMA AllShows ==
    ASSUME NEW s \in Screens(Glyphs), Blanks(s), NEW chars, Len(chars) \in Nat,
           \A k \in 1 .. Len(chars) : chars[k] \in Glyphs \cup {"newline", "backspace"}
    PROVE  PutAll(s, chars) \in Screens(Glyphs) /\ Blanks(PutAll(s, chars))
<1>1. PICK n : n = Len(chars)
  OBVIOUS
<1>2. PICK after : /\ after[0] = s /\ PutAll(s, chars) = after[n]
                   /\ \A k \in 1 .. n : after[k] = Put(after[k - 1], chars[k])
  <2>2. \E after : /\ after[0] = s /\ PutAll(s, chars) = after[Len(chars)]
                   /\ \A k \in 1 .. Len(chars) : after[k] = Put(after[k - 1], chars[k])
    BY PutAllSteps
  <2> QED
    BY <1>1, <2>2
<1> DEFINE S == {k \in 0 .. n : after[k] \in Screens(Glyphs) /\ Blanks(after[k])}
<1>3. 0 \in S
  BY <1>1, <1>2
<1>4. ASSUME NEW k \in 1 .. n, k - 1 \in S PROVE k \in S
  <2>1. after[k] = Put(after[k - 1], chars[k]) /\ chars[k] \in Glyphs \cup {"newline", "backspace"}
    BY <1>1, <1>2
  <2>2. after[k - 1] \in Screens(Glyphs) /\ Blanks(after[k - 1])
    BY <1>4
  <2>3. after[k] \in Screens(Glyphs) /\ Blanks(after[k])
    BY <2>1, <2>2, PutShows
  <2>4. k \in 0 .. n
    BY <1>1
  <2> QED
    BY <2>3, <2>4
<1>5. n \in S
  <2>1. n \in Nat /\ n \in 0 .. n
    BY <1>1
  <2> HIDE DEF S
  <2> QED
    BY <1>3, <1>4, <2>1, StepsReach
<1> QED
  BY <1>2, <1>5

(* A string of printable characters continues the text before the cursor.     *)
LEMMA StringShows ==
    ASSUME NEW s \in Screens(Glyphs), Blanks(s), NEW chars, Len(chars) \in Nat,
           NEW text, NEW m \in Nat, Shows(s, text, m),
           \A k \in 1 .. Len(chars) : chars[k] \in Glyphs /\ text[m + k] = chars[k]
    PROVE  Shows(PutAll(s, chars), text, m + Len(chars))
<1>1. PICK n : n = Len(chars)
  OBVIOUS
<1>2. PICK after : /\ after[0] = s /\ PutAll(s, chars) = after[n]
                   /\ \A k \in 1 .. n : after[k] = Put(after[k - 1], chars[k])
  <2>2. \E after : /\ after[0] = s /\ PutAll(s, chars) = after[Len(chars)]
                   /\ \A k \in 1 .. Len(chars) : after[k] = Put(after[k - 1], chars[k])
    BY PutAllSteps
  <2> QED
    BY <1>1, <2>2
<1> DEFINE S == {k \in 0 .. n : /\ after[k] \in Screens(Glyphs) /\ Blanks(after[k])
                                /\ Shows(after[k], text, m + k)}
<1>3. 0 \in S
  <2>1. m + 0 = m /\ 0 \in 0 .. n
    BY <1>1
  <2> QED
    BY <1>2, <2>1
<1>4. ASSUME NEW k \in 1 .. n, k - 1 \in S PROVE k \in S
  <2>1. after[k] = Put(after[k - 1], chars[k]) /\ chars[k] \in Glyphs /\ text[m + k] = chars[k]
    BY <1>1, <1>2
  <2>2. after[k - 1] \in Screens(Glyphs) /\ Blanks(after[k - 1])
        /\ Shows(after[k - 1], text, m + (k - 1))
    BY <1>4
  <2>3. m + (k - 1) \in Nat /\ m + (k - 1) + 1 = m + k /\ k \in 0 .. n
    BY <1>1
  <2>4. after[k] \in Screens(Glyphs) /\ Blanks(after[k]) /\ Shows(after[k], text, m + k)
    BY <2>1, <2>2, <2>3, GlyphShows
  <2> QED
    BY <2>3, <2>4
<1>5. n \in S
  <2>1. n \in Nat /\ n \in 0 .. n
    BY <1>1
  <2> HIDE DEF S
  <2> QED
    BY <1>3, <1>4, <2>1, StepsReach
<1> QED
  BY <1>1, <1>2, <1>5

(* As many backspaces as the line has characters leave what was before it, if *)
(* none of them meets the margin.                                            *)
LEMMA ErasedShows ==
    ASSUME NEW s \in Screens(Glyphs), Blanks(s), NEW n \in Nat
    PROVE  /\ PutAll(s, Backspaces(n)) \in Screens(Glyphs) /\ Blanks(PutAll(s, Backspaces(n)))
           /\ \A text : \A m \in Nat :
                 s.col >= n /\ Shows(s, text, m + n) => Shows(PutAll(s, Backspaces(n)), text, m)
<1>1. PICK chars : chars = Backspaces(n)
  OBVIOUS
<1>2. Len(chars) = n /\ \A k \in 1 .. n : chars[k] = "backspace"
  BY <1>1 DEF Backspaces
<1>3. PutAll(s, chars) \in Screens(Glyphs) /\ Blanks(PutAll(s, chars))
  BY <1>2, AllShows
<1>4. ASSUME NEW text, NEW m \in Nat, s.col >= n, Shows(s, text, m + n)
      PROVE  Shows(PutAll(s, chars), text, m)
  <2>1. PICK after : /\ after[0] = s /\ PutAll(s, chars) = after[n]
                     /\ \A k \in 1 .. n : after[k] = Put(after[k - 1], chars[k])
    <3>1. Len(chars) \in Nat
      BY <1>2
    <3>2. \E after : /\ after[0] = s /\ PutAll(s, chars) = after[Len(chars)]
                     /\ \A k \in 1 .. Len(chars) : after[k] = Put(after[k - 1], chars[k])
      BY <3>1, PutAllSteps
    <3>3. Len(chars) = n
      BY <1>2
    <3> QED
      BY <3>2, <3>3, Zenon
  <2>2. s.col \in Nat
    BY ScreenOf, Sizes
  <2> DEFINE S == {k \in 0 .. n : /\ after[k] \in Screens(Glyphs) /\ Blanks(after[k])
                                  /\ after[k].col = s.col - k
                                  /\ Shows(after[k], text, m + n - k)}
  <2>3. 0 \in S
    <3>1. m + n - 0 = m + n /\ s.col - 0 = s.col /\ 0 \in 0 .. n
      BY <2>2
    <3> QED
      BY <1>4, <2>1, <3>1
  <2>4. ASSUME NEW k \in 1 .. n, k - 1 \in S PROVE k \in S
    <3>1. after[k] = Put(after[k - 1], "backspace")
      BY <1>2, <2>1
    <3>2. /\ after[k - 1] \in Screens(Glyphs) /\ Blanks(after[k - 1])
          /\ after[k - 1].col = s.col - (k - 1)
          /\ Shows(after[k - 1], text, m + n - (k - 1))
      BY <2>4
    <3>3. /\ m + n - (k - 1) = (m + n - k) + 1 /\ m + n - k \in Nat /\ k \in 0 .. n
          /\ s.col - (k - 1) > 0 /\ s.col - (k - 1) - 1 = s.col - k
      BY <1>4, <2>2
    <3>4. after[k] \in Screens(Glyphs) /\ Blanks(after[k]) /\ after[k].col = s.col - k
          /\ Shows(after[k], text, m + n - k)
      BY <3>1, <3>2, <3>3, BackspaceShows
    <3> QED
      BY <3>3, <3>4
  <2>5. n \in S
    <3>1. n \in 0 .. n
      OBVIOUS
    <3> HIDE DEF S
    <3> QED
      BY <2>3, <2>4, <3>1, StepsReach
  <2>6. m + n - n = m
    OBVIOUS
  <2> QED
    BY <2>1, <2>5, <2>6
<1> QED
  BY <1>1, <1>3, <1>4

-----------------------------------------------------------------------------
(* The line on the screen.                                                   *)

\* the prompt and what the line looks like
Text == [i \in 1 .. cmd_len + 1 |-> IF i = 1 THEN Prompt ELSE Echo(line[i - 1])]

Edited == stage \in Reading /\ ~astray

ScreenInv ==
    /\ screen \in Screens(Glyphs) /\ Blanks(screen)
    /\ Edited => Shows(screen, Text, cmd_len + 1)

LEMMA SameText ==
    ASSUME NEW s, NEW t, NEW u, NEW n, \A i \in 1 .. n : t[i] = u[i], Shows(s, t, n)
    PROVE  Shows(s, u, n)
BY DEF Shows, ShownTo

LEMMA ClearedShows == Cleared \in Screens(Glyphs) /\ Blanks(Cleared)
<1>1. PICK b : b = [i \in Cells |-> Blank]
  OBVIOUS
<1>2. b \in [Cells -> Glyphs] /\ \A p \in Cells : b[p] = Blank
  BY <1>1 DEF Glyphs
<1>3. Cleared = Scr(b, 0, 0)
  BY <1>1 DEF Cleared, Scr
<1>4. 0 \in 0 .. Height - 1 /\ 0 \in 0 .. Width - 1
  BY Sizes
<1> QED
  BY <1>2, <1>3, <1>4, ScreenOf, ScrParts DEF Blanks, BlankFrom

LEMMA BoxedShows == Boxed \in Screens(Glyphs) /\ Blanks(Boxed)
<1>1. PICK b : b = [i \in Cells |-> IF i \in Boxes THEN Box ELSE Blank]
  OBVIOUS
<1>2. b \in [Cells -> Glyphs] /\ \A p \in Cells : b[p] \in {Blank, Box}
  BY <1>1 DEF Glyphs
<1>3. Boxed = Scr(b, 0, 0)
  BY <1>1 DEF Boxed, Cleared, Scr
<1>4. 0 \in 0 .. Height - 1 /\ 0 \in 0 .. Width - 1
  BY Sizes
<1> QED
  BY <1>2, <1>3, <1>4, ScreenOf, ScrParts DEF Blanks, BlankFrom

\* the prompt alone
LEMMA PromptShows ==
    ASSUME NEW s \in Screens(Glyphs), Blanks(s), NEW text, text[1] = Prompt
    PROVE  Put(s, Prompt) \in Screens(Glyphs) /\ Blanks(Put(s, Prompt)) /\ Shows(Put(s, Prompt), text, 1)
<1>1. Prompt \in Glyphs /\ 0 \in Nat /\ text[0 + 1] = Prompt /\ 0 + 1 = 1
  BY DEF Glyphs
<1>2. Shows(s, text, 0)
  BY DEF Shows, ShownTo
<1> QED
  BY <1>1, <1>2, GlyphShows

LEMMA TextOf ==
    ASSUME LineInv
    PROVE  /\ cmd_len \in Nat /\ Text[1] = Prompt
           /\ \A i \in 1 .. cmd_len : Text[i + 1] = Echo(line[i]) /\ line[i] \in LineChars
           /\ \A i \in 1 .. cmd_len : Echo(line[i]) \in Glyphs
<1>1. line \in Seq(LineChars) /\ cmd_len = Len(line) /\ cmd_len \in Nat
  BY LineParts, LenProperties DEF Shorter, cmd_len
<1>2. Text[1] = Prompt
  BY <1>1 DEF Text
<1>3. ASSUME NEW i \in 1 .. cmd_len PROVE Text[i + 1] = Echo(line[i]) /\ line[i] \in LineChars
  <2>1. i + 1 \in 1 .. cmd_len + 1 /\ i + 1 # 1 /\ i + 1 - 1 = i
    BY <1>1
  <2>2. line[i] \in LineChars
    BY <1>1, ElementOfSeq
  <2> QED
    BY <2>1, <2>2 DEF Text
<1>4. \A c \in LineChars : Echo(c) \in Glyphs
  BY DEF Echo, LineChars, Glyphs, Space
<1> QED
  BY <1>1, <1>2, <1>3, <1>4

\* the same of the next state
LEMMA TextAfter ==
    ASSUME LineInv'
    PROVE  /\ cmd_len' \in Nat /\ Text'[1] = Prompt
           /\ \A i \in 1 .. cmd_len' : Text'[i + 1] = Echo(line[i])' /\ line'[i] \in LineChars
           /\ \A i \in 1 .. cmd_len' : Echo(line[i])' \in Glyphs
<1>1. line' \in Seq(LineChars) /\ cmd_len' = Len(line') /\ cmd_len' \in Nat
  BY LenProperties DEF LineInv, Shorter, cmd_len
<1>2. Text'[1] = Prompt
  BY <1>1 DEF Text
<1>3. ASSUME NEW i \in 1 .. cmd_len' PROVE Text'[i + 1] = Echo(line[i])' /\ line'[i] \in LineChars
  <2>1. i + 1 \in 1 .. cmd_len' + 1 /\ i + 1 # 1 /\ i + 1 - 1 = i
    BY <1>1
  <2>2. line'[i] \in LineChars
    BY <1>1, ElementOfSeq
  <2> QED
    BY <2>1, <2>2 DEF Text
<1>4. ASSUME NEW i \in 1 .. cmd_len' PROVE Echo(line[i])' \in Glyphs
  BY <1>3 DEF Echo, LineChars, Glyphs, Space
<1> QED
  BY <1>1, <1>2, <1>3, <1>4

(* A prompt on any screen that has blanks and boxes only after the cursor.    *)
LEMMA AskShows ==
    ASSUME LineInv', NEW s \in Screens(Glyphs), Blanks(s), NEW next, Ask(s, next)
    PROVE  ScreenInv'
<1>1. screen' = Put(s, Prompt) /\ line' = <<>>
  BY DEF Ask
<1>2. cmd_len' + 1 = 1 /\ Text'[1] = Prompt
  BY <1>1, NoLine, TextAfter DEF cmd_len
<1>3. PICK text : text = Text'
  OBVIOUS
<1>4. screen' \in Screens(Glyphs) /\ Blanks(screen') /\ Shows(screen', text, 1)
  BY <1>1, <1>2, <1>3, PromptShows
<1>5. Shows(screen, Text, cmd_len + 1)'
  BY <1>2, <1>3, <1>4 DEF Shows
<1>6. Blanks(screen)'
  BY <1>4 DEF Blanks
<1> QED
  BY <1>4, <1>5, <1>6 DEF ScreenInv

LEMMA ScreenStarts == Init => ScreenInv
<1> SUFFICES ASSUME Init PROVE ScreenInv
  OBVIOUS
<1>1. screen = Put(Cleared, Prompt) /\ line = <<>>
  BY DEF Init
<1>2. cmd_len + 1 = 1 /\ Text[1] = Prompt
  BY <1>1, NoLine, LineStarts, TextOf DEF cmd_len
<1>3. screen \in Screens(Glyphs) /\ Blanks(screen) /\ Shows(screen, Text, 1)
  BY <1>1, <1>2, ClearedShows, PromptShows
<1> QED
  BY <1>2, <1>3 DEF ScreenInv

LEMMA ScreenTyped ==
    ASSUME LineInv, LineInv', ScreenInv, NEW c \in Letters \cup {Space}, Type(c)
    PROVE  ScreenInv'
<1>1. /\ stage' = stage /\ astray' = astray /\ line' = Append(line, c)
      /\ screen' = Put(screen, Echo(c))
  BY DEF Type, Typing
<1>2. line \in Seq(LineChars) /\ cmd_len = Len(line) /\ c \in LineChars
  BY LineParts DEF Shorter, cmd_len, LineChars
<1>3. /\ cmd_len' = cmd_len + 1 /\ line'[cmd_len + 1] = c /\ cmd_len \in Nat
      /\ \A i \in 1 .. cmd_len : line'[i] = line[i]
  BY <1>1, <1>2, AppendProperties, LenProperties DEF cmd_len
<1>5. Echo(c) \in Glyphs
  BY <1>2 DEF Echo, LineChars, Glyphs, Space
<1>6. PICK text : text = Text'
  OBVIOUS
<1>7. \A i \in 1 .. cmd_len + 1 : text[i] = Text[i]
  <2> SUFFICES ASSUME NEW i \in 1 .. cmd_len + 1 PROVE text[i] = Text[i]
    OBVIOUS
  <2>1. i \in 1 .. cmd_len' + 1 /\ (i # 1 => i - 1 \in 1 .. cmd_len)
    BY <1>3
  <2>2. text[i] = IF i = 1 THEN Prompt ELSE Echo(line[i - 1])'
    BY <1>6, <2>1 DEF Text
  <2>3. Text[i] = IF i = 1 THEN Prompt ELSE Echo(line[i - 1])
    BY DEF Text
  <2>4. i # 1 => Echo(line[i - 1])' = Echo(line[i - 1])
    BY <1>1, <1>3, <2>1 DEF Echo
  <2> QED
    BY <2>2, <2>3, <2>4
<1>8. text[cmd_len + 1 + 1] = Echo(c)
  <2>1. PICK k : k = cmd_len + 1
    OBVIOUS
  <2>2. k \in 1 .. cmd_len' /\ line'[k] = c
    BY <1>3, <2>1
  <2>3. text[k + 1] = Echo(line[k])'
    BY <1>6, <2>2, TextAfter
  <2>4. Echo(line[k])' = Echo(c)
    BY <1>1, <2>2 DEF Echo
  <2> QED
    BY <2>1, <2>3, <2>4
<1>9. screen \in Screens(Glyphs) /\ Blanks(screen) /\ (Edited => Shows(screen, Text, cmd_len + 1))
  BY DEF ScreenInv
<1>10. /\ screen' \in Screens(Glyphs) /\ Blanks(screen')
       /\ Edited => Shows(screen', text, cmd_len + 1 + 1)
  <2>1. cmd_len + 1 \in Nat
    BY <1>3
  <2>2. Edited => Shows(screen, text, cmd_len + 1)
    BY <1>7, <1>9, SameText
  <2> QED
    BY <1>1, <1>5, <1>8, <1>9, <2>1, <2>2, GlyphShows
<1>11. Edited' = Edited
  BY <1>1 DEF Edited
<1>12. Edited' => Shows(screen, Text, cmd_len + 1)'
  BY <1>3, <1>6, <1>10, <1>11 DEF Shows
<1> QED
  BY <1>10, <1>12 DEF ScreenInv, Blanks

LEMMA ScreenBackspaced ==
    ASSUME LineInv, LineInv', ScreenInv, Backspace
    PROVE  ScreenInv'
<1>1. /\ stage' = stage /\ astray' = (astray \/ Stuck(1)) /\ line' = Front(line) /\ cmd_len > 0
      /\ screen' = Put(screen, "backspace")
  BY DEF Backspace, Typing
<1>2. cmd_len' = cmd_len - 1 /\ cmd_len \in Nat
  BY <1>1, LineShrinks, TextOf
<1>3. \A i \in 1 .. cmd_len' : line'[i] = line[i]
  <2>1. line \in Seq(LineChars) /\ Len(line) = cmd_len
    BY LineParts DEF Shorter, cmd_len
  <2>2. cmd_len - 1 \in Nat /\ cmd_len - 1 <= Len(line) /\ line' = SubSeq(line, 1, cmd_len - 1)
    BY <1>1, <1>2, <2>1 DEF Front
  <2>3. \A i \in 1 .. Len(line') : line'[i] = line[1 + i - 1]
    BY <2>1, <2>2, PartOf
  <2>4. ASSUME NEW i \in 1 .. cmd_len' PROVE line'[i] = line[i]
    <3>1. i \in 1 .. Len(line') /\ 1 + i - 1 = i
      BY <1>2 DEF cmd_len
    <3> QED
      BY <2>3, <3>1
  <2> QED
    BY <2>4
<1>4. PICK text : text = Text'
  OBVIOUS
<1>5. \A i \in 1 .. cmd_len : Text[i] = text[i]
  <2> SUFFICES ASSUME NEW i \in 1 .. cmd_len PROVE Text[i] = text[i]
    OBVIOUS
  <2>1. i \in 1 .. cmd_len' + 1 /\ i \in 1 .. cmd_len + 1 /\ (i # 1 => i - 1 \in 1 .. cmd_len')
    BY <1>2
  <2>2. text[i] = IF i = 1 THEN Prompt ELSE Echo(line[i - 1])'
    BY <1>4, <2>1 DEF Text
  <2>3. Text[i] = IF i = 1 THEN Prompt ELSE Echo(line[i - 1])
    BY <2>1 DEF Text
  <2>4. i # 1 => Echo(line[i - 1])' = Echo(line[i - 1])
    BY <1>1, <1>3, <2>1 DEF Echo
  <2> QED
    BY <2>2, <2>3, <2>4
<1>6. screen \in Screens(Glyphs) /\ Blanks(screen) /\ (Edited => Shows(screen, Text, cmd_len + 1))
  BY DEF ScreenInv
<1>7. Edited' => Edited /\ screen.col > 0
  <2>1. screen.col \in Nat
    BY <1>6, ScreenOf, Sizes
  <2>2. ~Stuck(1) => screen.col > 0
    BY <2>1 DEF Stuck
  <2>3. Edited' => Edited /\ ~Stuck(1)
    BY <1>1, Zenon DEF Edited
  <2> QED
    BY <2>2, <2>3
<1>8. screen' \in Screens(Glyphs) /\ Blanks(screen') /\ (Edited' => Shows(screen', Text, cmd_len))
  BY <1>1, <1>2, <1>6, <1>7, BackspaceShows
<1>9. Edited' => Shows(screen', text, cmd_len)
  BY <1>5, <1>8, SameText
<1>10. cmd_len' + 1 = cmd_len
  BY <1>2
<1>11. Edited' => Shows(screen, Text, cmd_len + 1)'
  BY <1>4, <1>9, <1>10 DEF Shows
<1> QED
  BY <1>8, <1>11 DEF ScreenInv, Blanks

\* the line taken off the screen again, up to the prompt
LEMMA WithoutLineShows ==
    ASSUME LineInv, ScreenInv, NEW text, text[1] = Prompt
    PROVE  /\ WithoutLine \in Screens(Glyphs) /\ Blanks(WithoutLine)
           /\ Edited /\ ~Stuck(cmd_len) => Shows(WithoutLine, text, 1)
<1>1. screen \in Screens(Glyphs) /\ Blanks(screen) /\ (Edited => Shows(screen, Text, cmd_len + 1))
  BY DEF ScreenInv
<1>2. cmd_len \in Nat /\ Text[1] = Prompt
  BY TextOf
<1>3. WithoutLine = PutAll(screen, Backspaces(cmd_len))
  BY DEF WithoutLine, Erased
<1>4. WithoutLine \in Screens(Glyphs) /\ Blanks(WithoutLine)
  BY <1>1, <1>2, <1>3, ErasedShows
<1>5. ASSUME Edited, ~Stuck(cmd_len) PROVE Shows(WithoutLine, text, 1)
  <2>1. screen.col >= cmd_len
    <3>1. screen.col \in Nat
      BY <1>1, ScreenOf, Sizes
    <3> QED
      BY <1>2, <1>5, <3>1 DEF Stuck
  <2>2. 1 \in Nat /\ 1 + cmd_len = cmd_len + 1
    BY <1>2
  <2>3. Shows(WithoutLine, Text, 1)
    BY <1>1, <1>2, <1>3, <1>5, <2>1, <2>2, ErasedShows
  <2>4. \A i \in 1 .. 1 : Text[i] = text[i]
    BY <1>2
  <2> QED
    BY <2>3, <2>4, SameText
<1> QED
  BY <1>4, <1>5

(* Up and Down put another line in the place of this one.                    *)
LEMMA ScreenRecalled ==
    ASSUME LineInv, LineInv', ScreenInv, stage = "key", Typing, NEW pos, Show(pos)
    PROVE  ScreenInv'
<1>1. /\ stage' = "key" /\ astray' = (astray \/ Stuck(cmd_len))
      /\ screen' = PutAll(WithoutLine, line')
  BY DEF Show, Typing
<1>2. PICK text : text = Text'
  OBVIOUS
<1>3. /\ cmd_len' = Len(line') /\ cmd_len' \in Nat /\ text[1] = Prompt
      /\ \A i \in 1 .. cmd_len' : text[i + 1] = line'[i] /\ line'[i] \in Glyphs
  <2>2. ASSUME NEW i \in 1 .. cmd_len' PROVE text[i + 1] = line'[i] /\ line'[i] \in Glyphs
    <3>1. text[i + 1] = Echo(line[i])' /\ Echo(line[i])' \in Glyphs
      BY <1>2, TextAfter
    <3>2. Echo(line[i])' = line'[i]
      BY <1>1 DEF Echo
    <3> QED
      BY <3>1, <3>2
  <2> QED
    BY <1>2, <2>2, TextAfter DEF cmd_len
<1>4. PICK chars : chars = line'
  OBVIOUS
<1>5. /\ WithoutLine \in Screens(Glyphs) /\ Blanks(WithoutLine)
      /\ Edited /\ ~Stuck(cmd_len) => Shows(WithoutLine, text, 1)
  BY <1>3, WithoutLineShows
<1>6. /\ Len(chars) \in Nat
      /\ \A k \in 1 .. Len(chars) : chars[k] \in Glyphs /\ text[1 + k] = chars[k]
  <2> SUFFICES ASSUME NEW k \in 1 .. Len(chars) PROVE chars[k] \in Glyphs /\ text[1 + k] = chars[k]
    BY <1>3, <1>4
  <2>1. 1 + k = k + 1 /\ k \in 1 .. cmd_len'
    BY <1>3, <1>4
  <2> QED
    BY <1>3, <1>4, <2>1
<1>7. screen' \in Screens(Glyphs) /\ Blanks(screen')
  BY <1>1, <1>4, <1>5, <1>6, AllShows
<1>8. Edited' => Shows(screen', text, 1 + Len(chars))
  <2>1. Edited' => Edited /\ ~Stuck(cmd_len)
    BY <1>1 DEF Edited, Reading
  <2>2. 1 \in Nat
    OBVIOUS
  <2> QED
    BY <1>1, <1>4, <1>5, <1>6, <2>1, <2>2, StringShows
<1>9. Edited' => Shows(screen, Text, cmd_len + 1)'
  <2>1. 1 + Len(chars) = cmd_len' + 1
    BY <1>3, <1>4
  <2> QED
    BY <1>2, <1>8, <2>1 DEF Shows
<1> QED
  BY <1>7, <1>9 DEF ScreenInv, Blanks

LEMMA ScreenMoved == ASSUME LineInv, LineInv', ScreenInv, Up \/ Down PROVE ScreenInv'
<1>1. stage = "key" /\ Typing
  BY DEF Up, Down
<1>2. CASE \E pos : Show(pos)
  BY <1>1, <1>2, ScreenRecalled
<1>3. CASE ~\E pos : Show(pos)
  <2>1. astray' = (astray \/ Stuck(cmd_len)) /\ line' = <<>> /\ screen' = WithoutLine
    BY <1>3 DEF Up, Down
  <2>2. PICK text : text = Text'
    OBVIOUS
  <2>3. text[1] = Prompt
    BY <2>2, TextAfter
  <2>4. /\ screen' \in Screens(Glyphs) /\ Blanks(screen')
        /\ Edited /\ ~Stuck(cmd_len) => Shows(screen', text, 1)
    BY <2>1, <2>3, WithoutLineShows
  <2>5. Edited' => Edited /\ ~Stuck(cmd_len)
    <3>1. stage \in Reading
      BY <1>1 DEF Reading
    <3> QED
      BY <2>1, <3>1, Zenon DEF Edited
  <2>6. cmd_len' + 1 = 1
    BY <2>1, NoLine DEF cmd_len
  <2>7. Edited' => Shows(screen, Text, cmd_len + 1)'
    BY <2>2, <2>4, <2>5, <2>6 DEF Shows
  <2> QED
    BY <2>4, <2>7 DEF ScreenInv, Blanks
<1> QED
  BY <1>2, <1>3

\* what the login and the commands print
LEMMA StringsPrinted ==
    /\ \A x : x \in {<<"newline", Output, "newline">>, <<"newline", Output, "newline", "newline">>,
                     <<Output, "newline">>, <<>>} =>
          /\ Len(x) \in Nat
          /\ \A k \in 1 .. Len(x) : x[k] \in Glyphs \cup {"newline", "backspace"}
<1>1. Output \in Glyphs
  BY DEF Glyphs
<1>2. PICK C : C = Glyphs \cup {"newline", "backspace"}
  OBVIOUS
<1>3. ASSUME NEW x \in Seq(C) PROVE Len(x) \in Nat /\ \A k \in 1 .. Len(x) : x[k] \in C
  BY ElementOfSeq, LenProperties
<1>4. /\ <<"newline", Output, "newline">> \in Seq(C)
      /\ <<"newline", Output, "newline", "newline">> \in Seq(C)
      /\ <<Output, "newline">> \in Seq(C) /\ <<>> \in Seq(C)
  BY <1>1, <1>2
<1> QED
  BY <1>2, <1>3, <1>4

LEMMA ScreenAsked == ASSUME LineInv', ScreenInv, EnterUser \/ EnterPassword PROVE ScreenInv'
<1>1. screen \in Screens(Glyphs) /\ Blanks(screen)
  BY DEF ScreenInv
<1>2. Put(screen, "newline") \in Screens(Glyphs) /\ Blanks(Put(screen, "newline"))
  BY <1>1, NewlineShows
<1>3. CASE EnterUser
  BY <1>2, <1>3, AskShows DEF EnterUser
<1>4. CASE EnterPassword
  <2>1. CASE <<user, line>> \in Accounts
    <3>1. Ask(PutAll(Cleared, Greeting), "key")
      BY <1>4, <2>1 DEF EnterPassword
    <3>2. PutAll(Cleared, Greeting) \in Screens(Glyphs) /\ Blanks(PutAll(Cleared, Greeting))
      BY ClearedShows, StringsPrinted, AllShows DEF Greeting
    <3> QED
      BY <3>1, <3>2, AskShows
  <2>2. CASE <<user, line>> \notin Accounts
    <3>1. PICK chars : chars = Refusal \o Hint \o <<"newline">>
      OBVIOUS
    <3>2. Ask(PutAll(Put(screen, "newline"), chars), "user")
      BY <1>4, <2>2, <3>1 DEF EnterPassword
    <3>3. PICK C : C = Glyphs \cup {"newline", "backspace"}
      OBVIOUS
    <3>4. Len(chars) \in Nat /\ \A k \in 1 .. Len(chars) : chars[k] \in C
      <4>1. Output \in C /\ "newline" \in C
        BY <3>3 DEF Glyphs
      <4>2. Refusal \in Seq(C) /\ Hint \in Seq(C) /\ <<"newline">> \in Seq(C)
        BY <4>1 DEF Refusal, Hint
      <4>3. chars \in Seq(C)
        BY <3>1, <4>2, ConcatProperties
      <4> QED
        BY <4>3, ElementOfSeq, LenProperties
    <3>5. /\ PutAll(Put(screen, "newline"), chars) \in Screens(Glyphs)
          /\ Blanks(PutAll(Put(screen, "newline"), chars))
      BY <1>2, <3>3, <3>4, AllShows
    <3> QED
      BY <3>2, <3>5, AskShows
  <2> QED
    BY <2>1, <2>2
<1> QED
  BY <1>3, <1>4

LEMMA ScreenEntered == ASSUME LineInv', ScreenInv, Enter PROVE ScreenInv'
<1>1. Put(screen, "newline") \in Screens(Glyphs) /\ Blanks(Put(screen, "newline"))
  BY NewlineShows DEF ScreenInv
<1>2. CASE cmd_len > 0
  <2>1. screen' = Put(screen, "newline") /\ stage' = "split"
    BY <1>2 DEF Enter
  <2>2. ~Edited'
    BY <2>1 DEF Edited, Reading
  <2> QED
    BY <1>1, <2>1, <2>2 DEF ScreenInv, Blanks
<1>3. CASE ~(cmd_len > 0)
  BY <1>1, <1>3, AskShows DEF Enter
<1> QED
  BY <1>2, <1>3

LEMMA ScreenRest == ASSUME LineInv', ScreenInv, TaskPrints \/ Split \/ Run PROVE ScreenInv'
<1>1. screen \in Screens(Glyphs) /\ Blanks(screen)
  BY DEF ScreenInv
<1>2. PutAll(screen, <<"newline", Output, "newline">>) \in Screens(Glyphs)
      /\ Blanks(PutAll(screen, <<"newline", Output, "newline">>))
  BY <1>1, StringsPrinted, AllShows
<1>3. CASE TaskPrints
  <2>1. screen' = PutAll(screen, <<"newline", Output, "newline">>) /\ astray' = TRUE
    BY <1>3 DEF TaskPrints
  <2>2. ~Edited'
    BY <2>1 DEF Edited
  <2> QED
    BY <1>2, <2>1, <2>2 DEF ScreenInv, Blanks
<1>4. CASE Split
  <2>1. screen' = screen /\ stage' \in {"split", "run"}
    BY <1>4 DEF Split
  <2>2. ~Edited'
    BY <2>1 DEF Edited, Reading
  <2> QED
    BY <1>1, <2>1, <2>2 DEF ScreenInv, Blanks
<1>5. CASE Run
  <2>1. CASE Ask(screen, "key")
    BY <1>1, <2>1, AskShows
  <2>2. ASSUME NEW s \in {screen, Cleared, Boxed}, NEW out \in {<<>>, <<Output, "newline">>},
               Ask(PutAll(s, out), "key")
        PROVE  ScreenInv'
    <3>1. s \in Screens(Glyphs) /\ Blanks(s)
      BY <1>1, ClearedShows, BoxedShows
    <3>2. PutAll(s, out) \in Screens(Glyphs) /\ Blanks(PutAll(s, out))
      BY <3>1, StringsPrinted, AllShows
    <3> QED
      BY <2>2, <3>2, AskShows
  <2> QED
    BY <1>5, <2>1, <2>2, RunAsks
<1> QED
  BY <1>3, <1>4, <1>5

LEMMA ScreenSame == ScreenInv /\ UNCHANGED vars => ScreenInv'
<1> SUFFICES ASSUME ScreenInv, UNCHANGED vars PROVE ScreenInv'
  OBVIOUS
<1>1. screen' = screen /\ line' = line /\ stage' = stage /\ astray' = astray
  BY DEF vars
<1>2. Edited' = Edited /\ cmd_len' = cmd_len /\ Text' = Text
  BY <1>1 DEF Edited, cmd_len, Text, Echo
<1> QED
  BY <1>1, <1>2 DEF ScreenInv, Blanks, Shows

LEMMA ScreenSteps == LineInv /\ ScreenInv /\ [Next]_vars => ScreenInv'
<1> SUFFICES ASSUME LineInv, ScreenInv, [Next]_vars PROVE ScreenInv'
  OBVIOUS
<1>1. LineInv'
  BY LineSteps
<1>2. \/ \E c \in Letters \cup {Space} : Type(c)
      \/ Backspace \/ Up \/ Down \/ EnterUser \/ EnterPassword \/ Enter \/ TaskPrints
      \/ Split \/ Run \/ UNCHANGED vars
  BY Zenon DEF Next
<1> QED
  BY <1>1, <1>2, ScreenTyped, ScreenBackspaced, ScreenMoved, ScreenAsked, ScreenEntered,
     ScreenRest, ScreenSame, Zenon

LEMMA ScreenAlways == Spec => []ScreenInv
BY LineAlways, ScreenStarts, ScreenSteps, PTL DEF Spec

(* The buffers keep room for their NUL, the recalled lines among them, the    *)
(* history's position stays inside it and the screen is a screen, for every   *)
(* size of the buffers, the history and the screen.                          *)
THEOREM ShellTyped == Spec => []TypeOK
<1>1. LineInv /\ ScreenInv => TypeOK
  <2> SUFFICES ASSUME LineInv, ScreenInv PROVE TypeOK
    OBVIOUS
  <2>1. line \in Lines /\ tok \in Lines /\ user \in Lines
    BY LineParts, LinesAre
  <2>2. \A i \in 1 .. Len(history) : history[i] \in Lines \ {<<>>}
    BY LineParts, LinesAre, ElementOfSeq
  <2>3. screen \in Screens(Letters \cup {Blank, Prompt, Output, Star, Box})
    BY DEF ScreenInv, Glyphs
  <2> QED
    BY <2>1, <2>2, <2>3, LineParts, Zenon DEF TypeOK
<1> QED
  BY <1>1, LineAlways, ScreenAlways, PTL

(* The line on the screen is the one in the buffer: the prompt and the line   *)
(* end at the cursor and nothing that was typed or printed is behind it, only *)
(* boxes of menu or files, whatever was typed, erased and recalled, for lines, *)
(* boxes and screens of every size.                                          *)
THEOREM LineOnScreen == Spec => []LineShown
<1>1. LineInv /\ ScreenInv => LineShown
  <2> SUFFICES ASSUME LineInv, ScreenInv, stage \in Reading, ~astray PROVE LineShown
    BY DEF LineShown
  <2>1. PICK text : text = <<Prompt>> \o [i \in 1 .. cmd_len |-> Echo(line[i])]
    OBVIOUS
  <2>2. Len(text) = cmd_len + 1 /\ \A i \in 1 .. Len(text) : text[i] = Text[i]
    <3>1. PICK shown : shown = [i \in 1 .. cmd_len |-> Echo(line[i])]
      OBVIOUS
    <3>2. /\ cmd_len \in Nat /\ Text[1] = Prompt
          /\ \A i \in 1 .. cmd_len : Text[i + 1] = Echo(line[i]) /\ shown[i] = Echo(line[i])
          /\ \A i \in 1 .. cmd_len : Echo(line[i]) \in Glyphs
      BY <3>1, TextOf
    <3>3. shown \in Seq(Glyphs) /\ Len(shown) = cmd_len
      BY <3>1, <3>2
    <3>4. <<Prompt>> \in Seq(Glyphs) /\ Len(<<Prompt>>) = 1 /\ <<Prompt>>[1] = Prompt
      BY DEF Glyphs
    <3>7. PICK one : one = <<Prompt>>
      OBVIOUS
    <3>5. /\ Len(text) = 1 + cmd_len
          /\ \A i \in 1 .. 1 + cmd_len : text[i] = IF i <= 1 THEN one[i] ELSE shown[i - 1]
      <4>1. /\ Len(one \o shown) = Len(one) + Len(shown)
            /\ \A i \in 1 .. Len(one) + Len(shown) :
                  (one \o shown)[i] = IF i <= Len(one) THEN one[i] ELSE shown[i - Len(one)]
        BY <3>3, <3>4, <3>7, ConcatProperties
      <4>2. text = one \o shown
        BY <2>1, <3>1, <3>7
      <4> QED
        BY <3>3, <3>4, <3>7, <4>1, <4>2
    <3>6. ASSUME NEW i \in 1 .. 1 + cmd_len PROVE text[i] = Text[i]
      <4>1. CASE i = 1
        BY <3>2, <3>4, <3>5, <3>7, <4>1
      <4>2. CASE i # 1
        <5>1. i - 1 \in 1 .. cmd_len /\ i - 1 + 1 = i /\ ~(i <= 1)
          BY <3>2, <4>2
        <5> QED
          BY <3>2, <3>5, <5>1
      <4> QED
        BY <4>1, <4>2
    <3> QED
      BY <3>2, <3>5, <3>6
  <2>3. Blanks(screen) /\ Shows(screen, Text, cmd_len + 1)
    BY DEF ScreenInv, Edited
  <2>4. Shows(screen, text, Len(text))
    BY <2>2, <2>3, SameText
  <2> QED
    BY <2>1, <2>3, <2>4 DEF LineShown, Blanks, BlankFrom, Shows, ShownTo
<1> QED
  BY <1>1, LineAlways, ScreenAlways, PTL

-----------------------------------------------------------------------------
(* The words of a line.                                                      *)

\* the words that start in the first a characters
UpTo(s, a) == {i \in WordStarts(s) : i <= a}

LEMMA StartsCounted ==
    ASSUME NEW s \in Words, NEW a
    PROVE  /\ WordStarts(s) \subseteq 1 .. Len(s) /\ IsFiniteSet(WordStarts(s))
           /\ UpTo(s, a) \subseteq WordStarts(s) /\ IsFiniteSet(UpTo(s, a))
           /\ Cardinality(UpTo(s, a)) \in Nat
           /\ Cardinality(UpTo(s, a)) <= Cardinality(WordStarts(s))
<1>1. Len(s) \in Nat
  BY DEF Words
<1>2. IsFiniteSet(1 .. Len(s))
  BY <1>1, FS_Interval
<1>3. WordStarts(s) \subseteq 1 .. Len(s) /\ UpTo(s, a) \subseteq WordStarts(s)
  BY DEF WordStarts, UpTo
<1> QED
  BY <1>2, <1>3, FS_Subset, FS_CardinalityType

(* Counting the words up to a later one counts more.                          *)
LEMMA StartsOrdered ==
    ASSUME NEW s \in Words, NEW a \in Nat, NEW i \in WordStarts(s)
    PROVE  /\ i <= a => Cardinality(UpTo(s, i)) \in 1 .. Cardinality(UpTo(s, a))
           /\ i > a => Cardinality(UpTo(s, a)) < Cardinality(UpTo(s, i))
<1>1. i \in Nat /\ i \in UpTo(s, i)
  <2>1. i \in 1 .. Len(s) /\ Len(s) \in Nat
    BY DEF WordStarts, Words
  <2> QED
    BY <2>1 DEF UpTo
<1>2. /\ IsFiniteSet(UpTo(s, i)) /\ IsFiniteSet(UpTo(s, a))
      /\ Cardinality(UpTo(s, i)) \in Nat /\ Cardinality(UpTo(s, a)) \in Nat
  BY StartsCounted
<1>3. WordStarts(s) \subseteq Nat
  BY StartsCounted DEF Words
<1>4. CASE i <= a
  <2>1. UpTo(s, i) \subseteq UpTo(s, a)
    BY <1>1, <1>3, <1>4 DEF UpTo
  <2>2. Cardinality(UpTo(s, i)) <= Cardinality(UpTo(s, a))
    BY <1>2, <2>1, FS_Subset
  <2>3. Cardinality(UpTo(s, i)) # 0
    BY <1>1, <1>2, FS_EmptySet
  <2> QED
    BY <1>1, <1>2, <1>4, <2>2, <2>3
<1>5. CASE i > a
  <2>1. UpTo(s, a) \subseteq UpTo(s, i) /\ i \notin UpTo(s, a)
    BY <1>1, <1>3, <1>5 DEF UpTo
  <2>2. Cardinality(UpTo(s, a)) <= Cardinality(UpTo(s, i))
    BY <1>2, <2>1, FS_Subset
  <2>3. Cardinality(UpTo(s, a)) # Cardinality(UpTo(s, i))
    BY <1>1, <1>2, <2>1, FS_Subset
  <2> QED
    BY <1>1, <1>2, <1>5, <2>2, <2>3
<1> QED
  BY <1>1, <1>4, <1>5

(* A word goes up to the space after it, or to the end of the line.           *)
LEMMA WordIs ==
    ASSUME NEW s \in Words, NEW w \in 1 .. Len(s), NEW z \in w .. Len(s),
           \A k \in w .. z : s[k] # Space, z = Len(s) \/ s[z + 1] = Space
    PROVE  WordFrom(s, w) = SubSeq(s, w, z)
<1>1. Len(s) \in Nat
  BY DEF Words
<1>2. PICK ends : ends = {j \in w .. Len(s) : \A k \in w .. j : s[k] # Space}
  OBVIOUS
<1>3. z \in ends
  BY <1>2
<1>4. ASSUME NEW j \in ends PROVE j <= z
  <2>1. j \in w .. Len(s) /\ \A k \in w .. j : s[k] # Space
    BY <1>2
  <2>2. ASSUME ~(j <= z) PROVE FALSE
    <3>1. z + 1 \in w .. j /\ z # Len(s)
      BY <1>1, <2>1, <2>2
    <3> QED
      BY <2>1, <3>1
  <2> QED
    BY <2>2
<1>5. ASSUME NEW j \in ends, \A k \in ends : k <= j PROVE j = z
  <2>1. z <= j /\ j <= z /\ j \in Nat /\ z \in Nat
    BY <1>1, <1>2, <1>3, <1>4, <1>5
  <2> QED
    BY <2>1
<1>6. (CHOOSE j \in ends : \A k \in ends : k <= j) = z
  BY <1>3, <1>4, <1>5
<1> QED
  BY <1>2, <1>6 DEF WordFrom

(* The first character behind the spaces starts the next word, and no other   *)
(* word starts before the space that ends it.                                *)
LEMMA NextWord ==
    ASSUME NEW s \in Words, NEW a \in 0 .. Len(s), NEW w \in a + 1 .. Len(s),
           NEW z \in w .. Len(s), NEW b \in z .. Len(s),
           a = 0 \/ s[a] = Space, \A k \in a + 1 .. w - 1 : s[k] = Space,
           \A k \in w .. z : s[k] # Space, b <= z + 1
    PROVE  /\ w \in WordStarts(s) /\ w \notin UpTo(s, a)
           /\ UpTo(s, b) = UpTo(s, a) \cup {w} /\ UpTo(s, w) = UpTo(s, a) \cup {w}
           /\ Cardinality(UpTo(s, b)) = Cardinality(UpTo(s, a)) + 1
           /\ Cardinality(UpTo(s, w)) = Cardinality(UpTo(s, a)) + 1
<1>1. Len(s) \in Nat
  BY DEF Words
<1>2. w \in WordStarts(s)
  <2>1. w \in 1 .. Len(s) /\ s[w] # Space
    BY <1>1
  <2>2. w = 1 \/ s[w - 1] = Space
    <3>1. CASE w = a + 1
      <4>1. w - 1 = a
        BY <1>1, <3>1
      <4> QED
        BY <3>1, <4>1
    <3>2. CASE w # a + 1
      <4>1. w - 1 \in a + 1 .. w - 1
        BY <1>1, <3>2
      <4> QED
        BY <4>1
    <3> QED
      BY <3>1, <3>2
  <2> QED
    BY <2>1, <2>2 DEF WordStarts
<1>3. w \notin UpTo(s, a)
  BY <1>1 DEF UpTo
<1>4. ASSUME NEW i \in WordStarts(s), i <= b PROVE i <= a \/ i = w
  <2>1. i \in 1 .. Len(s) /\ s[i] # Space /\ (i = 1 \/ s[i - 1] = Space)
    BY DEF WordStarts
  <2>2. CASE i > a /\ i < w
    <3>1. i \in a + 1 .. w - 1
      BY <1>1, <2>1, <2>2
    <3> QED
      BY <2>1, <3>1
  <2>3. CASE i > w
    <3>1. i - 1 \in w .. z /\ i # 1
      BY <1>1, <1>4, <2>1, <2>3
    <3> QED
      BY <2>1, <3>1
  <2> QED
    BY <1>1, <2>1, <2>2, <2>3
<1>5. UpTo(s, b) = UpTo(s, a) \cup {w} /\ UpTo(s, w) = UpTo(s, a) \cup {w}
  <2>1. WordStarts(s) \subseteq Nat
    BY StartsCounted DEF Words
  <2>2. a < w /\ w <= b
    BY <1>1
  <2>3. ASSUME NEW i \in WordStarts(s)
        PROVE  (i <= b <=> i <= a \/ i = w) /\ (i <= w <=> i <= a \/ i = w)
    BY <1>1, <1>4, <2>1, <2>2
  <2> QED
    BY <1>2, <2>3 DEF UpTo
<1>6. Cardinality(UpTo(s, a) \cup {w}) = Cardinality(UpTo(s, a)) + 1
  BY <1>3, StartsCounted, FS_AddElement
<1> QED
  BY <1>2, <1>3, <1>5, <1>6

\* where the loop stands when a characters of the line are behind it
LoopAt(a) ==
    /\ Len(tok) = Len(line) - a
    /\ \A i \in 1 .. Len(tok) : tok[i] = line[a + i]
    /\ a = 0 \/ a = Len(line) \/ line[a] = Space
    /\ Len(argv) = Cardinality(UpTo(line, a))
    /\ \A i \in UpTo(line, a) : argv[Cardinality(UpTo(line, i))] = WordFrom(line, i)

Done(a) == Len(argv) >= MAX_ARGS \/ UpTo(line, a) = WordStarts(line)

WordsInv ==
    /\ stage \in Reading => argv = <<>>
    /\ stage \in {"split", "run"} =>
          \E a \in 0 .. Len(line) : LoopAt(a) /\ (stage = "run" => Done(a))

\* Enter hands the whole line over
LEMMA LoopStarts ==
    ASSUME LineInv, WordsInv, Enter, cmd_len > 0
    PROVE  WordsInv'
<1>1. /\ stage = "key" /\ stage' = "split" /\ tok' = line /\ line' = line /\ argv' = argv
  BY DEF Enter
<1>2. argv = <<>> /\ argv' = <<>> /\ Len(argv') = 0
  BY <1>1 DEF WordsInv, Reading
<1>3. line \in Words /\ Len(line) \in Nat
  BY LineParts, LenProperties DEF Shorter, Words
<1>4. UpTo(line, 0) = {}
  <2>1. ASSUME NEW i \in WordStarts(line) PROVE ~(i <= 0)
    BY <1>3 DEF WordStarts
  <2> QED
    BY <2>1 DEF UpTo
<1>5. UpTo(line', 0) = {} /\ Cardinality(UpTo(line', 0)) = 0
  BY <1>1, <1>4, FS_EmptySet
<1>6. Len(tok') = Len(line') - 0 /\ \A i \in 1 .. Len(tok') : tok'[i] = line'[0 + i]
  BY <1>1, <1>3
<1>7. LoopAt(0)'
  BY <1>2, <1>5, <1>6 DEF LoopAt
<1>8. 0 \in 0 .. Len(line') /\ stage' # "run" /\ stage' \notin Reading
  BY <1>1, <1>3 DEF Reading
<1> QED
  BY <1>7, <1>8 DEF WordsInv

(* One turn of the loop takes the next word.                                  *)
LEMMA WordTaken ==
    ASSUME LineInv, NEW a \in 0 .. Len(line), LoopAt(a), Split, stage' = "split"
    PROVE  \E b \in 0 .. Len(line) : LoopAt(b)'
<1>1. stage = "split" /\ line' = line
  BY DEF Split
<1>2. line \in Words /\ Len(line) \in Nat /\ tok \in Seq(LineChars) /\ Len(tok) \in Nat
      /\ argv \in Seq(Words) /\ Len(argv) \in Nat
  BY LineParts, LenProperties DEF Shorter, Words
<1>3. PICK f : f = FirstIs(tok, FALSE)
  OBVIOUS
<1>4. PICK from : from = SubSeq(tok, f, Len(tok))
  OBVIOUS
<1>5. PICK e : e = FirstIs(from, TRUE)
  OBVIOUS
<1>6. /\ tok # <<>> /\ from # <<>>
      /\ argv' = Append(argv, SubSeq(from, 1, e - 1))
      /\ tok' = SubSeq(from, e + 1, Len(from))
  BY <1>1, <1>3, <1>4, <1>5 DEF Split
<1>7. /\ f \in 1 .. Len(tok) + 1
      /\ \A j \in 1 .. Len(tok) : j < f => tok[j] = Space
      /\ f <= Len(tok) => tok[f] # Space
  BY <1>2, <1>3, FirstFound
<1>8. /\ from \in Seq(LineChars) /\ Len(from) \in Nat
      /\ Len(from) = IF f <= Len(tok) THEN Len(tok) - f + 1 ELSE 0
      /\ \A i \in 1 .. Len(from) : from[i] = tok[f + i - 1]
  BY <1>2, <1>4, <1>7, PartOf, LenProperties
<1>9. f <= Len(tok) /\ Len(from) = Len(tok) - f + 1 /\ Len(from) > 0
  <2>1. Len(from) # 0
    BY <1>6, <1>8, EmptySeq
  <2> QED
    BY <1>2, <1>7, <1>8, <2>1
<1>10. /\ e \in 1 .. Len(from) + 1
       /\ \A j \in 1 .. Len(from) : j < e => from[j] # Space
       /\ e <= Len(from) => from[e] = Space
  BY <1>5, <1>8, FirstFound
<1>11. Len(tok) = Len(line) - a /\ (\A i \in 1 .. Len(tok) : tok[i] = line[a + i])
       /\ (a = 0 \/ a = Len(line) \/ line[a] = Space)
  BY DEF LoopAt
<1>12. from[1] # Space /\ e # 1
  <2>1. 1 \in 1 .. Len(from) /\ f + 1 - 1 = f
    BY <1>7, <1>8, <1>9, <1>2
  <2>2. from[1] = tok[f]
    BY <1>8, <2>1
  <2> QED
    BY <1>7, <1>9, <1>10, <2>1, <2>2
<1>13. PICK w : w = a + f
  OBVIOUS
<1>14. PICK z : z = a + f + e - 2
  OBVIOUS
<1>15. /\ w \in a + 1 .. Len(line) /\ w \in 1 .. Len(line) /\ z \in w .. Len(line) /\ w \in Nat /\ z \in Nat
       /\ Len(from) = Len(line) - w + 1 /\ z = w + e - 2
  BY <1>2, <1>7, <1>9, <1>10, <1>11, <1>12, <1>13, <1>14
<1>33. e <= Len(from) <=> z # Len(line)
  <2>1. \A n, m, i, k \in Nat : m = n - i + 1 /\ k <= m + 1 => (k <= m <=> i + k - 2 # n)
    OBVIOUS
  <2>2. e \in Nat /\ e <= Len(from) + 1
    BY <1>8, <1>10
  <2> QED
    BY <1>2, <1>8, <1>15, <2>1, <2>2, Zenon
<1>16. \A i \in 1 .. Len(from) : from[i] = line[w + i - 1]
  <2> SUFFICES ASSUME NEW i \in 1 .. Len(from) PROVE from[i] = line[w + i - 1]
    OBVIOUS
  <2>1. f + i - 1 \in 1 .. Len(tok) /\ a + (f + i - 1) = w + i - 1
    BY <1>2, <1>7, <1>9, <1>13
  <2>2. tok[f + i - 1] = line[a + (f + i - 1)]
    BY <1>11, <2>1
  <2> QED
    BY <1>8, <2>1, <2>2
<1>17. a = 0 \/ line[a] = Space
  BY <1>2, <1>11, <1>15
<1>18. \A k \in a + 1 .. w - 1 : line[k] = Space
  <2> SUFFICES ASSUME NEW k \in a + 1 .. w - 1 PROVE line[k] = Space
    OBVIOUS
  <2>1. k - a \in 1 .. Len(tok) /\ k - a < f /\ a + (k - a) = k
    BY <1>2, <1>7, <1>9, <1>13
  <2> QED
    BY <1>7, <1>11, <2>1
<1>19. \A k \in w .. z : line[k] # Space
  <2> SUFFICES ASSUME NEW k \in w .. z PROVE line[k] # Space
    OBVIOUS
  <2>1. k - w + 1 \in 1 .. Len(from) /\ k - w + 1 < e /\ w + (k - w + 1) - 1 = k
    BY <1>2, <1>8, <1>10, <1>15
  <2> QED
    BY <1>10, <1>16, <2>1
<1>20. z = Len(line) \/ line[z + 1] = Space
  <2>1. CASE e <= Len(from)
    <3>1. e \in 1 .. Len(from) /\ w + e - 1 = z + 1
      BY <1>10, <1>15, <2>1
    <3> QED
      BY <1>10, <1>16, <2>1, <3>1
  <2>2. CASE ~(e <= Len(from))
    BY <1>2, <1>33, <2>2
  <2> QED
    BY <2>1, <2>2
<1>21. PICK b : b = IF z = Len(line) THEN z ELSE z + 1
  OBVIOUS
<1>22. b \in z .. Len(line) /\ b <= z + 1 /\ b \in 0 .. Len(line)
  BY <1>2, <1>15, <1>21
<1>23. /\ w \in WordStarts(line) /\ w \notin UpTo(line, a)
       /\ UpTo(line, b) = UpTo(line, a) \cup {w}
       /\ Cardinality(UpTo(line, b)) = Cardinality(UpTo(line, a)) + 1
       /\ Cardinality(UpTo(line, w)) = Cardinality(UpTo(line, a)) + 1
  BY <1>2, <1>15, <1>17, <1>18, <1>19, <1>22, NextWord
<1>24. PICK word : word = SubSeq(from, 1, e - 1)
  OBVIOUS
<1>25. e - 1 \in Nat /\ e - 1 >= 1 /\ e - 1 <= Len(from) /\ e + 1 \in Nat \ {0}
  BY <1>8, <1>10, <1>12
<1>26. word = WordFrom(line, w)
  <2>1. WordFrom(line, w) = SubSeq(line, w, z)
    BY <1>2, <1>15, <1>19, <1>20, WordIs
  <2>2. PICK u : u = SubSeq(line, w, z)
    OBVIOUS
  <2>3. line \in Seq(LineChars) /\ w \in Nat \ {0} /\ z <= Len(line)
    BY <1>2, <1>15 DEF Words
  <2>4. /\ u \in Seq(LineChars) /\ Len(u) = IF w <= z THEN z - w + 1 ELSE 0
        /\ \A i \in 1 .. Len(u) : u[i] = line[w + i - 1]
    BY <1>15, <2>2, <2>3, PartOf
  <2>5. /\ word \in Seq(LineChars) /\ Len(word) = IF 1 <= e - 1 THEN e - 1 - 1 + 1 ELSE 0
        /\ \A i \in 1 .. Len(word) : word[i] = from[1 + i - 1]
    BY <1>8, <1>24, <1>25, PartOf
  <2>6. Len(u) = e - 1 /\ Len(word) = e - 1
    <3>2. e \in Int
      BY <1>8, <1>10
    <3>3. (IF w <= z THEN z - w + 1 ELSE 0) = e - 1 /\ (IF 1 <= e - 1 THEN e - 1 - 1 + 1 ELSE 0) = e - 1
      <4>1. w <= z /\ z - w + 1 = e - 1
        BY <1>15, <1>25, <3>2
      <4>2. e - 1 - 1 + 1 = e - 1
        BY <3>2
      <4> QED
        BY <1>25, <4>1, <4>2
    <3> QED
      BY <2>4, <2>5, <3>3
  <2>7. ASSUME NEW i \in 1 .. Len(word) PROVE word[i] = u[i]
    <3>1. i \in 1 .. Len(from) /\ 1 + i - 1 = i
      BY <1>8, <1>25, <2>6
    <3> QED
      BY <1>16, <2>4, <2>5, <2>6, <3>1
  <2> QED
    <3>1. word = u
      BY <2>4, <2>5, <2>6, <2>7, SeqEqual
    <3> QED
      BY <2>1, <2>2, <3>1
<1>27. /\ argv' \in Seq(Words) /\ Len(argv') = Len(argv) + 1
       /\ argv'[Len(argv) + 1] = word
       /\ \A i \in 1 .. Len(argv) : argv'[i] = argv[i]
  <2>1. word \in Words
    BY <1>8, <1>24, <1>25, PartOf DEF Words
  <2> QED
    <3>1. PICK new : new = Append(argv, word)
      OBVIOUS
    <3>2. /\ new \in Seq(Words) /\ Len(new) = Len(argv) + 1 /\ new[Len(argv) + 1] = word
          /\ \A i \in 1 .. Len(argv) : new[i] = argv[i]
      BY <1>2, <2>1, <3>1, AppendProperties
    <3>3. argv' = new
      BY <1>6, <1>24, <3>1
    <3> QED
      BY <3>2, <3>3
<1>28. Len(argv) = Cardinality(UpTo(line, a))
       /\ \A i \in UpTo(line, a) : argv[Cardinality(UpTo(line, i))] = WordFrom(line, i)
  BY DEF LoopAt
<1>29. \A i \in UpTo(line, b) : argv'[Cardinality(UpTo(line, i))] = WordFrom(line, i)
  <2> SUFFICES ASSUME NEW i \in UpTo(line, b)
               PROVE  argv'[Cardinality(UpTo(line, i))] = WordFrom(line, i)
    OBVIOUS
  <2>1. CASE i = w
    BY <1>23, <1>26, <1>27, <1>28, <2>1
  <2>2. CASE i # w
    <3>1. i \in UpTo(line, a) /\ i \in WordStarts(line) /\ i <= a
      BY <1>23, <2>2 DEF UpTo
    <3>2. Cardinality(UpTo(line, i)) \in 1 .. Len(argv)
      BY <1>2, <1>28, <3>1, StartsOrdered
    <3> QED
      BY <1>27, <1>28, <3>1, <3>2
  <2> QED
    BY <2>1, <2>2
<1>30. Len(tok') = Len(line) - b /\ \A i \in 1 .. Len(tok') : tok'[i] = line[b + i]
  <2>1. /\ Len(tok') = IF e + 1 <= Len(from) THEN Len(from) - (e + 1) + 1 ELSE 0
        /\ \A i \in 1 .. Len(tok') : tok'[i] = from[(e + 1) + i - 1]
    <3>1. Len(from) \in Nat /\ Len(from) <= Len(from)
      BY <1>8
    <3> QED
      <4>1. PICK left : left = SubSeq(from, e + 1, Len(from))
        OBVIOUS
      <4>2. /\ Len(left) = IF e + 1 <= Len(from) THEN Len(from) - (e + 1) + 1 ELSE 0
            /\ \A i \in 1 .. Len(left) : left[i] = from[(e + 1) + i - 1]
        <5>1. PICK m \in Nat \ {0} : m = e + 1
          BY <1>25
        <5>2. PICK n \in Nat : n = Len(from)
          BY <3>1
        <5>3. from \in Seq(LineChars) /\ n <= Len(from) /\ left = SubSeq(from, m, n)
          BY <1>8, <3>1, <4>1, <5>1, <5>2
        <5>4. /\ Len(left) = IF m <= n THEN n - m + 1 ELSE 0
              /\ \A i \in 1 .. Len(left) : left[i] = from[m + i - 1]
          BY <5>3, PartOf
        <5> QED
          BY <5>1, <5>2, <5>4
      <4> QED
        BY <1>6, <4>1, <4>2
  <2>2. CASE z = Len(line)
    <3>1. e = Len(from) + 1 /\ b = Len(line)
      BY <1>8, <1>10, <1>21, <1>33, <2>2
    <3>2. Len(tok') = 0
      BY <1>8, <2>1, <3>1
    <3> QED
      BY <1>2, <3>1, <3>2
  <2>3. CASE z # Len(line)
    <3>1. e <= Len(from) /\ b = z + 1
      BY <1>21, <1>33, <2>3
    <3>2. Len(tok') = Len(from) - e
      BY <1>8, <1>10, <2>1, <3>1
    <3>3. Len(tok') = Len(line) - b
      BY <1>2, <1>8, <1>10, <1>15, <3>1, <3>2
    <3>4. ASSUME NEW i \in 1 .. Len(tok') PROVE tok'[i] = line[b + i]
      <4>1. e + i \in 1 .. Len(from) /\ (e + 1) + i - 1 = e + i /\ w + (e + i) - 1 = b + i
        BY <1>8, <1>10, <1>15, <3>1, <3>2
      <4> QED
        BY <1>16, <2>1, <4>1
    <3> QED
      BY <3>3, <3>4
  <2> QED
    BY <2>2, <2>3
<1>31. b = 0 \/ b = Len(line) \/ line[b] = Space
  BY <1>20, <1>21
<1>32. LoopAt(b)'
  BY <1>1, <1>23, <1>27, <1>28, <1>29, <1>30, <1>31 DEF LoopAt
<1> QED
  BY <1>22, <1>32

\* the loop ends at the NUL, at MAX_ARGS words, or when only spaces are left
LEMMA LoopEnds ==
    ASSUME LineInv, NEW a \in 0 .. Len(line), LoopAt(a), Split, stage' = "run"
    PROVE  LoopAt(a)' /\ Done(a)'
<1>1. stage = "split" /\ line' = line
  BY DEF Split
<1>2. line \in Words /\ Len(line) \in Nat /\ tok \in Seq(LineChars) /\ Len(tok) \in Nat
      /\ Len(argv) \in Nat
  BY LineParts, LenProperties DEF Shorter, Words
<1>3. PICK f : f = FirstIs(tok, FALSE)
  OBVIOUS
<1>4. /\ tok = <<>> \/ ~MoreArgs(Len(argv)) \/ SubSeq(tok, f, Len(tok)) = <<>>
      /\ argv' = argv /\ tok' = tok
  BY <1>1, <1>3 DEF Split
<1>5. LoopAt(a)'
  BY <1>1, <1>4 DEF LoopAt
<1>6. CASE ~MoreArgs(Len(argv))
  <2>1. Len(argv') >= MAX_ARGS
    BY <1>2, <1>4, <1>6, ShellSizesAre DEF MoreArgs
  <2> QED
    BY <1>5, <2>1 DEF Done
<1>7. CASE tok = <<>> \/ SubSeq(tok, f, Len(tok)) = <<>>
  <2>1. /\ f \in 1 .. Len(tok) + 1
        /\ \A j \in 1 .. Len(tok) : j < f => tok[j] = Space
    BY <1>2, <1>3, FirstFound
  <2>2. \A j \in 1 .. Len(tok) : tok[j] = Space
    <3>1. CASE tok = <<>>
      BY <3>1, NoLine
    <3>2. CASE SubSeq(tok, f, Len(tok)) = <<>>
      <4>1. Len(SubSeq(tok, f, Len(tok))) = IF f <= Len(tok) THEN Len(tok) - f + 1 ELSE 0
        BY <1>2, <2>1, PartOf
      <4>2. ~(f <= Len(tok))
        <5>1. Len(SubSeq(tok, f, Len(tok))) = 0
          BY <3>2, NoLine
        <5> QED
          BY <1>2, <2>1, <4>1, <5>1
      <4> QED
        BY <1>2, <2>1, <4>2
    <3> QED
      BY <1>7, <3>1, <3>2
  <2>3. ASSUME NEW i \in WordStarts(line) PROVE i <= a
    <3>1. i \in 1 .. Len(line) /\ line[i] # Space
      BY DEF WordStarts
    <3>2. ASSUME ~(i <= a) PROVE FALSE
      <4>1. Len(tok) = Len(line) - a /\ \A j \in 1 .. Len(tok) : tok[j] = line[a + j]
        BY DEF LoopAt
      <4>2. i - a \in 1 .. Len(tok) /\ a + (i - a) = i
        BY <1>2, <3>1, <3>2, <4>1
      <4> QED
        BY <2>2, <3>1, <4>1, <4>2
    <3> QED
      BY <3>2
  <2>4. UpTo(line, a) = WordStarts(line)
    BY <2>3 DEF UpTo
  <2> QED
    BY <1>1, <1>5, <2>4 DEF Done
<1> QED
  BY <1>4, <1>6, <1>7

LEMMA WordsStart == Init => WordsInv
<1> SUFFICES ASSUME Init PROVE WordsInv
  OBVIOUS
<1>1. argv = <<>> /\ stage \notin {"split", "run"}
  BY DEF Init
<1> QED
  BY <1>1 DEF WordsInv

LEMMA WordsSteps == LineInv /\ WordsInv /\ [Next]_vars => WordsInv'
<1> SUFFICES ASSUME LineInv, WordsInv, [Next]_vars PROVE WordsInv'
  OBVIOUS
<1>1. ASSUME Typing PROVE WordsInv'
  <2>1. stage' = stage /\ argv' = argv /\ stage \in Reading
    BY <1>1 DEF Typing
  <2>2. argv' = <<>> /\ stage' \notin {"split", "run"}
    BY <2>1 DEF WordsInv, Reading
  <2> QED
    BY <2>2 DEF WordsInv
<1>2. ASSUME NEW s, NEW next \in Reading, Ask(s, next) PROVE WordsInv'
  <2>1. argv' = <<>> /\ stage' \notin {"split", "run"}
    BY <1>2 DEF Ask, Reading
  <2> QED
    BY <2>1 DEF WordsInv
<1>3. "user" \in Reading /\ "pass" \in Reading /\ "key" \in Reading
  BY DEF Reading
<1>4. CASE Enter
  <2>1. CASE cmd_len > 0
    BY <1>4, <2>1, LoopStarts
  <2>2. CASE ~(cmd_len > 0)
    BY <1>2, <1>3, <1>4, <2>2 DEF Enter
  <2> QED
    BY <2>1, <2>2
<1>5. CASE Split
  <2>1. stage = "split" /\ line' = line /\ (stage' = "run" \/ stage' = "split")
    BY <1>5 DEF Split
  <2>2. PICK a \in 0 .. Len(line) : LoopAt(a)
    BY <2>1 DEF WordsInv
  <2>3. stage' \notin Reading
    BY <2>1 DEF Reading
  <2>4. CASE stage' = "split"
    <3>1. PICK b \in 0 .. Len(line) : LoopAt(b)'
      BY <1>5, <2>2, <2>4, WordTaken
    <3> QED
      BY <2>1, <2>3, <2>4, <3>1 DEF WordsInv
  <2>5. CASE stage' = "run"
    <3>1. LoopAt(a)' /\ Done(a)'
      BY <1>5, <2>2, <2>5, LoopEnds
    <3> QED
      BY <2>1, <2>3, <3>1 DEF WordsInv
  <2> QED
    BY <2>1, <2>4, <2>5
<1>6. CASE UNCHANGED vars
  BY <1>6 DEF vars, WordsInv, LoopAt, Done
<1>7. ASSUME \E c \in Letters \cup {Space} : Type(c) PROVE Typing
  BY <1>7 DEF Type
<1>8. ASSUME Backspace \/ Up \/ Down \/ TaskPrints PROVE Typing
  BY <1>8 DEF Backspace, Up, Down, TaskPrints
<1>9. ASSUME EnterUser \/ EnterPassword \/ Run PROVE \E s : \E next \in Reading : Ask(s, next)
  BY <1>3, <1>9, RunAsks DEF EnterUser, EnterPassword
<1> QED
  BY <1>1, <1>2, <1>4, <1>5, <1>6, <1>7, <1>8, <1>9, Zenon DEF Next

(* execute_command hands a command the words of the line, up to MAX_ARGS of   *)
(* them, for every line and every number: the loop that cuts the line up in   *)
(* place neither loses a word nor invents one.                               *)
THEOREM ArgumentsAreWords == Spec => []WordsSplit
<1>1. LineInv /\ WordsInv => WordsSplit
  <2> SUFFICES ASSUME LineInv, WordsInv, stage = "run" PROVE WordsSplit
    BY DEF WordsSplit
  <2>1. PICK a \in 0 .. Len(line) : LoopAt(a) /\ Done(a)
    BY DEF WordsInv
  <2>2. line \in Words /\ Len(line) \in Nat /\ Len(argv) \in Nat /\ Len(argv) <= MAX_ARGS
        /\ a \in Nat /\ MAX_ARGS \in Nat
    BY LineParts, LenProperties, ShellSizesAre DEF Shorter, Words
  <2>3. PICK starts : starts = WordStarts(line)
    OBVIOUS
  <2>4. /\ Len(argv) = Cardinality(UpTo(line, a)) /\ Cardinality(UpTo(line, a)) <= Cardinality(starts)
        /\ Cardinality(starts) \in Nat
        /\ \A i \in UpTo(line, a) : argv[Cardinality(UpTo(line, i))] = WordFrom(line, i)
    BY <2>1, <2>2, <2>3, StartsCounted, FS_CardinalityType DEF LoopAt
  <2>5. Len(argv) = IF Cardinality(starts) < MAX_ARGS THEN Cardinality(starts) ELSE MAX_ARGS
    <3>1. CASE Len(argv) >= MAX_ARGS
      BY <2>2, <2>4, <3>1
    <3>2. CASE UpTo(line, a) = starts
      BY <2>2, <2>4, <3>2
    <3> QED
      BY <2>1, <2>3, <3>1, <3>2 DEF Done
  <2>6. ASSUME NEW i \in starts, Cardinality(UpTo(line, i)) <= MAX_ARGS
        PROVE  argv[Cardinality(UpTo(line, i))] = WordFrom(line, i)
    <3>1. i \in UpTo(line, a)
      <4>1. CASE UpTo(line, a) = starts
        BY <2>6, <4>1
      <4>2. CASE Len(argv) >= MAX_ARGS
        <5>1. ~(i > a)
          BY <2>2, <2>3, <2>4, <2>6, <4>2, StartsOrdered, StartsCounted
        <5>2. i \in Nat
          BY <2>2, <2>3, StartsCounted
        <5> QED
          BY <2>2, <2>3, <5>1, <5>2 DEF UpTo
      <4> QED
        BY <2>1, <2>3, <4>1, <4>2 DEF Done
    <3> QED
      BY <2>4, <3>1
  <2>7. \A i : UpTo(line, i) = {j \in starts : j <= i}
    BY <2>3 DEF UpTo
  <2> QED
    BY <2>3, <2>5, <2>6, <2>7 DEF WordsSplit
<1> QED
  BY <1>1, LineAlways, WordsStart, WordsSteps, PTL DEF Spec
=============================================================================
