------------------------------ MODULE Keyboard ------------------------------
(***************************************************************************)
(* The keyboard driver, keyboard.c: an interrupt handler that decodes scan *)
(* codes and pushes characters into a ring, and keyboard_getchar, with     *)
(* which threads wait for one.  The handler runs with interrupts off, so    *)
(* that it is one step; a reader is interrupted between any two accesses.   *)
(***************************************************************************)
EXTENDS Integers, Sequences

CONSTANTS
    Size,       \* KB_BUFFER_SIZE
    Readers,    \* threads that call keyboard_getchar
    Letters,    \* keys whose characters caps lock changes
    Symbols,    \* other keys of the two tables
    Arrows,     \* keys that are read after the prefix 0xE0
    Dead,       \* keys that have no character
    Shifts      \* the shift keys

Keys  == Letters \cup Symbols \cup Arrows \cup Dead \cup Shifts \cup {"caps", "esc"}

ASSUME KeyboardSize == Size \in Nat /\ Size > 1
ASSUME KeyboardKeys ==
    /\ Letters \cap (Symbols \cup Arrows \cup Dead) = {} /\ Symbols \cap (Arrows \cup Dead) = {}
    /\ (Letters \cup Symbols \cup Arrows \cup Dead) \cap (Shifts \cup {"caps", "esc"}) = {}
    /\ Shifts \cap {"caps", "esc"} = {} /\ "0x60" \notin Keys

\* a character: a key, and whether it comes from the table scancode_shift
Chars == Keys \X BOOLEAN
None  == <<"none", FALSE>>
Slots == 0 .. Size - 1

\* scan codes: bit 7 says that the key was released; 0xE0 has it as well
Code(k, up) == [key |-> k, up |-> up]
Prefix      == Code("0x60", TRUE)
Codes       == [key : Keys \cup {"0x60"}, up : BOOLEAN]

VARIABLES
    kb_buffer, kb_read, kb_write,
    shift_pressed, caps_lock,
    extended,   \* the handler's static variable
    wire,       \* scan codes that the keyboard has to deliver
    held,       \* the shift keys that are held down
    pc,         \* of each reader in keyboard_getchar
    c, next,    \* its local values; c is the result until it calls again
    polled      \* whether it called after keyboard_haschar said yes

ring    == <<kb_buffer, kb_read, kb_write>>
decoder == <<shift_pressed, caps_lock, extended>>
typist  == <<wire, held>>
reader  == <<pc, c, next, polled>>
vars    == <<ring, decoder, typist, reader>>

-----------------------------------------------------------------------------
(* Faulty variants of the operators below; they model no code.              *)
AlwaysRoom(n) == FALSE
After(i)      == i + 1
NotAhead      == kb_read >= kb_write
IgnorePrefix  == FALSE

NextSlot(i) == (i + 1) % Size

\* the ring has no room for a character at slot n
NoRoom(n) == n = kb_read

\* kb_push
kb_push(ch) ==
    LET n == NextSlot(kb_write)
    IN  IF NoRoom(n) THEN UNCHANGED <<kb_buffer, kb_write>>
        ELSE kb_buffer' = [kb_buffer EXCEPT ![kb_write] = ch] /\ kb_write' = n

NoPush == UNCHANGED <<kb_buffer, kb_write>>

\* the test of keyboard_getchar
Empty == kb_read = kb_write

keyboard_haschar == kb_read # kb_write

-----------------------------------------------------------------------------
(* The keyboard: a key sends its code, an arrow the prefix first; some      *)
(* keyboards send the codes of a shift key, prefixed, around it.            *)
Fakes == {<<>>} \cup {<<Prefix, Code(s, up)>> : s \in Shifts, up \in BOOLEAN}

Sent(k, up) ==
    IF k \notin Arrows THEN {<<Code(k, up)>>}
    ELSE {IF up THEN <<Prefix, Code(k, up)>> \o f ELSE f \o <<Prefix, Code(k, up)>> : f \in Fakes}

KeyMoves(k, up) ==
    /\ wire = <<>> /\ wire' \in Sent(k, up)
    /\ k \in Shifts /\ up => k \in held
    /\ held' = IF k \notin Shifts THEN held ELSE IF up THEN held \ {k} ELSE held \cup {k}
    /\ UNCHANGED <<ring, decoder, reader>>

-----------------------------------------------------------------------------
(* keyboard_callback.                                                       *)

\* the scan code is the second byte of a prefixed one
AfterPrefix == extended

\* use_shift
UseShift(k) == shift_pressed # (caps_lock /\ k \in Letters)

Decode(code) ==
    \/ /\ code = Prefix
       /\ extended' = TRUE
       /\ NoPush /\ UNCHANGED <<shift_pressed, caps_lock>>
    \/ /\ code # Prefix /\ AfterPrefix
       /\ extended' = FALSE
       /\ IF ~code.up /\ code.key \in Arrows THEN kb_push(<<code.key, FALSE>>) ELSE NoPush
       /\ UNCHANGED <<shift_pressed, caps_lock>>
    \/ /\ code # Prefix /\ ~AfterPrefix /\ code.up
       /\ shift_pressed' = (shift_pressed /\ code.key \notin Shifts)
       /\ NoPush /\ UNCHANGED <<caps_lock, extended>>
    \/ /\ ~AfterPrefix /\ ~code.up
       /\ shift_pressed' = (shift_pressed \/ code.key \in Shifts)
       /\ caps_lock' = (caps_lock # (code.key = "caps"))
       /\ IF code.key \in Letters \cup Symbols
          THEN kb_push(<<code.key, UseShift(code.key)>>)
          ELSE IF code.key = "esc" THEN kb_push(<<"esc", FALSE>>) ELSE NoPush
       /\ UNCHANGED extended

\* every interrupt ends the hlt of a thread that is halted
Wakened == [r \in Readers |-> IF pc[r] = "halted" THEN "test" ELSE pc[r]]

keyboard_callback ==
    /\ wire # <<>> /\ wire' = Tail(wire)
    /\ Decode(Head(wire))
    /\ pc' = Wakened
    /\ UNCHANGED <<kb_read, held, c, next, polled>>

\* the timer's interrupt, for as far as it concerns a reader
Tick == /\ pc' = Wakened
        /\ UNCHANGED <<ring, decoder, typist, c, next, polled>>

-----------------------------------------------------------------------------
(* keyboard_getchar.                                                        *)
Goes(r, from, to) == pc[r] = from /\ pc' = [pc EXCEPT ![r] = to]

\* some callers ask keyboard_haschar first, and go on without a character
Call(r) ==
    /\ Goes(r, "out", "test")
    /\ \E asks \in BOOLEAN : /\ asks => keyboard_haschar
                             /\ polled' = [polled EXCEPT ![r] = asks]
    /\ c' = [c EXCEPT ![r] = None]
    /\ UNCHANGED <<ring, decoder, typist, next>>

Test(r) ==
    /\ Goes(r, "test", IF Empty THEN "hlt" ELSE "fetch")
    /\ UNCHANGED <<ring, decoder, typist, c, next, polled>>

\* an interrupt since the test does not keep the processor from halting
Halt(r) ==
    /\ Goes(r, "hlt", "halted")
    /\ UNCHANGED <<ring, decoder, typist, c, next, polled>>

Fetch(r) ==
    /\ Goes(r, "fetch", "load")
    /\ c' = [c EXCEPT ![r] = kb_buffer[kb_read]]
    /\ UNCHANGED <<ring, decoder, typist, next, polled>>

Load(r) ==
    /\ Goes(r, "load", "store")
    /\ next' = [next EXCEPT ![r] = NextSlot(kb_read)]
    /\ UNCHANGED <<ring, decoder, typist, c, polled>>

Store(r) ==
    /\ Goes(r, "store", "out")
    /\ kb_read' = next[r]
    /\ next' = [next EXCEPT ![r] = 0]
    /\ polled' = [polled EXCEPT ![r] = FALSE]
    /\ UNCHANGED <<kb_buffer, kb_write, decoder, typist, c>>

Runs(r) == Test(r) \/ Halt(r) \/ Fetch(r) \/ Load(r) \/ Store(r)

-----------------------------------------------------------------------------
Init ==
    /\ kb_buffer = [i \in Slots |-> None] /\ kb_read = 0 /\ kb_write = 0
    /\ shift_pressed = FALSE /\ caps_lock = FALSE /\ extended = FALSE
    /\ wire = <<>> /\ held = {}
    /\ pc = [r \in Readers |-> "out"] /\ polled = [r \in Readers |-> FALSE]
    /\ c = [r \in Readers |-> None] /\ next = [r \in Readers |-> 0]

Next ==
    \/ \E k \in Keys, up \in BOOLEAN : KeyMoves(k, up)
    \/ keyboard_callback
    \/ Tick
    \/ \E r \in Readers : Call(r) \/ Runs(r)

Spec == Init /\ [][Next]_vars

\* The timer never stops and the scheduler gives every reader its turn; nobody
\* need type or call.
Fairness == WF_vars(Tick) /\ \A r \in Readers : WF_vars(Runs(r))
FairSpec == Spec /\ Fairness

-----------------------------------------------------------------------------
(* The ring and its indices keep their types.                               *)
TypeOK ==
    /\ kb_buffer \in [Slots -> Chars \cup {None}] /\ kb_read \in Slots /\ kb_write \in Slots
    /\ shift_pressed \in BOOLEAN /\ caps_lock \in BOOLEAN /\ extended \in BOOLEAN
    /\ held \subseteq Shifts
    /\ wire \in Seq(Codes)
    /\ pc \in [Readers -> {"out", "test", "hlt", "halted", "fetch", "load", "store"}]
    /\ c \in [Readers -> Chars \cup {None}] /\ next \in [Readers -> Slots]
    /\ polled \in [Readers -> BOOLEAN]

\* the characters between kb_read and kb_write, in the order of the ring
Ahead(i) == IF i < Size THEN i ELSE i - Size
Waiting  == IF kb_write >= kb_read THEN kb_write - kb_read ELSE kb_write - kb_read + Size
Queue    == [i \in 1 .. Waiting |-> kb_buffer[Ahead(kb_read + i - 1)]]
Results == [r \in Readers |-> IF pc[r] = "out" THEN c[r] ELSE None]

Keyed == INSTANCE KeyQueue WITH queue <- Queue, answer <- Results, Capacity <- Size - 1

(* keyboard_getchar and kb_push: the ring is a queue, of which the reader    *)
(* takes each character once and in order, whenever the handler interrupts.  *)
ImplementsQueue == Keyed!Spec

(* keyboard_callback: once the keyboard has delivered all codes, shift is on *)
(* only while a shift key is held, whatever prefixed codes came in between.  *)
ShiftNeverSticks == wire = <<>> /\ shift_pressed => held # {}

(* shell.c's loops poll with keyboard_haschar and then call                   *)
(* keyboard_getchar: the call does not halt, which would stop the screen.     *)
PolledNeverHalts == \A r \in Readers : polled[r] => pc[r] \notin {"hlt", "halted"}

(* keyboard_getchar: a key that arrives after the test and before the hlt     *)
(* does not leave the reader halted for ever.                                 *)
KeyReachesReader ==
    \A r \in Readers : pc[r] # "out" /\ keyboard_haschar ~> pc[r] = "out"
=============================================================================
