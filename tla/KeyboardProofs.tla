--------------------------- MODULE KeyboardProofs ---------------------------
(***************************************************************************)
(* Proofs about keyboard.c for rings of every size and any set of keys.    *)
(***************************************************************************)
EXTENDS Keyboard, SequenceTheorems, TLAPS

Chars0 == Chars \cup {None}

(* The slot after i, without the remainder.                                  *)
LEMMA SlotAfter ==
    ASSUME NEW i \in Slots
    PROVE  /\ NextSlot(i) = IF i + 1 = Size THEN 0 ELSE i + 1
           /\ NextSlot(i) \in Slots /\ NextSlot(i) # i
<1>1. CASE i + 1 = Size
  <2>1. Size % Size = 0
    BY KeyboardSize, Z3
  <2> QED
    BY <1>1, <2>1, KeyboardSize DEF NextSlot, Slots
<1>2. CASE i + 1 # Size
  <2>1. ASSUME NEW k \in Nat, k < Size PROVE k % Size = k
    BY <2>1, KeyboardSize, Z3
  <2> QED
    BY <1>2, <2>1, KeyboardSize DEF NextSlot, Slots
<1> QED
  BY <1>1, <1>2

-----------------------------------------------------------------------------
(* The ring as a queue.                                                      *)

(* There is a character waiting just when the indices differ.                *)
LEMMA QueueTyped ==
    ASSUME kb_buffer \in [Slots -> Chars0], kb_read \in Slots, kb_write \in Slots
    PROVE  /\ Waiting \in 0 .. Size - 1 /\ (Waiting = 0 <=> kb_read = kb_write)
           /\ Queue \in Seq(Chars0) /\ Len(Queue) = Waiting
           /\ \A i \in 1 .. Waiting : Ahead(kb_read + i - 1) \in Slots
<1>1. Waiting \in 0 .. Size - 1 /\ (Waiting = 0 <=> kb_read = kb_write)
  BY KeyboardSize DEF Waiting, Slots
<1>2. \A i \in 1 .. Waiting : Ahead(kb_read + i - 1) \in Slots
  BY <1>1, KeyboardSize DEF Ahead, Slots
<1>3. Queue \in [1 .. Waiting -> Chars0]
  BY <1>2 DEF Queue
<1>4. Queue \in Seq(Chars0) /\ Len(Queue) = Waiting
  BY <1>1, <1>3 DEF Queue
<1> QED
  BY <1>1, <1>2, <1>4

(* kb_push appends a character, or drops it when Size - 1 are waiting.        *)
LEMMA PushAppends ==
    ASSUME kb_buffer \in [Slots -> Chars0], kb_read \in Slots, kb_write \in Slots,
           NEW ch \in Chars, kb_push(ch), kb_read' = kb_read
    PROVE  /\ kb_buffer' \in [Slots -> Chars0] /\ kb_write' \in Slots
           /\ Queue' = IF Len(Queue) < Size - 1 THEN Append(Queue, ch) ELSE Queue
           /\ kb_read # kb_write => kb_read' # kb_write' /\ kb_buffer'[kb_read] = kb_buffer[kb_read]
<1> DEFINE n == NextSlot(kb_write)
<1>1. n \in Slots /\ n = IF kb_write + 1 = Size THEN 0 ELSE kb_write + 1
  BY SlotAfter
<1>2. n = kb_read <=> Waiting = Size - 1
  BY <1>1, KeyboardSize DEF Waiting, Slots
<1>3. CASE n = kb_read
  <2>1. UNCHANGED <<kb_buffer, kb_write>>
    BY <1>3 DEF kb_push, NoRoom
  <2>2. Waiting' = Waiting /\ Queue' = Queue
    BY <2>1 DEF Waiting, Queue, Ahead
  <2> QED
    BY <1>2, <1>3, <2>1, <2>2, QueueTyped
<1>4. CASE n # kb_read
  <2>1. kb_buffer' = [kb_buffer EXCEPT ![kb_write] = ch] /\ kb_write' = n
    BY <1>4 DEF kb_push, NoRoom
  <2>2. kb_buffer' \in [Slots -> Chars0] /\ kb_write' \in Slots
    BY <1>1, <2>1 DEF Chars0
  <2>3. Waiting' = Waiting + 1
    BY <1>1, <1>4, <2>1, KeyboardSize DEF Waiting, Slots
  <2>4. ASSUME NEW i \in 1 .. Waiting
        PROVE  Ahead(kb_read + i - 1) \in Slots \ {kb_write}
    BY KeyboardSize DEF Ahead, Slots, Waiting
  <2>5. Ahead(kb_read + (Waiting + 1) - 1) = kb_write
    BY KeyboardSize DEF Ahead, Slots, Waiting
  <2>6. Queue' = [i \in 1 .. Waiting + 1 |-> kb_buffer'[Ahead(kb_read + i - 1)]]
    BY <2>3 DEF Queue, Ahead
  <2>7. Queue' = Append(Queue, ch)
    <3>1. Waiting \in Nat /\ Queue \in Seq(Chars0) /\ Len(Queue) = Waiting /\ ch \in Chars0
      BY QueueTyped DEF Chars0
    <3>2. /\ Append(Queue, ch) \in [1 .. Waiting + 1 -> Chars0]
          /\ \A i \in 1 .. Waiting : Append(Queue, ch)[i] = Queue[i]
          /\ Append(Queue, ch)[Waiting + 1] = ch
      <4>1. Append(Queue, ch) \in Seq(Chars0) /\ Len(Append(Queue, ch)) = Waiting + 1
        BY <3>1, AppendProperties
      <4>2. Append(Queue, ch) \in [1 .. Waiting + 1 -> Chars0]
        BY <4>1, LenProperties
      <4> QED
        BY <3>1, <4>2, AppendProperties
    <3>3. ASSUME NEW i \in 1 .. Waiting + 1
          PROVE  kb_buffer'[Ahead(kb_read + i - 1)] = Append(Queue, ch)[i]
      <4>1. CASE i \in 1 .. Waiting
        BY <2>1, <2>4, <3>2, <4>1 DEF Queue
      <4>2. CASE i = Waiting + 1
        BY <2>1, <2>5, <3>2, <4>2
      <4> QED
        BY <3>1, <4>1, <4>2
    <3> QED
      BY <2>6, <3>2, <3>3
  <2>8. kb_read # kb_write => kb_buffer'[kb_read] = kb_buffer[kb_read]
    BY <2>1
  <2>9. Len(Queue) < Size - 1
    BY <1>2, <1>4, QueueTyped, KeyboardSize
  <2> QED
    BY <1>4, <2>1, <2>2, <2>7, <2>8, <2>9
<1> QED
  BY <1>3, <1>4

(* Advancing kb_read takes the head.                                         *)
LEMMA AdvanceTakes ==
    ASSUME kb_buffer \in [Slots -> Chars0], kb_read \in Slots, kb_write \in Slots,
           kb_read # kb_write, kb_read' = NextSlot(kb_read), UNCHANGED <<kb_buffer, kb_write>>
    PROVE  Queue # <<>> /\ Head(Queue) = kb_buffer[kb_read] /\ Queue' = Tail(Queue)
<1>1. /\ Queue \in Seq(Chars0) /\ Len(Queue) = Waiting /\ Waiting \in 1 .. Size - 1
      /\ Queue # <<>>
  <2>1. Queue \in Seq(Chars0) /\ Len(Queue) = Waiting /\ Waiting \in 1 .. Size - 1
    BY QueueTyped, KeyboardSize
  <2> QED
    BY <2>1, EmptySeq
<1>2. kb_read' \in Slots /\ kb_read' = IF kb_read + 1 = Size THEN 0 ELSE kb_read + 1
  BY SlotAfter
<1>3. Waiting' = Waiting - 1
  BY <1>2, KeyboardSize DEF Waiting, Slots
<1>4. Queue[1] = kb_buffer[kb_read]
  BY <1>1, KeyboardSize DEF Queue, Ahead, Slots
<1>5. ASSUME NEW i \in 1 .. Waiting - 1
      PROVE  Ahead(kb_read' + i - 1) = Ahead(kb_read + (i + 1) - 1)
  BY <1>1, <1>2, KeyboardSize DEF Ahead, Slots
<1>6. Queue' = [i \in 1 .. Waiting - 1 |-> kb_buffer[Ahead(kb_read + (i + 1) - 1)]]
  BY <1>3, <1>5 DEF Queue, Ahead
<1>7. /\ Tail(Queue) \in [1 .. Waiting - 1 -> Chars0]
      /\ \A i \in 1 .. Waiting - 1 : Tail(Queue)[i] = Queue[i + 1]
  BY <1>1, HeadTailProperties, LenProperties
<1>8. \A i \in 1 .. Waiting - 1 : Queue[i + 1] = kb_buffer[Ahead(kb_read + (i + 1) - 1)]
  BY <1>1 DEF Queue
<1>9. Queue' = Tail(Queue)
  BY <1>6, <1>7, <1>8
<1> QED
  BY <1>1, <1>4, <1>9

-----------------------------------------------------------------------------
(* Types.                                                                    *)

(* The codes that a key sends are at most two prefixed ones.                 *)
LEMMA SentCodes ==
    ASSUME NEW k \in Keys, NEW up \in BOOLEAN, NEW w \in Sent(k, up)
    PROVE  /\ w \in Seq(Codes)
           /\ \/ k \notin Arrows /\ w = <<Code(k, up)>>
              \/ Len(w) = 2 /\ \A i \in 1 .. 2 : w[i] = Prefix <=> i = 1
              \/ Len(w) = 4 /\ \A i \in 1 .. 4 : w[i] = Prefix <=> i \in {1, 3}
<1>1. \A j \in Keys, b \in BOOLEAN : Code(j, b) \in Codes /\ Code(j, b) # Prefix
  BY KeyboardKeys DEF Code, Codes, Prefix
<1>2. Prefix \in Codes
  BY DEF Code, Codes, Prefix
<1>3. CASE k \notin Arrows
  <2>1. w = <<Code(k, up)>>
    BY <1>3 DEF Sent
  <2> QED
    BY <1>1, <1>3, <2>1
<1>4. CASE k \in Arrows
  <2> DEFINE own == <<Prefix, Code(k, up)>>
  <2>1. own \in Seq(Codes) /\ Len(own) = 2 /\ own[1] = Prefix /\ own[2] # Prefix
    BY <1>1, <1>2
  <2>2. PICK f \in Fakes : w = own \o f \/ w = f \o own
    BY <1>4 DEF Sent
  <2>3. CASE f = <<>>
    <3>1. w = own
      BY <2>1, <2>2, <2>3, ConcatEmptySeq
    <3> QED
      BY <2>1, <3>1
  <2>4. CASE f # <<>>
    <3>1. PICK s \in Shifts, b \in BOOLEAN : f = <<Prefix, Code(s, b)>>
      BY <2>4 DEF Fakes
    <3>2. f \in Seq(Codes) /\ Len(f) = 2 /\ f[1] = Prefix /\ f[2] # Prefix
      BY <1>1, <1>2, <3>1 DEF Keys
    <3>3. ASSUME NEW a \in Seq(Codes), NEW b2 \in Seq(Codes), Len(a) = 2, Len(b2) = 2,
                 a[1] = Prefix, a[2] # Prefix, b2[1] = Prefix, b2[2] # Prefix
          PROVE  /\ a \o b2 \in Seq(Codes) /\ Len(a \o b2) = 4
                 /\ \A i \in 1 .. 4 : (a \o b2)[i] = Prefix <=> i \in {1, 3}
      <4>1. /\ a \o b2 \in Seq(Codes) /\ Len(a \o b2) = Len(a) + Len(b2)
            /\ \A i \in 1 .. Len(a) + Len(b2) :
                  (a \o b2)[i] = IF i <= Len(a) THEN a[i] ELSE b2[i - Len(a)]
        BY ConcatProperties
      <4> DEFINE both == a \o b2
      <4>2. both \in Seq(Codes) /\ Len(both) = 4
        BY <3>3, <4>1
      <4>3. both[1] = a[1] /\ both[2] = a[2] /\ both[3] = b2[1] /\ both[4] = b2[2]
        BY <3>3, <4>1
      <4> HIDE DEF both
      <4>4. \A i \in 1 .. 4 : both[i] = Prefix <=> i \in {1, 3}
        BY <3>3, <4>3
      <4> QED
        BY <4>2, <4>4 DEF both
    <3> HIDE DEF own
    <3>4. CASE w = own \o f
      BY <2>1, <3>2, <3>3, <3>4
    <3>5. CASE w = f \o own
      BY <2>1, <3>2, <3>3, <3>5
    <3> QED
      BY <2>2, <3>4, <3>5
  <2> QED
    BY <2>3, <2>4
<1> QED
  BY <1>3, <1>4

(* The handler pushes one character or none, and its flags stay Booleans.    *)
LEMMA DecodeShape ==
    ASSUME TypeOK, NEW code \in Codes, Decode(code)
    PROVE  /\ UNCHANGED <<kb_buffer, kb_write>> \/ \E ch \in Chars : kb_push(ch)
           /\ shift_pressed' \in BOOLEAN /\ caps_lock' \in BOOLEAN /\ extended' \in BOOLEAN
<1>1. shift_pressed \in BOOLEAN /\ caps_lock \in BOOLEAN /\ extended \in BOOLEAN
  BY DEF TypeOK
<1>2. ASSUME NEW k \in Keys, NEW b \in BOOLEAN PROVE <<k, b>> \in Chars
  BY <1>2 DEF Chars
<1>3. "esc" \in Keys /\ Arrows \subseteq Keys /\ Letters \cup Symbols \subseteq Keys
  BY DEF Keys
<1>4. ASSUME NEW k PROVE UseShift(k) \in BOOLEAN
  BY DEF UseShift
<1>5. UNCHANGED <<kb_buffer, kb_write>> \/ \E ch \in Chars : kb_push(ch)
  <2>1. NoPush => UNCHANGED <<kb_buffer, kb_write>>
    BY DEF NoPush
  <2>2. CASE code.key \in Arrows /\ kb_push(<<code.key, FALSE>>)
    BY <1>2, <1>3, <2>2
  <2>3. CASE code.key \in Letters \cup Symbols /\ kb_push(<<code.key, UseShift(code.key)>>)
    BY <1>2, <1>3, <1>4, <2>3
  <2>4. CASE kb_push(<<"esc", FALSE>>)
    BY <1>2, <1>3, <2>4
  <2> QED
    BY <2>1, <2>2, <2>3, <2>4 DEF Decode
<1>6. shift_pressed' \in BOOLEAN /\ caps_lock' \in BOOLEAN /\ extended' \in BOOLEAN
  BY <1>1, Zenon DEF Decode
<1> QED
  BY <1>5, <1>6

\* the places of keyboard_getchar
Places == {"out", "test", "hlt", "halted", "fetch", "load", "store"}

(* A reader goes from place to place.                                        *)
LEMMA GoesTyped ==
    ASSUME pc \in [Readers -> Places], NEW r \in Readers, NEW a, NEW b \in Places, Goes(r, a, b)
    PROVE  pc' \in [Readers -> Places]
BY DEF Goes

LEMMA WakenedTyped ==
    ASSUME pc \in [Readers -> Places]
    PROVE  Wakened \in [Readers -> Places]
BY DEF Wakened, Places

LEMMA TypeStep == TypeOK /\ [Next]_vars => TypeOK'
<1> SUFFICES ASSUME TypeOK, [Next]_vars PROVE TypeOK'
  OBVIOUS
<1> USE DEF TypeOK
<1>1. ASSUME NEW k \in Keys, NEW up \in BOOLEAN, KeyMoves(k, up) PROVE TypeOK'
  <2>1. wire' \in Seq(Codes)
    BY <1>1, SentCodes DEF KeyMoves
  <2>2. held' \subseteq Shifts
    BY <1>1 DEF KeyMoves
  <2> QED
    BY <1>1, <2>1, <2>2 DEF KeyMoves, ring, decoder, reader
<1>2. CASE keyboard_callback
  <2>1. Head(wire) \in Codes /\ wire' \in Seq(Codes)
    BY <1>2, HeadTailProperties DEF keyboard_callback
  <2>2. kb_buffer' \in [Slots -> Chars0] /\ kb_write' \in Slots
    <3>1. Decode(Head(wire)) /\ kb_read' = kb_read /\ kb_buffer \in [Slots -> Chars0]
      BY <1>2 DEF keyboard_callback, Chars0
    <3>2. CASE UNCHANGED <<kb_buffer, kb_write>>
      BY <3>1, <3>2
    <3>3. CASE \E ch \in Chars : kb_push(ch)
      BY <3>1, <3>3, PushAppends
    <3> QED
      BY <2>1, <3>1, <3>2, <3>3, DecodeShape
  <2>3. shift_pressed' \in BOOLEAN /\ caps_lock' \in BOOLEAN /\ extended' \in BOOLEAN
    BY <1>2, <2>1, DecodeShape DEF keyboard_callback
  <2>4. pc' \in [Readers -> Places]
    BY <1>2, WakenedTyped DEF keyboard_callback, Places
  <2> QED
    BY <1>2, <2>1, <2>2, <2>3, <2>4 DEF keyboard_callback, Chars0, Places
<1>3. CASE Tick
  BY <1>3, WakenedTyped DEF Tick, ring, decoder, typist, Places
<1>4. ASSUME NEW r \in Readers, Call(r) PROVE TypeOK'
  BY <1>4, GoesTyped DEF Call, ring, decoder, typist, Places
<1>5. ASSUME NEW r \in Readers, Test(r) PROVE TypeOK'
  BY <1>5, GoesTyped DEF Test, ring, decoder, typist, Places
<1>6. ASSUME NEW r \in Readers, Halt(r) PROVE TypeOK'
  BY <1>6, GoesTyped DEF Halt, ring, decoder, typist, Places
<1>7. ASSUME NEW r \in Readers, Fetch(r) PROVE TypeOK'
  BY <1>7, GoesTyped DEF Fetch, ring, decoder, typist, Places
<1>8. ASSUME NEW r \in Readers, Load(r) PROVE TypeOK'
  BY <1>8, GoesTyped, SlotAfter DEF Load, ring, decoder, typist, Places
<1>9. ASSUME NEW r \in Readers, Store(r) PROVE TypeOK'
  <2>1. 0 \in Slots
    BY KeyboardSize DEF Slots
  <2> QED
    BY <1>9, <2>1, GoesTyped DEF Store, decoder, typist, Places
<1>10. CASE UNCHANGED vars
  BY <1>10 DEF vars, ring, decoder, typist, reader
<1> QED
  BY <1>1, <1>2, <1>3, <1>4, <1>5, <1>6, <1>7, <1>8, <1>9, <1>10 DEF Next, Runs

(* Indices stay in the ring and scan codes are keys', for rings of every     *)
(* size and any number of readers.                                           *)
THEOREM KeyboardTyped == Spec => []TypeOK
<1>1. Init => TypeOK
  <2>1. <<>> \in Seq(Codes) /\ 0 \in Slots
    BY KeyboardSize DEF Slots
  <2> QED
    BY <2>1 DEF Init, TypeOK
<1> QED
  BY <1>1, TypeStep, PTL DEF Spec

-----------------------------------------------------------------------------
(* One reader.                                                               *)

\* what a reader knows at each place, if no other reads: a character waits,
\* its local values are right, and it does not halt if it polled
Knows(r) ==
    /\ pc[r] \in {"fetch", "load", "store"} => kb_read # kb_write
    /\ pc[r] \in {"load", "store"} => c[r] = kb_buffer[kb_read]
    /\ pc[r] = "store" => next[r] = NextSlot(kb_read)
    /\ polled[r] => pc[r] \notin {"hlt", "halted"}
    /\ polled[r] /\ pc[r] = "test" => kb_read # kb_write

(* The handler pushes behind the character that the reader is taking.        *)
LEMMA HandlerKeeps ==
    ASSUME TypeOK, NEW r \in Readers, Knows(r), pc' = Wakened,
           UNCHANGED <<kb_read, c, next, polled>>,
           UNCHANGED <<kb_buffer, kb_write>> \/ \E ch \in Chars : kb_push(ch)
    PROVE  Knows(r)'
<1>1. kb_read # kb_write => kb_read' # kb_write' /\ kb_buffer'[kb_read'] = kb_buffer[kb_read]
  <2>1. CASE UNCHANGED <<kb_buffer, kb_write>>
    BY <2>1
  <2>2. CASE \E ch \in Chars : kb_push(ch)
    <3>1. kb_buffer \in [Slots -> Chars0] /\ kb_read \in Slots /\ kb_write \in Slots
      BY DEF TypeOK, Chars0
    <3> QED
      BY <2>2, <3>1, PushAppends
  <2> QED
    BY <2>1, <2>2
<1>2. pc'[r] = IF pc[r] = "halted" THEN "test" ELSE pc[r]
  BY DEF Wakened
<1>3. NextSlot(kb_read)' = NextSlot(kb_read)
  BY DEF NextSlot
<1> QED
  BY <1>1, <1>2, <1>3 DEF Knows

LEMMA ReaderKeeps ==
    ASSUME TypeOK, NEW r \in Readers, Knows(r), Call(r) \/ Runs(r)
    PROVE  Knows(r)'
<1> USE DEF TypeOK, Knows, Goes
<1>1. CASE Call(r)
  BY <1>1 DEF Call, ring, decoder, typist, keyboard_haschar
<1>2. CASE Test(r)
  BY <1>2 DEF Test, ring, decoder, typist, Empty
<1>3. CASE Halt(r)
  BY <1>3 DEF Halt, ring, decoder, typist
<1>4. CASE Fetch(r)
  BY <1>4 DEF Fetch, ring, decoder, typist
<1>5. CASE Load(r)
  BY <1>5 DEF Load, ring, decoder, typist, NextSlot
<1>6. CASE Store(r)
  BY <1>6 DEF Store, decoder, typist
<1> QED
  BY <1>1, <1>2, <1>3, <1>4, <1>5, <1>6 DEF Runs

LEMMA KnowsStep ==
    ASSUME NEW me, Readers = {me}, TypeOK, Knows(me), [Next]_vars
    PROVE  Knows(me)'
<1>1. ASSUME NEW k \in Keys, NEW up \in BOOLEAN, KeyMoves(k, up) PROVE Knows(me)'
  BY <1>1 DEF KeyMoves, ring, reader, Knows, NextSlot
<1>2. CASE keyboard_callback
  <2>1. Head(wire) \in Codes /\ Decode(Head(wire))
    BY <1>2, HeadTailProperties DEF keyboard_callback, TypeOK
  <2> QED
    BY <1>2, <2>1, DecodeShape, HandlerKeeps DEF keyboard_callback
<1>3. CASE Tick
  BY <1>3, HandlerKeeps DEF Tick, ring
<1>4. ASSUME NEW r \in Readers, Call(r) \/ Runs(r) PROVE Knows(me)'
  BY <1>4, ReaderKeeps
<1>5. CASE UNCHANGED vars
  BY <1>5 DEF vars, ring, reader, Knows, NextSlot
<1> QED
  BY <1>1, <1>2, <1>3, <1>4, <1>5 DEF Next

LEMMA KnowsInit == ASSUME NEW me \in Readers, Init PROVE Knows(me)
BY DEF Init, Knows

(* A caller that asked keyboard_haschar does not halt, if it is the only     *)
(* reader.                                                                   *)
THEOREM PollerReturns ==
    ASSUME NEW me, Readers = {me}
    PROVE  Spec => []PolledNeverHalts
<1>1. Init => Knows(me)
  BY KnowsInit
<1>2. TypeOK /\ Knows(me) /\ [Next]_vars => Knows(me)'
  BY KnowsStep
<1>3. Knows(me) => PolledNeverHalts
  BY DEF Knows, PolledNeverHalts
<1> QED
  BY <1>1, <1>2, <1>3, KeyboardTyped, PTL DEF Spec

(* Every step is a step of the queue, or none.                               *)
LEMMA QueueStep ==
    ASSUME NEW me, Readers = {me}, TypeOK, Knows(me), [Next]_vars
    PROVE  [Keyed!Next]_<<Queue, Results>>
<1>1. kb_buffer \in [Slots -> Chars0] /\ kb_read \in Slots /\ kb_write \in Slots
  BY DEF TypeOK, Chars0
<1>2. ASSUME UNCHANGED ring PROVE Queue' = Queue
  BY <1>2 DEF ring, Queue, Waiting, Ahead
<1>3. ASSUME pc' = Wakened, c' = c PROVE Results' = Results
  BY <1>3 DEF Results, Wakened
<1>4. ASSUME NEW k \in Keys, NEW up \in BOOLEAN, KeyMoves(k, up)
      PROVE  UNCHANGED <<Queue, Results>>
  BY <1>2, <1>4 DEF KeyMoves, reader, Results
<1>5. CASE keyboard_callback
  <2>1. Head(wire) \in Codes /\ Decode(Head(wire)) /\ kb_read' = kb_read
    BY <1>5, HeadTailProperties DEF keyboard_callback, TypeOK
  <2>2. Results' = Results
    BY <1>3, <1>5 DEF keyboard_callback
  <2>3. CASE UNCHANGED <<kb_buffer, kb_write>>
    BY <1>2, <2>1, <2>2, <2>3 DEF ring
  <2>4. ASSUME NEW ch \in Chars, kb_push(ch) PROVE Keyed!Typed(ch)
    BY <1>1, <2>1, <2>2, <2>4, PushAppends DEF Keyed!Typed
  <2> QED
    BY <2>1, <2>3, <2>4, DecodeShape DEF Keyed!Next
<1>6. CASE Tick
  BY <1>2, <1>3, <1>6 DEF Tick
<1>7. ASSUME Call(me) PROVE Keyed!Ask(me)
  <2>1. Results' = [Results EXCEPT ![me] = None]
    BY <1>7 DEF Call, Goes, Results, TypeOK
  <2> QED
    BY <1>2, <1>7, <2>1 DEF Call, Keyed!Ask
<1>8. ASSUME Test(me) \/ Halt(me) \/ Fetch(me) \/ Load(me) PROVE UNCHANGED <<Queue, Results>>
  <2>1. UNCHANGED ring
    BY <1>8 DEF Test, Halt, Fetch, Load
  <2>2. pc[me] # "out" /\ pc'[me] # "out"
    BY <1>8 DEF Test, Halt, Fetch, Load, Goes, TypeOK
  <2>3. Results' = Results
    BY <2>2 DEF Results
  <2> QED
    BY <1>2, <2>1, <2>3
<1>9. ASSUME Store(me) PROVE Keyed!Read(me)
  <2>1. /\ kb_read # kb_write /\ kb_read' = NextSlot(kb_read)
        /\ UNCHANGED <<kb_buffer, kb_write>> /\ c[me] = kb_buffer[kb_read]
    BY <1>9 DEF Store, Goes, Knows
  <2>2. Queue # <<>> /\ Head(Queue) = kb_buffer[kb_read] /\ Queue' = Tail(Queue)
    BY <1>1, <2>1, AdvanceTakes
  <2>3. Results' = [Results EXCEPT ![me] = c[me]]
    BY <1>9 DEF Store, Goes, Results, TypeOK
  <2> QED
    BY <2>1, <2>2, <2>3 DEF Keyed!Read
<1>10. CASE UNCHANGED vars
  BY <1>2, <1>10 DEF vars, reader, Results
<1> QED
  BY <1>4, <1>5, <1>6, <1>7, <1>8, <1>9, <1>10 DEF Next, Runs, Keyed!Next

(* The ring refines the queue: a single reader gets each character that was  *)
(* pushed once and in order, for rings of every size.                        *)
THEOREM RingIsQueue ==
    ASSUME NEW me, Readers = {me}
    PROVE  Spec => ImplementsQueue
<1>1. Init => Keyed!Init
  <2> SUFFICES ASSUME Init PROVE Queue = <<>> /\ Results = [r \in Readers |-> None]
    BY DEF Keyed!Init
  <2>1. Waiting = 0
    BY DEF Init, Waiting
  <2>2. Queue = <<>>
    BY <2>1 DEF Queue
  <2> QED
    BY <2>2 DEF Init, Results
<1>2. Init => Knows(me)
  BY KnowsInit
<1>3. TypeOK /\ Knows(me) /\ [Next]_vars => Knows(me)'
  BY KnowsStep
<1>4. TypeOK /\ Knows(me) /\ [Next]_vars => [Keyed!Next]_<<Queue, Results>>
  BY QueueStep
<1> QED
  BY <1>1, <1>2, <1>3, <1>4, KeyboardTyped, PTL DEF Spec, ImplementsQueue, Keyed!Spec

-----------------------------------------------------------------------------
(* The shift keys.                                                           *)

\* what is left of the codes of a key: all of an unprefixed one, prefixed
\* codes, or prefixed codes without the first prefix
Unprefixed == ~extended /\ Len(wire) = 1 /\ wire[1] # Prefix
Prefixed   == /\ ~extended /\ Len(wire) \in {0, 2, 4}
              /\ \A i \in 1 .. Len(wire) : wire[i] = Prefix <=> i \in {1, 3}
Inside     == /\ extended /\ Len(wire) \in {1, 3}
              /\ \A i \in 1 .. Len(wire) : wire[i] = Prefix <=> i = 2

\* a shift key was released, and the handler is about to see it
Releasing == Unprefixed /\ wire[1].up /\ wire[1].key \in Shifts

ShiftInv ==
    /\ Unprefixed \/ Prefixed \/ Inside
    /\ Unprefixed /\ wire[1].key \in Shifts /\ ~wire[1].up => held # {}
    /\ shift_pressed => held # {} \/ Releasing

(* The keyboard sends when nothing is left of the last key.                  *)
LEMMA SendingKeeps ==
    ASSUME TypeOK, ShiftInv, NEW k \in Keys, NEW up \in BOOLEAN, KeyMoves(k, up)
    PROVE  ShiftInv'
<1>1. ~extended /\ ~extended' /\ wire = <<>> /\ (shift_pressed' <=> shift_pressed)
  BY DEF KeyMoves, ShiftInv, Unprefixed, Prefixed, Inside, decoder
<1>2. Code(k, up) # Prefix /\ Code(k, up).key = k /\ (Code(k, up).up <=> up)
  BY KeyboardKeys DEF Code, Prefix
<1>3. shift_pressed => held # {}
  BY <1>1 DEF ShiftInv, Releasing, Unprefixed
<1>4. CASE k \notin Arrows /\ wire' = <<Code(k, up)>>
  <2>1. Unprefixed' /\ wire'[1] = Code(k, up)
    BY <1>1, <1>2, <1>4 DEF Unprefixed
  <2>2. CASE k \notin Shifts
    <3>1. held' = held
      BY <2>2 DEF KeyMoves
    <3> QED
      BY <1>1, <1>2, <1>3, <2>1, <2>2, <3>1 DEF ShiftInv
  <2>3. CASE k \in Shifts /\ up
    <3>1. Releasing'
      BY <1>2, <2>1, <2>3 DEF Releasing
    <3> QED
      BY <1>2, <2>1, <2>3, <3>1 DEF ShiftInv
  <2>4. CASE k \in Shifts /\ ~up
    <3>1. held' # {}
      BY <2>4 DEF KeyMoves
    <3> QED
      BY <2>1, <3>1 DEF ShiftInv
  <2> QED
    BY <2>2, <2>3, <2>4
<1>5. CASE k \in Arrows
  <2>1. held' = held
    BY <1>5, KeyboardKeys DEF KeyMoves
  <2>2. Prefixed' /\ ~Unprefixed'
    <3>1. wire' \in Sent(k, up)
      BY DEF KeyMoves
    <3>2. \/ Len(wire') = 2 /\ \A i \in 1 .. 2 : wire'[i] = Prefix <=> i = 1
          \/ Len(wire') = 4 /\ \A i \in 1 .. 4 : wire'[i] = Prefix <=> i \in {1, 3}
      BY <1>5, <3>1, SentCodes
    <3> QED
      BY <1>1, <3>2 DEF Prefixed, Unprefixed
  <2> QED
    BY <1>1, <1>3, <2>1, <2>2 DEF ShiftInv
<1>6. k \notin Arrows => wire' = <<Code(k, up)>>
  BY DEF KeyMoves, Sent
<1> QED
  BY <1>4, <1>5, <1>6

(* The handler takes the prefixed codes of a shift key for no shift.         *)
LEMMA DecodingKeeps == ASSUME TypeOK, ShiftInv, keyboard_callback PROVE ShiftInv'
<1>1. /\ wire' \in Seq(Codes) /\ Len(wire') = Len(wire) - 1 /\ Len(wire) \in Nat \ {0}
      /\ \A i \in 1 .. Len(wire') : wire'[i] = wire[i + 1]
      /\ Head(wire) = wire[1] /\ Decode(wire[1]) /\ held' = held
  BY HeadTailProperties DEF keyboard_callback, TypeOK
<1>2. extended \in BOOLEAN /\ shift_pressed \in BOOLEAN /\ wire[1].up \in BOOLEAN
  <2>1. wire[1] \in Codes
    BY <1>1, ElementOfSeq DEF TypeOK
  <2>2. wire[1].up \in BOOLEAN
    BY <2>1 DEF Codes
  <2> QED
    BY <2>2 DEF TypeOK
<1>3. CASE Unprefixed
  <2>1. ~extended' /\ Len(wire') = 0
    BY <1>1, <1>3 DEF Unprefixed, Decode, AfterPrefix
  <2>2. Prefixed' /\ ~Unprefixed'
    BY <2>1 DEF Prefixed, Unprefixed
  <2>3. shift_pressed' => held # {}
    <3>1. CASE wire[1].up
      <4>1. shift_pressed' <=> shift_pressed /\ wire[1].key \notin Shifts
        BY <1>1, <1>3, <3>1 DEF Unprefixed, Decode, AfterPrefix
      <4> QED
        BY <4>1 DEF ShiftInv, Releasing
    <3>2. CASE ~wire[1].up
      <4>1. shift_pressed' <=> shift_pressed \/ wire[1].key \in Shifts
        BY <1>1, <1>3, <3>2 DEF Unprefixed, Decode, AfterPrefix
      <4> QED
        BY <1>3, <3>2, <4>1 DEF ShiftInv, Releasing
    <3> QED
      BY <3>1, <3>2
  <2> QED
    BY <1>1, <2>2, <2>3 DEF ShiftInv
<1>4. CASE Prefixed
  <2>1. wire[1] = Prefix /\ Len(wire) \in {2, 4} /\ ~extended /\ Prefix.up
    BY <1>1, <1>4 DEF Prefixed, Prefix, Code
  <2>2. extended' /\ (shift_pressed' <=> shift_pressed)
    BY <1>1, <2>1 DEF Decode, AfterPrefix
  <2>3. \A i \in 1 .. Len(wire') : wire'[i] = Prefix <=> i = 2
    BY <1>1, <1>4, <2>1 DEF Prefixed
  <2>4. Inside' /\ ~Unprefixed'
    BY <1>1, <2>1, <2>2, <2>3 DEF Inside, Unprefixed
  <2>5. shift_pressed => held # {}
    BY <2>1 DEF ShiftInv, Releasing, Unprefixed
  <2> QED
    BY <1>1, <2>2, <2>4, <2>5 DEF ShiftInv
<1>5. CASE Inside
  <2>1. wire[1] # Prefix /\ Len(wire) \in {1, 3} /\ extended
    BY <1>1, <1>5 DEF Inside
  <2>2. ~extended' /\ (shift_pressed' <=> shift_pressed)
    BY <1>1, <2>1 DEF Decode, AfterPrefix
  <2>3. \A i \in 1 .. Len(wire') : wire'[i] = Prefix <=> i \in {1, 3}
    BY <1>1, <1>5, <2>1 DEF Inside
  <2>4. Prefixed' /\ ~Unprefixed'
    BY <1>1, <2>1, <2>2, <2>3 DEF Prefixed, Unprefixed
  <2>5. shift_pressed => held # {}
    BY <2>1 DEF ShiftInv, Releasing, Unprefixed
  <2> QED
    BY <1>1, <2>2, <2>4, <2>5 DEF ShiftInv
<1> QED
  BY <1>3, <1>4, <1>5 DEF ShiftInv

(* Shift is on only while a shift key is held, for every set of keys and     *)
(* any number of readers.                                                    *)
THEOREM ShiftFollowsKeys == Spec => []ShiftNeverSticks
<1>1. Init => ShiftInv
  BY DEF Init, ShiftInv, Prefixed, Unprefixed
<1>2. TypeOK /\ ShiftInv /\ [Next]_vars => ShiftInv'
  <2> SUFFICES ASSUME TypeOK, ShiftInv, [Next]_vars PROVE ShiftInv'
    OBVIOUS
  <2>1. ASSUME UNCHANGED <<decoder, typist>> PROVE ShiftInv'
    BY <2>1 DEF decoder, typist, ShiftInv, Unprefixed, Prefixed, Inside, Releasing
  <2>2. ASSUME NEW r \in Readers, Call(r) \/ Runs(r) PROVE UNCHANGED <<decoder, typist>>
    BY <2>2 DEF Call, Runs, Test, Halt, Fetch, Load, Store
  <2>3. Tick \/ UNCHANGED vars => UNCHANGED <<decoder, typist>>
    BY DEF Tick, vars
  <2> QED
    BY <2>1, <2>2, <2>3, SendingKeeps, DecodingKeeps DEF Next
<1>3. ShiftInv => ShiftNeverSticks
  BY DEF ShiftInv, ShiftNeverSticks, Releasing, Unprefixed
<1> QED
  BY <1>1, <1>2, <1>3, KeyboardTyped, PTL DEF Spec
=============================================================================
