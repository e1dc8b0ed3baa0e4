------------------------------ MODULE KeyQueue ------------------------------
(* What the keyboard driver promises its reader: characters are read once,  *)
(* in the order in which they were typed, and only what does not fit is     *)
(* lost.                                                                    *)
EXTENDS Integers, Sequences

CONSTANTS Readers, Chars, None, Capacity

VARIABLES
    queue,     \* characters that were typed and not yet read
    answer     \* what each reader got, None while it waits

Init == queue = <<>> /\ answer = [r \in Readers |-> None]

Typed(ch) == /\ queue' = IF Len(queue) < Capacity THEN Append(queue, ch) ELSE queue
             /\ UNCHANGED answer

Ask(r) == answer' = [answer EXCEPT ![r] = None] /\ UNCHANGED queue

Read(r) == /\ queue # <<>>
           /\ answer' = [answer EXCEPT ![r] = Head(queue)]
           /\ queue' = Tail(queue)

Next == \/ \E ch \in Chars : Typed(ch)
        \/ \E r \in Readers : Ask(r) \/ Read(r)

Spec == Init /\ [][Next]_<<queue, answer>>
=============================================================================
