----------------------------- MODULE KeyQueue -----------------------------
(***************************************************************************)
(* What the keyboard of AM native promises to a program that polls it: the *)
(* keys come out in the order in which they were pressed, each one once,   *)
(* unless nobody reads for so long that the queue is full; the key that    *)
(* finds it full makes it forget all of them.                              *)
(***************************************************************************)
EXTENDS Naturals, Sequences

CONSTANTS
    Keys,      \* the key codes, pressed or released
    Capacity   \* keys the queue can hold

VARIABLES
    waiting,   \* the keys that nobody has read yet
    read,      \* every key read so far
    broken     \* the rules of use have been violated: nothing is promised

vars == <<waiting, read, broken>>

Init == waiting = <<>> /\ read = <<>> /\ broken = FALSE

Press(k) ==
    /\ waiting' = IF Len(waiting) = Capacity THEN <<>> ELSE Append(waiting, k)
    /\ UNCHANGED <<read, broken>>

Read ==
    /\ waiting # <<>>
    /\ waiting' = Tail(waiting)
    /\ read' = Append(read, Head(waiting))
    /\ UNCHANGED broken

Next == Read \/ (\E k \in Keys : Press(k)) \/ broken'

Spec == Init /\ [][Next]_vars
=============================================================================
