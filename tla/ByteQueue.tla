------------------------------- MODULE ByteQueue -------------------------------
(* What a keyboard handler owes to the program it interrupts: the bytes of the  *)
(* keyboard in the order they came, each at most once, and none lost unless the *)
(* program has left Capacity of them unread.                                    *)
EXTENDS Naturals, Sequences

CONSTANTS Byte, Capacity, NoByte

VARIABLES
    queue,      \* bytes received and not yet taken
    taken,      \* the byte the program is looking at, NoByte if none
    lost        \* a byte has been lost

vars == <<queue, taken, lost>>

Init == queue = <<>> /\ taken = NoByte /\ lost = FALSE

Put(b) ==
    /\ Len(queue) < Capacity
    /\ queue' = Append(queue, b)
    /\ UNCHANGED <<taken, lost>>

Lose ==
    /\ Len(queue) = Capacity
    /\ lost' = TRUE
    /\ UNCHANGED <<queue, taken>>

Take ==
    /\ taken = NoByte /\ queue # <<>>
    /\ taken' = Head(queue)
    /\ queue' = Tail(queue)
    /\ UNCHANGED lost

Finish ==
    /\ taken # NoByte
    /\ taken' = NoByte
    /\ UNCHANGED <<queue, lost>>

Next == (\E b \in Byte : Put(b)) \/ Lose \/ Take \/ Finish

Spec == Init /\ [][Next]_vars
================================================================================
