-------------------------------- MODULE DosRing --------------------------------
(* The ring between the keyboard interrupt and the program in the DOS backend   *)
(* (src/dos/DOSMiniFB.c): keyboard_handler pushes a byte whenever the keyboard  *)
(* has one, between any two instructions of the ring_buffer_pop it interrupts.  *)
(*                                                                              *)
(* ring_buffer is neither volatile nor guarded by a barrier, so a compiler may  *)
(* store the new read_index before it loads the byte: both orders are modelled. *)
EXTENDS Naturals

CONSTANTS
    RingSize,       \* RING_BUFFER_SIZE
    Sent            \* the bytes the keyboard can send

ASSUME RingSizeAssumption == RingSize \in Nat /\ RingSize >= 2
ASSUME SentAssumption == Sent \subseteq 0 .. 255

VARIABLES
    buffer, read_index, write_index,
    pc,             \* where the program is in update_keyboard, "away" if outside
    slot,           \* the read_index that ring_buffer_pop works on
    raw_scancode,
    lost            \* history: ring_buffer_push has answered FALSE

ring == <<buffer, read_index, write_index>>
ringvars == <<ring, pc, slot, raw_scancode, lost>>

Byte == 0 .. 255
Index == 0 .. RingSize - 1

RingInit ==
    /\ buffer = [i \in Index |-> 0] /\ read_index = 0 /\ write_index = 0
    /\ pc = "away" /\ slot = 0 /\ raw_scancode = 0
    /\ lost = FALSE

Following(i) == IF i + 1 >= RingSize THEN 0 ELSE i + 1

\* ring_buffer_push, the whole of it in the interrupt.
Full_Never == FALSE
Full == Following(write_index) = read_index
ring_buffer_push_StoresFirst(b) ==
    /\ buffer' = [buffer EXCEPT ![write_index] = b]
    /\ IF Full THEN lost' = TRUE /\ UNCHANGED write_index
               ELSE write_index' = Following(write_index) /\ UNCHANGED lost
    /\ UNCHANGED <<read_index, pc, slot, raw_scancode>>
ring_buffer_push(b) ==
    /\ \/ Full /\ lost' = TRUE /\ UNCHANGED ring
       \/ /\ ~Full
          /\ buffer' = [buffer EXCEPT ![write_index] = b]
          /\ write_index' = Following(write_index)
          /\ UNCHANGED <<read_index, lost>>
    /\ UNCHANGED <<pc, slot, raw_scancode>>

\* The program enters update_keyboard and asks for a byte until there is none.
EnterLoop ==
    /\ pc = "away"
    /\ pc' = "check"
    /\ UNCHANGED <<ring, slot, raw_scancode, lost>>

PopEmpty ==
    /\ pc = "check" /\ write_index = read_index
    /\ pc' = "away"
    /\ UNCHANGED <<ring, slot, raw_scancode, lost>>

PopStart ==
    /\ pc = "check" /\ write_index # read_index
    /\ pc' = "taking" /\ slot' = read_index
    /\ UNCHANGED <<ring, raw_scancode, lost>>

LoadByte ==
    /\ pc \in {"taking", "advanced"}
    /\ raw_scancode' = buffer[slot]
    /\ pc' = IF pc = "taking" THEN "loaded" ELSE "got"
    /\ UNCHANGED <<ring, slot, lost>>

StoreReadIndex ==
    /\ pc \in {"taking", "loaded"}
    /\ read_index' = Following(slot)
    /\ pc' = IF pc = "taking" THEN "advanced" ELSE "got"
    /\ UNCHANGED <<buffer, write_index, slot, raw_scancode, lost>>

ring_buffer_pop == PopEmpty \/ PopStart \/ LoadByte \/ StoreReadIndex

\* The body of the loop has dealt with the byte.
EndOfBody ==
    /\ pc = "got"
    /\ pc' = "check"
    /\ UNCHANGED <<ring, slot, raw_scancode, lost>>

RingNext ==
    \/ \E b \in Sent : ring_buffer_push(b)
    \/ EnterLoop \/ ring_buffer_pop \/ EndOfBody

RingSpec == RingInit /\ [][RingNext]_ringvars

--------------------------------------------------------------------------------
RingTypeOK ==
    /\ buffer \in [Index -> Byte] /\ read_index \in Index /\ write_index \in Index
    /\ pc \in {"away", "check", "taking", "loaded", "advanced", "got"}
    /\ slot \in Index /\ raw_scancode \in Byte
    /\ lost \in BOOLEAN

\* The bytes in the ring, oldest first, and the byte the program has taken out.
Count == IF write_index >= read_index THEN write_index - read_index
                                      ELSE write_index + RingSize - read_index
Cell(i) == IF read_index + i >= RingSize THEN read_index + i - RingSize ELSE read_index + i
Contents == [i \in 1 .. Count |-> buffer[Cell(i - 1)]]

NoByte == 256
Taken == IF pc = "advanced" THEN buffer[slot] ELSE IF pc = "got" THEN raw_scancode ELSE NoByte

\* The interrupt and the interrupted loop share the ring as a queue: no byte is
\* overwritten before it is read, none is read twice or out of order, in either
\* order of the two stores of ring_buffer_pop, and none is lost unless the ring
\* holds RingSize - 1 of them.
Queue == INSTANCE ByteQueue WITH
    Byte <- Sent, Capacity <- RingSize - 1, NoByte <- NoByte,
    queue <- Contents, taken <- Taken, lost <- lost

ImplementsQueue == Queue!Spec

\* Why it does: while a byte is being taken, the ring is not empty, the program
\* works on its oldest byte, and a byte already loaded is still the one in the ring;
\* once read_index has moved on, a writer that comes round to the slot finds the
\* ring full: the cell that is always kept empty protects it.
TakingInvariant ==
    /\ pc \in {"taking", "loaded"} => read_index # write_index /\ slot = read_index
    /\ pc = "loaded" => raw_scancode = buffer[slot]
    /\ pc = "advanced" => read_index = Following(slot)

RingInvariant == RingTypeOK /\ TakingInvariant
================================================================================
