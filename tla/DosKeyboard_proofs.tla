--------------------------- MODULE DosKeyboard_proofs ---------------------------
(* The keyboard of the DOS backend.  First the ring, of any size, with a keyboard  *)
(* that sends any bytes at any time; then what update_keyboard makes of the bytes, *)
(* for any number of strokes of any keys the tables name, and of one they do not,  *)
(* and any number of windows one after the other.                                  *)
EXTENDS DosKeyboard, EventQueues

LEMMA IndexArithmetic ==
    /\ 0 \in Index
    /\ \A i \in Index : Following(i) \in Index
  BY RingSizeAssumption DEF Index, Following

LEMMA BytesFit == Sent \subseteq Byte /\ 0 \in Byte /\ NoByte \notin Byte
  BY SentAssumption DEF Byte, NoByte

LEMMA InvariantStep == RingInvariant /\ [RingNext]_ringvars => RingInvariant'
  <1> SUFFICES ASSUME RingInvariant, [RingNext]_ringvars
               PROVE  RingInvariant'
    OBVIOUS
  <1> USE IndexArithmetic, BytesFit DEF RingInvariant, RingTypeOK, TakingInvariant
  <1>1. ASSUME NEW b \in Sent, ring_buffer_push(b) PROVE RingInvariant'
    <2>1. CASE Full
      BY <1>1, <2>1 DEF ring_buffer_push, ring
    <2>2. CASE ~Full
      <3>1. RingTypeOK'
        BY <1>1, <2>2 DEF ring_buffer_push
      <3>2. pc # "away" /\ pc # "check" /\ pc # "got" => buffer'[slot] = buffer[slot]
        BY <1>1, <2>2 DEF ring_buffer_push, Full
      <3>3. pc \in {"taking", "loaded"} => read_index' # write_index'
        BY <1>1, <2>2 DEF ring_buffer_push, Full
      <3> QED BY <1>1, <2>2, <3>1, <3>2, <3>3 DEF ring_buffer_push
    <2> QED BY <2>1, <2>2
  <1>2. CASE EnterLoop \/ EndOfBody
    BY <1>2 DEF EnterLoop, EndOfBody, ring
  <1>3. CASE PopEmpty \/ PopStart
    BY <1>3 DEF PopEmpty, PopStart, ring
  <1>4. CASE LoadByte
    BY <1>4 DEF LoadByte, ring
  <1>5. CASE StoreReadIndex
    BY <1>5 DEF StoreReadIndex
  <1>6. CASE UNCHANGED ringvars
    BY <1>6 DEF ringvars, ring
  <1> QED BY <1>1, <1>2, <1>3, <1>4, <1>5, <1>6 DEF RingNext, ring_buffer_pop

\* Whatever order the compiler gives to the two stores of ring_buffer_pop, the
\* interrupt never writes into the cell that is being read.
THEOREM RingCorrect == RingSpec => []RingInvariant
  <1>1. RingInit => RingInvariant
    BY IndexArithmetic, BytesFit DEF RingInit, RingInvariant, RingTypeOK, TakingInvariant
  <1> QED BY <1>1, InvariantStep, PTL DEF RingSpec

--------------------------------------------------------------------------------
(* The ring as a sequence.                                                      *)

LEMMA ContentsType ==
    ASSUME RingTypeOK
    PROVE  /\ Count \in 0 .. RingSize - 1
           /\ \A i \in 0 .. RingSize - 1 : Cell(i) \in Index
           /\ Contents \in Seq(Byte) /\ Len(Contents) = Count
           /\ Full <=> Count = RingSize - 1
  <1>1. Count \in 0 .. RingSize - 1
    BY RingSizeAssumption DEF RingTypeOK, Count, Index
  <1>2. \A i \in 0 .. RingSize - 1 : Cell(i) \in Index
    BY RingSizeAssumption DEF RingTypeOK, Cell, Index
  <1>3. \A i \in 1 .. Count : buffer[Cell(i - 1)] \in Byte
    BY <1>1, <1>2, RingSizeAssumption DEF RingTypeOK
  <1>4. Contents \in [1 .. Count -> Byte]
    BY <1>3 DEF Contents
  <1>5. Contents \in Seq(Byte) /\ Len(Contents) = Count
    BY <1>1, <1>4
  <1>6. Full <=> Count = RingSize - 1
    BY RingSizeAssumption DEF RingTypeOK, Full, Following, Count, Index
  <1> QED BY <1>1, <1>2, <1>5, <1>6

\* A push on a ring that is not full appends to the sequence.
LEMMA PushAppends ==
    ASSUME RingTypeOK, ~Full, NEW b \in Byte,
           buffer' = [buffer EXCEPT ![write_index] = b],
           write_index' = Following(write_index), UNCHANGED read_index
    PROVE  Contents' = Append(Contents, b)
  <1> USE RingSizeAssumption DEF RingTypeOK, Index, Following
  <1>1. Count' = Count + 1
    BY DEF Count, Full
  <1>2. Cell(Count) = write_index
    BY DEF Count, Cell
  <1>3. \A i \in 0 .. Count - 1 : Cell(i) # write_index /\ Cell(i) \in Index
    BY DEF Count, Cell
  <1>4. \A i \in Nat : Cell(i)' = Cell(i)
    BY DEF Cell
  <1>5. Contents' = [i \in 1 .. Count + 1 |-> buffer'[Cell(i - 1)]]
    BY <1>1, <1>4, ContentsType DEF Contents
  <1>6. buffer'[Cell(Count)] = b
    BY <1>2
  <1>7. \A i \in 1 .. Count : buffer'[Cell(i - 1)] = Contents[i]
    BY <1>3, ContentsType DEF Contents
  <1>8. /\ Append(Contents, b) \in Seq(Byte)
        /\ Len(Append(Contents, b)) = Count + 1
        /\ \A i \in 1 .. Count : Append(Contents, b)[i] = Contents[i]
        /\ Append(Contents, b)[Count + 1] = b
    <2>1. Contents \in Seq(Byte) /\ Len(Contents) = Count
      BY ContentsType
    <2> QED BY <2>1, AppendProperties
  <1>9. \A i \in 1 .. Count + 1 : buffer'[Cell(i - 1)] = Append(Contents, b)[i]
    <2>1. Count \in Nat
      BY ContentsType
    <2> QED BY <1>6, <1>7, <1>8, <2>1
  <1>10. Append(Contents, b) = [i \in 1 .. Count + 1 |-> Append(Contents, b)[i]]
    <2>1. DOMAIN Append(Contents, b) = 1 .. Count + 1
      BY <1>8, LenProperties
    <2> QED BY <1>8, <2>1, LenProperties
  <1> QED BY <1>5, <1>9, <1>10

\* Moving read_index on takes the head of the sequence off.
LEMMA PopTakesHead ==
    ASSUME RingTypeOK, read_index # write_index,
           read_index' = Following(read_index), UNCHANGED <<buffer, write_index>>
    PROVE  /\ Contents # <<>>
           /\ Head(Contents) = buffer[read_index]
           /\ Contents' = Tail(Contents)
  <1> USE RingSizeAssumption DEF RingTypeOK, Index, Following
  <1>1. Count > 0 /\ Count' = Count - 1
    BY DEF Count
  <1>2. Cell(0) = read_index
    BY DEF Cell
  <1>3. \A i \in 0 .. RingSize - 2 : Cell(i)' = Cell(i + 1)
    BY DEF Cell
  <1>4. Contents # <<>> /\ Head(Contents) = buffer[read_index]
    BY <1>1, <1>2, ContentsType DEF Contents
  <1>5. Contents' = [i \in 1 .. Count - 1 |-> Contents[i + 1]]
    <2>1. \A i \in 1 .. Count - 1 : Cell(i - 1)' = Cell(i)
      BY <1>3, ContentsType
    <2>2. Contents' = [i \in 1 .. Count - 1 |-> buffer[Cell(i)]]
      BY <1>1, <2>1, ContentsType DEF Contents
    <2>3. \A i \in 1 .. Count - 1 : i + 1 \in 1 .. Count /\ (i + 1) - 1 = i
      BY ContentsType
    <2>4. \A i \in 1 .. Count - 1 : Contents[i + 1] = buffer[Cell(i)]
      BY <2>3 DEF Contents
    <2> QED BY <2>2, <2>4
  <1>6. Tail(Contents) = [i \in 1 .. Count - 1 |-> Contents[i + 1]]
    <2>1. /\ Tail(Contents) \in Seq(Byte) /\ Len(Tail(Contents)) = Count - 1
          /\ \A i \in 1 .. Count - 1 : Tail(Contents)[i] = Contents[i + 1]
      BY <1>4, ContentsType, HeadTailProperties
    <2>2. DOMAIN Tail(Contents) = 1 .. Count - 1
      BY <2>1, LenProperties
    <2> QED BY <2>1, <2>2, LenProperties
  <1> QED BY <1>4, <1>5, <1>6

--------------------------------------------------------------------------------
LEMMA QueueInit == RingInit => Queue!Init
  <1> SUFFICES ASSUME RingInit
               PROVE  Queue!Init
    OBVIOUS
  <1>1. Count = 0
    BY DEF RingInit, Count
  <1>2. Contents = <<>>
    BY <1>1 DEF Contents
  <1> QED BY <1>2 DEF RingInit, Queue!Init, Taken

LEMMA QueueStep == RingInvariant /\ [RingNext]_ringvars => [Queue!Next]_Queue!vars
  <1> SUFFICES ASSUME RingInvariant, [RingNext]_ringvars
               PROVE  [Queue!Next]_Queue!vars
    OBVIOUS
  <1> USE DEF RingInvariant
  <1>1. ASSUME NEW b \in Sent, ring_buffer_push(b) PROVE Queue!Next
    <2>1. CASE Full
      <3>1. Len(Contents) = RingSize - 1
        BY <2>1, ContentsType
      <3>2. Contents' = Contents /\ Taken' = Taken /\ lost' = TRUE
        BY <1>1, <2>1 DEF ring_buffer_push, ring, Contents, Count, Cell, Taken
      <3>3. Queue!Lose
        BY <3>1, <3>2 DEF Queue!Lose
      <3> QED BY <3>3 DEF Queue!Next
    <2>2. CASE ~Full
      <3>1. Contents' = Append(Contents, b)
        BY <1>1, <2>2, BytesFit, PushAppends DEF ring_buffer_push
      <3>2. Len(Contents) < RingSize - 1
        BY <2>2, ContentsType, RingSizeAssumption
      <3>3. Taken' = Taken
        BY <1>1, <2>2, IndexArithmetic
           DEF ring_buffer_push, Taken, TakingInvariant, RingTypeOK, Full
      <3>4. Queue!Put(b)
        BY <1>1, <2>2, <3>1, <3>2, <3>3 DEF Queue!Put, ring_buffer_push
      <3> QED BY <3>4, BytesFit DEF Queue!Next
    <2> QED BY <2>1, <2>2
  <1>2. CASE EnterLoop \/ PopEmpty \/ PopStart
    <2>1. Contents' = Contents /\ Taken' = Taken /\ lost' = lost
      BY <1>2 DEF EnterLoop, PopEmpty, PopStart, ring, Contents, Count, Cell, Taken
    <2> QED BY <2>1 DEF Queue!vars
  <1>3. CASE LoadByte
    <2>1. Contents' = Contents /\ lost' = lost
      BY <1>3 DEF LoadByte, ring, Contents, Count, Cell
    <2>2. Taken' = Taken
      BY <1>3 DEF LoadByte, ring, Taken
    <2> QED BY <2>1, <2>2 DEF Queue!vars
  <1>4. CASE StoreReadIndex
    <2>1. /\ Contents # <<>> /\ Head(Contents) = buffer[read_index]
          /\ Contents' = Tail(Contents)
      BY <1>4, PopTakesHead DEF StoreReadIndex, TakingInvariant
    <2>2. Taken = NoByte /\ Taken' = buffer[read_index]
      BY <1>4 DEF StoreReadIndex, Taken, TakingInvariant
    <2>3. Queue!Take
      BY <1>4, <2>1, <2>2 DEF StoreReadIndex, Queue!Take
    <2> QED BY <2>3 DEF Queue!Next
  <1>5. CASE EndOfBody
    <2>1. Contents' = Contents /\ lost' = lost /\ Taken' = NoByte
      BY <1>5 DEF EndOfBody, ring, Contents, Count, Cell, Taken
    <2>2. Taken # NoByte
      BY <1>5, BytesFit DEF EndOfBody, Taken, RingTypeOK
    <2>3. Queue!Finish
      BY <2>1, <2>2 DEF Queue!Finish
    <2> QED BY <2>3 DEF Queue!Next
  <1>6. CASE UNCHANGED ringvars
    BY <1>6 DEF ringvars, ring, Queue!vars, Contents, Count, Cell, Taken
  <1> QED BY <1>1, <1>2, <1>3, <1>4, <1>5, <1>6 DEF RingNext, ring_buffer_pop

\* The ring is a queue of RingSize - 1 bytes: what the interrupt pushes is popped
\* once, in order, and lost only when the ring is full.
THEOREM RingIsAQueue == RingSpec => ImplementsQueue
  BY QueueInit, QueueStep, RingCorrect, PTL DEF RingSpec, ImplementsQueue, Queue!Spec

--------------------------------------------------------------------------------
(* The stream of bytes, from the one the loop is looking at to the last that the   *)
(* keyboard has sent, and what each does to the decoder.                           *)

\* What is assumed of the constants.  The keypad has two names for a key, and an E0 prefix
\* outlives a scan code beyond the table: both are keys that the property is not true of.
KeyAssumptions ==
    /\ Keys \subseteq {"LEFT_CONTROL", "RIGHT_CONTROL", "A", "CAPS_LOCK", "NUM_LOCK", "HOME", "F13", "PAUSE"}
    /\ SentByKeys \subseteq Sent

Stream == (IF Taken = NoByte THEN <<>> ELSE <<Taken>>) \o (Contents \o wire)

\* The prefix, the bytes of Pause still to come, and the keys told.
Names == {"LEFT_CONTROL", "RIGHT_CONTROL", "A", "CAPS_LOCK", "NUM_LOCK", "HOME", "PAUSE"}
DecoderStates == (0 .. 2) \X (0 .. 2) \X SUBSET Names

At(prefix, left, told) == <<prefix, left, told>>

\* A byte, the prefix and the count it finds, and those it leaves.
Silent == {<<224, 0, 0, 1, 0>>, <<225, 0, 0, 2, 2>>, <<29, 2, 2, 0, 1>>, <<157, 2, 2, 0, 1>>,
           <<100, 0, 0, 0, 0>>, <<228, 0, 0, 0, 0>>}
\* The byte of a key going down, what it finds, and the key.  Neither prefix nor count is left.
Telling == {<<29, 0, 0, "LEFT_CONTROL">>, <<30, 0, 0, "A">>, <<58, 0, 0, "CAPS_LOCK">>,
            <<69, 0, 0, "NUM_LOCK">>, <<29, 1, 0, "RIGHT_CONTROL">>, <<71, 1, 0, "HOME">>,
            <<69, 0, 1, "PAUSE">>}
DecoderLeads(b, v, w) ==
    \/ <<b, v[1], v[2], w[1], w[2]>> \in Silent /\ w[3] = v[3]
    \/ /\ w[1] = 0 /\ w[2] = 0
       /\ \E r \in Telling : /\ v[1] = r[2] /\ v[2] = r[3]
                             /\ \/ b = r[1] /\ w[3] = v[3] \cup {r[4]}
                                \/ b = r[1] + 128 /\ w[3] = v[3] \ {r[4]}
DecoderStep == {t \in Byte \X DecoderStates \X DecoderStates : DecoderLeads(t[1], t[2], t[3])}

\* What the stream leaves is what the user holds.  A window opened later starts from
\* less than what was told before it, and every byte keeps it less.
Decoder(told) == At(last_scancode_was_extended, pause_bytes_left, told)
Settled == At(0, 0, down \cap Names)
StreamFollows ==
    \E told \in SUBSET Names :
        /\ Leads(Stream, DecoderStep, DecoderStates, Decoder(told), Settled)
        /\ key_status \subseteq told /\ (windows = 1 => key_status = told)

KeysInv ==
    /\ RingInvariant
    /\ wire \in Seq(Sent) /\ down \subseteq Keys \ {"PAUSE"} /\ windows \in Nat \ {0}
    /\ last_scancode_was_extended \in 0 .. 3 /\ pause_bytes_left \in 0 .. 2
    /\ lost \/ StreamFollows

--------------------------------------------------------------------------------
LEMMA DecoderStepped ==
    ASSUME NEW b \in Byte, NEW v \in DecoderStates, NEW w \in DecoderStates, DecoderLeads(b, v, w)
    PROVE  <<b, v, w>> \in DecoderStep
  BY DEF DecoderStep

LEMMA ByteIsSilent ==
    ASSUME NEW b, NEW x, NEW l, NEW y, NEW m, <<b, x, l, y, m>> \in Silent, NEW K \in SUBSET Names
    PROVE  /\ b \in Byte /\ At(x, l, K) \in DecoderStates /\ At(y, m, K) \in DecoderStates
           /\ <<b, At(x, l, K), At(y, m, K)>> \in DecoderStep
<1>1. b \in Byte /\ x \in 0 .. 2 /\ l \in 0 .. 2 /\ y \in 0 .. 2 /\ m \in 0 .. 2
  BY DEF Silent, Byte
<1>2. At(x, l, K) \in DecoderStates /\ At(y, m, K) \in DecoderStates
  BY <1>1 DEF DecoderStates, At
<1>3. DecoderLeads(b, At(x, l, K), At(y, m, K))
  BY DEF DecoderLeads, At
<1> QED BY <1>1, <1>2, <1>3, DecoderStepped

LEMMA ByteTells ==
    ASSUME NEW r \in Telling, NEW K \in SUBSET Names
    PROVE  /\ r[1] \in Byte /\ r[1] + 128 \in Byte
           /\ At(r[2], r[3], K) \in DecoderStates
           /\ At(0, 0, K \cup {r[4]}) \in DecoderStates /\ At(0, 0, K \ {r[4]}) \in DecoderStates
           /\ <<r[1], At(r[2], r[3], K), At(0, 0, K \cup {r[4]})>> \in DecoderStep
           /\ <<r[1] + 128, At(r[2], r[3], K), At(0, 0, K \ {r[4]})>> \in DecoderStep
<1>1. /\ r[1] \in Byte /\ r[1] + 128 \in Byte /\ r[2] \in 0 .. 2 /\ r[3] \in 0 .. 2 /\ r[4] \in Names
  BY DEF Telling, Byte, Names
<1>2. /\ At(r[2], r[3], K) \in DecoderStates
      /\ At(0, 0, K \cup {r[4]}) \in DecoderStates /\ At(0, 0, K \ {r[4]}) \in DecoderStates
  BY <1>1 DEF DecoderStates, At
<1>3. DecoderLeads(r[1], At(r[2], r[3], K), At(0, 0, K \cup {r[4]}))
  BY DEF DecoderLeads, At
<1>4. DecoderLeads(r[1] + 128, At(r[2], r[3], K), At(0, 0, K \ {r[4]}))
  BY DEF DecoderLeads, At
<1> QED BY <1>1, <1>2, <1>3, <1>4, DecoderStepped

\* The same for a key and a prefix.
LEMMA KeyTells ==
    ASSUME NEW b, NEW x, NEW key, <<b, x, 0, key>> \in Telling, NEW K \in SUBSET Names
    PROVE  /\ b \in Byte /\ b + 128 \in Byte /\ At(x, 0, K) \in DecoderStates
           /\ At(0, 0, K \cup {key}) \in DecoderStates /\ At(0, 0, K \ {key}) \in DecoderStates
           /\ <<b, At(x, 0, K), At(0, 0, K \cup {key})>> \in DecoderStep
           /\ <<b + 128, At(x, 0, K), At(0, 0, K \ {key})>> \in DecoderStep
<1> DEFINE r == <<b, x, 0, key>>
<1>1. r \in Telling /\ r[1] = b /\ r[2] = x /\ r[3] = 0 /\ r[4] = key
  OBVIOUS
<1> HIDE DEF r
<1> QED BY <1>1, ByteTells

LEMMA PauseTells ==
    ASSUME NEW K \in SUBSET Names
    PROVE  /\ <<69, At(0, 1, K), At(0, 0, K \cup {"PAUSE"})>> \in DecoderStep
           /\ <<197, At(0, 1, K), At(0, 0, K \ {"PAUSE"})>> \in DecoderStep
<1> DEFINE r == <<69, 0, 1, "PAUSE">>
<1>1. r \in Telling /\ r[1] = 69 /\ r[2] = 0 /\ r[3] = 1 /\ r[4] = "PAUSE" /\ r[1] + 128 = 197
  BY DEF Telling
<1> HIDE DEF r
<1> QED BY <1>1, ByteTells

\* The strokes of a key.
LEMMA MakeLeads ==
    ASSUME NEW K \in SUBSET Names, "PAUSE" \notin K,
           NEW k \in {"LEFT_CONTROL", "RIGHT_CONTROL", "A", "CAPS_LOCK", "NUM_LOCK", "HOME", "F13", "PAUSE"}
    PROVE  /\ Make[k] \in Seq(Byte)
           /\ Leads(Make[k], DecoderStep, DecoderStates, At(0, 0, K),
                    At(0, 0, IF k \in {"F13", "PAUSE"} THEN K ELSE K \cup {k}))
<1>1. CASE k \in {"LEFT_CONTROL", "A", "CAPS_LOCK", "NUM_LOCK"}
  <2>1. PICK b \in 0 .. 127 : <<b, 0, 0, k>> \in Telling /\ Make[k] = <<b>>
    BY <1>1 DEF Telling, Make
  <2>2. b \in Byte /\ At(0, 0, K) \in DecoderStates /\ At(0, 0, K \cup {k}) \in DecoderStates
        /\ <<b, At(0, 0, K), At(0, 0, K \cup {k})>> \in DecoderStep
    <3>1. <<b, 0, 0, k>> \in Telling
      BY <2>1
    <3> QED BY <3>1, KeyTells
  <2>3. Leads(<<b>>, DecoderStep, DecoderStates, At(0, 0, K), At(0, 0, K \cup {k}))
    BY <2>2, LeadsOne
  <2>4. <<b>> \in Seq(Byte)
    BY <2>2
  <2> QED BY <1>1, <2>1, <2>3, <2>4
<1>2. CASE k \in {"RIGHT_CONTROL", "HOME"}
  <2>1. PICK b \in 0 .. 127 : <<b, 1, 0, k>> \in Telling /\ Make[k] = <<224, b>>
    BY <1>2 DEF Telling, Make
  <2>2. b \in Byte /\ At(1, 0, K) \in DecoderStates /\ At(0, 0, K \cup {k}) \in DecoderStates
        /\ <<b, At(1, 0, K), At(0, 0, K \cup {k})>> \in DecoderStep
    <3>1. <<b, 1, 0, k>> \in Telling
      BY <2>1
    <3> QED BY <3>1, KeyTells
  <2>3. 224 \in Byte /\ At(0, 0, K) \in DecoderStates /\ <<224, At(0, 0, K), At(1, 0, K)>> \in DecoderStep
    BY ByteIsSilent DEF Silent
  <2>4. Leads(<<224, b>>, DecoderStep, DecoderStates, At(0, 0, K), At(0, 0, K \cup {k}))
    BY <2>2, <2>3, LeadsTwo
  <2>5. <<224, b>> \in Seq(Byte)
    BY <2>2, <2>3
  <2> QED BY <1>2, <2>1, <2>4, <2>5
<1>3. CASE k = "F13"
  <2>1. 100 \in Byte /\ At(0, 0, K) \in DecoderStates /\ <<100, At(0, 0, K), At(0, 0, K)>> \in DecoderStep
    BY ByteIsSilent DEF Silent
  <2>2. Leads(<<100>>, DecoderStep, DecoderStates, At(0, 0, K), At(0, 0, K))
    BY <2>1, LeadsOne
  <2>3. <<100>> \in Seq(Byte) /\ Make[k] = <<100>>
    BY <1>3, <2>1 DEF Make
  <2> QED BY <1>3, <2>2, <2>3
<1>4. CASE k = "PAUSE"
  <2> DEFINE L == K \cup {"PAUSE"}
             S == DecoderStates
             T == DecoderStep
  <2>1. L \in SUBSET Names /\ L \ {"PAUSE"} = K
    BY DEF Names
  <2>2. /\ {225, 29, 69, 157, 197} \subseteq Byte
        /\ At(0, 0, K) \in S /\ At(2, 2, K) \in S /\ At(0, 1, K) \in S
        /\ At(0, 0, L) \in S /\ At(2, 2, L) \in S /\ At(0, 1, L) \in S
        /\ <<225, At(0, 0, K), At(2, 2, K)>> \in T /\ <<29, At(2, 2, K), At(0, 1, K)>> \in T
        /\ <<225, At(0, 0, L), At(2, 2, L)>> \in T /\ <<157, At(2, 2, L), At(0, 1, L)>> \in T
    <3>1. \A J \in SUBSET Names :
             /\ <<225, At(0, 0, J), At(2, 2, J)>> \in T /\ <<29, At(2, 2, J), At(0, 1, J)>> \in T
             /\ <<157, At(2, 2, J), At(0, 1, J)>> \in T
      BY ByteIsSilent DEF Silent
    <3>2. \A J \in SUBSET Names : At(0, 0, J) \in S /\ At(2, 2, J) \in S /\ At(0, 1, J) \in S
      BY DEF DecoderStates, At
    <3>3. {225, 29, 69, 157, 197} \subseteq Byte
      BY DEF Byte
    <3> HIDE DEF S, T, L
    <3>4. L \in SUBSET Names
      BY <2>1
    <3>5. At(0, 0, K) \in S /\ At(2, 2, K) \in S /\ At(0, 1, K) \in S
      BY <3>2
    <3>6. At(0, 0, L) \in S /\ At(2, 2, L) \in S /\ At(0, 1, L) \in S
      BY <3>2, <3>4
    <3>7. <<225, At(0, 0, K), At(2, 2, K)>> \in T /\ <<29, At(2, 2, K), At(0, 1, K)>> \in T
      BY <3>1
    <3>8. <<225, At(0, 0, L), At(2, 2, L)>> \in T /\ <<157, At(2, 2, L), At(0, 1, L)>> \in T
      BY <3>1, <3>4
    <3> QED BY <3>3, <3>5, <3>6, <3>7, <3>8
  <2>3. <<69, At(0, 1, K), At(0, 0, L)>> \in T /\ <<197, At(0, 1, L), At(0, 0, K)>> \in T
    <3>1. <<69, At(0, 1, K), At(0, 0, K \cup {"PAUSE"})>> \in T
      BY PauseTells
    <3>2. <<197, At(0, 1, L), At(0, 0, L \ {"PAUSE"})>> \in T
      BY <2>1, PauseTells
    <3> QED BY <2>1, <3>1, <3>2
  <2> HIDE DEF L, S, T
  <2>4. Leads(<<225, 29>>, T, S, At(0, 0, K), At(0, 1, K)) /\ <<225, 29>> \in Seq(Byte)
    BY <2>2, LeadsTwo
  <2>5. Leads(<<69, 225>>, T, S, At(0, 1, K), At(2, 2, L)) /\ <<69, 225>> \in Seq(Byte)
    <3>1. 69 \in Byte /\ 225 \in Byte /\ At(0, 1, K) \in S /\ At(0, 0, L) \in S /\ At(2, 2, L) \in S
      BY <2>2
    <3>2. <<69, At(0, 1, K), At(0, 0, L)>> \in T /\ <<225, At(0, 0, L), At(2, 2, L)>> \in T
      BY <2>2, <2>3
    <3> QED BY <3>1, <3>2, LeadsTwo
  <2>6. Leads(<<157, 197>>, T, S, At(2, 2, L), At(0, 0, K)) /\ <<157, 197>> \in Seq(Byte)
    <3>1. 157 \in Byte /\ 197 \in Byte /\ At(2, 2, L) \in S /\ At(0, 1, L) \in S /\ At(0, 0, K) \in S
      BY <2>2
    <3>2. <<157, At(2, 2, L), At(0, 1, L)>> \in T /\ <<197, At(0, 1, L), At(0, 0, K)>> \in T
      BY <2>2, <2>3
    <3> QED BY <3>1, <3>2, LeadsTwo
  <2>7. /\ Leads(<<225, 29>> \o <<69, 225>>, T, S, At(0, 0, K), At(2, 2, L))
        /\ <<225, 29>> \o <<69, 225>> \in Seq(Byte)
    <3> DEFINE s == <<225, 29>>
               t == <<69, 225>>
    <3>1. /\ Leads(s, T, S, At(0, 0, K), At(0, 1, K)) /\ s \in Seq(Byte)
          /\ Leads(t, T, S, At(0, 1, K), At(2, 2, L)) /\ t \in Seq(Byte)
      BY <2>4, <2>5
    <3> HIDE DEF s, t
    <3>2. Leads(s \o t, T, S, At(0, 0, K), At(2, 2, L)) /\ s \o t \in Seq(Byte)
      BY <3>1, LeadsConcat, ConcatProperties
    <3> QED BY <3>2 DEF s, t
  <2>8. /\ Leads((<<225, 29>> \o <<69, 225>>) \o <<157, 197>>, T, S, At(0, 0, K), At(0, 0, K))
        /\ (<<225, 29>> \o <<69, 225>>) \o <<157, 197>> \in Seq(Byte)
    <3> DEFINE s == <<225, 29>> \o <<69, 225>>
               t == <<157, 197>>
    <3>1. /\ Leads(s, T, S, At(0, 0, K), At(2, 2, L)) /\ s \in Seq(Byte)
          /\ Leads(t, T, S, At(2, 2, L), At(0, 0, K)) /\ t \in Seq(Byte)
      BY <2>6, <2>7
    <3> HIDE DEF s, t
    <3>2. Leads(s \o t, T, S, At(0, 0, K), At(0, 0, K)) /\ s \o t \in Seq(Byte)
      BY <3>1, LeadsConcat, ConcatProperties
    <3> QED BY <3>2 DEF s, t
  <2>9. Make[k] = (<<225, 29>> \o <<69, 225>>) \o <<157, 197>>
    BY <1>4 DEF Make
  <2> QED BY <1>4, <2>8, <2>9 DEF S, T
<1> QED BY <1>1, <1>2, <1>3, <1>4

LEMMA BreakLeads ==
    ASSUME NEW K \in SUBSET Names,
           NEW k \in {"LEFT_CONTROL", "RIGHT_CONTROL", "A", "CAPS_LOCK", "NUM_LOCK", "HOME", "F13"}
    PROVE  /\ Break(k) \in Seq(Byte)
           /\ Leads(Break(k), DecoderStep, DecoderStates, At(0, 0, K), At(0, 0, K \ {k}))
<1>1. CASE k \in {"LEFT_CONTROL", "A", "CAPS_LOCK", "NUM_LOCK"}
  <2>1. PICK b \in 0 .. 127 : <<b, 0, 0, k>> \in Telling /\ Make[k] = <<b>>
    BY <1>1 DEF Telling, Make
  <2>2. b + 128 \in Byte /\ At(0, 0, K) \in DecoderStates /\ At(0, 0, K \ {k}) \in DecoderStates
        /\ <<b + 128, At(0, 0, K), At(0, 0, K \ {k})>> \in DecoderStep
    <3>1. <<b, 0, 0, k>> \in Telling
      BY <2>1
    <3> QED BY <3>1, KeyTells
  <2>3. Leads(<<b + 128>>, DecoderStep, DecoderStates, At(0, 0, K), At(0, 0, K \ {k}))
    BY <2>2, LeadsOne
  <2>4. <<b + 128>> \in Seq(Byte)
    BY <2>2
  <2>5. Break(k) = <<b + 128>>
    BY <2>1 DEF Break
  <2> QED BY <2>3, <2>4, <2>5
<1>2. CASE k \in {"RIGHT_CONTROL", "HOME"}
  <2>1. PICK b \in 0 .. 127 : <<b, 1, 0, k>> \in Telling /\ Make[k] = <<224, b>>
    BY <1>2 DEF Telling, Make
  <2>2. b + 128 \in Byte /\ At(1, 0, K) \in DecoderStates /\ At(0, 0, K \ {k}) \in DecoderStates
        /\ <<b + 128, At(1, 0, K), At(0, 0, K \ {k})>> \in DecoderStep
    <3>1. <<b, 1, 0, k>> \in Telling
      BY <2>1
    <3> QED BY <3>1, KeyTells
  <2>3. 224 \in Byte /\ At(0, 0, K) \in DecoderStates /\ <<224, At(0, 0, K), At(1, 0, K)>> \in DecoderStep
    BY ByteIsSilent DEF Silent
  <2>4. Leads(<<224, b + 128>>, DecoderStep, DecoderStates, At(0, 0, K), At(0, 0, K \ {k}))
    BY <2>2, <2>3, LeadsTwo
  <2>5. <<224, b + 128>> \in Seq(Byte)
    BY <2>2, <2>3
  <2>6. Break(k) = <<224, b + 128>>
    BY <2>1 DEF Break
  <2> QED BY <2>4, <2>5, <2>6
<1>3. CASE k = "F13"
  <2>1. 228 \in Byte /\ At(0, 0, K) \in DecoderStates /\ <<228, At(0, 0, K), At(0, 0, K)>> \in DecoderStep
    BY ByteIsSilent DEF Silent
  <2>2. Leads(<<228>>, DecoderStep, DecoderStates, At(0, 0, K), At(0, 0, K))
    BY <2>1, LeadsOne
  <2>3. <<228>> \in Seq(Byte) /\ Make[k] = <<100>>
    BY <1>3, <2>1 DEF Make
  <2>4. Break(k) = <<228>>
    BY <2>3 DEF Break
  <2>5. K \ {k} = K
    BY <1>3 DEF Names
  <2> QED BY <2>2, <2>3, <2>4, <2>5
<1> QED BY <1>1, <1>2, <1>3

--------------------------------------------------------------------------------
\* What the loop body does with a byte.

LEMMA TellingDecodes ==
    ASSUME NEW r \in Telling
    PROVE  /\ r[1] \in 0 .. 127 /\ r[1] % 128 = r[1] /\ (r[1] + 128) % 128 = r[1]
           /\ r[1] \notin 224 .. 226 /\ r[1] + 128 \notin 224 .. 226
           /\ r[4] \in Names /\ r[4] # "UNKNOWN" /\ r[4] # "KP_7"
           /\ r[3] = 0 \/ (r[3] = 1 /\ r[4] = "PAUSE")
           /\ r[3] = 0 /\ r[2] # 0 => /\ r[1] \in DOMAIN ExtendedScancodeToKey
                                      /\ ExtendedScancodeToKey[r[1]] = r[4]
           /\ r[3] = 0 /\ r[2] = 0 => r[1] \in DOMAIN ScancodeToKey /\ ScancodeToKey[r[1]] = r[4]
<1>1. /\ r[1] \in {29, 30, 58, 69, 71}
      /\ r[4] \in Names /\ r[4] # "UNKNOWN" /\ r[4] # "KP_7"
      /\ r[3] = 0 \/ (r[3] = 1 /\ r[4] = "PAUSE")
      /\ r[3] = 0 /\ r[2] # 0 => <<r[1], r[4]>> \in {<<29, "RIGHT_CONTROL">>, <<71, "HOME">>}
      /\ r[3] = 0 /\ r[2] = 0 => <<r[1], r[4]>> \in {<<29, "LEFT_CONTROL">>, <<30, "A">>,
                                                    <<58, "CAPS_LOCK">>, <<69, "NUM_LOCK">>}
  BY DEF Telling, Names
<1>2. /\ r[1] \in 0 .. 127 /\ r[1] % 128 = r[1] /\ (r[1] + 128) % 128 = r[1]
      /\ r[1] \notin 224 .. 226 /\ r[1] + 128 \notin 224 .. 226
  BY <1>1
<1>3. /\ 29 \in DOMAIN ExtendedScancodeToKey /\ ExtendedScancodeToKey[29] = "RIGHT_CONTROL"
      /\ 71 \in DOMAIN ExtendedScancodeToKey /\ ExtendedScancodeToKey[71] = "HOME"
  BY DEF ExtendedScancodeToKey
<1>4. /\ {29, 30, 58, 69} \subseteq DOMAIN ScancodeToKey
      /\ ScancodeToKey[29] = "LEFT_CONTROL" /\ ScancodeToKey[30] = "A"
      /\ ScancodeToKey[58] = "CAPS_LOCK" /\ ScancodeToKey[69] = "NUM_LOCK"
  BY DEF ScancodeToKey
<1> QED BY <1>1, <1>2, <1>3, <1>4

DecodeAny == DecodePrefix \/ DecodePause \/ DecodeExtended \/ DecodePlain

LEMMA DecodeFollows ==
    ASSUME NEW told \in SUBSET Names, NEW w \in DecoderStates, DecodeAny,
           <<raw_scancode, Decoder(told), w>> \in DecoderStep
    PROVE  /\ Decoder(w[3])' = w
           /\ key_status \subseteq told => key_status' \subseteq w[3]
           /\ key_status = told => key_status' = w[3]
<1> DEFINE x == last_scancode_was_extended
           l == pause_bytes_left
<1>1. PICK y \in 0 .. 2, m \in 0 .. 2, K \in SUBSET Names : w = At(y, m, K)
  BY DEF DecoderStates, At
<1>2. \/ <<raw_scancode, x, l, y, m>> \in Silent /\ K = told
      \/ /\ y = 0 /\ m = 0
         /\ \E r \in Telling : /\ x = r[2] /\ l = r[3]
                               /\ \/ raw_scancode = r[1] /\ K = told \cup {r[4]}
                                  \/ raw_scancode = r[1] + 128 /\ K = told \ {r[4]}
  BY <1>1 DEF DecoderStep, DecoderLeads, Decoder, At
<1>3. ASSUME <<raw_scancode, x, l, y, m>> \in Silent, K = told
      PROVE  x' = y /\ l' = m /\ key_status' = key_status
  <2>1. /\ raw_scancode = 224 => y = 1 /\ m = 0 /\ l = 0
        /\ raw_scancode = 225 => y = 2 /\ m = 2
        /\ raw_scancode \in {29, 157} => l = 2 /\ y = 0 /\ m = 1
        /\ raw_scancode \in {100, 228} => l = 0 /\ x = 0 /\ y = 0 /\ m = 0
        /\ raw_scancode \in {224, 225, 29, 157, 100, 228}
    BY <1>3 DEF Silent
  <2>2. CASE raw_scancode \in {224, 225}
    BY <2>1, <2>2 DEF DecodeAny, IsPrefix, DecodePrefix, DecodePause, DecodeExtended, DecodePlain
  <2>3. CASE raw_scancode \in {29, 157}
    BY <2>1, <2>3 DEF DecodeAny, IsPrefix, DecodePrefix, DecodePause, DecodeExtended, DecodePlain
  <2>4. CASE raw_scancode \in {100, 228}
    <3>1. Scancode = 100 /\ Scancode \notin DOMAIN ScancodeToKey
      BY <2>4 DEF Scancode, ScancodeToKey
    <3> QED BY <2>1, <2>4, <3>1 DEF DecodeAny, IsPrefix, DecodePrefix, DecodePause, DecodeExtended, DecodePlain
  <2> QED BY <2>1, <2>2, <2>3, <2>4
<1>4. ASSUME y = 0, m = 0, NEW r \in Telling, x = r[2], l = r[3],
             NEW b, b = r[1] \/ b = r[1] + 128, raw_scancode = b
      PROVE  Report(r[4]) /\ l' = 0
  <2>1. Scancode = r[1] /\ ~IsPrefix
    BY <1>4, TellingDecodes DEF Scancode, IsPrefix
  <2>2. CASE r[3] = 1
    BY <1>4, <2>1, <2>2, TellingDecodes DEF DecodeAny, DecodePrefix, DecodePause, DecodeExtended, DecodePlain
  <2>3. CASE r[3] = 0 /\ r[2] # 0
    BY <1>4, <2>1, <2>3, TellingDecodes DEF DecodeAny, DecodePrefix, DecodePause, DecodeExtended, DecodePlain
  <2>4. CASE r[3] = 0 /\ r[2] = 0
    <3>1. keypad_without_num_lock(r[4]) = r[4]
      BY TellingDecodes DEF keypad_without_num_lock
    <3> QED BY <1>4, <2>1, <2>4, <3>1, TellingDecodes
         DEF DecodeAny, DecodePrefix, DecodePause, DecodeExtended, DecodePlain
  <2> QED BY <2>2, <2>3, <2>4, TellingDecodes
<1>5. ASSUME NEW r \in Telling, raw_scancode = r[1], Report(r[4]) PROVE key_status' = key_status \cup {r[4]} /\ x' = 0
  BY <1>5, TellingDecodes DEF Report, Pressed
<1>6. ASSUME NEW r \in Telling, raw_scancode = r[1] + 128, Report(r[4]) PROVE key_status' = key_status \ {r[4]} /\ x' = 0
  BY <1>6, TellingDecodes DEF Report, Pressed
<1>7. x' = y /\ l' = m /\ \/ key_status' = key_status /\ K = told
                          \/ \E r \in Telling : \/ key_status' = key_status \cup {r[4]} /\ K = told \cup {r[4]}
                                                \/ key_status' = key_status \ {r[4]} /\ K = told \ {r[4]}
  BY <1>2, <1>3, <1>4, <1>5, <1>6
<1> QED BY <1>1, <1>7 DEF Decoder, At

--------------------------------------------------------------------------------
\* What each step does to the stream.

LEMMA Associative ==
    ASSUME NEW s \in Seq(Byte), NEW t \in Seq(Byte), NEW u \in Seq(Byte)
    PROVE  (s \o t) \o u = s \o (t \o u)
  OBVIOUS

LEMMA AppendTail ==
    ASSUME NEW c \in Seq(Byte), NEW s \in Seq(Byte), s # <<>>
    PROVE  Append(c, Head(s)) \o Tail(s) = c \o s
<1> DEFINE h == <<Head(s)>>
           t == Tail(s)
<1>1. h \in Seq(Byte) /\ t \in Seq(Byte) /\ h \o t = s /\ Append(c, Head(s)) = c \o h
  OBVIOUS
<1> HIDE DEF h, t
<1>2. (c \o h) \o t = c \o (h \o t)
  BY <1>1, Associative
<1> QED BY <1>1, <1>2 DEF t

LEMMA StreamType ==
    ASSUME KeyAssumptions, RingInvariant, wire \in Seq(Sent)
    PROVE  /\ Contents \in Seq(Byte) /\ wire \in Seq(Byte) /\ Contents \o wire \in Seq(Byte)
           /\ Stream \in Seq(Byte) /\ Taken \in Byte \cup {NoByte}
<1>1. Contents \in Seq(Byte)
  BY ContentsType DEF RingInvariant
<1>2. wire \in Seq(Byte)
  <2>1. Sent \subseteq Byte
    BY BytesFit
  <2> QED BY <2>1
<1>3. Taken \in Byte \cup {NoByte}
  BY DEF RingInvariant, RingTypeOK, Taken
<1>4. Contents \o wire \in Seq(Byte)
  BY <1>1, <1>2, ConcatProperties
<1>5. <<>> \in Seq(Byte) /\ (Taken # NoByte => <<Taken>> \in Seq(Byte))
  BY <1>3
<1> QED BY <1>1, <1>2, <1>3, <1>4, <1>5, ConcatProperties DEF Stream

\* A stroke adds its bytes.
LEMMA StreamGrows ==
    ASSUME KeyAssumptions, RingInvariant, wire \in Seq(Sent), NEW s \in Seq(Byte),
           UNCHANGED ringvars, wire' = wire \o s
    PROVE  Stream' = Stream \o s
<1>1. Contents' = Contents /\ Taken' = Taken
  BY DEF ringvars, ring, Contents, Count, Cell, Taken
<1> DEFINE t == IF Taken = NoByte THEN <<>> ELSE <<Taken>>
<1>2. Contents \in Seq(Byte) /\ wire \in Seq(Byte) /\ Contents \o wire \in Seq(Byte) /\ t \in Seq(Byte)
  BY StreamType
<1>3. Contents \o (wire \o s) = (Contents \o wire) \o s
  <2>1. Contents \in Seq(Byte) /\ wire \in Seq(Byte)
    BY <1>2
  <2> QED BY <2>1, Associative
<1> HIDE DEF t
<1>4. t \o ((Contents \o wire) \o s) = (t \o (Contents \o wire)) \o s
  <2> DEFINE c == Contents \o wire
  <2>1. c \in Seq(Byte) /\ t \in Seq(Byte)
    BY <1>2
  <2> HIDE DEF c
  <2>2. t \o (c \o s) = (t \o c) \o s
    BY <2>1, Associative
  <2> QED BY <2>2 DEF c
<1> QED BY <1>1, <1>3, <1>4 DEF Stream, t

\* Nothing else but the loop body takes a byte from it, as long as none is lost.
LEMMA StreamPushed ==
    ASSUME KeyAssumptions, RingInvariant, wire \in Seq(Sent), keyboard_handler, lost' = FALSE
    PROVE  Stream' = Stream
<1>1. wire # <<>> /\ ring_buffer_push(Head(wire)) /\ wire' = Tail(wire)
  BY DEF keyboard_handler
<1>2. /\ ~Full /\ buffer' = [buffer EXCEPT ![write_index] = Head(wire)]
      /\ write_index' = Following(write_index) /\ UNCHANGED <<read_index, pc, slot, raw_scancode>>
  BY <1>1 DEF ring_buffer_push
<1>3. wire \in Seq(Byte) /\ Contents \in Seq(Byte)
  BY StreamType
<1>4. Head(wire) \in Byte /\ Tail(wire) \in Seq(Byte)
  BY <1>1, <1>3, HeadTailProperties
<1>5. Contents' = Append(Contents, Head(wire))
  BY <1>2, <1>4, PushAppends DEF RingInvariant
<1>6. Taken' = Taken
  BY <1>2, IndexArithmetic DEF Taken, RingInvariant, TakingInvariant, RingTypeOK, Full
<1>7. Append(Contents, Head(wire)) \o Tail(wire) = Contents \o wire
  BY <1>1, <1>3, <1>4, AppendTail
<1> QED BY <1>1, <1>5, <1>6, <1>7 DEF Stream

LEMMA StreamPolled ==
    ASSUME KeyAssumptions, RingInvariant, wire \in Seq(Sent), update_keyboard
    PROVE  Stream' = Stream
<1>1. wire' = wire
  BY DEF update_keyboard, keyboard
<1>2. CASE EnterLoop \/ PopEmpty \/ PopStart
  <2>1. Contents' = Contents /\ Taken' = Taken
    BY <1>2 DEF EnterLoop, PopEmpty, PopStart, ring, Contents, Count, Cell, Taken
  <2> QED BY <1>1, <2>1 DEF Stream
<1>3. CASE LoadByte
  <2>1. Contents' = Contents
    BY <1>3 DEF LoadByte, ring, Contents, Count, Cell
  <2>2. Taken' = Taken
    BY <1>3 DEF LoadByte, ring, Taken
  <2> QED BY <1>1, <2>1, <2>2 DEF Stream
<1>4. CASE StoreReadIndex
  <2>1. Contents # <<>> /\ Head(Contents) = buffer[read_index] /\ Contents' = Tail(Contents)
    BY <1>4, PopTakesHead DEF StoreReadIndex, RingInvariant, TakingInvariant
  <2>2. Taken = NoByte /\ Taken' = buffer[read_index] /\ Taken' # NoByte
    BY <1>4, BytesFit DEF StoreReadIndex, Taken, RingInvariant, TakingInvariant, RingTypeOK
  <2>3. Contents \in Seq(Byte) /\ wire \in Seq(Byte) /\ Contents \o wire \in Seq(Byte)
    BY StreamType
  <2>4. Head(Contents) \in Byte /\ Tail(Contents) \in Seq(Byte) /\ <<Head(Contents)>> \in Seq(Byte)
        /\ <<Head(Contents)>> \o Tail(Contents) = Contents
    BY <2>1, <2>3
  <2>5. <<Head(Contents)>> \o (Tail(Contents) \o wire) = Contents \o wire
    <3> DEFINE h == <<Head(Contents)>>
               t == Tail(Contents)
    <3>1. h \in Seq(Byte) /\ t \in Seq(Byte) /\ h \o t = Contents
      BY <2>4
    <3> HIDE DEF h, t
    <3>2. (h \o t) \o wire = h \o (t \o wire)
      <4>1. wire \in Seq(Byte)
        BY <2>3
      <4> QED BY <3>1, <4>1, Associative
    <3> QED BY <3>1, <3>2 DEF h, t
  <2>6. <<>> \o (Contents \o wire) = Contents \o wire
    BY <2>3, ConcatEmptySeq
  <2> QED BY <1>1, <2>1, <2>2, <2>5, <2>6 DEF Stream
<1> QED BY <1>2, <1>3, <1>4 DEF update_keyboard, ring_buffer_pop

LEMMA StreamDecoded ==
    ASSUME KeyAssumptions, RingInvariant, wire \in Seq(Sent), DecodeAny
    PROVE  Stream # <<>> /\ Head(Stream) = raw_scancode /\ Stream' = Tail(Stream)
<1>1. EndOfBody /\ wire' = wire
  BY DEF DecodeAny, DecodePrefix, DecodePause, DecodeExtended, DecodePlain, Decode, keyboard
<1>2. Contents' = Contents /\ Taken = raw_scancode /\ Taken' = NoByte /\ raw_scancode \in Byte
  BY <1>1 DEF EndOfBody, ring, Contents, Count, Cell, Taken, RingInvariant, RingTypeOK
<1>3. Taken # NoByte
  BY <1>2, BytesFit
<1> DEFINE r == Contents \o wire
<1>4. r \in Seq(Byte) /\ <<>> \o r = r
  BY StreamType, ConcatEmptySeq
<1>5. Stream = <<raw_scancode>> \o r /\ Stream' = <<>> \o r
  BY <1>1, <1>2, <1>3 DEF Stream
<1> HIDE DEF r
<1>6. <<raw_scancode>> \o r # <<>> /\ Head(<<raw_scancode>> \o r) = raw_scancode
      /\ Tail(<<raw_scancode>> \o r) = r
  BY <1>2, <1>4
<1> QED BY <1>4, <1>5, <1>6

--------------------------------------------------------------------------------
(* The invariant.                                                               *)

\* Everything the keyboard, the interrupt and the program do is a step of the ring.
LEMMA StepsTheRing ==
    ASSUME KeyAssumptions, wire \in Seq(Sent), [KNext]_kvars
    PROVE  [RingNext]_ringvars
<1>1. ASSUME NEW k \in Keys, KeyDown(k) \/ KeyRepeats(k) \/ KeyUp(k) PROVE UNCHANGED ringvars
  BY <1>1 DEF KeyDown, KeyRepeats, KeyUp, Stroke
<1>2. CASE keyboard_handler
  <2>1. Head(wire) \in Sent /\ ring_buffer_push(Head(wire))
    BY <1>2, HeadTailProperties DEF keyboard_handler
  <2> QED BY <2>1 DEF RingNext
<1>3. CASE update_keyboard
  BY <1>3 DEF update_keyboard, RingNext
<1>4. CASE DecodeAny
  BY <1>4 DEF DecodeAny, DecodePrefix, DecodePause, DecodeExtended, DecodePlain, Decode, RingNext
<1>5. CASE destroy_window_data \/ mfb_open_ex \/ UNCHANGED kvars
  BY <1>5 DEF destroy_window_data, mfb_open_ex, kvars
<1> QED BY <1>1, <1>2, <1>3, <1>4, <1>5 DEF KNext, DecodeAny

LEMMA LostStays == ASSUME [RingNext]_ringvars, lost PROVE lost'
  BY DEF RingNext, ring_buffer_push, EnterLoop, ring_buffer_pop, PopEmpty, PopStart, LoadByte,
         StoreReadIndex, EndOfBody, ringvars

\* A stroke leads from what the user held to what the user holds.
LEMMA StrokeLeads ==
    ASSUME KeyAssumptions, KeysInv, NEW k \in Keys, KeyDown(k) \/ KeyRepeats(k) \/ KeyUp(k)
    PROVE  \E s \in Seq(Byte) : /\ s \in Seq(SentByKeys) /\ wire' = wire \o s
                                /\ Leads(s, DecoderStep, DecoderStates, Settled, Settled')
<1> DEFINE K == down \cap Names
<1>1. /\ k \in {"LEFT_CONTROL", "RIGHT_CONTROL", "A", "CAPS_LOCK", "NUM_LOCK", "HOME", "F13", "PAUSE"}
      /\ K \in SUBSET Names /\ "PAUSE" \notin K
  BY DEF KeyAssumptions, KeysInv
<1>2. CASE KeyDown(k) \/ KeyRepeats(k)
  <2>1. wire' = wire \o Make[k]
    BY <1>2 DEF KeyDown, KeyRepeats, Stroke
  <2>2. Make[k] \in Seq(Byte)
        /\ Leads(Make[k], DecoderStep, DecoderStates, At(0, 0, K),
                 At(0, 0, IF k \in {"F13", "PAUSE"} THEN K ELSE K \cup {k}))
    BY <1>1, MakeLeads
  <2>3. (IF k \in {"F13", "PAUSE"} THEN K ELSE K \cup {k}) = down' \cap Names
    BY <1>1, <1>2 DEF KeyDown, KeyRepeats, Names, KeysInv
  <2>4. Make[k] \in Seq(SentByKeys)
    <3>1. \A i \in DOMAIN Make[k] : Make[k][i] \in SentByKeys
      BY DEF SentByKeys
    <3> QED BY <2>2, <3>1
  <2> QED BY <2>1, <2>2, <2>3, <2>4 DEF Settled
<1>3. CASE KeyUp(k)
  <2>1. wire' = wire \o Break(k) /\ k \in down /\ k # "PAUSE" /\ down' = down \ {k}
    BY <1>3 DEF KeyUp, Stroke, KeysInv
  <2>2. Break(k) \in Seq(Byte)
        /\ Leads(Break(k), DecoderStep, DecoderStates, At(0, 0, K), At(0, 0, K \ {k}))
    BY <1>1, <2>1, BreakLeads
  <2>3. K \ {k} = down' \cap Names
    BY <2>1
  <2>4. Break(k) \in Seq(SentByKeys)
    <3>1. DOMAIN Break(k) = DOMAIN Make[k]
      BY DEF Break
    <3>2. \A i \in DOMAIN Break(k) : Break(k)[i] \in SentByKeys
      BY <3>1 DEF SentByKeys
    <3> QED BY <2>2, <3>2
  <2> QED BY <2>1, <2>2, <2>3, <2>4 DEF Settled
<1> QED BY <1>2, <1>3

LEMMA KeysTypes ==
    ASSUME KeyAssumptions, KeysInv, [KNext]_kvars
    PROVE  /\ RingInvariant'
           /\ wire' \in Seq(Sent) /\ down' \subseteq Keys \ {"PAUSE"} /\ windows' \in Nat \ {0}
           /\ last_scancode_was_extended' \in 0 .. 3 /\ pause_bytes_left' \in 0 .. 2
<1> USE DEF KeysInv
<1>1. RingInvariant'
  BY StepsTheRing, InvariantStep
<1>2. ASSUME NEW k \in Keys, KeyDown(k) \/ KeyRepeats(k) \/ KeyUp(k)
      PROVE  /\ wire' \in Seq(Sent) /\ down' \subseteq Keys \ {"PAUSE"} /\ UNCHANGED <<decoder, windows>>
  <2>1. PICK s \in Seq(SentByKeys) : wire' = wire \o s
    BY <1>2, StrokeLeads
  <2>2. s \in Seq(Sent)
    BY DEF KeyAssumptions
  <2>3. wire' \in Seq(Sent)
    BY <2>1, <2>2, ConcatProperties
  <2>4. down' \subseteq Keys \ {"PAUSE"} /\ UNCHANGED <<decoder, windows>>
    BY <1>2 DEF KeyDown, KeyRepeats, KeyUp, Stroke, session
  <2> QED BY <2>3, <2>4
<1>3. ASSUME keyboard_handler
      PROVE  wire' \in Seq(Sent) /\ UNCHANGED <<decoder, windows, down>>
  BY <1>3, HeadTailProperties DEF keyboard_handler, session
<1>4. ASSUME update_keyboard PROVE UNCHANGED <<decoder, windows, down, wire>>
  BY <1>4 DEF update_keyboard, keyboard, session
<1>5. ASSUME DecodeAny
      PROVE  /\ UNCHANGED <<windows, down, wire>>
             /\ last_scancode_was_extended' \in 0 .. 3 /\ pause_bytes_left' \in 0 .. 2
  <2>1. UNCHANGED <<windows, down, wire>>
    BY <1>5 DEF DecodeAny, DecodePrefix, DecodePause, DecodeExtended, DecodePlain, Decode, keyboard, session
  <2>2. CASE DecodePrefix
    BY <2>1, <2>2 DEF DecodePrefix, IsPrefix
  <2>3. CASE DecodePause
    BY <2>1, <2>3 DEF DecodePause, Report
  <2>4. CASE DecodeExtended \/ DecodePlain
    BY <2>1, <2>4 DEF DecodeExtended, DecodePlain, Report
  <2> QED BY <1>5, <2>1, <2>2, <2>3, <2>4 DEF DecodeAny
<1>6. ASSUME destroy_window_data \/ UNCHANGED kvars PROVE UNCHANGED <<decoder, windows, down, wire>>
  BY <1>6 DEF destroy_window_data, kvars, keyboard, session
<1>7. ASSUME mfb_open_ex
      PROVE  /\ UNCHANGED <<last_scancode_was_extended, pause_bytes_left, down, wire>>
             /\ windows' = windows + 1
  BY <1>7 DEF mfb_open_ex, keyboard
<1> QED BY <1>1, <1>2, <1>3, <1>4, <1>5, <1>6, <1>7 DEF KNext, DecodeAny, decoder

LEMMA KeysStep ==
    ASSUME KeyAssumptions, KeysInv, [KNext]_kvars
    PROVE  KeysInv'
<1>1. lost \in BOOLEAN /\ lost' \in BOOLEAN /\ (lost => lost')
  BY KeysTypes, StepsTheRing, LostStays DEF KeysInv, RingInvariant, RingTypeOK
<1> SUFFICES ASSUME lost = FALSE, lost' = FALSE PROVE StreamFollows'
  BY <1>1, KeysTypes DEF KeysInv
<1>2. RingInvariant /\ wire \in Seq(Sent) /\ Stream \in Seq(Byte)
  BY StreamType DEF KeysInv
<1>3. PICK told \in SUBSET Names :
          /\ Leads(Stream, DecoderStep, DecoderStates, Decoder(told), Settled)
          /\ key_status \subseteq told /\ (windows = 1 => key_status = told)
  BY DEF KeysInv, StreamFollows
<1>4. ASSUME NEW k \in Keys, KeyDown(k) \/ KeyRepeats(k) \/ KeyUp(k) PROVE StreamFollows'
  <2>1. PICK s \in Seq(Byte) : /\ wire' = wire \o s
                               /\ Leads(s, DecoderStep, DecoderStates, Settled, Settled')
    BY <1>4, StrokeLeads
  <2>2. UNCHANGED <<ringvars, decoder, key_status, windows>>
    BY <1>4 DEF KeyDown, KeyRepeats, KeyUp, Stroke, session
  <2>3. Stream' = Stream \o s
    BY <1>2, <2>1, <2>2, StreamGrows
  <2>4. Leads(Stream \o s, DecoderStep, DecoderStates, Decoder(told), Settled')
    BY <1>2, <1>3, <2>1, LeadsConcat
  <2>5. Decoder(told)' = Decoder(told)
    BY <2>2 DEF Decoder, decoder
  <2>6. Leads(Stream, DecoderStep, DecoderStates, Decoder(told), Settled)'
    BY <2>3, <2>4, <2>5
  <2> QED BY <1>3, <2>2, <2>6 DEF StreamFollows
<1>5. ASSUME UNCHANGED <<down, last_scancode_was_extended, pause_bytes_left>>, Stream' = Stream,
             \/ UNCHANGED <<windows, key_status>>
             \/ windows' = windows + 1 /\ key_status' = {}
      PROVE  StreamFollows'
  <2>1. Decoder(told)' = Decoder(told) /\ Settled' = Settled
    BY <1>5 DEF Decoder, Settled
  <2>2. Leads(Stream, DecoderStep, DecoderStates, Decoder(told), Settled)'
    BY <1>3, <1>5, <2>1
  <2>3. key_status' \subseteq told /\ (windows' = 1 => key_status' = told)
    BY <1>3, <1>5 DEF KeysInv
  <2> QED BY <2>2, <2>3 DEF StreamFollows
<1>6. CASE keyboard_handler
  <2>1. Stream' = Stream
    BY <1>2, <1>6, StreamPushed
  <2>2. UNCHANGED <<down, decoder, windows, key_status>>
    BY <1>6 DEF keyboard_handler, session
  <2> QED BY <1>5, <2>1, <2>2 DEF decoder
<1>7. CASE update_keyboard
  <2>1. Stream' = Stream
    BY <1>2, <1>7, StreamPolled
  <2>2. UNCHANGED <<down, decoder, windows, key_status>>
    BY <1>7 DEF update_keyboard, keyboard, session
  <2> QED BY <1>5, <2>1, <2>2 DEF decoder
<1>8. CASE DecodeAny
  <2>1. Stream # <<>> /\ Head(Stream) = raw_scancode /\ Stream' = Tail(Stream)
    BY <1>2, <1>8, StreamDecoded
  <2>2. PICK w \in DecoderStates :
          <<raw_scancode, Decoder(told), w>> \in DecoderStep
          /\ Leads(Tail(Stream), DecoderStep, DecoderStates, w, Settled)
    BY <1>2, <1>3, <2>1, LeadsTail
  <2>3. w[3] \in SUBSET Names
    BY DEF DecoderStates
  <2>4. /\ Decoder(w[3])' = w
        /\ key_status' \subseteq w[3] /\ (key_status = told => key_status' = w[3])
    BY <1>3, <1>8, <2>2, DecodeFollows
  <2>5. UNCHANGED <<down, windows>>
    BY <1>8 DEF DecodeAny, DecodePrefix, DecodePause, DecodeExtended, DecodePlain, Decode, keyboard, session
  <2>6. Settled' = Settled
    BY <2>5 DEF Settled
  <2>7. Leads(Stream', DecoderStep, DecoderStates, Decoder(w[3])', Settled')
    BY <2>1, <2>2, <2>4, <2>6
  <2>8. key_status' \subseteq w[3] /\ (windows' = 1 => key_status' = w[3])
    BY <1>3, <2>4, <2>5
  <2> QED BY <2>3, <2>7, <2>8 DEF StreamFollows
<1>9. ASSUME UNCHANGED ringvars, UNCHANGED wire PROVE Stream' = Stream
  BY <1>9 DEF ringvars, ring, Stream, Contents, Count, Cell, Taken
<1>10. CASE destroy_window_data \/ UNCHANGED kvars
  <2>1. UNCHANGED <<ringvars, wire, down, decoder, windows, key_status>>
    BY <1>10 DEF destroy_window_data, kvars, keyboard, session
  <2> QED BY <1>5, <1>9, <2>1 DEF decoder
<1>11. CASE mfb_open_ex
  <2>1. UNCHANGED <<ringvars, wire, down, last_scancode_was_extended, pause_bytes_left>>
        /\ windows' = windows + 1 /\ key_status' = {}
    BY <1>11 DEF mfb_open_ex, keyboard
  <2> QED BY <1>5, <1>9, <2>1
<1> QED BY <1>4, <1>6, <1>7, <1>8, <1>10, <1>11 DEF KNext, DecodeAny

LEMMA KeysStart == ASSUME KeyAssumptions, KInit PROVE KeysInv
<1>1. RingInvariant
  BY IndexArithmetic, BytesFit DEF KInit, RingInit, RingInvariant, RingTypeOK, TakingInvariant
<1>2. /\ wire = <<>> /\ down = {} /\ windows = 1 /\ key_status = {}
      /\ last_scancode_was_extended = 0 /\ pause_bytes_left = 0
  BY DEF KInit
<1>3. Contents = <<>> /\ Taken = NoByte
  <2>1. Count = 0 /\ Taken = NoByte
    BY DEF KInit, RingInit, Count, Taken
  <2> QED BY <2>1 DEF Contents
<1>4. Stream = <<>>
  <2>1. <<>> \o (<<>> \o <<>>) = <<>>
    OBVIOUS
  <2> QED BY <1>2, <1>3, <2>1 DEF Stream
<1>5. Decoder({}) = At(0, 0, {}) /\ Settled = At(0, 0, {}) /\ At(0, 0, {}) \in DecoderStates
  BY <1>2 DEF Decoder, Settled, DecoderStates, At
<1>6. Leads(<<>>, DecoderStep, DecoderStates, At(0, 0, {}), At(0, 0, {}))
  BY <1>5, LeadsEmpty
<1>7. StreamFollows
  BY <1>2, <1>4, <1>5, <1>6 DEF StreamFollows
<1> QED BY <1>1, <1>2, <1>7 DEF KeysInv

LEMMA KeysSettled ==
    ASSUME KeyAssumptions, KeysInv
    PROVE  HeldKeysAreDown
<1> SUFFICES ASSUME Quiet
             PROVE  key_status \subseteq down /\ (windows = 1 => key_status = down \cap KeyNames)
  BY DEF HeldKeysAreDown
<1>1. wire = <<>> /\ Contents = <<>> /\ Taken = NoByte /\ ~lost
  BY DEF Quiet, Contents, Taken
<1>2. Stream = <<>>
  <2>1. <<>> \o (<<>> \o <<>>) = <<>>
    OBVIOUS
  <2> QED BY <1>1, <2>1 DEF Stream
<1>3. PICK told \in SUBSET Names :
          /\ Leads(<<>>, DecoderStep, DecoderStates, Decoder(told), Settled)
          /\ key_status \subseteq told /\ (windows = 1 => key_status = told)
  BY <1>1, <1>2 DEF KeysInv, StreamFollows
<1>4. told = down \cap Names
  <2>1. PICK f \in [0 .. 0 -> DecoderStates] : f[0] = Decoder(told) /\ f[0] = Settled
    <3>1. Len(<<>>) = 0
      BY EmptySeq
    <3> QED BY <1>3, <3>1 DEF Leads
  <2> QED BY <2>1 DEF Decoder, Settled, At
<1>5. down \cap Names = down \cap KeyNames
  <2>1. /\ 29 \in DOMAIN ScancodeToKey /\ ScancodeToKey[29] = "LEFT_CONTROL"
        /\ 30 \in DOMAIN ScancodeToKey /\ ScancodeToKey[30] = "A"
        /\ 58 \in DOMAIN ScancodeToKey /\ ScancodeToKey[58] = "CAPS_LOCK"
        /\ 69 \in DOMAIN ScancodeToKey /\ ScancodeToKey[69] = "NUM_LOCK"
        /\ \A c \in DOMAIN ScancodeToKey : ScancodeToKey[c] # "F13"
    BY DEF ScancodeToKey
  <2>2. /\ 29 \in DOMAIN ExtendedScancodeToKey /\ ExtendedScancodeToKey[29] = "RIGHT_CONTROL"
        /\ 71 \in DOMAIN ExtendedScancodeToKey /\ ExtendedScancodeToKey[71] = "HOME"
        /\ \A c \in DOMAIN ExtendedScancodeToKey : ExtendedScancodeToKey[c] # "F13"
    BY DEF ExtendedScancodeToKey
  <2>3. {"LEFT_CONTROL", "A", "CAPS_LOCK", "NUM_LOCK", "RIGHT_CONTROL", "HOME"} \subseteq KeyNames
    BY <2>1, <2>2 DEF KeyNames
  <2>4. "F13" \notin KeyNames
    BY <2>1, <2>2 DEF KeyNames
  <2>5. down \subseteq {"LEFT_CONTROL", "RIGHT_CONTROL", "A", "CAPS_LOCK", "NUM_LOCK", "HOME", "F13"}
    BY DEF KeysInv, KeyAssumptions
  <2> QED BY <2>3, <2>4, <2>5 DEF Names
<1> QED BY <1>3, <1>4, <1>5

LEMMA KeysInductive ==
    ASSUME KeyAssumptions
    PROVE  KSpec => []KeysInv
<1>1. KInit => KeysInv
  BY KeysStart
<1>2. KeysInv /\ [KNext]_kvars => KeysInv'
  BY KeysStep
<1> QED BY <1>1, <1>2, PTL DEF KSpec

\* The keyboard, the interrupt and update_keyboard drive the ring as it is meant to be driven,
\* through any number of windows: what is proved of the ring holds of the backend.
THEOREM KeyboardDrivesTheRing ==
    ASSUME KeyAssumptions
    PROVE  KSpec => RingSpec
<1>1. KInit => RingInit
  BY DEF KInit
<1>2. KeysInv /\ [KNext]_kvars => [RingNext]_ringvars
  BY StepsTheRing DEF KeysInv
<1> QED BY <1>1, <1>2, KeysInductive, PTL DEF KSpec, RingSpec

\* Once all that was typed is decoded the window holds the keys that the user holds, whatever
\* the keys but the keypad's and those beyond the tables, however their bytes and the polls
\* interleave; a window opened later holds none that the user does not.
THEOREM HeldKeysAreDownAlways ==
    ASSUME KeyAssumptions
    PROVE  KSpec => []HeldKeysAreDown
<1>1. KeysInv => HeldKeysAreDown
  BY KeysSettled
<1> QED BY <1>1, KeysInductive, PTL

================================================================================
