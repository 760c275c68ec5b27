------------------------------ MODULE DosKeyboard ------------------------------
(* The keyboard of the DOS backend (src/dos/DOSMiniFB.c): a keyboard that turns *)
(* keys into bytes, the interrupt that puts them in the ring (DosRing), and     *)
(* update_keyboard, which decodes them when the program asks for its events.    *)
(*                                                                              *)
(* Bytes are the real ones; of the key tables only the entries of Keys are      *)
(* kept.  Callbacks, text and modifiers follow from what is here and are left   *)
(* out.  The keypad is not positional (MINIFB_DOS_KEYPAD_POSITIONAL undefined). *)
EXTENDS DosRing, Sequences

CONSTANTS
    Keys,           \* the keys under the user's fingers
    MaxStrokes,     \* bound: times a key goes down, repeats or comes up
    MaxWindows      \* bound: windows opened one after the other

VARIABLES
    down,           \* the keys held down by the user
    wire,           \* bytes the keyboard has not delivered yet
    last_scancode_was_extended, pause_bytes_left, caps_lock, num_lock,   \* g_keyboard
    key_status,     \* the keys the window believes to be pressed
    open,           \* there is a window (g_window # NULL)
    bios_caps,      \* Caps Lock as the BIOS saw it last
    caps_on, strokes, windows    \* history: what the user toggled, counters

decoder == <<last_scancode_was_extended, pause_bytes_left, caps_lock, num_lock>>
keyboard == <<down, wire, strokes, caps_on>>
session == <<open, bios_caps, windows>>
kvars == <<ringvars, decoder, key_status, keyboard, session>>

--------------------------------------------------------------------------------
\* The keyboard, scan code set 1: what each key sends going down and coming up.
\* Pause sends all it has at once; the break of a key is its make with bit 7 set.
Make == [LEFT_CONTROL |-> <<29>>, RIGHT_CONTROL |-> <<224, 29>>, A |-> <<30>>,
         CAPS_LOCK |-> <<58>>, NUM_LOCK |-> <<69>>, KP_7 |-> <<71>>, HOME |-> <<224, 71>>,
         SLEEP |-> <<224, 95>>, F13 |-> <<100>>, PAUSE |-> <<225, 29, 69, 225, 157, 197>>]
Break(k) == [i \in DOMAIN Make[k] |-> IF Make[k][i] < 128 THEN Make[k][i] + 128 ELSE Make[k][i]]
SentByKeys == UNION {{Make[k][i] : i \in DOMAIN Make[k]}
                         \cup {Break(k)[i] : i \in DOMAIN Make[k]} : k \in Keys}

Stroke(bytes) ==
    /\ strokes < MaxStrokes
    /\ strokes' = strokes + 1
    /\ wire' = wire \o bytes
    /\ UNCHANGED <<ringvars, decoder, key_status, session>>

KeyDown(k) ==
    /\ k \notin down
    /\ Stroke(Make[k])
    /\ down' = IF k = "PAUSE" THEN down ELSE down \cup {k}
    /\ UNCHANGED caps_on

KeyRepeats(k) == k \in down /\ Stroke(Make[k]) /\ UNCHANGED <<down, caps_on>>

KeyUp(k) ==
    /\ k \in down
    /\ Stroke(Break(k))
    /\ down' = down \ {k}
    /\ caps_on' = IF k = "CAPS_LOCK" THEN ~caps_on ELSE caps_on

--------------------------------------------------------------------------------
\* keyboard_handler, whatever the program is doing.
keyboard_handler ==
    /\ wire # <<>>
    /\ ring_buffer_push(Head(wire))
    /\ wire' = Tail(wire)
    /\ UNCHANGED <<down, strokes, caps_on, decoder, key_status, session>>

\* update_keyboard, called by mfb_update_events of an open window.
update_keyboard ==
    /\ open
    /\ EnterLoop \/ ring_buffer_pop
    /\ UNCHANGED <<decoder, key_status, keyboard, session>>

Pressed == raw_scancode < 128
Scancode == raw_scancode % 128

ScancodeToKey ==
    [c \in 0 .. 88 |-> CASE c = 29 -> "LEFT_CONTROL" [] c = 30 -> "A" [] c = 58 -> "CAPS_LOCK"
                         [] c = 69 -> "NUM_LOCK" [] c = 71 -> "KP_7" [] OTHER -> "UNKNOWN"]
ExtendedScancodeToKey ==
    [c \in 0 .. 93 |-> CASE c = 29 -> "RIGHT_CONTROL" [] c = 71 -> "HOME" [] OTHER -> "UNKNOWN"]

keypad_without_num_lock(key) == IF key = "KP_7" THEN "HOME" ELSE key

\* The end of the loop body, for a byte that completes a key.
Report_KeepsPrefix(key) ==
    /\ key_status' = IF key = "UNKNOWN" THEN key_status
                     ELSE IF Pressed THEN key_status \cup {key} ELSE key_status \ {key}
    /\ caps_lock' = IF key = "CAPS_LOCK" /\ ~Pressed THEN ~caps_lock ELSE caps_lock
    /\ num_lock' = IF key = "NUM_LOCK" /\ ~Pressed THEN ~num_lock ELSE num_lock
    /\ UNCHANGED last_scancode_was_extended
Report(key) ==
    /\ key_status' = IF key = "UNKNOWN" THEN key_status
                     ELSE IF Pressed THEN key_status \cup {key} ELSE key_status \ {key}
    /\ caps_lock' = IF key = "CAPS_LOCK" /\ ~Pressed THEN ~caps_lock ELSE caps_lock
    /\ num_lock' = IF key = "NUM_LOCK" /\ ~Pressed THEN ~num_lock ELSE num_lock
    /\ last_scancode_was_extended' = 0

Decode ==
    /\ EndOfBody
    /\ UNCHANGED <<keyboard, session>>
IsPrefix == raw_scancode \in 224 .. 226

DecodePrefix ==
    /\ Decode /\ IsPrefix
    /\ last_scancode_was_extended' = raw_scancode - 223
    /\ pause_bytes_left' = IF raw_scancode = 225 THEN 2 ELSE pause_bytes_left
    /\ UNCHANGED <<caps_lock, num_lock, key_status>>

DecodePause ==
    /\ Decode /\ ~IsPrefix /\ pause_bytes_left > 0
    /\ pause_bytes_left' = pause_bytes_left - 1
    /\ IF pause_bytes_left = 1
       THEN Report("PAUSE")
       ELSE last_scancode_was_extended' = 0 /\ UNCHANGED <<caps_lock, num_lock, key_status>>

\* A scan code outside the table ends the body early.
DecodeExtended ==
    /\ Decode /\ ~IsPrefix /\ pause_bytes_left = 0 /\ last_scancode_was_extended # 0
    /\ IF Scancode \in DOMAIN ExtendedScancodeToKey
       THEN Report(ExtendedScancodeToKey[Scancode])
       ELSE UNCHANGED <<last_scancode_was_extended, caps_lock, num_lock, key_status>>
    /\ UNCHANGED pause_bytes_left

DecodePlain ==
    /\ Decode /\ ~IsPrefix /\ pause_bytes_left = 0 /\ last_scancode_was_extended = 0
    /\ IF Scancode \in DOMAIN ScancodeToKey
       THEN LET key == ScancodeToKey[Scancode]
            IN  Report(IF num_lock THEN key ELSE keypad_without_num_lock(key))
       ELSE UNCHANGED <<last_scancode_was_extended, caps_lock, num_lock, key_status>>
    /\ UNCHANGED pause_bytes_left

--------------------------------------------------------------------------------
\* The handler stays installed when a window goes; only the window starts afresh.
destroy_window_data ==
    /\ open /\ pc = "away"
    /\ open' = FALSE
    /\ UNCHANGED <<ringvars, decoder, key_status, keyboard, bios_caps, windows>>

mfb_open_ex ==
    /\ ~open /\ windows < MaxWindows
    /\ open' = TRUE /\ windows' = windows + 1
    /\ key_status' = {}
    /\ caps_lock' = (caps_lock \/ bios_caps)
    /\ UNCHANGED <<ringvars, last_scancode_was_extended, pause_bytes_left, num_lock,
                   keyboard, bios_caps>>

\* The first window has just been opened; no key was held.
KInit ==
    /\ RingInit
    /\ last_scancode_was_extended = 0 /\ pause_bytes_left = 0
    /\ bios_caps \in BOOLEAN /\ caps_lock = bios_caps /\ caps_on = bios_caps
    /\ num_lock = FALSE
    /\ key_status = {} /\ down = {} /\ wire = <<>> /\ strokes = 0
    /\ open = TRUE /\ windows = 1

KNext ==
    \/ \E k \in Keys : KeyDown(k) \/ KeyRepeats(k) \/ KeyUp(k)
    \/ keyboard_handler \/ update_keyboard
    \/ DecodePrefix \/ DecodePause \/ DecodeExtended \/ DecodePlain
    \/ destroy_window_data \/ mfb_open_ex

KSpec == KInit /\ [][KNext]_kvars

--------------------------------------------------------------------------------
KTypeOK ==
    /\ RingTypeOK
    /\ down \subseteq Keys /\ wire \in Seq(SentByKeys) /\ strokes \in 0 .. MaxStrokes
    /\ last_scancode_was_extended \in 0 .. 3 /\ pause_bytes_left \in 0 .. 2
    /\ \A b \in {caps_lock, num_lock, open, bios_caps, caps_on} : b \in BOOLEAN
    /\ key_status \subseteq DOMAIN Make
    /\ windows \in 1 .. MaxWindows

\* Everything that was typed has reached the window, and none of it was lost.
Quiet == open /\ pc = "away" /\ wire = <<>> /\ Count = 0 /\ ~lost

\* Once all that was typed has been decoded, the window holds exactly the keys the
\* user holds, those the tables name: no prefix, no Pause sequence and no byte that was cut off from its
\* prefix by the end of a poll leaves a key stuck or takes one for another.  A
\* window opened later knows only the keys that moved since; it holds no other.
KeyNames == {ScancodeToKey[c] : c \in DOMAIN ScancodeToKey}
                \cup {ExtendedScancodeToKey[c] : c \in DOMAIN ExtendedScancodeToKey}
HeldKeysAreDown ==
    Quiet => /\ key_status \subseteq down
             /\ windows = 1 => key_status = down \cap KeyNames

\* "The prefix belongs to the scancode that followed it and to nothing else."
PrefixBelongsToOneScancode ==
    [][pc = "got" /\ pc' = "check" /\ ~IsPrefix => last_scancode_was_extended' = 0]_kvars

\* mfb_get_key_buffer: "One byte for every key. Press (1), Release 0."
ReleasedKeysComeUp == Quiet /\ down = {} => key_status = {}

\* A window opens with Caps Lock as the user has left it: "Sync Caps Lock initial
\* state from BIOS".
CapsLockIsInSync == Quiet => caps_lock = caps_on
================================================================================
