-------------------------------- MODULE TextInput --------------------------------
(* From keysyms to text: the composition shared by the Wayland and X11 backends  *)
(* (src/MiniFB_xkb.c), and what X11 does with an input context that leaves dead   *)
(* keys to its client, or without xkbcommon (src/x11/X11MiniFB_text*.c).          *)
(*                                                                                *)
(* One dead accent, one Compose key, a letter that takes the accent, one that     *)
(* does not, and a modifier stand for the keysyms.  An input method that composes *)
(* by itself hands over finished text and needs no state here; the characters of  *)
(* a repetition of Wayland bypass the composition and are left out.               *)
EXTENDS Integers, Sequences, SequencesExt

CONSTANTS
    MaxSequence,  \* MFB_XKB_COMPOSE_MAX_SEQUENCE
    MaxTyped      \* bound: keys pressed while the window keeps the focus and the layout

VARIABLES
    path,          \* who turns keys into text: "wayland", "xkb", "input context", "tables"
    composes,      \* compose->state is not NULL
    fed,           \* the sequence in progress in xkb_compose_state
    sequence,      \* the keysyms kept to be given back
    pending,       \* pending_dead_keysym
    text,          \* the code points told since the focus or the layout changed
    typed,         \* history: the keysyms pressed since then
    full           \* history: a keysym did not fit in sequence

state == <<fed, sequence, pending, full>>
textVars == <<path, composes, state, text, typed>>

NoSymbol == "no symbol"
Keysyms == {"acute", "multi", "e", "x", "shift"}
IgnoredByXkb == {"shift"}

\* The Compose file and the tables of X11MiniFB_text_xim.c; the second sequence gives a
\* string that no keysym stands for.
Composed == [s \in {<<"acute", "e">>, <<"multi", "x", "e">>} |->
                IF s[1] = "acute" THEN <<"e acute">> ELSE <<"<", ">">>]
Unfinished(s) == \E t \in DOMAIN Composed : IsStrictPrefix(s, t)

utf32(k) == IF k \in {"e", "x"} THEN <<k>> ELSE <<>>
mfb_xkb_keysym_codepoint(k) == IF k = "acute" THEN <<"spacing acute">> ELSE utf32(k)
Characters(s) == FlattenSeq([i \in DOMAIN s |-> mfb_xkb_keysym_codepoint(s[i])])

Tell(characters) == text' = text \o characters

--------------------------------------------------------------------------------
mfb_xkb_compose_reset == fed' = <<>> /\ sequence' = <<>>

Status(k) ==
    LET s == Append(fed, k) IN
    CASE k \in IgnoredByXkb -> IF fed = <<>> THEN "nothing" ELSE "composing"
      [] s \in DOMAIN Composed -> "composed"
      [] Unfinished(s) -> "composing"
      [] OTHER -> IF fed = <<>> THEN "nothing" ELSE "cancelled"

\* Mutant: the keysyms kept are thrown away.
LastKeyOnly(k) == mfb_xkb_keysym_codepoint(k)

emit_cancelled_sequence(k) == Characters(Append(sequence, k))

\* With what its callers do when it answers false: the text of the key itself.
mfb_xkb_compose_feed(k) ==
    /\ UNCHANGED pending
    /\ CASE ~composes \/ Status(k) = "nothing" ->
              Tell(utf32(k)) /\ UNCHANGED <<fed, sequence, full>>
         [] composes /\ Status(k) = "composed" ->
              Tell(Composed[Append(fed, k)]) /\ mfb_xkb_compose_reset /\ UNCHANGED full
         [] composes /\ Status(k) = "cancelled" ->
              Tell(emit_cancelled_sequence(k)) /\ mfb_xkb_compose_reset /\ UNCHANGED full
         [] composes /\ Status(k) = "composing" ->
              /\ fed' = (IF k \in IgnoredByXkb THEN fed ELSE Append(fed, k))
              /\ IF Len(sequence) < MaxSequence
                 THEN sequence' = Append(sequence, k) /\ UNCHANGED full
                 ELSE full' = TRUE /\ UNCHANGED sequence
              /\ UNCHANGED text

emit_codepoint_with_dead_state(k) ==
    /\ Tell(IF pending = NoSymbol THEN <<k>>
            ELSE IF <<pending, k>> \in DOMAIN Composed THEN Composed[<<pending, k>>]
            ELSE mfb_xkb_keysym_codepoint(pending) \o <<k>>)
    /\ pending' = NoSymbol

\* A key without a character drops the accent only where no input context reports the key.
x11_text_xim_dispatch(k) ==
    /\ CASE k = "acute" -> pending' = k /\ UNCHANGED text
         [] utf32(k) # <<>> -> emit_codepoint_with_dead_state(k)
         [] OTHER -> /\ pending' = (IF path = "tables" THEN NoSymbol ELSE pending)
                     /\ UNCHANGED text
    /\ UNCHANGED <<fed, sequence, full>>

Press(k) ==
    /\ Len(typed) < MaxTyped /\ typed' = Append(typed, k)
    /\ IF path \in {"wayland", "xkb"} THEN mfb_xkb_compose_feed(k) ELSE x11_text_xim_dispatch(k)
    /\ UNCHANGED <<path, composes>>

StartAfresh == typed' = <<>> /\ text' = <<>> /\ full' = FALSE

\* x11_text_focus, and reset_keyboard_state of Wayland.
LoseFocus ==
    /\ typed # <<>> /\ StartAfresh
    /\ mfb_xkb_compose_reset
    /\ pending' = NoSymbol
    /\ UNCHANGED <<path, composes>>

\* keyboard_keymap calls mfb_xkb_compose_init, which may find no Compose file.
ChangeLayout ==
    /\ path = "wayland" /\ typed # <<>> /\ StartAfresh
    /\ mfb_xkb_compose_reset
    /\ composes' \in BOOLEAN
    /\ UNCHANGED <<path, pending>>

TextInit ==
    /\ path \in {"wayland", "xkb", "input context", "tables"}
    /\ composes \in (IF path \in {"wayland", "xkb"} THEN BOOLEAN ELSE {FALSE})
    /\ fed = <<>> /\ sequence = <<>> /\ pending = NoSymbol /\ full = FALSE
    /\ text = <<>> /\ typed = <<>>
TextNext == (\E k \in Keysyms : Press(k)) \/ LoseFocus \/ ChangeLayout
TextSpec == TextInit /\ [][TextNext]_textVars

--------------------------------------------------------------------------------
\* What the keys mean, read from the first to the last: each sequence of the Compose file is
\* its text, and keys that begin one and leave it are the characters they show.
Reading(keys) ==
    LET Key == SelectSeq(keys, LAMBDA k : k \notin IgnoredByXkb)
        Ends(i) == {j \in i .. Len(Key) : ~Unfinished(SubSeq(Key, i, j))}
        From[i \in 1 .. Len(Key) + 1] ==
            IF i > Len(Key) \/ Ends(i) = {} THEN <<>>
            ELSE LET j == CHOOSE j \in Ends(i) : \A n \in Ends(i) : j <= n
                     s == SubSeq(Key, i, j)
                 IN  (IF s \in DOMAIN Composed THEN Composed[s]
                      ELSE IF i = j THEN utf32(Key[i]) ELSE Characters(s)) \o From[j + 1]
    IN  From[1]

\* An accent belongs to the character pressed next; an accent that another one follows is
\* dropped, and without an input context so is one followed by a key without a character.
AccentedReading(keys) ==
    LET Key == IF path = "tables" THEN keys
               ELSE SelectSeq(keys, LAMBDA k : k \notin {"shift", "multi"})
        Show(i) == IF i = 1 \/ Key[i - 1] # "acute" \/ utf32(Key[i]) = <<>> THEN utf32(Key[i])
                   ELSE IF Key[i] = "e" THEN <<"e acute">> ELSE <<"spacing acute", Key[i]>>
    IN  FlattenSeq([i \in DOMAIN Key |-> Show(i)])

\* The text is that of the keys pressed since the focus came or the layout changed, in their
\* order and nothing twice: no key of an earlier visit combines with it, and an abandoned
\* sequence is given back, unless it was longer than what the library keeps.
TextIsTyped ==
    \/ full
    \/ text = IF path \notin {"wayland", "xkb"} THEN AccentedReading(typed)
              ELSE IF composes THEN Reading(typed)
              ELSE FlattenSeq([i \in DOMAIN typed |-> utf32(typed[i])])
================================================================================
