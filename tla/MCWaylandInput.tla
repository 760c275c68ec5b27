----------------------------- MODULE MCWaylandInput -----------------------------
(* Seat, keyboard and pointer in four settings of the same program: what each    *)
(* leaves out of its inputs does not happen in it.  In a fifth nothing does, and  *)
(* the text of the keys is spelt, here and on X11.                                *)
EXTENDS WaylandInput

CONSTANTS MaxSequence, MaxTyped   \* those of TextInput

VARIABLES path, composes, fed, sequence, pending, text, typed, full  \* of TextInput

textVars == <<path, composes, fed, sequence, pending, text, typed, full>>

T == INSTANCE TextInput

Typing ==
    [keys |-> {"A", "L_SHIFT", "R_SHIFT", "ALTGR"}, buttons |-> {},
     inputs |-> {"key", "focus", "caps", "seat"}, most |-> 4, waiting |-> 6]
Layouts ==
    [keys |-> {"A", "L_SHIFT"}, buttons |-> {},
     inputs |-> {"key", "focus", "layout", "bad_keymap"}, most |-> 4, waiting |-> 6]
Repeating ==
    [keys |-> {"A", "B"}, buttons |-> {},
     inputs |-> {"key", "focus", "repeat", "time"}, most |-> 4, waiting |-> 6]
Pointing ==
    [keys |-> {}, buttons |-> {1, 9},
     inputs |-> {"pointer", "frame", "wheel", "caps", "seat"}, most |-> 5, waiting |-> 4]
Spelling == [keys |-> {}, buttons |-> {}, inputs |-> {}, most |-> 0, waiting |-> 0]
AllSettings == {Typing, Layouts, Repeating, Pointing, Spelling}

NoText ==
    /\ path = "none" /\ composes = FALSE /\ fed = <<>> /\ sequence = <<>>
    /\ pending = "none" /\ text = <<>> /\ typed = <<>> /\ full = FALSE

MCInit == Init /\ IF setting = Spelling THEN T!TextInit /\ focus /\ rate = 0 ELSE NoText
MCNext ==
    IF setting = Spelling THEN T!TextNext /\ UNCHANGED vars ELSE Next /\ UNCHANGED textVars
MCSpec == MCInit /\ [][MCNext]_<<vars, textVars>>

--------------------------------------------------------------------------------
\* When everything is read, the application sees the keys and the focus of the window, a
\* key it was told is down can be read as down, only such a key repeats, and the modifiers
\* are those of the keys down, as long as the layout that names the keys stays.
KeysAgree ==
    /\ TypeOK /\ KeysSettle /\ ToldKeysAreDown /\ RepeatHasItsKey
    /\ Inputs \cap {"layout", "bad_keymap"} = {} => ModifiersAreTrue

\* When everything is read, buttons, enter, leave and wheel are what the user did, through
\* surfaces of the frame, lost devices and seats, and every version of the protocol.
PointerAgrees == ButtonsSettle /\ InsideSettles /\ WheelIsToldOnce

\* The text told is the one the keys spell: nothing typed before a change of focus or layout
\* combines with it, and an abandoned sequence is given back.
TextAgrees == setting = Spelling => T!TextIsTyped
================================================================================
