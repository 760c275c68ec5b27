------------------------------ MODULE WaylandInput ------------------------------
(* Seat, keyboard and pointer of the Wayland backend (src/wayland/             *)
(* WaylandMiniFB.c and WaylandMiniFB_input_keyboard.c) and the compositor that  *)
(* serves them.  Capabilities come and go, the seat can be removed, the focus   *)
(* moves, and every event waits in one queue until the program polls; a poll    *)
(* ends with the repetition of a held key that is due.                          *)
(*                                                                              *)
(* A wheel turn is measured in notches.  Positions and the compilation of a     *)
(* keymap are left out: a keymap is good or bad.  The text is in TextInput.     *)
EXTENDS Integers, Sequences, SequencesExt

CONSTANTS
    Settings,   \* what a behaviour may choose from, records of:
                \*   keys     the keys of the keyboard: letters, "L_SHIFT", "R_SHIFT", "ALTGR"
                \*   buttons  mouse buttons, BTN_LEFT is 1
                \*   inputs   what happens outside the program: "key", "focus", "repeat", "time",
                \*            "caps", "seat", "layout", "bad_keymap", "pointer", "wheel", "frame"
                \*   waiting  bound: events waiting for the program
                \*   most     bound: inputs
    Delay,      \* time before a held key repeats
    Interval,   \* time between two repeats
    MaxTime     \* bound: the clock

NoKey == "none"
ASSUME SettingsAssumption ==
    \A s \in Settings :
        /\ {NoKey, "null"} \cap s.keys = {} /\ s.buttons \subseteq Nat \ {0}
        /\ s.waiting \in Nat /\ s.most \in Nat
ASSUME TimesAssumption == Delay \in Nat /\ Interval \in Nat \ {0} /\ MaxTime \in Nat

VARIABLES
    setting,             \* the one of Settings this behaviour is in
    \* the compositor and the user
    caps, serves,        \* the capabilities of the seat; the wl_keyboard and wl_pointer it sends to
    keys, focus, rate,   \* keys held down; the window has the focus; 1 if the program repeats keys
    surface, buttons,    \* the surface under the pointer, the buttons held over it
    version, turned,     \* version of the seat; notches turned over the window
    now, queue, given,
    astray,              \* history: the release of a button on the title bar went to the compositor
    \* SWindowData
    key_status, mod_keys, button_status, is_mouse_inside, is_active,
    \* SWindowData_Way
    seat, keyboard, pointer,
    xkb_state,           \* NULL, or the keys pressed in it and its modifiers
    repeat_rate, repeat_active, repeat_key, repeat_deadline,
    axis_frame,
    \* what the callbacks have told the application, and when the repeating key was pressed
    told, since

user == <<caps, serves, keys, focus, rate, surface, buttons, version, turned, now, queue, given, astray>>
keystate == <<key_status, mod_keys, is_active, xkb_state>>
repeat == <<repeat_rate, repeat_active, repeat_key, repeat_deadline>>
mouse == <<button_status, is_mouse_inside, axis_frame>>
objects == <<seat, keyboard, pointer>>
vars == <<setting, user, keystate, repeat, mouse, objects, told, since>>

Keys == setting.keys
Buttons == setting.buttons
Inputs == setting.inputs

NULL == [down |-> {"null"}, mods |-> {}]
Fresh == [down |-> {}, mods |-> {}]
EmptyFrame == [pending |-> FALSE, continuous |-> 0, discrete |-> 0, value120 |-> 0]

\* What the layout calls a modifier, and what MiniFB adds to it: AltGr.
Shifts == {"L_SHIFT", "R_SHIFT"}
XkbMods(held) == IF held \cap Shifts = {} THEN {} ELSE {"SHIFT"}
Mods(held) == XkbMods(held) \cup (IF "ALTGR" \in held THEN {"ALT"} ELSE {})
Repeats(k) == k \notin Shifts \cup {"ALTGR"}

--------------------------------------------------------------------------------
\* The compositor: what the user does, and the events it queues.
Allows(kind) == kind \in Inputs /\ given < setting.most
Send(events) == Len(queue) + Len(events) <= setting.waiting /\ queue' = queue \o events
Listens == focus /\ "keyboard" \in serves

KeyEvent(k, state, held) == [type |-> "key", key |-> k, state |-> state, mods |-> Mods(held)]
ModEvent(held) == [type |-> "modifiers", mods |-> XkbMods(held)]
Enter(held) == << [type |-> "enter", keys |-> held], ModEvent(held) >>

Key(k) ==
    /\ Allows("key") /\ "keyboard" \in caps
    /\ keys' = (keys \ {k}) \cup ({k} \ keys) /\ given' = given + 1
    /\ Send(IF Listens
            THEN <<KeyEvent(k, IF k \in keys THEN "released" ELSE "pressed", keys')>>
                     \o (IF XkbMods(keys) = XkbMods(keys') THEN <<>> ELSE <<ModEvent(keys')>>)
            ELSE <<>>)
    /\ UNCHANGED <<caps, serves, focus, rate, surface, buttons, version, turned, now, astray>>

\* A compositor that repeats keys itself announces the rate 0.
RepeatKey(k) ==
    /\ Allows("repeat") /\ Listens /\ rate = 0 /\ k \in keys /\ Repeats(k)
    /\ given' = given + 1
    /\ Send(<<KeyEvent(k, "repeated", keys)>>)
    /\ UNCHANGED <<caps, serves, keys, focus, rate, surface, buttons, version, turned, now, astray>>

SetRate(r) ==
    /\ Allows("repeat") /\ r # rate /\ "keyboard" \in serves
    /\ rate' = r /\ given' = given + 1
    /\ Send(<<[type |-> "repeat_info", rate |-> r]>>)
    /\ UNCHANGED <<caps, serves, keys, focus, surface, buttons, version, turned, now, astray>>

ChangeFocus ==
    /\ Allows("focus")
    /\ focus' = ~focus /\ given' = given + 1
    /\ Send(CASE Listens -> <<[type |-> "leave"]>>
              [] "keyboard" \in serves /\ ~focus -> Enter(keys)
              [] OTHER -> <<>>)
    /\ UNCHANGED <<caps, serves, keys, rate, surface, buttons, version, turned, now, astray>>

ChangeLayout ==
    /\ Allows("layout") /\ Listens
    /\ given' = given + 1
    /\ Send(<<[type |-> "keymap", keymap |-> "good"], ModEvent(keys)>>)
    /\ UNCHANGED <<caps, serves, keys, focus, rate, surface, buttons, version, turned, now, astray>>

\* Devices are plugged in and out; with the last one goes what it held.
Plug(c, event) ==
    /\ caps' = c /\ serves' = serves \cap c /\ given' = given + 1
    /\ keys' = (IF "keyboard" \in c THEN keys ELSE {})
    /\ surface' = (IF "pointer" \in c THEN surface ELSE "none")
    /\ buttons' = (IF "pointer" \in c THEN buttons ELSE {})
    /\ Send(<<event>>)
    /\ UNCHANGED <<focus, rate, version, turned, now, astray>>
Offered == seat /\ \A i \in 1 .. Len(queue) : queue[i].type # "global_remove"
ChangeCaps(c) == Allows("caps") /\ Offered /\ c # caps /\ Plug(c, [type |-> "capabilities", caps |-> c])
RemoveSeat == Allows("seat") /\ Offered /\ Plug({}, [type |-> "global_remove"])
AddSeat ==
    /\ Allows("seat") /\ ~seat
    /\ given' = given + 1
    /\ Send(<<[type |-> "global"]>>)
    /\ UNCHANGED <<caps, serves, keys, focus, rate, surface, buttons, version, turned, now, astray>>

\* The compositor answers get_keyboard and get_pointer.
NoCapsPending == \A i \in 1 .. Len(queue) : queue[i].type \notin {"capabilities", "global_remove"}
ServeKeyboard(keymap) ==
    /\ keyboard /\ "keyboard" \in caps \ serves /\ NoCapsPending
    /\ keymap = "good" \/ "bad_keymap" \in Inputs
    /\ serves' = serves \cup {"keyboard"}
    /\ Send(<<[type |-> "keymap", keymap |-> keymap], [type |-> "repeat_info", rate |-> rate]>>
            \o (IF focus THEN Enter(keys) ELSE <<>>))
    /\ UNCHANGED <<caps, keys, focus, rate, surface, buttons, version, turned, now, given, astray>>
ServePointer ==
    /\ pointer /\ "pointer" \in caps \ serves /\ NoCapsPending
    /\ serves' = serves \cup {"pointer"}
    /\ UNCHANGED <<caps, keys, focus, rate, surface, buttons, version, turned, now, queue, given, astray>>

\* The window keeps the pointer while a button is down.
Surfaces == {"none", "content"} \cup (IF "frame" \in Inputs THEN {"frame"} ELSE {})
PointerEvent(type, s) == IF s = "none" THEN <<>> ELSE <<[type |-> type, surface |-> s]>>
MovePointer(s) ==
    /\ Allows("pointer") /\ "pointer" \in serves /\ s # surface /\ buttons = {}
    /\ surface' = s /\ given' = given + 1
    /\ Send(PointerEvent("pointer_leave", surface) \o PointerEvent("pointer_enter", s))
    /\ UNCHANGED <<caps, serves, keys, focus, rate, buttons, version, turned, now, astray>>

Button(b) ==
    /\ Allows("pointer") /\ surface # "none"
    /\ buttons' = (buttons \ {b}) \cup ({b} \ buttons) /\ given' = given + 1
    /\ Send(<<[type |-> "button", button |-> b,
             state |-> IF b \in buttons THEN "released" ELSE "pressed"]>>)
    /\ UNCHANGED <<caps, serves, keys, focus, rate, surface, version, turned, now, astray>>

\* A press on the title bar becomes a move of the window: the compositor takes the pointer.
DragTitleBar ==
    /\ Allows("frame") /\ surface = "frame" /\ buttons # {}
    /\ surface' = "none" /\ buttons' = {} /\ astray' = TRUE /\ given' = given + 1
    /\ Send(PointerEvent("pointer_leave", surface))
    /\ UNCHANGED <<caps, serves, keys, focus, rate, version, turned, now>>

\* One notch is sent as the distance it scrolls, here two, and from version 5 on also as
\* steps, from version 8 on in units of 1/120; a finger sends the distance alone.
Turn(finger) ==
    LET axis == [type |-> "axis", value |-> 2]
        step == IF version >= 8 THEN [type |-> "axis_value120", value |-> 120]
                                ELSE [type |-> "axis_discrete", value |-> 1]
        steps == version >= 5 /\ ~finger
    IN  /\ Allows("wheel") /\ surface # "none"
        /\ turned' = turned + (IF steps THEN 1 ELSE 2) /\ given' = given + 1
        /\ Send(<<axis>> \o (IF steps THEN <<step>> ELSE <<>>)
                         \o (IF version >= 5 THEN <<[type |-> "frame"]>> ELSE <<>>))
        /\ UNCHANGED <<caps, serves, keys, focus, rate, surface, buttons, version, now, astray>>

Tick ==
    /\ "time" \in Inputs /\ now < MaxTime
    /\ now' = now + 1
    /\ UNCHANGED <<caps, serves, keys, focus, rate, surface, buttons, version, turned, queue, given, astray>>

User ==
    /\ \/ \E k \in Keys : Key(k) \/ RepeatKey(k)
       \/ \E r \in {0, 1} : SetRate(r)
       \/ ChangeFocus \/ ChangeLayout \/ RemoveSeat \/ AddSeat
       \/ \E c \in SUBSET {"keyboard", "pointer"} : ChangeCaps(c)
       \/ \E keymap \in {"good", "bad"} : ServeKeyboard(keymap)
       \/ ServePointer
       \/ \E s \in Surfaces : MovePointer(s)
       \/ \E b \in Buttons : Button(b)
       \/ DragTitleBar
       \/ \E finger \in BOOLEAN : Turn(finger)
       \/ Tick
    /\ UNCHANGED <<keystate, repeat, mouse, objects, told, since>>

--------------------------------------------------------------------------------
\* The program.  The keyboard: one handler per event of wl_keyboard.
update_key(k, pressed) ==
    LET down == IF pressed THEN xkb_state.down \cup {k} ELSE xkb_state.down \ {k} IN
    [down |-> down,
     mods |-> IF pressed \/ k \in xkb_state.down
              THEN (xkb_state.mods \ XkbMods({k})) \cup XkbMods(down) ELSE xkb_state.mods]

reset_keyboard_state ==
    /\ key_status' = {} /\ mod_keys' = {} /\ repeat_active' = FALSE
    /\ xkb_state' = (IF xkb_state = NULL THEN NULL ELSE Fresh)

\* The release of a key held by this window goes to whichever has the focus now.
wayland_clear_keyboard_focus_state ==
    /\ is_active' = FALSE
    /\ told' = [told EXCEPT !.active = FALSE, !.keys = @ \ key_status]
    /\ reset_keyboard_state
    /\ UNCHANGED <<repeat_rate, repeat_key, repeat_deadline, since>>

keyboard_keymap(e) ==
    /\ repeat_active' = FALSE
    /\ xkb_state' = (IF e.keymap = "good" THEN Fresh ELSE xkb_state)
    /\ UNCHANGED <<key_status, mod_keys, is_active, repeat_rate, repeat_key, repeat_deadline, told, since>>

\* Mutant: the keys already held are not read.
EnterForgetsKeys(e) ==
    /\ is_active' = TRUE /\ reset_keyboard_state
    /\ told' = [told EXCEPT !.active = TRUE]
    /\ UNCHANGED <<repeat_rate, repeat_key, repeat_deadline, since>>

keyboard_enter(e) ==
    /\ is_active' = TRUE /\ repeat_active' = FALSE
    /\ key_status' = e.keys
    /\ mod_keys' = Mods(e.keys)
    /\ xkb_state' = (IF xkb_state = NULL THEN NULL ELSE [down |-> e.keys, mods |-> XkbMods(e.keys)])
    /\ told' = [told EXCEPT !.active = TRUE]
    /\ UNCHANGED <<repeat_rate, repeat_key, repeat_deadline, since>>

Arm(k) ==
    IF repeat_rate > 0 /\ Repeats(k)
    THEN /\ repeat_active' = TRUE /\ repeat_key' = k
         /\ repeat_deadline' = now + Delay /\ since' = now
    ELSE UNCHANGED <<repeat_active, repeat_key, repeat_deadline, since>>
Cancel(k) ==
    /\ repeat_active' = (repeat_active /\ repeat_key # k)
    /\ UNCHANGED <<repeat_key, repeat_deadline, since>>

keyboard_key(e) ==
    LET pressed == e.state # "released"
        states == e.state # "repeated" /\ xkb_state # NULL
        status == IF pressed THEN key_status \cup {e.key} ELSE key_status \ {e.key}
        mods == (IF states THEN update_key(e.key, pressed).mods ELSE mod_keys) \cup Mods(status)
    IN  /\ xkb_state' = (IF states THEN update_key(e.key, pressed) ELSE xkb_state)
        /\ key_status' = status /\ mod_keys' = mods
        /\ told' = [told EXCEPT !.keys = IF pressed THEN @ \cup {e.key} ELSE @ \ {e.key},
                                !.mods = mods, !.real = e.mods]
        /\ CASE states /\ pressed -> Arm(e.key)
             [] states /\ ~pressed -> Cancel(e.key)
             [] OTHER -> UNCHANGED <<repeat_active, repeat_key, repeat_deadline, since>>
        /\ UNCHANGED <<is_active, repeat_rate>>

keyboard_modifiers(e) ==
    /\ IF xkb_state = NULL THEN UNCHANGED <<xkb_state, mod_keys>>
       ELSE /\ xkb_state' = [xkb_state EXCEPT !.mods = e.mods]
            /\ mod_keys' = e.mods \cup Mods(key_status)
    /\ UNCHANGED <<key_status, is_active, repeat, told, since>>

keyboard_repeat_info(e) ==
    /\ repeat_rate' = e.rate
    /\ repeat_active' = (repeat_active /\ e.rate > 0)
    /\ UNCHANGED <<keystate, repeat_key, repeat_deadline, told, since>>

\* Mutant: scheduled from now.
FromNow == now + Interval

\* The first deadline after now of those the compositor asked for.
NextDeadline == CHOOSE d \in now + 1 .. now + Interval : (d - repeat_deadline) % Interval = 0

wayland_emit_due_key_repeats ==
    /\ repeat_active /\ repeat_deadline <= now
    /\ key_status' = key_status \cup {repeat_key}
    /\ told' = [told EXCEPT !.keys = @ \cup {repeat_key}]
    /\ repeat_deadline' = NextDeadline
    /\ UNCHANGED <<user, mod_keys, is_active, xkb_state, repeat_rate, repeat_active, repeat_key,
                   mouse, objects, since>>

--------------------------------------------------------------------------------
\* The pointer: one handler per event of wl_pointer.
\* Mutant: the surfaces of the frame count as the window.
AnySurface(s, inside) == inside

Inside(s, inside) == IF s = "content" THEN inside ELSE is_mouse_inside

update_mouse_inside(s, inside) ==
    /\ is_mouse_inside' = Inside(s, inside)
    /\ told' = [told EXCEPT !.inside = IF Inside(s, inside) = is_mouse_inside THEN @ ELSE inside]

pointer_enter(e) ==
    /\ update_mouse_inside(e.surface, TRUE)
    /\ UNCHANGED <<button_status, axis_frame>>
pointer_leave(e) ==
    /\ update_mouse_inside(e.surface, FALSE)
    /\ axis_frame' = EmptyFrame /\ UNCHANGED button_status

pointer_button(e) ==
    LET Set(held) == IF e.state = "pressed" THEN held \cup {e.button} ELSE held \ {e.button} IN
    /\ IF e.button > 7 THEN UNCHANGED <<button_status, told>>
       ELSE button_status' = Set(button_status) /\ told' = [told EXCEPT !.buttons = Set(@)]
    /\ UNCHANGED <<is_mouse_inside, axis_frame>>

Wheel(delta) == told' = [told EXCEPT !.wheel = @ + delta]

pointer_axis(e) ==
    /\ IF version < 5
       THEN Wheel(e.value) /\ UNCHANGED axis_frame
       ELSE /\ axis_frame' = [axis_frame EXCEPT !.pending = TRUE, !.continuous = @ + e.value]
            /\ UNCHANGED told
    /\ UNCHANGED <<button_status, is_mouse_inside>>
axis_discrete(e) ==
    /\ axis_frame' = [axis_frame EXCEPT !.pending = TRUE, !.discrete = e.value]
    /\ UNCHANGED <<button_status, is_mouse_inside, told>>
axis_value120(e) ==
    /\ axis_frame' = [axis_frame EXCEPT !.pending = TRUE, !.value120 = @ + e.value]
    /\ UNCHANGED <<button_status, is_mouse_inside, told>>

\* The finest of the three forms of one turn counts.
FrameDelta == IF axis_frame.value120 # 0 THEN axis_frame.value120 \div 120
              ELSE IF axis_frame.discrete # 0 THEN axis_frame.discrete
              ELSE axis_frame.continuous
pointer_frame(e) ==
    /\ IF axis_frame.pending THEN Wheel(FrameDelta) ELSE UNCHANGED told
    /\ axis_frame' = EmptyFrame
    /\ UNCHANGED <<button_status, is_mouse_inside>>

\* Mutant: the buttons stay.
ButtonsStay ==
    /\ is_mouse_inside' = FALSE /\ axis_frame' = EmptyFrame
    /\ UNCHANGED button_status

release_pointer_input_state ==
    /\ button_status' = {} /\ axis_frame' = EmptyFrame
    /\ is_mouse_inside' = FALSE

--------------------------------------------------------------------------------
\* The seat.  Whatever loses its device gives up what it reported as held.
Lose(keyboardLost, pointerLost) ==
    /\ IF keyboardLost THEN reset_keyboard_state /\ is_active' = FALSE
                       ELSE UNCHANGED <<keystate, repeat_active>>
    /\ IF pointerLost THEN release_pointer_input_state ELSE UNCHANGED mouse
    /\ told' = [told EXCEPT !.active = @ /\ ~keyboardLost,
                            !.keys = IF keyboardLost THEN @ \ key_status ELSE @,
                            !.buttons = IF pointerLost THEN @ \ button_status ELSE @,
                            !.inside = @ /\ ~(pointerLost /\ is_mouse_inside)]
    /\ UNCHANGED <<repeat_rate, repeat_key, repeat_deadline, since>>

seat_capabilities(e) ==
    /\ keyboard' = ("keyboard" \in e.caps) /\ pointer' = ("pointer" \in e.caps)
    /\ Lose(keyboard /\ ~keyboard', pointer /\ ~pointer')
    /\ UNCHANGED seat

release_active_seat ==
    /\ seat' = FALSE /\ keyboard' = FALSE /\ pointer' = FALSE
    /\ Lose(TRUE, TRUE)

registry_global ==
    /\ seat' = TRUE
    /\ UNCHANGED <<keyboard, pointer, keystate, repeat, mouse, told, since>>

Keyboard(e) ==
    /\ CASE e.type = "keymap" -> keyboard_keymap(e)
         [] e.type = "enter" -> keyboard_enter(e)
         [] e.type = "leave" -> wayland_clear_keyboard_focus_state
         [] e.type = "key" -> keyboard_key(e)
         [] e.type = "modifiers" -> keyboard_modifiers(e)
         [] e.type = "repeat_info" -> keyboard_repeat_info(e)
    /\ UNCHANGED <<mouse, objects>>
Pointer(e) ==
    /\ CASE e.type = "pointer_enter" -> pointer_enter(e)
         [] e.type = "pointer_leave" -> pointer_leave(e)
         [] e.type = "button" -> pointer_button(e)
         [] e.type = "axis" -> pointer_axis(e)
         [] e.type = "axis_discrete" -> axis_discrete(e)
         [] e.type = "axis_value120" -> axis_value120(e)
         [] e.type = "frame" -> pointer_frame(e)
    /\ UNCHANGED <<keystate, repeat, objects, since>>
KeyboardEvents == {"keymap", "enter", "leave", "key", "modifiers", "repeat_info"}

Dispatch ==
    /\ queue # <<>> /\ queue' = Tail(queue)
    /\ LET e == Head(queue) IN
       CASE e.type \in KeyboardEvents -> Keyboard(e)
         [] e.type = "capabilities" -> seat_capabilities(e)
         [] e.type = "global_remove" -> release_active_seat
         [] e.type = "global" -> registry_global
         [] OTHER -> Pointer(e)
    /\ UNCHANGED <<caps, serves, keys, focus, rate, surface, buttons, version, turned, now, given, astray>>

Init ==
    /\ setting \in Settings
    /\ caps = {"keyboard", "pointer"} /\ serves = {"pointer"}
    /\ keys = {} /\ focus \in BOOLEAN /\ rate \in {0, 1}
    /\ surface = "none" /\ buttons = {}
    /\ version \in (IF "wheel" \in Inputs THEN {1, 5, 8} ELSE {8}) /\ turned = 0
    /\ now = 0 /\ queue = <<>> /\ given = 0 /\ astray = FALSE
    /\ key_status = {} /\ mod_keys = {} /\ button_status = {}
    /\ is_mouse_inside = FALSE /\ is_active = FALSE
    /\ seat = TRUE /\ keyboard = TRUE /\ pointer = TRUE
    /\ xkb_state = NULL
    /\ repeat_rate = 0 /\ repeat_active = FALSE /\ repeat_key = NoKey /\ repeat_deadline = 0
    /\ axis_frame = EmptyFrame
    /\ told = [keys |-> {}, buttons |-> {}, inside |-> FALSE, active |-> FALSE, wheel |-> 0,
               mods |-> {}, real |-> {}]
    /\ since = 0

Next == UNCHANGED setting /\ (User \/ Dispatch \/ wayland_emit_due_key_repeats)
Spec == Init /\ [][Next]_vars

--------------------------------------------------------------------------------
TypeOK ==
    /\ caps \cup serves \subseteq {"keyboard", "pointer"} /\ surface \in Surfaces
    /\ keys \cup key_status \subseteq Keys /\ button_status \subseteq 1 .. 7
    /\ mod_keys \subseteq {"SHIFT", "ALT"}
    /\ repeat_key \in Keys \cup {NoKey} /\ repeat_deadline \in Nat /\ since \in Nat
    /\ Len(queue) <= setting.waiting /\ given \in 0 .. setting.most
    /\ {seat, keyboard, pointer, is_active, is_mouse_inside, repeat_active} \subseteq BOOLEAN

\* The user is done and the program has read everything.
Quiet == queue = <<>>

\* When everything is read, the application sees the keys and the focus of the window:
\* nothing it was told stays down over a lost focus, a lost keyboard or a removed seat.
KeysSettle ==
    Quiet => /\ is_active = Listens /\ told.active = is_active
             /\ key_status = (IF Listens THEN keys ELSE {})

\* A key the application was told is down is down in the key buffer it can read.
ToldKeysAreDown == told.keys \subseteq key_status

\* The modifiers of a key callback are those of the keys down after that event, as the
\* comment in keyboard_key asks, and they settle with the keys.
ModifiersAreTrue ==
    /\ told.mods = told.real
    /\ Quiet => mod_keys = (IF Listens THEN Mods(keys) ELSE {})

\* When everything is read, the buttons are those the user holds, and so says the application.
ButtonsSettle ==
    /\ told.buttons = button_status
    /\ Quiet /\ ~astray => button_status = {b \in buttons : b <= 7}

\* Enter and leave alternate and follow the pointer over the content of the window, whatever
\* surfaces of its frame the pointer crosses and whichever device or seat is lost.
InsideSettles ==
    /\ told.inside = is_mouse_inside
    /\ Quiet => is_mouse_inside = (surface = "content")

\* Every notch is told once, in its finest form.
WheelIsToldOnce == Quiet => told.wheel = turned

\* Only a key the window holds repeats, and only with the focus and a rate.
RepeatHasItsKey == repeat_active => is_active /\ repeat_key \in key_status /\ repeat_rate > 0

\* A leave is never told with a button still down.
LeaveComesLast == [][told.inside /\ ~told'.inside => button_status' = {} \/ astray']_vars

\* A late poll repeats the key once, and the next repeat is due at one of the times the
\* compositor asked for, neither a burst now nor a delay that slows the average rate.
RepeatsArePaced ==
    [][repeat_active /\ repeat_active' /\ repeat_key' = repeat_key /\ repeat_deadline' # repeat_deadline
          => /\ repeat_deadline' > now' /\ repeat_deadline' <= now' + Interval
             /\ (repeat_deadline' - since - Delay) % Interval = 0]_vars
================================================================================
