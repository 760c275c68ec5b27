-------------------------------- MODULE WebInput --------------------------------
(* The input of the Web backend (src/web/WebMiniFB.c).  Listeners of the browser *)
(* queue events; they run only while the program is away from the CPU, between   *)
(* two calls or in the emscripten_sleep of mfb_wait_sync.  Each call of the      *)
(* public interface takes the queue and applies it to the window, event by event.*)
(*                                                                               *)
(* One window, resizable, with a mouse, a touch screen and a keyboard.  Text,    *)
(* modifiers and the pixels of a frame are left out.  A position or a size is    *)
(* one number.                                                                   *)
EXTENDS Naturals, Sequences, SequencesExt

CONSTANTS
    MaxQueued,      \* MAX_QUEUED_EVENTS
    Buttons,        \* buttons of the mouse; 1 is also the button of a touch
    Keys,           \* keys of the keyboard
    Places,         \* positions of the pointer, sizes of the canvas
    Inputs,         \* the kinds of input the user gives
    Calls,          \* the public calls the application makes
    MaxInputs       \* bound: inputs the user gives

ASSUME QueueAssumption == MaxQueued \in Nat /\ MaxQueued > 0
ASSUME PlacesAssumption == Places \subseteq Nat /\ Places # {}
ASSUME ButtonsAssumption == 1 \in Buttons /\ Buttons \subseteq 0 .. 7

VARIABLES
    \* the user and the browser
    mouse, touching, keys,  \* what the user holds: buttons, the screen, keys
    altgr,                  \* the half of AltGr the browser still has to report
    nameless,               \* both Shift keys went down: they have no code for now
    inside, box, given,     \* the pointer is over the canvas; its size; inputs so far
    \* the listeners' record w
    pressedButtons, lastPos, is_active, events,
    dropped,                \* history: enqueueEvent has dropped an event
    \* the window
    button_status, key_status, mouse_pos, is_mouse_inside, window_active, window_size,
    close, alive,
    \* the program
    pc, call, ret, pending, yielded, due

user == <<mouse, touching, keys, altgr, nameless, inside, box, given>>
listeners == <<pressedButtons, lastPos, is_active, events, dropped>>
input == <<button_status, key_status, mouse_pos, is_mouse_inside, window_active, window_size>>
window == <<input, close, alive>>
program == <<pc, call, ret, pending, yielded, due>>
vars == <<user, listeners, window, program>>

Shifts == {"LEFT_SHIFT", "RIGHT_SHIFT"}
Sides == [SHIFT |-> Shifts, CONTROL |-> {"LEFT_CONTROL"}, ALT |-> {"RIGHT_ALT"}]

--------------------------------------------------------------------------------
\* The queue.  At the cap a movement or a resize gives way, else a scroll; other
\* events are never dropped: the cap gives instead.
IndicesOf(q, types) == {i \in DOMAIN q : q[i].type \in types}
Droppable_Crossings(q) == IndicesOf(q, {"mousemove", "resize", "mouseenter"})
Droppable(q) ==
    LET stale == IndicesOf(q, {"mousemove", "resize"})
    IN  IF stale # {} THEN stale ELSE IndicesOf(q, {"mousescroll"})

Overflows(q) == Len(q) >= MaxQueued /\ Droppable(q) # {}
Queued(q, e) == Append(IF Overflows(q) THEN RemoveAt(q, Min(Droppable(q))) ELSE q, e)

enqueueEvent(e) == events' = Queued(events, e) /\ dropped' = (dropped \/ Overflows(events))
enqueueBoth(first, second) ==
    LET q == Queued(events, first)
    IN  events' = Queued(q, second) /\ dropped' = (dropped \/ Overflows(events) \/ Overflows(q))

Button(b, down, p) == [type |-> "mousebutton", button |-> b, is_pressed |-> down, pos |-> p]
Key(k, down, pair) == [type |-> "key", code |-> k, down |-> down, pair |-> pair]

Active(is) == [type |-> "active", is_active |-> is]
Enter(is) == [type |-> "mouseenter", is_inside |-> is]

\* focusTextInput of a press: the focus event comes first.
Pressed(b, p) ==
    /\ pressedButtons' = pressedButtons \cup {b} /\ lastPos' = p /\ is_active' = TRUE
    /\ IF is_active THEN enqueueEvent(Button(b, TRUE, p))
       ELSE enqueueBoth(Active(TRUE), Button(b, TRUE, p))

--------------------------------------------------------------------------------
\* Listeners run between calls and while mfb_wait_sync sleeps.
Browser(kind) ==
    /\ alive /\ pc \in {"idle", "sleep"}
    /\ kind \in Inputs /\ given < MaxInputs /\ given' = given + 1
    /\ altgr # "none" => kind = "altgr"
    /\ UNCHANGED <<window, program>>

Pointer == UNCHANGED <<keys, altgr, nameless, box>>

mousedown(b, p) ==
    /\ Browser("mouse") /\ inside /\ b \notin mouse
    /\ mouse' = mouse \cup {b}
    /\ Pressed(b, p)
    /\ Pointer /\ UNCHANGED <<touching, inside>>

\* The press went to another element of the page, the release may come here.
MouseDownElsewhere(b) ==
    /\ Browser("mouse") /\ ~inside /\ b \notin mouse
    /\ mouse' = mouse \cup {b}
    /\ Pointer /\ UNCHANGED <<touching, inside, listeners>>

\* mouseup over the canvas, at p, or bodyMouseup elsewhere, at the last position.
Reported_Always(b) == TRUE
Reported(b) == b \in pressedButtons
mouseup(b, p) ==
    /\ Browser("mouse") /\ b \in mouse
    /\ mouse' = mouse \ {b}
    /\ \/ /\ Reported(b)
          /\ pressedButtons' = pressedButtons \ {b} /\ lastPos' = p
          /\ enqueueEvent(Button(b, FALSE, p))
       \/ ~Reported(b) /\ UNCHANGED <<pressedButtons, lastPos, events, dropped>>
    /\ Pointer /\ UNCHANGED <<touching, inside, is_active>>

mousemove(p) ==
    /\ Browser("mouse") /\ inside /\ p # lastPos
    /\ lastPos' = p
    /\ enqueueEvent([type |-> "mousemove", pos |-> p])
    /\ Pointer /\ UNCHANGED <<mouse, touching, inside, pressedButtons, is_active>>

wheel ==
    /\ Browser("mouse") /\ inside
    /\ enqueueEvent([type |-> "mousescroll"])
    /\ Pointer /\ UNCHANGED <<mouse, touching, inside, pressedButtons, lastPos, is_active>>

\* The capture of pointerDown holds the leave back while a button is held.
pointerEnterOrLeave ==
    /\ Browser("mouse") /\ mouse \cap pressedButtons = {}
    /\ inside' = ~inside
    /\ enqueueEvent(Enter(~inside))
    /\ Pointer /\ UNCHANGED <<mouse, touching, pressedButtons, lastPos, is_active>>

\* The browser takes the pointer away: no release will follow.
pointerCancel_Forgets ==
    /\ Browser("mouse") /\ mouse # {}
    /\ mouse' = {} /\ inside' = FALSE
    /\ pressedButtons' = {}
    /\ enqueueEvent(Enter(FALSE))
    /\ Pointer /\ UNCHANGED <<touching, lastPos, is_active>>
pointerCancel ==
    /\ Browser("mouse") /\ mouse # {}
    /\ mouse' = {} /\ inside' = FALSE
    /\ pressedButtons' = {}
    /\ enqueueBoth([type |-> "mousecancel"], Enter(FALSE))
    /\ Pointer /\ UNCHANGED <<touching, lastPos, is_active>>

touchstart(p) ==
    /\ Browser("touch") /\ ~touching
    /\ touching' = TRUE
    /\ Pressed(1, p)
    /\ Pointer /\ UNCHANGED <<mouse, inside>>

touchmove(p) ==
    /\ Browser("touch") /\ touching /\ p # lastPos
    /\ lastPos' = p
    /\ enqueueEvent([type |-> "mousemove", pos |-> p])
    /\ Pointer /\ UNCHANGED <<mouse, touching, inside, pressedButtons, is_active>>

touchEndOrCancel(p) ==
    /\ Browser("touch") /\ touching
    /\ touching' = FALSE
    /\ pressedButtons' = pressedButtons \ {1} /\ lastPos' = p
    /\ enqueueEvent(Button(1, FALSE, p))
    /\ Pointer /\ UNCHANGED <<mouse, inside, is_active>>

--------------------------------------------------------------------------------
\* A key event reaches the listeners while the window has the focus.
Typed(e) ==
    /\ IF is_active THEN enqueueEvent(e) ELSE UNCHANGED <<events, dropped>>
    /\ UNCHANGED <<mouse, touching, inside, box, pressedButtons, lastPos, is_active>>

\* "On Windows it reports no code at all once both Shift keys are down".
KeyEvent(k, down, mute) ==
    IF k \in Shifts /\ mute
    THEN [type |-> "modsync", mods |-> {m \in DOMAIN Sides : keys' \cap Sides[m] # {}}]
    ELSE Key(k, down, FALSE)

keydown(k) ==      \* of a key that goes down, or repeats
    /\ Browser("key")
    /\ keys' = keys \cup {k}
    /\ nameless' = (nameless \/ Shifts \subseteq keys')
    /\ Typed(KeyEvent(k, TRUE, nameless'))
    /\ UNCHANGED altgr

keyup(k) ==
    /\ Browser("key") /\ k \in keys
    /\ keys' = keys \ {k}
    /\ nameless' = (nameless /\ keys' \cap Shifts # {})
    /\ Typed(KeyEvent(k, FALSE, nameless))
    /\ UNCHANGED altgr

\* Under Windows AltGr is two events, a left Control and the right Alt: two tasks of
\* the browser, one after the other, less than ALT_GR_PAIR_MS apart.
AltGrFirst ==
    /\ Browser("altgr") /\ altgr = "none" /\ "LEFT_CONTROL" \notin keys
    /\ altgr' = IF "RIGHT_ALT" \in keys THEN "up" ELSE "down"
    /\ Typed(Key("LEFT_CONTROL", "RIGHT_ALT" \notin keys, TRUE))
    /\ UNCHANGED <<keys, nameless>>

AltGrSecond ==
    /\ Browser("altgr") /\ altgr # "none"
    /\ altgr' = "none"
    /\ keys' = IF altgr = "down" THEN keys \cup {"RIGHT_ALT"} ELSE keys \ {"RIGHT_ALT"}
    /\ Typed(Key("RIGHT_ALT", altgr = "down", TRUE))
    /\ UNCHANGED nameless

setActive ==
    /\ Browser("focus")
    /\ is_active' = ~is_active
    /\ enqueueEvent(Active(~is_active))
    /\ Pointer /\ UNCHANGED <<mouse, touching, inside, pressedButtons, lastPos>>

\* The page lays the canvas out again: the ResizeObserver queues.
Resized(s) ==
    /\ Browser("resize") /\ s # box
    /\ box' = s
    /\ enqueueEvent([type |-> "resize"])
    /\ UNCHANGED <<mouse, touching, keys, altgr, nameless, inside, pressedButtons, lastPos, is_active>>

User ==
    \/ \E b \in Buttons, p \in Places : mousedown(b, p) \/ mouseup(b, p)
    \/ \E b \in Buttons : MouseDownElsewhere(b)
    \/ \E p \in Places : mousemove(p) \/ touchstart(p) \/ touchmove(p) \/ touchEndOrCancel(p)
    \/ wheel \/ pointerEnterOrLeave \/ pointerCancel
    \/ \E k \in Keys : keydown(k) \/ keyup(k)
    \/ AltGrFirst \/ AltGrSecond
    \/ setActive
    \/ \E s \in Places : Resized(s)

--------------------------------------------------------------------------------
\* mfb_update_events_js applies the events it has taken, one after the other; no
\* listener runs meanwhile.
Taking == pc = "poll" /\ pending # <<>>
CallbackIf(reported) == close' \in {close, close \/ reported}   \* it may ask for the close
Applied ==
    /\ Taking
    /\ pending' = Tail(pending)
    /\ UNCHANGED <<user, listeners, alive, pc, call, ret, yielded, due>>

window_data_call_mouse_btn_func_KeepsPos ==
    /\ Applied /\ Head(pending).type = "mousebutton"
    /\ LET e == Head(pending)
       IN  button_status' = IF e.is_pressed THEN button_status \cup {e.button}
                                            ELSE button_status \ {e.button}
    /\ CallbackIf(TRUE)
    /\ UNCHANGED <<key_status, mouse_pos, is_mouse_inside, window_active, window_size>>
window_data_call_mouse_btn_func ==
    /\ Applied /\ Head(pending).type = "mousebutton"
    /\ LET e == Head(pending)
       IN  /\ button_status' = IF e.is_pressed THEN button_status \cup {e.button}
                                               ELSE button_status \ {e.button}
           /\ mouse_pos' = e.pos
    /\ CallbackIf(TRUE)
    /\ UNCHANGED <<key_status, is_mouse_inside, window_active, window_size>>

window_data_call_mouse_move_func ==
    /\ Applied /\ Head(pending).type = "mousemove"
    /\ mouse_pos' = Head(pending).pos
    /\ CallbackIf(TRUE)
    /\ UNCHANGED <<button_status, key_status, is_mouse_inside, window_active, window_size>>

window_data_call_mouse_wheel_func ==
    /\ Applied /\ Head(pending).type = "mousescroll"
    /\ CallbackIf(TRUE)
    /\ UNCHANGED input

window_data_call_mouse_enter_func ==
    /\ Applied /\ Head(pending).type = "mouseenter"
    /\ is_mouse_inside' = Head(pending).is_inside
    /\ CallbackIf(is_mouse_inside # is_mouse_inside')
    /\ UNCHANGED <<button_status, key_status, mouse_pos, window_active, window_size>>

window_data_release_mouse_buttons ==
    /\ Applied /\ Head(pending).type = "mousecancel"
    /\ button_status' = {}
    /\ CallbackIf(button_status # {})
    /\ UNCHANGED <<key_status, mouse_pos, is_mouse_inside, window_active, window_size>>

\* The left Control of AltGr, if the right Alt is the next event.
Hidden ==
    /\ Head(pending).code = "LEFT_CONTROL" /\ Len(pending) > 1
    /\ pending[2].type = "key" /\ pending[2].code = "RIGHT_ALT"
    /\ pending[2].down = Head(pending).down /\ Head(pending).pair /\ pending[2].pair

window_data_call_keyboard_func_Overwrites ==
    /\ Applied /\ Head(pending).type = "key"
    /\ LET e == Head(pending)
       IN  IF Hidden \/ (~e.down /\ e.code \notin key_status)
           THEN UNCHANGED <<key_status, close>>
           ELSE /\ key_status' = IF e.down THEN key_status \cup {e.code} ELSE key_status \ {e.code}
                /\ close' \in BOOLEAN
    /\ UNCHANGED <<button_status, mouse_pos, is_mouse_inside, window_active, window_size>>
\* A release that nothing held is not reported.
window_data_call_keyboard_func ==
    /\ Applied /\ Head(pending).type = "key"
    /\ LET e == Head(pending)
       IN  IF Hidden \/ (~e.down /\ e.code \notin key_status)
           THEN UNCHANGED <<key_status, close>>
           ELSE /\ key_status' = IF e.down THEN key_status \cup {e.code} ELSE key_status \ {e.code}
                /\ CallbackIf(TRUE)
    /\ UNCHANGED <<button_status, mouse_pos, is_mouse_inside, window_active, window_size>>

window_data_sync_mod_keys ==
    /\ Applied /\ Head(pending).type = "modsync"
    /\ key_status' = key_status \ UNION {Sides[m] : m \in DOMAIN Sides \ Head(pending).mods}
    /\ CallbackIf(key_status # key_status')
    /\ UNCHANGED <<button_status, mouse_pos, is_mouse_inside, window_active, window_size>>

window_data_call_active_func ==
    /\ Applied /\ Head(pending).type = "active"
    /\ window_active' = Head(pending).is_active
    /\ key_status' = IF Head(pending).is_active THEN key_status ELSE {}
    /\ CallbackIf(TRUE)
    /\ UNCHANGED <<button_status, mouse_pos, is_mouse_inside, window_size>>

\* The size of the canvas, read now and not when the event was queued.
window_data_update_window_size ==
    /\ Applied /\ Head(pending).type = "resize"
    /\ window_size' = box
    /\ CallbackIf(window_size # box)
    /\ UNCHANGED <<button_status, key_status, mouse_pos, is_mouse_inside, window_active>>

--------------------------------------------------------------------------------
\* The public calls.
Return(status) == pc' = "idle" /\ call' = "none" /\ ret' = status /\ yielded' = FALSE
Exit == Return("EXIT") /\ alive' = FALSE /\ pending' = <<>>   \* destroy_window_data
Poll == pc' = "poll" /\ pending' = events /\ events' = <<>>

Call(c) ==
    /\ pc = "idle" /\ alive
    /\ pc' = "begin" /\ call' = c
    /\ UNCHANGED <<user, listeners, window, ret, pending, yielded, due>>

mfb_close ==
    /\ pc = "idle" /\ alive /\ ~close /\ "close" \in Calls
    /\ close' = TRUE
    /\ UNCHANGED <<user, listeners, input, alive, program>>

BeginClosed ==
    /\ pc = "begin" /\ close
    /\ Exit
    /\ UNCHANGED <<user, listeners, input, close, due>>

\* mfb_update_events, and every turn of mfb_wait_sync.
mfb_update_events ==
    /\ pc = "begin" /\ ~close /\ call # "update_ex"
    /\ Poll
    /\ UNCHANGED <<user, pressedButtons, lastPos, is_active, dropped, window,
                   call, ret, yielded, due>>

\* mfb_update_js follows the size of the canvas and paints; then the events.
mfb_update_ex ==
    /\ pc = "begin" /\ ~close /\ call = "update_ex"
    /\ window_size' = box
    /\ \E asks \in {FALSE, window_size # box} :
          /\ close' = asks
          /\ IF asks THEN Exit /\ UNCHANGED events
                     ELSE Poll /\ UNCHANGED <<call, ret, yielded, alive>>
    /\ UNCHANGED <<user, pressedButtons, lastPos, is_active, dropped, button_status, key_status,
                   mouse_pos, is_mouse_inside, window_active, due>>

Polled == pc = "poll" /\ pending = <<>>

PolledClosed ==
    /\ Polled /\ close
    /\ Exit
    /\ UNCHANGED <<user, listeners, input, close, due>>

PolledUpdate ==
    /\ Polled /\ ~close /\ call # "wait_sync"
    /\ Return("OK")
    /\ UNCHANGED <<user, listeners, window, pending, due>>

\* mfb_wait_sync: a frame that is already late still gives the browser a turn.
FrameEnds_Late == due
FrameEnds == due /\ yielded
mfb_wait_sync ==
    /\ Polled /\ ~close /\ call = "wait_sync"
    /\ \/ /\ FrameEnds
          /\ Return("OK")
          /\ due' \in BOOLEAN        \* mfb_timer_compensated_reset
       \/ /\ ~FrameEnds
          /\ pc' = "sleep"           \* emscripten_sleep
          /\ UNCHANGED <<call, ret, yielded, due>>
    /\ UNCHANGED <<user, listeners, window, pending>>

Wake ==
    /\ pc = "sleep"
    /\ yielded' = TRUE
    /\ Poll
    /\ UNCHANGED <<user, pressedButtons, lastPos, is_active, dropped, window, call, ret, due>>

TimePasses ==
    /\ alive /\ ~due /\ due' = TRUE
    /\ UNCHANGED <<user, listeners, window, pc, call, ret, pending, yielded>>

Apply ==
    \/ window_data_call_mouse_btn_func \/ window_data_call_mouse_move_func
    \/ window_data_call_mouse_wheel_func \/ window_data_call_mouse_enter_func
    \/ window_data_release_mouse_buttons \/ window_data_call_keyboard_func
    \/ window_data_sync_mod_keys \/ window_data_call_active_func
    \/ window_data_update_window_size

Step ==
    \/ Apply \/ BeginClosed \/ mfb_update_events \/ mfb_update_ex
    \/ PolledClosed \/ PolledUpdate \/ mfb_wait_sync \/ Wake

Init ==
    /\ mouse = {} /\ touching = FALSE /\ keys = {} /\ altgr = "none" /\ nameless = FALSE
    /\ inside = FALSE /\ box \in Places /\ given = 0
    /\ pressedButtons = {} /\ lastPos = 0 /\ is_active \in BOOLEAN /\ events = <<>> /\ dropped = FALSE
    /\ button_status = {} /\ key_status = {} /\ mouse_pos = 0 /\ is_mouse_inside = FALSE
    /\ window_active = is_active /\ window_size = box /\ close = FALSE /\ alive = TRUE
    /\ pc = "idle" /\ call = "none" /\ ret = "OK" /\ pending = <<>> /\ yielded = FALSE
    /\ due = FALSE

Gone == ~alive /\ UNCHANGED vars

Next ==
    \/ User \/ (\E c \in Calls \ {"close"} : Call(c)) \/ mfb_close
    \/ Step \/ TimePasses \/ Gone

Spec == Init /\ [][Next]_vars

\* The browser schedules the program, time passes, and the application goes on.
LoopSpec ==
    Spec /\ WF_vars(Step) /\ WF_vars(TimePasses)
         /\ WF_vars(\E c \in Calls \ {"close"} : Call(c))

--------------------------------------------------------------------------------
Events ==
    [type : {"mousebutton"}, button : Buttons, is_pressed : BOOLEAN, pos : Places]
        \cup [type : {"mousemove"}, pos : Places]
        \cup [type : {"mousescroll", "mousecancel", "resize"}]
        \cup [type : {"mouseenter"}, is_inside : BOOLEAN]
        \cup [type : {"active"}, is_active : BOOLEAN]
        \cup [type : {"key"}, code : Keys \cup {"LEFT_CONTROL", "RIGHT_ALT"},
              down : BOOLEAN, pair : BOOLEAN]
        \cup [type : {"modsync"}, mods : SUBSET DOMAIN Sides]

TypeOK ==
    /\ mouse \subseteq Buttons /\ pressedButtons \subseteq Buttons /\ button_status \subseteq Buttons
    /\ keys \subseteq Keys \cup {"RIGHT_ALT"}
    /\ key_status \subseteq Keys \cup {"LEFT_CONTROL", "RIGHT_ALT"}
    /\ \A q \in {events, pending} : \A i \in DOMAIN q : q[i] \in Events
    /\ lastPos \in Places \cup {0} /\ mouse_pos \in Places \cup {0}
    /\ box \in Places /\ window_size \in Places
    /\ altgr \in {"none", "down", "up"} /\ given \in 0 .. MaxInputs
    /\ pc \in {"idle", "begin", "poll", "sleep"} /\ call \in Calls \cup {"none"}
    /\ ret \in {"OK", "EXIT"}
    /\ touching \in BOOLEAN /\ nameless \in BOOLEAN /\ inside \in BOOLEAN /\ is_active \in BOOLEAN
    /\ dropped \in BOOLEAN /\ is_mouse_inside \in BOOLEAN /\ window_active \in BOOLEAN
    /\ close \in BOOLEAN /\ alive \in BOOLEAN /\ yielded \in BOOLEAN /\ due \in BOOLEAN

\* All that was queued has been applied.
Drained == alive /\ events = <<>> /\ pending = <<>>

\* No button stays held in the window once its release, or the cancel of its
\* pointer, has been applied, and none is forgotten that a listener still counts as
\* pressed: whatever the queue had to drop, and wherever the release happened.
ButtonsAgree ==
    Drained => /\ button_status = pressedButtons
               /\ button_status \subseteq mouse \cup (IF touching THEN {1} ELSE {})

\* The window and the browser agree on where the pointer is and who has the focus:
\* a crossing is never dropped and never overtaken.
CrossingsAgree == Drained => is_mouse_inside = inside /\ window_active = is_active

\* A key reported as held is held by the user: not across a loss of the focus, which
\* swallows the release, nor when both Shift keys hide each other's release.
NoKeySticks ==
    Drained => /\ key_status \ Shifts \subseteq keys
               /\ key_status \cap Shifts # {} => keys \cap Shifts # {}
               /\ ~window_active => key_status = {}

\* "A key or mouse release with no press behind it is no longer delivered."
Delivers(b) == /\ Taking /\ pending' = Tail(pending)
               /\ Head(pending) \in {Button(b, FALSE, p) : p \in Places}
ReleaseHasPress == [][\A b \in Buttons : Delivers(b) => b \in button_status]_vars

\* What was not dropped arrives: the window ends where the pointer and the canvas are.
LatestStateArrives ==
    Drained /\ ~dropped => mouse_pos = lastPos /\ window_size = box

\* "AltGr arrives as one key on every host system."
AltGrIsOneKey == Drained /\ altgr = "none" /\ "LEFT_CONTROL" \notin keys
                    => "LEFT_CONTROL" \notin key_status

================================================================================
