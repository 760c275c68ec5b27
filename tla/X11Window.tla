------------------------------- MODULE X11Window -------------------------------
(* The X11 backend (src/x11/X11MiniFB.c) and the X server it talks to: opening, *)
(* the event pump with its key, button, crossing, focus and configure handlers, *)
(* the three pumping calls and the images a frame is scaled and put with.       *)
(*                                                                              *)
(* A size is one number, the width or the height.  The server queues an event   *)
(* at any moment; the library takes one per step.  The keymap, positions, text  *)
(* and the properties of the window manager are left out.                       *)
EXTENDS Naturals, Sequences, SequencesExt, FiniteSetsExt

CONSTANTS
    Keys,       \* the keys of the keyboard
    Buttons,    \* the buttons of the mouse, as the server numbers them
    Sizes,      \* sizes of a window, a viewport and a buffer; 0 is refused
    FirstSize,  \* the size of the opening
    Inputs,     \* what happens outside the program: "key", "focus", "pointer", "resize", "close"
    Calls,      \* the calls of the application
    MaxQueue,   \* bound: events waiting in the connection
    MaxInputs   \* bound: inputs

VARIABLES
    \* the X server and the user
    keys, focus, grabbed,   \* keys held down; the window has the focus; a client grabs the keyboard
    repeating,              \* the key whose repeat has sent its release and not yet its press
    place, buttons, drag,   \* the pointer; its buttons held over the window; a drag of another client
    server_size, queue, given,
    elsewhere,              \* history: keys that moved where this window cannot see since it was focused
    never_focused,          \* history: the window has not had the focus yet
    astray,                 \* history: a drag that began over the window ended outside it
    \* SWindowData
    key_status, button_status, is_mouse_inside, is_active, window_size, viewport, close,
    \* SWindowData_X11; 0 is NULL
    image_scaler, image_buffer, held,
    \* what the callbacks have told the application
    told,
    \* the program
    pc, stage, call, result, shown

user == <<keys, focus, grabbed, repeating, place, buttons, drag, server_size, queue, given, elsewhere,
          never_focused, astray>>
input == <<key_status, button_status, is_mouse_inside, is_active>>
images == <<image_scaler, image_buffer, held>>
program == <<pc, stage, call, result, shown>>
vars == <<user, input, window_size, viewport, close, images, told, program>>

NoKey == "none"
Names == [b \in Nat |-> CASE b = 2 -> 3 [] b = 3 -> 2 [] b > 7 -> b - 4 [] OTHER -> b]
Wheel == 4 .. 7

--------------------------------------------------------------------------------
\* The X server: what the user and other clients do, and the events it queues.
Allows(kind) == kind \in Inputs /\ given < MaxInputs /\ pc \notin {"opening", "failed", "gone"}
Send(events) ==
    /\ Len(queue) + Len(events) <= MaxQueue
    /\ queue' = queue \o events

KeyEvent(type, k, again) == [type |-> type, key |-> k, again |-> again, held |-> keys]
Crossing(entered, mode) == [type |-> IF entered THEN "EnterNotify" ELSE "LeaveNotify", mode |-> mode]
ButtonEvent(type, b) == [type |-> type, button |-> b, at |-> place]

Mine == focus /\ ~grabbed

KeyDown(k) ==
    /\ Allows("key") /\ k \notin keys /\ repeating = NoKey
    /\ keys' = keys \cup {k} /\ given' = given + 1
    /\ IF Mine THEN Send(<<KeyEvent("KeyPress", k, FALSE)>>) /\ UNCHANGED elsewhere
               ELSE elsewhere' = elsewhere \cup {k} /\ UNCHANGED queue
    /\ UNCHANGED <<focus, grabbed, repeating, place, buttons, drag, server_size, never_focused, astray>>

KeyUp(k) ==
    /\ Allows("key") /\ k \in keys /\ repeating = NoKey
    /\ keys' = keys \ {k} /\ given' = given + 1
    /\ IF Mine THEN Send(<<KeyEvent("KeyRelease", k, FALSE)>>) /\ UNCHANGED elsewhere
               ELSE elsewhere' = elsewhere \cup {k} /\ UNCHANGED queue
    /\ UNCHANGED <<focus, grabbed, repeating, place, buttons, drag, server_size, never_focused, astray>>

\* A server without detectable auto-repeat sends a release and a press of one time;
\* the connection may deliver one and not yet the other.
RepeatRelease(k) ==
    /\ Allows("key") /\ Mine /\ k \in keys /\ repeating = NoKey
    /\ repeating' = k /\ given' = given + 1
    /\ Send(<<KeyEvent("KeyRelease", k, FALSE)>>)
    /\ UNCHANGED <<keys, focus, grabbed, place, buttons, drag, server_size, elsewhere, never_focused, astray>>

RepeatPress ==
    /\ repeating # NoKey
    /\ repeating' = NoKey
    /\ Send(<<KeyEvent("KeyPress", repeating, TRUE)>>)
    /\ UNCHANGED <<keys, focus, grabbed, place, buttons, drag, server_size, given, elsewhere, never_focused,
                   astray>>

ChangeFocus ==
    /\ Allows("focus") /\ ~grabbed /\ repeating = NoKey
    /\ focus' = ~focus /\ given' = given + 1
    /\ elsewhere' = IF focus THEN elsewhere ELSE {}
    /\ never_focused' = FALSE
    /\ Send(<<[type |-> IF focus THEN "FocusOut" ELSE "FocusIn", mode |-> "Normal"]>>)
    /\ UNCHANGED <<keys, grabbed, repeating, place, buttons, drag, server_size, astray>>

\* A window menu or a task switcher takes the keyboard and gives it back.
GrabKeyboard ==
    /\ Allows("focus") /\ focus /\ repeating = NoKey
    /\ grabbed' = ~grabbed /\ given' = given + 1
    /\ Send(<<[type |-> IF grabbed THEN "FocusIn" ELSE "FocusOut",
               mode |-> IF grabbed THEN "Ungrab" ELSE "Grab"]>>)
    /\ UNCHANGED <<keys, focus, repeating, place, buttons, drag, server_size, elsewhere, never_focused, astray>>

\* The pointer is in the window, under another one that covers it, or out of it.  The
\* drag of another client keeps the crossings; an own one does not.
MovePointer(p) ==
    /\ Allows("pointer") /\ p # place
    /\ place' = p /\ given' = given + 1
    /\ Send(IF drag \/ "in" \notin {p, place} THEN <<>> ELSE <<Crossing(p = "in", "Normal")>>)
    /\ UNCHANGED <<keys, focus, grabbed, repeating, buttons, drag, server_size, elsewhere, never_focused, astray>>

ButtonDown(b) ==
    /\ Allows("pointer") /\ place = "in" /\ ~drag /\ b \notin buttons
    /\ buttons' = buttons \cup {b} /\ given' = given + 1
    /\ Send(<<ButtonEvent("ButtonPress", b)>>)
    /\ UNCHANGED <<keys, focus, grabbed, repeating, place, drag, server_size, elsewhere, never_focused, astray>>

\* The release of the last button ends the grab of the drag.
ButtonUp(b) ==
    /\ Allows("pointer") /\ b \in buttons
    /\ buttons' = buttons \ {b} /\ given' = given + 1
    /\ Send(<<ButtonEvent("ButtonRelease", b)>> \o
            (IF buttons = {b} /\ place # "in" THEN <<Crossing(FALSE, "Ungrab")>> ELSE <<>>))
    /\ UNCHANGED <<keys, focus, grabbed, repeating, place, drag, server_size, elsewhere, never_focused, astray>>

DragElsewhere ==
    /\ Allows("pointer") /\ buttons = {}
    /\ drag' = ~drag /\ given' = given + 1
    /\ astray' = (drag /\ place # "in" /\ (is_mouse_inside \/ astray \/ queue # <<>>))
    /\ Send(IF place = "in" THEN <<Crossing(drag, IF drag THEN "Ungrab" ELSE "Grab")>> ELSE <<>>)
    /\ UNCHANGED <<keys, focus, grabbed, repeating, place, buttons, server_size, elsewhere, never_focused>>

\* The window manager repeats the size it has given, and sends one when it only moves.
Configure(s) ==
    /\ Allows("resize")
    /\ server_size' = s /\ given' = given + 1
    /\ Send(<<[type |-> "ConfigureNotify", size |-> s]>>)
    /\ UNCHANGED <<keys, focus, grabbed, repeating, place, buttons, drag, elsewhere, never_focused, astray>>

AskToClose(type) ==
    /\ Allows("close")
    /\ given' = given + 1
    /\ Send(<<[type |-> type]>>)
    /\ UNCHANGED <<keys, focus, grabbed, repeating, place, buttons, drag, server_size, elsewhere, never_focused, astray>>

Server ==
    /\ \/ \E k \in Keys : KeyDown(k) \/ KeyUp(k) \/ RepeatRelease(k)
       \/ RepeatPress \/ ChangeFocus \/ GrabKeyboard
       \/ \E p \in {"in", "covered", "out"} : MovePointer(p)
       \/ \E b \in Buttons : ButtonDown(b) \/ ButtonUp(b)
       \/ DragElsewhere
       \/ \E s \in Sizes : Configure(s)
       \/ \E type \in {"ClientMessage", "DestroyNotify"} : AskToClose(type)
    /\ UNCHANGED <<input, window_size, viewport, close, images, told, program>>

--------------------------------------------------------------------------------
\* Opening: each resource in turn, and all of them given back when one is refused.
Wanted == <<"data", "specific", "display", "window", "text", "image", "timer", "cursor">>
Optional == {"text", "cursor"}

\* What is left of the resources h by each part of destroy_window_data, under the conditions
\* it has: what SWindowData_X11 points to is not reached without it, and the window and the
\* cursor are given back to a display that is open.  The base image is image.
DestroyImage(h) == IF "specific" \in h THEN h \ {"image"} ELSE h
x11_text_destroy(h) == IF "specific" \in h THEN h \ {"text"} ELSE h
DestroyWindow(h) == IF {"specific", "display"} \subseteq h THEN h \ {"window"} ELSE h
FreeCursor(h) == IF {"specific", "display"} \subseteq h THEN h \ {"cursor"} ELSE h
CloseDisplay(h) == IF "specific" \in h THEN h \ {"display"} ELSE h
mfb_free_window_data(h) == h \ {"timer", "specific", "data"}

\* Mutant: the display is closed before what lives on it is given back.
DisplayFirst ==
    /\ held' = mfb_free_window_data(FreeCursor(DestroyWindow(x11_text_destroy(DestroyImage(CloseDisplay(held))))))
    /\ IF "specific" \in held THEN image_scaler' = 0 /\ image_buffer' = 0
                              ELSE UNCHANGED <<image_scaler, image_buffer>>

destroy_window_data ==
    /\ held' = mfb_free_window_data(CloseDisplay(FreeCursor(DestroyWindow(x11_text_destroy(DestroyImage(held))))))
    /\ IF "specific" \in held THEN image_scaler' = 0 /\ image_buffer' = 0
                              ELSE UNCHANGED <<image_scaler, image_buffer>>

Obtain(r) ==
    \/ held' = held \cup {r} /\ UNCHANGED <<image_scaler, image_buffer, pc>>
    \/ r \in Optional /\ UNCHANGED <<images, pc>>
    \/ r \notin Optional /\ destroy_window_data /\ pc' = "failed"

\* The last thing it does is to take the keys already held.
mfb_open_ex ==
    /\ pc = "opening"
    /\ IF stage <= Len(Wanted)
       THEN Obtain(Wanted[stage]) /\ stage' = stage + 1 /\ UNCHANGED key_status
       ELSE pc' = "idle" /\ key_status' = keys /\ UNCHANGED <<stage, images>>
    /\ UNCHANGED <<user, button_status, is_mouse_inside, is_active, window_size, viewport, close,
                   told, call, result, shown>>

--------------------------------------------------------------------------------
\* The event pump: one event of the queue, then the next, until none is waiting.
FollowedByItsPress(e) ==
    /\ Len(queue) > 1
    /\ queue[2].type = "KeyPress" /\ queue[2].key = e.key /\ queue[2].again

SetKey(k, pressed) ==
    /\ key_status' = IF pressed THEN key_status \cup {k} ELSE key_status \ {k}
    /\ told' = [told EXCEPT !.keys = IF pressed THEN @ \cup {k} ELSE @ \ {k}]

OnKey(e) ==
    /\ e.type \in {"KeyPress", "KeyRelease"}
    /\ IF e.type = "KeyRelease" /\ FollowedByItsPress(e)
       THEN UNCHANGED <<key_status, told>>
       ELSE SetKey(e.key, e.type = "KeyPress")
    /\ UNCHANGED <<button_status, is_mouse_inside, is_active, window_size, close, images>>

SetInside(inside) ==
    /\ is_mouse_inside' = inside
    /\ told' = IF is_mouse_inside # inside THEN [told EXCEPT !.inside = inside] ELSE told

\* The release of the last button settles what the crossings of the drag left open.
\* A button beyond the eighth, and the wheel, have no entry in the table.
OnButton(e) ==
    /\ e.type \in {"ButtonPress", "ButtonRelease"}
    /\ IF e.button \in Wheel \/ Names[e.button] > 7
       THEN UNCHANGED <<button_status, is_mouse_inside, told>>
       ELSE /\ button_status' = IF e.type = "ButtonPress" THEN button_status \cup {Names[e.button]}
                                ELSE button_status \ {Names[e.button]}
            /\ IF e.type = "ButtonRelease" /\ button_status' = {}
               THEN SetInside(e.at # "out")
               ELSE UNCHANGED <<is_mouse_inside, told>>
    /\ UNCHANGED <<key_status, is_active, window_size, close, images>>

OnCrossing(e) ==
    /\ e.type \in {"EnterNotify", "LeaveNotify"}
    /\ IF e.mode = "Grab" \/ button_status # {}
       THEN UNCHANGED <<is_mouse_inside, told>>
       ELSE SetInside(e.type = "EnterNotify")
    /\ UNCHANGED <<key_status, button_status, is_active, window_size, close, images>>

\* Mutant: the application is not told of a size it did not ask for.
ConfigureInSilence(e) ==
    /\ e.type = "ConfigureNotify"
    /\ window_size' = e.size /\ image_scaler' = 0
    /\ UNCHANGED <<input, close, image_buffer, held, told>>

\* The scaled image goes, its pixels stay; the viewport follows the window (Follow below).
OnConfigure(e) ==
    /\ e.type = "ConfigureNotify"
    /\ window_size' = e.size
    /\ image_scaler' = 0
    /\ told' = IF e.size # window_size THEN [told EXCEPT !.size = e.size] ELSE told
    /\ UNCHANGED <<input, close, image_buffer, held>>

sync_key_status == keys

mfb_release_held_keys == key_status' = {}

OnFocus(e) ==
    /\ e.type \in {"FocusIn", "FocusOut"}
    /\ CASE e.mode # "Normal" -> UNCHANGED <<key_status, is_active, told>>
         [] e.mode = "Normal" /\ e.type = "FocusIn" ->
               /\ is_active' = TRUE
               /\ key_status' = sync_key_status
               /\ told' = [told EXCEPT !.active = TRUE]
         [] e.mode = "Normal" /\ e.type = "FocusOut" ->
               /\ is_active' = FALSE
               /\ mfb_release_held_keys
               /\ told' = [told EXCEPT !.active = FALSE, !.keys = @ \ key_status]
    /\ UNCHANGED <<button_status, is_mouse_inside, window_size, close, images>>

OnDestroy(e) ==
    /\ e.type = "DestroyNotify"
    /\ close' = TRUE
    /\ UNCHANGED <<input, window_size, images, told>>

\* The close callback may refuse.
OnDelete(e) ==
    /\ e.type = "ClientMessage"
    /\ close' \in {close, TRUE}
    /\ UNCHANGED <<input, window_size, images, told>>

process_event ==
    /\ pc = "drain" /\ queue # <<>>
    /\ LET e == Head(queue)
       IN  OnKey(e) \/ OnButton(e) \/ OnCrossing(e) \/ OnConfigure(e) \/ OnFocus(e) \/ OnDestroy(e) \/ OnDelete(e)
    /\ queue' = Tail(queue)
    /\ UNCHANGED <<keys, focus, grabbed, repeating, place, buttons, drag, server_size, given, elsewhere,
                   never_focused, astray, viewport, program>>

--------------------------------------------------------------------------------
\* The images.  The base image wraps the application's buffer when that has the size of
\* the opening and of the viewport; else the buffer is stretched into an image of the
\* viewport's size, made anew when there is none of that size.
dst_size == (window_size * viewport[1]) \div viewport[2]
use_scaler(b) == b # dst_size \/ b # FirstSize
\* Mutant: an image of another size is kept.
AnyImageWillDo == image_scaler = 0
Stale == image_scaler = 0 \/ image_scaler # dst_size

MakeScaler ==
    \/ dst_size > 0 /\ image_scaler' = dst_size /\ image_buffer' = dst_size
    \/ image_scaler' = 0 /\ image_buffer' = 0      \* no layout, no memory or no image

Draw(b) ==
    /\ IF use_scaler(b) /\ Stale THEN MakeScaler ELSE UNCHANGED <<image_scaler, image_buffer>>
    /\ IF use_scaler(b) /\ image_scaler' = 0
       THEN pc' = "idle" /\ result' = "INTERNAL_ERROR" /\ UNCHANGED shown
       ELSE /\ pc' = "drain"
            /\ shown' = [window |-> window_size, dst |-> dst_size,
                         image |-> IF use_scaler(b) THEN image_scaler' ELSE FirstSize,
                         pixels |-> IF use_scaler(b) THEN image_buffer' ELSE b]
            /\ UNCHANGED result
    /\ UNCHANGED held

Leave == destroy_window_data /\ pc' = "gone" /\ result' = "EXIT"

--------------------------------------------------------------------------------
\* The public calls.
Call(c) ==
    /\ pc = "idle" /\ c \in Calls
    /\ pc' = "called" /\ call' = c
    /\ UNCHANGED <<user, input, window_size, viewport, close, images, told, stage, result, shown>>

mfb_update_ex(b) ==
    /\ pc = "called" /\ call = "update_ex"
    /\ CASE close -> Leave /\ UNCHANGED shown
         [] ~close /\ b = 0 -> pc' = "idle" /\ result' = "INVALID_BUFFER" /\ UNCHANGED <<images, shown>>
         [] ~close /\ b > 0 -> Draw(b)
    /\ UNCHANGED <<user, input, window_size, viewport, close, told, stage, call>>

\* mfb_update_events and mfb_wait_sync
Pump ==
    /\ pc = "called" /\ call \in {"update_events", "wait_sync"}
    /\ IF close THEN Leave ELSE pc' = "drain" /\ UNCHANGED <<images, result>>
    /\ UNCHANGED <<user, input, window_size, viewport, close, told, stage, call, shown>>

\* No event is waiting.  mfb_wait_sync pumps on until the frame's time is over, or fails
\* when poll does.
Drained ==
    /\ pc = "drain" /\ queue = <<>>
    /\ IF close THEN Leave
       ELSE /\ pc' = "idle" /\ result' \in {"OK"} \cup (IF call = "wait_sync" THEN {"INTERNAL_ERROR"} ELSE {})
            /\ UNCHANGED images
    /\ UNCHANGED <<user, input, window_size, viewport, close, told, stage, call, shown>>

\* Also from a callback.
mfb_close ==
    /\ pc \in {"idle", "drain"} /\ "close" \in Calls
    /\ close' = TRUE
    /\ UNCHANGED <<user, input, window_size, viewport, images, told, program>>

\* mfb_validate_viewport refuses the rest.
mfb_set_viewport(v) ==
    /\ pc \in {"idle", "drain"} /\ "set_viewport" \in Calls
    /\ v > 0 /\ v <= window_size
    /\ viewport' = <<v, window_size>>
    /\ UNCHANGED <<user, input, window_size, close, images, told, program>>

Library ==
    \/ mfb_open_ex \/ process_event \/ Drained
    \/ \E b \in Sizes \cup {0} : mfb_update_ex(b)
    \/ Pump

Application ==
    \/ \E c \in Calls \ {"close", "set_viewport"} : Call(c)
    \/ mfb_close
    \/ \E v \in Sizes : mfb_set_viewport(v)

Init ==
    /\ keys \in SUBSET (IF "focus" \in Inputs THEN Keys ELSE {})
    /\ focus = FALSE /\ grabbed = FALSE /\ repeating = NoKey
    /\ place = "out" /\ buttons = {} /\ drag = FALSE /\ server_size = FirstSize
    /\ queue = <<>> /\ given = 0 /\ elsewhere = {} /\ never_focused = TRUE /\ astray = FALSE
    /\ key_status = {} /\ button_status = {} /\ is_mouse_inside = FALSE /\ is_active = FALSE
    /\ window_size = FirstSize /\ viewport = <<FirstSize, FirstSize>> /\ close = FALSE
    /\ image_scaler = 0 /\ image_buffer = 0 /\ held = {}
    /\ told = [keys |-> {}, inside |-> FALSE, active |-> FALSE, size |-> FirstSize]
    /\ pc = "opening" /\ stage = 1 /\ call = "none" /\ result = "OK"
    /\ shown = [window |-> 0, dst |-> 0, image |-> 0, pixels |-> 0]

Next == Server \/ Library \/ Application

Spec == Init /\ [][Next]_vars

--------------------------------------------------------------------------------
TypeOK ==
    /\ keys \subseteq Keys /\ key_status \subseteq Keys /\ elsewhere \subseteq Keys
    /\ button_status \subseteq 0 .. 7
    /\ focus \in BOOLEAN /\ never_focused \in BOOLEAN /\ grabbed \in BOOLEAN
    /\ is_mouse_inside \in BOOLEAN /\ close \in BOOLEAN
    /\ Len(queue) <= MaxQueue
    /\ image_scaler \in Nat /\ image_buffer \in Nat
    /\ held \subseteq ToSet(Wanted)
    /\ pc \in {"opening", "failed", "idle", "called", "drain", "gone"}

Quiet == queue = <<>> /\ repeating = NoKey /\ pc \in {"idle", "drain"}

\* Once the events have been taken, the table of keys says what the keyboard does while
\* the window has the focus, and holds nothing after it lost it, whatever a repeat was split
\* by (sync_key_status, mfb_release_held_keys).  Until its first focus the window holds the
\* keys its opening found held: no event of theirs comes, so of a key that has moved since,
\* elsewhere, nothing is claimed.
KeysSettle ==
    Quiet => IF focus \/ never_focused THEN key_status \ elsewhere = keys \ elsewhere
             ELSE key_status = {}

\* A key the application was told of is in the table: no press is left without its release.
ToldKeysAreDown == told.keys \subseteq key_status

\* Nothing was ever told to an application that no longer has the focus.
NothingHeldUnfocused == ~is_active => told.keys = {}

\* Once the events have been taken and no button is held, the window knows whether the
\* pointer is in it, after any drag, its own or of another client, and has said so.
PointerSettles ==
    /\ told.inside = is_mouse_inside
    /\ Quiet /\ buttons = {} /\ ~drag /\ ~astray => is_mouse_inside = (place = "in")
    /\ Quiet => button_status = {Names[b] : b \in buttons \ Wheel} \cap 0 .. 7

\* What XPutImage is given: an image of the viewport's size, over pixels of that size.
FrameFits ==
    pc # "gone" => /\ shown.image = shown.dst /\ shown.pixels = shown.dst
                   /\ image_scaler # 0 => image_buffer = image_scaler

\* However far the opening came and however the window ended, nothing is left behind: every
\* resource is given back under its own condition, while what it depends on is still there.
NothingLeaks == pc \in {"failed", "gone"} => held = {} /\ image_scaler = 0 /\ image_buffer = 0

\* The window is one the public interface promises.
Contract == INSTANCE WindowContract WITH
    Sizes <- Sizes,
    state <- IF pc = "gone" THEN "gone" ELSE IF close THEN "closing" ELSE "open",
    calling <- pc \in {"called", "drain"},
    result <- result,
    size <- window_size,
    reported <- told.size,
    shown <- shown.window
ImplementsContract == Contract!Spec
================================================================================
