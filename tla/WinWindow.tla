------------------------------- MODULE WinWindow -------------------------------
(* The Windows backend (src/windows/WinMiniFB.c) and the system it talks to:    *)
(* opening, the window procedure with its key, button, capture, leave, focus,   *)
(* size and paint messages, the cursor count, the pumping calls and the end.    *)
(*                                                                              *)
(* The system puts its messages in one queue, in order; the library handles one *)
(* per step.  A size is one number.  Styles, DPI arithmetic, the layout of the  *)
(* keyboard and the modifiers are left out.                                     *)
EXTENDS Naturals, Sequences, SequencesExt, FiniteSetsExt

CONSTANTS
    Keys,       \* the keys of the keyboard
    Buttons,    \* the buttons of the mouse
    Sizes,      \* sizes of a window, a viewport and a buffer, 0 apart
    FirstSize,  \* the size of the opening
    Inputs,     \* what happens outside the program: "key", "focus", "pointer", "size", "close"
    Calls,      \* the calls of the application
    MaxQueue,   \* bound: messages waiting for the thread
    MaxInputs   \* bound: inputs

VARIABLES
    \* the system and the user
    keys, focus,            \* keys held down; the window has the focus
    place, buttons,         \* where the pointer is; its buttons held down
    capture, tracking,      \* SetCapture; the one-shot request of TrackMouseEvent
    queue, given,
    thread_keys,            \* GetKeyState: the keys as the messages read so far left them
    cursor_count,           \* ShowCursor: what the thread has added to its count, plus two
    lost,                   \* history: buttons released where no message reaches the window
    unseen,                 \* history: keys held whose press sent this thread no message
    settled,                \* history: nothing has happened since the last pump ended
    \* SWindowData
    key_status, button_status, is_mouse_inside, is_active, is_cursor_visible,
    window_size, viewport, close,
    draw_buffer,            \* the size of the last buffer; 0 is NULL
    lent, read_freed,       \* history: the application still has that buffer; it was read after that
    held,                   \* what the opening has obtained, g_window_counter among it
    \* what the callbacks have told the application
    told,
    \* the program
    pc, stage, call, result, shown

user == <<keys, focus, place, buttons, capture, tracking, queue, given, thread_keys, cursor_count, lost,
          unseen, settled>>
input == <<key_status, button_status, is_mouse_inside, is_active, is_cursor_visible>>
buffers == <<draw_buffer, lent, read_freed>>
window == <<window_size, viewport, close, buffers, held>>
program == <<pc, stage, call, result, shown>>
vars == <<user, input, window, told, program>>

Shifts == {"LEFT_SHIFT", "RIGHT_SHIFT"}
LostBySystem == Shifts \cup {"LEFT_SUPER", "RIGHT_SUPER"}
Balanced == 2
Hidden == 1

--------------------------------------------------------------------------------
\* The system.
Allows(kind) ==
    kind \in Inputs /\ given < MaxInputs /\ pc \notin {"opening", "failed", "gone"}

Post(messages) ==
    /\ Len(queue) + Len(messages) <= MaxQueue
    /\ queue' = queue \o messages
    /\ given' = given + 1 /\ settled' = FALSE

Key(k, pressed) == [type |-> "Key", key |-> k, pressed |-> pressed]
Silent(k) == [type |-> "Silent", key |-> k]
Mouse(type, b) == [type |-> type, button |-> b, at |-> place]
Leave == [type |-> "WM_MOUSELEAVE"]

\* Print Screen sends no key down.
KeyDown(k) ==
    /\ Allows("key") /\ k \notin keys
    /\ keys' = keys \cup {k}
    /\ unseen' = IF focus THEN unseen ELSE unseen \cup {k}
    /\ Post(IF focus /\ k # "PRINT_SCREEN" THEN <<Key(k, TRUE)>> ELSE <<>>)
    /\ UNCHANGED <<focus, place, buttons, capture, tracking, thread_keys, cursor_count, lost>>

\* The first Shift of two sends no key up, and a Windows key may send none.
KeyUp(k) ==
    /\ Allows("key") /\ k \in keys
    /\ keys' = keys \ {k}
    /\ \/ focus /\ ~(Shifts \subseteq keys /\ k \in Shifts) /\ Post(<<Key(k, FALSE)>>)
       \/ focus /\ ((Shifts \subseteq keys /\ k \in Shifts) \/ k \in LostBySystem \ Shifts) /\ Post(<<Silent(k)>>)
       \/ ~focus /\ Post(<<>>)
    /\ unseen' = unseen \ {k}
    /\ UNCHANGED <<focus, place, buttons, capture, tracking, thread_keys, cursor_count, lost>>

ChangeFocus ==
    /\ Allows("focus")
    /\ focus' = ~focus
    /\ Post(<<[type |-> IF focus THEN "WM_KILLFOCUS" ELSE "WM_SETFOCUS"]>>)
    /\ UNCHANGED <<keys, place, buttons, capture, tracking, thread_keys, cursor_count, lost, unseen>>

\* Movements reach the window under the pointer, or the one that has the capture.
MovePointer(p) ==
    /\ Allows("pointer") /\ p # place
    /\ place' = p
    /\ tracking' = (tracking /\ p = "in")
    /\ Post((IF tracking /\ p # "in" THEN <<Leave>> ELSE <<>>) \o
            (IF capture \/ p = "in" THEN <<[type |-> "WM_MOUSEMOVE", at |-> p]>> ELSE <<>>))
    /\ UNCHANGED <<keys, focus, buttons, capture, thread_keys, cursor_count, lost, unseen>>

ButtonDown(b) ==
    /\ Allows("pointer") /\ b \notin buttons /\ (capture \/ place = "in")
    /\ buttons' = buttons \cup {b} /\ lost' = lost \ {b}
    /\ Post(<<Mouse("Down", b)>>)
    /\ UNCHANGED <<keys, focus, place, capture, tracking, thread_keys, cursor_count, unseen>>

ButtonUp(b) ==
    /\ Allows("pointer") /\ b \in buttons
    /\ buttons' = buttons \ {b}
    /\ IF capture \/ place = "in" THEN Post(<<Mouse("Up", b)>>) /\ UNCHANGED lost
                                  ELSE Post(<<>>) /\ lost' = lost \cup {b}
    /\ UNCHANGED <<keys, focus, place, capture, tracking, thread_keys, cursor_count, unseen>>

\* A menu, a task switcher or another window takes the capture.
TakeCapture ==
    /\ Allows("pointer") /\ capture
    /\ capture' = FALSE /\ lost' = {}
    /\ Post(<<[type |-> "WM_CAPTURECHANGED"]>>)
    /\ UNCHANGED <<keys, focus, place, buttons, tracking, thread_keys, cursor_count, unseen>>

\* The user drags the frame, minimizes or restores, or moves to a monitor of another DPI.
Resize(type, s) ==
    /\ Allows("size")
    /\ Post(<<[type |-> type, size |-> s]>>)
    /\ UNCHANGED <<keys, focus, place, buttons, capture, tracking, thread_keys, cursor_count, lost, unseen>>

Ask(type) ==
    /\ Allows("close")
    /\ Post(<<[type |-> type]>>)
    /\ UNCHANGED <<keys, focus, place, buttons, capture, tracking, thread_keys, cursor_count, lost, unseen>>

System ==
    /\ \/ \E k \in Keys : KeyDown(k) \/ KeyUp(k)
       \/ ChangeFocus \/ TakeCapture
       \/ \E p \in {"in", "covered", "out"} : MovePointer(p)
       \/ \E b \in Buttons : ButtonDown(b) \/ ButtonUp(b)
       \/ \E s \in Sizes \cup {0} : Resize("WM_SIZE", s) \/ (s > 0 /\ Resize("WM_DPICHANGED", s))
       \/ Resize("SIZE_MINIMIZED", 0)
       \/ \E type \in {"WM_CLOSE", "WM_DESTROY", "WM_PAINT"} : Ask(type)
    /\ UNCHANGED <<input, window, told, program>>

--------------------------------------------------------------------------------
\* Who is told that the pointer came or left, and the count of the hidden cursor with it.
NoPost == <<>>

\* TrackMouseEvent with the pointer elsewhere posts the leave at once.
track_mouse_leave(armed) ==
    IF ~armed THEN UNCHANGED tracking /\ queue' = Tail(queue)
    ELSE /\ tracking' = (place = "in")
         /\ queue' = Tail(queue) \o (IF place = "in" THEN NoPost ELSE <<Leave>>)

set_mouse_inside(inside) ==
    /\ is_mouse_inside' = inside
    /\ cursor_count' = IF inside = is_mouse_inside \/ is_cursor_visible THEN cursor_count
                       ELSE IF inside THEN cursor_count - 1 ELSE cursor_count + 1

\* Mutant: the tracker that fired during the drag is not armed again.
LeaveTrackerSpent(points) ==
    /\ queue' = Tail(queue) /\ UNCHANGED tracking
    /\ set_mouse_inside(is_mouse_inside /\ FALSE \notin points)

\* The end of a drag arms the tracker again, or reports the leave it has dropped.  Our own
\* ReleaseCapture runs WM_CAPTURECHANGED first, for the pointer as it is now.
settle_mouse_inside(points) ==
    /\ track_mouse_leave(TRUE \in points)
    /\ set_mouse_inside(is_mouse_inside /\ FALSE \notin points)

--------------------------------------------------------------------------------
\* The window procedure, one message per operator.
SetKeys(down, by_thread) ==
    /\ key_status' = down
    /\ thread_keys' = by_thread

\* Print Screen is reported pressed by its own release; the release of a key that is up is
\* dropped.
OnKey(m) ==
    /\ m.type = "Key"
    /\ LET down == IF m.pressed THEN key_status \cup {m.key} ELSE key_status \ {m.key}
           known == m.key = "PRINT_SCREEN" \/ m.pressed \/ m.key \in key_status
       IN  /\ SetKeys(down, IF m.pressed THEN thread_keys \cup {m.key} ELSE thread_keys \ {m.key})
           /\ told' = IF known THEN [told EXCEPT !.keys = IF m.pressed THEN @ \cup {m.key} ELSE @ \ {m.key}]
                      ELSE told
    /\ queue' = Tail(queue)
    /\ UNCHANGED <<tracking, capture, cursor_count, button_status, is_mouse_inside, is_active, window, read_freed>>

OnSilent(m) ==
    /\ m.type = "Silent"
    /\ SetKeys(key_status, thread_keys \ {m.key})
    /\ queue' = Tail(queue)
    /\ UNCHANGED <<tracking, capture, cursor_count, button_status, is_mouse_inside, is_active, told, window>>

OnButtonDown(m) ==
    /\ m.type = "Down"
    /\ capture' = (capture \/ button_status = {})
    /\ button_status' = button_status \cup {m.button}
    /\ queue' = Tail(queue)
    /\ UNCHANGED <<tracking, cursor_count, is_mouse_inside>>

OnButtonUp(m) ==
    /\ m.type = "Up"
    /\ button_status' = button_status \ {m.button}
    /\ IF button_status' = {}
       THEN /\ capture' = FALSE
            /\ settle_mouse_inside({m.at # "out"} \cup IF capture THEN {place # "out"} ELSE {})
       ELSE /\ queue' = Tail(queue)
            /\ UNCHANGED <<tracking, capture, cursor_count, is_mouse_inside>>

release_mouse_buttons == button_status' = {}

OnCaptureChanged(m) ==
    /\ m.type = "WM_CAPTURECHANGED"
    /\ release_mouse_buttons
    /\ settle_mouse_inside({place # "out"})
    /\ UNCHANGED capture

OnMove(m) ==
    /\ m.type = "WM_MOUSEMOVE"
    /\ IF ~is_mouse_inside /\ m.at # "out"
       THEN track_mouse_leave(TRUE) /\ set_mouse_inside(TRUE)
       ELSE queue' = Tail(queue) /\ UNCHANGED <<tracking, cursor_count, is_mouse_inside>>
    /\ UNCHANGED <<capture, button_status>>

OnLeave(m) ==
    /\ m.type = "WM_MOUSELEAVE"
    /\ IF button_status = {} THEN set_mouse_inside(FALSE) ELSE UNCHANGED <<cursor_count, is_mouse_inside>>
    /\ queue' = Tail(queue)
    /\ UNCHANGED <<tracking, capture, button_status>>

OnPointer(m) ==
    /\ OnButtonDown(m) \/ OnButtonUp(m) \/ OnCaptureChanged(m) \/ OnMove(m) \/ OnLeave(m)
    /\ told' = [told EXCEPT !.inside = is_mouse_inside', !.buttons = button_status']
    /\ UNCHANGED <<key_status, thread_keys, is_active, window>>

sync_key_status == keys

mfb_release_held_keys == {}

\* The table is read from the device.  GetKeyState answers from the messages read, which is
\* stale here, unless Windows itself brings it up to date when it gives the focus.
TakeKeys == \E by_thread \in {thread_keys, keys} : SetKeys(sync_key_status, by_thread)

OnSetFocus(m) ==
    /\ m.type = "WM_SETFOCUS"
    /\ is_active' = TRUE
    /\ TakeKeys
    /\ told' = [told EXCEPT !.active = TRUE]

OnKillFocus(m) ==
    /\ m.type = "WM_KILLFOCUS"
    /\ is_active' = FALSE
    /\ SetKeys(mfb_release_held_keys, thread_keys)
    /\ told' = [told EXCEPT !.active = FALSE, !.keys = @ \ key_status]

OnFocus(m) ==
    /\ OnSetFocus(m) \/ OnKillFocus(m)
    /\ queue' = Tail(queue)
    /\ UNCHANGED <<tracking, capture, cursor_count, button_status, is_mouse_inside, window>>

\* WM_DPICHANGED sizes the window, and WM_SIZE runs inside it.
OnSize(m) ==
    /\ m.type \in {"WM_SIZE", "WM_DPICHANGED", "SIZE_MINIMIZED"}
    /\ IF m.type = "SIZE_MINIMIZED" THEN UNCHANGED <<window_size, told>>
       ELSE /\ window_size' = m.size
            /\ told' = IF m.size # window_size /\ m.size # 0 THEN [told EXCEPT !.size = m.size] ELSE told
    /\ UNCHANGED <<close, buffers>>

\* The close callback may refuse.
OnClose(m) ==
    /\ m.type \in {"WM_CLOSE", "WM_DESTROY"}
    /\ close' \in {TRUE} \cup (IF m.type = "WM_CLOSE" THEN {close} ELSE {})
    /\ UNCHANGED <<window_size, told, buffers>>

\* A repaint reads the last buffer again, in whatever call pumps it.
OnPaint(m) ==
    /\ m.type = "WM_PAINT"
    /\ read_freed' = (read_freed \/ (draw_buffer # 0 /\ ~lent))
    /\ UNCHANGED <<window_size, close, told, draw_buffer, lent>>

OnWindow(m) ==
    /\ OnSize(m) \/ OnClose(m) \/ OnPaint(m)
    /\ queue' = Tail(queue)
    /\ UNCHANGED <<tracking, capture, cursor_count, key_status, thread_keys, button_status, is_mouse_inside,
                   is_active, viewport, held>>

WndProc ==
    /\ pc = "drain" /\ queue # <<>>
    /\ LET m == Head(queue)
       IN  OnKey(m) \/ OnSilent(m) \/ OnPointer(m) \/ OnFocus(m) \/ OnWindow(m)
    /\ UNCHANGED <<keys, focus, place, buttons, given, lost, unseen, settled, is_cursor_visible, program>>

\* Mutant: a key whose release the system keeps for itself stays down.
TrustTheMessages == UNCHANGED <<key_status, told>>

\* No message is waiting: the keys whose release the system never sends come up.
release_key_lost_by_system ==
    LET up == {k \in LostBySystem \cap key_status : k \notin thread_keys}
    IN  IF ~is_active THEN UNCHANGED <<key_status, told>>
        ELSE /\ key_status' = key_status \ up
             /\ told' = [told EXCEPT !.keys = @ \ up]

--------------------------------------------------------------------------------
\* Opening: each resource in turn, and all given back when one is refused.  A window that
\* is shown takes the focus, with the keys already held, before the application is told.
Wanted == <<"counter", "data", "specific", "class", "window", "hdc", "bitmap_info", "timer">>
Free == {"counter"}

\* What is left of the resources h by each part of destroy_window_data, under the conditions
\* it has: what SWindowData_Win points to is not reached without it, and the device context
\* is given back with its window.  The window class is never unregistered.
free_bitmap_info(h) == IF "specific" \in h THEN h \ {"bitmap_info"} ELSE h
ReleaseDC(h) == IF {"specific", "window"} \subseteq h THEN h \ {"hdc"} ELSE h
DestroyWindow(h) == IF "specific" \in h THEN h \ {"window"} ELSE h
release_window_counter(h) == h \ {"counter"}
mfb_free_window_data(h) == h \ {"timer", "specific", "data"}

\* Mutant: the cursor stays hidden for the rest of the thread.
ForgetHiddenCursor ==
    /\ held' = mfb_free_window_data(release_window_counter(DestroyWindow(ReleaseDC(free_bitmap_info(held)))))
    /\ is_mouse_inside' = FALSE
    /\ UNCHANGED cursor_count

\* A window that hid the cursor shows it again: the count belongs to the thread.
destroy_window_data ==
    /\ held' = mfb_free_window_data(release_window_counter(DestroyWindow(ReleaseDC(free_bitmap_info(held)))))
    /\ cursor_count' = IF ~is_cursor_visible /\ is_mouse_inside THEN cursor_count + 1 ELSE cursor_count
    /\ is_mouse_inside' = FALSE

mfb_open_ex ==
    /\ pc = "opening"
    /\ \/ /\ stage <= Len(Wanted)
          /\ held' = held \cup {Wanted[stage]} /\ stage' = stage + 1
          /\ UNCHANGED <<pc, focus, is_active, key_status, thread_keys, cursor_count, is_mouse_inside>>
       \/ /\ stage <= Len(Wanted) /\ Wanted[stage] \notin Free
          /\ destroy_window_data /\ pc' = "failed"
          /\ UNCHANGED <<stage, focus, is_active, key_status, thread_keys>>
       \/ /\ stage > Len(Wanted)
          /\ pc' = "idle" /\ focus' = TRUE /\ is_active' = TRUE /\ TakeKeys
          /\ UNCHANGED <<held, stage, cursor_count, is_mouse_inside>>
    /\ UNCHANGED <<keys, place, buttons, capture, tracking, queue, given, lost, unseen, settled,
                   button_status, is_cursor_visible, window_size, viewport, close, buffers, told, call, result, shown>>

End == destroy_window_data /\ pc' = "gone" /\ result' = "EXIT"

--------------------------------------------------------------------------------
\* The public calls.
Others == <<keys, focus, place, buttons, capture, tracking, queue, given, lost, unseen, button_status,
            is_active, is_cursor_visible, window_size, viewport, close>>

Call(c) ==
    /\ pc = "idle" /\ c \in Calls
    /\ pc' = "called" /\ call' = c
    /\ UNCHANGED <<user, input, window, told, stage, result, shown>>

dst_size == (window_size * viewport[1]) \div viewport[2]

\* WM_PAINT is sent, not posted; a window of no size shows nothing.  The bilinear filter needs a scaled copy, which may fail.
Paint(b) ==
    \/ /\ pc' = "drain"
       /\ shown' = IF window_size = 0 THEN shown ELSE window_size
       /\ UNCHANGED result
    \/ dst_size \notin {0, b} /\ pc' = "idle" /\ result' = "INTERNAL_ERROR" /\ UNCHANGED shown

mfb_update_ex(b) ==
    /\ pc = "called" /\ call = "update_ex"
    /\ CASE close -> End /\ UNCHANGED <<buffers, shown>>
         [] ~close /\ b = 0 ->
               /\ pc' = "idle" /\ result' = "INVALID_BUFFER"
               /\ UNCHANGED <<buffers, shown, held, cursor_count, is_mouse_inside>>
         [] ~close /\ b > 0 ->
               /\ draw_buffer' = b /\ lent' = TRUE
               /\ Paint(b)
               /\ UNCHANGED <<read_freed, held, cursor_count, is_mouse_inside>>
    /\ UNCHANGED <<Others, settled, key_status, thread_keys, told, stage, call>>

\* mfb_update_events and mfb_wait_sync
Pump ==
    /\ pc = "called" /\ call \in {"update_events", "wait_sync"}
    /\ IF close THEN End ELSE pc' = "drain" /\ UNCHANGED <<result, held, cursor_count, is_mouse_inside>>
    /\ UNCHANGED <<Others, settled, buffers, key_status, thread_keys, told, stage, call, shown>>

\* mfb_wait_sync pumps on until the frame's time is over.
Drained ==
    /\ pc = "drain" /\ queue = <<>>
    /\ release_key_lost_by_system
    /\ settled' = TRUE
    /\ IF close THEN End
       ELSE /\ pc' \in {"idle"} \cup (IF call = "wait_sync" THEN {"drain"} ELSE {})
            /\ result' = IF pc' = "idle" THEN "OK" ELSE result
            /\ UNCHANGED <<held, cursor_count, is_mouse_inside>>
    /\ UNCHANGED <<Others, buffers, thread_keys, stage, call, shown>>

mfb_close ==
    /\ pc \in {"idle", "drain"} /\ "close" \in Calls
    /\ close' = TRUE
    /\ UNCHANGED <<user, input, window_size, viewport, buffers, held, told, program>>

mfb_set_viewport(v) ==
    /\ pc \in {"idle", "drain"} /\ "set_viewport" \in Calls
    /\ v > 0 /\ v <= window_size
    /\ viewport' = <<v, window_size>>
    /\ UNCHANGED <<user, input, window_size, close, buffers, held, told, program>>

mfb_show_cursor(show) ==
    /\ pc \in {"idle", "drain"} /\ "show_cursor" \in Calls
    /\ cursor_count' = IF ~is_mouse_inside \/ is_cursor_visible = show THEN cursor_count
                       ELSE IF show THEN cursor_count + 1 ELSE cursor_count - 1
    /\ is_cursor_visible' = show
    /\ UNCHANGED <<keys, focus, place, buttons, capture, tracking, queue, given, thread_keys, lost, unseen,
                   settled, key_status, button_status, is_mouse_inside, is_active, window, told, program>>

\* The application frees the buffer it gave, as when its resize callback makes another.
FreeBuffer ==
    /\ pc \in {"idle", "drain"} /\ "free" \in Calls
    /\ lent' = FALSE
    /\ UNCHANGED <<user, input, window_size, viewport, close, draw_buffer, read_freed, held, told, program>>

Library ==
    \/ mfb_open_ex \/ WndProc \/ Drained \/ Pump
    \/ \E b \in Sizes \cup {0} : mfb_update_ex(b)

Application ==
    \/ \E c \in {"update_ex", "update_events", "wait_sync"} : Call(c)
    \/ mfb_close \/ FreeBuffer
    \/ \E v \in Sizes : mfb_set_viewport(v)
    \/ \E show \in BOOLEAN : mfb_show_cursor(show)

Init ==
    /\ keys \in SUBSET (IF "focus" \in Inputs THEN Keys ELSE {})
    /\ focus = FALSE /\ place = "out" /\ buttons = {} /\ capture = FALSE /\ tracking = FALSE
    /\ queue = <<>> /\ given = 0 /\ thread_keys = {} /\ cursor_count = Balanced
    /\ lost = {} /\ unseen = keys /\ settled = FALSE
    /\ key_status = {} /\ button_status = {} /\ is_mouse_inside = FALSE /\ is_active = FALSE
    /\ is_cursor_visible = TRUE
    /\ window_size = FirstSize /\ viewport = <<FirstSize, FirstSize>> /\ close = FALSE
    /\ draw_buffer = 0 /\ lent = FALSE /\ read_freed = FALSE /\ held = {}
    /\ told = [keys |-> {}, buttons |-> {}, inside |-> FALSE, active |-> FALSE, size |-> FirstSize]
    /\ pc = "opening" /\ stage = 1 /\ call = "none" /\ result = "OK"
    /\ shown = 0

Next == System \/ Library \/ Application

Spec == Init /\ [][Next]_vars

--------------------------------------------------------------------------------
TypeOK ==
    /\ keys \subseteq Keys /\ key_status \subseteq Keys /\ thread_keys \subseteq Keys /\ unseen \subseteq Keys
    /\ button_status \subseteq Buttons /\ lost \subseteq Buttons
    /\ Len(queue) <= MaxQueue
    /\ cursor_count \in {Hidden, Balanced}
    /\ window_size \in Sizes \cup {0} /\ draw_buffer \in Sizes \cup {0}
    /\ held \subseteq ToSet(Wanted)
    /\ pc \in {"opening", "failed", "idle", "called", "drain", "gone"}

\* Nothing has happened since the last pump.
Settled == settled /\ pc = "idle"

\* After a pump the table of keys says what the keyboard does, while the window has the
\* focus, and holds nothing while it has not, whatever release the system swallowed.  A Shift
\* or a Windows key pressed before the window had the focus and still held may be missing:
\* where GetKeyState is stale, release_key_lost_by_system takes its release for a lost one.
MayBeMissing == LostBySystem \cap unseen
KeysSettle ==
    Settled => LET table == key_status \ {"PRINT_SCREEN"}
               IN  IF focus THEN table \subseteq keys /\ keys \subseteq table \cup MayBeMissing \cup {"PRINT_SCREEN"}
                   ELSE table = {}

\* A key the application was told of is in the table, and none is without the focus.
ToldKeysAreDown == told.keys \subseteq key_status /\ (~is_active => told.keys = {})

\* After a pump no button of the table is up, unless it came up before the capture was
\* taken, and with no button held the window knows whether the pointer is in it.
PointerSettles ==
    /\ told.inside = is_mouse_inside \/ pc = "gone"
    /\ told.buttons = button_status
    /\ Settled => button_status \subseteq buttons \cup lost
    /\ Settled /\ button_status = {} => is_mouse_inside = (place = "in")

\* The one-shot tracker is armed whenever the pointer is known to be inside with no button
\* held: the next leave is never missed.
LeaveIsTracked ==
    Settled /\ is_mouse_inside /\ button_status = {} => tracking

\* The count ShowCursor keeps for the thread is what this window's hidden cursor asks for,
\* and balanced once the window is gone.
CursorCountBalanced ==
    cursor_count = IF is_mouse_inside /\ ~is_cursor_visible THEN Hidden ELSE Balanced

\* However far the opening came and however the window ended, nothing is left behind but the
\* window class, which is the process's: every resource is given back under its own
\* condition, while what it depends on is still there, and the timer period with them.
NothingLeaks == pc \in {"failed", "gone"} => held \subseteq {"class"}

\* A repaint never reads a buffer the application has freed.
RepaintReadsLentBuffer == ~read_freed

\* The window is one the public interface promises.  One of no size keeps its last one.
Contract == INSTANCE WindowContract WITH
    Sizes <- Sizes,
    state <- IF pc = "gone" THEN "gone" ELSE IF close THEN "closing" ELSE "open",
    calling <- pc \in {"called", "drain"},
    result <- result,
    size <- IF window_size = 0 THEN told.size ELSE window_size,
    reported <- told.size,
    shown <- shown
ImplementsContract == Contract!Spec
================================================================================
