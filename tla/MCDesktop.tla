------------------------------- MODULE MCDesktop -------------------------------
(* The windows of X11 and of Windows, each in three settings, and of DOS, in two: a  *)
(* setting restricts what may happen in it.                                         *)
EXTENDS Integers, Sequences

CONSTANTS
    Scenarios,                   \* the settings of a run
    XKeys, XButtons, XSizes,     \* of X11Window
    WKeys, WButtons, WSizes,     \* of WinWindow
    DButtons, DSizes, DFirstSize, \* of DosWindow
    FirstSize, MaxQueue, MaxInputs

VARIABLES
    scenario,
    \* of the backends: DOS has no focus and has its keys in DosKeyboard
    keys, focus, place, buttons, queue, given, key_status, button_status, is_mouse_inside,
    is_active, window_size, viewport, close, held, told, pc, stage, call, result, shown,
    \* of X11
    grabbed, repeating, drag, server_size, elsewhere, never_focused, astray, image_scaler, image_buffer,
    \* of Windows
    capture, tracking, thread_keys, cursor_count, lost, unseen, settled, is_cursor_visible,
    draw_buffer, lent, read_freed,
    \* of DOS
    driver, wheel, scrolled, polled, screen

both == <<keys, focus, place, buttons, queue, given, key_status, button_status, is_mouse_inside,
          is_active, window_size, viewport, close, held, told, pc, stage, call, result, shown>>
x11 == <<grabbed, repeating, drag, server_size, elsewhere, never_focused, astray, image_scaler, image_buffer>>
win == <<capture, tracking, thread_keys, cursor_count, lost, unseen, settled, is_cursor_visible,
         draw_buffer, lent, read_freed>>
dos == <<driver, wheel, scrolled, polled, screen>>

X == INSTANCE X11Window WITH
        Keys <- XKeys, Buttons <- XButtons, Sizes <- XSizes,
        Inputs <- {"key", "focus", "pointer", "resize", "close"},
        Calls <- {"update_ex", "update_events", "wait_sync", "close", "set_viewport"}
W == INSTANCE WinWindow WITH
        Keys <- WKeys, Buttons <- WButtons, Sizes <- WSizes,
        Inputs <- {"key", "focus", "pointer", "size", "close"},
        Calls <- {"update_ex", "update_events", "wait_sync", "close", "set_viewport", "show_cursor", "free"}
D == INSTANCE DosWindow WITH Buttons <- DButtons, Sizes <- DSizes, FirstSize <- DFirstSize

Scene(s) == s \in Scenarios /\ scenario = s
OnX11 == scenario \in {"x11_keys", "x11_pointer", "x11_frames"}
OnDos == scenario \in {"dos_pointer", "dos_frames"}

\* The fields of the other backends stay as they are.
NoX11 ==
    /\ grabbed = 0 /\ repeating = 0 /\ drag = 0 /\ server_size = 0
    /\ elsewhere = 0 /\ never_focused = 0 /\ astray = 0 /\ image_scaler = 0 /\ image_buffer = 0
NoWin ==
    /\ capture = 0 /\ tracking = 0 /\ thread_keys = 0 /\ cursor_count = 0 /\ lost = 0
    /\ unseen = 0 /\ settled = 0 /\ is_cursor_visible = 0 /\ draw_buffer = 0 /\ lent = 0 /\ read_freed = 0
NoDos == driver = 0 /\ wheel = 0 /\ scrolled = 0 /\ polled = 0 /\ screen = 0

\* What may happen in a setting: the types of the events the system queues, and bounds.
Only(types, length, inputs) ==
    /\ Len(queue') <= length /\ given' <= inputs
    /\ \A i \in 1 .. Len(queue') : queue'[i].type \in types
Pumping == call' \in {"none", "update_events"}

X11Keys ==
    /\ Only({"KeyPress", "KeyRelease", "FocusIn", "FocusOut"}, 3, 5)
    /\ Pumping /\ <<place, buttons, drag, close>>' = <<place, buttons, drag, close>>
X11Pointer ==
    /\ Only({"EnterNotify", "LeaveNotify", "ButtonPress", "ButtonRelease"}, 3, 5)
    /\ Pumping /\ <<keys, close>>' = <<keys, close>>
X11Frames ==
    /\ Only({"ConfigureNotify", "ClientMessage", "DestroyNotify"}, 2, 2)
    /\ <<keys, place, drag>>' = <<keys, place, drag>>
WinKeys ==
    /\ Only({"Key", "Silent", "WM_SETFOCUS", "WM_KILLFOCUS"}, 3, 4)
    /\ Pumping /\ <<place, is_cursor_visible, close>>' = <<place, is_cursor_visible, close>>
WinPointer ==
    /\ Only({"WM_MOUSEMOVE", "WM_MOUSELEAVE", "Down", "Up", "WM_CAPTURECHANGED"}, 3, 6)
    /\ Pumping /\ keys' = keys
WinFrames ==
    /\ Only({"WM_SIZE", "WM_DPICHANGED", "SIZE_MINIMIZED", "WM_CLOSE", "WM_DESTROY", "WM_PAINT"}, 2, 3)
    /\ Len(queue') + given' <= 4
    /\ <<keys, place, is_cursor_visible>>' = <<keys, place, is_cursor_visible>>

DosPointer ==
    /\ Len(queue') <= 1 /\ given' <= 4
    /\ screen'.bpp = 32 /\ ~screen'.padded
    /\ Pumping /\ viewport' = viewport
DosFrames == Len(queue') <= 1 /\ given' <= 2 /\ <<buttons, place, wheel>>' = <<buttons, place, wheel>>

MCInit ==
    \/ Scene("x11_keys") /\ X!Init /\ NoWin /\ NoDos
    \/ (Scene("x11_pointer") \/ Scene("x11_frames")) /\ X!Init /\ keys = {} /\ NoWin /\ NoDos
    \/ Scene("win_keys") /\ W!Init /\ NoX11 /\ NoDos
    \/ (Scene("win_pointer") \/ Scene("win_frames")) /\ W!Init /\ keys = {} /\ NoX11 /\ NoDos
    \/ /\ Scene("dos_pointer") \/ (Scene("dos_frames") /\ driver = "none")
       /\ D!Init /\ keys = {} /\ focus = FALSE /\ key_status = {} /\ NoX11 /\ NoWin
MCNext ==
    /\ UNCHANGED scenario
    /\ \/ Scene("x11_keys") /\ X!Next /\ X11Keys /\ UNCHANGED <<win, dos>>
       \/ Scene("x11_pointer") /\ X!Next /\ X11Pointer /\ UNCHANGED <<win, dos>>
       \/ Scene("x11_frames") /\ X!Next /\ X11Frames /\ UNCHANGED <<win, dos>>
       \/ Scene("win_keys") /\ W!Next /\ WinKeys /\ UNCHANGED <<x11, dos>>
       \/ Scene("win_pointer") /\ W!Next /\ WinPointer /\ UNCHANGED <<x11, dos>>
       \/ Scene("win_frames") /\ W!Next /\ WinFrames /\ UNCHANGED <<x11, dos>>
       \/ Scene("dos_pointer") /\ D!Next /\ DosPointer /\ UNCHANGED <<keys, focus, key_status, x11, win>>
       \/ Scene("dos_frames") /\ D!Next /\ DosFrames /\ UNCHANGED <<keys, focus, key_status, x11, win>>
MCSpec == MCInit /\ [][MCNext]_<<scenario, both, x11, win, dos>>

--------------------------------------------------------------------------------
Each(x11_holds, win_holds, dos_holds) == IF OnX11 THEN x11_holds ELSE IF OnDos THEN dos_holds ELSE win_holds

TypesHold == Each(X!TypeOK, W!TypeOK, D!TypeOK)

\* Once the events are taken the table of keys says what the keyboard does while the
\* window has the focus and holds nothing once it has lost it, and no key the application
\* was told of is left without its release (sync_key_status, mfb_release_held_keys).  Before
\* its first focus the window of X11 holds the keys of its opening, and that of Windows may
\* miss a Shift or a Windows key pressed before it had the focus (release_key_lost_by_system).
KeysSettle ==
    TypesHold /\
    Each(X!KeysSettle /\ X!ToldKeysAreDown /\ X!NothingHeldUnfocused,
         W!KeysSettle /\ W!ToldKeysAreDown, TRUE)

\* Once the events are taken the window knows which buttons are held and whether the
\* pointer is in it, after any drag, and the next leave cannot be missed; and of DOS, every
\* notch of the wheel is told once.
PointerSettles == Each(X!PointerSettles, W!PointerSettles /\ W!LeaveIsTracked, D!PointerSettles)

\* The count of ShowCursor is what this window's hidden cursor asks for, and balanced once
\* the window is gone.
CursorCountBalanced == Each(TRUE, W!CursorCountBalanced, TRUE)

\* What XPutImage is given: an image of the viewport's size over pixels of that size; what
\* DOS copies to the screen: as many pixels as it has, through buffers that are there.
FrameFits == Each(X!FrameFits, TRUE, D!FrameFits)

\* However far the opening came and however the window ended, nothing is left behind: each
\* resource is given back under its own condition and in an order in which what it depends
\* on is still there.  The class of Windows is not the window's: it stays registered.
NothingLeaks == Each(X!NothingLeaks, W!NothingLeaks, D!NothingLeaks)

\* Each window is one the public interface promises.  One of no size keeps its last one.
Contract == INSTANCE WindowContract WITH
    Sizes <- XSizes \cup WSizes \cup {DFirstSize},
    state <- IF pc = "gone" THEN "gone" ELSE IF close THEN "closing" ELSE "open",
    calling <- pc \in {"called", "drain", "return"},
    result <- result,
    size <- IF window_size = 0 THEN told.size ELSE window_size,
    reported <- told.size,
    shown <- Each(shown.window, shown, shown.window)
ImplementsContract == Contract!Spec
================================================================================
