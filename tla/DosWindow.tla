------------------------------- MODULE DosWindow -------------------------------
(* The display and the mouse of the DOS backend (src/dos/DOSMiniFB.c, vesa.c):    *)
(* the VESA mode, the buffers and the driver an opening obtains, the poll of the  *)
(* mouse, the keys a call takes, the paths a frame can go, and the end.           *)
(*                                                                                *)
(* One axis of the screen stands for both, and of the keyboard only Escape is     *)
(* left, which asks for the close; DosKeyboard has the rest.  There is nothing to *)
(* resize: the window keeps the size of the opening.                              *)
EXTENDS Integers, Sequences

CONSTANTS
    Buttons,    \* the buttons of the mouse
    Sizes,      \* sizes of a viewport and of a buffer, 0 apart
    FirstSize,  \* the size of the window
    MaxQueue,   \* bound: strokes waiting in the ring
    MaxInputs   \* bound: inputs

VARIABLES
    \* the machine and the user
    driver,                     \* of the mouse: none, one without a wheel, or where it has the counter
    buttons, place,             \* buttons held down; where on the screen the pointer is
    wheel,                      \* the driver's counter of notches, down positive
    queue, given,
    scrolled, polled,           \* history: notches turned, up positive; no input since the last poll
    screen,                     \* the mode found: how many pixels to one of the window, bits, padding
    \* SWindowData
    button_status, is_mouse_inside, is_active, window_size, viewport, close, held,
    \* what the callbacks have told the application
    told,
    \* the program
    pc, stage, call, result, shown

mouse == <<driver, buttons, place, wheel, scrolled, polled>>
input == <<button_status, is_mouse_inside, is_active>>
window == <<screen, window_size, viewport, close, held>>
program == <<pc, stage, call, result, shown>>
vars == <<mouse, queue, given, input, window, told, program>>

actual_size == screen.times * window_size

--------------------------------------------------------------------------------
\* The user.
Allows == given < MaxInputs /\ pc \notin {"opening", "failed", "gone"}

ChangeButton(b) == driver # "none" /\ buttons' = (buttons \ {b}) \cup ({b} \ buttons) /\ UNCHANGED <<place, wheel, scrolled>>

\* The driver keeps the pointer on the screen.
MovePointer(p) == driver # "none" /\ p < actual_size /\ place' = p /\ UNCHANGED <<buttons, wheel, scrolled>>

TurnWheel(up) ==
    /\ driver \in {"bh", "bx"}
    /\ scrolled' = scrolled + up /\ wheel' = wheel - up
    /\ UNCHANGED <<buttons, place>>

User ==
    /\ Allows /\ given' = given + 1
    /\ \/ /\ \/ \E b \in Buttons : ChangeButton(b)
             \/ \E p \in 0 .. 2 * window_size : MovePointer(p)
             \/ \E up \in {1, -1} : TurnWheel(up)
          /\ polled' = FALSE /\ UNCHANGED queue
       \/ /\ Len(queue) < MaxQueue /\ queue' = Append(queue, "ESCAPE")
          /\ UNCHANGED <<buttons, place, wheel, scrolled, polled>>
    /\ UNCHANGED <<driver, input, window, told, program>>

--------------------------------------------------------------------------------
\* Opening.  The mode may be twice the size of the window, its pixels of 24 bits and its
\* lines padded; the first stage fails too when the BIOS has none that fits.
Wanted == <<"mapping", "selector", "mode", "data", "specific", "timer", "scale_buffer", "scanline_buffer">>
Vesa == {"mapping", "selector", "mode"}
Data == {"data", "specific", "timer", "scale_buffer", "scanline_buffer"}
Optional == {"timer", "scale_buffer", "scanline_buffer"}

Fits == [times : {1, 2}, bpp : {24, 32}, padded : BOOLEAN]

\* A frame of another layout than the application's is put together in the scanline buffer.
needs_scanline == screen.bpp # 32 \/ screen.padded \/ screen.times # 1

\* What vesa_init undoes itself, and what vesa_dispose does once the mode is set.
vesa_init_fails(r) == held' = held \ (IF r = "mode" THEN {"mapping", "selector"} ELSE {"mapping"})
vesa_dispose == IF "mode" \in held THEN held \ Vesa ELSE held

destroy_window_data == held' = vesa_dispose \ Data

Obtain(r) ==
    /\ stage' = stage + 1
    /\ \/ /\ held' = held \cup (IF r = "scanline_buffer" /\ ~needs_scanline THEN {} ELSE {r})
          /\ screen' \in IF r = "mode" THEN Fits ELSE {screen}
          /\ UNCHANGED pc
       \/ r \in Optional /\ UNCHANGED <<held, screen, pc>>
       \/ /\ r \notin Optional /\ pc' = "failed" /\ UNCHANGED screen
          /\ CASE r \in Vesa -> vesa_init_fails(r)
               [] r = "data" -> held' = vesa_dispose
               [] OTHER -> destroy_window_data
    /\ UNCHANGED <<is_mouse_inside, is_active>>

\* The pointer can never be outside.
init_mouse == is_mouse_inside' = (driver # "none")

\* The buffers are looked at when all have been asked for.
Complete ==
    /\ IF "scale_buffer" \notin held \/ (needs_scanline /\ "scanline_buffer" \notin held)
       THEN destroy_window_data /\ pc' = "failed" /\ UNCHANGED <<is_mouse_inside, is_active>>
       ELSE pc' = "idle" /\ is_active' = TRUE /\ init_mouse /\ UNCHANGED held
    /\ UNCHANGED <<stage, screen>>

mfb_open_ex ==
    /\ pc = "opening"
    /\ IF stage <= Len(Wanted) THEN Obtain(Wanted[stage]) ELSE Complete
    /\ UNCHANGED <<mouse, queue, given, button_status, window_size, viewport, close, told, call, result, shown>>

--------------------------------------------------------------------------------
\* mfb_update_events: the close, the mouse, the keys, the close again.
Call(c) ==
    /\ pc = "idle"
    /\ pc' = "called" /\ call' = c
    /\ UNCHANGED <<mouse, queue, given, input, window, told, stage, result, shown>>

End == destroy_window_data /\ pc' = "gone" /\ result' = "EXIT"

\* One driver has the counter in BH of function 3, one in BX of function 0x0b, which is
\* called either way: it clears the counter.
notches == IF driver \in {"bh", "bx"} THEN wheel ELSE 0

\* In units of the window.
position == (place * window_size) \div actual_size

update_mouse ==
    /\ button_status' = IF driver = "none" THEN button_status ELSE buttons
    /\ told' = IF driver = "none" THEN told
               ELSE [told EXCEPT !.buttons = buttons, !.place = position, !.scrolled = @ - notches]
    /\ wheel' = IF driver \in {"bh", "bx"} THEN 0 ELSE wheel

Poll ==
    /\ pc = "called"
    /\ IF close THEN End /\ UNCHANGED <<mouse, input, told>>
       ELSE /\ update_mouse /\ polled' = TRUE
            /\ pc' = "drain"
            /\ UNCHANGED <<driver, buttons, place, scrolled, is_mouse_inside, is_active, held, result>>
    /\ UNCHANGED <<queue, given, screen, window_size, viewport, close, stage, call, shown>>

\* The buffer is refused before anything else is done.
RefuseBuffer ==
    /\ pc = "called" /\ call = "update_ex"
    /\ pc' = "idle" /\ result' = "INVALID_BUFFER"
    /\ UNCHANGED <<mouse, queue, given, input, window, told, stage, call, shown>>

\* keyboard_default asks for the close when Escape comes up; the close callback may refuse.
update_keyboard ==
    /\ pc = "drain" /\ queue # <<>>
    /\ queue' = Tail(queue)
    /\ close' \in {close, TRUE}
    /\ UNCHANGED <<mouse, given, input, screen, window_size, viewport, held, told, program>>

\* mfb_wait_sync polls on until the frame's time is over, when it has a timer.
Drained ==
    /\ pc = "drain" /\ queue = <<>>
    /\ IF close THEN End
       ELSE /\ call # "update_ex"
            /\ \/ pc' = "idle" /\ result' = "OK"
               \/ call = "wait_sync" /\ "timer" \in held /\ pc' = "called" /\ UNCHANGED result
            /\ UNCHANGED held
    /\ UNCHANGED <<mouse, queue, given, input, screen, window_size, viewport, close, told, stage, call, shown>>

--------------------------------------------------------------------------------
\* The frame: copied as it is, or stretched into the part of the scale buffer that is the
\* viewport's, and put together line by line when the layout differs.
has_viewport == viewport # <<0, window_size>>
scaled(n) == (n * actual_size) \div window_size
Exact(b) == ~has_viewport /\ b = actual_size /\ screen.bpp = 32 /\ ~screen.padded

\* Where the pixels go.
Part ==
    LET x == IF has_viewport THEN scaled(viewport[1]) ELSE 0
        w == IF ~has_viewport THEN actual_size
             ELSE IF scaled(viewport[2]) = 0 THEN 1 ELSE scaled(viewport[2])
    IN  IF x >= actual_size THEN [first |-> 0, count |-> 0]
        ELSE [first |-> x, count |-> IF x + w > actual_size THEN actual_size - x ELSE w]

\* Which pixels they are: those of the application's buffer, or of the scale buffer.
frame(b) == IF has_viewport \/ actual_size # b THEN actual_size ELSE b
rearranged(b) == ~Exact(b) /\ (screen.bpp = 24 \/ screen.padded)

mfb_update_ex(b) ==
    /\ pc = "drain" /\ queue = <<>> /\ ~close /\ call = "update_ex"
    /\ pc' = "return"
    /\ shown' = [window |-> window_size, part |-> Part, read |-> frame(b), copied |-> actual_size,
                 from |-> IF rearranged(b) THEN "scanline_buffer" ELSE "frame"]
    /\ UNCHANGED <<mouse, queue, given, input, window, told, stage, call, result>>

Return ==
    /\ pc = "return"
    /\ pc' = "idle" /\ result' = "OK"
    /\ UNCHANGED <<mouse, queue, given, input, window, told, stage, call, shown>>

mfb_close ==
    /\ pc \in {"idle", "drain"}
    /\ close' = TRUE
    /\ UNCHANGED <<mouse, queue, given, input, screen, window_size, viewport, held, told, program>>

\* mfb_validate_viewport refuses the rest.
mfb_set_viewport(offset, size) ==
    /\ pc \in {"idle", "drain"}
    /\ size > 0 /\ offset + size <= window_size
    /\ viewport' = <<offset, size>>
    /\ UNCHANGED <<mouse, queue, given, input, screen, window_size, close, held, told, program>>

Library ==
    \/ mfb_open_ex \/ Poll \/ RefuseBuffer \/ update_keyboard \/ Drained \/ Return
    \/ \E b \in Sizes : mfb_update_ex(b)

Application ==
    \/ \E c \in {"update_ex", "update_events", "wait_sync"} : Call(c)
    \/ mfb_close
    \/ \E offset \in Sizes \cup {0}, size \in Sizes : mfb_set_viewport(offset, size)

Init ==
    /\ driver \in {"none", "no_wheel", "bh", "bx"}
    /\ buttons = {} /\ place = 0 /\ wheel = 0 /\ queue = <<>> /\ given = 0 /\ scrolled = 0 /\ polled = FALSE
    /\ screen = [times |-> 1, bpp |-> 32, padded |-> FALSE]
    /\ button_status = {} /\ is_mouse_inside = FALSE /\ is_active = FALSE
    /\ window_size = FirstSize /\ viewport = <<0, FirstSize>> /\ close = FALSE /\ held = {}
    /\ told = [buttons |-> {}, place |-> 0, scrolled |-> 0, size |-> FirstSize]
    /\ pc = "opening" /\ stage = 1 /\ call = "none" /\ result = "OK"
    /\ shown = [window |-> 0, part |-> [first |-> 0, count |-> 0], read |-> 0, copied |-> 0, from |-> "frame"]

Next == User \/ Library \/ Application

Spec == Init /\ [][Next]_vars

--------------------------------------------------------------------------------
TypeOK ==
    /\ driver \in {"none", "no_wheel", "bh", "bx"}
    /\ buttons \subseteq Buttons /\ button_status \subseteq Buttons
    /\ Len(queue) <= MaxQueue /\ given \in 0 .. MaxInputs
    /\ wheel \in Int /\ scrolled \in Int
    /\ screen \in Fits
    /\ held \subseteq Vesa \cup Data
    /\ pc \in {"opening", "failed", "idle", "called", "drain", "return", "gone"}

\* Every notch the user has turned is told once, the right way up, or still in the driver's
\* counter; the buttons and the place are those of the last poll, the place inside the
\* window though the screen may be twice as large.
PointerSettles ==
    /\ told.scrolled - wheel = scrolled
    /\ told.buttons = button_status
    /\ told.place < window_size
    /\ polled => button_status = buttons
    /\ pc \in {"idle", "called", "drain", "return"} => is_mouse_inside = (driver # "none")

\* The pixels of a frame are within the screen, as many as the screen has are there to be
\* read, and the buffer they are put together in has been obtained.
FrameFits ==
    /\ shown.part.first + shown.part.count <= shown.copied
    /\ shown.read = shown.copied
    /\ pc = "return" /\ shown.from = "scanline_buffer" => "scanline_buffer" \in held
    /\ pc = "return" => "scale_buffer" \in held

\* However far the opening came and however the window ended, the screen is back in its
\* text mode and nothing is left behind.
NothingLeaks == pc \in {"failed", "gone"} => held = {}

\* The window is one the public interface promises.
Contract == INSTANCE WindowContract WITH
    Sizes <- {FirstSize},
    state <- IF pc = "gone" THEN "gone" ELSE IF close THEN "closing" ELSE "open",
    calling <- pc \in {"called", "drain", "return"},
    result <- result,
    size <- window_size,
    reported <- told.size,
    shown <- shown.window
ImplementsContract == Contract!Spec
================================================================================
