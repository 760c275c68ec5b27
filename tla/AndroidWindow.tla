----------------------------- MODULE AndroidWindow -----------------------------
(* The Android backend (src/android/AndroidMiniFB.c) and the system it talks to: *)
(* the lifecycle commands that bring and take the native window, the input      *)
(* handler with its held-back hover exit, the looper, and the public calls with *)
(* the wait that sleeps while there is no window.                               *)
(*                                                                              *)
(* The looper has two sources, the commands of the activity and the input       *)
(* queue, each in order.  A size is one number.  Positions, the wheel, the      *)
(* insets asked over JNI and the BACK key are left out.                         *)
EXTENDS Naturals, Sequences, SequencesExt

CONSTANTS
    Sizes,      \* sizes of the native window, a viewport and a buffer; 0 is refused
    FirstSize,  \* the size of the opening
    Mouse,      \* buttons of the mouse, as MiniFB numbers them
    Fingers,    \* pointer ids of the fingers
    Inputs,     \* what happens outside the program: "life", "resize", "hover", "touch"
    Calls,      \* the calls of the application
    MaxQueue,   \* bound: commands, and input events, waiting in the looper
    MaxInputs   \* bound: inputs

VARIABLES
    \* the system and the user
    activity,               \* "front", "shaded", "paused" or "destroyed"
    surface,                \* the size of the system's surface, 0 without one
    pointer, pressing,      \* the mouse is over the window; its hover has ended for a press to come
    down, touching,         \* its buttons held, and the fingers, in a gesture of this window
    commands, events, given,
    \* android_app
    window, destroyRequested, userData,     \* app->window, 0 is NULL; app->userData is this window
    \* SWindowData and SWindowData_Android
    window_size, dst, is_active, close, is_mouse_inside, button_status,
    mouse_button_state, pending_hover_exit, held,
    told,                   \* what the callbacks have said
    \* the program
    pc, call, result, block,    \* block: the poll waits for something to come
    drawn                   \* the pixels written, and the surface they were written to

system == <<activity, surface, pointer, pressing, down, touching, given>>
queues == <<commands, events>>
app == <<window, destroyRequested, userData>>
pointing == <<is_mouse_inside, button_status, mouse_button_state, pending_hover_exit>>
data == <<window_size, dst, is_active, close, held>>
program == <<pc, call, result, block, drawn>>
vars == <<system, queues, app, pointing, data, told, program>>

--------------------------------------------------------------------------------
\* The activity: what the system sends, in the orders the source lists for it.
Allows(kind) == kind \in Inputs /\ given < MaxInputs /\ pc \notin {"opening", "failed", "gone"}

Command(seq) ==
    /\ Len(commands) + Len(seq) <= MaxQueue
    /\ commands' = commands \o seq /\ given' = given + 1

Cmd(type) == [type |-> type]

Life(from, to, s, seq) ==
    /\ Allows("life") /\ activity \in from
    /\ activity' = to /\ surface' = s
    /\ Command(seq)
    /\ UNCHANGED <<pointer, pressing, down, touching, events>>

Pause == Life({"front"}, "paused", surface, <<Cmd("LOST_FOCUS"), Cmd("TERM_WINDOW")>>)
Resume == surface = 0 /\ \E s \in Sizes :
    Life({"paused"}, "front", s, <<Cmd("INIT_WINDOW"), Cmd("GAINED_FOCUS")>>)
LowerShutter == Life({"front"}, "shaded", surface, <<Cmd("LOST_FOCUS")>>)
RaiseShutter ==
    Life({"shaded"}, "front", surface, <<Cmd("GAINED_FOCUS"), Cmd("INIT_WINDOW")>>)
Rotate == Life({"front"}, "destroyed", surface, <<Cmd("TERM_WINDOW"), Cmd("DESTROY")>>)
Close == Life({"front", "shaded", "paused"}, "destroyed", surface, <<Cmd("DESTROY")>>)

\* A bar or a keyboard comes or goes: the surface has its new size at once.
Resize(s) ==
    /\ Allows("resize") /\ surface > 0
    /\ surface' = s
    /\ Command(<<Cmd("CONTENT_RECT_CHANGED")>>)
    /\ UNCHANGED <<activity, pointer, pressing, down, touching, events>>

\* The input queue.  Each event says which buttons are held and whether it is in the window.
Event(type, ids, tool) == [type |-> type, ids |-> ids, tool |-> tool, at |-> pointer]
MouseEvent(type, ids) == Event(type, ids, "mouse")
TouchEvent(type, ids) == Event(type, ids, "finger")

Feed(seq) ==
    /\ Len(events) + Len(seq) <= MaxQueue
    /\ events' = events \o seq /\ given' = given + 1
    /\ UNCHANGED <<activity, surface, commands>>

Hover(p) ==
    /\ Allows("hover") /\ down = {} /\ ~pressing
    /\ pointer' = p
    /\ Feed(<<[MouseEvent(IF p = pointer THEN "HOVER_MOVE" ELSE IF p = "in" THEN "HOVER_ENTER" ELSE "HOVER_EXIT", {})
               EXCEPT !.at = p]>>)
    /\ p = pointer => p = "in"
    /\ UNCHANGED <<pressing, down, touching>>

\* A press ends the hover first; the rest of it may come later.
BeginPress ==
    /\ Allows("hover") /\ pointer = "in" /\ down = {} /\ touching = {} /\ ~pressing
    /\ pressing' = TRUE
    /\ Feed(<<MouseEvent("HOVER_EXIT", {})>>)
    /\ UNCHANGED <<pointer, down, touching>>

Press(b) ==
    /\ Allows("hover") /\ b \notin down /\ (pressing \/ down # {})
    /\ pressing' = FALSE /\ down' = down \cup {b}
    /\ Feed((IF pressing THEN <<MouseEvent("DOWN", {b})>> ELSE <<>>) \o <<MouseEvent("BUTTON_PRESS", down')>>)
    /\ UNCHANGED <<pointer, touching>>

\* The last release ends the gesture, and the hover goes on if the pointer is in.
HoverAgain == IF pointer = "in" THEN <<MouseEvent("HOVER_ENTER", {})>> ELSE <<>>

Release(b) ==
    /\ Allows("hover") /\ b \in down
    /\ down' = down \ {b}
    /\ Feed(<<MouseEvent("BUTTON_RELEASE", down')>> \o
            (IF down' = {} THEN <<MouseEvent("UP", {})>> \o HoverAgain ELSE <<>>))
    /\ UNCHANGED <<pointer, pressing, touching>>

Drag(p) ==
    /\ Allows("hover") /\ down # {}
    /\ pointer' = p
    /\ Feed(<<MouseEvent("MOVE", down)>>)
    /\ UNCHANGED <<pressing, down, touching>>

Slide ==
    /\ Allows("touch") /\ touching # {}
    /\ Feed(<<TouchEvent("MOVE", touching)>>)
    /\ UNCHANGED <<pointer, pressing, down, touching>>

Touch(f) ==
    /\ Allows("touch") /\ down = {} /\ ~pressing /\ f \notin touching
    /\ touching' = touching \cup {f}
    /\ Feed(<<TouchEvent(IF touching = {} THEN "DOWN" ELSE "POINTER_DOWN", {f})>>)
    /\ UNCHANGED <<pointer, pressing, down>>

Lift(f) ==
    /\ Allows("touch") /\ f \in touching
    /\ touching' = touching \ {f}
    /\ Feed(<<TouchEvent(IF touching = {f} THEN "UP" ELSE "POINTER_UP", {f})>>)
    /\ UNCHANGED <<pointer, pressing, down>>

\* Touch exploration turns a finger into a hover.
Explore(type) ==
    /\ Allows("touch") /\ Fingers # {}
    /\ Feed(<<TouchEvent(type, {CHOOSE f \in Fingers : TRUE})>>)
    /\ UNCHANGED <<pointer, pressing, down, touching>>

\* The system takes the gesture.
Cancel ==
    /\ Allows("hover") \/ Allows("touch")
    /\ down \cup touching # {}
    /\ down' = {} /\ touching' = {}
    /\ Feed(<<Event("CANCEL", down \cup touching, IF down # {} THEN "mouse" ELSE "finger")>> \o (IF down # {} THEN HoverAgain ELSE <<>>))
    /\ UNCHANGED <<pointer, pressing>>

System ==
    /\ \/ Pause \/ Resume \/ LowerShutter \/ RaiseShutter \/ Rotate \/ Close
       \/ \E s \in Sizes : Resize(s)
       \/ \E p \in {"in", "out"} : Hover(p) \/ Drag(p)
       \/ BeginPress \/ Slide \/ Cancel
       \/ \E b \in Mouse : Press(b) \/ Release(b)
       \/ \E f \in Fingers : Touch(f) \/ Lift(f)
       \/ \E type \in {"HOVER_ENTER", "HOVER_EXIT"} : Explore(type)
    /\ UNCHANGED <<app, pointing, data, told, program>>

--------------------------------------------------------------------------------
\* The input handler.
is_hover_capable_pointer(e) == e.tool = "mouse"
is_mouse_event(e) == e.tool = "mouse"

Index(id) == id % 8
Indices(ids) == {Index(id) : id \in ids}

TellButtons(pressed) ==
    /\ button_status' = pressed
    /\ told' = [told EXCEPT !.buttons = pressed, !.inside = is_mouse_inside']

\* A press arrives twice, as a down and as a button; the second finds nothing to report.
apply_mouse_button_state(current) ==
    /\ mouse_button_state' = current
    /\ TellButtons((button_status \ mouse_button_state) \cup current)

\* Each callback of a finger: a pointer id is the number of its button.
Pressed(ids) == TellButtons(button_status \cup Indices(ids)) /\ UNCHANGED mouse_button_state
Released(ids) == TellButtons(button_status \ Indices(ids)) /\ UNCHANGED mouse_button_state

settle_mouse_inside(e) ==
    is_mouse_inside' = (is_mouse_inside /\ (is_hover_capable_pointer(e) => e.at = "in"))

OnDown(e) ==
    /\ e.type \in {"DOWN", "POINTER_DOWN"}
    /\ pending_hover_exit' = (pending_hover_exit /\ ~(e.type = "DOWN" /\ is_hover_capable_pointer(e)))
    /\ UNCHANGED is_mouse_inside
    /\ IF is_mouse_event(e) THEN apply_mouse_button_state(e.ids) ELSE Pressed(e.ids)

OnUp(e) ==
    /\ e.type \in {"UP", "POINTER_UP"}
    /\ settle_mouse_inside(e)
    /\ IF is_mouse_event(e) THEN apply_mouse_button_state(e.ids) ELSE Released(e.ids)
    /\ UNCHANGED pending_hover_exit

OnButton(e) ==
    /\ e.type \in {"BUTTON_PRESS", "BUTTON_RELEASE"}
    /\ UNCHANGED <<is_mouse_inside, pending_hover_exit>>
    /\ apply_mouse_button_state(e.ids)

\* A finger that moves is down by definition; no callback says so.
OnMove(e) ==
    /\ e.type = "MOVE"
    /\ button_status' = IF is_mouse_event(e) THEN button_status ELSE button_status \cup Indices(e.ids)
    /\ UNCHANGED <<is_mouse_inside, mouse_button_state, pending_hover_exit, told>>

OnCancel(e) ==
    /\ e.type = "CANCEL"
    /\ settle_mouse_inside(e)
    /\ IF is_mouse_event(e) THEN apply_mouse_button_state({}) ELSE Released(e.ids)
    /\ UNCHANGED pending_hover_exit

OnHover(e) ==
    /\ e.type \in {"HOVER_MOVE", "HOVER_ENTER", "HOVER_EXIT"}
    /\ IF ~is_hover_capable_pointer(e) THEN UNCHANGED <<pending_hover_exit, is_mouse_inside>>
       ELSE /\ pending_hover_exit' = (e.type = "HOVER_EXIT")
            /\ is_mouse_inside' = (is_mouse_inside \/ e.type = "HOVER_ENTER")
    /\ told' = [told EXCEPT !.inside = is_mouse_inside']
    /\ UNCHANGED <<button_status, mouse_button_state>>

handle_input(e) ==
    IF close \/ ~userData THEN UNCHANGED <<pointing, told, is_active>>
    ELSE /\ OnDown(e) \/ OnUp(e) \/ OnButton(e) \/ OnMove(e) \/ OnCancel(e) \/ OnHover(e)
         /\ is_active' = TRUE

--------------------------------------------------------------------------------
\* The lifecycle commands.  The glue sets app->window before INIT_WINDOW and clears it
\* after TERM_WINDOW, which the system waits for with the surface; the size it has is the
\* surface's, whatever it was at the command.
handle_cmd(c) ==
    /\ surface' = IF c.type = "TERM_WINDOW" THEN 0 ELSE surface
    /\ window' = CASE c.type = "INIT_WINDOW" -> TRUE [] c.type = "TERM_WINDOW" -> FALSE [] OTHER -> window
    /\ destroyRequested' = (destroyRequested \/ c.type = "DESTROY")
    /\ is_active' = CASE c.type = "GAINED_FOCUS" -> TRUE
                      [] c.type \in {"LOST_FOCUS", "TERM_WINDOW"} -> FALSE
                      [] OTHER -> is_active /\ c.type # "DESTROY"
    /\ close' = (close \/ c.type = "DESTROY")
    /\ IF c.type = "CONTENT_RECT_CHANGED" /\ window /\ surface > 0
       THEN window_size' = surface /\ told' = [told EXCEPT !.size = surface]
       ELSE UNCHANGED <<window_size, told>>
    /\ UNCHANGED dst

--------------------------------------------------------------------------------
\* Opening and the end.
Wanted == <<"data", "specific", "timer">>

destroy_window_data == held' = {} /\ userData' = FALSE

\* A window that opens before it has a surface gets its size later, and its drawable then
\* keeps the size that was asked for.
mfb_open_ex ==
    /\ pc = "opening"
    /\ \/ /\ \E n \in 1 .. Len(Wanted) :
              /\ held = ToSet(SubSeq(Wanted, 1, n - 1))
              /\ \/ held' = ToSet(SubSeq(Wanted, 1, n)) /\ UNCHANGED <<pc, userData>>
                 \/ destroy_window_data /\ pc' = "failed"
          /\ UNCHANGED <<window_size, dst, is_active>>
       \/ /\ held = ToSet(Wanted) /\ pc' = "idle" /\ userData' = TRUE /\ is_active' = TRUE
          /\ window_size' = (IF window THEN surface ELSE 0)
          /\ dst' = <<0, IF window THEN surface ELSE FirstSize>>
          /\ UNCHANGED held
    /\ UNCHANGED <<system, queues, window, destroyRequested, pointing, close, told, call, result, block, drawn>>

End == destroy_window_data /\ pc' = "gone" /\ result' = "EXIT" /\ UNCHANGED <<block, drawn>>
Fail == pc' = "idle" /\ result' = "INTERNAL_ERROR" /\ UNCHANGED <<userData, held, block>>
Return == pc' = "idle" /\ result' = "OK" /\ UNCHANGED <<userData, held, block>>

--------------------------------------------------------------------------------
\* process_events: what is ready is taken; then the hover exit nothing has cancelled is
\* reported.  A destroyed activity ends it at once.
Drawable == is_active /\ window

Poll == pc' = "poll" /\ block' = (call = "wait_sync" /\ ~Drawable) /\ UNCHANGED <<userData, held, result>>

Polling == pc = "poll" /\ ~destroyRequested

TakeCommand ==
    /\ Polling /\ commands # <<>>
    /\ commands' = Tail(commands)
    /\ handle_cmd(Head(commands))
    /\ block' = FALSE
    /\ UNCHANGED <<activity, pointer, pressing, down, touching, given, events, userData, pointing, held,
                   pc, call, result, drawn>>

Destroyed ==
    /\ pc = "poll" /\ destroyRequested /\ End
    /\ UNCHANGED <<system, queues, window, destroyRequested, pointing, window_size, dst, is_active, close, told, call>>

TakeInput ==
    /\ Polling /\ events # <<>>
    /\ events' = Tail(events) /\ block' = FALSE
    /\ handle_input(Head(events))
    /\ UNCHANGED <<system, commands, app, window_size, dst, close, held, pc, call, result, drawn>>

\* Mutant: a hover exit that no press follows is forgotten.
ForgetHoverExit ==
    /\ pending_hover_exit' = FALSE
    /\ UNCHANGED <<is_mouse_inside, told, button_status, mouse_button_state>>

flush_pending_hover_exit ==
    /\ pending_hover_exit' = FALSE
    /\ is_mouse_inside' = (is_mouse_inside /\ ~pending_hover_exit)
    /\ told' = [told EXCEPT !.inside = is_mouse_inside']
    /\ UNCHANGED <<button_status, mouse_button_state>>

Drained ==
    /\ Polling /\ commands = <<>> /\ events = <<>> /\ ~block
    /\ flush_pending_hover_exit
    /\ UNCHANGED <<system, queues, window, destroyRequested, window_size, dst, is_active, close, call, drawn>>

\* mfb_wait_sync sleeps on while nothing can be drawn and until the frame's time is over.
FrameDue == Drained /\ ~close /\ (call = "wait_sync" => Drawable) /\ Return
FrameNotDue == Drained /\ ~close /\ call = "wait_sync" /\ Poll
PollEnds == Drained /\ close /\ End

LooperFails ==
    /\ Polling /\ ~block /\ Fail
    /\ flush_pending_hover_exit
    /\ UNCHANGED <<system, queues, window, destroyRequested, window_size, dst, is_active, close, call, drawn>>

--------------------------------------------------------------------------------
\* The public calls.
Call(c) ==
    /\ pc = "idle" /\ c \in Calls
    /\ pc' = "called" /\ call' = c
    /\ UNCHANGED <<system, queues, app, pointing, data, told, result, block, drawn>>

\* The size the program knows.
Size == IF window_size = 0 THEN told.size ELSE window_size

Minimum(a, b) == IF a < b THEN a ELSE b

\* The drawable may be of a surface that is no more; nothing is written beyond this one.
draw ==
    IF dst[1] >= surface THEN UNCHANGED drawn
    ELSE drawn' = [end |-> dst[1] + Minimum(dst[2], surface - dst[1]), surface |-> surface, window |-> Size]

\* Mutant: a window that has been asked to close still draws.
DrawThoughClosing(b) ==
    /\ pc = "called" /\ call = "update_ex"
    /\ \/ b > 0 /\ ~window /\ Return /\ UNCHANGED drawn
       \/ b > 0 /\ window /\ surface > 0 /\ draw /\ Poll
    /\ UNCHANGED <<system, queues, window, destroyRequested, pointing, window_size, dst, is_active, close, told, call>>

mfb_update_ex(b) ==
    /\ pc = "called" /\ call = "update_ex"
    /\ \/ close /\ End
       \/ ~close /\ b = 0 /\ pc' = "idle" /\ result' = "INVALID_BUFFER" /\ UNCHANGED <<userData, held, block, drawn>>
       \/ ~close /\ b > 0 /\ ~window /\ Return /\ UNCHANGED drawn
       \/ ~close /\ b > 0 /\ window /\ surface > 0 /\ draw /\ Poll
       \/ ~close /\ b > 0 /\ window /\ Fail /\ UNCHANGED drawn
    /\ UNCHANGED <<system, queues, window, destroyRequested, pointing, window_size, dst, is_active, close, told, call>>

\* mfb_update_events and mfb_wait_sync
Pump ==
    /\ pc = "called" /\ call \in {"update_events", "wait_sync"}
    /\ IF close THEN End ELSE Poll /\ UNCHANGED drawn
    /\ UNCHANGED <<system, queues, window, destroyRequested, pointing, window_size, dst, is_active, close, told, call>>

mfb_close ==
    /\ pc \in {"idle", "poll"} /\ "close" \in Calls /\ ~block
    /\ close' = TRUE
    /\ UNCHANGED <<system, queues, app, pointing, window_size, dst, is_active, held, told, program>>

mfb_set_viewport(x, s) ==
    /\ pc \in {"idle", "poll"} /\ "set_viewport" \in Calls /\ ~block
    /\ s > 0 /\ x + s <= window_size
    /\ dst' = <<x, s>>
    /\ UNCHANGED <<system, queues, app, pointing, window_size, is_active, close, held, told, program>>

Library ==
    \/ mfb_open_ex \/ TakeCommand \/ TakeInput \/ FrameDue \/ FrameNotDue \/ PollEnds \/ Destroyed \/ LooperFails
    \/ \E b \in {0, FirstSize} : mfb_update_ex(b)
    \/ Pump

Application ==
    \/ \E c \in {"update_ex", "update_events", "wait_sync"} : Call(c)
    \/ mfb_close
    \/ \E x \in Sizes \cup {0}, s \in Sizes : mfb_set_viewport(x, s)

\* android_main waits for the first window; the program opens its own at any time after that.
Init ==
    /\ surface \in Sizes \cup {0} /\ window = (surface > 0)
    /\ activity = (IF window THEN "front" ELSE "paused")
    /\ pointer = "out" /\ pressing = FALSE
    /\ down = {} /\ touching = {} /\ commands = <<>> /\ events = <<>> /\ given = 0
    /\ destroyRequested = FALSE /\ userData = FALSE
    /\ window_size = 0 /\ dst = <<0, 0>> /\ is_active = FALSE /\ close = FALSE
    /\ is_mouse_inside = FALSE /\ button_status = {} /\ mouse_button_state = {} /\ pending_hover_exit = FALSE
    /\ held = {}
    /\ told = [size |-> IF window THEN surface ELSE FirstSize, inside |-> FALSE, buttons |-> {}]
    /\ pc = "opening" /\ call = "none" /\ result = "OK" /\ block = FALSE
    /\ drawn = [end |-> 0, surface |-> 0, window |-> 0]

Next == System \/ Library \/ Application

Spec == Init /\ [][Next]_vars

\* The loop of the application makes its calls again and again, the library goes on while
\* it can, the looper does not fail for ever, and the time of a frame passes.  Nothing is
\* asked of the system.
FairSpec == Spec /\ WF_vars(Library) /\ SF_vars(TakeCommand) /\ SF_vars(TakeInput) /\ SF_vars(FrameDue)
                 /\ \A c \in {"update_ex", "update_events", "wait_sync"} \cap Calls : SF_vars(Call(c))

--------------------------------------------------------------------------------
TypeOK ==
    /\ surface \in Sizes \cup {0} /\ window_size \in Sizes \cup {0}
    /\ Len(commands) <= MaxQueue /\ Len(events) <= MaxQueue
    /\ button_status \subseteq 0 .. 7 /\ mouse_button_state \subseteq Mouse
    /\ pc \in {"opening", "failed", "idle", "called", "poll", "gone"}
    /\ held \subseteq ToSet(Wanted)

\* The handler has nothing left to take, and no press is on its way.
Quiet == pc = "idle" /\ commands = <<>> /\ events = <<>> /\ ~pressing

\* Once the events are taken the table of buttons holds what is held, finger or button,
\* however the gesture ended and however often the system said so, and the callbacks agree.
ButtonsSettle ==
    /\ Quiet /\ ~close => button_status = IF touching # {} THEN Indices(touching) ELSE down
    /\ told.buttons = button_status

\* Once the events are taken and no button is held the window knows whether the pointer is
\* in it: a hover exit before a press is no leave, and one that no press follows is.
HoverSettles ==
    /\ Quiet /\ ~close /\ down = {} /\ ~pending_hover_exit => is_mouse_inside = (pointer = "in")
    /\ pc = "idle" => ~pending_hover_exit
    /\ told.inside = is_mouse_inside

\* Nothing is written beyond the surface, however old the drawable is.
DrawFits == drawn.end <= drawn.surface

\* No handler is left with a window that is gone, and nothing of it is left.
NothingLeaks == pc \in {"failed", "gone"} => held = {} /\ ~userData

\* A loop that waits for its frames goes on once its activity is in front again, and takes
\* what the activity and the user have sent.
EventsAreTaken ==
    <>[](activity = "front") => []<>(pc \in {"idle", "failed", "gone"})
                                /\ []<>(pc \in {"opening", "failed", "gone"} \/ (commands = <<>> /\ events = <<>>))

\* The window is one the public interface promises.
Contract == INSTANCE WindowContract WITH
    Sizes <- Sizes,
    state <- IF pc = "gone" THEN "gone" ELSE IF close THEN "closing" ELSE "open",
    calling <- pc \in {"called", "poll"},
    result <- result,
    size <- Size,
    reported <- told.size,
    shown <- drawn.window
ImplementsContract == Contract!Spec
================================================================================
