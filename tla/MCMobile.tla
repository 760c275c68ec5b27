-------------------------------- MODULE MCMobile --------------------------------
(* The window of Android in three settings, the frames of the two Metal backends, of  *)
(* iOS, whose render loop may be another thread, and of macOS, and the timer that paces *)
(* the frames of them all.                                                             *)
EXTENDS FrameTimer, Sequences

CONSTANTS
    Scenarios,                                  \* the settings of a run
    Sizes, FirstSize,                           \* of both systems
    Mouse, Fingers, MaxQueue, MaxInputs,        \* of AndroidWindow
    MaxCalls                                    \* of MetalFrames

VARIABLES
    scenario,
    \* Android
    activity, surface, pointer, pressing, down, touching, commands, events, given,
    window, destroyRequested, userData, window_size, dst, is_active, close, is_mouse_inside,
    button_status, mouse_button_state, pending_hover_exit, held, told, pc, call, result, block, drawn,
    \* Metal
    buffer_size, draw_buffer, texture_buffers, current_buffer, semaphore, in_flight,
    app, wanted, render, acquired, released, torn, misfit, calls

android == <<activity, surface, pointer, pressing, down, touching, commands, events, given,
    window, destroyRequested, userData, window_size, dst, is_active, close, is_mouse_inside,
    button_status, mouse_button_state, pending_hover_exit, held, told, pc, call, result, block, drawn>>
metal == <<buffer_size, draw_buffer, texture_buffers, current_buffer, semaphore, in_flight,
    app, wanted, render, acquired, released, torn, misfit, calls>>

A == INSTANCE AndroidWindow WITH
        Inputs <- {"life", "resize", "hover", "touch"},
        Calls <- {"update_ex", "update_events", "wait_sync", "close", "set_viewport"}
M == INSTANCE MetalFrames WITH
        platform <- IF scenario = "ios" THEN "ios" ELSE "macos", skips <- scenario = "skips", Closes <- TRUE

Scene(s) == s \in Scenarios /\ scenario = s
OnAndroid == scenario \in {"hover", "touch", "frames"}
OnMetal == scenario \in {"ios", "macos", "skips"}

\* The fields of the other system stay as they are.
NoAndroid ==
    /\ activity = 0 /\ surface = 0 /\ pointer = 0 /\ pressing = 0 /\ down = 0 /\ touching = 0
    /\ commands = 0 /\ events = 0 /\ given = 0 /\ window = 0 /\ destroyRequested = 0
    /\ userData = 0 /\ window_size = 0 /\ dst = 0 /\ is_active = 0 /\ close = 0
    /\ is_mouse_inside = 0 /\ button_status = 0 /\ mouse_button_state = 0
    /\ pending_hover_exit = 0 /\ held = 0 /\ told = 0 /\ pc = 0 /\ call = 0 /\ result = 0
    /\ block = 0 /\ drawn = 0
NoMetal ==
    /\ buffer_size = 0 /\ draw_buffer = 0 /\ texture_buffers = 0 /\ current_buffer = 0
    /\ semaphore = 0 /\ in_flight = 0 /\ app = 0 /\ wanted = 0 /\ render = 0 /\ acquired = 0
    /\ released = 0 /\ torn = 0 /\ misfit = 0 /\ calls = 0

NoTimer ==
    /\ now = 0 /\ fps = 0 /\ g_use_hardware_sync = FALSE /\ phase = "frame" /\ schedule = 0
    /\ start_ticks = 0 /\ last_delta_ticks = 0 /\ accumulated_ticks = 0 /\ accumulated_error_ticks = 0

\* What may happen in a setting: what the system sends, and bounds.
Limit(length, inputs) == Len(commands') <= length /\ Len(events') <= length /\ given' <= inputs
Pumping == call' \in {"none", "update_events"}

Hovering ==
    /\ Limit(4, 6) /\ Pumping /\ commands' = <<>>
    /\ \A i \in 1 .. Len(events') : events'[i].tool = "mouse"
Touching ==
    /\ Limit(4, 4) /\ Pumping /\ surface' \in {0, FirstSize}
    /\ \A i \in 1 .. Len(events') : events'[i].tool = "finger"
    /\ \A i \in 1 .. Len(commands') : commands'[i].type # "CONTENT_RECT_CHANGED"
Drawing ==
    /\ Limit(3, 3) /\ Len(commands') + given' <= 4
    /\ call' # "update_events" /\ events' = <<>>

MCInit ==
    \/ (Scene("hover") \/ Scene("touch")) /\ A!Init /\ surface \in {0, FirstSize} /\ NoMetal /\ NoTimer
    \/ Scene("frames") /\ A!Init /\ NoMetal /\ NoTimer
    \/ (Scene("ios") \/ Scene("macos") \/ Scene("skips")) /\ M!Init /\ NoAndroid /\ NoTimer
    \/ Scene("pacing") /\ Init /\ NoAndroid /\ NoMetal
MCNext ==
    /\ UNCHANGED scenario
    /\ \/ Scene("hover") /\ A!Next /\ Hovering /\ close' = close /\ UNCHANGED <<metal, vars>>
       \/ Scene("touch") /\ A!Next /\ Touching /\ (close' => close \/ destroyRequested') /\ UNCHANGED <<metal, vars>>
       \/ Scene("frames") /\ A!Next /\ Drawing /\ UNCHANGED <<metal, vars>>
       \/ (Scene("ios") \/ Scene("macos") \/ Scene("skips")) /\ M!Next /\ UNCHANGED <<android, vars>>
       \/ Scene("pacing") /\ Next /\ UNCHANGED <<android, metal>>
MCSpec == MCInit /\ [][MCNext]_<<scenario, android, metal, vars>>

--------------------------------------------------------------------------------
\* Once the events are taken the window knows which buttons and fingers are down and whether
\* the mouse is over it: a hover exit before a press is no leave, one no press follows is.
PointerSettles == OnAndroid => A!TypeOK /\ A!ButtonsSettle /\ A!HoverSettles

\* Nothing is written beyond the surface that Android gives now, however old the drawable is.
\* With Metal the pixels of a frame never go into a texture the GPU still reads, as long as
\* every frame finds a command buffer; and where render loop and application are one thread,
\* size, pixels and texture agree at every copy.
FramesFit ==
    /\ OnAndroid => A!DrawFits
    /\ OnMetal => M!TextureIsFree /\ M!PixelsFit

\* However the window ended nothing of it is left to a handler: not to one of the looper,
\* and not to one of a frame on the GPU, which finds its semaphore until it has signalled it.
EndsWhole == /\ OnAndroid => A!NothingLeaks
             /\ OnMetal => M!SemaphoreIsWhole

\* The window of Android is one the public interface promises.
Contract == INSTANCE WindowContract WITH
    Sizes <- Sizes \cup {0},
    state <- IF OnAndroid /\ pc = "gone" THEN "gone" ELSE IF OnAndroid /\ close THEN "closing" ELSE "open",
    calling <- OnAndroid /\ pc \in {"called", "poll"},
    result <- IF OnAndroid THEN result ELSE "OK",
    size <- IF OnAndroid THEN A!Size ELSE 0,
    reported <- IF OnAndroid THEN told.size ELSE 0,
    shown <- IF OnAndroid THEN drawn.window ELSE 0
ImplementsContract == Contract!Spec
================================================================================
