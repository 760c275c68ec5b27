-------------------------------- MODULE MCLoops --------------------------------
(* The loop of an application that goes on calling a window of the Web and of Android, and *)
(* the opening of a Wayland window, each under the fairness that its own system gives.     *)
EXTENDS Naturals

CONSTANT Scenarios  \* the settings of a run

VARIABLES
    scenario,
    close,                  \* of all three
    pending,                \* of the Web and the opening
    \* of the Web and Android
    pc, call, touching, given, events, is_active, window_size, is_mouse_inside, button_status,
    \* of the Web
    mouse, keys, altgr, nameless, inside, box, pressedButtons, lastPos, dropped,
    key_status, mouse_pos, window_active, yielded, due, ret, alive,
    \* of Android
    activity, surface, pointer, pressing, down, commands, window, destroyRequested, userData, dst,
    mouse_button_state, pending_hover_exit, held, told, result, block, drawn,
    \* of the opening
    announced, frame_events, connected, committed, removals, configures, library, windows,
    step, live, todo, slot, made, flags,
    shm_format, is_initialized, backend_unusable, startup_state_applied, startups

calling == <<pc, call, touching, given, events, is_active, window_size, is_mouse_inside, button_status>>
web == <<mouse, keys, altgr, nameless, inside, box, pressedButtons, lastPos, dropped,
    key_status, mouse_pos, window_active, yielded, due, ret, alive>>
android == <<activity, surface, pointer, pressing, down, commands, window, destroyRequested, userData, dst,
    mouse_button_state, pending_hover_exit, held, told, result, block, drawn>>
opening == <<announced, frame_events, connected, committed, removals, configures, library, windows,
    step, live, todo, slot, made, flags,
    shm_format, is_initialized, backend_unusable, startup_state_applied, startups>>
vars == <<scenario, close, pending, calling, web, android, opening>>

WB == INSTANCE WebInput WITH
        MaxQueued <- 2, Buttons <- {1, 2}, Keys <- {"A", "LEFT_SHIFT", "RIGHT_SHIFT"}, Places <- {0, 1},
        Inputs <- {"key", "altgr", "focus"}, Calls <- {"wait_sync", "close"}, MaxInputs <- 3
AN == INSTANCE AndroidWindow WITH
        Sizes <- {1}, FirstSize <- 1, Mouse <- {}, Fingers <- {},
        Inputs <- {"life"}, Calls <- {"update_ex", "wait_sync"}, MaxQueue <- 4, MaxInputs <- 5
OP == INSTANCE WaylandOpening WITH
        Flags <- {{"fullscreen"}}, Optional <- {"shm", "decoration_manager"}, MaxMissing <- 1,
        Removable <- {"compositor", "shm", "shell"}, MaxRemovals <- 1, MaxConfigures <- 1, Breaks <- TRUE, MaxWindows <- 1

OnWeb == "web" \in Scenarios /\ scenario = "web"
OnAndroid == "android" \in Scenarios /\ scenario = "android"
Opening == "opening" \in Scenarios /\ scenario = "opening"

\* The fields of the other systems stay as they are.
NoCalling ==
    /\ pc = 0 /\ call = 0 /\ touching = 0 /\ given = 0 /\ events = 0 /\ is_active = 0
    /\ window_size = 0 /\ is_mouse_inside = 0 /\ button_status = 0
NoWeb ==
    /\ mouse = 0 /\ keys = 0 /\ altgr = 0 /\ nameless = 0 /\ inside = 0 /\ box = 0
    /\ pressedButtons = 0 /\ lastPos = 0 /\ dropped = 0 /\ key_status = 0 /\ mouse_pos = 0
    /\ window_active = 0 /\ yielded = 0 /\ due = 0 /\ ret = 0 /\ alive = 0
NoAndroid ==
    /\ activity = 0 /\ surface = 0 /\ pointer = 0 /\ pressing = 0 /\ down = 0 /\ commands = 0
    /\ window = 0 /\ destroyRequested = 0 /\ userData = 0 /\ dst = 0 /\ mouse_button_state = 0
    /\ pending_hover_exit = 0 /\ held = 0 /\ told = 0 /\ result = 0 /\ block = 0 /\ drawn = 0
NoOpening ==
    /\ announced = 0 /\ frame_events = 0 /\ connected = 0 /\ committed = 0 /\ removals = 0
    /\ configures = 0 /\ library = 0 /\ windows = 0 /\ step = 0 /\ live = 0 /\ todo = 0
    /\ slot = 0 /\ made = 0 /\ flags = 0 /\ shm_format = 0 /\ is_initialized = 0
    /\ backend_unusable = 0 /\ startup_state_applied = 0 /\ startups = 0

MCInit ==
    \/ OnWeb /\ WB!Init /\ NoAndroid /\ NoOpening
    \/ OnAndroid /\ AN!Init /\ pending = 0 /\ NoWeb /\ NoOpening
    \/ Opening /\ OP!Init /\ NoCalling /\ NoWeb /\ NoAndroid
MCNext ==
    /\ UNCHANGED scenario
    /\ \/ OnWeb /\ WB!Next /\ UNCHANGED <<android, opening>>
       \/ OnAndroid /\ AN!Next /\ UNCHANGED <<pending, web, opening>>
       \/ Opening /\ OP!Next /\ UNCHANGED <<calling, web, android>>

\* The fairness of LoopSpec of WebInput and of FairSpec of AndroidWindow and WaylandOpening,
\* for the system that is there.
WebIsFair ==
    /\ WF_(WB!vars)(OnWeb /\ WB!Step) /\ WF_(WB!vars)(OnWeb /\ WB!TimePasses)
    /\ WF_(WB!vars)(OnWeb /\ WB!Call("wait_sync"))
AndroidIsFair ==
    /\ WF_(AN!vars)(OnAndroid /\ AN!Library)
    /\ SF_(AN!vars)(OnAndroid /\ AN!TakeCommand) /\ SF_(AN!vars)(OnAndroid /\ AN!TakeInput)
    /\ SF_(AN!vars)(OnAndroid /\ AN!FrameDue)
    /\ \A c \in {"update_ex", "wait_sync"} : SF_(AN!vars)(OnAndroid /\ AN!Call(c))
OpeningIsFair ==
    /\ WF_(OP!vars)(Opening /\ (OP!Release \/ OP!Proceed))
    /\ WF_(OP!vars)(Opening /\ configures = 0 /\ \E size \in {"same", "other"} : OP!Configure(size))
MCSpec == MCInit /\ [][MCNext]_vars /\ WebIsFair /\ AndroidIsFair /\ OpeningIsFair

--------------------------------------------------------------------------------
\* xdg_wm_base was withdrawn while the opening waited for the first configure, and with it
\* went the toplevel that would be configured: registry_global_remove sets backend_unusable,
\* which the loop of mfb_open_ex does not look at, so it waits until the connection ends.
WaitsWithoutShell ==
    /\ step = "handshake" /\ ~is_initialized /\ ~close /\ connected
    /\ "shell" \notin live /\ backend_unusable

\* No loop stays in a call for ever.  A Web one lets the browser run although every frame is
\* late; an Android one returns, with all taken that was sent, while its activity is in
\* front; and an opening ends, whatever fails and whatever global is withdrawn, with one
\* exception: the loop of mfb_open_ex that has lost the shell has no end of its own.
CallsReturn ==
    []<>( /\ OnWeb => pc = "sleep" \/ ~alive
          /\ OnAndroid => \/ activity # "front" \/ pc \in {"failed", "gone"}
                          \/ pc = "idle" /\ commands = <<>> /\ events = <<>>
          /\ Opening => step \in {"none", "open", "failed", "closed"} \/ WaitsWithoutShell)

\* Once a close was asked for, or the activity destroyed, the window goes, from any sleep.
CloseLeadsToExit ==
    ((OnWeb /\ close) \/ (OnAndroid /\ activity = "destroyed"))
        ~> ((OnWeb /\ ~alive) \/ (OnAndroid /\ pc \in {"failed", "gone"}))
================================================================================
