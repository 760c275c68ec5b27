----------------------------- MODULE WaylandOpening -----------------------------
(* Opening and closing a Wayland window (src/wayland/WaylandMiniFB.c and         *)
(* WaylandMiniFB_libdecor.c) as a ledger: each step of mfb_open_ex acquires      *)
(* objects and may fail, globals are withdrawn and the connection breaks while   *)
(* it runs, and destroy gives everything back in an order that the protocol and  *)
(* libwayland prescribe.                                                         *)
EXTENDS Integers, Sequences, SequencesExt, FiniteSets

CONSTANTS
    Flags,       \* the sets of window flags the application passes
    Optional,    \* globals that the compositor may not announce, or that fail to bind
    MaxMissing,  \* bound: how many of them are missing
    Removable,   \* globals it may withdraw
    MaxRemovals, \* bound: withdrawals
    MaxConfigures, \* bound: configure events of one window
    Breaks,      \* the connection may break
    MaxWindows   \* bound: windows opened, one after another

VARIABLES
    \* the compositor
    announced, pending, frame_events, connected, committed, removals, configures,
    \* the process: g_libdecor_state, and the windows opened so far
    library, windows,
    \* mfb_open_ex: where it is, what it holds, what it is about to release
    step, live, todo,
    slot, made, flags,
    \* SWindowData and SWindowData_Way
    shm_format, is_initialized, close, backend_unusable, startup_state_applied,
    startups     \* history: startup states requested of this window

compositor == <<announced, pending, frame_events, connected, committed, removals, configures>>
process == <<library, windows>>
making == <<slot, made>>
state == <<shm_format, is_initialized, close, backend_unusable, startup_state_applied, startups>>
vars == <<compositor, process, step, live, todo, making, flags, state>>

Required == {"compositor", "shm", "shell"}
Globals == Required \cup {"seat", "output", "decoration_manager", "fractional_scale_manager", "viewporter"}
Slots == <<"slot_0", "slot_1", "slot_2">>

--------------------------------------------------------------------------------
\* What an object is made from and has to be released before: a surface role and its
\* extensions before the surface, whatever is on a queue before the queue, and every
\* proxy before the connection.
Memory == {"window_data", "specific", "timer", "file", "mapping"}
Needs(o) ==
    (IF o \in Memory THEN {} ELSE {"display"} \ {o}) \cup
    CASE o \in {"toplevel_decoration"}                 -> {"toplevel", "decoration_manager"}
      [] o = "toplevel"                                -> {"shell_surface"}
      [] o = "shell_surface"                           -> {"surface", "shell"}
      [] o = "libdecor_frame"                          -> {"surface", "libdecor_context"}
      [] o \in {"viewport", "fractional_scale"}        -> {"surface"}
      [] o = "surface_wrapper"                         -> {"surface", "render_queue"}
      [] o = "throttle_callback"                       -> {"surface_wrapper", "render_queue"}
      [] o \in {"pool", "wl_buffer"} \cup ToSet(Slots) -> {"render_queue"}
      [] o \in {"surface", "cursor_surface", "keyboard", "pointer", "registry"} \cup Globals -> {"window_queue"}
      [] o = "specific"                                -> {"window_data"}
      [] OTHER                                         -> {}

\* Mutant: the surface goes before its role.
SurfaceFirst == <<"libdecor_frame", "libdecor_context", "surface">> \o <<
      "toplevel_decoration", "toplevel", "shell_surface", "shell", "decoration_manager",
      "fractional_scale", "fractional_scale_manager", "viewport", "viewporter",
      "throttle_callback", "surface_wrapper", "slot_0", "slot_1", "slot_2",
      "cursor_surface", "cursor_theme", "shm", "output", "compositor", "keyboard", "pointer", "seat",
      "registry", "window_display_wrapper", "render_display_wrapper", "render_queue", "window_queue",
      "display", "timer", "specific", "window_data">>

\* The order of destroy.
Order ==
    <<"libdecor_frame", "libdecor_context",
      "toplevel_decoration", "toplevel", "shell_surface", "shell", "decoration_manager",
      "fractional_scale", "fractional_scale_manager", "viewport", "viewporter",
      "throttle_callback", "surface_wrapper", "surface", "slot_0", "slot_1", "slot_2",
      "cursor_surface", "cursor_theme", "shm", "output", "compositor", "keyboard", "pointer", "seat",
      "registry", "window_display_wrapper", "render_display_wrapper", "render_queue", "window_queue",
      "display", "timer", "specific", "window_data">>

\* kWaylandDestroy, free: one object after the other, and nothing where there is none.
Release ==
    /\ todo # <<>>
    /\ live' = live \ {Head(todo)} /\ todo' = Tail(todo)
    /\ UNCHANGED <<compositor, process, step, making, flags, state>>

--------------------------------------------------------------------------------
\* The compositor.  What it does shows where the program reads.
Reading == {"formats", "handshake", "mapping", "frame_handshake", "frame_mapping", "open"}
Unchanged(rest) == UNCHANGED <<rest, process, step, live, todo, making, flags, state>>

Withdraw(g) ==
    /\ step \in Reading /\ g \in announced \cap Removable /\ removals < MaxRemovals
    /\ announced' = announced \ {g} /\ pending' = Append(pending, [type |-> "remove", val |-> g])
    /\ removals' = removals + 1
    /\ Unchanged(<<frame_events, connected, committed, configures>>)

\* It answers the first commit of a surface with a role, and may configure it again.
Configure(size) ==
    /\ committed /\ configures < MaxConfigures /\ configures' = configures + 1
    /\ LET e == [type |-> "configure", val |-> size] IN
       \/ "toplevel" \in live /\ pending' = Append(pending, e) /\ UNCHANGED frame_events
       \/ "libdecor_frame" \in live /\ frame_events' = Append(frame_events, e) /\ UNCHANGED pending
    /\ Unchanged(<<announced, connected, committed, removals>>)

AskToClose ==
    /\ committed /\ configures < MaxConfigures /\ configures' = configures + 1
    /\ LET e == [type |-> "close", val |-> ""] IN
       \/ "toplevel" \in live /\ pending' = Append(pending, e) /\ UNCHANGED frame_events
       \/ "libdecor_frame" \in live /\ frame_events' = Append(frame_events, e) /\ UNCHANGED pending
    /\ Unchanged(<<announced, connected, committed, removals>>)

Break ==
    /\ Breaks /\ connected /\ step \in Reading \cup {"globals", "libdecor_roundtrip"} /\ connected' = FALSE
    /\ Unchanged(<<announced, pending, frame_events, committed, removals, configures>>)

Compositor ==
    \/ \E g \in Globals : Withdraw(g)
    \/ \E size \in {"same", "other"} : Configure(size)
    \/ AskToClose \/ Break

--------------------------------------------------------------------------------
At(s) == step = s /\ todo = <<>>
Fail == step' = "failed" /\ todo' = Order
Goto(s) == step' = s /\ UNCHANGED todo

\* mfb_open_ex acquires objects; one that is missing ends it.
Acquire(at, objects, next) ==
    /\ At(at)
    /\ \E got \in SUBSET objects :
        /\ live' = live \cup got
        /\ IF got = objects THEN Goto(next)
           ELSE step' = "failed" /\ todo' = Order
    /\ UNCHANGED <<compositor, process, making, flags, state>>

mfb_open_ex ==
    /\ step \in {"none", "failed", "closed"} /\ todo = <<>> /\ windows < MaxWindows
    /\ windows' = windows + 1 /\ step' = "window_data" /\ flags' \in Flags
    /\ \E missing \in SUBSET Optional :
        Cardinality(missing) <= MaxMissing /\ announced' = Globals \ missing
    /\ pending' = <<>> /\ frame_events' = <<>> /\ connected' = TRUE /\ committed' = FALSE
    /\ removals' = 0 /\ configures' = 0 /\ slot' = 1 /\ made' = 0
    /\ shm_format' = FALSE /\ is_initialized' = FALSE /\ close' = FALSE /\ backend_unusable' = FALSE
    /\ startup_state_applied' = FALSE /\ startups' = 0
    /\ UNCHANGED <<library, live, todo>>

\* The first roundtrip brings the globals and perhaps the formats, the second the formats.
registry_global ==
    /\ At("globals")
    /\ IF ~connected THEN Fail /\ UNCHANGED <<live, shm_format>>
       ELSE /\ live' = live \cup announced /\ Goto("formats")
            /\ shm_format' \in BOOLEAN /\ (shm_format' => "shm" \in announced)
    /\ UNCHANGED <<compositor, process, making, flags, is_initialized, close, backend_unusable,
                   startup_state_applied, startups>>
Formats ==
    /\ At("formats") /\ (pending = <<>> \/ ~connected)
    /\ \/ ~shm_format /\ ~connected /\ Fail /\ UNCHANGED shm_format
       \/ /\ shm_format \/ connected
          /\ UNCHANGED shm_format \/ (shm_format' = TRUE /\ "shm" \in live)
          /\ IF shm_format' /\ "compositor" \in live THEN Goto("slot") ELSE Fail
    /\ UNCHANGED <<compositor, process, live, making, flags, is_initialized, close, backend_unusable,
                   startup_state_applied, startups>>

--------------------------------------------------------------------------------
\* slot_ensure_buffer: a file, its mapping, a pool and a buffer; the slot keeps the mapping
\* and the buffer.  create_shm_buffer fills the slots, the first configure may rebuild one.
Temporaries == <<"file", "mapping", "pool", "wl_buffer">>

Undo == <<"wl_buffer", "pool", "mapping", "file">>
Attaching == committed
Handshake == IF "libdecor_frame" \in live THEN "frame_handshake" ELSE "handshake"

slot_ensure_buffer ==
    /\ At("slot") /\ made < Len(Temporaries) /\ "shm" \in live
    /\ live' = live \cup {Temporaries[made + 1]} /\ made' = made + 1
    /\ UNCHANGED <<compositor, process, step, todo, slot, flags, state>>

slot_fails ==
    /\ At("slot") /\ made' = 0
    /\ IF Attaching THEN close' = TRUE /\ step' = Handshake /\ todo' = Undo
       ELSE step' = "failed" /\ todo' = Undo \o Order /\ UNCHANGED close
    /\ UNCHANGED <<compositor, process, live, slot, flags, shm_format, is_initialized,
                   backend_unusable, startup_state_applied, startups>>

create_shm_buffer ==
    /\ At("slot") /\ made = Len(Temporaries) /\ made' = 0
    /\ live' = (live \ {"mapping", "wl_buffer"}) \cup {Slots[slot]} /\ todo' = <<"pool", "file">>
    /\ IF Attaching THEN is_initialized' = TRUE /\ step' = Handshake /\ UNCHANGED slot
       ELSE /\ UNCHANGED is_initialized
            /\ IF slot < Len(Slots) THEN slot' = slot + 1 /\ UNCHANGED step
                                    ELSE step' = "surface" /\ UNCHANGED slot
    /\ UNCHANGED <<compositor, process, flags, shm_format, close, backend_unusable, startup_state_applied, startups>>

\* Extensions of the surface that fail are done without.
Extensions ==
    /\ At("extensions")
    /\ \E got \in SUBSET ((IF "viewporter" \in live THEN {"viewport"} ELSE {}) \cup
                          (IF "fractional_scale_manager" \in live THEN {"fractional_scale"} ELSE {})) :
        live' = live \cup got
    /\ Goto("cursor_surface")
    /\ UNCHANGED <<compositor, process, making, flags, state>>

--------------------------------------------------------------------------------
\* create_xdg_toplevel: a frame by libdecor where the compositor draws none, else an
\* xdg_toplevel.
create_xdg_toplevel ==
    /\ At("toplevel")
    /\ IF "shell" \notin live THEN Fail
       ELSE IF "decoration_manager" \notin live /\ "borderless" \notin flags THEN Goto("libdecor")
       ELSE Goto("shell_surface")
    /\ UNCHANGED <<compositor, process, live, making, flags, state>>

\* The outcome of the first attempt holds for every window of the process.
libdecor_load ==
    /\ At("libdecor")
    /\ library' \in (IF library = 0 THEN {-1, 1} ELSE {library})
    /\ Goto(IF library' > 0 THEN "libdecor_context" ELSE "shell_surface")
    /\ UNCHANGED <<compositor, windows, live, making, flags, state>>

\* Mutant: the context is kept.
FallbackKeeps == step' = "shell_surface" /\ UNCHANGED todo

\* libdecor that cannot serve the window gives back what it had; one that had a frame
\* and fails later ends the opening.
Fallback == step' = "shell_surface" /\ todo' = <<"libdecor_frame", "libdecor_context">>
wayland_libdecor_create_toplevel ==
    /\ \/ /\ At("libdecor_context")
          /\ \/ live' = live \cup {"libdecor_context"} /\ Goto("libdecor_roundtrip")
             \/ UNCHANGED live /\ Fallback
          /\ UNCHANGED committed
       \/ /\ At("libdecor_roundtrip")
          /\ \/ connected /\ Goto("libdecor_frame")
             \/ Fallback
          /\ UNCHANGED <<live, committed>>
       \/ /\ At("libdecor_frame")
          /\ \/ live' = live \cup {"libdecor_frame"} /\ Goto("frame_handshake") /\ committed' = TRUE
             \/ UNCHANGED <<live, committed>> /\ Fallback
    /\ UNCHANGED <<announced, pending, frame_events, connected, removals, configures,
                   process, making, flags, state>>

XdgToplevel ==
    /\ At("xdg_toplevel")
    /\ \/ /\ \E got \in SUBSET (IF "decoration_manager" \in live THEN {"toplevel_decoration"} ELSE {}) :
                live' = live \cup {"toplevel"} \cup got
          /\ Goto("handshake") /\ committed' = TRUE
       \/ Fail /\ UNCHANGED <<live, committed>>
    /\ UNCHANGED <<announced, pending, frame_events, connected, removals, configures,
                   process, making, flags, state>>

\* handle_shell_surface_configure and libdecor_handle_configure: the startup state, asked
\* for once, and the first buffer, in a slot of the size the compositor chose.
WantsState == flags \cap {"fullscreen", "desktop"} # {}

ApplyStartupState ==
    /\ startup_state_applied' = TRUE
    /\ startups' = startups + (IF ~startup_state_applied /\ WantsState THEN 1 ELSE 0)
HandleConfigure(size) ==
    /\ ApplyStartupState
    /\ IF is_initialized THEN UNCHANGED <<step, todo, slot, is_initialized>>
       ELSE IF size = "same" THEN is_initialized' = TRUE /\ UNCHANGED <<step, todo, slot>>
       ELSE step' = "slot" /\ slot' = 1 /\ todo' = <<Slots[1]>> /\ UNCHANGED is_initialized
    /\ UNCHANGED <<live, made, shm_format, close, backend_unusable>>

\* handle_toplevel_close, libdecor_handle_close: no callback can be set yet.
HandleClose ==
    /\ close' = TRUE
    /\ UNCHANGED <<live, step, todo, making, shm_format, is_initialized, backend_unusable,
                   startup_state_applied, startups>>

\* registry_global_remove: a manager goes with the object made from it; without a
\* required global the window is of no use any more.
ReleasedWith(g) ==
    CASE g = "seat"                     -> <<"keyboard", "pointer", "seat">>
      [] g = "decoration_manager"       -> <<"toplevel_decoration", g>>
      [] g = "fractional_scale_manager" -> <<"fractional_scale", g>>
      [] g = "viewporter"               -> <<"viewport", g>>
      [] g = "shell"                    -> <<"toplevel_decoration", "toplevel", "shell_surface", g>>
      [] OTHER                          -> <<g>>
registry_global_remove(g) ==
    /\ todo' = ReleasedWith(g)
    /\ backend_unusable' = (backend_unusable \/ g \in live \cap Required)
    /\ shm_format' = (shm_format /\ g # "shm")
    /\ UNCHANGED <<live, step, making, is_initialized, close, startup_state_applied, startups>>

\* An event for an object that is gone is dropped by libwayland.
Handle(e, gone) ==
    CASE e.type = "remove" -> registry_global_remove(e.val)
      [] e.type # "remove" /\ gone -> UNCHANGED <<live, step, todo, making, state>>
      [] e.type = "configure" /\ ~gone -> HandleConfigure(e.val)
      [] e.type = "close" /\ ~gone -> HandleClose

\* The window queue is read in the roundtrips and the handshake with the xdg_toplevel, and
\* by an open window; the default queue in the handshake with libdecor.
Dispatch ==
    /\ connected /\ todo = <<>> /\ UNCHANGED <<announced, connected, committed, removals, configures, process, flags>>
    /\ \/ /\ step \in {"formats", "handshake", "mapping", "open"} /\ pending # <<>>
          /\ pending' = Tail(pending) /\ UNCHANGED frame_events
          /\ Handle(Head(pending), "toplevel" \notin live)
       \/ /\ step \in {"frame_handshake", "frame_mapping", "open"} /\ frame_events # <<>>
          /\ frame_events' = Tail(frame_events) /\ UNCHANGED pending
          /\ Handle(Head(frame_events), "libdecor_frame" \notin live)

\* The loop ends with the first buffer, a close or the connection; a roundtrip follows.
Mapped ==
    /\ \/ /\ At("handshake") \/ At("frame_handshake")
          /\ IF ~connected \/ close THEN Fail
             ELSE is_initialized /\ Goto(IF step = "handshake" THEN "mapping" ELSE "frame_mapping")
       \/ /\ At("mapping") /\ (pending = <<>> \/ ~connected)
          /\ IF ~connected \/ close THEN Fail ELSE Goto("timer")
       \/ /\ At("frame_mapping") /\ (frame_events = <<>> \/ ~connected)
          /\ IF ~connected THEN Fail ELSE Goto("timer")
    /\ UNCHANGED <<compositor, process, live, making, flags, state>>

Proceed ==
    \/ Acquire("window_data", {"window_data"}, "specific")
    \/ Acquire("specific", {"specific"}, "display")
    \/ Acquire("display", {"display"}, "queues")
    \/ Acquire("queues", {"window_queue", "render_queue", "window_display_wrapper", "render_display_wrapper"}, "registry")
    \/ Acquire("registry", {"registry"}, "globals")
    \/ registry_global \/ Formats
    \/ slot_ensure_buffer \/ slot_fails \/ create_shm_buffer
    \/ Acquire("surface", {"surface"}, "surface_wrapper")
    \/ Acquire("surface_wrapper", {"surface_wrapper"}, "extensions")
    \/ Extensions
    \/ Acquire("cursor_surface", {"cursor_surface"}, "toplevel")
    \/ create_xdg_toplevel \/ libdecor_load \/ wayland_libdecor_create_toplevel
    \/ Acquire("shell_surface", {"shell_surface"}, "xdg_toplevel")
    \/ XdgToplevel
    \/ Dispatch \/ Mapped
    \/ Acquire("timer", {"timer"}, "open")

\* An open window comes to hold more: devices of the seat, a frame callback, a cursor theme.
Use(o, from) ==
    /\ At("open") /\ from \in live /\ o \notin live /\ live' = live \cup {o}
    /\ UNCHANGED <<compositor, process, step, todo, making, flags, state>>
destroy ==
    /\ At("open") /\ step' = "closed" /\ todo' = Order
    /\ UNCHANGED <<compositor, process, live, making, flags, state>>
Application ==
    \/ Use("keyboard", "seat") \/ Use("pointer", "seat")
    \/ Use("throttle_callback", "surface_wrapper") \/ Use("cursor_theme", "shm")
    \/ destroy

Init ==
    /\ announced = {} /\ pending = <<>> /\ frame_events = <<>> /\ connected = TRUE
    /\ committed = FALSE /\ removals = 0 /\ configures = 0 /\ library = 0 /\ windows = 0
    /\ step = "none" /\ live = {} /\ todo = <<>> /\ slot = 1 /\ made = 0 /\ flags = {}
    /\ shm_format = FALSE /\ is_initialized = FALSE /\ close = FALSE /\ backend_unusable = FALSE
    /\ startup_state_applied = FALSE /\ startups = 0

Next == Compositor \/ Release \/ mfb_open_ex \/ Proceed \/ Application
Spec == Init /\ [][Next]_vars

\* The program runs on, and the compositor answers a surface that waits for it.
FairSpec ==
    /\ Spec /\ WF_vars(Release \/ Proceed)
    /\ WF_vars(configures = 0 /\ \E size \in {"same", "other"} : Configure(size))

--------------------------------------------------------------------------------
\* Nothing is released under an object that still needs it, at whatever step an opening
\* fails, whichever global is withdrawn, and when the window closes.
ReleaseOrder == [][\A o \in live \ live', p \in live' : o \notin Needs(p)]_vars

\* An opening that fails and a window that is closed leave nothing behind.
NothingLeaks == step \in {"none", "failed", "closed"} /\ todo = <<>> => live = {}

\* A surface has one role: the fallback never takes one that libdecor has decorated.
OneRole ==
    /\ ~({"libdecor_frame", "shell_surface"} \subseteq live)
    /\ step = "shell_surface" /\ todo = <<>> => "libdecor_context" \notin live

\* A window that mfb_open_ex returns has a role, its slots and a first buffer, unless the
\* compositor took back what they need, and its startup state was asked for once.
OpenIsWhole ==
    At("open") =>
        /\ is_initialized /\ ToSet(Slots) \subseteq live
        /\ backend_unusable \/ "toplevel" \in live \/ "libdecor_frame" \in live
        /\ startups = IF WantsState THEN 1 ELSE 0

================================================================================
