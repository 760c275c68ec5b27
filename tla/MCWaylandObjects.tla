--------------------------- MODULE MCWaylandObjects ---------------------------
(* What a Wayland window holds of the compositor, in four settings: a window that opens  *)
(* while globals go and the connection breaks; two windows of one process, which share   *)
(* what was learnt of libdecor; outputs that come and go around a table they do not all  *)
(* fit in; and preferred scales, with the cursor they size.                              *)
EXTENDS Naturals

CONSTANTS
    Scenarios,  \* the settings of a run
    \* of WaylandOpening
    Flags, Optional, MaxMissing, Removable, MaxRemovals, MaxConfigures, Breaks, MaxWindows,
    \* of WaylandOutputs
    Ids, Scales, Fractions, Versions, MaxOutputs, CacheSize, Odd, Missing, Inputs, MaxQueue, MaxInputs

VARIABLES
    scenario,
    \* of the opening
    announced, pending, frame_events, connected, committed, removals, configures, library, windows,
    step, live, todo, slot, made, flags,
    shm_format, is_initialized, close, backend_unusable, startup_state_applied, startups,
    \* of the outputs
    outputs, on, served, integer, fraction, managers, hover, queue, given, crowded, cursor,
    version, outs, integer_output_scale, surface_preferred_scale, preferred_scale_120,
    fractional_scale, viewport, shm, pointer_serial_valid, is_cursor_visible, themes, cursor_theme

opening == <<announced, pending, frame_events, connected, committed, removals, configures, library, windows,
    step, live, todo, slot, made, flags,
    shm_format, is_initialized, close, backend_unusable, startup_state_applied, startups>>
scaling == <<outputs, on, served, integer, fraction, managers, hover, queue, given, crowded, cursor,
    version, outs, integer_output_scale, surface_preferred_scale, preferred_scale_120,
    fractional_scale, viewport, shm, pointer_serial_valid, is_cursor_visible, themes, cursor_theme>>

Window == INSTANCE WaylandOpening
Screen == INSTANCE WaylandOutputs

Scene(s) == s \in Scenarios /\ scenario = s
Opening == scenario \in {"one_window", "two_windows"}

\* The fields of the other part stay as they are.
NoOpening ==
    /\ announced = 0 /\ pending = 0 /\ frame_events = 0 /\ connected = 0 /\ committed = 0
    /\ removals = 0 /\ configures = 0 /\ library = 0 /\ windows = 0 /\ step = 0 /\ live = 0
    /\ todo = 0 /\ slot = 0 /\ made = 0 /\ flags = 0 /\ shm_format = 0 /\ is_initialized = 0
    /\ close = 0 /\ backend_unusable = 0 /\ startup_state_applied = 0 /\ startups = 0
NoScaling ==
    /\ outputs = 0 /\ on = 0 /\ served = 0 /\ integer = 0 /\ fraction = 0 /\ managers = 0
    /\ hover = 0 /\ queue = 0 /\ given = 0 /\ crowded = 0 /\ cursor = 0 /\ version = 0 /\ outs = 0
    /\ integer_output_scale = 0 /\ surface_preferred_scale = 0 /\ preferred_scale_120 = 0
    /\ fractional_scale = 0 /\ viewport = 0 /\ shm = 0 /\ pointer_serial_valid = 0
    /\ is_cursor_visible = 0 /\ themes = 0 /\ cursor_theme = 0

\* What a setting leaves out of the inputs.
OneWindow == windows' <= 1
TwoWindows == flags' \subseteq {"fullscreen"} /\ configures' <= 1 /\ connected'
OutputsMove ==
    /\ \A id \in Ids : outputs'[id] <= 2
    /\ UNCHANGED <<integer, fraction, managers, hover, is_cursor_visible>>
PreferencesChange == integer' # 1 /\ UNCHANGED <<outputs, on>>

MCInit ==
    \/ (Scene("one_window") \/ Scene("two_windows")) /\ Window!Init /\ NoScaling
    \/ Scene("outputs") /\ Screen!Init /\ version = 5 /\ NoOpening
    \/ Scene("preferences") /\ Screen!Init /\ NoOpening
MCNext ==
    /\ UNCHANGED scenario
    /\ \/ Scene("one_window") /\ Window!Next /\ OneWindow /\ UNCHANGED scaling
       \/ Scene("two_windows") /\ Window!Next /\ TwoWindows /\ UNCHANGED scaling
       \/ Scene("outputs") /\ Screen!Next /\ OutputsMove /\ UNCHANGED opening
       \/ Scene("preferences") /\ Screen!Next /\ PreferencesChange /\ UNCHANGED opening
MCSpec == MCInit /\ [][MCNext]_<<scenario, opening, scaling>>

--------------------------------------------------------------------------------
\* The opening leaves nothing behind when it fails, gives a surface one role, and returns
\* a window that has all it needs; and a window that is closed leaves nothing behind.
OpeningIsWhole == Opening => Window!NothingLeaks /\ Window!OneRole /\ Window!OpenIsWhole

\* Nothing is released under an object that still needs it (destroy, destroy_window_data).
ReleaseOrder == [][Opening => \A o \in live \ live', p \in live' : o \notin Window!Needs(p)]_live

\* When everything is read, the table of outputs is the compositor's, whatever order
\* outputs came and went in and whichever entries moved into a gap.
OutputsAgree == ~Opening => Screen!TypeOK /\ Screen!OutputsAgree

\* When everything is read, the scale is the most precise the compositor still offers.
ScaleSettles == ~Opening => Screen!ScaleSettles

\* When everything is read, the cursor over the window is the one the application asked for,
\* at the scale of the window, and its image is at all times one its surface may have.
CursorSettles == ~Opening => Screen!CursorSettles /\ Screen!CursorIsLegal
================================================================================
