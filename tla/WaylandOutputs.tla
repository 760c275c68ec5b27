----------------------------- MODULE WaylandOutputs -----------------------------
(* The scale of a Wayland window and its cursor (src/wayland/WaylandMiniFB.c):  *)
(* outputs that come and go, the surface that moves over them, the scales the   *)
(* compositor prefers, the managers it may withdraw, and the cursor image that  *)
(* follows all of them.  A scale is counted in 1/120.                           *)
EXTENDS Naturals, Sequences, SequencesExt, FiniteSetsExt

CONSTANTS
    Ids,         \* registry names of outputs
    Scales,      \* whole scales
    Fractions,   \* preferred fractional scales, in 1/120
    Versions,    \* versions of wl_compositor
    MaxOutputs,  \* WAYLAND_MAX_OUTPUTS
    CacheSize,   \* WAYLAND_CURSOR_THEME_CACHE_SIZE
    Odd,         \* scales whose cursor image is no multiple of the scale
    Missing,     \* scales at which no cursor theme loads
    Inputs,      \* what happens outside: "output", "move", "prefer", "withdraw", "pointer", "show"
    MaxQueue,    \* bound: events waiting for the program
    MaxInputs    \* bound: inputs

VARIABLES
    \* the compositor
    outputs, on, served,      \* scale of each output, 0 if absent; those under the surface; those bound
    integer, fraction,        \* the scales it prefers, 0 if none
    managers, hover,          \* extension globals; the pointer is over the window
    queue, given,
    crowded,                  \* history: an output found no room
    cursor,                   \* the cursor it shows: the scale of its theme and of its surface
    \* SWindowData_Way
    version, outs, integer_output_scale, surface_preferred_scale, preferred_scale_120,
    fractional_scale, viewport, shm,
    pointer_serial_valid, is_cursor_visible,
    themes, cursor_theme      \* scales of the cached themes and of the current one, 0 for none

compositor == <<outputs, on, served, integer, fraction, managers, hover, given>>
scales == <<integer_output_scale, surface_preferred_scale, preferred_scale_120, fractional_scale, viewport>>
pointer == <<pointer_serial_valid, is_cursor_visible>>
cursors == <<themes, cursor_theme, cursor>>
vars == <<compositor, queue, version, outs, scales, crowded, shm, pointer, cursors>>

One == 120
Hidden == [theme |-> 0, scale |-> 0]
Largest(S) == Max(S \cup {1})

--------------------------------------------------------------------------------
\* The compositor.  Events about an output reach those who have bound it.
Allows(kind) == kind \in Inputs /\ given < MaxInputs
Send(events) == Len(queue) + Len(events) <= MaxQueue /\ queue' = queue \o events
Event(type, val) == [type |-> type, val |-> val]
EventsOf(type, S) == SetToSeq({Event(type, id) : id \in S})
Unchanged(rest) == UNCHANGED <<rest, version, outs, scales, crowded, shm, pointer, cursors>>

OutputEvents == {"global", "scale", "enter", "leave", "global_remove"}
AddOutput(id, s) ==
    /\ Allows("output") /\ outputs[id] = 0
    /\ \A i \in 1 .. Len(queue) : queue[i].type \in OutputEvents => queue[i].val # id
    /\ outputs' = [outputs EXCEPT ![id] = s] /\ given' = given + 1
    /\ Send(<<Event("global", id)>>)
    /\ Unchanged(<<on, served, integer, fraction, managers, hover>>)

\* The program has bound the output: its scale, and the surface if it is there.
ServeOutput(id) ==
    /\ outputs[id] # 0 /\ id \notin served /\ \E i \in 1 .. Len(outs) : outs[i].id = id
    /\ served' = served \cup {id}
    /\ Send(<<[type |-> "scale", val |-> id, scale |-> outputs[id]]>>
            \o (IF id \in on THEN <<Event("enter", id)>> ELSE <<>>))
    /\ Unchanged(<<outputs, on, integer, fraction, managers, hover, given>>)

RemoveOutput(id) ==
    /\ Allows("output") /\ outputs[id] # 0
    /\ outputs' = [outputs EXCEPT ![id] = 0] /\ on' = on \ {id} /\ served' = served \ {id}
    /\ given' = given + 1
    /\ Send(<<Event("global_remove", id)>>)
    /\ Unchanged(<<integer, fraction, managers, hover>>)

RescaleOutput(id, s) ==
    /\ Allows("output") /\ outputs[id] \notin {0, s}
    /\ outputs' = [outputs EXCEPT ![id] = s] /\ given' = given + 1
    /\ Send(IF id \in served THEN <<[type |-> "scale", val |-> id, scale |-> s]>> ELSE <<>>)
    /\ Unchanged(<<on, served, integer, fraction, managers, hover>>)

MoveSurface(to) ==
    /\ Allows("move") /\ to # on /\ \A id \in to : outputs[id] # 0
    /\ on' = to /\ given' = given + 1
    /\ Send(EventsOf("enter", (to \ on) \cap served) \o EventsOf("leave", (on \ to) \cap served))
    /\ Unchanged(<<outputs, served, integer, fraction, managers, hover>>)

PreferInteger(s) ==
    /\ Allows("prefer") /\ version >= 6 /\ s # integer
    /\ integer' = s /\ given' = given + 1
    /\ Send(<<Event("preferred_buffer_scale", s)>>)
    /\ Unchanged(<<outputs, on, served, fraction, managers, hover>>)
PreferFraction(f) ==
    /\ Allows("prefer") /\ "fractional" \in managers /\ f # fraction
    /\ fraction' = f /\ given' = given + 1
    /\ Send(<<Event("preferred_scale", f)>>)
    /\ Unchanged(<<outputs, on, served, integer, managers, hover>>)

Withdraw(m) ==
    /\ Allows("withdraw") /\ m \in managers
    /\ managers' = managers \ {m} /\ given' = given + 1
    /\ Send(<<Event("manager_remove", m)>>)
    /\ Unchanged(<<outputs, on, served, integer, fraction, hover>>)

MovePointer ==
    /\ Allows("pointer")
    /\ hover' = ~hover /\ given' = given + 1
    /\ Send(<<Event("pointer", ~hover)>>)
    /\ Unchanged(<<outputs, on, served, integer, fraction, managers>>)

Compositor ==
    \/ \E id \in Ids, s \in Scales : AddOutput(id, s) \/ RescaleOutput(id, s)
    \/ \E id \in Ids : ServeOutput(id) \/ RemoveOutput(id)
    \/ \E to \in SUBSET Ids : MoveSurface(to)
    \/ \E s \in Scales : PreferInteger(s)
    \/ \E f \in Fractions : PreferFraction(f)
    \/ \E m \in {"fractional", "viewporter", "shm"} : Withdraw(m)
    \/ MovePointer

--------------------------------------------------------------------------------
\* The scale of the surface: fractional, else the one preferred for it, else the largest
\* of its outputs.
resolve_surface_scale ==
    IF viewport /\ preferred_scale_120 > 0 THEN preferred_scale_120
    ELSE IF version >= 6 THEN One * Largest({surface_preferred_scale})
    ELSE One * integer_output_scale

mfb_get_monitor_scale == resolve_surface_scale

get_cursor_buffer_scale ==
    IF version >= 3 THEN (resolve_surface_scale + One - 1) \div One ELSE 1

\* The theme of a scale: the current one, a cached one, a new one; a full cache keeps what it has.
ensure_cursor_theme_for_scale(cache, s) ==
    CASE cache.theme = s -> [cache EXCEPT !.ok = TRUE]
      [] cache.theme # s /\ s \in Range(cache.themes) -> [cache EXCEPT !.ok = TRUE, !.theme = s]
      [] s \notin Range(cache.themes) /\ cache.theme # s ->
            IF ~shm' THEN [cache EXCEPT !.ok = FALSE]
            ELSE IF Len(cache.themes) >= CacheSize THEN [cache EXCEPT !.ok = cache.theme # 0]
            ELSE IF s \in Missing THEN [cache EXCEPT !.ok = FALSE]
            ELSE [ok |-> TRUE, themes |-> Append(cache.themes, s), theme |-> s]

\* Called by a handler when everything it assigns is assigned.
refresh_cursor_surface ==
    IF ~pointer_serial_valid' THEN UNCHANGED cursors
    ELSE IF ~is_cursor_visible' THEN cursor' = Hidden /\ UNCHANGED <<themes, cursor_theme>>
    ELSE LET now == [ok |-> TRUE, themes |-> themes, theme |-> cursor_theme]
             first == ensure_cursor_theme_for_scale(now, get_cursor_buffer_scale')
             odd == version >= 3 /\ first.theme \in Odd
             last == IF first.ok /\ odd THEN ensure_cursor_theme_for_scale(first, 1) ELSE first
         IN  /\ themes' = last.themes /\ cursor_theme' = last.theme
             /\ cursor' = IF ~last.ok THEN cursor
                          ELSE [theme |-> last.theme,
                                scale |-> IF version < 3 \/ odd THEN 1 ELSE last.theme]

--------------------------------------------------------------------------------
\* The handlers.
find_output_index(id) == {i \in 1 .. Len(outs) : outs[i].id = id}

recompute_output_scale(list) ==
    integer_output_scale' = Largest({list[i].scale : i \in {j \in 1 .. Len(list) : list[j].entered}})

\* An event of an output that is not in the table is ignored.
ChangeOutput(id, field, value) ==
    LET index == find_output_index(id) IN
    IF index = {} THEN UNCHANGED <<outs, integer_output_scale, cursors>>
    ELSE LET i == Max(index) IN
         /\ outs' = [outs EXCEPT ![i][field] = value]
         /\ IF field = "entered" \/ outs[i].entered
            THEN recompute_output_scale(outs') /\ refresh_cursor_surface
            ELSE UNCHANGED <<integer_output_scale, cursors>>

output_scale(e) == ChangeOutput(e.val, "scale", e.scale)
surface_enter(e) == ChangeOutput(e.val, "entered", TRUE)
surface_leave(e) == ChangeOutput(e.val, "entered", FALSE)

registry_global(e) ==
    /\ IF Len(outs) < MaxOutputs
       THEN outs' = Append(outs, [id |-> e.val, scale |-> 1, entered |-> FALSE]) /\ UNCHANGED crowded
       ELSE crowded' = TRUE /\ UNCHANGED outs
    /\ UNCHANGED <<integer_output_scale, cursors>>

\* Mutant: the last entry is cut off, whichever was removed.
Truncated(i) == SubSeq(outs, 1, Len(outs) - 1)

\* The last entry of the table moves into the gap.
Compacted(i) == [j \in 1 .. Len(outs) - 1 |-> IF j = i THEN outs[Len(outs)] ELSE outs[j]]

registry_global_remove(e) ==
    IF find_output_index(e.val) = {} THEN UNCHANGED <<outs, integer_output_scale, cursors>>
    ELSE LET i == Max(find_output_index(e.val)) IN
         /\ outs' = Compacted(i)
         /\ IF outs[i].entered THEN recompute_output_scale(outs') /\ refresh_cursor_surface
                               ELSE UNCHANGED <<integer_output_scale, cursors>>

\* Mutant: the cursor keeps the scale it had.
CursorLags(e) ==
    /\ preferred_scale_120' = (IF fractional_scale THEN e.val ELSE preferred_scale_120)
    /\ UNCHANGED cursors

fractional_scale_preferred_scale(e) ==
    /\ preferred_scale_120' = (IF fractional_scale THEN e.val ELSE preferred_scale_120)
    /\ IF preferred_scale_120' = preferred_scale_120 THEN UNCHANGED cursors ELSE refresh_cursor_surface
surface_preferred_buffer_scale(e) ==
    /\ surface_preferred_scale' = e.val
    /\ IF e.val = surface_preferred_scale THEN UNCHANGED cursors ELSE refresh_cursor_surface

\* Mutant: the fractional scale outlives the object that carried it.
ScaleOutlives(e) ==
    /\ fractional_scale' = (fractional_scale /\ e.val # "fractional")
    /\ viewport' = (viewport /\ e.val # "viewporter")
    /\ shm' = (shm /\ e.val # "shm")
    /\ UNCHANGED preferred_scale_120
    /\ IF e.val = "shm" THEN UNCHANGED cursors ELSE refresh_cursor_surface

\* Without its manager an extension object is destroyed, and with it the scale it carried.
ManagerRemoved(e) ==
    /\ fractional_scale' = (fractional_scale /\ e.val # "fractional")
    /\ viewport' = (viewport /\ e.val # "viewporter")
    /\ shm' = (shm /\ e.val # "shm")
    /\ IF e.val = "shm" THEN UNCHANGED <<preferred_scale_120, cursors>>
                        ELSE preferred_scale_120' = 0 /\ refresh_cursor_surface

PointerMoved(e) ==
    /\ pointer_serial_valid' = e.val
    /\ IF e.val THEN refresh_cursor_surface ELSE UNCHANGED cursors

\* The refresh of the cursor reads the new values, so the values kept come first.
Tables(e) ==
    /\ UNCHANGED <<surface_preferred_scale, preferred_scale_120, fractional_scale, viewport, shm, pointer>>
    /\ e.type # "global" => UNCHANGED crowded
    /\ CASE e.type = "scale" -> output_scale(e) [] e.type = "enter" -> surface_enter(e)
         [] e.type = "leave" -> surface_leave(e) [] e.type = "global_remove" -> registry_global_remove(e)
         [] e.type = "global" -> registry_global(e)
Preferences(e) ==
    /\ UNCHANGED <<outs, crowded, integer_output_scale, pointer>>
    /\ \/ /\ e.type = "preferred_scale" /\ UNCHANGED <<surface_preferred_scale, fractional_scale, viewport, shm>>
          /\ fractional_scale_preferred_scale(e)
       \/ /\ e.type = "preferred_buffer_scale" /\ UNCHANGED <<preferred_scale_120, fractional_scale, viewport, shm>>
          /\ surface_preferred_buffer_scale(e)
       \/ e.type = "manager_remove" /\ UNCHANGED surface_preferred_scale /\ ManagerRemoved(e)
Pointer(e) ==
    /\ UNCHANGED <<outs, crowded, scales, shm, is_cursor_visible>>
    /\ PointerMoved(e)

Dispatch ==
    /\ queue # <<>> /\ queue' = Tail(queue) /\ UNCHANGED <<compositor, version>>
    /\ LET e == Head(queue) IN
       CASE e.type \in OutputEvents -> Tables(e)
         [] e.type = "pointer" -> Pointer(e)
         [] OTHER -> Preferences(e)

mfb_show_cursor ==
    /\ Allows("show")
    /\ is_cursor_visible' = ~is_cursor_visible /\ given' = given + 1
    /\ UNCHANGED <<pointer_serial_valid, shm, version, scales>>
    /\ UNCHANGED <<outputs, on, served, integer, fraction, managers, hover, queue, outs, crowded>>
    /\ refresh_cursor_surface

Init ==
    /\ outputs = [id \in Ids |-> 0] /\ on = {} /\ served = {}
    /\ integer = 0 /\ fraction = 0 /\ managers = {"fractional", "viewporter", "shm"} /\ hover = FALSE
    /\ queue = <<>> /\ given = 0 /\ crowded = FALSE /\ cursor = Hidden
    /\ version \in Versions /\ outs = <<>>
    /\ integer_output_scale = 1 /\ surface_preferred_scale = 0 /\ preferred_scale_120 = 0
    /\ fractional_scale = TRUE /\ viewport = TRUE /\ shm = TRUE
    /\ pointer_serial_valid = FALSE /\ is_cursor_visible = TRUE
    /\ themes = <<>> /\ cursor_theme = 0

Next == Compositor \/ Dispatch \/ mfb_show_cursor
Spec == Init /\ [][Next]_vars

--------------------------------------------------------------------------------
TypeOK ==
    /\ Len(outs) <= MaxOutputs /\ Len(themes) <= CacheSize
    /\ \A i \in 1 .. Len(outs) : outs[i].id \in Ids /\ outs[i].scale \in Scales \cup {1}
    /\ Range(themes) \subseteq Nat \ Missing /\ cursor_theme \in {0} \cup Range(themes)
    /\ {viewport, fractional_scale, shm, pointer_serial_valid, is_cursor_visible} \subseteq BOOLEAN

Quiet == queue = <<>> /\ \A id \in Ids : outputs[id] # 0 => id \in served

\* When everything is read, the table of outputs is the compositor's, whatever order
\* outputs came and went in and whichever entries moved into a gap.
OutputsAgree ==
    Quiet /\ ~crowded =>
        /\ ToSet(outs) = {[id |-> id, scale |-> outputs[id], entered |-> id \in on] :
                            id \in {i \in Ids : outputs[i] # 0}}
        /\ IsInjective(outs)

\* When everything is read, the scale is the most precise the compositor still offers.
ScaleSettles ==
    Quiet /\ ~crowded =>
        mfb_get_monitor_scale =
            IF {"fractional", "viewporter"} \subseteq managers /\ fraction # 0 THEN fraction
            ELSE One * Largest(IF version >= 6 THEN {integer} ELSE {outputs[id] : id \in on})

\* The themes the scale asks for can be loaded: its own, and the one of scale 1 when the
\* image of its own is no multiple of it.
Loadable ==
    /\ get_cursor_buffer_scale \notin Missing
    /\ get_cursor_buffer_scale \in Odd => 1 \notin Missing

\* When everything is read, the cursor over the window is the one the application asked
\* for, at the scale of the window and never magnified.
CursorSettles ==
    Quiet /\ hover /\ shm /\ Len(themes) < CacheSize /\ Loadable =>
        IF is_cursor_visible
        THEN /\ cursor.theme = (IF get_cursor_buffer_scale \in Odd THEN 1 ELSE get_cursor_buffer_scale)
             /\ cursor.scale = cursor.theme
        ELSE cursor = Hidden

\* A cursor image is a multiple of the scale of its surface, which the protocol demands.
CursorIsLegal == cursor.scale > 1 => cursor.theme = cursor.scale /\ cursor.theme \notin Odd
================================================================================
