----------------------------- MODULE WaylandWindow -----------------------------
(* The update path of the Wayland backend (src/wayland/WaylandMiniFB.c): the    *)
(* public calls mfb_update_ex, mfb_update_events and mfb_wait_sync of one       *)
(* thread, the two event queues they drain, the three shared-memory buffers     *)
(* they present, and the compositor at the other end of the socket.             *)
(*                                                                              *)
(* A call runs as a sequence of steps named by pc; inside it the dispatch       *)
(* routines run as steps named by io, one step per event handler, so that the   *)
(* compositor can act between any two of them.  Window geometry is one number:  *)
(* a logical size, multiplied by the surface scale to give the physical size.   *)
EXTENDS Integers, Sequences

CONSTANTS
    NSlots,          \* WAYLAND_BUFFER_SLOTS
    Sizes,           \* logical window sizes the compositor may impose
    Scales,          \* surface scales it may prefer
    Kinds,           \* kinds of window event it sends, "hangup" for a disconnection
    MaxEvents,       \* bound: window events it sends in one behaviour
    Calls,           \* the public calls the application makes
    FrameCallbacks,  \* g_use_wayland_frame_callback_throttle
    SoftwarePacing,  \* neither hardware sync nor an unlimited frame rate
    Faults           \* whether system calls and allocations may fail

ASSUME SlotsAssumption == NSlots \in Nat /\ NSlots >= 2
ASSUME GeometryAssumption ==
    /\ Sizes \subseteq Nat \ {0} /\ Sizes # {}
    /\ Scales \subseteq Nat \ {0} /\ 1 \in Scales
ASSUME FlagsAssumption ==
    /\ FrameCallbacks \in BOOLEAN /\ SoftwarePacing \in BOOLEAN /\ Faults \in BOOLEAN
    /\ MaxEvents \in Nat /\ Calls \subseteq {"update_ex", "update_events", "wait_sync", "close"}

VARIABLES
    pc, call, ret,             \* the running public call and the last result
    io, read_queue,            \* the dispatch routine inside it
    alive,                     \* the SWindowData has not been freed
    close, backend_unusable, shell,
    size, scale, must_resize_context, pending_configure,
    busy, dims, front_slot,    \* SWaylandBufferSlot.busy and its physical size
    throttle_callback,         \* throttle_callback # NULL
    active_slot, metrics, late,
    error,                     \* wl_display_get_error() # 0
    buf, cb,                   \* who has each wl_buffer and the frame callback
    wire, window_queue, hangup, sent,
    reported, frame            \* history: last reported size, last frame shown

control == <<pc, call, ret>>
dispatch == <<io, read_queue>>
window == <<alive, close, backend_unusable, shell, size, scale, must_resize_context, pending_configure>>
slots == <<busy, dims, front_slot>>
locals == <<active_slot, metrics, late>>
compositor == <<buf, cb, wire, window_queue, hangup, sent>>
history == <<reported, frame>>
vars == <<control, dispatch, window, slots, throttle_callback, locals, error, compositor, history>>

--------------------------------------------------------------------------------
Slots == 0 .. NSlots - 1
NoSize == 0     \* a configure without a size, a slot without a buffer

UpdateCalls == {"update_ex", "update_events", "wait_sync"}
Statuses == {"OK", "EXIT", "INVALID_BUFFER", "INTERNAL_ERROR"}

WindowKinds == {"surface", "close", "input", "remove_shell", "remove_shm"}
Events == [kind : {"toplevel"}, val : Sizes \cup {NoSize}]
              \cup [kind : {"scale"}, val : Scales]
              \cup [kind : WindowKinds, val : {NoSize}]
\* Events of objects that die with the xdg_wm_base.
ShellKinds == {"toplevel", "surface", "close"}

NoConfigure == [has_toplevel |-> FALSE, size |-> NoSize]

\* Where an object is on its way back from the compositor: "held" by it, on the
\* "wire", in the client's render "queue", or with no event outstanding ("free").
Stages == {"free", "held", "wire", "queue"}

\* A mapped window: the initial buffer, of the size of the first configure, has
\* been committed without a throttle; a later configure of the opening roundtrip
\* may already have changed the size.
Init ==
    /\ pc = "idle" /\ call = "none" /\ ret = "OK"
    /\ io = "none" /\ read_queue = "window"
    /\ alive = TRUE /\ close = FALSE /\ backend_unusable = FALSE /\ shell = TRUE
    /\ size \in Sizes /\ scale = 1 /\ must_resize_context = FALSE
    /\ pending_configure = NoConfigure
    /\ busy = [s \in Slots |-> s = 0]
    /\ \E first \in Sizes : dims = [s \in Slots |-> IF s = 0 THEN first ELSE NoSize]
    /\ front_slot = 0 /\ throttle_callback = FALSE
    /\ active_slot = 0 /\ metrics = [size |-> NoSize, scale |-> 1] /\ late = FALSE
    /\ error = FALSE
    /\ buf = [s \in Slots |-> IF s = 0 THEN "held" ELSE "free"] /\ cb = "free"
    /\ wire = <<>> /\ window_queue = <<>> /\ hangup = FALSE /\ sent = 0
    /\ reported = size
    /\ frame = [slot |-> 0, size |-> NoSize]

--------------------------------------------------------------------------------
\* The two event queues.
RenderPending == cb = "queue" \/ \E s \in Slots : buf[s] = "queue"
WindowPending == window_queue # <<>>
Pending(queue) == IF queue = "render" THEN RenderPending ELSE WindowPending
Other(queue) == IF queue = "render" THEN "window" ELSE "render"
OnWire == wire # <<>> \/ cb = "wire" \/ \E s \in Slots : buf[s] = "wire"

\* Calls of the dispatch routines, entered by the steps of the public calls.
dispatch_owned_non_blocking == io' = "nb_render" /\ UNCHANGED read_queue
dispatch_queue_timeout(queue) == io' = "prepare" /\ read_queue' = queue
dispatch_render_pending == io' = "render" /\ UNCHANGED read_queue

RenderStages == {"nb_render", "nb_render_again", "render"}
WindowStages == {"nb_window", "nb_window_again", "window"}

\* What follows each pass of wl_display_dispatch_queue_pending: the non-blocking
\* routine makes two passes over both queues with a read between them.
NextStage ==
    [nb_render |-> "nb_window", nb_window |-> "nb_read",
     nb_render_again |-> "nb_window_again", nb_window_again |-> "nb_flush",
     render |-> "ok", window |-> "ok"]

EndOfPass ==
    /\ \/ io \in RenderStages /\ ~RenderPending
       \/ io \in WindowStages /\ ~WindowPending
    /\ io' = NextStage[io]
    /\ UNCHANGED <<control, read_queue, window, slots, throttle_callback, locals,
                   error, compositor, history>>

\* wl_display_read_events: the socket's events, in order, to their queues.  It
\* fails, and records the error, only once nothing is left before the hangup.
wl_display_read_events ==
    IF OnWire
    THEN /\ window_queue' = window_queue \o wire
         /\ wire' = <<>>
         /\ buf' = [s \in Slots |-> IF buf[s] = "wire" THEN "queue" ELSE buf[s]]
         /\ cb' = IF cb = "wire" THEN "queue" ELSE cb
         /\ UNCHANGED <<error, hangup, sent>>
    ELSE error' = TRUE /\ UNCHANGED compositor

\* dispatch_owned_non_blocking, between its two passes: poll with no timeout.
ReadNonBlocking ==
    /\ io = "nb_read"
    /\ \/ /\ OnWire \/ hangup
          /\ wl_display_read_events
          /\ io' = IF OnWire THEN "nb_render_again" ELSE "failed"
       \/ /\ ~OnWire /\ ~hangup
          /\ io' = "nb_render_again"
          /\ UNCHANGED <<error, compositor>>
       \/ /\ Faults
          /\ io' = "failed"
          /\ UNCHANGED <<error, compositor>>
    /\ UNCHANGED <<control, read_queue, window, slots, throttle_callback, locals, history>>

\* Its last step; a broken pipe shows in the flush even if the read succeeded.
FlushNonBlocking ==
    /\ io = "nb_flush"
    /\ \/ io' = "ok"
       \/ (Faults \/ hangup) /\ io' = "failed"
    /\ UNCHANGED <<control, read_queue, window, slots, throttle_callback, locals,
                   error, compositor, history>>

\* dispatch_queue_timeout: only the read queue is checked before the poll.
PrepareRead ==
    /\ io = "prepare"
    /\ io' = IF Pending(read_queue) THEN read_queue ELSE "poll"
    /\ UNCHANGED <<control, read_queue, window, slots, throttle_callback, locals,
                   error, compositor, history>>

PollReadable ==
    /\ io = "poll" /\ (OnWire \/ hangup)
    /\ wl_display_read_events
    /\ io' = IF OnWire THEN "select" ELSE "failed"
    /\ UNCHANGED <<control, read_queue, window, slots, throttle_callback, locals, history>>

PollTimeout ==
    /\ io = "poll" /\ ~OnWire /\ ~hangup
    /\ io' = "ok"
    /\ UNCHANGED <<control, read_queue, window, slots, throttle_callback, locals,
                   error, compositor, history>>

PollFails ==
    /\ io = "poll" /\ Faults
    /\ io' = "failed"
    /\ UNCHANGED <<control, read_queue, window, slots, throttle_callback, locals,
                   error, compositor, history>>

\* After the read: the read queue if it has events, else the other one.  Events
\* of libwayland's own queue wake the poll and lead back to it: no step of ours.
SelectQueue ==
    /\ io = "select"
    /\ io' = IF Pending(read_queue) THEN read_queue ELSE Other(read_queue)
    /\ UNCHANGED <<control, read_queue, window, slots, throttle_callback, locals,
                   error, compositor, history>>

--------------------------------------------------------------------------------
\* The event handlers.
buffer_release(s) ==
    /\ io \in RenderStages /\ buf[s] = "queue"
    /\ buf' = [buf EXCEPT ![s] = "free"]
    /\ busy' = [busy EXCEPT ![s] = FALSE]
    /\ UNCHANGED <<control, dispatch, window, dims, front_slot, throttle_callback, locals,
                   error, cb, wire, window_queue, hangup, sent, history>>

throttle_done_KeepsField ==
    /\ io \in RenderStages /\ cb = "queue"
    /\ cb' = "free"
    /\ UNCHANGED <<control, dispatch, window, slots, throttle_callback, locals, error,
                   buf, wire, window_queue, hangup, sent, history>>
throttle_done ==
    /\ io \in RenderStages /\ cb = "queue"
    /\ cb' = "free"
    /\ throttle_callback' = FALSE
    /\ UNCHANGED <<control, dispatch, window, slots, locals, error,
                   buf, wire, window_queue, hangup, sent, history>>

Event == Head(window_queue)

\* The next event of the window queue is of this kind and reaches its handler:
\* libwayland discards the events of an object the client has destroyed.
Handle(kind) ==
    /\ io \in WindowStages /\ WindowPending
    /\ Event.kind = kind
    /\ shell \/ kind \notin ShellKinds
    /\ window_queue' = Tail(window_queue)
    /\ UNCHANGED <<control, dispatch, alive, slots, throttle_callback, locals, error,
                   buf, cb, wire, hangup, sent, history>>

handle_toplevel_configure ==
    /\ Handle("toplevel")
    /\ pending_configure' = [has_toplevel |-> TRUE, size |-> Event.val]
    /\ UNCHANGED <<close, backend_unusable, shell, size, scale, must_resize_context>>

handle_shell_surface_configure_Silent ==
    /\ Handle("surface")
    /\ size' = IF pending_configure.size = NoSize THEN size ELSE pending_configure.size
    /\ pending_configure' = NoConfigure
    /\ UNCHANGED <<close, backend_unusable, shell, scale, must_resize_context>>
\* apply_pending_toplevel_configure, then the acknowledgement.
handle_shell_surface_configure ==
    /\ Handle("surface")
    /\ IF pending_configure.has_toplevel /\ pending_configure.size \notin {NoSize, size}
       THEN size' = pending_configure.size /\ must_resize_context' = TRUE
       ELSE UNCHANGED <<size, must_resize_context>>
    /\ pending_configure' = NoConfigure
    /\ UNCHANGED <<close, backend_unusable, shell, scale>>

\* The close callback, when there is one, decides.
handle_toplevel_close ==
    /\ Handle("close")
    /\ \E agreed \in BOOLEAN : close' = (close \/ agreed)
    /\ UNCHANGED <<backend_unusable, shell, size, scale, must_resize_context, pending_configure>>

\* Keyboard and pointer events: the application's callback, or keyboard_default,
\* may ask for the close.
InputEvent ==
    /\ Handle("input")
    /\ \E asks \in BOOLEAN : close' = (close \/ asks)
    /\ UNCHANGED <<backend_unusable, shell, size, scale, must_resize_context, pending_configure>>

fractional_scale_preferred_scale ==
    /\ Handle("scale")
    /\ scale' = Event.val
    /\ UNCHANGED <<close, backend_unusable, shell, size, must_resize_context, pending_configure>>

registry_global_remove ==
    /\ \/ Handle("remove_shell") /\ shell' = FALSE
       \/ Handle("remove_shm") /\ UNCHANGED shell
    /\ backend_unusable' = TRUE
    /\ UNCHANGED <<close, size, scale, must_resize_context, pending_configure>>

DiscardForDestroyedShell ==
    /\ io \in WindowStages /\ WindowPending
    /\ ~shell /\ Event.kind \in ShellKinds
    /\ window_queue' = Tail(window_queue)
    /\ UNCHANGED <<control, dispatch, window, slots, throttle_callback, locals, error,
                   buf, cb, wire, hangup, sent, history>>

WindowHandler ==
    \/ handle_toplevel_configure
    \/ handle_shell_surface_configure
    \/ handle_toplevel_close
    \/ InputEvent
    \/ fractional_scale_preferred_scale
    \/ registry_global_remove
    \/ DiscardForDestroyedShell

Dispatch ==
    \/ EndOfPass
    \/ ReadNonBlocking \/ FlushNonBlocking
    \/ PrepareRead \/ PollReadable \/ PollFails \/ SelectQueue
    \/ throttle_done
    \/ \E s \in Slots : buffer_release(s)
    \/ WindowHandler

--------------------------------------------------------------------------------
\* The public calls.  What a call keeps in local variables is gone when it returns.
NoMetrics == [size |-> NoSize, scale |-> 1]
Return(status) ==
    /\ pc' = "idle" /\ call' = "none" /\ ret' = status
    /\ io' = "none" /\ read_queue' = "window"
    /\ active_slot' = 0 /\ metrics' = NoMetrics /\ late' = FALSE

Goto(step) == pc' = step /\ UNCHANGED <<call, ret>>
Finish(step) == Goto(step) /\ io' = "none" /\ read_queue' = "window"

Untouched == UNCHANGED <<window, slots, throttle_callback, compositor>>

\* destroy: every protocol object, then the memory; what was in flight dies too.
destroy ==
    /\ alive' = FALSE
    /\ busy' = [s \in Slots |-> FALSE]
    /\ dims' = [s \in Slots |-> NoSize]
    /\ throttle_callback' = FALSE
    /\ buf' = [s \in Slots |-> "free"] /\ cb' = "free"
    /\ wire' = <<>> /\ window_queue' = <<>>
    /\ UNCHANGED <<close, backend_unusable, shell, size, scale, must_resize_context,
                   pending_configure, front_slot, hangup, sent>>

Exit == Return("EXIT") /\ destroy
Fail(status) == Return(status) /\ Untouched
\* The error paths of mfb_update_ex: a close that arrived meanwhile wins.
ExitOrFail == IF close THEN Exit ELSE Fail("INTERNAL_ERROR")

Ended_WithoutClose == backend_unusable
\* What every wait checks after a dispatch.
Ended == close \/ backend_unusable
Undisturbed == io = "ok" /\ ~Ended
Interrupted == io = "failed" \/ (io = "ok" /\ Ended)

\* Going on with the call, with or without another dispatch.
Continue(step) == Finish(step) /\ Untouched /\ UNCHANGED locals
ContinueWith(step, routine) == Goto(step) /\ routine /\ Untouched /\ UNCHANGED locals

\* A window is the application's until it has been told of its end.
Call(c) ==
    /\ pc = "idle" /\ alive
    /\ pc' = "begin" /\ call' = c /\ UNCHANGED ret
    /\ UNCHANGED <<dispatch, window, slots, throttle_callback, locals, error, compositor, history>>

mfb_close ==
    /\ pc = "idle" /\ alive /\ ~close /\ "close" \in Calls
    /\ close' = TRUE
    /\ UNCHANGED <<control, dispatch, alive, backend_unusable, shell, size, scale,
                   must_resize_context, pending_configure, slots, throttle_callback,
                   locals, error, compositor, history>>

begin_window_call_ErrorFirst ==
    /\ pc = "begin"
    /\ \/ (error \/ backend_unusable) /\ Fail("INTERNAL_ERROR")
       \/ ~error /\ ~backend_unusable /\ close /\ Exit
       \/ /\ ~close /\ ~error /\ ~backend_unusable
          /\ \/ ContinueWith("pump", dispatch_owned_non_blocking)
             \/ call = "update_ex" /\ Fail("INVALID_BUFFER")
    /\ UNCHANGED <<error, history>>
\* begin_window_call, the validation of the caller's buffer, and the first
\* dispatch of pump_window_events.
begin_window_call ==
    /\ pc = "begin"
    /\ \/ close /\ Exit
       \/ ~close /\ (error \/ backend_unusable) /\ Fail("INTERNAL_ERROR")
       \/ /\ ~close /\ ~error /\ ~backend_unusable
          /\ \/ ContinueWith("pump", dispatch_owned_non_blocking)
             \/ call = "update_ex" /\ Fail("INVALID_BUFFER")
    /\ UNCHANGED <<error, history>>

\* The rest of pump_window_events: the status of the dispatch, then close, then a
\* lost global.  The loop of mfb_wait_sync checks the same, in the same order.
AfterPump(step) ==
    /\ \/ io = "failed" /\ Fail("INTERNAL_ERROR")
       \/ io = "ok" /\ close /\ Exit
       \/ io = "ok" /\ ~close /\ backend_unusable /\ Fail("INTERNAL_ERROR")
       \/ Undisturbed /\ Continue(step)
    /\ UNCHANGED <<error, history>>

pump_window_events == pc = "pump" /\ AfterPump("pumped")

\* The key repeats that are due reach the application, which may ask for the
\* close.  mfb_wait_sync emits none, and its frame may already be over.
wayland_emit_due_key_repeats ==
    /\ pc = "pumped" /\ call # "wait_sync"
    /\ \E asks \in BOOLEAN : close' = (close \/ asks)
    /\ Goto(IF call = "update_ex" THEN "throttle" ELSE "emit")
    /\ UNCHANGED <<dispatch, alive, backend_unusable, shell, size, scale, must_resize_context,
                   pending_configure, slots, throttle_callback, locals,
                   error, compositor, history>>

mfb_wait_sync ==
    /\ pc = "pumped" /\ call = "wait_sync"
    /\ late' \in {FALSE, SoftwarePacing}
    /\ Goto("emit")
    /\ UNCHANGED <<dispatch, window, slots, throttle_callback, active_slot, metrics,
                   error, compositor, history>>

--------------------------------------------------------------------------------
\* surface_throttle_wait, and what mfb_update_ex does with its status.
ThrottleCheck ==
    /\ pc = "throttle"
    /\ \/ throttle_callback /\ ContinueWith("throttle_drain", dispatch_owned_non_blocking)
       \/ ~throttle_callback /\ ~close /\ ContinueWith("acquire_first", dispatch_render_pending)
       \/ ~throttle_callback /\ close /\ Exit
    /\ UNCHANGED <<error, history>>

ThrottleDrained_NoDeadline ==
    /\ pc = "throttle_drain"
    /\ \/ Interrupted /\ ExitOrFail
       \/ /\ Undisturbed /\ ~throttle_callback
          /\ ContinueWith("acquire_first", dispatch_render_pending)
       \/ /\ Undisturbed /\ throttle_callback
          /\ ContinueWith("throttle_poll", dispatch_queue_timeout("render"))
    /\ UNCHANGED <<error, history>>
ThrottleDrained_SkipsReport ==
    /\ pc = "throttle_drain"
    /\ \/ Interrupted /\ ExitOrFail
       \/ /\ Undisturbed /\ ~throttle_callback
          /\ ContinueWith("acquire_first", dispatch_render_pending)
       \/ Undisturbed /\ throttle_callback /\ late /\ Return("OK") /\ Untouched
       \/ /\ Undisturbed /\ throttle_callback /\ ~late
          /\ ContinueWith("throttle_poll", dispatch_queue_timeout("render"))
    /\ UNCHANGED <<error, history>>
ThrottleDrained ==
    /\ pc = "throttle_drain"
    /\ \/ Interrupted /\ ExitOrFail
       \/ /\ Undisturbed /\ ~throttle_callback
          /\ ContinueWith("acquire_first", dispatch_render_pending)
       \/ Undisturbed /\ throttle_callback /\ late /\ Continue("emit")
       \/ /\ Undisturbed /\ throttle_callback /\ ~late
          /\ ContinueWith("throttle_poll", dispatch_queue_timeout("render"))
    /\ UNCHANGED <<error, history>>

ThrottlePolled_NoRecheck ==
    /\ pc = "throttle_poll"
    /\ \/ io = "failed" /\ ExitOrFail
       \/ io = "ok" /\ ContinueWith("acquire_first", dispatch_render_pending)
    /\ UNCHANGED <<error, history>>
ThrottlePolled_PollsAgain ==
    /\ pc = "throttle_poll"
    /\ \/ Interrupted /\ ExitOrFail
       \/ Undisturbed /\ ~throttle_callback /\ Continue("throttle")
       \/ Undisturbed /\ throttle_callback /\ ContinueWith("throttle_poll", dispatch_queue_timeout("render"))
    /\ UNCHANGED <<error, history>>
ThrottlePolled ==
    /\ pc = "throttle_poll"
    /\ \/ io = "failed" /\ ExitOrFail
       \/ io = "ok" /\ Continue("throttle")
    /\ UNCHANGED <<error, history>>

--------------------------------------------------------------------------------
\* acquire_presentation_slot: the releases already received, then the first free
\* slot from front_slot on, else wait for a release.
FirstFree(s) ==
    \E i \in Slots :
        /\ s = (front_slot + i) % NSlots
        /\ ~busy[s]
        /\ \A j \in 0 .. i - 1 : busy[(front_slot + j) % NSlots]

AcquireFirst ==
    /\ pc = "acquire_first" /\ io = "ok"
    /\ Continue("acquire")
    /\ UNCHANGED <<error, history>>

TakeSlot(s) ==
    /\ active_slot' = s
    /\ front_slot' = (s + 1) % NSlots
    /\ Finish("snapshot")
    /\ UNCHANGED <<window, busy, dims, throttle_callback, compositor, metrics, late>>

acquire_presentation_slot ==
    /\ pc = "acquire"
    /\ \/ Ended /\ ExitOrFail
       \/ /\ ~Ended
          /\ \/ \E s \in Slots : FirstFree(s) /\ TakeSlot(s)
             \/ /\ \A s \in Slots : busy[s]
                /\ ContinueWith("acquire_drain", dispatch_owned_non_blocking)
    /\ UNCHANGED <<error, history>>

AcquireDrained ==
    /\ pc = "acquire_drain"
    /\ \/ Interrupted /\ ExitOrFail
       \/ Undisturbed /\ ContinueWith("acquire_poll", dispatch_queue_timeout("render"))
    /\ UNCHANGED <<error, history>>

AcquirePolled ==
    /\ pc = "acquire_poll"
    /\ \/ io = "failed" /\ ExitOrFail
       \/ io = "ok" /\ Continue("acquire")
    /\ UNCHANGED <<error, history>>

--------------------------------------------------------------------------------
\* Steps 4 and 5 of mfb_update_ex: no event is dispatched from here to the commit.
Physical(m) == m.size * m.scale

compute_presentation_metrics ==
    /\ pc = "snapshot"
    /\ metrics' = [size |-> size, scale |-> scale]
    /\ Finish("ensure")
    /\ UNCHANGED <<window, slots, throttle_callback, active_slot, late, error, compositor, history>>

\* A stale buffer is torn down before its replacement is allocated.
Stale_OnlyIfMissing == dims[active_slot] = NoSize
Stale == dims[active_slot] # Physical(metrics)
slot_ensure_buffer ==
    /\ pc = "ensure"
    /\ \/ /\ dims' = [dims EXCEPT ![active_slot] = IF Stale THEN Physical(metrics) ELSE @]
          /\ Finish("present") /\ UNCHANGED locals
       \/ /\ Faults /\ Stale
          /\ dims' = [dims EXCEPT ![active_slot] = NoSize]
          /\ Return("INTERNAL_ERROR")
    /\ busy' = [busy EXCEPT ![active_slot] = IF Stale THEN FALSE ELSE @]
    /\ UNCHANGED <<window, front_slot, throttle_callback, error, compositor, history>>

Commit_ForgetsBusy(throttled) ==
    /\ frame' = [slot |-> active_slot, size |-> metrics.size]
    /\ buf' = [buf EXCEPT ![active_slot] = "held"]
    /\ throttle_callback' = throttled
    /\ cb' = IF throttled THEN "held" ELSE "free"
    /\ UNCHANGED <<window, slots, wire, window_queue, hangup, sent, reported>>
\* The frame callback is requested before the commit; without one, a sync
\* barrier after it takes its place.
Commit(throttled) ==
    /\ frame' = [slot |-> active_slot, size |-> metrics.size]
    /\ buf' = [buf EXCEPT ![active_slot] = "held"]
    /\ busy' = [busy EXCEPT ![active_slot] = TRUE]
    /\ throttle_callback' = throttled
    /\ cb' = IF throttled THEN "held" ELSE "free"
    /\ UNCHANGED <<window, dims, front_slot, wire, window_queue, hangup, sent, reported>>

Refused == throttle_callback    \* the check that opens present_presentation_buffer
present_presentation_buffer ==
    /\ pc = "present"
    /\ \/ ~Refused /\ Commit(TRUE) /\ Finish("emit") /\ UNCHANGED locals
       \* the flush that follows the commit failed
       \/ ~Refused /\ (Faults \/ hangup) /\ Commit(TRUE) /\ Return("INTERNAL_ERROR")
       \* wl_display_sync returned NULL
       \/ ~Refused /\ Faults /\ ~FrameCallbacks /\ Commit(FALSE) /\ Return("INTERNAL_ERROR")
       \* wl_surface_frame returned NULL, or the call is refused
       \/ /\ Refused \/ (Faults /\ FrameCallbacks)
          /\ Fail("INTERNAL_ERROR") /\ UNCHANGED history
    /\ UNCHANGED error

\* emit_pending_resize ends every successful call; the callback may ask for the
\* close.  mfb_wait_sync goes on to pace the frame.
emit_pending_resize ==
    /\ pc = "emit"
    /\ IF must_resize_context
       THEN /\ must_resize_context' = FALSE
            /\ reported' = size
            /\ \E asks \in BOOLEAN : close' = (close \/ asks)
       ELSE UNCHANGED <<must_resize_context, reported, close>>
    /\ \/ call = "wait_sync" /\ SoftwarePacing /\ Finish("pace") /\ UNCHANGED locals
       \/ (call # "wait_sync" \/ ~SoftwarePacing) /\ Return("OK")
    /\ UNCHANGED <<alive, backend_unusable, shell, size, scale, pending_configure, slots,
                   throttle_callback, error, compositor, frame>>

\* The pacing loop of mfb_wait_sync: sleep, or poll for the last millisecond.
Pace ==
    /\ pc = "pace"
    /\ \/ late /\ Return("OK") /\ Untouched
       \/ ~late /\ ContinueWith("paced", dispatch_queue_timeout("window"))
       \/ ~late /\ ContinueWith("paced", dispatch_owned_non_blocking)
    /\ UNCHANGED <<error, history>>

Paced == pc = "paced" /\ AfterPump("emit")

\* The absolute deadline of the running wait passes.
DeadlinePasses ==
    /\ ~late
    /\ \/ pc \in {"throttle", "throttle_drain", "throttle_poll", "pace", "paced"}
       \/ pc = "emit" /\ call = "wait_sync" /\ SoftwarePacing
    /\ late' = TRUE
    /\ UNCHANGED <<control, dispatch, window, slots, throttle_callback, active_slot, metrics,
                   error, compositor, history>>

Step ==
    \/ begin_window_call \/ pump_window_events
    \/ wayland_emit_due_key_repeats \/ mfb_wait_sync
    \/ ThrottleCheck \/ ThrottleDrained \/ ThrottlePolled
    \/ AcquireFirst \/ acquire_presentation_slot \/ AcquireDrained \/ AcquirePolled
    \/ compute_presentation_metrics \/ slot_ensure_buffer \/ present_presentation_buffer
    \/ emit_pending_resize \/ Pace \/ Paced

--------------------------------------------------------------------------------
\* The compositor.  A request takes effect when it is made: its latency cannot be
\* told apart from that of the events that answer it.  Nothing can observe an
\* event before the next read of the socket, so it is sent at that point.
AtRead == io \in {"nb_read", "poll"}
External == /\ alive /\ ~hangup
            /\ UNCHANGED <<control, dispatch, window, slots, throttle_callback, locals, error,
                           window_queue, history>>

SendWindowEvent(e) ==
    /\ External /\ AtRead /\ sent < MaxEvents
    /\ wire' = Append(wire, e)
    /\ sent' = sent + 1
    /\ UNCHANGED <<buf, cb, hangup>>

SendRelease(s) ==
    /\ External /\ AtRead /\ buf[s] = "held"
    /\ buf' = [buf EXCEPT ![s] = "wire"]
    /\ UNCHANGED <<cb, wire, hangup, sent>>

SendDone ==
    /\ External /\ AtRead /\ cb = "held"
    /\ cb' = "wire"
    /\ UNCHANGED <<buf, wire, hangup, sent>>

Disconnect ==
    /\ External /\ "hangup" \in Kinds /\ sent < MaxEvents
    /\ hangup' = TRUE
    /\ sent' = sent + 1
    /\ UNCHANGED <<buf, cb, wire>>

\* The freed window is never used again.
Gone == ~alive /\ UNCHANGED vars

Sendable == {e \in Events : e.kind \in Kinds}

Next ==
    \/ \E c \in Calls \cap UpdateCalls : Call(c)
    \/ mfb_close
    \/ Step
    \/ Dispatch
    \/ PollTimeout
    \/ DeadlinePasses
    \/ \E e \in Sendable : SendWindowEvent(e)
    \/ \E s \in Slots : SendRelease(s)
    \/ SendDone
    \/ Disconnect
    \/ Gone

Spec == Init /\ [][Next]_vars

\* The thread of a running call is scheduled, poll honours its timeout and time
\* passes.  A compositor releases a buffer once another one has replaced it; it
\* owes nothing else, in particular no frame callback for a hidden surface.
RunningCallProgresses == WF_vars(Step \/ Dispatch) /\ WF_vars(PollTimeout) /\ WF_vars(DeadlinePasses)
ReplacedBufferReleased == \A s \in Slots : SF_vars(frame.slot # s /\ SendRelease(s))
LiveSpec == Spec /\ RunningCallProgresses /\ ReplacedBufferReleased

\* An application that keeps calling, as the main loop of every example does.
LoopSpec == LiveSpec /\ WF_vars(\E c \in Calls \cap UpdateCalls : Call(c))

--------------------------------------------------------------------------------
\* What the variables hold.
Steps ==
    {"idle", "begin", "pump", "pumped", "throttle", "throttle_drain", "throttle_poll",
     "acquire_first", "acquire", "acquire_drain", "acquire_poll",
     "snapshot", "ensure", "present", "emit", "pace", "paced"}
DispatchSteps ==
    RenderStages \cup WindowStages
        \cup {"none", "nb_read", "nb_flush", "prepare", "poll", "select", "ok", "failed"}
ControlTypeOK ==
    /\ pc \in Steps
    /\ call \in UpdateCalls \cup {"none"} /\ ret \in Statuses
    /\ io \in DispatchSteps
    /\ read_queue \in {"render", "window"}
    /\ late \in BOOLEAN /\ error \in BOOLEAN

WindowTypeOK ==
    /\ alive \in BOOLEAN /\ close \in BOOLEAN /\ backend_unusable \in BOOLEAN
    /\ shell \in BOOLEAN /\ must_resize_context \in BOOLEAN
    /\ size \in Sizes /\ scale \in Scales /\ reported \in Sizes
    /\ pending_configure \in [has_toplevel : BOOLEAN, size : Sizes \cup {NoSize}]

SlotsTypeOK ==
    /\ busy \in [Slots -> BOOLEAN]
    /\ dims \in [Slots -> Nat]
    /\ front_slot \in Slots /\ active_slot \in Slots
    /\ throttle_callback \in BOOLEAN
    /\ metrics \in [size : Sizes \cup {NoSize}, scale : Scales]
    /\ frame \in [slot : Slots, size : Sizes \cup {NoSize}]

CompositorTypeOK ==
    /\ buf \in [Slots -> Stages] /\ cb \in Stages
    /\ wire \in Seq(Events) /\ window_queue \in Seq(Events)
    /\ hangup \in BOOLEAN /\ sent \in 0 .. MaxEvents

TypeOK == ControlTypeOK /\ WindowTypeOK /\ SlotsTypeOK /\ CompositorTypeOK

\* A slot is free to be written, resized or destroyed exactly when the
\* compositor has returned its buffer and the release has been dispatched: a slot
\* is never reused early, and never lost (busy, with no release to come).
SlotOwnership == \A s \in Slots : busy[s] <=> buf[s] # "free"

\* The throttle field and the frame callback it stands for live and die together:
\* never two callbacks, never a wait for one that was already delivered.
ThrottleTracksCallback == throttle_callback <=> cb # "free"

\* The check at the top of present_presentation_buffer never fires.
NeverPresentsOverCallback == pc = "present" => ~throttle_callback

\* A frame is handed over in a buffer that was the client's to write, exactly as
\* large as the image composed for it, made for the size and the scale the window
\* has at the commit: nothing between the snapshot and the commit may dispatch.
HandsOver(s) == buf[s] # "held" /\ buf'[s] = "held"
FramesAreCurrent ==
    [][\A s \in Slots : HandsOver(s) =>
          /\ buf[s] = "free"
          /\ metrics.size = size /\ metrics.scale = scale
          /\ dims[s] = size * scale]_vars

\* No frame is committed once the close was asked for or a required global went.
NoFrameAfterEnd ==
    [][\A s \in Slots : HandsOver(s) => ~close /\ ~backend_unusable]_vars

\* A size the application has not been told is pending to be told.
ResizeNeverLost == alive /\ ~must_resize_context => reported = size

\* A call never sleeps in poll on a window event it has already received: input,
\* a configure or the close never waits for the socket or for a timeout.
WindowEventsNeverWait == io = "poll" => ~WindowPending

\* Every call returns, although the compositor may withhold frame callbacks for
\* ever, as it does for a hidden surface.
CallReturns == (pc # "idle") ~> (pc = "idle")

\* Once a close was agreed to, the window goes, whatever fails on the way.
CloseLeadsToExit == close ~> ~alive

\* Why the properties above hold.  Outside a dispatch routine no event is handled;
\* a drain leaves the window queue empty, and the poll on the render queue follows
\* a drain at once; from the choice of a slot to the commit the slot is free, the
\* window goes on, no callback is outstanding and, from the snapshot on, the
\* window is the one that was measured.
RenderSteps == {"snapshot", "ensure", "present"}
QuietSteps == RenderSteps \cup {"idle", "begin", "pumped", "throttle", "acquire", "emit", "pace"}
DrainStages == {"nb_render", "nb_window", "nb_read", "nb_render_again", "nb_window_again", "nb_flush"}
PollStages == {"prepare", "poll", "select"}

DispatchInvariant ==
    /\ pc \in QuietSteps <=> io = "none"
    /\ pc \in {"pump", "throttle_drain", "acquire_drain"} => io \in DrainStages \cup {"ok", "failed"}
    /\ pc \in {"throttle_poll", "acquire_poll"} =>
          /\ io \in PollStages \cup {"render", "window", "ok", "failed"}
          /\ read_queue = "render"
    /\ pc = "acquire_first" => io \in {"render", "ok"}
    /\ pc = "paced" /\ io \in PollStages => read_queue = "window"
    /\ \/ io = "nb_flush"
       \/ pc \in {"pump", "throttle_drain", "acquire_drain"} /\ io = "ok"
       \/ io = "prepare" /\ read_queue = "render"
       \/ io = "poll"
       => ~WindowPending

RenderInvariant ==
    /\ pc \in RenderSteps => ~busy[active_slot] /\ ~Ended
    /\ pc \in RenderSteps \cup {"acquire_first", "acquire", "acquire_drain", "acquire_poll"}
          => ~throttle_callback
    /\ pc \in {"ensure", "present"} => metrics = [size |-> size, scale |-> scale]
    /\ pc = "present" => dims[active_slot] = Physical(metrics)

\* A call runs on a window that exists, and paces only once it has reported.
CallInvariant ==
    /\ pc # "idle" => alive
    /\ pc = "pace" => ~must_resize_context

Invariant ==
    /\ TypeOK
    /\ SlotOwnership /\ ThrottleTracksCallback /\ ResizeNeverLost
    /\ DispatchInvariant /\ RenderInvariant /\ CallInvariant

\* The backend keeps the contract of the public interface.
Contract == INSTANCE WindowContract WITH
    state <- IF ~alive THEN "gone" ELSE IF close THEN "closing" ELSE "open",
    calling <- pc # "idle",
    result <- ret,
    shown <- frame.size

ImplementsContract == Contract!Spec
================================================================================
