-------------------------- MODULE WaylandWindow_proofs --------------------------
(* Proofs about WaylandWindow for any number of slots, any sizes and scales and  *)
(* any behaviour of the compositor.                                              *)
EXTENDS WaylandWindow, TLAPS

LEMMA SlotArithmetic ==
    /\ 0 \in Slots
    /\ \A s, i \in Slots : (s + 1) % NSlots \in Slots /\ (s + i) % NSlots \in Slots
  BY SlotsAssumption DEF Slots

LEMMA Numbers ==
    NoSize \in Nat /\ Sizes \subseteq Nat /\ Scales \subseteq Nat /\ 1 \in Scales
  BY GeometryAssumption DEF NoSize

LEMMA TypeInit == Init => TypeOK
  <1> SUFFICES ASSUME Init PROVE TypeOK
    OBVIOUS
  <1>1. ControlTypeOK
    BY DEF Init, ControlTypeOK, Statuses, Steps, DispatchSteps
  <1>2. WindowTypeOK
    BY Numbers DEF Init, WindowTypeOK, NoConfigure
  <1>3. SlotsTypeOK
    BY Numbers, SlotArithmetic DEF Init, SlotsTypeOK
  <1>4. CompositorTypeOK
    <2>1. buf \in [Slots -> Stages] /\ cb \in Stages
      BY DEF Init, Stages
    <2>2. wire \in Seq(Events) /\ window_queue \in Seq(Events)
      BY DEF Init
    <2>3. hangup \in BOOLEAN
      BY DEF Init
    <2>4. sent = 0 /\ MaxEvents \in Nat
      BY FlagsAssumption DEF Init
    <2>5. sent \in 0 .. MaxEvents
      BY <2>4
    <2> QED BY <2>1, <2>2, <2>3, <2>5 DEF CompositorTypeOK
  <1> QED BY <1>1, <1>2, <1>3, <1>4 DEF TypeOK

--------------------------------------------------------------------------------
\* How the shared endings and continuations of the calls keep the types.
LEMMA ReturnType ==
    ASSUME TypeOK, NEW status \in Statuses, Fail(status), UNCHANGED <<error, history>>
    PROVE  TypeOK'
  <1> USE Numbers, SlotArithmetic
      DEF TypeOK, Fail, Return, Untouched, window, slots, compositor, history
  <1>1. ControlTypeOK'
    BY DEF ControlTypeOK, Steps, DispatchSteps
  <1>2. WindowTypeOK'
    BY DEF WindowTypeOK
  <1>3. SlotsTypeOK'
    BY DEF SlotsTypeOK, NoMetrics
  <1>4. CompositorTypeOK'
    BY DEF CompositorTypeOK
  <1> QED BY <1>1, <1>2, <1>3, <1>4

LEMMA ExitType ==
    ASSUME TypeOK, Exit, UNCHANGED <<error, history>>
    PROVE  TypeOK'
  <1> USE Numbers, SlotArithmetic DEF TypeOK, Exit, Return, destroy, history
  <1>1. ControlTypeOK'
    BY DEF ControlTypeOK, Steps, DispatchSteps, Statuses
  <1>2. WindowTypeOK'
    BY DEF WindowTypeOK
  <1>3. SlotsTypeOK'
    <2>1. busy' \in [Slots -> BOOLEAN] /\ dims' \in [Slots -> Nat]
      OBVIOUS
    <2>2. metrics' \in [size : Sizes \cup {NoSize}, scale : Scales]
      BY DEF NoMetrics
    <2> QED BY <2>1, <2>2 DEF SlotsTypeOK
  <1>4. CompositorTypeOK'
    <2>1. buf' \in [Slots -> Stages] /\ cb' \in Stages
      BY DEF Stages
    <2>2. wire' \in Seq(Events) /\ window_queue' \in Seq(Events)
      OBVIOUS
    <2> QED BY <2>1, <2>2 DEF CompositorTypeOK
  <1> QED BY <1>1, <1>2, <1>3, <1>4

LEMMA LocalsType ==
    ASSUME TypeOK, UNCHANGED error,
           \/ Finish("emit") /\ UNCHANGED locals
           \/ Finish("pace") /\ UNCHANGED locals
           \/ Finish("present") /\ UNCHANGED locals
           \/ \E status \in Statuses : Return(status)
    PROVE  /\ ControlTypeOK'
           /\ active_slot' \in Slots
           /\ metrics' \in [size : Sizes \cup {NoSize}, scale : Scales]
  <1>1. ControlTypeOK'
    BY DEF TypeOK, ControlTypeOK, Finish, Goto, Return, locals, Steps, DispatchSteps
  <1>2. active_slot' \in Slots
    BY SlotArithmetic DEF TypeOK, SlotsTypeOK, Finish, Goto, Return, locals
  <1>3. metrics' \in [size : Sizes \cup {NoSize}, scale : Scales]
    BY Numbers DEF TypeOK, SlotsTypeOK, Return, locals, NoMetrics
  <1> QED BY <1>1, <1>2, <1>3

LEMMA ProductType == \A a, b \in Nat : a * b \in Nat
  OBVIOUS

LEMMA GotoType ==
    ASSUME TypeOK, NEW step \in Steps, Goto(step), Untouched, UNCHANGED locals,
           io' \in DispatchSteps, read_queue' \in {"render", "window"},
           UNCHANGED <<error, history>>
    PROVE  TypeOK'
  BY DEF TypeOK, ControlTypeOK, WindowTypeOK, SlotsTypeOK, CompositorTypeOK, Goto, Untouched,
         window, slots, compositor, locals, history

LEMMA EventType ==
    ASSUME TypeOK, WindowPending
    PROVE  /\ Event \in Events
           /\ Event.kind = "toplevel" => Event.val \in Sizes \cup {NoSize}
           /\ Event.kind = "scale" => Event.val \in Scales
           /\ Tail(window_queue) \in Seq(Events)
  <1>1. window_queue \in Seq(Events) /\ window_queue # <<>>
    BY DEF TypeOK, CompositorTypeOK, WindowPending
  <1>2. Event \in Events /\ Tail(window_queue) \in Seq(Events)
    BY <1>1 DEF Event
  <1> QED BY <1>2 DEF Events, WindowKinds

--------------------------------------------------------------------------------
LEMMA TypeStep == TypeOK /\ [Next]_vars => TypeOK'
  <1> SUFFICES ASSUME TypeOK, [Next]_vars PROVE TypeOK'
    OBVIOUS
  <1> USE Numbers, SlotArithmetic
  <1>0. \A status \in Statuses : Fail(status) /\ UNCHANGED <<error, history>> => TypeOK'
    BY ReturnType
  <1>e. Exit /\ UNCHANGED <<error, history>> => TypeOK'
    BY ExitType
  <1>f. ExitOrFail /\ UNCHANGED <<error, history>> => TypeOK'
    BY <1>0, <1>e DEF ExitOrFail, Statuses
  <1>c. \A step \in Steps : Continue(step) /\ UNCHANGED <<error, history>> => TypeOK'
    BY GotoType DEF Continue, Finish, DispatchSteps
  <1>w. \A step \in Steps :
          /\ Goto(step) /\ Untouched /\ UNCHANGED locals
          /\ io' \in DispatchSteps /\ read_queue' \in {"render", "window"}
          /\ UNCHANGED <<error, history>>
          => TypeOK'
    BY GotoType
  <1>q. read_queue \in {"render", "window"}
    BY DEF TypeOK, ControlTypeOK
  <1>p. ASSUME NEW step \in Steps, AfterPump(step) PROVE TypeOK'
    BY <1>p, <1>0, <1>e, <1>c DEF AfterPump, Statuses
  <1>1. CASE Step
    <2> USE DEF ContinueWith, dispatch_owned_non_blocking, dispatch_queue_timeout,
                dispatch_render_pending, Steps, DispatchSteps, RenderStages, WindowStages
    <2>1. CASE begin_window_call
      BY <2>1, <1>0, <1>e, <1>f, <1>c, <1>w, <1>q DEF begin_window_call, Statuses
    <2>2. CASE ThrottleCheck
      BY <2>2, <1>0, <1>e, <1>f, <1>c, <1>w, <1>q DEF ThrottleCheck, Statuses
    <2>3. CASE ThrottleDrained
      BY <2>3, <1>0, <1>e, <1>f, <1>c, <1>w, <1>q DEF ThrottleDrained, Statuses
    <2>4. CASE ThrottlePolled
      BY <2>4, <1>0, <1>e, <1>f, <1>c, <1>w, <1>q DEF ThrottlePolled, Statuses
    <2>5. CASE AcquireFirst
      BY <2>5, <1>0, <1>e, <1>f, <1>c, <1>w, <1>q DEF AcquireFirst, Statuses
    <2>6. CASE AcquireDrained
      BY <2>6, <1>0, <1>e, <1>f, <1>c, <1>w, <1>q DEF AcquireDrained, Statuses
    <2>7. CASE AcquirePolled
      BY <2>7, <1>0, <1>e, <1>f, <1>c, <1>w, <1>q DEF AcquirePolled, Statuses
    <2>8. CASE pump_window_events
      BY <2>8, <1>p DEF pump_window_events
    <2>9. CASE Paced
      BY <2>9, <1>p DEF Paced
    <2>10. CASE wayland_emit_due_key_repeats
      BY <2>10 DEF wayland_emit_due_key_repeats, Goto, TypeOK, ControlTypeOK, WindowTypeOK, SlotsTypeOK, CompositorTypeOK, window, slots, locals, compositor, history, dispatch, control
    <2>11. CASE mfb_wait_sync
      <3>1. late' \in BOOLEAN
        BY <2>11, FlagsAssumption, Zenon DEF mfb_wait_sync
      <3> QED BY <2>11, <3>1 DEF mfb_wait_sync, Goto, TypeOK, ControlTypeOK, WindowTypeOK, SlotsTypeOK, CompositorTypeOK,
             window, slots, locals, compositor, history, dispatch, control
    <2>12. CASE compute_presentation_metrics
      BY <2>12 DEF compute_presentation_metrics, Finish, Goto, TypeOK, ControlTypeOK, WindowTypeOK, SlotsTypeOK, CompositorTypeOK,
             window, slots, locals, compositor, history, dispatch, control
    <2>13. CASE acquire_presentation_slot
      <3>1. ASSUME NEW s \in Slots, TakeSlot(s), UNCHANGED <<error, history>> PROVE TypeOK'
        <4>1. ControlTypeOK'
          BY <3>1 DEF TakeSlot, Finish, Goto, TypeOK, ControlTypeOK
        <4>2. WindowTypeOK' /\ CompositorTypeOK'
          BY <3>1 DEF TakeSlot, TypeOK, WindowTypeOK, CompositorTypeOK, window, compositor, history
        <4>3. SlotsTypeOK'
          BY <3>1 DEF TakeSlot, TypeOK, SlotsTypeOK, history
        <4> QED BY <4>1, <4>2, <4>3 DEF TypeOK
      <3> QED BY <2>13, <1>f, <1>w, <1>q, <3>1 DEF acquire_presentation_slot
    <2>14. CASE slot_ensure_buffer
      <3>1. ControlTypeOK' /\ active_slot' \in Slots
            /\ metrics' \in [size : Sizes \cup {NoSize}, scale : Scales]
        BY <2>14, LocalsType DEF slot_ensure_buffer, Statuses
      <3>2. Physical(metrics) \in Nat
        <4>1. metrics.size \in Nat /\ metrics.scale \in Nat
          BY DEF TypeOK, SlotsTypeOK
        <4> QED BY <4>1, ProductType DEF Physical
      <3>3. dims' \in [Slots -> Nat]
        BY <2>14, <3>2 DEF slot_ensure_buffer, TypeOK, SlotsTypeOK
      <3>4. busy' \in [Slots -> BOOLEAN]
        BY <2>14 DEF slot_ensure_buffer, TypeOK, SlotsTypeOK
      <3>5. WindowTypeOK' /\ CompositorTypeOK'
        BY <2>14 DEF slot_ensure_buffer, TypeOK, WindowTypeOK, CompositorTypeOK, window, compositor, history
      <3> QED BY <2>14, <3>1, <3>3, <3>4, <3>5 DEF slot_ensure_buffer, TypeOK, SlotsTypeOK, history
    <2>15. CASE present_presentation_buffer
      <3>1. ASSUME NEW throttled \in BOOLEAN, Commit(throttled), UNCHANGED error,
                   (Finish("emit") /\ UNCHANGED locals) \/ Return("INTERNAL_ERROR")
            PROVE  TypeOK'
        <4>1. ControlTypeOK' /\ active_slot' \in Slots
              /\ metrics' \in [size : Sizes \cup {NoSize}, scale : Scales]
          BY <3>1, LocalsType DEF Statuses
        <4>2. WindowTypeOK'
          BY <3>1 DEF Commit, TypeOK, WindowTypeOK, window
        <4>3. frame' \in [slot : Slots, size : Sizes \cup {NoSize}] /\ busy' \in [Slots -> BOOLEAN]
          BY <3>1 DEF Commit, TypeOK, SlotsTypeOK
        <4>4. buf' \in [Slots -> Stages] /\ cb' \in Stages
          BY <3>1 DEF Commit, TypeOK, CompositorTypeOK, Stages
        <4> QED BY <3>1, <4>1, <4>2, <4>3, <4>4 DEF Commit, TypeOK, SlotsTypeOK, CompositorTypeOK
      <3> QED BY <2>15, <1>0, <3>1 DEF present_presentation_buffer, Statuses
    <2>16. CASE emit_pending_resize
      <3>1. ControlTypeOK' /\ active_slot' \in Slots
            /\ metrics' \in [size : Sizes \cup {NoSize}, scale : Scales]
        BY <2>16, LocalsType DEF emit_pending_resize, Statuses
      <3>2. close' \in BOOLEAN /\ must_resize_context' \in BOOLEAN /\ reported' \in Sizes
        BY <2>16 DEF emit_pending_resize, TypeOK, WindowTypeOK
      <3> QED BY <2>16, <3>1, <3>2 DEF emit_pending_resize, TypeOK, WindowTypeOK, SlotsTypeOK,
              CompositorTypeOK, slots, compositor
    <2>17. CASE Pace
      <3>1. Return("OK") /\ Untouched /\ UNCHANGED <<error, history>> => TypeOK'
        BY <1>0 DEF Fail, Statuses
      <3> QED BY <2>17, <3>1, <1>w, <1>q DEF Pace
    <2> QED BY <1>1, <2>1, <2>2, <2>3, <2>4, <2>5, <2>6, <2>7, <2>8, <2>9, <2>10, <2>11, <2>12,
               <2>13, <2>14, <2>15, <2>16, <2>17 DEF Step
  <1>2. CASE Dispatch
    <2> USE DEF RenderStages, WindowStages
    <2>1. CASE EndOfPass
      BY <2>1 DEF EndOfPass, NextStage, DispatchSteps, TypeOK, ControlTypeOK, WindowTypeOK, SlotsTypeOK, CompositorTypeOK,
             window, slots, locals, compositor, history, dispatch, control
    <2>2. ASSUME wl_display_read_events PROVE CompositorTypeOK' /\ error' \in BOOLEAN
      <3>1. CASE OnWire
        <4>1. window_queue' \in Seq(Events) /\ wire' \in Seq(Events)
          <5>1. window_queue \in Seq(Events) /\ wire \in Seq(Events)
            BY DEF TypeOK, CompositorTypeOK
          <5>2. window_queue' = window_queue \o wire /\ wire' = <<>>
            BY <2>2, <3>1 DEF wl_display_read_events
          <5> QED BY <5>1, <5>2
        <4>2. buf' \in [Slots -> Stages] /\ cb' \in Stages
          BY <2>2, <3>1 DEF wl_display_read_events, TypeOK, CompositorTypeOK, Stages
        <4> QED BY <2>2, <3>1, <4>1, <4>2
                DEF wl_display_read_events, TypeOK, CompositorTypeOK, ControlTypeOK
      <3>2. CASE ~OnWire
        BY <2>2, <3>2 DEF wl_display_read_events, TypeOK, CompositorTypeOK, compositor
      <3> QED BY <3>1, <3>2
    <2>3. CASE ReadNonBlocking
      <3>1. CompositorTypeOK' /\ error' \in BOOLEAN
        BY <2>3, <2>2 DEF ReadNonBlocking, TypeOK, CompositorTypeOK, ControlTypeOK, compositor
      <3> QED BY <2>3, <3>1 DEF ReadNonBlocking, DispatchSteps, TypeOK, ControlTypeOK, WindowTypeOK, SlotsTypeOK, CompositorTypeOK,
             window, slots, locals, compositor, history, dispatch, control
    <2>4. CASE PollReadable
      <3>1. CompositorTypeOK' /\ error' \in BOOLEAN
        BY <2>4, <2>2 DEF PollReadable
      <3> QED BY <2>4, <3>1 DEF PollReadable, DispatchSteps, TypeOK, ControlTypeOK, WindowTypeOK, SlotsTypeOK, CompositorTypeOK,
             window, slots, locals, compositor, history, dispatch, control
    <2>5. CASE FlushNonBlocking
      BY <2>5 DEF FlushNonBlocking, DispatchSteps, TypeOK, ControlTypeOK, WindowTypeOK, SlotsTypeOK, CompositorTypeOK,
             window, slots, locals, compositor, history, dispatch, control
    <2>6. CASE PrepareRead \/ PollFails \/ SelectQueue
      BY <2>6 DEF PrepareRead, PollFails, SelectQueue, Other, DispatchSteps, TypeOK, ControlTypeOK, WindowTypeOK, SlotsTypeOK, CompositorTypeOK,
             window, slots, locals, compositor, history, dispatch, control
    <2>7. CASE throttle_done
      <3>1. CompositorTypeOK'
        BY <2>7 DEF throttle_done, Stages, TypeOK, CompositorTypeOK
      <3>2. SlotsTypeOK'
        BY <2>7 DEF throttle_done, TypeOK, SlotsTypeOK, slots, locals, history
      <3> QED BY <2>7, <3>1, <3>2 DEF throttle_done, TypeOK, ControlTypeOK, WindowTypeOK,
              control, dispatch, window, locals, history
    <2>8. ASSUME NEW s \in Slots, buffer_release(s) PROVE TypeOK'
      BY <2>8 DEF buffer_release, Stages, TypeOK, ControlTypeOK, WindowTypeOK, SlotsTypeOK, CompositorTypeOK,
             window, slots, locals, compositor, history, dispatch, control
    <2>9. CASE WindowHandler
      <3>1. window_queue' \in Seq(Events)
        BY <2>9, EventType DEF WindowHandler, DiscardForDestroyedShell, Handle,
           handle_toplevel_configure, handle_shell_surface_configure, handle_toplevel_close,
           InputEvent, fractional_scale_preferred_scale, registry_global_remove
      <3>2. UNCHANGED <<control, dispatch, alive, slots, throttle_callback, locals, error,
                        buf, cb, wire, hangup, sent, history>>
        BY <2>9 DEF WindowHandler, DiscardForDestroyedShell, Handle, window,
           handle_toplevel_configure, handle_shell_surface_configure, handle_toplevel_close,
           InputEvent, fractional_scale_preferred_scale, registry_global_remove
      <3>3. ControlTypeOK' /\ SlotsTypeOK' /\ CompositorTypeOK'
        BY <3>1, <3>2 DEF TypeOK, ControlTypeOK, SlotsTypeOK, CompositorTypeOK,
           control, dispatch, slots, locals, history
      <3>4. WindowTypeOK'
        <4> USE DEF TypeOK, WindowTypeOK
        <4>0. UNCHANGED <<alive, reported>>
          BY <3>2 DEF history
        <4>1. CASE handle_toplevel_configure
          <5>1. Event.val \in Sizes \cup {NoSize}
            BY <4>1, EventType DEF handle_toplevel_configure, Handle
          <5> QED BY <4>0, <4>1, <5>1 DEF handle_toplevel_configure
        <4>2. CASE handle_shell_surface_configure
          <5>1. size' \in Sizes /\ must_resize_context' \in BOOLEAN
            BY <4>2 DEF handle_shell_surface_configure
          <5> QED BY <4>0, <4>2, <5>1 DEF handle_shell_surface_configure, NoConfigure
        <4>3. CASE handle_toplevel_close \/ InputEvent
          BY <4>0, <4>3 DEF handle_toplevel_close, InputEvent
        <4>4. CASE fractional_scale_preferred_scale
          <5>1. Event.val \in Scales
            BY <4>4, EventType DEF fractional_scale_preferred_scale, Handle
          <5> QED BY <4>0, <4>4, <5>1 DEF fractional_scale_preferred_scale
        <4>5. CASE registry_global_remove
          BY <4>0, <4>5 DEF registry_global_remove
        <4>6. CASE DiscardForDestroyedShell
          BY <4>0, <4>6 DEF DiscardForDestroyedShell, window
        <4> QED BY <2>9, <4>1, <4>2, <4>3, <4>4, <4>5, <4>6 DEF WindowHandler
      <3> QED BY <3>3, <3>4 DEF TypeOK
    <2> QED BY <1>2, <2>1, <2>3, <2>4, <2>5, <2>6, <2>7, <2>8, <2>9 DEF Dispatch
  <1> USE DEF window, slots, locals, compositor, history, dispatch, control
  <1> USE DEF TypeOK, ControlTypeOK, WindowTypeOK, SlotsTypeOK, CompositorTypeOK
  <1>3. CASE PollTimeout \/ DeadlinePasses
    <2>1. CASE PollTimeout
      BY <2>1 DEF PollTimeout, DispatchSteps
    <2>2. CASE DeadlinePasses
      BY <2>2 DEF DeadlinePasses
    <2> QED BY <1>3, <2>1, <2>2
  <1>4. ASSUME NEW c \in Calls \cap UpdateCalls, Call(c) PROVE TypeOK'
    BY <1>4 DEF Call, Steps
  <1>5. CASE mfb_close
    BY <1>5 DEF mfb_close
  <1>6. ASSUME NEW e \in Sendable, SendWindowEvent(e) PROVE TypeOK'
    <2>1. wire' \in Seq(Events)
      BY <1>6 DEF SendWindowEvent, Sendable
    <2>2. sent' \in 0 .. MaxEvents
      BY <1>6, FlagsAssumption DEF SendWindowEvent
    <2> QED BY <1>6, <2>1, <2>2 DEF SendWindowEvent, External
  <1>7. ASSUME NEW s \in Slots, SendRelease(s) PROVE TypeOK'
    BY <1>7 DEF SendRelease, External, Stages
  <1>8. CASE SendDone
    BY <1>8 DEF SendDone, External, Stages
  <1>9. CASE Disconnect
    <2>1. sent' \in 0 .. MaxEvents
      BY <1>9, FlagsAssumption DEF Disconnect
    <2> QED BY <1>9, <2>1 DEF Disconnect, External
  <1>10. CASE Gone \/ UNCHANGED vars
    BY <1>10 DEF Gone, vars
  <1> QED BY <1>1, <1>2, <1>3, <1>4, <1>5, <1>6, <1>7, <1>8, <1>9, <1>10 DEF Next

\* What the variables hold in every state the backend reaches.
THEOREM TypeCorrect == Spec => []TypeOK
  <1> QED BY TypeInit, TypeStep, PTL DEF Spec

--------------------------------------------------------------------------------
(* Which dispatch routine runs at which step of a call, and when the window queue *)
(* is known to be empty.                                                          *)

LEMMA DispatchStep ==
    TypeOK /\ DispatchInvariant /\ [Next]_vars => DispatchInvariant'
  <1> SUFFICES ASSUME TypeOK, DispatchInvariant, [Next]_vars PROVE DispatchInvariant'
    OBVIOUS
  <1> USE DEF DispatchInvariant, QuietSteps, RenderSteps, DrainStages, PollStages, WindowPending
  <1>1. CASE Step
    <2> USE DEF Return, Goto, Finish, Exit, Fail, ExitOrFail, Continue, ContinueWith, Untouched, destroy,
            dispatch_owned_non_blocking, dispatch_queue_timeout, dispatch_render_pending,
            compositor, dispatch, Undisturbed, Interrupted
    <2>1. CASE begin_window_call
      BY <2>1 DEF begin_window_call
    <2>2. CASE pump_window_events
      BY <2>2 DEF pump_window_events, AfterPump
    <2>3. CASE wayland_emit_due_key_repeats
      BY <2>3 DEF wayland_emit_due_key_repeats
    <2>4. CASE mfb_wait_sync
      BY <2>4 DEF mfb_wait_sync
    <2>5. CASE ThrottleCheck
      BY <2>5 DEF ThrottleCheck
    <2>6. CASE ThrottleDrained
      BY <2>6 DEF ThrottleDrained
    <2>7. CASE ThrottlePolled
      BY <2>7 DEF ThrottlePolled
    <2>8. CASE AcquireFirst
      BY <2>8 DEF AcquireFirst
    <2>9. CASE acquire_presentation_slot
      BY <2>9 DEF acquire_presentation_slot, TakeSlot
    <2>10. CASE AcquireDrained
      BY <2>10 DEF AcquireDrained
    <2>11. CASE AcquirePolled
      BY <2>11 DEF AcquirePolled
    <2>12. CASE compute_presentation_metrics
      BY <2>12 DEF compute_presentation_metrics
    <2>13. CASE slot_ensure_buffer
      BY <2>13 DEF slot_ensure_buffer
    <2>14. CASE present_presentation_buffer
      BY <2>14 DEF present_presentation_buffer, Commit
    <2>15. CASE emit_pending_resize
      BY <2>15 DEF emit_pending_resize
    <2>16. CASE Pace
      BY <2>16 DEF Pace
    <2>17. CASE Paced
      BY <2>17 DEF Paced, AfterPump
    <2> QED BY <1>1, <2>1, <2>2, <2>3, <2>4, <2>5, <2>6, <2>7, <2>8, <2>9, <2>10, <2>11, <2>12, <2>13, <2>14, <2>15, <2>16, <2>17 DEF Step
  <1>2. CASE Dispatch
    <2> USE DEF RenderStages, WindowStages, control, compositor
    <2>1. CASE EndOfPass
      BY <2>1 DEF EndOfPass, NextStage
    <2>2. CASE ReadNonBlocking
      BY <2>2 DEF ReadNonBlocking, wl_display_read_events
    <2>3. CASE FlushNonBlocking
      BY <2>3 DEF FlushNonBlocking
    <2>4. CASE PrepareRead
      BY <2>4 DEF PrepareRead, Pending, TypeOK, ControlTypeOK
    <2>5. CASE PollReadable
      BY <2>5 DEF PollReadable, wl_display_read_events
    <2>6. CASE PollFails
      BY <2>6 DEF PollFails
    <2>7. CASE SelectQueue
      BY <2>7 DEF SelectQueue, Other, TypeOK, ControlTypeOK
    <2>8. CASE throttle_done
      BY <2>8 DEF throttle_done, dispatch
    <2>9. ASSUME NEW s \in Slots, buffer_release(s) PROVE DispatchInvariant'
      BY <2>9 DEF buffer_release, dispatch
    <2>10. CASE WindowHandler
      <3>1. UNCHANGED <<control, dispatch>> /\ io \in WindowStages
        BY <2>10 DEF WindowHandler, DiscardForDestroyedShell, Handle,
           handle_toplevel_configure, handle_shell_surface_configure, handle_toplevel_close,
           InputEvent, fractional_scale_preferred_scale, registry_global_remove
      <3> QED BY <3>1 DEF dispatch
    <2> QED BY <1>2, <2>1, <2>2, <2>3, <2>4, <2>5, <2>6, <2>7, <2>8, <2>9, <2>10 DEF Dispatch
  <1>3. CASE PollTimeout
    BY <1>3 DEF PollTimeout, control, compositor
  <1>4. CASE DeadlinePasses
    BY <1>4 DEF DeadlinePasses, control, dispatch, compositor
  <1>5. ASSUME NEW c \in Calls \cap UpdateCalls, Call(c) PROVE DispatchInvariant'
    BY <1>5 DEF Call, dispatch, compositor
  <1>6. CASE mfb_close
    BY <1>6 DEF mfb_close, control, dispatch, compositor
  <1>7. CASE (\E e \in Sendable : SendWindowEvent(e)) \/ (\E s \in Slots : SendRelease(s))
             \/ SendDone \/ Disconnect
    BY <1>7 DEF SendWindowEvent, SendRelease, SendDone, Disconnect, External, control, dispatch
  <1>8. CASE Gone \/ UNCHANGED vars
    BY <1>8 DEF Gone, vars, control, dispatch, compositor
  <1> QED BY <1>1, <1>2, <1>3, <1>4, <1>5, <1>6, <1>7, <1>8 DEF Next

--------------------------------------------------------------------------------
(* The slots, the throttle and the presentation snapshot.                          *)

LEMMA SlotsStep ==
    /\ TypeOK /\ DispatchInvariant
    /\ SlotOwnership /\ ThrottleTracksCallback /\ RenderInvariant
    /\ [Next]_vars
    => (SlotOwnership /\ ThrottleTracksCallback /\ RenderInvariant)'
  <1> SUFFICES ASSUME TypeOK, DispatchInvariant, SlotOwnership, ThrottleTracksCallback,
                      RenderInvariant, [Next]_vars
               PROVE  (SlotOwnership /\ ThrottleTracksCallback /\ RenderInvariant)'
    OBVIOUS
  <1> DEFINE Good == (SlotOwnership /\ ThrottleTracksCallback /\ RenderInvariant)'
  <1> DEFINE Same == UNCHANGED <<slots, throttle_callback, buf, cb>>
  <1>s. Same => SlotOwnership' /\ ThrottleTracksCallback'
    BY DEF SlotOwnership, ThrottleTracksCallback, slots
  <1>q. \/ pc' \notin RenderSteps \cup {"acquire_first", "acquire", "acquire_drain", "acquire_poll"}
        \/ UNCHANGED <<pc, slots, throttle_callback, close, backend_unusable, active_slot,
                       metrics, size, scale>>
        => RenderInvariant'
    BY DEF RenderInvariant, RenderSteps, Ended, slots, Physical
  <1>e. Exit => Good
    BY <1>q DEF Exit, Return, destroy, SlotOwnership, ThrottleTracksCallback, RenderSteps
  <1>f. \A status \in Statuses : Fail(status) => Same /\ RenderInvariant'
    BY <1>q DEF Fail, Return, Untouched, compositor, RenderSteps
  <1>g. ExitOrFail => Good
    BY <1>e, <1>f, <1>s DEF ExitOrFail, Statuses
  \* Going on with the call where nothing is being rendered.
  <1>c. \A step : /\ Goto(step) /\ Untouched
                  /\ step \notin RenderSteps
                  /\ \/ step \notin {"acquire_first", "acquire", "acquire_drain", "acquire_poll"}
                     \/ ~throttle_callback
                  => Good
    BY <1>s DEF Goto, Untouched, compositor, slots, RenderInvariant, RenderSteps
  <1>p. ASSUME NEW step, step \in {"pumped", "emit"}, AfterPump(step) PROVE Good
    BY <1>p, <1>c, <1>e, <1>f, <1>s DEF AfterPump, Statuses, Continue, Finish, RenderSteps
  <1>1. CASE Step
    <2> USE DEF RenderSteps, Continue, ContinueWith, Finish
    <2>1. CASE begin_window_call
      BY <2>1, <1>c, <1>e, <1>f, <1>s DEF begin_window_call, Statuses
    <2>2. CASE pump_window_events
      BY <2>2, <1>p DEF pump_window_events
    <2>3. CASE wayland_emit_due_key_repeats
      BY <2>3, <1>s, <1>q DEF wayland_emit_due_key_repeats, Goto, compositor
    <2>4. CASE mfb_wait_sync
      BY <2>4, <1>s, <1>q DEF mfb_wait_sync, Goto, compositor
    <2>5. CASE ThrottleCheck
      BY <2>5, <1>c, <1>e DEF ThrottleCheck
    <2>6. CASE ThrottleDrained
      BY <2>6, <1>c, <1>g DEF ThrottleDrained
    <2>7. CASE ThrottlePolled
      BY <2>7, <1>c, <1>g DEF ThrottlePolled
    <2>8. CASE AcquireFirst
      BY <2>8, <1>c DEF AcquireFirst, RenderInvariant
    <2>9. CASE acquire_presentation_slot
      <3>1. ~throttle_callback
        BY <2>9 DEF acquire_presentation_slot, RenderInvariant
      <3>2. ASSUME NEW s \in Slots, FirstFree(s), TakeSlot(s), ~Ended PROVE Good
        BY <3>1, <3>2, <1>s DEF FirstFree, TakeSlot, Goto, RenderInvariant, Ended,
           SlotOwnership, ThrottleTracksCallback, window, compositor
      <3> QED BY <2>9, <3>1, <3>2, <1>c, <1>g DEF acquire_presentation_slot
    <2>10. CASE AcquireDrained
      BY <2>10, <1>c, <1>g DEF AcquireDrained, RenderInvariant
    <2>11. CASE AcquirePolled
      BY <2>11, <1>c, <1>g DEF AcquirePolled, RenderInvariant
    <2>12. CASE compute_presentation_metrics
      BY <2>12, <1>s DEF compute_presentation_metrics, Goto, RenderInvariant, Ended, window,
         slots, compositor
    <2>13. CASE slot_ensure_buffer
      <3>1. pc = "ensure" /\ ~busy[active_slot] /\ ~Ended /\ ~throttle_callback
            /\ metrics = [size |-> size, scale |-> scale]
        BY <2>13 DEF slot_ensure_buffer, RenderInvariant
      <3>2. busy' = busy
        BY <2>13, <3>1 DEF slot_ensure_buffer, TypeOK, SlotsTypeOK
      <3>3. SlotOwnership' /\ ThrottleTracksCallback'
        BY <2>13, <3>2 DEF slot_ensure_buffer, SlotOwnership, ThrottleTracksCallback, compositor
      <3>4. CASE pc' = "idle"
        BY <3>3, <3>4, <1>q
      <3>5. CASE Goto("present") /\ UNCHANGED locals
        <4>1. dims'[active_slot] = Physical(metrics)
          BY <2>13, <3>5 DEF slot_ensure_buffer, Goto, Return, Stale, TypeOK, SlotsTypeOK
        <4> QED BY <2>13, <3>1, <3>2, <3>3, <3>5, <4>1
                DEF slot_ensure_buffer, Goto, RenderInvariant, Ended, Physical, window, locals
      <3> QED BY <2>13, <3>4, <3>5 DEF slot_ensure_buffer, Return
    <2>14. CASE present_presentation_buffer
      <3>1. ASSUME NEW throttled \in BOOLEAN, Commit(throttled), pc' \in {"emit", "idle"} PROVE Good
        <4>1. SlotOwnership'
          BY <3>1 DEF Commit, SlotOwnership, TypeOK, SlotsTypeOK, CompositorTypeOK
        <4>2. ThrottleTracksCallback'
          BY <3>1 DEF Commit, ThrottleTracksCallback
        <4> QED BY <3>1, <4>1, <4>2, <1>q
      <3> QED BY <2>14, <3>1, <1>f, <1>s DEF present_presentation_buffer, Statuses, Return, Goto
    <2>15. CASE emit_pending_resize
      BY <2>15, <1>s, <1>q DEF emit_pending_resize, Goto, Return, compositor
    <2>16. CASE Pace
      BY <2>16, <1>c, <1>f, <1>s DEF Pace, Fail, Statuses
    <2>17. CASE Paced
      BY <2>17, <1>p DEF Paced
    <2> QED BY <1>1, <2>1, <2>2, <2>3, <2>4, <2>5, <2>6, <2>7, <2>8, <2>9, <2>10, <2>11, <2>12,
               <2>13, <2>14, <2>15, <2>16, <2>17 DEF Step
  <1>2. CASE Dispatch
    <2>0. pc \notin RenderSteps
      BY <1>2 DEF Dispatch, EndOfPass, ReadNonBlocking, FlushNonBlocking, PrepareRead, PollReadable,
         PollFails, SelectQueue, throttle_done, buffer_release, WindowHandler, Handle,
         DiscardForDestroyedShell, handle_toplevel_configure, handle_shell_surface_configure,
         handle_toplevel_close, InputEvent, fractional_scale_preferred_scale, registry_global_remove,
         RenderStages, WindowStages, DispatchInvariant, QuietSteps
    <2>1. ASSUME UNCHANGED <<control, slots>>, throttle_callback' => throttle_callback
          PROVE  RenderInvariant'
      BY <2>0, <2>1 DEF RenderInvariant, RenderSteps, control
    <2>2. ASSUME wl_display_read_events, UNCHANGED <<control, slots, throttle_callback>> PROVE Good
      <3>1. \A s \in Slots : buf'[s] # "free" <=> buf[s] # "free"
        BY <2>2 DEF wl_display_read_events, compositor, TypeOK, CompositorTypeOK
      <3>2. cb' # "free" <=> cb # "free"
        BY <2>2 DEF wl_display_read_events, compositor
      <3> QED BY <2>1, <2>2, <3>1, <3>2 DEF SlotOwnership, ThrottleTracksCallback, slots
    <2>3. CASE EndOfPass \/ FlushNonBlocking \/ PrepareRead \/ PollFails \/ SelectQueue
      BY <2>3, <2>1, <1>s DEF EndOfPass, FlushNonBlocking, PrepareRead, PollFails, SelectQueue, compositor
    <2>4. CASE ReadNonBlocking
      BY <2>4, <2>1, <2>2, <1>s DEF ReadNonBlocking, compositor
    <2>5. CASE PollReadable
      BY <2>5, <2>2 DEF PollReadable
    <2>6. CASE throttle_done
      BY <2>6, <2>1 DEF throttle_done, SlotOwnership, ThrottleTracksCallback, slots
    <2>7. ASSUME NEW s \in Slots, buffer_release(s) PROVE Good
      <3>1. SlotOwnership'
        BY <2>7 DEF buffer_release, SlotOwnership, TypeOK, SlotsTypeOK, CompositorTypeOK
      <3>2. RenderInvariant'
        BY <2>0, <2>7 DEF buffer_release, RenderInvariant, RenderSteps, control
      <3> QED BY <2>7, <3>1, <3>2 DEF buffer_release, ThrottleTracksCallback
    <2>8. CASE WindowHandler
      <3>1. UNCHANGED <<control, slots, throttle_callback, buf, cb>>
        BY <2>8 DEF WindowHandler, DiscardForDestroyedShell, Handle,
           handle_toplevel_configure, handle_shell_surface_configure, handle_toplevel_close,
           InputEvent, fractional_scale_preferred_scale, registry_global_remove
      <3> QED BY <3>1, <2>1, <1>s
    <2> QED BY <1>2, <2>3, <2>4, <2>5, <2>6, <2>7, <2>8 DEF Dispatch
  <1>3. CASE PollTimeout \/ DeadlinePasses \/ Gone \/ UNCHANGED vars
    BY <1>3, <1>s DEF PollTimeout, DeadlinePasses, Gone, vars, control, window, locals, slots,
       compositor, RenderInvariant, Ended, Physical
  <1>4. ASSUME NEW c \in Calls \cap UpdateCalls, Call(c) PROVE Good
    BY <1>4, <1>s, <1>q DEF Call, compositor, RenderSteps
  <1>5. CASE mfb_close
    BY <1>5, <1>s DEF mfb_close, control, compositor, RenderInvariant, RenderSteps
  <1>6. ASSUME NEW s \in Slots, SendRelease(s) PROVE Good
    <2>1. SlotOwnership' /\ ThrottleTracksCallback'
      BY <1>6 DEF SendRelease, External, SlotOwnership, ThrottleTracksCallback, slots,
         TypeOK, CompositorTypeOK
    <2> QED BY <1>6, <2>1 DEF SendRelease, External, RenderInvariant, Ended, Physical, control,
            window, slots, locals
  <1>7. CASE SendDone \/ Disconnect \/ \E e \in Sendable : SendWindowEvent(e)
    <2>1. SlotOwnership' /\ ThrottleTracksCallback'
      BY <1>7 DEF SendDone, Disconnect, SendWindowEvent, External, SlotOwnership,
         ThrottleTracksCallback, slots
    <2> QED BY <1>7, <2>1 DEF SendDone, Disconnect, SendWindowEvent, External, RenderInvariant,
            Ended, Physical, control, window, slots, locals
  <1> QED BY <1>1, <1>2, <1>3, <1>4, <1>5, <1>6, <1>7 DEF Next

--------------------------------------------------------------------------------
(* The size the application knows, and the life of the window.                     *)

LEMMA ReportStep ==
    /\ TypeOK /\ DispatchInvariant /\ ResizeNeverLost /\ CallInvariant /\ [Next]_vars
    => (ResizeNeverLost /\ CallInvariant)'
  <1> SUFFICES ASSUME TypeOK, DispatchInvariant, ResizeNeverLost, CallInvariant, [Next]_vars
               PROVE  (ResizeNeverLost /\ CallInvariant)'
    OBVIOUS
  <1> DEFINE Good == (ResizeNeverLost /\ CallInvariant)'
  <1>s. UNCHANGED <<alive, must_resize_context, size, reported>> /\ pc' \in {pc, "idle"} => Good
    BY DEF ResizeNeverLost, CallInvariant
  <1>w. window' = window /\ reported' = reported /\ pc # "idle" /\ pc' # "pace" => Good
    BY DEF ResizeNeverLost, CallInvariant, window
  <1>e. Exit => Good
    BY DEF Exit, Return, destroy, ResizeNeverLost, CallInvariant
  <1>f. ASSUME NEW status, Fail(status), UNCHANGED history PROVE Good
    BY <1>f, <1>s DEF Fail, Return, Untouched, window, history
  <1>g. ExitOrFail /\ UNCHANGED history => Good
    BY <1>e, <1>f DEF ExitOrFail
  <1>c. ASSUME NEW step, step # "pace", Goto(step), Untouched, UNCHANGED history, pc # "idle"
        PROVE  Good
    BY <1>c, <1>w DEF Goto, Untouched, history
  <1>p. ASSUME NEW step, step # "pace", AfterPump(step), pc # "idle" PROVE Good
    BY <1>p, <1>c, <1>e, <1>f DEF AfterPump, Continue, Finish
  <1>1. CASE Step
    <2> USE DEF Continue, ContinueWith, Finish
    <2>1. CASE begin_window_call
      BY <2>1, <1>c, <1>e, <1>f DEF begin_window_call
    <2>2. CASE pump_window_events \/ Paced
      BY <2>2, <1>p DEF pump_window_events, Paced
    <2>3. CASE wayland_emit_due_key_repeats
      BY <2>3 DEF wayland_emit_due_key_repeats, Goto, history, ResizeNeverLost, CallInvariant
    <2>4. CASE mfb_wait_sync
      BY <2>4, <1>w DEF mfb_wait_sync, Goto, history
    <2>5. CASE ThrottleCheck
      BY <2>5, <1>c, <1>e DEF ThrottleCheck
    <2>6. CASE ThrottleDrained \/ ThrottlePolled
      BY <2>6, <1>c, <1>g DEF ThrottleDrained, ThrottlePolled
    <2>7. CASE AcquireFirst \/ AcquireDrained \/ AcquirePolled
      BY <2>7, <1>c, <1>g DEF AcquireFirst, AcquireDrained, AcquirePolled
    <2>8. CASE acquire_presentation_slot
      BY <2>8, <1>c, <1>g, <1>w DEF acquire_presentation_slot, TakeSlot, Goto, history
    <2>9. CASE compute_presentation_metrics
      BY <2>9, <1>w DEF compute_presentation_metrics, Goto, history
    <2>10. CASE slot_ensure_buffer
      BY <2>10, <1>w DEF slot_ensure_buffer, Goto, Return, history
    <2>11. CASE present_presentation_buffer
      BY <2>11, <1>w, <1>f DEF present_presentation_buffer, Commit, Goto, Return
    <2>12. CASE emit_pending_resize
      BY <2>12 DEF emit_pending_resize, Goto, Return, ResizeNeverLost, CallInvariant
    <2>13. CASE Pace
      BY <2>13, <1>c, <1>f DEF Pace, Fail
    <2> QED BY <1>1, <2>1, <2>2, <2>3, <2>4, <2>5, <2>6, <2>7, <2>8, <2>9, <2>10, <2>11, <2>12, <2>13
            DEF Step
  <1>2. CASE Dispatch
    <2>1. CASE WindowHandler
      <3>0. UNCHANGED <<pc, alive, reported>> /\ pc # "pace"
        BY <2>1 DEF WindowHandler, Handle, DiscardForDestroyedShell, handle_toplevel_configure,
           handle_shell_surface_configure, handle_toplevel_close, InputEvent,
           fractional_scale_preferred_scale, registry_global_remove, control, window, history,
           WindowStages, DispatchInvariant, QuietSteps
      <3>1. CASE handle_shell_surface_configure
        BY <3>0, <3>1 DEF handle_shell_surface_configure, ResizeNeverLost, CallInvariant
      <3>2. CASE ~handle_shell_surface_configure
        BY <2>1, <3>0, <3>2, <1>s DEF WindowHandler, DiscardForDestroyedShell,
           handle_toplevel_configure, handle_toplevel_close, InputEvent,
           fractional_scale_preferred_scale, registry_global_remove, window
      <3> QED BY <3>1, <3>2
    <2>2. CASE ~WindowHandler
      BY <1>2, <2>2, <1>s DEF Dispatch, EndOfPass, ReadNonBlocking, FlushNonBlocking, PrepareRead,
         PollReadable, PollFails, SelectQueue, throttle_done, buffer_release, control, window, history
    <2> QED BY <2>1, <2>2
  <1>3. CASE PollTimeout \/ DeadlinePasses \/ Gone \/ UNCHANGED vars
    BY <1>3, <1>s DEF PollTimeout, DeadlinePasses, Gone, vars, control, window, history
  <1>4. ASSUME NEW c \in Calls \cap UpdateCalls, Call(c) PROVE Good
    BY <1>4 DEF Call, window, history, ResizeNeverLost, CallInvariant
  <1>5. CASE mfb_close
    BY <1>5, <1>s DEF mfb_close, control, history
  <1>6. CASE SendDone \/ Disconnect \/ (\E e \in Sendable : SendWindowEvent(e))
             \/ \E s \in Slots : SendRelease(s)
    BY <1>6, <1>s DEF SendDone, Disconnect, SendWindowEvent, SendRelease, External, control,
       window, history
  <1> QED BY <1>1, <1>2, <1>3, <1>4, <1>5, <1>6 DEF Next

--------------------------------------------------------------------------------
(* The inductive invariant.                                                        *)

LEMMA InvariantInit == Init => Invariant
  <1> SUFFICES ASSUME Init PROVE Invariant
    OBVIOUS
  <1>1. TypeOK
    BY TypeInit
  <1>2. SlotOwnership /\ ThrottleTracksCallback /\ ResizeNeverLost
    BY DEF Init, SlotOwnership, ThrottleTracksCallback, ResizeNeverLost
  <1>3. DispatchInvariant /\ RenderInvariant /\ CallInvariant
    BY DEF Init, DispatchInvariant, RenderInvariant, CallInvariant, QuietSteps, RenderSteps,
       DrainStages, PollStages, WindowPending
  <1> QED BY <1>1, <1>2, <1>3 DEF Invariant

LEMMA InvariantStep == Invariant /\ [Next]_vars => Invariant'
  BY TypeStep, DispatchStep, SlotsStep, ReportStep DEF Invariant

\* Every reachable state of the update path satisfies the strengthened invariant:
\* which routine dispatches at which step of a call, what is known to be drained
\* there, and who owns the slot a call is about to present.
THEOREM Inductive == Spec => []Invariant
  BY InvariantInit, InvariantStep, PTL DEF Spec

\* A slot is busy exactly as long as the compositor has its buffer or the release
\* has not been dispatched: buffer_release, acquire_presentation_slot and
\* present_presentation_buffer never disagree about who owns it.
THEOREM SlotsAreOwned == Spec => []SlotOwnership
  BY Inductive, PTL DEF Invariant

\* throttle_callback is set exactly while a frame callback is outstanding.
THEOREM ThrottleIsOutstanding == Spec => []ThrottleTracksCallback
  BY Inductive, PTL DEF Invariant

\* No size change is ever lost to the application: what emit_pending_resize has
\* not told it is flagged in must_resize_context.
THEOREM ResizesAreReported == Spec => []ResizeNeverLost
  BY Inductive, PTL DEF Invariant

\* present_presentation_buffer is never entered over an outstanding callback.
THEOREM OneCallback == Spec => []NeverPresentsOverCallback
  <1>1. Invariant => NeverPresentsOverCallback
    BY DEF Invariant, RenderInvariant, RenderSteps, NeverPresentsOverCallback
  <1> QED BY <1>1, Inductive, PTL

\* No call sleeps in poll over a window event it has already received.
THEOREM WindowEventsAreServed == Spec => []WindowEventsNeverWait
  <1>1. Invariant => WindowEventsNeverWait
    BY DEF Invariant, DispatchInvariant, WindowEventsNeverWait
  <1> QED BY <1>1, Inductive, PTL

--------------------------------------------------------------------------------
(* What the step that hands a frame over guarantees.                               *)

\* Only the commit of present_presentation_buffer gives a buffer to the compositor.
LEMMA OnlyCommitHandsOver ==
    ASSUME TypeOK, [Next]_vars, NEW s \in Slots, HandsOver(s)
    PROVE  /\ pc = "present" /\ ~Refused
           /\ buf' = [buf EXCEPT ![active_slot] = "held"]
           /\ UNCHANGED window
  <1> USE DEF HandsOver
  <1>1. CASE Step
    <2>1. Exit => FALSE
      BY DEF Exit, destroy
    <2>2. buf' = buf => FALSE
      OBVIOUS
    <2>3. present_presentation_buffer
      BY <1>1, <2>1, <2>2 DEF Step, begin_window_call, pump_window_events, Paced, AfterPump,
         wayland_emit_due_key_repeats, mfb_wait_sync, ThrottleCheck, ThrottleDrained,
         ThrottlePolled, AcquireFirst, acquire_presentation_slot, TakeSlot, AcquireDrained,
         AcquirePolled, compute_presentation_metrics, slot_ensure_buffer, emit_pending_resize,
         Pace, ExitOrFail, Fail, Continue, ContinueWith, Untouched, compositor
    <2> QED BY <2>2, <2>3 DEF present_presentation_buffer, Commit, Fail, Untouched, compositor
  <1>2. CASE Dispatch
    <2>1. buf' = buf \/ wl_display_read_events \/ \E r \in Slots : buffer_release(r)
      BY <1>2 DEF Dispatch, EndOfPass, ReadNonBlocking, FlushNonBlocking, PrepareRead, PollReadable,
         PollFails, SelectQueue, throttle_done, WindowHandler, Handle,
         DiscardForDestroyedShell, handle_toplevel_configure, handle_shell_surface_configure,
         handle_toplevel_close, InputEvent, fractional_scale_preferred_scale,
         registry_global_remove, compositor
    <2> QED BY <2>1 DEF wl_display_read_events, buffer_release, compositor, TypeOK, CompositorTypeOK
  <1>3. CASE \E r \in Slots : SendRelease(r)
    BY <1>3 DEF SendRelease
  <1>4. CASE \/ PollTimeout \/ DeadlinePasses \/ Gone \/ UNCHANGED vars \/ mfb_close
             \/ SendDone \/ Disconnect \/ (\E e \in Sendable : SendWindowEvent(e))
             \/ \E c \in Calls \cap UpdateCalls : Call(c)
    BY <1>4 DEF PollTimeout, DeadlinePasses, Gone, vars, mfb_close, SendDone, Disconnect,
       SendWindowEvent, Call, compositor
  <1> QED BY <1>1, <1>2, <1>3, <1>4 DEF Next

LEMMA HandedOver ==
    ASSUME Invariant, [Next]_vars, NEW s \in Slots, HandsOver(s)
    PROVE  /\ buf[s] = "free"
           /\ metrics.size = size /\ metrics.scale = scale /\ dims[s] = size * scale
           /\ ~close /\ ~backend_unusable
           /\ UNCHANGED window
  <1>1. pc = "present" /\ s = active_slot /\ UNCHANGED window
    BY OnlyCommitHandsOver DEF HandsOver, Invariant, TypeOK, CompositorTypeOK, SlotsTypeOK
  <1> QED BY <1>1 DEF Invariant, RenderInvariant, RenderSteps, SlotOwnership, Physical, Ended

\* Every frame is committed in a buffer the compositor had returned, of exactly the
\* size of the image in it, measured on the window as it is at the commit.
THEOREM EveryFrameIsCurrent == Spec => FramesAreCurrent
  <1>1. Invariant /\ [Next]_vars =>
            [\A s \in Slots : HandsOver(s) =>
                /\ buf[s] = "free"
                /\ metrics.size = size /\ metrics.scale = scale
                /\ dims[s] = size * scale]_vars
    BY HandedOver
  <1> QED BY <1>1, Inductive, PTL DEF Spec, FramesAreCurrent

\* mfb_update_ex commits nothing once the window is closing or has lost a global.
THEOREM NothingAfterTheEnd == Spec => NoFrameAfterEnd
  <1>1. Invariant /\ [Next]_vars =>
            [\A s \in Slots : HandsOver(s) => ~close /\ ~backend_unusable]_vars
    BY HandedOver
  <1> QED BY <1>1, Inductive, PTL DEF Spec, NoFrameAfterEnd

--------------------------------------------------------------------------------
(* The refinement: every step of the backend is a step of the contract or leaves   *)
(* what the application sees unchanged.                                            *)

LEMMA ContractInit == Init => Contract!Init
  BY DEF Init, NoSize, Contract!Init

LEMMA ContractStep == Invariant /\ [Next]_vars => [Contract!Next]_Contract!vars
  <1> SUFFICES ASSUME Invariant, [Next]_vars PROVE [Contract!Next]_Contract!vars
    OBVIOUS
  <1> DEFINE Kept == [Contract!Next]_Contract!vars
  <1> USE DEF Contract!vars, Contract!Next
  <1>t. /\ close \in BOOLEAN /\ alive \in BOOLEAN /\ size \in Sizes
        /\ pc # "idle" => alive
        /\ alive /\ ~must_resize_context => reported = size
    BY DEF Invariant, TypeOK, WindowTypeOK, CallInvariant, ResizeNeverLost
  \* Steps the application cannot see.
  <1>s. UNCHANGED <<alive, close, ret, size, history>> /\ (pc' = "idle" <=> pc = "idle") => Kept
    BY DEF history
  <1>w. /\ UNCHANGED <<window, history>>
        /\ \E step : Goto(step) /\ step # "idle"
        /\ pc # "idle"
        => Kept
    BY <1>s DEF window, Goto
  <1>c. \A step : Goto(step) /\ Untouched /\ UNCHANGED history /\ pc # "idle" /\ step # "idle" => Kept
    BY <1>w DEF Untouched
  \* The returns.
  <1>e. Exit /\ close /\ pc # "idle" /\ UNCHANGED history => Kept
    BY <1>t DEF Exit, Return, destroy, history, Contract!ReturnExit
  <1>f. ASSUME NEW status \in {"INVALID_BUFFER", "INTERNAL_ERROR"}, Fail(status), pc # "idle",
               UNCHANGED history
        PROVE  Kept
    <2>1. Contract!ReturnError
      BY <1>f, <1>t DEF Fail, Return, Untouched, window, history, Contract!ReturnError
    <2> QED BY <2>1
  <1>g. ExitOrFail /\ pc # "idle" /\ UNCHANGED history => Kept
    BY <1>e, <1>f DEF ExitOrFail
  <1>p. ASSUME NEW step, step # "idle", AfterPump(step), pc # "idle" PROVE Kept
    BY <1>p, <1>c, <1>e, <1>f DEF AfterPump, Continue, Finish
  <1>1. CASE Step
    <2> USE DEF Continue, ContinueWith, Finish
    <2>1. CASE begin_window_call
      BY <2>1, <1>c, <1>e, <1>f DEF begin_window_call
    <2>2. CASE pump_window_events \/ Paced
      BY <2>2, <1>p DEF pump_window_events, Paced
    <2>3. CASE wayland_emit_due_key_repeats
      BY <2>3, <1>t DEF wayland_emit_due_key_repeats, Goto, history, Contract!RequestClose
    <2>4. CASE mfb_wait_sync
      BY <2>4, <1>w DEF mfb_wait_sync, Goto
    <2>5. CASE ThrottleCheck
      BY <2>5, <1>c, <1>e DEF ThrottleCheck
    <2>6. CASE ThrottleDrained \/ ThrottlePolled
      BY <2>6, <1>c, <1>g DEF ThrottleDrained, ThrottlePolled
    <2>7. CASE AcquireFirst \/ AcquireDrained \/ AcquirePolled
      BY <2>7, <1>c, <1>g DEF AcquireFirst, AcquireDrained, AcquirePolled
    <2>8. CASE acquire_presentation_slot
      BY <2>8, <1>c, <1>g, <1>w DEF acquire_presentation_slot, TakeSlot
    <2>9. CASE compute_presentation_metrics
      BY <2>9, <1>w DEF compute_presentation_metrics
    <2>10. CASE slot_ensure_buffer
      BY <2>10, <1>w, <1>t DEF slot_ensure_buffer, Return, window, history, Contract!ReturnError
    <2>11. CASE present_presentation_buffer
      <3>1. pc = "present" /\ metrics.size = size /\ ~close
        BY <2>11 DEF present_presentation_buffer, Invariant, RenderInvariant, RenderSteps, Ended
      <3>2. ASSUME NEW throttled, Commit(throttled), Goto("emit") PROVE Kept
        BY <3>1, <3>2, <1>t DEF Commit, Goto, window, Contract!Show
      <3>3. ASSUME NEW throttled, Commit(throttled), Return("INTERNAL_ERROR") PROVE Kept
        BY <3>1, <3>3, <1>t DEF Commit, Return, window, Contract!ReturnError
      <3> QED BY <2>11, <3>1, <3>2, <3>3, <1>f DEF present_presentation_buffer
    <2>12. CASE emit_pending_resize
      <3>1. CASE Return("OK")
        BY <2>12, <3>1, <1>t DEF emit_pending_resize, Return, Contract!ReturnOK
      <3>2. CASE Goto("pace")
        BY <2>12, <3>2, <1>t DEF emit_pending_resize, Goto, Contract!Report
      <3> QED BY <2>12, <3>1, <3>2 DEF emit_pending_resize
    <2>13. CASE Pace
      <3>1. CASE Return("OK") /\ Untouched /\ UNCHANGED history
        BY <2>13, <3>1, <1>t
           DEF Pace, Return, Untouched, window, history, Contract!ReturnOK, Invariant, CallInvariant
      <3> QED BY <2>13, <3>1, <1>c DEF Pace
    <2> QED BY <1>1, <2>1, <2>2, <2>3, <2>4, <2>5, <2>6, <2>7, <2>8, <2>9, <2>10, <2>11, <2>12, <2>13
            DEF Step
  <1>2. CASE Dispatch
    <2>1. CASE WindowHandler
      <3>0. UNCHANGED <<control, alive, history>> /\ pc # "idle"
        BY <2>1 DEF WindowHandler, Handle, DiscardForDestroyedShell, handle_toplevel_configure,
           handle_shell_surface_configure, handle_toplevel_close, InputEvent,
           fractional_scale_preferred_scale, registry_global_remove, window, history,
           WindowStages, Invariant, DispatchInvariant, QuietSteps
      <3>1. CASE handle_shell_surface_configure
        BY <3>0, <3>1, <1>t DEF handle_shell_surface_configure, control, history, Contract!Resize,
           Invariant, TypeOK, WindowTypeOK
      <3>2. CASE handle_toplevel_close \/ InputEvent
        BY <3>0, <3>2, <1>t DEF handle_toplevel_close, InputEvent, control, history,
           Contract!RequestClose
      <3>3. CASE handle_toplevel_configure \/ fractional_scale_preferred_scale
                 \/ registry_global_remove \/ DiscardForDestroyedShell
        BY <3>0, <3>3, <1>s DEF handle_toplevel_configure, fractional_scale_preferred_scale,
           registry_global_remove, DiscardForDestroyedShell, control, window
      <3> QED BY <2>1, <3>1, <3>2, <3>3 DEF WindowHandler
    <2>2. CASE ~WindowHandler
      BY <1>2, <2>2, <1>s DEF Dispatch, EndOfPass, ReadNonBlocking, FlushNonBlocking, PrepareRead,
         PollReadable, PollFails, SelectQueue, throttle_done, buffer_release, control, window
    <2> QED BY <2>1, <2>2
  <1>3. CASE \/ PollTimeout \/ DeadlinePasses \/ Gone \/ UNCHANGED vars
             \/ SendDone \/ Disconnect \/ (\E e \in Sendable : SendWindowEvent(e))
             \/ \E s \in Slots : SendRelease(s)
    BY <1>3, <1>s DEF PollTimeout, DeadlinePasses, Gone, vars, control, window, SendDone,
       Disconnect, SendWindowEvent, SendRelease, External
  <1>4. ASSUME NEW c \in Calls \cap UpdateCalls, Call(c) PROVE Kept
    BY <1>4 DEF Call, window, history, Contract!Call
  <1>5. CASE mfb_close
    BY <1>5 DEF mfb_close, control, history, Contract!RequestClose
  <1> QED BY <1>1, <1>2, <1>3, <1>4, <1>5 DEF Next

\* The Wayland backend keeps the contract of the public interface: a window goes
\* only through a close, inside a call that answers EXIT; nothing is shown once the
\* close was asked for; and a call that answers OK has reported the window's size.
THEOREM Refinement == Spec => ImplementsContract
  <1> QED BY ContractInit, ContractStep, Inductive, PTL DEF Spec, ImplementsContract, Contract!Spec
================================================================================
