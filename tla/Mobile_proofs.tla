----------------------------- MODULE Mobile_proofs -----------------------------
(* Android with any mouse, fingers and sizes, any lengths of the looper's two queues *)
(* and any number of inputs; the Metal frames of iOS and macOS with any sizes and    *)
(* any number of calls; and the timer with any rates and delays: what is written to  *)
(* the surface and to a texture, what an end leaves behind, the pace, the contract   *)
(* of the public interface, and what becomes of the pointers of Android. First       *)
(* Android, then Metal, then the timer, then the pointers, then the three as the run *)
(* sees them.                                                                        *)
EXTENDS MCMobile, EventQueues

--------------------------------------------------------------------------------
\* Android.

\* What is assumed of the constants: a size is positive, as 0 is no surface.
Parameters == FirstSize \in Sizes /\ Sizes \subseteq Nat \ {0}

\* Of what the application was told only the size matters here.
ToldOK == "size" \in DOMAIN told /\ told.size \in Sizes

AndroidTypesOK ==
    /\ surface \in Sizes \cup {0} /\ window_size \in Sizes \cup {0}
    /\ dst \in (Sizes \cup {0}) \X (Sizes \cup {0})
    /\ window \in BOOLEAN /\ destroyRequested \in BOOLEAN /\ close \in BOOLEAN
    /\ pc \in {"opening", "failed", "idle", "called", "poll", "gone"}

\* The application was told the size a window that has one has, and one that opens has the
\* size of the surface.
SizeIsTold ==
    /\ window_size # 0 => told.size = window_size
    /\ pc = "opening" => window_size = 0 /\ (window => surface = told.size)

\* A destroyed activity is never left open.
DestroyedIsClosing == destroyRequested => close

AndroidIInv == ToldOK /\ AndroidTypesOK /\ SizeIsTold /\ DestroyedIsClosing /\ A!DrawFits /\ A!NothingLeaks

--------------------------------------------------------------------------------
\* The system changes its surface, fills the queues and leaves the rest alone.
LEMMA SystemKeeps ==
    ASSUME AndroidTypesOK, A!System
    PROVE  /\ surface' \in Sizes \cup {0} /\ pc \notin {"opening", "failed", "gone"}
           /\ UNCHANGED <<A!app, A!pointing, A!data, told, A!program>>
<1> DEFINE Kept == surface' \in Sizes \cup {0} /\ pc \notin {"opening", "failed", "gone"}
<1>0. UNCHANGED <<A!app, A!pointing, A!data, told, A!program>>
  BY DEF A!System
<1>t. surface \in Sizes \cup {0}
  BY DEF AndroidTypesOK
<1>1. ASSUME NEW from, NEW to, NEW s \in Sizes \cup {0}, NEW seq, A!Life(from, to, s, seq) PROVE Kept
  BY <1>1 DEF A!Life, A!Allows
<1>2. ASSUME A!Pause \/ A!LowerShutter \/ A!RaiseShutter \/ A!Rotate \/ A!Close PROVE Kept
  BY <1>1, <1>2, <1>t DEF A!Pause, A!LowerShutter, A!RaiseShutter, A!Rotate, A!Close
<1>3. ASSUME A!Resume PROVE Kept
  BY <1>1, <1>3 DEF A!Resume
<1>4. ASSUME NEW s \in Sizes, A!Resize(s) PROVE Kept
  BY <1>4 DEF A!Resize, A!Allows
<1>5. ASSUME NEW seq, A!Feed(seq), A!Allows("hover") \/ A!Allows("touch") PROVE Kept
  BY <1>5, <1>t DEF A!Feed, A!Allows
<1>6. ASSUME NEW p, A!Hover(p) \/ A!Drag(p) PROVE Kept
  BY <1>5, <1>6 DEF A!Hover, A!Drag
<1>7. ASSUME A!BeginPress \/ A!Slide \/ A!Cancel PROVE Kept
  BY <1>5, <1>7 DEF A!BeginPress, A!Slide, A!Cancel
<1>8. ASSUME NEW b, A!Press(b) \/ A!Release(b) \/ A!Touch(b) \/ A!Lift(b) \/ A!Explore(b) PROVE Kept
  BY <1>5, <1>8 DEF A!Press, A!Release, A!Touch, A!Lift, A!Explore
<1> QED BY <1>0, <1>2, <1>3, <1>4, <1>6, <1>7, <1>8 DEF A!System

\* The input handler tells buttons and the pointer, never a size.
LEMMA InputKeeps ==
    ASSUME ToldOK, NEW e, A!handle_input(e)
    PROVE  ToldOK' /\ told'.size = told.size
<1> USE DEF ToldOK
<1>1. ASSUME NEW pressed, A!TellButtons(pressed) PROVE ToldOK' /\ told'.size = told.size
  BY <1>1 DEF A!TellButtons
<1>2. ASSUME NEW ids, A!apply_mouse_button_state(ids) \/ A!Pressed(ids) \/ A!Released(ids)
      PROVE  ToldOK' /\ told'.size = told.size
  BY <1>1, <1>2 DEF A!apply_mouse_button_state, A!Pressed, A!Released
<1>3. CASE UNCHANGED told
  BY <1>3
<1>4. CASE A!OnDown(e) \/ A!OnUp(e) \/ A!OnButton(e) \/ A!OnCancel(e)
  BY <1>2, <1>4 DEF A!OnDown, A!OnUp, A!OnButton, A!OnCancel
<1>5. CASE A!OnMove(e)
  BY <1>5 DEF A!OnMove
<1>6. CASE A!OnHover(e)
  BY <1>6 DEF A!OnHover
<1> QED BY <1>3, <1>4, <1>5, <1>6 DEF A!handle_input

--------------------------------------------------------------------------------
\* A command of the activity brings or takes the surface, or tells its new size, or closes.
LEMMA CommandKeeps ==
    ASSUME Parameters, AndroidIInv, A!TakeCommand
    PROVE  /\ AndroidIInv' /\ pc = "poll" /\ UNCHANGED <<pc, result, drawn>>
           /\ close' = close \/ close' = TRUE
           /\ UNCHANGED <<window_size, told>> \/ close' = close
<1> DEFINE c == Head(commands)
<1> USE DEF AndroidIInv
<1>1. /\ pc = "poll" /\ A!handle_cmd(c)
      /\ UNCHANGED <<dst, userData, held>> /\ UNCHANGED <<pc, result, drawn>>
  BY DEF A!TakeCommand, A!Polling, A!handle_cmd
<1>2. surface' \in {surface, 0} /\ window' \in BOOLEAN
  BY <1>1 DEF A!handle_cmd, AndroidTypesOK
<1>3. /\ destroyRequested' \in BOOLEAN /\ close' \in BOOLEAN
      /\ close' = close \/ close' = TRUE
      /\ destroyRequested' => close'
      /\ c.type # "DESTROY" => close' = close
  <2>1. /\ destroyRequested' = (destroyRequested \/ c.type = "DESTROY")
        /\ close' = (close \/ c.type = "DESTROY")
    BY <1>1 DEF A!handle_cmd
  <2>2. CASE c.type = "DESTROY"
    BY <2>1, <2>2
  <2>3. CASE c.type # "DESTROY"
    BY <2>1, <2>3 DEF AndroidTypesOK, DestroyedIsClosing
  <2> QED BY <2>2, <2>3
<1>4. \/ UNCHANGED <<window_size, told>>
      \/ /\ c.type = "CONTENT_RECT_CHANGED" /\ surface \in Sizes
         /\ window_size' = surface /\ told' = [told EXCEPT !.size = surface]
  BY <1>1 DEF A!handle_cmd, AndroidTypesOK
<1>5. ToldOK' /\ window_size' \in Sizes \cup {0} /\ (window_size' # 0 => told'.size = window_size')
  BY <1>4 DEF ToldOK, AndroidTypesOK, SizeIsTold
<1>6. AndroidTypesOK' /\ SizeIsTold' /\ DestroyedIsClosing'
  BY <1>1, <1>2, <1>3, <1>5 DEF AndroidTypesOK, SizeIsTold, DestroyedIsClosing
<1>7. A!DrawFits' /\ A!NothingLeaks'
  BY <1>1 DEF A!DrawFits, A!NothingLeaks
<1> QED BY <1>1, <1>3, <1>4, <1>5, <1>6, <1>7

LEMMA OpeningKeeps ==
    ASSUME Parameters, AndroidIInv, A!mfb_open_ex
    PROVE  /\ AndroidIInv' /\ pc = "opening" /\ pc' \in {"opening", "failed", "idle"}
           /\ UNCHANGED <<close, told, result, drawn>>
<1> USE DEF AndroidIInv
<1>1. /\ pc = "opening"
      /\ UNCHANGED <<surface, window, destroyRequested, close, told, result, drawn>>
  BY DEF A!mfb_open_ex, A!system
<1>2. \/ pc' = "opening" /\ UNCHANGED <<window_size, dst>>
      \/ pc' = "failed" /\ held' = {} /\ userData' = FALSE /\ UNCHANGED <<window_size, dst>>
      \/ /\ pc' = "idle"
         /\ window_size' = (IF window THEN surface ELSE 0)
         /\ dst' = <<0, IF window THEN surface ELSE FirstSize>>
  BY <1>1 DEF A!mfb_open_ex, A!destroy_window_data
<1>3. ToldOK' /\ DestroyedIsClosing' /\ A!DrawFits'
  BY <1>1 DEF ToldOK, DestroyedIsClosing, A!DrawFits
<1>4. AndroidTypesOK'
  BY <1>1, <1>2 DEF AndroidTypesOK, Parameters
<1>5. SizeIsTold' /\ A!NothingLeaks'
  BY <1>1, <1>2 DEF SizeIsTold, A!NothingLeaks
<1> QED BY <1>1, <1>2, <1>3, <1>4, <1>5

\* What is drawn ends within the surface there is.
LEMMA DrawKeeps ==
    ASSUME Parameters, AndroidTypesOK, A!DrawFits, A!draw
    PROVE  A!DrawFits' /\ (drawn' = drawn \/ drawn'.window = A!Size)
<1>1. dst[1] \in Nat /\ dst[2] \in Nat /\ surface \in Nat
  <2>1. dst[1] \in Sizes \cup {0} /\ dst[2] \in Sizes \cup {0} /\ surface \in Sizes \cup {0}
    BY DEF AndroidTypesOK
  <2>2. Sizes \cup {0} \subseteq Nat
    BY DEF Parameters
  <2> QED BY <2>1, <2>2
<1>2. CASE dst[1] >= surface
  BY <1>2 DEF A!draw, A!DrawFits
<1>3. CASE dst[1] < surface
  <2>1. drawn' = [end |-> dst[1] + A!Minimum(dst[2], surface - dst[1]), surface |-> surface, window |-> A!Size]
    BY <1>1, <1>3 DEF A!draw
  <2>2. A!Minimum(dst[2], surface - dst[1]) \in Int /\ A!Minimum(dst[2], surface - dst[1]) <= surface - dst[1]
    BY <1>1, <1>3 DEF A!Minimum
  <2> QED BY <1>1, <2>1, <2>2 DEF A!DrawFits
<1> QED BY <1>1, <1>2, <1>3

\* What every call and poll leaves alone.
Settled == UNCHANGED <<surface, window, destroyRequested, window_size, dst, close>>

\* An update ends the window, refuses its buffer, does nothing without a surface, or draws.
LEMMA UpdateKeeps ==
    ASSUME Parameters, AndroidIInv, NEW b \in {0, FirstSize}, A!mfb_update_ex(b)
    PROVE  /\ AndroidIInv' /\ pc = "called" /\ UNCHANGED <<window_size, close, told>>
           /\ \/ close /\ pc' = "gone" /\ result' = "EXIT" /\ drawn' = drawn
              \/ pc' = "idle" /\ result' \in {"OK", "INVALID_BUFFER", "INTERNAL_ERROR"} /\ drawn' = drawn
              \/ ~close /\ pc' = "poll" /\ result' = result /\ (drawn' = drawn \/ drawn'.window = A!Size)
<1> USE DEF AndroidIInv
<1>1. pc = "called" /\ Settled /\ told' = told
  BY DEF A!mfb_update_ex, Settled, A!system
<1>2. \/ close /\ pc' = "gone" /\ result' = "EXIT" /\ drawn' = drawn /\ held' = {} /\ userData' = FALSE
      \/ pc' = "idle" /\ result' \in {"OK", "INVALID_BUFFER", "INTERNAL_ERROR"} /\ drawn' = drawn
      \/ ~close /\ pc' = "poll" /\ result' = result /\ A!draw
  BY DEF A!mfb_update_ex, A!End, A!Return, A!Fail, A!Poll, A!destroy_window_data
<1>3. ToldOK' /\ AndroidTypesOK' /\ SizeIsTold' /\ DestroyedIsClosing' /\ A!NothingLeaks'
  BY <1>1, <1>2 DEF Settled, ToldOK, AndroidTypesOK, SizeIsTold, DestroyedIsClosing, A!NothingLeaks
<1>4. A!DrawFits'
  BY <1>2, DrawKeeps DEF A!DrawFits
<1> QED BY <1>1, <1>2, <1>3, <1>4, DrawKeeps DEF Settled

\* A pump ends the window, goes on, or answers.
LEMMA PumpKeeps ==
    ASSUME AndroidIInv, A!Pump \/ A!FrameDue \/ A!FrameNotDue \/ A!PollEnds \/ A!Destroyed \/ A!LooperFails
    PROVE  /\ AndroidIInv' /\ pc \in {"called", "poll"} /\ UNCHANGED <<window_size, close, drawn>>
           /\ told'.size = told.size
           /\ \/ close /\ pc' = "gone" /\ result' = "EXIT"
              \/ pc' = "poll" /\ result' = result
              \/ pc' = "idle" /\ result' \in {"OK", "INTERNAL_ERROR"}
<1> USE DEF AndroidIInv
<1>1. pc \in {"called", "poll"} /\ Settled /\ drawn' = drawn
  BY DEF A!Pump, A!FrameDue, A!FrameNotDue, A!PollEnds, A!Destroyed, A!LooperFails, A!Drained, A!Polling, Settled, A!system,
         A!End, A!Poll
<1>2. told' = told \/ told' = [told EXCEPT !.inside = is_mouse_inside']
  BY DEF A!Pump, A!FrameDue, A!FrameNotDue, A!PollEnds, A!Destroyed, A!LooperFails, A!Drained, A!flush_pending_hover_exit
<1>3. ToldOK' /\ told'.size = told.size
  BY <1>2 DEF ToldOK
<1>4. \/ close /\ pc' = "gone" /\ result' = "EXIT" /\ held' = {} /\ userData' = FALSE
      \/ pc' = "poll" /\ result' = result
      \/ pc' = "idle" /\ result' \in {"OK", "INTERNAL_ERROR"}
  BY DEF A!Pump, A!FrameDue, A!FrameNotDue, A!PollEnds, A!Destroyed, A!LooperFails, A!End, A!Poll, A!Return, A!Fail,
         A!destroy_window_data, DestroyedIsClosing
<1>5. AndroidTypesOK' /\ SizeIsTold' /\ DestroyedIsClosing' /\ A!DrawFits' /\ A!NothingLeaks'
  BY <1>1, <1>3, <1>4 DEF Settled, AndroidTypesOK, SizeIsTold, DestroyedIsClosing, A!DrawFits, A!NothingLeaks
<1> QED BY <1>1, <1>3, <1>4, <1>5 DEF Settled

\* The other calls of the application.
LEMMA CallsKeep ==
    ASSUME AndroidIInv, A!Application
    PROVE  /\ AndroidIInv' /\ UNCHANGED <<window_size, told, result, drawn>>
           /\ \/ pc = "idle" /\ pc' = "called" /\ close' = close
              \/ pc' = pc /\ (close' = close \/ (close' = TRUE /\ pc \in {"idle", "poll"}))
<1> USE DEF AndroidIInv
<1> DEFINE Rest == UNCHANGED <<surface, window, destroyRequested, window_size, told, result, drawn,
                              held, userData>>
<1>1. /\ Rest
      /\ dst' \in (Sizes \cup {0}) \X (Sizes \cup {0})
      /\ \/ pc = "idle" /\ pc' = "called" /\ close' = close
         \/ pc' = pc /\ (close' = close \/ (close' = TRUE /\ pc \in {"idle", "poll"}))
  <2>1. ASSUME NEW c, A!Call(c) PROVE Rest /\ dst' = dst /\ pc = "idle" /\ pc' = "called" /\ close' = close
    BY <2>1 DEF A!Call, A!system, A!app, A!data
  <2>2. ASSUME A!mfb_close
        PROVE  Rest /\ dst' = dst /\ pc' = pc /\ close' = TRUE /\ pc \in {"idle", "poll"}
    BY <2>2 DEF A!mfb_close, A!system, A!app, A!program
  <2>3. ASSUME NEW x \in Sizes \cup {0}, NEW t \in Sizes, A!mfb_set_viewport(x, t)
        PROVE  Rest /\ dst' = <<x, t>> /\ pc' = pc /\ close' = close
    BY <2>3 DEF A!mfb_set_viewport, A!system, A!app, A!program
  <2>4. dst \in (Sizes \cup {0}) \X (Sizes \cup {0})
    BY DEF AndroidTypesOK
  <2>5. \A x \in Sizes \cup {0}, t \in Sizes : <<x, t>> \in (Sizes \cup {0}) \X (Sizes \cup {0})
    OBVIOUS
  <2>6. CASE A!mfb_close
    BY <2>2, <2>4, <2>6
  <2>7. CASE \E c \in {"update_ex", "update_events", "wait_sync"} : A!Call(c)
    BY <2>1, <2>4, <2>7
  <2>8. CASE \E x \in Sizes \cup {0}, t \in Sizes : A!mfb_set_viewport(x, t)
    BY <2>3, <2>5, <2>8
  <2> QED BY <2>6, <2>7, <2>8 DEF A!Application
<1>2. ToldOK' /\ SizeIsTold' /\ A!DrawFits' /\ A!NothingLeaks'
  BY <1>1 DEF ToldOK, SizeIsTold, A!DrawFits, A!NothingLeaks
<1>3. AndroidTypesOK'
  BY <1>1 DEF AndroidTypesOK
<1>4. DestroyedIsClosing'
  <2>1. (destroyRequested' <=> destroyRequested) /\ (close => close')
    BY <1>1
  <2> QED BY <2>1, Zenon DEF DestroyedIsClosing
<1> QED BY <1>1, <1>2, <1>3, <1>4

--------------------------------------------------------------------------------
LEMMA AndroidInitHolds == Parameters /\ A!Init => AndroidIInv
<1> SUFFICES ASSUME Parameters, A!Init PROVE AndroidIInv
  OBVIOUS
<1>1. ToldOK
  <2>1. told = [size |-> IF window THEN surface ELSE FirstSize, inside |-> FALSE, buttons |-> {}]
    BY DEF A!Init
  <2>2. window => surface \in Sizes
    <3>1. surface \in Sizes \cup {0} /\ window = (surface > 0)
      BY DEF A!Init
    <3>2. surface \in Int
      BY <3>1 DEF Parameters
    <3>3. window => surface > 0
      BY <3>1, Zenon
    <3> QED BY <3>1, <3>2, <3>3
  <2>3. (IF window THEN surface ELSE FirstSize) \in Sizes
    BY <2>2 DEF Parameters
  <2> QED BY <2>1, <2>3 DEF ToldOK
<1>2. /\ surface \in Sizes \cup {0} /\ window = (surface > 0) /\ window_size = 0 /\ dst = <<0, 0>>
      /\ destroyRequested = FALSE /\ close = FALSE /\ pc = "opening"
      /\ window => told.size = surface
      /\ drawn.end = 0 /\ drawn.surface = 0
  BY DEF A!Init
<1>3. AndroidTypesOK
  <2>1. dst \in (Sizes \cup {0}) \X (Sizes \cup {0})
    BY <1>2
  <2>2. window \in BOOLEAN
    BY <1>2
  <2> QED BY <1>2, <2>1, <2>2 DEF AndroidTypesOK
<1>4. SizeIsTold /\ DestroyedIsClosing /\ A!DrawFits /\ A!NothingLeaks
  BY <1>2 DEF SizeIsTold, DestroyedIsClosing, A!DrawFits, A!NothingLeaks
<1> QED BY <1>1, <1>3, <1>4 DEF AndroidIInv

\* The inductive step, and what the contract sees of it.
LEMMA AndroidStepKeeps ==
    ASSUME Parameters, AndroidIInv, [A!Next]_A!vars
    PROVE  AndroidIInv' /\ [A!Contract!Next]_A!Contract!vars
<1> DEFINE Kept == [A!Contract!Next]_A!Contract!vars
<1> USE DEF A!Contract!vars, A!Contract!Next
<1>t. /\ close \in BOOLEAN /\ told.size \in Sizes /\ A!Size = told.size
      /\ AndroidIInv' => A!Size' = told'.size /\ told'.size \in Sizes
  BY DEF AndroidIInv, ToldOK, AndroidTypesOK, SizeIsTold, A!Size
\* Steps the application cannot see, or by which the close is asked for.
<1>s. ASSUME UNCHANGED <<result, drawn>>, told'.size = told.size, AndroidIInv',
             pc' = "gone" <=> pc = "gone",
             pc' \in {"called", "poll"} <=> pc \in {"called", "poll"},
             close' = close \/ (close' = TRUE /\ pc # "gone")
      PROVE  Kept
  BY <1>s, <1>t DEF A!Contract!RequestClose
\* The end.
<1>e. ASSUME close, pc \in {"called", "poll"}, pc' = "gone", result' = "EXIT", drawn' = drawn,
             told'.size = told.size, AndroidIInv'
      PROVE  Kept
  <2>1. (pc' \in {"called", "poll"}) = FALSE /\ pc # "gone" /\ A!Size' = A!Size
    BY <1>e, <1>t
  <2>2. A!Contract!ReturnExit
    BY <1>e, <2>1 DEF A!Contract!ReturnExit
  <2> QED BY <2>2
<1>1. CASE A!System
  <2>1. /\ UNCHANGED <<A!app, A!data, told, A!program>> /\ surface' \in Sizes \cup {0}
        /\ pc \notin {"opening", "failed", "gone"}
    BY <1>1, SystemKeeps DEF AndroidIInv
  <2>2. AndroidIInv'
    BY <2>1 DEF AndroidIInv, ToldOK, AndroidTypesOK, SizeIsTold, DestroyedIsClosing, A!DrawFits, A!NothingLeaks, A!app,
                A!data, A!program
  <2> QED BY <2>1, <2>2, <1>s DEF A!data, A!program
<1>2. CASE A!mfb_open_ex
  BY <1>2, <1>s, OpeningKeeps
<1>3. CASE A!TakeCommand
  <2>1. CASE told' = told
    BY <1>3, <1>s, <2>1, CommandKeeps
  <2>2. CASE close' = close
    <3>1. A!Contract!Resize
      BY <1>3, <1>t, <2>2, CommandKeeps DEF A!Contract!Resize
    <3> QED BY <1>3, <3>1, CommandKeeps
  <2> QED BY <1>3, <2>1, <2>2, CommandKeeps
<1>4. CASE A!TakeInput
  <2>1. /\ ToldOK' /\ told'.size = told.size
        /\ UNCHANGED <<surface, window, destroyRequested, userData, window_size, dst, close, held, pc, result, drawn>>
    BY <1>4, InputKeeps DEF AndroidIInv, A!TakeInput, A!system, A!app
  <2>2. AndroidIInv'
    BY <2>1 DEF AndroidIInv, AndroidTypesOK, SizeIsTold, DestroyedIsClosing, A!DrawFits, A!NothingLeaks
  <2> QED BY <2>1, <2>2, <1>s
<1>5. CASE A!Pump \/ A!FrameDue \/ A!FrameNotDue \/ A!PollEnds \/ A!Destroyed \/ A!LooperFails
  <2>1. CASE close /\ pc' = "gone" /\ result' = "EXIT"
    BY <1>5, <1>e, <2>1, PumpKeeps
  <2>2. CASE pc' = "poll" /\ result' = result
    BY <1>5, <1>s, <2>2, PumpKeeps
  <2>3. CASE pc' = "idle" /\ result' = "OK"
    BY <1>5, <1>t, <2>3, PumpKeeps DEF A!Contract!ReturnOK
  <2>4. CASE pc' = "idle" /\ result' = "INTERNAL_ERROR"
    BY <1>5, <1>t, <2>4, PumpKeeps DEF A!Contract!ReturnError
  <2> QED BY <1>5, <2>1, <2>2, <2>3, <2>4, PumpKeeps
<1>6. ASSUME NEW b \in {0, FirstSize}, A!mfb_update_ex(b) PROVE AndroidIInv' /\ Kept
  <2>1. CASE close /\ pc' = "gone" /\ result' = "EXIT"
    BY <1>6, <1>e, <2>1, UpdateKeeps
  <2>2. CASE pc' = "idle" /\ result' = "OK"
    BY <1>6, <1>t, <2>2, UpdateKeeps DEF A!Contract!ReturnOK
  <2>3. CASE pc' = "idle" /\ result' \in {"INVALID_BUFFER", "INTERNAL_ERROR"}
    BY <1>6, <1>t, <2>3, UpdateKeeps DEF A!Contract!ReturnError
  <2>4. CASE pc' = "poll" /\ result' = result /\ drawn' = drawn
    BY <1>6, <1>s, <2>4, UpdateKeeps
  <2>5. CASE ~close /\ pc' = "poll" /\ drawn'.window = A!Size
    BY <1>6, <1>t, <2>5, UpdateKeeps DEF A!Contract!Show
  <2> QED BY <1>6, <2>1, <2>2, <2>3, <2>4, <2>5, UpdateKeeps
<1>7. CASE A!Application
  <2>1. CASE pc = "idle" /\ pc' = "called" /\ close' = close
    BY <1>7, <1>t, <2>1, CallsKeep DEF A!Contract!Call
  <2>2. CASE pc' = pc /\ (close' = close \/ (close' = TRUE /\ pc \in {"idle", "poll"}))
    BY <1>7, <1>s, <2>2, CallsKeep
  <2> QED BY <1>7, <2>1, <2>2, CallsKeep
<1>8. CASE UNCHANGED A!vars
  <2>1. AndroidIInv'
    BY <1>8 DEF A!vars, A!system, A!app, A!data, A!program, AndroidIInv, ToldOK, AndroidTypesOK, SizeIsTold, DestroyedIsClosing,
                A!DrawFits, A!NothingLeaks
  <2> QED BY <1>8, <1>s, <2>1 DEF A!vars, A!data, A!program
<1> QED BY <1>1, <1>2, <1>3, <1>4, <1>5, <1>6, <1>7, <1>8 DEF A!Next, A!Library

--------------------------------------------------------------------------------
Textures == 0 .. 2

\* The frame in the making, which holds one place of the semaphore.
Making == IF render = "idle" THEN 0 ELSE 1

Typed ==
    /\ current_buffer \in Textures
    /\ semaphore \in Nat /\ acquired \in Nat
    /\ in_flight \in Seq(Textures)
    /\ render \in {"idle", "encode", "commit"}

\* The deallocation of the delegate alone takes places of the semaphore, and releases it at
\* its end.  A frame that was in the making when the window was destroyed keeps its own.
Ending ==
    /\ released => app = "closed"
    /\ acquired # 0 => app = "closing"

MetalIInv == Typed /\ Ending /\ M!SemaphoreIsWhole

\* The frames in flight are the latest ones, each in the texture after the one before.
InOrder ==
    \A i \in 1 .. Len(in_flight) :
        in_flight[i] = (current_buffer + 6 + i - Making - Len(in_flight)) % 3

--------------------------------------------------------------------------------
\* The application never touches what the render loop counts.
LEMMA ApplicationKeeps ==
    ASSUME M!Application
    PROVE  /\ UNCHANGED <<M!frames, render, M!closing, torn>>
           /\ app \notin {"closing", "closed"} /\ app' \notin {"closing", "closed"}
BY DEF M!Application, M!mfb_update_ex, M!ResizeFails, M!resizeTextures, M!SwapDrawBuffer, M!CopyPixels,
       M!sizes, M!frames, M!closing, M!history

\* A frame that begins moves the index and, with a command buffer, takes a place.
LEMMA DrawBegins ==
    ASSUME Typed, M!drawInMTKView
    PROVE  /\ current_buffer' = (current_buffer + 1) % 3 /\ current_buffer' \in Textures
           /\ \/ semaphore > 0 /\ semaphore' = semaphore - 1 /\ render = "idle" /\ render' = "encode"
              \/ scenario = "skips" /\ UNCHANGED <<semaphore, render>>
           /\ UNCHANGED <<in_flight, acquired, released, torn, app>>
           /\ app \notin {"closing", "closed"}
BY DEF Typed, M!drawInMTKView, M!MaxBuffersInFlight, Textures, M!closing, M!history

\* A frame that is committed goes to the end of those in flight.
LEMMA CommitAppends ==
    ASSUME Typed, M!commit
    PROVE  /\ in_flight' \in Seq(Textures) /\ Len(in_flight') = Len(in_flight) + 1
           /\ \A i \in 1 .. Len(in_flight) : in_flight'[i] = in_flight[i]
           /\ in_flight'[Len(in_flight) + 1] = current_buffer
           /\ render = "commit" /\ render' = "idle"
           /\ UNCHANGED <<current_buffer, semaphore, acquired, released, torn, app>>
BY AppendProperties DEF Typed, M!commit, M!closing, M!history

\* A frame that is complete was the first of those in flight, and gives its place back.
LEMMA CompletedIsFirst ==
    ASSUME Typed, M!Completed
    PROVE  /\ in_flight # <<>> /\ Len(in_flight) \in Nat /\ Len(in_flight) > 0
           /\ in_flight' \in Seq(Textures) /\ Len(in_flight') = Len(in_flight) - 1
           /\ \A i \in 1 .. Len(in_flight') : in_flight'[i] = in_flight[i + 1]
           /\ semaphore' = semaphore + 1
           /\ UNCHANGED <<current_buffer, acquired, released, torn, app, render>>
<1>1. in_flight \in Seq(Textures) /\ in_flight # <<>> /\ in_flight' = Tail(in_flight)
  BY DEF Typed, M!Completed
<1>2. /\ in_flight' \in Seq(Textures) /\ Len(in_flight') = Len(in_flight) - 1
      /\ \A i \in 1 .. Len(in_flight') : in_flight'[i] = in_flight[i + 1]
  BY <1>1, HeadTailProperties
<1>3. Len(in_flight) \in Nat /\ Len(in_flight) > 0
  BY <1>1, EmptySeq, LenProperties
<1> QED BY <1>1, <1>2, <1>3 DEF M!Completed, M!closing, M!history

--------------------------------------------------------------------------------
LEMMA MetalInitHolds == M!Init => MetalIInv /\ InOrder
BY EmptySeq DEF M!Init, MetalIInv, Typed, Ending, M!SemaphoreIsWhole, InOrder, Textures, M!MaxBuffersInFlight

\* Every step takes a place of the semaphore where it adds a holder, and gives one back
\* where it takes one away.
LEMMA MetalStepKeeps == MetalIInv /\ [M!Next]_M!vars => MetalIInv'
<1> SUFFICES ASSUME MetalIInv, [M!Next]_M!vars PROVE MetalIInv'
  OBVIOUS
<1>0. /\ Typed /\ Ending /\ Len(in_flight) \in Nat
      /\ semaphore + Len(in_flight) + acquired + Making = 3
      /\ released => in_flight = <<>> /\ semaphore = 3
  BY LenProperties DEF MetalIInv, Typed, M!SemaphoreIsWhole, Making, M!MaxBuffersInFlight
<1> USE <1>0
<1>1. CASE M!Application
  BY <1>1, ApplicationKeeps DEF MetalIInv, Typed, Ending, M!SemaphoreIsWhole, M!frames, M!closing
<1>2. CASE M!drawInMTKView
  <2>1. Typed'
    BY <1>2, DrawBegins DEF Typed
  <2>2. Ending'
    BY <1>2, DrawBegins DEF Ending
  <2>3. M!SemaphoreIsWhole'
    BY <1>2, DrawBegins DEF M!SemaphoreIsWhole, Typed, Ending, Making, M!MaxBuffersInFlight
  <2> QED BY <2>1, <2>2, <2>3 DEF MetalIInv
<1>3. CASE M!replaceRegion
  BY <1>3 DEF M!replaceRegion, MetalIInv, Typed, Ending, M!SemaphoreIsWhole, M!frames, M!sizes, M!closing
<1>4. CASE M!commit
  <2>1. Typed' /\ Ending'
    BY <1>4, CommitAppends DEF Typed, Ending
  <2>2. ~released
    BY <1>4, CommitAppends DEF Typed, Making
  <2>3. M!SemaphoreIsWhole'
    BY <1>4, <2>2, CommitAppends DEF M!SemaphoreIsWhole, Typed, Ending, Making, M!MaxBuffersInFlight, M!commit
  <2> QED BY <2>1, <2>3 DEF MetalIInv
<1>5. CASE M!Completed
  <2>1. Typed' /\ Ending'
    BY <1>5, CompletedIsFirst DEF Typed, Ending
  <2>2. ~released
    BY <1>5, CompletedIsFirst
  <2>3. M!SemaphoreIsWhole'
    BY <1>5, <2>2, CompletedIsFirst DEF M!SemaphoreIsWhole, Typed, Making, M!MaxBuffersInFlight
  <2> QED BY <2>1, <2>3 DEF MetalIInv
<1>6. CASE M!destroy_window_data
  BY <1>6 DEF M!destroy_window_data, MetalIInv, Typed, Ending, M!SemaphoreIsWhole, M!frames, M!closing, M!history
<1>7. CASE M!wait_for_frames_in_flight
  BY <1>7 DEF M!wait_for_frames_in_flight, MetalIInv, Typed, Ending, M!SemaphoreIsWhole, Making,
              M!MaxBuffersInFlight, M!sizes, M!history
<1>8. CASE M!dealloc
  <2>1. /\ app = "closing" /\ app' = "closed" /\ ~released
        /\ UNCHANGED <<in_flight, render, current_buffer>>
        /\ acquired' = 0 /\ semaphore' = semaphore + acquired
        /\ released' = (acquired = 3)
    BY <1>8 DEF M!dealloc, Ending, M!MaxBuffersInFlight
  <2>2. Typed' /\ Ending'
    BY <2>1 DEF Typed, Ending
  <2>3. released' => in_flight' = <<>> /\ semaphore' = 3
    <3>1. CASE acquired = 3
      <4>1. semaphore = 0 /\ Len(in_flight) = 0
        BY <2>1, <3>1 DEF Typed, Making
      <4> QED BY <2>1, <3>1, <4>1, EmptySeq DEF Typed
    <3> QED BY <2>1, <3>1
  <2>4. M!SemaphoreIsWhole'
    BY <2>1, <2>3 DEF M!SemaphoreIsWhole, Typed, Making, M!MaxBuffersInFlight
  <2> QED BY <2>2, <2>4 DEF MetalIInv
<1>9. CASE UNCHANGED M!vars
  BY <1>9 DEF M!vars, M!frames, M!closing, MetalIInv, Typed, Ending, M!SemaphoreIsWhole
<1> QED BY <1>1, <1>2, <1>3, <1>4, <1>5, <1>6, <1>7, <1>8, <1>9 DEF M!Next

--------------------------------------------------------------------------------
\* Two frames in flight and one in the making are in three textures: the two latest ones
\* are not the next.
LEMMA NextTextureIsFree ==
    ASSUME MetalIInv, InOrder, render # "idle"
    PROVE  current_buffer \notin M!ToSet(in_flight)
<1>1. /\ in_flight \in Seq(Textures) /\ Len(in_flight) \in Nat /\ Len(in_flight) <= 2
      /\ DOMAIN in_flight = 1 .. Len(in_flight) /\ current_buffer \in 0 .. 2
  BY LenProperties DEF MetalIInv, Typed, M!SemaphoreIsWhole, M!MaxBuffersInFlight, Textures
<1> DEFINE n == Len(in_flight)
<1>2. ASSUME NEW i \in 1 .. n PROVE in_flight[i] # current_buffer
  <2>1. in_flight[i] = (current_buffer + 6 + i - 1 - Len(in_flight)) % 3
    BY DEF InOrder, Making
  <2>2. n \in Nat /\ n <= 2
    BY <1>1
  <2> HIDE DEF n
  <2>3. i = n \/ i + 1 = n
    BY <2>2
  <2>4. current_buffer + 6 + i - 1 - n \in {current_buffer + 5, current_buffer + 4}
    BY <1>1, <2>2, <2>3
  <2>5. \A c \in 0 .. 2 : (c + 5) % 3 # c /\ (c + 4) % 3 # c
    OBVIOUS
  <2> QED BY <1>1, <2>1, <2>4, <2>5 DEF n
<1> QED BY <1>1, <1>2 DEF M!ToSet

\* With a command buffer for every frame the index moves with the semaphore.
LEMMA OrderKept ==
    ASSUME scenario # "skips", MetalIInv, InOrder, ~torn, [M!Next]_M!vars
    PROVE  InOrder' /\ ~torn'
<1>0. /\ Typed /\ Len(in_flight) \in Nat /\ Len(in_flight) <= 3 /\ current_buffer \in 0 .. 2
      /\ Making + Len(in_flight) <= 3
  BY LenProperties DEF MetalIInv, Typed, Textures, M!SemaphoreIsWhole, Making, M!MaxBuffersInFlight
<1> USE <1>0 DEF InOrder, Making
<1>1. CASE M!Application
  <2>1. UNCHANGED <<current_buffer, in_flight, render, torn>>
    BY <1>1, ApplicationKeeps DEF M!frames
  <2> QED BY <2>1
<1>2. CASE M!drawInMTKView
  <2>1. /\ current_buffer' = (current_buffer + 1) % 3 /\ render = "idle" /\ render' = "encode"
        /\ UNCHANGED <<in_flight, torn>>
    BY <1>2, DrawBegins
  <2>2. ASSUME NEW i \in 1 .. Len(in_flight)
        PROVE  (current_buffer + 6 + i - Len(in_flight)) % 3
                 = (current_buffer' + 5 + i - Len(in_flight)) % 3
    <3> DEFINE d == i - Len(in_flight)
    <3>1. d \in {0, -1, -2}
      OBVIOUS
    <3> QED BY <2>1, <3>1
  <2> QED BY <2>1, <2>2
<1>3. CASE M!replaceRegion
  BY <1>3, NextTextureIsFree DEF M!replaceRegion, M!frames
<1>4. CASE M!commit
  <2>1. ASSUME NEW i \in 1 .. Len(in_flight')
        PROVE  in_flight'[i] = (current_buffer' + 6 + i - Len(in_flight')) % 3
    <3>1. CASE i = Len(in_flight) + 1
      BY <1>4, <3>1, CommitAppends
    <3>2. CASE i \in 1 .. Len(in_flight)
      <4>1. /\ in_flight'[i] = in_flight[i] /\ current_buffer' = current_buffer
            /\ Len(in_flight') = Len(in_flight) + 1 /\ render = "commit"
        BY <1>4, <3>2, CommitAppends
      <4>2. in_flight[i] = (current_buffer + 6 + i - 1 - Len(in_flight)) % 3
        BY <3>2, <4>1
      <4>3. current_buffer + 6 + i - 1 - Len(in_flight) = current_buffer' + 6 + i - Len(in_flight')
        BY <3>2, <4>1
      <4> QED BY <4>1, <4>2, <4>3
    <3> QED BY <1>4, <3>1, <3>2, CommitAppends
  <2> QED BY <1>4, <2>1, CommitAppends
<1>5. CASE M!Completed
  <2>1. ASSUME NEW i \in 1 .. Len(in_flight')
        PROVE  in_flight'[i] = (current_buffer' + 6 + i - Making' - Len(in_flight')) % 3
    <3>1. /\ i \in Nat /\ i + 1 \in 1 .. Len(in_flight) /\ in_flight'[i] = in_flight[i + 1]
          /\ Len(in_flight') = Len(in_flight) - 1 /\ UNCHANGED <<current_buffer, render>>
      BY <1>5, CompletedIsFirst
    <3>2. in_flight[i + 1] = (current_buffer + 6 + (i + 1) - Making - Len(in_flight)) % 3
      BY <3>1
    <3>3. current_buffer + 6 + (i + 1) - Making - Len(in_flight)
            = current_buffer' + 6 + i - Making' - Len(in_flight')
      BY <3>1
    <3> QED BY <3>1, <3>2, <3>3
  <2>2. InOrder'
    BY <2>1
  <2>3. ~torn'
    BY <1>5, CompletedIsFirst
  <2> QED BY <2>2, <2>3
<1>6. CASE M!destroy_window_data \/ M!wait_for_frames_in_flight \/ M!dealloc
  <2>1. UNCHANGED <<current_buffer, in_flight, torn>> /\ render' = render
    BY <1>6 DEF M!destroy_window_data, M!wait_for_frames_in_flight, M!dealloc, M!frames, M!history
  <2> QED BY <2>1
<1>7. CASE UNCHANGED M!vars
  BY <1>7 DEF M!vars, M!frames, M!history
<1> QED BY <1>1, <1>2, <1>3, <1>4, <1>5, <1>6, <1>7 DEF M!Next

\* On macOS one step follows another on the same thread: the sizes agree whenever no buffer
\* is being changed, and no frame is in the making while one is.
SizesAgree ==
    /\ app \in {"idle", "resize", "swap", "copy", "closing", "closed"}
    /\ app \in {"idle", "copy"} => draw_buffer = buffer_size /\ texture_buffers = buffer_size
    /\ app = "resize" => draw_buffer = texture_buffers /\ wanted = buffer_size
    /\ app \in {"swap", "copy"} => texture_buffers = buffer_size /\ wanted = buffer_size
    /\ render # "idle" => app = "idle"
    /\ ~misfit

LEMMA SizesKept ==
    ASSUME M!Serial, SizesAgree, [M!Next]_M!vars
    PROVE  SizesAgree'
<1> USE DEF SizesAgree
<1>1. ASSUME NEW size \in Sizes, M!mfb_update_ex(size) PROVE SizesAgree'
  BY <1>1 DEF M!mfb_update_ex
<1>2. CASE M!ResizeFails
  BY <1>2 DEF M!ResizeFails, M!history
<1>3. CASE M!resizeTextures
  BY <1>3 DEF M!resizeTextures, M!history
<1>4. CASE M!SwapDrawBuffer
  BY <1>4 DEF M!SwapDrawBuffer, M!history
<1>5. CASE M!CopyPixels
  BY <1>5 DEF M!CopyPixels, M!sizes
<1>6. CASE M!drawInMTKView
  BY <1>6 DEF M!drawInMTKView, M!sizes, M!history
<1>7. CASE M!replaceRegion
  BY <1>7 DEF M!replaceRegion, M!sizes
<1>8. CASE M!commit
  BY <1>8 DEF M!commit, M!sizes, M!history
<1>9. CASE M!Completed
  BY <1>9 DEF M!Completed, M!sizes, M!history
<1>10. CASE M!destroy_window_data
  BY <1>10 DEF M!destroy_window_data, M!history
<1>11. CASE M!wait_for_frames_in_flight
  BY <1>11 DEF M!wait_for_frames_in_flight, M!sizes, M!history
<1>12. CASE M!dealloc
  BY <1>12 DEF M!dealloc, M!sizes, M!history
<1>13. CASE UNCHANGED M!vars
  BY <1>13 DEF M!vars, M!sizes, M!history
<1> QED BY <1>1, <1>2, <1>3, <1>4, <1>5, <1>6, <1>7, <1>8, <1>9, <1>10, <1>11, <1>12, <1>13
        DEF M!Next, M!Application

--------------------------------------------------------------------------------
TimerIInv == TypeOK /\ Accounts

--------------------------------------------------------------------------------
\* The target of a rate is a number of ticks, and at most the longest frame.
LEMMA TargetBound ==
    ASSUME fps \in Fps
    PROVE  Target \in Nat /\ Target <= Longest
<1> USE FrequencyAssumption, FpsAssumption, LongestAssumption DEF Target, mfb_timer_get_ticks_per_frame
<1>1. CASE fps = 0
  BY <1>1
<1>2. CASE fps # 0
  <2>1. fps \in Fps \ {0}
    BY <1>2
  <2>2. Frequency \div fps <= Longest
    BY <2>1
  <2>3. Frequency \div fps \in Nat
    BY <2>1
  <2> QED BY <1>2, <2>2, <2>3
<1> QED BY <1>1, <1>2

\* The loop ends on a product of the rate; the reset counts in whole ticks.
LEMMA DueIsTarget ==
    ASSUME fps \in Fps, fps # 0, NEW n \in Int, n * fps >= Frequency
    PROVE  n >= Target
<1> USE FrequencyAssumption, FpsAssumption DEF Target, mfb_timer_get_ticks_per_frame
<1> DEFINE q == Frequency \div fps
<1>1. fps \in Nat /\ fps > 0
  OBVIOUS
<1>2. q \in Int /\ q * fps <= Frequency
  BY <1>1
<1>3. q * fps <= n * fps
  BY <1>1, <1>2
<1>4. q <= n
  BY <1>1, <1>2, <1>3
<1> QED BY <1>4

\* A late frame gives half of its error away, and the rest is still at most a frame.
LEMMA HalfIsLess ==
    ASSUME NEW x \in Nat
    PROVE  Half(x) \in Nat /\ Half(x) <= x /\ x - Half(x) <= Half(x) + 1
BY DEF Half

--------------------------------------------------------------------------------
\* What the compensated reset leaves: less than a frame of error, and a frame that
\* begins exactly that much after its schedule.
LEMMA CompensateKeeps ==
    ASSUME TimerIInv, phase = "reset", fps # 0, now - last_delta_ticks <= 2 * Target,
           Compensate(now - last_delta_ticks)
    PROVE  /\ accumulated_error_ticks' \in Int
           /\ 0 <= accumulated_error_ticks' /\ accumulated_error_ticks' <= Longest
           /\ last_delta_ticks' \in Int /\ last_delta_ticks' <= now
           /\ schedule' = schedule + Target
           /\ last_delta_ticks' = schedule' + accumulated_error_ticks'
           /\ start_ticks' = last_delta_ticks' /\ accumulated_ticks' = 0
<1> DEFINE actual == now - last_delta_ticks
           error == accumulated_error_ticks + (actual - Target)
           late == error > Target \div 100 \/ -error > Target \div 100
           correction == IF late THEN Half(error) ELSE 0
<1> USE LongestAssumption
<1>1. Target \in Nat /\ Target <= Longest
  BY TargetBound DEF TimerIInv, TypeOK
<1>2. /\ now \in Int /\ last_delta_ticks \in Int /\ schedule \in Int
      /\ accumulated_error_ticks \in Int /\ 0 <= accumulated_error_ticks
      /\ accumulated_error_ticks <= Longest
      /\ last_delta_ticks = schedule + accumulated_error_ticks
  BY DEF TimerIInv, TypeOK, Accounts
<1>3. actual \in Int /\ actual >= Target /\ actual <= 2 * Target
  BY <1>1 DEF TimerIInv, TypeOK, Accounts
<1>4. error \in Nat /\ error <= Longest + Target
  BY <1>1, <1>2, <1>3
<1>5. /\ correction \in Nat
      /\ error - correction >= 0 /\ error - correction <= Longest
  <2>1. CASE late
    <3>1. correction = Half(error)
      BY <2>1
    <3>2. Half(error) \in Nat /\ Half(error) <= error /\ error - Half(error) <= Half(error) + 1
      BY <1>4, HalfIsLess
    <3> HIDE DEF error, late, correction
    <3> QED BY <1>1, <1>4, <3>1, <3>2
  <2>2. CASE ~late
    <3>1. correction = 0
      BY <2>2
    <3>2. error <= Target \div 100
      BY <1>1, <1>4, <2>2
    <3>3. Target \div 100 <= Target
      BY <1>1
    <3> HIDE DEF error, late, correction
    <3> QED BY <1>1, <1>4, <3>1, <3>2, <3>3
  <2> QED BY <2>1, <2>2
<1>6. /\ accumulated_error_ticks' = error - correction
      /\ start_ticks' = now - correction /\ last_delta_ticks' = now - correction
      /\ accumulated_ticks' = 0 /\ schedule' = schedule + Target
  BY DEF Compensate
<1>7. error = accumulated_error_ticks + (now - last_delta_ticks - Target)
  BY <1>1, <1>2
<1> HIDE DEF error, late, correction, actual
<1> QED BY <1>1, <1>2, <1>4, <1>5, <1>6, <1>7

LEMMA InvariantStep == TimerIInv /\ [Next]_vars => TimerIInv'
<1> SUFFICES ASSUME TimerIInv, [Next]_vars
             PROVE  TimerIInv'
  OBVIOUS
<1> USE FpsAssumption, LongestAssumption, DelaysAssumption
<1>1. CASE Elapse
  BY <1>1 DEF TimerIInv, TypeOK, Accounts, Elapse, timer, Target, mfb_timer_get_ticks_per_frame
<1>2. ASSUME NEW f \in Fps, mfb_set_target_fps(f)
      PROVE  TimerIInv'
  BY <1>2 DEF TimerIInv, TypeOK, Accounts, mfb_set_target_fps, timer
<1>3. CASE mfb_wait_sync
  BY <1>3 DEF TimerIInv, TypeOK, Accounts, mfb_wait_sync, timer
<1>4. CASE mfb_timer_now
  <2> DEFINE elapsed == accumulated_ticks + (now - start_ticks)
  <2>1. elapsed \in Int /\ elapsed >= 0 /\ elapsed = now - last_delta_ticks
    BY DEF TimerIInv, TypeOK, Accounts
  <2>2. TypeOK'
    BY <1>4, <2>1 DEF TimerIInv, TypeOK, mfb_timer_now
  <2>3. UNCHANGED Target
    BY <1>4 DEF mfb_timer_now, Target, mfb_timer_get_ticks_per_frame
  <2>4. phase' = "reset" /\ fps # 0 => elapsed >= Target
    <3> SUFFICES ASSUME phase' = "reset", fps # 0
                 PROVE  elapsed >= Target
      OBVIOUS
    <3>1. elapsed * fps >= Frequency
      BY <1>4 DEF mfb_timer_now
    <3>2. fps \in Fps
      BY DEF TimerIInv, TypeOK
    <3> HIDE DEF elapsed
    <3> QED BY <2>1, <3>1, <3>2, DueIsTarget
  <2>5. accumulated_ticks' = elapsed /\ start_ticks' = now
    BY <1>4 DEF mfb_timer_now
  <2>6. UNCHANGED <<now, fps, last_delta_ticks, accumulated_error_ticks, schedule>>
    BY <1>4 DEF mfb_timer_now
  <2> HIDE DEF elapsed
  <2>7. Accounts'
    BY <2>1, <2>3, <2>4, <2>5, <2>6 DEF TimerIInv, TypeOK, Accounts
  <2> QED BY <2>2, <2>7 DEF TimerIInv
<1>5. CASE mfb_timer_compensated_reset
  <2>1. CASE fps = 0 \/ now - last_delta_ticks > 2 * Target
    <3>1. mfb_timer_reset /\ phase' = "frame" /\ UNCHANGED <<now, fps, g_use_hardware_sync>>
      BY <1>5, <2>1 DEF mfb_timer_compensated_reset
    <3> QED BY <3>1 DEF TimerIInv, TypeOK, Accounts, mfb_timer_reset
  <2>2. CASE ~(fps = 0 \/ now - last_delta_ticks > 2 * Target)
    <3>1. /\ phase = "reset" /\ phase' = "frame" /\ UNCHANGED <<now, fps, g_use_hardware_sync>>
          /\ Compensate(now - last_delta_ticks) /\ fps # 0
      BY <1>5, <2>2 DEF mfb_timer_compensated_reset
    <3>2. Target \in Nat
      BY TargetBound DEF TimerIInv, TypeOK
    <3>3. now - last_delta_ticks <= 2 * Target
      BY <2>2, <3>2 DEF TimerIInv, TypeOK
    <3>4. /\ accumulated_error_ticks' \in Int
          /\ 0 <= accumulated_error_ticks' /\ accumulated_error_ticks' <= Longest
          /\ last_delta_ticks' \in Int /\ last_delta_ticks' <= now
          /\ schedule' = schedule + Target
          /\ last_delta_ticks' = schedule' + accumulated_error_ticks'
          /\ start_ticks' = last_delta_ticks' /\ accumulated_ticks' = 0
      BY <3>1, <3>3, CompensateKeeps
    <3>5. schedule \in Int /\ schedule' \in Int /\ now \in Nat
      BY <3>2, <3>4 DEF TimerIInv, TypeOK
    <3>6. TypeOK'
      BY <3>1, <3>4, <3>5 DEF TimerIInv, TypeOK
    <3>7. Accounts'
      BY <3>1, <3>4, <3>5 DEF Accounts
    <3> QED BY <3>6, <3>7 DEF TimerIInv
  <2> QED BY <2>1, <2>2
<1>6. CASE UNCHANGED vars
  BY <1>6 DEF TimerIInv, TypeOK, Accounts, vars, timer, Target, mfb_timer_get_ticks_per_frame
<1> QED BY <1>1, <1>2, <1>3, <1>4, <1>5, <1>6 DEF Next

LEMMA TimerInitHolds == Init => TimerIInv
BY FpsAssumption, LongestAssumption DEF Init, TimerIInv, TypeOK, Accounts

LEMMA PaceFollows ==
    ASSUME TimerIInv
    PROVE  PaceIsKept
<1>1. Target \in Nat /\ (fps = 0 => Target = 0)
  BY TargetBound DEF TimerIInv, TypeOK, Target, mfb_timer_get_ticks_per_frame
<1> QED BY <1>1, LongestAssumption DEF TimerIInv, TypeOK, Accounts, PaceIsKept

--------------------------------------------------------------------------------
(* The pointers of Android: what the looper's events will make of the buttons and of  *)
(* the hover.                                                                          *)

\* What is assumed of the constants besides: buttons have places in the table, no two
\* fingers share one, and the queues have a length.
PointerParameters ==
    /\ Mouse \subseteq 0 .. 7 /\ Fingers \subseteq Nat /\ MaxQueue \in Nat
    /\ \A f, g \in Fingers : f % 8 = g % 8 => f = g

Places == {"in", "out"}
MouseNotices ==
    [type : {"HOVER_MOVE", "HOVER_ENTER", "HOVER_EXIT", "DOWN", "UP", "BUTTON_PRESS", "BUTTON_RELEASE", "MOVE", "CANCEL"},
     ids : SUBSET Mouse, tool : {"mouse"}, at : Places]
FingerNotices ==
    [type : {"HOVER_ENTER", "HOVER_EXIT", "DOWN", "UP", "POINTER_DOWN", "POINTER_UP", "MOVE", "CANCEL"},
     ids : SUBSET Fingers, tool : {"finger"}, at : Places]

Commands ==
    [type : {"INIT_WINDOW", "TERM_WINDOW", "GAINED_FOCUS", "LOST_FOCUS", "CONTENT_RECT_CHANGED", "DESTROY"}]
LooperTypes ==
    /\ commands \in Seq(Commands) /\ Len(commands) <= MaxQueue /\ Len(events) <= MaxQueue
    /\ pointer \in Places /\ pressing \in BOOLEAN /\ down \subseteq Mouse /\ touching \subseteq Fingers

\* What the application was told is what the window holds, no hover exit is held back
\* outside a poll, and a window that lives is found by its handlers.
HandlerAgrees ==
    /\ button_status \subseteq 0 .. 7 /\ mouse_button_state \subseteq Mouse
    /\ is_mouse_inside \in BOOLEAN /\ pending_hover_exit \in BOOLEAN /\ held \subseteq A!ToSet(A!Wanted)
    /\ told \in [size : Sizes, inside : BOOLEAN, buttons : SUBSET (0 .. 7)]
    /\ told.buttons = button_status /\ told.inside = is_mouse_inside
    /\ pc \in {"opening", "idle", "called"} => pending_hover_exit = FALSE
    /\ pc \in {"idle", "called", "poll"} => userData = TRUE

\* The mouse: the buttons, and whether the pointer is over the window, a hover exit that is
\* held back included; during a press it may be either.
HoverStates == [held : SUBSET Mouse, place : {"over", "away", "either"}]
HoverLeads(e, a, b) ==
    /\ b.held = (IF e.type \in {"DOWN", "UP", "BUTTON_PRESS", "BUTTON_RELEASE"} THEN e.ids
                 ELSE IF e.type = "CANCEL" THEN {} ELSE a.held)
    /\ b.place = (IF e.type = "HOVER_ENTER" THEN "over"
                  ELSE IF e.type = "HOVER_EXIT" THEN "away"
                  ELSE IF e.type = "DOWN" THEN "either"
                  ELSE IF e.type \in {"UP", "CANCEL"} /\ e.at = "out" THEN "away" ELSE a.place)
    /\ e.type = "HOVER_MOVE" => a.place = "over"
HoverStep == {t \in MouseNotices \X HoverStates \X HoverStates : HoverLeads(t[1], t[2], t[3])}

\* The window shows the place; the user does.
Shows(place) == place = "either" \/ (place = "over" <=> (is_mouse_inside /\ ~pending_hover_exit))
Means(place) == down = {} /\ ~pressing => place = (IF pointer = "in" THEN "over" ELSE "away")

HoverNow(place) == [held |-> button_status, place |-> place]
HoverThen(place) == [held |-> down, place |-> place]
HoverFollows ==
    \E p, z \in {"over", "away", "either"} :
        Shows(p) /\ Means(z) /\ Leads(events, HoverStep, HoverStates, HoverNow(p), HoverThen(z))

HoverInv ==
    /\ events \in Seq(MouseNotices) /\ commands = <<>>
    /\ close = FALSE /\ destroyRequested = FALSE /\ touching = {} /\ (pressing => down = {})
    /\ button_status = mouse_button_state
    /\ HoverFollows

\* The fingers: the buttons that have their numbers.
FingerLeads(e, a, b) ==
    /\ b = (IF e.type \in {"DOWN", "POINTER_DOWN"} THEN a \cup A!Indices(e.ids)
            ELSE IF e.type \in {"UP", "POINTER_UP", "CANCEL"} THEN a \ A!Indices(e.ids) ELSE a)
    /\ e.type = "MOVE" => A!Indices(e.ids) \subseteq a
FingerStep == {t \in FingerNotices \X (SUBSET (0 .. 7)) \X (SUBSET (0 .. 7)) : FingerLeads(t[1], t[2], t[3])}

TouchInv ==
    /\ events \in Seq(FingerNotices)
    /\ close => destroyRequested
    /\ pointer = "out" /\ down = {} /\ pressing = FALSE /\ mouse_button_state = {}
    /\ is_mouse_inside = FALSE /\ pending_hover_exit = FALSE
    /\ ~close => Leads(events, FingerStep, SUBSET (0 .. 7), button_status, A!Indices(touching))

\* Where frames are drawn nobody points.
FramesInv ==
    /\ events = <<>> /\ down = {} /\ touching = {} /\ pressing = FALSE /\ pointer = "out"
    /\ button_status = {} /\ mouse_button_state = {}
    /\ is_mouse_inside = FALSE /\ pending_hover_exit = FALSE

PointerInv ==
    /\ LooperTypes /\ HandlerAgrees
    /\ scenario = "hover" => HoverInv
    /\ scenario = "touch" => TouchInv
    /\ scenario = "frames" => FramesInv

--------------------------------------------------------------------------------
\* An event that is fed is in the queue.
LEMMA FedIsThere ==
    ASSUME NEW S, NEW T, events \in Seq(S), NEW s \in Seq(T), s # <<>>, events' = events \o s
    PROVE  /\ events' # <<>> /\ \E i \in 1 .. Len(events') : events'[i] = s[1]
<1>1. events \in Seq(S \cup T) /\ s \in Seq(S \cup T)
  OBVIOUS
<1>2. Len(s) \in Nat /\ Len(s) > 0 /\ Len(events) \in Nat
  BY EmptySeq, LenProperties
<1>3. Len(events') = Len(events) + Len(s) /\ events'[Len(events) + 1] = s[1]
  <2>1. 1 \in 1 .. Len(s)
    BY <1>2
  <2> QED BY <1>1, <2>1, ConcatElements
<1>4. Len(events) + 1 \in 1 .. Len(events')
  BY <1>2, <1>3
<1> QED BY <1>2, <1>3, <1>4, EmptySeq

\* A command leaves the events and the user alone and is in its queue.
LEMMA LifeKeeps ==
    ASSUME LooperTypes,
           \/ A!Pause \/ A!Resume \/ A!LowerShutter \/ A!RaiseShutter \/ A!Rotate \/ A!Close
           \/ \E s \in Sizes : A!Resize(s)
    PROVE  /\ commands' # <<>> /\ commands' \in Seq(Commands) /\ Len(commands') <= MaxQueue
           /\ UNCHANGED <<pointer, pressing, down, touching, events>>
<1> DEFINE Kept == /\ commands' # <<>> /\ commands' \in Seq(Commands) /\ Len(commands') <= MaxQueue
                   /\ UNCHANGED <<pointer, pressing, down, touching, events>>
<1> DEFINE C == Commands
<1>1. ASSUME NEW s \in Seq(C), s # <<>>, A!Command(s)
      PROVE  commands' # <<>> /\ commands' \in Seq(C) /\ Len(commands') <= MaxQueue
  <2> HIDE DEF C
  <2>1. commands' = commands \o s /\ Len(commands) + Len(s) <= MaxQueue
    BY <1>1 DEF A!Command
  <2>0. commands \in Seq(C)
    BY DEF LooperTypes, C
  <2>2. commands' \in Seq(C) /\ Len(commands') = Len(commands) + Len(s)
    BY <2>0, <2>1, ConcatElements
  <2>3. Len(s) \in Nat /\ Len(s) > 0 /\ Len(commands) \in Nat
    BY <1>1, <2>0, EmptySeq, LenProperties
  <2> QED BY <2>1, <2>2, <2>3, EmptySeq
<1> HIDE DEF C
<1>2. ASSUME NEW from, NEW to, NEW z, NEW s \in Seq(C), s # <<>>, A!Life(from, to, z, s) PROVE Kept
  BY <1>1, <1>2 DEF A!Life, C
<1>3. ASSUME NEW c \in C, NEW d \in C
      PROVE  <<c>> \in Seq(C) /\ <<c>> # <<>> /\ <<c, d>> \in Seq(C) /\ <<c, d>> # <<>>
  <2>1. Len(<<c>>) = 1 /\ Len(<<c, d>>) = 2
    OBVIOUS
  <2> QED BY <2>1, EmptySeq
<1>m. /\ A!Cmd("LOST_FOCUS") \in C /\ A!Cmd("TERM_WINDOW") \in C /\ A!Cmd("INIT_WINDOW") \in C
      /\ A!Cmd("GAINED_FOCUS") \in C /\ A!Cmd("DESTROY") \in C /\ A!Cmd("CONTENT_RECT_CHANGED") \in C
  BY DEF A!Cmd, Commands, C
<1> HIDE DEF Kept
<1>4. ASSUME A!Pause \/ A!LowerShutter \/ A!RaiseShutter \/ A!Rotate \/ A!Close PROVE Kept
  BY <1>2, <1>3, <1>4, <1>m DEF A!Pause, A!LowerShutter, A!RaiseShutter, A!Rotate, A!Close
<1>5. ASSUME A!Resume PROVE Kept
  BY <1>2, <1>3, <1>5, <1>m DEF A!Resume
<1>6. ASSUME NEW s \in Sizes, A!Resize(s) PROVE Kept
  BY <1>1, <1>3, <1>6, <1>m DEF A!Resize, Kept, C
<1> QED BY <1>4, <1>5, <1>6 DEF Kept

\* What every input feeds.
LEMMA FeedKeeps ==
    ASSUME LooperTypes, NEW S, events \in Seq(S), NEW T, NEW s \in Seq(T), A!Feed(s)
    PROVE  /\ Len(events') <= MaxQueue /\ events' = events \o s /\ commands' = commands
           /\ s # <<>> => events' # <<>> /\ \E i \in 1 .. Len(events') : events'[i] = s[1]
<1>1. events' = events \o s /\ Len(events) + Len(s) <= MaxQueue /\ commands' = commands
  BY DEF A!Feed
<1>2. Len(events') = Len(events) + Len(s)
  <2>1. events \in Seq(S \cup T) /\ s \in Seq(S \cup T)
    OBVIOUS
  <2> QED BY <1>1, <2>1, ConcatElements
<1> QED BY <1>1, <1>2, FedIsThere

--------------------------------------------------------------------------------
(* The mouse.                                                                      *)
LEMMA HoverSteps ==
    ASSUME NEW e \in MouseNotices, NEW a \in HoverStates, NEW b \in HoverStates
    PROVE  <<e, a, b>> \in HoverStep <=> HoverLeads(e, a, b)
BY DEF HoverStep

LEMMA HoverOne ==
    ASSUME NEW e \in MouseNotices, NEW a \in HoverStates, NEW b \in HoverStates, HoverLeads(e, a, b)
    PROVE  /\ <<e>> \in Seq(MouseNotices) /\ <<e>> # <<>>
           /\ Leads(<<e>>, HoverStep, HoverStates, a, b)
<1>1. <<e, a, b>> \in HoverStep
  BY HoverSteps
<1>2. Leads(<<e>>, HoverStep, HoverStates, a, b)
  BY <1>1, LeadsOne
<1>3. Len(<<e>>) = 1
  OBVIOUS
<1> QED BY <1>2, <1>3, EmptySeq

LEMMA MouseEvents ==
    ASSUME pointer \in Places
    PROVE  /\ \A ids \in SUBSET Mouse :
                 /\ A!MouseEvent("HOVER_EXIT", ids) \in MouseNotices /\ A!MouseEvent("HOVER_ENTER", ids) \in MouseNotices
                 /\ A!MouseEvent("DOWN", ids) \in MouseNotices /\ A!MouseEvent("UP", ids) \in MouseNotices
                 /\ A!MouseEvent("BUTTON_PRESS", ids) \in MouseNotices /\ A!MouseEvent("BUTTON_RELEASE", ids) \in MouseNotices
                 /\ A!MouseEvent("MOVE", ids) \in MouseNotices /\ A!Event("CANCEL", ids, "mouse") \in MouseNotices
           /\ \A type, ids : /\ A!MouseEvent(type, ids).type = type /\ A!MouseEvent(type, ids).ids = ids
                             /\ A!MouseEvent(type, ids).at = pointer
                             /\ A!Event(type, ids, "mouse").type = type
                             /\ A!Event(type, ids, "mouse").at = pointer
BY DEF A!MouseEvent, A!Event, MouseNotices

\* After a gesture the hover goes on if the pointer is in.
LEMMA HoverGoesOn ==
    ASSUME pointer \in Places, NEW x \in {"over", "away", "either"}
    PROVE  /\ A!HoverAgain \in Seq(MouseNotices)
           /\ Leads(A!HoverAgain, HoverStep, HoverStates, [held |-> {}, place |-> x],
                    [held |-> {}, place |-> IF pointer = "in" THEN "over" ELSE x])
<1>1. /\ [held |-> {}, place |-> x] \in HoverStates
      /\ [held |-> {}, place |-> "over"] \in HoverStates
  BY DEF HoverStates
<1>2. CASE pointer = "in"
  <2> DEFINE e == A!MouseEvent("HOVER_ENTER", {})
  <2>1. e \in MouseNotices /\ e.type = "HOVER_ENTER"
    BY MouseEvents
  <2>2. HoverLeads(e, [held |-> {}, place |-> x], [held |-> {}, place |-> "over"])
    BY <2>1 DEF HoverLeads
  <2>3. A!HoverAgain = <<e>>
    BY <1>2 DEF A!HoverAgain
  <2> HIDE DEF e
  <2> QED BY <1>1, <1>2, <2>1, <2>2, <2>3, HoverOne
<1>3. CASE pointer # "in"
  <2>1. A!HoverAgain = <<>>
    BY <1>3 DEF A!HoverAgain
  <2> QED BY <1>1, <1>3, <2>1, LeadsEmpty
<1> QED BY <1>2, <1>3

\* What the user does with the mouse, the queue says.
LEMMA HoverUserKeeps ==
    ASSUME PointerParameters, LooperTypes, HoverInv, A!System, commands' = <<>>, close' = close,
           \A i \in 1 .. Len(events') : events'[i].tool = "mouse"
    PROVE  LooperTypes' /\ HoverInv'
<1>0. UNCHANGED <<destroyRequested, close, button_status, mouse_button_state, is_mouse_inside, pending_hover_exit>>
  BY DEF A!System, A!app, A!pointing, A!data
<1>t. /\ pointer \in Places /\ pressing \in BOOLEAN /\ down \subseteq Mouse /\ touching = {}
      /\ events \in Seq(MouseNotices) /\ commands = <<>> /\ (pressing => down = {})
  BY DEF LooperTypes, HoverInv
<1>p. PICK p \in {"over", "away", "either"}, z \in {"over", "away", "either"} :
          Shows(p) /\ Means(z) /\ Leads(events, HoverStep, HoverStates, HoverNow(p), HoverThen(z))
  BY DEF HoverInv, HoverFollows
<1> DEFINE At(d, y) == [held |-> d, place |-> y]
<1>a. \A d \in SUBSET Mouse, y \in {"over", "away", "either"} : At(d, y) \in HoverStates
  BY DEF HoverStates
<1>c. ASSUME NEW s \in Seq(MouseNotices), A!Feed(s), NEW y \in {"over", "away", "either"},
             Leads(s, HoverStep, HoverStates, At(down, z), At(down', y)),
             down' = {} /\ ~pressing' => y = (IF pointer' = "in" THEN "over" ELSE "away"),
             touching' = touching, pressing' => down' = {},
             pointer' \in Places, pressing' \in BOOLEAN, down' \subseteq Mouse
      PROVE  LooperTypes' /\ HoverInv'
  <2>1. /\ Len(events') <= MaxQueue /\ events' = events \o s
    BY <1>c, <1>t, FeedKeeps
  <2>2. events' \in Seq(MouseNotices)
    BY <1>c, <1>t, <2>1, ConcatElements
  <2>3. Leads(events', HoverStep, HoverStates, HoverNow(p), At(down', y))
    BY <1>c, <1>t, <1>p, <2>1, LeadsConcat DEF HoverThen
  <2>4. HoverFollows'
    <3>1. Shows(p)' /\ Means(y)' /\ HoverNow(p)' = HoverNow(p) /\ HoverThen(y)' = At(down', y)
      BY <1>0, <1>c, <1>p DEF Shows, Means, HoverNow, HoverThen
    <3>2. Shows(p)' /\ Means(y)' /\ Leads(events', HoverStep, HoverStates, HoverNow(p)', HoverThen(y)')
      BY <2>3, <3>1
    <3> QED BY <1>c, <3>2 DEF HoverFollows
  <2>5. HoverInv'
    BY <1>0, <1>c, <1>t, <2>2, <2>4 DEF HoverInv
  <2>6. commands' \in Seq(Commands) /\ Len(commands') <= MaxQueue
    BY <1>t DEF LooperTypes
  <2> QED BY <1>c, <1>t, <2>1, <2>5, <2>6 DEF LooperTypes
<1>n. ASSUME NEW T, NEW e \in T, A!Feed(<<e>>) PROVE e.tool = "mouse"
  <2>1. <<e>> \in Seq(T) /\ <<e>> # <<>> /\ <<e>>[1] = e
    <3>1. Len(<<e>>) = 1
      OBVIOUS
    <3> QED BY <3>1, EmptySeq
  <2> QED BY <1>n, <1>t, <2>1, FeedKeeps
<1> HIDE DEF At
<1>1. ASSUME NEW q \in {"in", "out"}, A!Hover(q) PROVE LooperTypes' /\ HoverInv'
  <2> DEFINE type == IF q = pointer THEN "HOVER_MOVE" ELSE IF q = "in" THEN "HOVER_ENTER" ELSE "HOVER_EXIT"
             e == [A!MouseEvent(type, {}) EXCEPT !.at = q]
             y == IF q = "in" THEN "over" ELSE "away"
  <2>1. /\ A!Feed(<<e>>) /\ down = {} /\ ~pressing /\ pointer' = q /\ (q = pointer => q = "in")
        /\ UNCHANGED <<pressing, down, touching>>
    BY <1>1 DEF A!Hover
  <2>2. e \in MouseNotices /\ e.type = type
    BY <1>t DEF A!MouseEvent, A!Event, MouseNotices, Places
  <2>3. z = (IF pointer = "in" THEN "over" ELSE "away")
    BY <1>p, <2>1 DEF Means
  <2>4. HoverLeads(e, At(down, z), At(down', y))
    BY <2>1, <2>2, <2>3 DEF HoverLeads, At, Places
  <2>5. At(down, z) \in HoverStates /\ At(down', y) \in HoverStates
    BY <1>a, <1>t, <2>1
  <2> HIDE DEF e
  <2>6. <<e>> \in Seq(MouseNotices) /\ Leads(<<e>>, HoverStep, HoverStates, At(down, z), At(down', y))
    BY <2>2, <2>4, <2>5, HoverOne
  <2>7. y \in {"over", "away", "either"}
    OBVIOUS
  <2>8. /\ down' = {} /\ ~pressing' => y = (IF pointer' = "in" THEN "over" ELSE "away")
        /\ touching' = touching /\ (pressing' => down' = {})
        /\ pointer' \in Places /\ pressing' \in BOOLEAN /\ down' \subseteq Mouse
    BY <1>t, <2>1 DEF Places
  <2> HIDE DEF y
  <2> QED BY <1>c, <2>1, <2>6, <2>7, <2>8
<1>2. ASSUME A!BeginPress PROVE LooperTypes' /\ HoverInv'
  <2> DEFINE e == A!MouseEvent("HOVER_EXIT", {})
  <2>1. A!Feed(<<e>>) /\ down = {} /\ pressing' = TRUE /\ UNCHANGED <<pointer, down, touching>>
    BY <1>2 DEF A!BeginPress
  <2>2. e \in MouseNotices /\ e.type = "HOVER_EXIT"
    BY <1>t, MouseEvents
  <2>4. HoverLeads(e, At(down, z), At(down', "away"))
    BY <2>1, <2>2 DEF HoverLeads, At
  <2>5. At(down, z) \in HoverStates /\ At(down', "away") \in HoverStates
    BY <1>a, <1>t, <2>1
  <2> HIDE DEF e
  <2>6. <<e>> \in Seq(MouseNotices) /\ Leads(<<e>>, HoverStep, HoverStates, At(down, z), At(down', "away"))
    BY <2>2, <2>4, <2>5, HoverOne
  <2> QED BY <1>c, <1>t, <2>1, <2>6
<1>3. ASSUME NEW b \in Mouse, A!Press(b) PROVE LooperTypes' /\ HoverInv'
  <2> DEFINE e == A!MouseEvent("DOWN", {b})
             g == A!MouseEvent("BUTTON_PRESS", down')
             first == IF pressing THEN <<e>> ELSE <<>>
             x == IF pressing THEN "either" ELSE z
             d == IF pressing THEN {b} ELSE down
  <2>1. A!Feed(first \o <<g>>) /\ pressing' = FALSE /\ down' = down \cup {b} /\ UNCHANGED <<pointer, touching>>
    BY <1>3 DEF A!Press
  <2>2. /\ e \in MouseNotices /\ g \in MouseNotices /\ e.type = "DOWN" /\ g.type = "BUTTON_PRESS"
        /\ e.ids = {b} /\ g.ids = down'
    BY <1>t, <2>1, MouseEvents
  <2>3. /\ At(down, z) \in HoverStates /\ At({b}, "either") \in HoverStates /\ At(d, x) \in HoverStates
        /\ At(down', x) \in HoverStates
    BY <1>a, <1>t, <2>1
  <2>4. HoverLeads(e, At(down, z), At({b}, "either")) /\ HoverLeads(g, At(d, x), At(down', x))
    BY <2>2 DEF HoverLeads, At
  <2> HIDE DEF e, g
  <2>5. first \in Seq(MouseNotices) /\ Leads(first, HoverStep, HoverStates, At(down, z), At(d, x))
    <3>1. CASE pressing
      BY <2>2, <2>3, <2>4, <3>1, HoverOne
    <3>2. CASE ~pressing
      BY <2>3, <3>2, LeadsEmpty
    <3> QED BY <3>1, <3>2
  <2>6. <<g>> \in Seq(MouseNotices) /\ Leads(<<g>>, HoverStep, HoverStates, At(d, x), At(down', x))
    BY <2>2, <2>3, <2>4, HoverOne
  <2>x. x \in {"over", "away", "either"}
    OBVIOUS
  <2> HIDE DEF first, x, d
  <2>7. /\ first \o <<g>> \in Seq(MouseNotices)
        /\ Leads(first \o <<g>>, HoverStep, HoverStates, At(down, z), At(down', x))
    BY <2>5, <2>6, LeadsConcat, ConcatElements
  <2> QED BY <1>c, <1>t, <2>1, <2>7, <2>x
<1>4. ASSUME NEW b \in Mouse, A!Release(b) PROVE LooperTypes' /\ HoverInv'
  <2> DEFINE e == A!MouseEvent("BUTTON_RELEASE", down')
             g == A!MouseEvent("UP", {})
             rest == IF down' = {} THEN <<g>> \o A!HoverAgain ELSE <<>>
             x == IF pointer = "out" THEN "away" ELSE z
             y == IF down' = {} THEN IF pointer = "in" THEN "over" ELSE x ELSE z
  <2>1. /\ A!Feed(<<e>> \o rest) /\ b \in down /\ down' = down \ {b}
        /\ UNCHANGED <<pointer, pressing, touching>>
    BY <1>4 DEF A!Release
  <2>2. /\ e \in MouseNotices /\ g \in MouseNotices /\ e.type = "BUTTON_RELEASE" /\ g.type = "UP"
        /\ e.ids = down' /\ g.ids = {} /\ g.at = pointer
    BY <1>t, <2>1, MouseEvents
  <2>3. /\ At(down, z) \in HoverStates /\ At(down', z) \in HoverStates /\ At({}, x) \in HoverStates
        /\ At({}, z) \in HoverStates
    BY <1>a, <1>t, <2>1
  <2>4. HoverLeads(e, At(down, z), At(down', z)) /\ HoverLeads(g, At({}, z), At({}, x))
    BY <2>2 DEF HoverLeads, At
  <2> HIDE DEF e, g
  <2>5. <<e>> \in Seq(MouseNotices) /\ Leads(<<e>>, HoverStep, HoverStates, At(down, z), At(down', z))
    BY <2>2, <2>3, <2>4, HoverOne
  <2>x. x \in {"over", "away", "either"}
    OBVIOUS
  <2>6. rest \in Seq(MouseNotices) /\ Leads(rest, HoverStep, HoverStates, At(down', z), At(down', y))
    <3>1. CASE down' = {}
      <4>1. <<g>> \in Seq(MouseNotices) /\ Leads(<<g>>, HoverStep, HoverStates, At({}, z), At({}, x))
        BY <2>2, <2>3, <2>4, HoverOne
      <4>2. /\ A!HoverAgain \in Seq(MouseNotices)
            /\ Leads(A!HoverAgain, HoverStep, HoverStates, At({}, x), At({}, y))
        BY <1>t, <2>x, <3>1, HoverGoesOn DEF At
      <4> HIDE DEF x, y
      <4>3. <<g>> \o A!HoverAgain \in Seq(MouseNotices)
        BY <4>1, <4>2, ConcatElements
      <4>4. Leads(<<g>> \o A!HoverAgain, HoverStep, HoverStates, At({}, z), At({}, y))
        BY <4>1, <4>2, LeadsConcat
      <4> QED BY <3>1, <4>3, <4>4
    <3>2. CASE down' # {}
      BY <2>3, <3>2, LeadsEmpty
    <3> QED BY <3>1, <3>2
  <2>y. /\ y \in {"over", "away", "either"}
        /\ down' = {} /\ ~pressing' => y = (IF pointer' = "in" THEN "over" ELSE "away")
        /\ pressing' => down' = {}
    BY <1>t, <2>1 DEF Places
  <2> HIDE DEF rest, x, y
  <2>7. /\ <<e>> \o rest \in Seq(MouseNotices)
        /\ Leads(<<e>> \o rest, HoverStep, HoverStates, At(down, z), At(down', y))
    BY <2>5, <2>6, LeadsConcat, ConcatElements
  <2> QED BY <1>c, <1>t, <2>1, <2>7, <2>y
<1>5. ASSUME NEW q \in {"in", "out"}, A!Drag(q) PROVE LooperTypes' /\ HoverInv'
  <2> DEFINE e == A!MouseEvent("MOVE", down)
  <2>1. A!Feed(<<e>>) /\ down # {} /\ pointer' = q /\ UNCHANGED <<pressing, down, touching>>
    BY <1>5 DEF A!Drag
  <2>2. e \in MouseNotices /\ e.type = "MOVE"
    BY <1>t, MouseEvents
  <2>4. HoverLeads(e, At(down, z), At(down', z))
    BY <2>1, <2>2 DEF HoverLeads, At
  <2>5. At(down, z) \in HoverStates /\ At(down', z) \in HoverStates
    BY <1>a, <1>t, <2>1
  <2> HIDE DEF e
  <2>6. <<e>> \in Seq(MouseNotices) /\ Leads(<<e>>, HoverStep, HoverStates, At(down, z), At(down', z))
    BY <2>2, <2>4, <2>5, HoverOne
  <2> QED BY <1>c, <1>t, <2>1, <2>6 DEF Places
<1>6. ASSUME A!Cancel PROVE LooperTypes' /\ HoverInv'
  <2> DEFINE e == A!Event("CANCEL", down, "mouse")
             x == IF pointer = "out" THEN "away" ELSE z
             y == IF pointer = "in" THEN "over" ELSE x
  <2>1. /\ A!Feed(<<e>> \o A!HoverAgain) /\ down # {} /\ down' = {} /\ touching' = {}
        /\ UNCHANGED <<pointer, pressing>>
    BY <1>6, <1>t DEF A!Cancel
  <2>2. e \in MouseNotices /\ e.type = "CANCEL" /\ e.at = pointer
    BY <1>t, MouseEvents
  <2>3. At(down, z) \in HoverStates /\ At({}, x) \in HoverStates
    BY <1>a, <1>t
  <2>4. HoverLeads(e, At(down, z), At({}, x))
    BY <2>2 DEF HoverLeads, At
  <2> HIDE DEF e
  <2>5. <<e>> \in Seq(MouseNotices) /\ Leads(<<e>>, HoverStep, HoverStates, At(down, z), At({}, x))
    BY <2>2, <2>3, <2>4, HoverOne
  <2>x. x \in {"over", "away", "either"}
    OBVIOUS
  <2>6. /\ A!HoverAgain \in Seq(MouseNotices)
        /\ Leads(A!HoverAgain, HoverStep, HoverStates, At({}, x), At({}, y))
    BY <1>t, <2>x, HoverGoesOn DEF At
  <2>y. y \in {"over", "away", "either"} /\ y = (IF pointer' = "in" THEN "over" ELSE "away")
    BY <1>t, <2>1 DEF Places
  <2> HIDE DEF x, y
  <2>7. /\ <<e>> \o A!HoverAgain \in Seq(MouseNotices)
        /\ Leads(<<e>> \o A!HoverAgain, HoverStep, HoverStates, At(down, z), At({}, y))
    BY <2>5, <2>6, LeadsConcat, ConcatElements
  <2> QED BY <1>c, <1>t, <2>1, <2>7, <2>y
<1>7. ASSUME NEW f, A!Touch(f) \/ A!Lift(f) \/ A!Explore(f) PROVE FALSE
  <2>1. PICK type, ids : A!Feed(<<A!TouchEvent(type, ids)>>)
    BY <1>7 DEF A!Touch, A!Lift, A!Explore
  <2>2. A!TouchEvent(type, ids).tool = "finger"
    BY DEF A!TouchEvent, A!Event
  <2>3. A!TouchEvent(type, ids) \in {A!TouchEvent(type, ids)}
    OBVIOUS
  <2> QED BY <1>n, <2>1, <2>2, <2>3
<1>8. ASSUME A!Slide PROVE FALSE
  BY <1>8, <1>t DEF A!Slide
<1>9. ~(\/ A!Pause \/ A!Resume \/ A!LowerShutter \/ A!RaiseShutter \/ A!Rotate \/ A!Close
        \/ \E s \in Sizes : A!Resize(s))
  BY LifeKeeps
<1> QED BY <1>1, <1>2, <1>3, <1>4, <1>5, <1>6, <1>7, <1>8, <1>9 DEF A!System

\* What the callbacks say of an event of any kind agrees with the window.
LEMMA TellKeeps ==
    ASSUME told \in [size : Sizes, inside : BOOLEAN, buttons : SUBSET (0 .. 7)],
           NEW pressed \in SUBSET (0 .. 7), A!TellButtons(pressed), is_mouse_inside' \in BOOLEAN
    PROVE  /\ button_status' = pressed /\ told'.buttons = pressed /\ told'.inside = is_mouse_inside'
           /\ told' \in [size : Sizes, inside : BOOLEAN, buttons : SUBSET (0 .. 7)]
BY DEF A!TellButtons

\* The handler of an event of the mouse (handle_input).
LEMMA MouseHandled ==
    ASSUME PointerParameters, HandlerAgrees, button_status = mouse_button_state, NEW e \in MouseNotices,
           A!OnDown(e) \/ A!OnUp(e) \/ A!OnButton(e) \/ A!OnMove(e) \/ A!OnCancel(e) \/ A!OnHover(e)
    PROVE  /\ button_status' = (IF e.type \in {"DOWN", "UP", "BUTTON_PRESS", "BUTTON_RELEASE"} THEN e.ids
                                ELSE IF e.type = "CANCEL" THEN {} ELSE button_status)
           /\ mouse_button_state' = button_status' /\ button_status' \subseteq Mouse
           /\ is_mouse_inside' \in BOOLEAN /\ pending_hover_exit' \in BOOLEAN
           /\ told' \in [size : Sizes, inside : BOOLEAN, buttons : SUBSET (0 .. 7)]
           /\ told'.buttons = button_status' /\ told'.inside = is_mouse_inside'
           /\ CASE e.type = "HOVER_ENTER" -> is_mouse_inside' /\ ~pending_hover_exit'
                [] e.type = "HOVER_EXIT" -> pending_hover_exit'
                [] e.type = "HOVER_MOVE" -> (is_mouse_inside' <=> is_mouse_inside) /\ ~pending_hover_exit'
                [] e.type = "DOWN" -> TRUE
                [] e.type \in {"UP", "CANCEL"} ->
                       /\ is_mouse_inside' <=> (is_mouse_inside /\ e.at = "in")
                       /\ pending_hover_exit' <=> pending_hover_exit
                [] OTHER -> (is_mouse_inside' <=> is_mouse_inside) /\ (pending_hover_exit' <=> pending_hover_exit)
<1>0. /\ e.tool = "mouse" /\ e.ids \subseteq Mouse /\ Mouse \subseteq 0 .. 7 /\ button_status \subseteq Mouse
      /\ told \in [size : Sizes, inside : BOOLEAN, buttons : SUBSET (0 .. 7)]
      /\ told.buttons = button_status /\ told.inside = is_mouse_inside
      /\ is_mouse_inside \in BOOLEAN /\ pending_hover_exit \in BOOLEAN
  BY DEF MouseNotices, HandlerAgrees, PointerParameters
<1>1. ASSUME NEW ids \in SUBSET Mouse, A!apply_mouse_button_state(ids), is_mouse_inside' \in BOOLEAN
      PROVE  /\ button_status' = ids /\ mouse_button_state' = ids
             /\ told' \in [size : Sizes, inside : BOOLEAN, buttons : SUBSET (0 .. 7)]
             /\ told'.buttons = ids /\ told'.inside = is_mouse_inside'
  <2>1. mouse_button_state' = ids /\ A!TellButtons((button_status \ mouse_button_state) \cup ids)
    BY <1>1 DEF A!apply_mouse_button_state
  <2>2. (button_status \ mouse_button_state) \cup ids = ids /\ ids \in SUBSET (0 .. 7)
    BY <1>0
  <2> QED BY <1>0, <1>1, <2>1, <2>2, TellKeeps
<1>2. CASE A!OnDown(e)
  <2>1. e.type = "DOWN"
    BY <1>2 DEF A!OnDown, MouseNotices
  <2>2. A!apply_mouse_button_state(e.ids) /\ is_mouse_inside' = is_mouse_inside
    BY <1>0, <1>2 DEF A!OnDown, A!is_mouse_event
  <2>3. pending_hover_exit' \in BOOLEAN
    BY <1>2 DEF A!OnDown
  <2> QED BY <1>0, <1>1, <2>1, <2>2, <2>3
<1>3. CASE A!OnUp(e) \/ A!OnCancel(e)
  <2> DEFINE ids == IF e.type = "UP" THEN e.ids ELSE {}
  <2>1. e.type \in {"UP", "CANCEL"}
    BY <1>3 DEF A!OnUp, A!OnCancel, MouseNotices
  <2>2. A!apply_mouse_button_state(ids) /\ pending_hover_exit' = pending_hover_exit /\ A!settle_mouse_inside(e)
    BY <1>0, <1>3, <2>1 DEF A!OnUp, A!OnCancel, A!is_mouse_event
  <2>3. is_mouse_inside' = (is_mouse_inside /\ e.at = "in")
    BY <1>0, <2>2 DEF A!settle_mouse_inside, A!is_hover_capable_pointer
  <2>4. is_mouse_inside' \in BOOLEAN
    BY <2>3
  <2>5. ids \in SUBSET Mouse
    BY <1>0
  <2>6. /\ button_status' = ids /\ mouse_button_state' = ids
        /\ told' \in [size : Sizes, inside : BOOLEAN, buttons : SUBSET (0 .. 7)]
        /\ told'.buttons = ids /\ told'.inside = is_mouse_inside'
    BY <1>1, <2>2, <2>4, <2>5
  <2> QED BY <1>0, <2>1, <2>2, <2>3, <2>4, <2>6
<1>4. CASE A!OnButton(e)
  <2>1. e.type \in {"BUTTON_PRESS", "BUTTON_RELEASE"} /\ A!apply_mouse_button_state(e.ids)
        /\ is_mouse_inside' = is_mouse_inside /\ pending_hover_exit' = pending_hover_exit
    BY <1>4 DEF A!OnButton
  <2> QED BY <1>0, <1>1, <2>1
<1>5. CASE A!OnMove(e)
  <2>1. e.type = "MOVE" /\ UNCHANGED <<is_mouse_inside, mouse_button_state, pending_hover_exit, told, button_status>>
    BY <1>0, <1>5 DEF A!OnMove, A!is_mouse_event
  <2> QED BY <1>0, <2>1
<1>6. CASE A!OnHover(e)
  <2>1. /\ e.type \in {"HOVER_MOVE", "HOVER_ENTER", "HOVER_EXIT"}
        /\ pending_hover_exit' = (e.type = "HOVER_EXIT")
        /\ is_mouse_inside' = (is_mouse_inside \/ e.type = "HOVER_ENTER")
        /\ told' = [told EXCEPT !.inside = is_mouse_inside']
        /\ UNCHANGED <<button_status, mouse_button_state>>
    BY <1>0, <1>6 DEF A!OnHover, A!is_hover_capable_pointer
  <2>2. pending_hover_exit' \in BOOLEAN /\ is_mouse_inside' \in BOOLEAN
    BY <2>1
  <2>3. /\ told' \in [size : Sizes, inside : BOOLEAN, buttons : SUBSET (0 .. 7)]
        /\ told'.buttons = button_status /\ told'.inside = is_mouse_inside'
    BY <1>0, <2>1, <2>2
  <2> QED BY <1>0, <2>1, <2>2, <2>3
<1> QED BY <1>2, <1>3, <1>4, <1>5, <1>6

\* An event of the mouse does to the window what the queue promised.
LEMMA MouseInputKeeps ==
    ASSUME PointerParameters, LooperTypes, HandlerAgrees, HoverInv, A!TakeInput
    PROVE  LooperTypes' /\ HandlerAgrees' /\ HoverInv'
<1> DEFINE e == Head(events)
<1>0. /\ pc = "poll" /\ events # <<>> /\ events' = Tail(events) /\ A!handle_input(e)
      /\ UNCHANGED <<pointer, pressing, down, touching, commands, userData, destroyRequested, close, held, pc>>
  BY DEF A!TakeInput, A!Polling, A!system, A!app
<1>1. events \in Seq(MouseNotices) /\ button_status = mouse_button_state /\ close = FALSE /\ userData = TRUE
  BY <1>0 DEF HoverInv, HandlerAgrees
<1>2. /\ e \in MouseNotices /\ events' \in Seq(MouseNotices) /\ Len(events') <= MaxQueue
  <2>1. Len(events) \in Nat /\ Len(events) <= MaxQueue /\ Len(events') = Len(events) - 1 /\ MaxQueue \in Nat
    BY <1>0, <1>1, TailElements DEF LooperTypes, PointerParameters
  <2> QED BY <1>0, <1>1, <2>1, TailElements
<1>3. A!OnDown(e) \/ A!OnUp(e) \/ A!OnButton(e) \/ A!OnMove(e) \/ A!OnCancel(e) \/ A!OnHover(e)
  BY <1>0, <1>1 DEF A!handle_input
<1>p. PICK p \in {"over", "away", "either"}, z \in {"over", "away", "either"} :
          Shows(p) /\ Means(z) /\ Leads(events, HoverStep, HoverStates, HoverNow(p), HoverThen(z))
  BY DEF HoverInv, HoverFollows
<1>4. PICK c \in HoverStates : <<e, HoverNow(p), c>> \in HoverStep /\ Leads(Tail(events), HoverStep, HoverStates, c, HoverThen(z))
  BY <1>0, <1>1, <1>p, LeadsTail
<1>5. HoverNow(p) \in HoverStates
  BY <1>1 DEF HoverNow, HoverStates, HandlerAgrees
<1>6. HoverLeads(e, HoverNow(p), c)
  BY <1>2, <1>4, <1>5, HoverSteps
<1> HIDE DEF e
<1>7. /\ c.place \in {"over", "away", "either"} /\ c = [held |-> c.held, place |-> c.place]
  BY DEF HoverStates
<1>8. c.held = button_status'
  BY <1>1, <1>2, <1>3, <1>6, MouseHandled DEF HoverLeads, HoverNow
<1>9. Shows(c.place)'
  <2>0. is_mouse_inside \in BOOLEAN /\ pending_hover_exit \in BOOLEAN
    BY DEF HandlerAgrees
  <2>1. p = "over" => is_mouse_inside /\ ~pending_hover_exit
    BY <1>p DEF Shows
  <2>2. p = "away" => ~(is_mouse_inside /\ ~pending_hover_exit)
    BY <1>p DEF Shows
  <2>3. /\ c.place = (IF e.type = "HOVER_ENTER" THEN "over"
                  ELSE IF e.type = "HOVER_EXIT" THEN "away"
                  ELSE IF e.type = "DOWN" THEN "either"
                  ELSE IF e.type \in {"UP", "CANCEL"} /\ e.at = "out" THEN "away" ELSE p)
        /\ e.type = "HOVER_MOVE" => p = "over"
        /\ e.at \in {"in", "out"}
    BY <1>2, <1>6 DEF HoverLeads, HoverNow, MouseNotices, Places
  <2> DEFINE b == c.place
  <2>4. b = "over" => is_mouse_inside' /\ ~pending_hover_exit'
    BY <1>1, <1>2, <1>3, <2>1, <2>3, MouseHandled
  <2>5. b = "away" => ~(is_mouse_inside' /\ ~pending_hover_exit')
    BY <1>1, <1>2, <1>3, <2>2, <2>3, MouseHandled
  <2> QED BY <1>7, <2>4, <2>5 DEF Shows
<1>10. HoverFollows'
  <2>1. c = HoverNow(c.place)' /\ HoverThen(z)' = HoverThen(z) /\ Means(z)'
    BY <1>0, <1>7, <1>8, <1>p DEF HoverNow, HoverThen, Means
  <2>2. Shows(c.place)' /\ Means(z)' /\ Leads(events', HoverStep, HoverStates, HoverNow(c.place)', HoverThen(z)')
    BY <1>0, <1>4, <1>9, <2>1
  <2> QED BY <1>7, <2>2 DEF HoverFollows
<1>11. HoverInv'
  BY <1>0, <1>1, <1>2, <1>3, <1>10, MouseHandled DEF HoverInv
<1>12. LooperTypes'
  BY <1>0, <1>2 DEF LooperTypes
<1>13. HandlerAgrees'
  <2>1. button_status' \subseteq 0 .. 7 /\ mouse_button_state' \subseteq Mouse
    BY <1>1, <1>2, <1>3, MouseHandled DEF PointerParameters
  <2> QED BY <1>0, <1>1, <1>2, <1>3, <2>1, MouseHandled DEF HandlerAgrees
<1> QED BY <1>11, <1>12, <1>13

--------------------------------------------------------------------------------
(* The calls, the commands and the opening.                                         *)

\* Where a poll ends, or goes on, the hover exit that is held back becomes a leave.
LEMMA FlushKeeps ==
    ASSUME HandlerAgrees, A!flush_pending_hover_exit
    PROVE  /\ pending_hover_exit' = FALSE /\ is_mouse_inside' \in BOOLEAN
           /\ is_mouse_inside' <=> (is_mouse_inside /\ ~pending_hover_exit)
           /\ UNCHANGED <<button_status, mouse_button_state>>
           /\ told' \in [size : Sizes, inside : BOOLEAN, buttons : SUBSET (0 .. 7)]
           /\ told'.buttons = button_status /\ told'.inside = is_mouse_inside'
<1>1. /\ pending_hover_exit' = FALSE /\ is_mouse_inside' = (is_mouse_inside /\ ~pending_hover_exit)
      /\ told' = [told EXCEPT !.inside = is_mouse_inside'] /\ UNCHANGED <<button_status, mouse_button_state>>
  BY DEF A!flush_pending_hover_exit
<1>2. is_mouse_inside' \in BOOLEAN
  BY <1>1
<1>3. /\ told \in [size : Sizes, inside : BOOLEAN, buttons : SUBSET (0 .. 7)] /\ told.buttons = button_status
  BY DEF HandlerAgrees
<1>4. /\ told' \in [size : Sizes, inside : BOOLEAN, buttons : SUBSET (0 .. 7)]
      /\ told'.buttons = button_status /\ told'.inside = is_mouse_inside'
  BY <1>1, <1>2, <1>3
<1> QED BY <1>1, <1>2, <1>4

\* A step of the opening, a command, the end of a poll or a call: the events stay, and the
\* pointer is over the window as before.
OtherStep ==
    \/ A!mfb_open_ex \/ A!TakeCommand \/ A!FrameDue \/ A!FrameNotDue \/ A!PollEnds \/ A!Destroyed \/ A!LooperFails
    \/ \E b \in {0, FirstSize} : A!mfb_update_ex(b)
    \/ A!Pump \/ A!Application

PointersStay ==
    /\ UNCHANGED <<pointer, pressing, down, touching, events, button_status, mouse_button_state>>
    /\ is_mouse_inside' \in BOOLEAN /\ pending_hover_exit' \in BOOLEAN
    /\ (is_mouse_inside' /\ ~pending_hover_exit') <=> (is_mouse_inside /\ ~pending_hover_exit)
    /\ is_mouse_inside' => is_mouse_inside
    /\ pending_hover_exit' => pending_hover_exit
    /\ destroyRequested => destroyRequested'
    /\ commands = <<>> => commands' = <<>> /\ destroyRequested' = destroyRequested

\* What is held on the way, and who finds the window.
LEMMA HeldKeeps ==
    ASSUME HandlerAgrees, OtherStep
    PROVE  held' \subseteq A!ToSet(A!Wanted)
<1>0. held \subseteq A!ToSet(A!Wanted)
  BY DEF HandlerAgrees
<1>1. CASE A!mfb_open_ex
  <2>1. held' = {} \/ held' = held \/ \E n \in 1 .. Len(A!Wanted) : held' = A!ToSet(SubSeq(A!Wanted, 1, n))
    BY <1>1 DEF A!mfb_open_ex, A!destroy_window_data
  <2>2. ASSUME NEW n \in 1 .. Len(A!Wanted) PROVE A!ToSet(SubSeq(A!Wanted, 1, n)) \subseteq A!ToSet(A!Wanted)
    BY DEF A!ToSet, A!Wanted
  <2> QED BY <1>0, <2>1, <2>2
<1>2. CASE ~A!mfb_open_ex
  <2>1. held' = {} \/ held' = held
    BY <1>2 DEF OtherStep, A!TakeCommand, A!FrameDue, A!FrameNotDue, A!PollEnds, A!Destroyed, A!LooperFails,
       A!mfb_update_ex, A!Pump, A!Application, A!Call, A!mfb_close, A!mfb_set_viewport, A!End, A!Fail, A!Return, A!Poll,
       A!destroy_window_data, A!data
  <2> QED BY <1>0, <2>1
<1> QED BY <1>1, <1>2

LEMMA OtherStepsKeep ==
    ASSUME Parameters, PointerParameters, AndroidIInv, LooperTypes, HandlerAgrees, OtherStep
    PROVE  LooperTypes' /\ HandlerAgrees' /\ PointersStay
<1> DEFINE Told == /\ told' \in [size : Sizes, inside : BOOLEAN, buttons : SUBSET (0 .. 7)]
                   /\ told'.buttons = button_status' /\ told'.inside = is_mouse_inside'
           Looper == /\ UNCHANGED <<pointer, pressing, down, touching, events>>
                     /\ destroyRequested => destroyRequested'
                     /\ commands = <<>> => commands' = <<>> /\ destroyRequested' = destroyRequested
                     /\ commands' \in Seq(Commands) /\ Len(commands') <= MaxQueue
           Found == pc' \in {"idle", "called", "poll"} => userData' = TRUE
           Flushed == pc' \in {"opening", "idle", "called"} => pending_hover_exit' = FALSE
           Same == UNCHANGED <<button_status, mouse_button_state, is_mouse_inside, pending_hover_exit>>
<1>t. /\ told \in [size : Sizes, inside : BOOLEAN, buttons : SUBSET (0 .. 7)]
      /\ told.buttons = button_status /\ told.inside = is_mouse_inside
      /\ is_mouse_inside \in BOOLEAN /\ pending_hover_exit \in BOOLEAN
      /\ commands \in Seq(Commands) /\ Len(commands) <= MaxQueue
      /\ pc \in {"opening", "idle", "called"} => pending_hover_exit = FALSE
      /\ pc \in {"idle", "called", "poll"} => userData = TRUE
  BY DEF HandlerAgrees, LooperTypes
<1>s. ASSUME Same, Told, Looper, Found, Flushed PROVE LooperTypes' /\ HandlerAgrees' /\ PointersStay
  <2>1. LooperTypes'
    BY <1>s DEF LooperTypes
  <2>2. HandlerAgrees'
    BY <1>s, <1>t, HeldKeeps DEF HandlerAgrees
  <2>3. PointersStay
    BY <1>s, <1>t DEF PointersStay
  <2> QED BY <2>1, <2>2, <2>3
<1>f. ASSUME A!flush_pending_hover_exit, Looper, Found PROVE LooperTypes' /\ HandlerAgrees' /\ PointersStay
  <2>1. LooperTypes'
    BY <1>f DEF LooperTypes
  <2>2. /\ pending_hover_exit' = FALSE /\ is_mouse_inside' \in BOOLEAN
        /\ UNCHANGED <<button_status, mouse_button_state>> /\ Told
    BY <1>f, FlushKeeps
  <2>3. HandlerAgrees'
    BY <1>f, <2>2, HeldKeeps DEF HandlerAgrees
  <2>4. PointersStay
    BY <1>f, <2>2, FlushKeeps DEF PointersStay
  <2> QED BY <2>1, <2>3, <2>4
<1>1. CASE A!mfb_open_ex
  <2>1. /\ UNCHANGED <<pointer, pressing, down, touching, events, commands, destroyRequested, told>> /\ Same
        /\ pc = "opening" /\ (pc' = "idle" => userData' = TRUE) /\ pc' \in {"opening", "failed", "idle"}
    BY <1>1 DEF A!mfb_open_ex, A!system, A!queues, A!pointing, A!destroy_window_data
  <2> QED BY <1>s, <1>t, <2>1
<1>2. CASE A!TakeCommand
  <2>1. /\ UNCHANGED <<pointer, pressing, down, touching, events, userData, pc>> /\ Same
        /\ pc = "poll" /\ commands # <<>> /\ commands' = Tail(commands)
        /\ destroyRequested' = (destroyRequested \/ Head(commands).type = "DESTROY")
        /\ told' = told \/ (surface > 0 /\ told' = [told EXCEPT !.size = surface])
    BY <1>2 DEF A!TakeCommand, A!Polling, A!handle_cmd, A!pointing
  <2>2. commands' \in Seq(Commands) /\ Len(commands') <= MaxQueue
    <3>1. Len(commands) \in Nat /\ Len(commands') = Len(commands) - 1 /\ MaxQueue \in Nat
      BY <1>t, <2>1, TailElements DEF PointerParameters
    <3> QED BY <1>t, <2>1, <3>1, TailElements
  <2>3. surface > 0 => surface \in Sizes
    BY DEF AndroidIInv, AndroidTypesOK, Parameters
  <2>4. /\ told' \in [size : Sizes, inside : BOOLEAN, buttons : SUBSET (0 .. 7)]
        /\ told'.buttons = told.buttons /\ told'.inside = told.inside
    BY <1>t, <2>1, <2>3
  <2>5. destroyRequested => destroyRequested'
    BY <2>1
  <2> QED BY <1>s, <1>t, <2>1, <2>2, <2>4, <2>5
<1>3. CASE A!FrameDue \/ A!FrameNotDue \/ A!PollEnds \/ A!LooperFails
  <2>1. /\ UNCHANGED <<pointer, pressing, down, touching, events, commands, destroyRequested>>
        /\ pc = "poll" /\ A!flush_pending_hover_exit
        /\ userData' = userData \/ pc' = "gone"
    BY <1>3 DEF A!FrameDue, A!FrameNotDue, A!PollEnds, A!LooperFails, A!Drained, A!Polling, A!Return, A!Poll, A!End, A!Fail,
       A!system, A!queues
  <2> QED BY <1>f, <1>t, <2>1
<1>4. CASE A!Destroyed \/ A!Pump \/ \E b \in {0, FirstSize} : A!mfb_update_ex(b)
  <2>1. /\ UNCHANGED <<pointer, pressing, down, touching, events, commands, destroyRequested, told>> /\ Same
        /\ pc \in {"called", "poll"} /\ pc' \in {"idle", "poll", "gone"} /\ (pc = "poll" => pc' = "gone")
        /\ userData' = userData \/ pc' = "gone"
    BY <1>4 DEF A!Destroyed, A!Pump, A!mfb_update_ex, A!Return, A!Poll, A!End, A!Fail, A!system, A!queues, A!pointing
  <2> QED BY <1>s, <1>t, <2>1
<1>5. CASE A!Application
  <2>1. /\ UNCHANGED <<pointer, pressing, down, touching, events, commands, destroyRequested, told, userData>> /\ Same
        /\ pc' = pc \/ (pc = "idle" /\ pc' = "called")
    <3>1. CASE A!mfb_close
      BY <3>1 DEF A!mfb_close, A!system, A!queues, A!pointing, A!app, A!program
    <3>2. CASE \E c \in {"update_ex", "update_events", "wait_sync"} : A!Call(c)
      BY <3>2 DEF A!Call, A!system, A!queues, A!pointing, A!app
    <3>3. CASE \E x \in Sizes \cup {0}, t \in Sizes : A!mfb_set_viewport(x, t)
      BY <3>3 DEF A!mfb_set_viewport, A!system, A!queues, A!pointing, A!app, A!program
    <3> QED BY <1>5, <3>1, <3>2, <3>3 DEF A!Application
  <2> QED BY <1>s, <1>t, <2>1
<1> QED BY <1>1, <1>2, <1>3, <1>4, <1>5 DEF OtherStep

\* They keep what the queue promises.
LEMMA HoverOtherKeeps ==
    ASSUME HoverInv, PointersStay, close' = close
    PROVE  HoverInv'
<1>p. PICK p \in {"over", "away", "either"}, z \in {"over", "away", "either"} :
          Shows(p) /\ Means(z) /\ Leads(events, HoverStep, HoverStates, HoverNow(p), HoverThen(z))
  BY DEF HoverInv, HoverFollows
<1>1. Shows(p)' /\ Means(z)'
  BY <1>p DEF Shows, Means, PointersStay
<1>2. events' = events /\ HoverNow(p)' = HoverNow(p) /\ HoverThen(z)' = HoverThen(z)
  BY DEF PointersStay, HoverNow, HoverThen
<1>3. Leads(events', HoverStep, HoverStates, HoverNow(p)', HoverThen(z)')
  BY <1>p, <1>2
<1>4. HoverFollows'
  BY <1>1, <1>3 DEF HoverFollows
<1> QED BY <1>2, <1>4 DEF HoverInv, PointersStay

LEMMA CloseStays ==
    ASSUME Parameters, AndroidIInv, OtherStep
    PROVE  close => close'
<1>1. CASE A!mfb_open_ex
  BY <1>1, OpeningKeeps
<1>2. CASE A!TakeCommand
  BY <1>2, CommandKeeps
<1>3. CASE \E b \in {0, FirstSize} : A!mfb_update_ex(b)
  BY <1>3, UpdateKeeps
<1>4. CASE A!Pump \/ A!FrameDue \/ A!FrameNotDue \/ A!PollEnds \/ A!Destroyed \/ A!LooperFails
  BY <1>4, PumpKeeps
<1>5. CASE A!Application
  BY <1>5, CallsKeep
<1> QED BY <1>1, <1>2, <1>3, <1>4, <1>5 DEF OtherStep

LEMMA TouchOtherKeeps ==
    ASSUME TouchInv, PointersStay, close => close', close' => close \/ destroyRequested'
    PROVE  TouchInv'
<1>1. events' = events /\ touching' = touching /\ button_status' = button_status
  BY DEF PointersStay
<1>2. ~close' => Leads(events', FingerStep, SUBSET (0 .. 7), button_status', A!Indices(touching)')
  BY <1>1 DEF TouchInv, A!Indices
<1> QED BY <1>1, <1>2 DEF TouchInv, PointersStay

--------------------------------------------------------------------------------
(* The fingers.                                                                     *)
LEMMA IndicesTyped ==
    ASSUME PointerParameters, NEW ids \in SUBSET Fingers
    PROVE  A!Indices(ids) \in SUBSET (0 .. 7)
<1>1. ASSUME NEW id \in Nat PROVE id % 8 \in 0 .. 7
  OBVIOUS
<1> QED BY <1>1 DEF PointerParameters, A!Indices, A!Index

\* As no two fingers share an index, one that is lifted takes nothing else along.
LEMMA IndicesOfOne ==
    ASSUME PointerParameters, NEW ids \in SUBSET Fingers, NEW f \in Fingers
    PROVE  /\ A!Indices(ids \cup {f}) = A!Indices(ids) \cup A!Indices({f})
           /\ A!Indices(ids \ {f}) = A!Indices(ids) \ A!Indices({f})
           /\ A!Indices({}) = {}
BY DEF PointerParameters, A!Indices, A!Index

LEMMA FingerSteps ==
    ASSUME NEW e \in FingerNotices, NEW a \in SUBSET (0 .. 7), NEW b \in SUBSET (0 .. 7)
    PROVE  <<e, a, b>> \in FingerStep <=> FingerLeads(e, a, b)
BY DEF FingerStep

LEMMA FingerEvents ==
    ASSUME pointer \in Places
    PROVE  /\ \A ids \in SUBSET Fingers :
                 /\ A!TouchEvent("HOVER_EXIT", ids) \in FingerNotices /\ A!TouchEvent("HOVER_ENTER", ids) \in FingerNotices
                 /\ A!TouchEvent("DOWN", ids) \in FingerNotices /\ A!TouchEvent("UP", ids) \in FingerNotices
                 /\ A!TouchEvent("POINTER_DOWN", ids) \in FingerNotices /\ A!TouchEvent("POINTER_UP", ids) \in FingerNotices
                 /\ A!TouchEvent("MOVE", ids) \in FingerNotices /\ A!TouchEvent("CANCEL", ids) \in FingerNotices
           /\ \A type, ids : A!TouchEvent(type, ids).type = type /\ A!TouchEvent(type, ids).ids = ids
BY DEF A!TouchEvent, A!Event, FingerNotices

\* What the fingers do, the queue says.
LEMMA TouchUserKeeps ==
    ASSUME PointerParameters, LooperTypes, HandlerAgrees, TouchInv, A!System,
           \A i \in 1 .. Len(events') : events'[i].tool = "finger"
    PROVE  LooperTypes' /\ TouchInv'
<1>0. UNCHANGED <<destroyRequested, close, button_status, mouse_button_state, is_mouse_inside, pending_hover_exit>>
  BY DEF A!System, A!app, A!pointing, A!data
<1>t. /\ pointer \in Places /\ pressing = FALSE /\ down = {} /\ touching \subseteq Fingers
      /\ events \in Seq(FingerNotices) /\ button_status \in SUBSET (0 .. 7)
      /\ commands \in Seq(Commands) /\ Len(commands) <= MaxQueue
  BY DEF LooperTypes, TouchInv, HandlerAgrees
<1> DEFINE I == A!Indices(touching)
<1>i. I \in SUBSET (0 .. 7)
  BY <1>t, IndicesTyped
<1>c. ASSUME NEW e \in FingerNotices, A!Feed(<<e>>), UNCHANGED <<pointer, pressing, down>>,
             touching' \subseteq Fingers, FingerLeads(e, I, A!Indices(touching'))
      PROVE  LooperTypes' /\ TouchInv'
  <2>0. <<e>> \in Seq(FingerNotices)
    OBVIOUS
  <2>1. /\ Len(events') <= MaxQueue /\ events' = events \o <<e>> /\ commands' = commands
    BY <1>c, <1>t, <2>0, FeedKeeps
  <2>2. events' \in Seq(FingerNotices)
    BY <1>t, <2>0, <2>1, ConcatElements
  <2>3. A!Indices(touching') \in SUBSET (0 .. 7)
    BY <1>c, IndicesTyped
  <2>4. <<e, I, A!Indices(touching')>> \in FingerStep
    BY <1>c, <1>i, <2>3, FingerSteps
  <2>5. ASSUME ~close PROVE Leads(events', FingerStep, SUBSET (0 .. 7), button_status, A!Indices(touching'))
    <3>1. Leads(events, FingerStep, SUBSET (0 .. 7), button_status, I)
      BY <2>5 DEF TouchInv
    <3> HIDE DEF I
    <3> QED BY <1>i, <1>t, <2>1, <2>3, <2>4, <3>1, LeadsAppend
  <2>6. A!Indices(touching)' = A!Indices(touching')
    BY DEF A!Indices
  <2>7. TouchInv'
    BY <1>0, <1>c, <1>t, <2>2, <2>5, <2>6 DEF TouchInv
  <2> QED BY <1>c, <1>t, <2>1, <2>7 DEF LooperTypes
<1>n. ASSUME NEW T, NEW s \in Seq(T), s # <<>>, A!Feed(s) PROVE s[1].tool = "finger"
  BY <1>n, <1>t, FeedKeeps
<1>m. ASSUME NEW T, NEW e \in T, A!Feed(<<e>>) PROVE e.tool = "finger"
  <2>1. <<e>> \in Seq(T) /\ <<e>> # <<>> /\ <<e>>[1] = e
    <3>1. Len(<<e>>) = 1
      OBVIOUS
    <3> QED BY <3>1, EmptySeq
  <2> QED BY <1>m, <1>n, <2>1
<1>1. ASSUME NEW q \in {"in", "out"}, A!Hover(q) PROVE FALSE
  <2> DEFINE type == IF q = pointer THEN "HOVER_MOVE" ELSE IF q = "in" THEN "HOVER_ENTER" ELSE "HOVER_EXIT"
             e == [A!MouseEvent(type, {}) EXCEPT !.at = q]
  <2>1. A!Feed(<<e>>) /\ e \in {e}
    BY <1>1 DEF A!Hover
  <2>2. e.tool = "mouse"
    BY DEF A!MouseEvent, A!Event
  <2> HIDE DEF e
  <2> QED BY <1>m, <2>1, <2>2
<1>2. ASSUME A!BeginPress PROVE FALSE
  <2> DEFINE e == A!MouseEvent("HOVER_EXIT", {})
  <2>1. A!Feed(<<e>>) /\ e \in {e}
    BY <1>2 DEF A!BeginPress
  <2>2. e.tool = "mouse"
    BY DEF A!MouseEvent, A!Event
  <2> HIDE DEF e
  <2> QED BY <1>m, <2>1, <2>2
<1>3. ASSUME NEW b, A!Press(b) \/ A!Release(b) \/ A!Drag(b) PROVE FALSE
  BY <1>3, <1>t DEF A!Press, A!Release, A!Drag
<1>4. ASSUME A!Slide PROVE LooperTypes' /\ TouchInv'
  <2> DEFINE e == A!TouchEvent("MOVE", touching)
  <2>1. A!Feed(<<e>>) /\ UNCHANGED <<pointer, pressing, down, touching>>
    BY <1>4 DEF A!Slide
  <2>2. e \in FingerNotices /\ e.type = "MOVE" /\ e.ids = touching
    BY <1>t, FingerEvents
  <2> HIDE DEF e
  <2>3. FingerLeads(e, I, A!Indices(touching'))
    BY <2>1, <2>2 DEF FingerLeads
  <2> QED BY <1>c, <1>t, <2>1, <2>2, <2>3
<1>5. ASSUME NEW f \in Fingers, A!Touch(f) PROVE LooperTypes' /\ TouchInv'
  <2> DEFINE e == A!TouchEvent(IF touching = {} THEN "DOWN" ELSE "POINTER_DOWN", {f})
  <2>1. A!Feed(<<e>>) /\ touching' = touching \cup {f} /\ UNCHANGED <<pointer, pressing, down>>
    BY <1>5 DEF A!Touch
  <2>2. e \in FingerNotices /\ e.type \in {"DOWN", "POINTER_DOWN"} /\ e.ids = {f}
    BY <1>t, FingerEvents
  <2> HIDE DEF e
  <2>3. A!Indices(touching') = I \cup A!Indices({f})
    BY <1>t, <2>1, IndicesOfOne
  <2>4. FingerLeads(e, I, A!Indices(touching'))
    BY <2>2, <2>3 DEF FingerLeads
  <2> QED BY <1>c, <1>t, <2>1, <2>2, <2>4
<1>6. ASSUME NEW f \in Fingers, A!Lift(f) PROVE LooperTypes' /\ TouchInv'
  <2> DEFINE e == A!TouchEvent(IF touching = {f} THEN "UP" ELSE "POINTER_UP", {f})
  <2>1. A!Feed(<<e>>) /\ touching' = touching \ {f} /\ UNCHANGED <<pointer, pressing, down>>
    BY <1>6 DEF A!Lift
  <2>2. e \in FingerNotices /\ e.type \in {"UP", "POINTER_UP"} /\ e.ids = {f}
    BY <1>t, FingerEvents
  <2> HIDE DEF e
  <2>3. A!Indices(touching') = I \ A!Indices({f})
    BY <1>t, <2>1, IndicesOfOne
  <2>4. FingerLeads(e, I, A!Indices(touching'))
    BY <2>2, <2>3 DEF FingerLeads
  <2> QED BY <1>c, <1>t, <2>1, <2>2, <2>4
<1>7. ASSUME NEW type \in {"HOVER_ENTER", "HOVER_EXIT"}, A!Explore(type) PROVE LooperTypes' /\ TouchInv'
  <2> DEFINE f == CHOOSE f \in Fingers : TRUE
             e == A!TouchEvent(type, {f})
  <2>1. A!Feed(<<e>>) /\ UNCHANGED <<pointer, pressing, down, touching>> /\ Fingers # {}
    BY <1>7 DEF A!Explore
  <2>2. f \in Fingers
    BY <2>1
  <2> HIDE DEF f
  <2>3. e \in FingerNotices /\ e.type = type
    BY <1>t, <2>2, FingerEvents
  <2> HIDE DEF e
  <2>4. FingerLeads(e, I, A!Indices(touching'))
    BY <2>1, <2>3 DEF FingerLeads
  <2> QED BY <1>c, <1>t, <2>1, <2>3, <2>4
<1>8. ASSUME A!Cancel PROVE LooperTypes' /\ TouchInv'
  <2> DEFINE e == A!TouchEvent("CANCEL", touching)
             h == IF down # {} THEN A!HoverAgain ELSE <<>>
  <2>1. /\ A!Feed(<<A!Event("CANCEL", down \cup touching, IF down # {} THEN "mouse" ELSE "finger")>> \o h)
        /\ down' = {} /\ touching' = {} /\ UNCHANGED <<pointer, pressing>>
    BY <1>8 DEF A!Cancel
  <2>2. A!Event("CANCEL", down \cup touching, IF down # {} THEN "mouse" ELSE "finger") = e /\ h = <<>>
    <3>1. {} \cup touching = touching
      OBVIOUS
    <3> QED BY <1>t, <3>1 DEF A!TouchEvent
  <2>3. e \in FingerNotices /\ e.type = "CANCEL" /\ e.ids = touching
    BY <1>t, FingerEvents
  <2> HIDE DEF e, h
  <2>4. A!Feed(<<e>>)
    <3>1. <<e>> \o <<>> = <<e>>
      OBVIOUS
    <3> QED BY <2>1, <2>2, <3>1
  <2>5. A!Indices(touching') = I \ A!Indices(touching)
    <3>1. A!Indices(touching') = {}
      BY <2>1 DEF A!Indices
    <3> QED BY <3>1
  <2>6. FingerLeads(e, I, A!Indices(touching'))
    BY <2>3, <2>5 DEF FingerLeads
  <2> QED BY <1>c, <1>t, <2>1, <2>3, <2>4, <2>6
<1>9. ASSUME \/ A!Pause \/ A!Resume \/ A!LowerShutter \/ A!RaiseShutter \/ A!Rotate \/ A!Close
             \/ \E s \in Sizes : A!Resize(s)
      PROVE  LooperTypes' /\ TouchInv'
  <2>1. /\ commands' \in Seq(Commands) /\ Len(commands') <= MaxQueue
        /\ UNCHANGED <<pointer, pressing, down, touching, events>>
    BY <1>9, LifeKeeps
  <2>2. LooperTypes'
    BY <2>1 DEF LooperTypes
  <2>3. A!Indices(touching)' = A!Indices(touching)
    BY <2>1 DEF A!Indices
  <2>4. TouchInv'
    BY <1>0, <2>1, <2>3 DEF TouchInv
  <2> QED BY <2>2, <2>4
<1> QED BY <1>1, <1>2, <1>3, <1>4, <1>5, <1>6, <1>7, <1>8, <1>9 DEF A!System

\* The handler of an event of a finger (handle_input).
LEMMA FingerHandled ==
    ASSUME PointerParameters, HandlerAgrees, TouchInv, NEW e \in FingerNotices,
           e.type = "MOVE" => A!Indices(e.ids) \subseteq button_status,
           A!OnDown(e) \/ A!OnUp(e) \/ A!OnButton(e) \/ A!OnMove(e) \/ A!OnCancel(e) \/ A!OnHover(e)
    PROVE  /\ FingerLeads(e, button_status, button_status') /\ button_status' \subseteq 0 .. 7
           /\ mouse_button_state' = {} /\ is_mouse_inside' = FALSE /\ pending_hover_exit' = FALSE
           /\ told' \in [size : Sizes, inside : BOOLEAN, buttons : SUBSET (0 .. 7)]
           /\ told'.buttons = button_status' /\ told'.inside = is_mouse_inside'
<1> DEFINE Told == /\ told' \in [size : Sizes, inside : BOOLEAN, buttons : SUBSET (0 .. 7)]
                   /\ told'.buttons = button_status' /\ told'.inside = is_mouse_inside'
<1>0. /\ e.tool = "finger" /\ e.ids \subseteq Fingers /\ button_status \in SUBSET (0 .. 7)
      /\ told \in [size : Sizes, inside : BOOLEAN, buttons : SUBSET (0 .. 7)]
      /\ told.buttons = button_status /\ told.inside = is_mouse_inside
      /\ is_mouse_inside = FALSE /\ pending_hover_exit = FALSE /\ mouse_button_state = {}
  BY DEF FingerNotices, HandlerAgrees, TouchInv
<1>i. A!Indices(e.ids) \in SUBSET (0 .. 7)
  BY <1>0, IndicesTyped
<1>1. CASE A!OnDown(e)
  <2>1. e.type \in {"DOWN", "POINTER_DOWN"} /\ A!Pressed(e.ids) /\ is_mouse_inside' = FALSE
    BY <1>0, <1>1 DEF A!OnDown, A!is_mouse_event
  <2>2. pending_hover_exit' = FALSE
    BY <1>0, <1>1 DEF A!OnDown
  <2>3. A!TellButtons(button_status \cup A!Indices(e.ids)) /\ mouse_button_state' = {}
    BY <1>0, <2>1 DEF A!Pressed
  <2>4. button_status \cup A!Indices(e.ids) \in SUBSET (0 .. 7)
    BY <1>0, <1>i
  <2>5. button_status' = button_status \cup A!Indices(e.ids) /\ Told
    BY <1>0, <2>1, <2>3, <2>4, TellKeeps
  <2> QED BY <1>0, <2>1, <2>2, <2>3, <2>4, <2>5 DEF FingerLeads
<1>2. CASE A!OnUp(e) \/ A!OnCancel(e)
  <2>1. e.type \in {"UP", "POINTER_UP", "CANCEL"} /\ A!Released(e.ids) /\ pending_hover_exit' = FALSE
    BY <1>0, <1>2 DEF A!OnUp, A!OnCancel, A!is_mouse_event
  <2>2. is_mouse_inside' = FALSE
    BY <1>0, <1>2 DEF A!OnUp, A!OnCancel, A!settle_mouse_inside
  <2>3. A!TellButtons(button_status \ A!Indices(e.ids)) /\ mouse_button_state' = {}
    BY <1>0, <2>1 DEF A!Released
  <2>4. button_status \ A!Indices(e.ids) \in SUBSET (0 .. 7)
    BY <1>0
  <2>5. button_status' = button_status \ A!Indices(e.ids) /\ Told
    BY <1>0, <2>2, <2>3, <2>4, TellKeeps
  <2> QED BY <1>0, <2>1, <2>2, <2>3, <2>4, <2>5 DEF FingerLeads
<1>3. CASE A!OnButton(e)
  BY <1>3 DEF A!OnButton, FingerNotices
<1>4. CASE A!OnMove(e)
  <2>1. /\ e.type = "MOVE" /\ button_status' = button_status \cup A!Indices(e.ids)
        /\ UNCHANGED <<is_mouse_inside, mouse_button_state, pending_hover_exit, told>>
    BY <1>0, <1>4 DEF A!OnMove, A!is_mouse_event
  <2>2. button_status' = button_status
    BY <2>1
  <2> QED BY <1>0, <2>1, <2>2 DEF FingerLeads
<1>5. CASE A!OnHover(e)
  <2>1. /\ e.type \in {"HOVER_ENTER", "HOVER_EXIT"}
        /\ told' = [told EXCEPT !.inside = is_mouse_inside']
        /\ UNCHANGED <<pending_hover_exit, is_mouse_inside, button_status, mouse_button_state>>
    BY <1>0, <1>5 DEF A!OnHover, A!is_hover_capable_pointer, FingerNotices
  <2>2. Told
    BY <1>0, <2>1
  <2> QED BY <1>0, <2>1, <2>2 DEF FingerLeads
<1> QED BY <1>1, <1>2, <1>3, <1>4, <1>5

\* An event of a finger does to the window what the queue promised.
LEMMA TouchInputKeeps ==
    ASSUME PointerParameters, LooperTypes, HandlerAgrees, TouchInv, A!TakeInput
    PROVE  LooperTypes' /\ HandlerAgrees' /\ TouchInv'
<1> DEFINE e == Head(events)
           I == A!Indices(touching)
<1>0. /\ pc = "poll" /\ events # <<>> /\ events' = Tail(events) /\ A!handle_input(e)
      /\ ~destroyRequested
      /\ UNCHANGED <<pointer, pressing, down, touching, commands, userData, destroyRequested, close, held, pc>>
  BY DEF A!TakeInput, A!Polling, A!system, A!app
<1>1. /\ events \in Seq(FingerNotices) /\ ~close /\ userData = TRUE
      /\ Leads(events, FingerStep, SUBSET (0 .. 7), button_status, I)
  BY <1>0 DEF TouchInv, HandlerAgrees
<1>2. /\ e \in FingerNotices /\ events' \in Seq(FingerNotices) /\ Len(events') <= MaxQueue
  <2>1. Len(events) \in Nat /\ Len(events) <= MaxQueue /\ Len(events') = Len(events) - 1 /\ MaxQueue \in Nat
    BY <1>0, <1>1, TailElements DEF LooperTypes, PointerParameters
  <2> QED BY <1>0, <1>1, <2>1, TailElements
<1>3. A!OnDown(e) \/ A!OnUp(e) \/ A!OnButton(e) \/ A!OnMove(e) \/ A!OnCancel(e) \/ A!OnHover(e)
  BY <1>0, <1>1 DEF A!handle_input
<1>s. button_status \in SUBSET (0 .. 7)
  BY DEF HandlerAgrees
<1> HIDE DEF I
<1>4. PICK c \in SUBSET (0 .. 7) :
          <<e, button_status, c>> \in FingerStep /\ Leads(Tail(events), FingerStep, SUBSET (0 .. 7), c, I)
  BY <1>0, <1>1, LeadsTail
<1>5. FingerLeads(e, button_status, c)
  BY <1>2, <1>4, <1>s, FingerSteps
<1> HIDE DEF e
<1>6. e.type = "MOVE" => A!Indices(e.ids) \subseteq button_status
  BY <1>5 DEF FingerLeads
<1>7. /\ FingerLeads(e, button_status, button_status') /\ button_status' \subseteq 0 .. 7
      /\ mouse_button_state' = {} /\ is_mouse_inside' = FALSE /\ pending_hover_exit' = FALSE
      /\ told' \in [size : Sizes, inside : BOOLEAN, buttons : SUBSET (0 .. 7)]
      /\ told'.buttons = button_status' /\ told'.inside = is_mouse_inside'
  BY <1>2, <1>3, <1>6, FingerHandled
<1>8. button_status' = c
  BY <1>5, <1>7 DEF FingerLeads
<1>9. A!Indices(touching)' = I
  BY <1>0 DEF I, A!Indices
<1>10. TouchInv'
  BY <1>0, <1>1, <1>2, <1>4, <1>7, <1>8, <1>9 DEF TouchInv
<1>11. LooperTypes'
  BY <1>0, <1>2 DEF LooperTypes
<1>12. HandlerAgrees'
  BY <1>0, <1>7 DEF HandlerAgrees
<1> QED BY <1>10, <1>11, <1>12

--------------------------------------------------------------------------------
(* Where nobody points.                                                             *)
LEMMA FramesUserKeeps ==
    ASSUME LooperTypes, FramesInv, A!System, events' = <<>>
    PROVE  LooperTypes' /\ FramesInv'
<1>0. UNCHANGED <<button_status, mouse_button_state, is_mouse_inside, pending_hover_exit>>
  BY DEF A!System, A!pointing
<1>n. ASSUME NEW s, A!Feed(<<s>>) PROVE FALSE
  <2>1. events = <<>> /\ events' = <<>> \o <<s>> /\ <<s>> \in Seq({s}) /\ <<>> \in Seq({s})
    BY <1>n DEF A!Feed, FramesInv
  <2>2. Len(events') = Len(<<>>) + Len(<<s>>)
    BY <2>1, ConcatElements
  <2>3. Len(<<s>>) = 1 /\ Len(<<>>) = 0
    BY EmptySeq
  <2> QED BY <2>2, <2>3
<1>1. ASSUME NEW q, A!Hover(q) \/ A!Touch(q) \/ A!Explore(q) PROVE FALSE
  BY <1>1, <1>n DEF A!Hover, A!Touch, A!Explore
<1>2. ASSUME A!BeginPress PROVE FALSE
  BY <1>2, <1>n DEF A!BeginPress
<1>3. ASSUME NEW b, A!Press(b) \/ A!Release(b) \/ A!Drag(b) \/ A!Lift(b) \/ A!Slide \/ A!Cancel PROVE FALSE
  BY <1>3 DEF A!Press, A!Release, A!Drag, A!Lift, A!Slide, A!Cancel, FramesInv
<1>4. \/ A!Pause \/ A!Resume \/ A!LowerShutter \/ A!RaiseShutter \/ A!Rotate \/ A!Close
      \/ \E s \in Sizes : A!Resize(s)
  BY <1>1, <1>2, <1>3 DEF A!System
<1>5. /\ commands' \in Seq(Commands) /\ Len(commands') <= MaxQueue
      /\ UNCHANGED <<pointer, pressing, down, touching, events>>
  BY <1>4, LifeKeeps
<1> QED BY <1>0, <1>5 DEF LooperTypes, FramesInv

--------------------------------------------------------------------------------
(* The three settings.                                                              *)
LEMMA SystemAgrees ==
    ASSUME HandlerAgrees, A!System
    PROVE  HandlerAgrees'
BY DEF HandlerAgrees, A!System, A!app, A!pointing, A!data, A!program, A!ToSet

LEMMA NextIs ==
    A!Next <=> A!System \/ A!TakeInput \/ OtherStep
BY DEF A!Next, A!Library, OtherStep

LEMMA PointerStep ==
    ASSUME Parameters, PointerParameters, AndroidIInv, PointerInv, OnAndroid, MCNext
    PROVE  PointerInv'
<1>0. scenario' = scenario /\ LooperTypes /\ HandlerAgrees
  BY DEF MCNext, PointerInv
<1>1. CASE scenario = "hover"
  <2>0. HoverInv /\ A!Next /\ close' = close /\ commands' = <<>>
        /\ \A i \in 1 .. Len(events') : events'[i].tool = "mouse"
    BY <1>1 DEF PointerInv, MCNext, Scene, Hovering
  <2>1. LooperTypes' /\ HandlerAgrees' /\ HoverInv'
    <3>1. CASE A!System
      BY <1>0, <2>0, <3>1, HoverUserKeeps, SystemAgrees
    <3>2. CASE A!TakeInput
      BY <1>0, <2>0, <3>2, MouseInputKeeps
    <3>3. CASE OtherStep
      BY <1>0, <2>0, <3>3, OtherStepsKeep, HoverOtherKeeps
    <3> QED BY <2>0, <3>1, <3>2, <3>3, NextIs
  <2> QED BY <1>0, <1>1, <2>1 DEF PointerInv
<1>2. CASE scenario = "touch"
  <2>0. TouchInv /\ A!Next /\ (close' => close \/ destroyRequested')
        /\ \A i \in 1 .. Len(events') : events'[i].tool = "finger"
    BY <1>2 DEF PointerInv, MCNext, Scene, Touching
  <2>1. LooperTypes' /\ HandlerAgrees' /\ TouchInv'
    <3>1. CASE A!System
      BY <1>0, <2>0, <3>1, TouchUserKeeps, SystemAgrees
    <3>2. CASE A!TakeInput
      BY <1>0, <2>0, <3>2, TouchInputKeeps
    <3>3. CASE OtherStep
      BY <1>0, <2>0, <3>3, OtherStepsKeep, TouchOtherKeeps, CloseStays
    <3> QED BY <2>0, <3>1, <3>2, <3>3, NextIs
  <2> QED BY <1>0, <1>2, <2>1 DEF PointerInv
<1>3. CASE scenario = "frames"
  <2>0. FramesInv /\ A!Next /\ events' = <<>>
    BY <1>3 DEF PointerInv, MCNext, Scene, Drawing
  <2>1. LooperTypes' /\ HandlerAgrees' /\ FramesInv'
    <3>1. CASE A!System
      BY <1>0, <2>0, <3>1, FramesUserKeeps, SystemAgrees
    <3>2. CASE A!TakeInput
      BY <2>0, <3>2 DEF A!TakeInput, FramesInv
    <3>3. CASE OtherStep
      <4>1. LooperTypes' /\ HandlerAgrees' /\ PointersStay
        BY <1>0, <3>3, OtherStepsKeep
      <4>2. FramesInv'
        BY <2>0, <4>1 DEF FramesInv, PointersStay
      <4> QED BY <4>1, <4>2
    <3> QED BY <2>0, <3>1, <3>2, <3>3, NextIs
  <2> QED BY <1>0, <1>3, <2>1 DEF PointerInv
<1> QED BY <1>1, <1>2, <1>3 DEF OnAndroid

LEMMA PointerStays ==
    ASSUME PointerInv, UNCHANGED <<scenario, android>>
    PROVE  PointerInv'
<1>1. UNCHANGED <<scenario, commands, events, pointer, pressing, down, touching, button_status, mouse_button_state,
                  is_mouse_inside, pending_hover_exit, held, told, pc, userData, close, destroyRequested>>
  BY DEF android
<1>2. LooperTypes' /\ HandlerAgrees'
  BY <1>1 DEF PointerInv, LooperTypes, HandlerAgrees, A!ToSet
<1>3. HoverInv => HoverInv'
  BY <1>1 DEF HoverInv, HoverFollows, HoverNow, HoverThen, Shows, Means
<1>4. TouchInv => TouchInv'
  BY <1>1 DEF TouchInv, A!Indices
<1>5. FramesInv => FramesInv'
  BY <1>1 DEF FramesInv
<1> QED BY <1>1, <1>2, <1>3, <1>4, <1>5 DEF PointerInv

LEMMA PointerStarts ==
    ASSUME Parameters, PointerParameters, A!Init
    PROVE  PointerInv
<1>1. /\ pointer = "out" /\ pressing = FALSE /\ down = {} /\ touching = {} /\ commands = <<>> /\ events = <<>>
      /\ destroyRequested = FALSE /\ close = FALSE /\ held = {} /\ pc = "opening"
      /\ is_mouse_inside = FALSE /\ button_status = {} /\ mouse_button_state = {} /\ pending_hover_exit = FALSE
      /\ told = [size |-> IF window THEN surface ELSE FirstSize, inside |-> FALSE, buttons |-> {}]
  BY DEF A!Init
<1>2. ToldOK
  BY AndroidInitHolds DEF AndroidIInv
<1>3. told \in [size : Sizes, inside : BOOLEAN, buttons : SUBSET (0 .. 7)]
  BY <1>1, <1>2 DEF ToldOK
<1>4. LooperTypes
  <2>1. Len(<<>>) = 0 /\ <<>> \in Seq(Commands)
    BY EmptySeq
  <2>2. Len(commands) <= MaxQueue /\ Len(events) <= MaxQueue
    BY <1>1, <2>1 DEF PointerParameters
  <2>3. commands \in Seq(Commands) /\ pointer \in Places
    BY <1>1, <2>1 DEF Places
  <2> QED BY <1>1, <2>2, <2>3 DEF LooperTypes
<1>5. HandlerAgrees
  BY <1>1, <1>3 DEF HandlerAgrees
<1>6. HoverInv
  <2>1. HoverNow("away") \in HoverStates /\ HoverNow("away") = HoverThen("away")
    BY <1>1 DEF HoverNow, HoverThen, HoverStates
  <2>2. Leads(events, HoverStep, HoverStates, HoverNow("away"), HoverThen("away"))
    BY <1>1, <2>1, LeadsEmpty
  <2>3. Shows("away") /\ Means("away")
    BY <1>1 DEF Shows, Means
  <2>4. HoverFollows
    BY <2>2, <2>3 DEF HoverFollows
  <2> QED BY <1>1, <2>4 DEF HoverInv
<1>7. TouchInv
  <2>1. A!Indices(touching) = {}
    BY <1>1 DEF A!Indices
  <2>2. Leads(events, FingerStep, SUBSET (0 .. 7), button_status, A!Indices(touching))
    <3>1. {} \in SUBSET (0 .. 7)
      OBVIOUS
    <3>2. Leads(<<>>, FingerStep, SUBSET (0 .. 7), {}, {})
      BY <3>1, LeadsEmpty
    <3> QED BY <1>1, <2>1, <3>2
  <2> QED BY <1>1, <2>2 DEF TouchInv
<1>8. FramesInv
  BY <1>1 DEF FramesInv
<1> QED BY <1>4, <1>5, <1>6, <1>7, <1>8 DEF PointerInv

LEMMA PointerFollows ==
    ASSUME AndroidIInv, PointerInv, OnAndroid
    PROVE  A!TypeOK /\ A!ButtonsSettle /\ A!HoverSettles
<1>0. LooperTypes /\ HandlerAgrees
  BY DEF PointerInv
<1>1. A!TypeOK
  BY <1>0 DEF A!TypeOK, LooperTypes, HandlerAgrees, AndroidIInv, AndroidTypesOK
<1>2. ASSUME A!Quiet, ~close
      PROVE  /\ button_status = IF touching # {} THEN A!Indices(touching) ELSE down
             /\ down = {} /\ ~pending_hover_exit => is_mouse_inside = (pointer = "in")
  <2>1. events = <<>> /\ ~pressing /\ pointer \in Places /\ is_mouse_inside \in BOOLEAN
    BY <1>0, <1>2 DEF A!Quiet, LooperTypes, HandlerAgrees
  <2>2. CASE scenario = "hover"
    <3>1. PICK p \in {"over", "away", "either"}, z \in {"over", "away", "either"} :
              Shows(p) /\ Means(z) /\ Leads(events, HoverStep, HoverStates, HoverNow(p), HoverThen(z))
      BY <2>2 DEF PointerInv, HoverInv, HoverFollows
    <3>2. HoverNow(p) \in HoverStates
      BY <1>0, <2>2 DEF HoverNow, HoverStates, HandlerAgrees, PointerInv, HoverInv
    <3>3. HoverNow(p) = HoverThen(z)
      BY <2>1, <3>1, <3>2, LeadsEmpty
    <3>4. button_status = down /\ p = z
      <4>1. HoverNow(p).held = HoverThen(z).held /\ HoverNow(p).place = HoverThen(z).place
        BY <3>3
      <4> QED BY <4>1 DEF HoverNow, HoverThen
    <3>5. touching = {}
      BY <2>2 DEF PointerInv, HoverInv
    <3>6. down = {} /\ ~pending_hover_exit => (is_mouse_inside <=> pointer = "in")
      BY <2>1, <3>1, <3>4 DEF Shows, Means, Places
    <3> QED BY <2>1, <3>4, <3>5, <3>6
  <2>3. CASE scenario = "touch"
    <3>1. Leads(events, FingerStep, SUBSET (0 .. 7), button_status, A!Indices(touching))
      BY <1>2, <2>3 DEF PointerInv, TouchInv
    <3>2. button_status = A!Indices(touching)
      BY <1>0, <2>1, <3>1, LeadsEmpty DEF HandlerAgrees
    <3>3. touching = {} => A!Indices(touching) = {}
      BY DEF A!Indices
    <3>4. down = {} /\ is_mouse_inside = FALSE /\ pointer = "out"
      BY <2>3 DEF PointerInv, TouchInv
    <3> QED BY <3>2, <3>3, <3>4
  <2>4. CASE scenario = "frames"
    BY <2>4 DEF PointerInv, FramesInv
  <2> QED BY <2>2, <2>3, <2>4 DEF OnAndroid
<1>3. told.buttons = button_status /\ told.inside = is_mouse_inside
      /\ (pc = "idle" => ~pending_hover_exit)
  BY <1>0 DEF HandlerAgrees
<1> QED BY <1>1, <1>2, <1>3 DEF A!ButtonsSettle, A!HoverSettles

--------------------------------------------------------------------------------
\* The three systems together.
MetalInv ==
    /\ MetalIInv
    /\ scenario # "skips" => InOrder /\ ~torn
    /\ M!Serial => SizesAgree

Idle == phase = "frame" /\ schedule = 0 /\ last_delta_ticks = 0 /\ now = 0

Inv ==
    /\ OnAndroid => AndroidIInv
    /\ OnMetal => MetalInv
    /\ scenario = "pacing" => TimerIInv
    /\ scenario # "pacing" => Idle

LEMMA Start == Parameters /\ MCInit => Inv
<1> SUFFICES ASSUME Parameters, MCInit PROVE Inv
  OBVIOUS
<1>1. \/ OnAndroid /\ ~OnMetal /\ scenario # "pacing" /\ A!Init /\ NoTimer
      \/ OnMetal /\ ~OnAndroid /\ scenario # "pacing" /\ M!Init /\ NoTimer
      \/ scenario = "pacing" /\ ~OnAndroid /\ ~OnMetal /\ Init
  BY DEF MCInit, Scene, OnAndroid, OnMetal
<1>2. NoTimer => Idle
  BY DEF NoTimer, Idle
<1>3. M!Init => MetalInv
  <2> SUFFICES ASSUME M!Init PROVE MetalInv
    OBVIOUS
  <2>1. ~torn /\ SizesAgree
    BY DEF M!Init, SizesAgree
  <2> QED BY <2>1, MetalInitHolds DEF MetalInv
<1> QED BY <1>1, <1>2, <1>3, AndroidInitHolds, TimerInitHolds DEF Inv

LEMMA OneSystem ==
    ASSUME [MCNext]_<<scenario, android, metal, vars>>
    PROVE  /\ scenario' = scenario
           /\ OnAndroid => [A!Next]_A!vars
           /\ OnMetal => [M!Next]_M!vars
           /\ scenario = "pacing" => [Next]_vars
           /\ scenario # "pacing" => UNCHANGED vars
           /\ ~OnAndroid => UNCHANGED A!vars
<1>v. UNCHANGED android => UNCHANGED A!vars
  BY DEF android, A!vars, A!system, A!queues, A!app, A!pointing, A!data, A!program
<1>1. CASE MCNext
  BY <1>1, <1>v DEF MCNext, Scene, OnAndroid, OnMetal
<1>2. CASE UNCHANGED <<scenario, android, metal, vars>>
  <2>1. UNCHANGED A!vars
    BY <1>2, <1>v
  <2>2. UNCHANGED M!vars
    BY <1>2 DEF metal, M!vars, M!setting, M!sizes, M!frames, M!closing, M!history
  <2> QED BY <1>2, <2>1, <2>2
<1> QED BY <1>1, <1>2

LEMMA Step ==
    ASSUME Parameters, Inv, [MCNext]_<<scenario, android, metal, vars>>
    PROVE  Inv'
<1>0. scenario' = scenario /\ OnAndroid' = OnAndroid /\ OnMetal' = OnMetal /\ M!Serial' = M!Serial
  BY OneSystem DEF OnAndroid, OnMetal, M!Serial
<1>1. OnAndroid => AndroidIInv'
  BY OneSystem, AndroidStepKeeps DEF Inv
<1>2. OnMetal => MetalInv'
  <2> SUFFICES ASSUME OnMetal PROVE MetalInv'
    OBVIOUS
  <2>1. MetalInv /\ [M!Next]_M!vars
    BY OneSystem DEF Inv
  <2>2. MetalIInv'
    BY <2>1, MetalStepKeeps DEF MetalInv
  <2>3. scenario # "skips" => InOrder' /\ ~torn'
    BY <2>1, OrderKept DEF MetalInv
  <2>4. M!Serial => SizesAgree'
    BY <2>1, SizesKept DEF MetalInv
  <2> QED BY <1>0, <2>2, <2>3, <2>4 DEF MetalInv
<1>3. scenario = "pacing" => TimerIInv'
  BY OneSystem, InvariantStep DEF Inv
<1>4. scenario # "pacing" => Idle'
  BY OneSystem DEF Inv, Idle, vars, timer
<1> QED BY <1>0, <1>1, <1>2, <1>3, <1>4 DEF Inv

LEMMA Inductive ==
    ASSUME Parameters
    PROVE  MCSpec => []Inv
<1>1. Inv /\ [MCNext]_<<scenario, android, metal, vars>> => Inv'
  BY Step
<1> QED BY Start, <1>1, PTL DEF MCSpec

\* Android: nothing is written beyond the surface there is, however old the drawable.  Metal:
\* no pixels go into a texture the GPU still reads when the command queue has a command
\* buffer for every frame, and on one thread size, pixels and texture agree at every copy
\* (draw, drawInMTKView:, mfb_update_ex).
THEOREM FramesFitAlways ==
    ASSUME Parameters
    PROVE  MCSpec => []FramesFit
<1>1. Inv => FramesFit
  BY DEF Inv, MetalInv, AndroidIInv, FramesFit, M!TextureIsFree, M!PixelsFit, SizesAgree
<1> QED BY Inductive, <1>1, PTL

\* An end of any kind leaves nothing of the window to a handler, of the looper or of a frame
\* on the GPU; and every place of the semaphore has its holder, also where the command
\* queue has no command buffer (destroy_window_data, wait_for_frames_in_flight).
THEOREM EndsAreWhole ==
    ASSUME Parameters
    PROVE  MCSpec => []EndsWhole
<1>1. Inv => EndsWhole
  BY DEF Inv, MetalInv, MetalIInv, AndroidIInv, EndsWhole
<1> QED BY Inductive, <1>1, PTL

\* However late the application is and whenever it changes the rate, a frame begins at or
\* before the present and at most the longest frame behind its schedule: the error that
\* mfb_timer_compensated_reset gathers cannot stop the pacing or make it run away.
THEOREM PacingIsKept ==
    ASSUME Parameters
    PROVE  MCSpec => []PaceIsKept
<1>1. Inv => PaceIsKept
  <2>1. TimerIInv => PaceIsKept
    BY PaceFollows
  <2>2. Idle => PaceIsKept
    BY LongestAssumption DEF Idle, PaceIsKept
  <2> QED BY <2>1, <2>2 DEF Inv
<1> QED BY Inductive, <1>1, PTL

\* What the contract sees of a step is what it sees of one of Android, or nothing.
LEMMA ContractStep ==
    ASSUME Parameters, Inv, [MCNext]_<<scenario, android, metal, vars>>
    PROVE  [Contract!Next]_Contract!vars
<1> USE DEF Contract!Next, Contract!vars, Contract!RequestClose, Contract!Call, Contract!Resize,
            Contract!Report, Contract!Show, Contract!ReturnOK, Contract!ReturnError, Contract!ReturnExit
<1>0. OnAndroid' = OnAndroid
  BY OneSystem DEF OnAndroid
<1>1. CASE OnAndroid
  <2>1. [A!Contract!Next]_A!Contract!vars
    BY <1>1, OneSystem, AndroidStepKeeps DEF Inv
  <2> QED
    BY <1>0, <1>1, <2>1 DEF A!Contract!Next, A!Contract!vars, A!Contract!RequestClose, A!Contract!Call,
       A!Contract!Resize, A!Contract!Report, A!Contract!Show, A!Contract!ReturnOK, A!Contract!ReturnError,
       A!Contract!ReturnExit
<1>2. CASE ~OnAndroid
  BY <1>0, <1>2
<1> QED BY <1>1, <1>2

\* The Android backend keeps the contract of the public interface: it ends only inside a
\* call that answers EXIT, also when its activity is destroyed, shows nothing once the close
\* was asked for, and has told the size of the window when it answers OK.
THEOREM Refinement ==
    ASSUME Parameters
    PROVE  MCSpec => ImplementsContract
<1>1. MCInit => Contract!Init
  <2> SUFFICES ASSUME MCInit PROVE Contract!Init
    OBVIOUS
  <2>1. CASE OnAndroid
    <3>1. A!Init
      BY <2>1 DEF MCInit, Scene, OnAndroid
    <3> QED BY <2>1, <3>1 DEF A!Init, A!Size, Contract!Init, Parameters
  <2>2. CASE ~OnAndroid
    BY <2>2 DEF Contract!Init
  <2> QED BY <2>1, <2>2
<1>2. Inv /\ [MCNext]_<<scenario, android, metal, vars>> => [Contract!Next]_Contract!vars
  BY ContractStep
<1> QED BY Inductive, <1>1, <1>2, PTL DEF MCSpec, ImplementsContract, Contract!Spec

\* Of Android, with the pointers.
LEMMA PointersInductive ==
    ASSUME Parameters, PointerParameters
    PROVE  MCSpec => [](OnAndroid => PointerInv)
<1>1. MCInit => (OnAndroid => PointerInv)
  BY PointerStarts DEF MCInit, Scene, OnAndroid
<1>2. Inv /\ (OnAndroid => PointerInv) /\ [MCNext]_<<scenario, android, metal, vars>> => (OnAndroid => PointerInv)'
  <2> SUFFICES ASSUME Inv, OnAndroid => PointerInv, [MCNext]_<<scenario, android, metal, vars>>, OnAndroid'
               PROVE  PointerInv'
    OBVIOUS
  <2>1. OnAndroid /\ AndroidIInv /\ PointerInv
    BY OneSystem DEF OnAndroid, Inv
  <2> QED BY <2>1, PointerStep, PointerStays
<1> QED BY Inductive, <1>1, <1>2, PTL DEF MCSpec

\* Once the looper's events are taken the window knows which buttons and fingers are down and
\* whether the mouse is over it, and has told so: a hover exit before a press is no leave, one
\* that no press follows is, and a gesture that is cancelled leaves nothing behind
\* (handle_input, flush_pending_hover_exit).
THEOREM PointersAreSettled ==
    ASSUME Parameters, PointerParameters
    PROVE  MCSpec => []PointerSettles
<1>1. Inv /\ (OnAndroid => PointerInv) => PointerSettles
  BY PointerFollows DEF Inv, PointerSettles
<1> QED BY Inductive, PointersInductive, <1>1, PTL
================================================================================
