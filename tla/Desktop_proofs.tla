----------------------------- MODULE Desktop_proofs -----------------------------
(* The X11, Windows and DOS backends with any keys, buttons and sizes, any length of *)
(* the queue of events and any number of inputs: what a frame of X11 and of DOS is   *)
(* made from, the cursor count of Windows, what an opening and an end leave behind,  *)
(* and the contract of the public interface.  Each backend in turn, then the three   *)
(* as the runs see them; then the keys and the focus of X11 and Windows; last, the   *)
(* pointer of each of the three.                                                     *)
EXTENDS MCDesktop, EventQueues

--------------------------------------------------------------------------------
\* X11.

\* What is assumed of the constants: a size is positive, a button is a number.
X11Parameters ==
    /\ FirstSize \in XSizes /\ XSizes \subseteq Nat \ {0}
    /\ XButtons \subseteq Nat /\ MaxQueue \in Nat

\* What the server sends.
Event ==
    [type : {"KeyPress", "KeyRelease"}, key : XKeys, again : BOOLEAN, held : SUBSET XKeys] \cup
    [type : {"EnterNotify", "LeaveNotify"}, mode : {"Normal", "Grab", "Ungrab"}] \cup
    [type : {"ButtonPress", "ButtonRelease"}, button : XButtons, at : {"in", "covered", "out"}] \cup
    [type : {"FocusIn", "FocusOut"}, mode : {"Normal", "Grab", "Ungrab"}] \cup
    [type : {"ConfigureNotify"}, size : XSizes] \cup
    [type : {"ClientMessage", "DestroyNotify"}]

X11Told == [keys : SUBSET XKeys, inside : BOOLEAN, active : BOOLEAN, size : XSizes]

X11InputOK ==
    /\ queue \in Seq(Event) /\ Len(queue) <= MaxQueue
    /\ keys \subseteq XKeys /\ key_status \subseteq XKeys /\ elsewhere \subseteq XKeys
    /\ button_status \subseteq 0 .. 7
    /\ (repeating = X!NoKey \/ repeating \in XKeys)
    /\ place \in {"in", "covered", "out"} /\ drag \in BOOLEAN /\ is_mouse_inside \in BOOLEAN
    /\ focus \in BOOLEAN /\ grabbed \in BOOLEAN /\ never_focused \in BOOLEAN

X11WindowOK ==
    /\ window_size \in XSizes /\ close \in BOOLEAN /\ told \in X11Told
    /\ viewport \in Nat \X (Nat \ {0}) /\ image_scaler \in Nat /\ image_buffer \in Nat
    /\ held \subseteq X!ToSet(X!Wanted) /\ stage \in Nat \ {0}
    /\ pc \in {"opening", "failed", "idle", "called", "drain", "gone"}

\* The application was told the size the window has.
X11SizeIsTold == told.size = window_size

\* The scaled image is over pixels of its size, and nothing of it is there before the
\* opening or after the end.
ImagesOK ==
    /\ image_scaler # 0 => image_buffer = image_scaler
    /\ pc = "opening" => image_scaler = 0 /\ image_buffer = 0
    /\ shown.image = shown.dst /\ shown.pixels = shown.dst

\* The opening obtains its resources in order, and an open window has the ones that the
\* release of the others asks for.
X11Obtained ==
    /\ pc = "opening" /\ stage = 1 => held = {}
    /\ pc = "opening" /\ stage = 2 => held = {"data"}
    /\ pc = "opening" /\ stage = 3 => held = {"data", "specific"}
    /\ pc = "opening" /\ stage > 3 => {"specific", "display"} \subseteq held
    /\ pc \in {"idle", "called", "drain"} => {"specific", "display"} \subseteq held

X11IInv == X11InputOK /\ X11WindowOK /\ X11SizeIsTold /\ ImagesOK /\ X11Obtained /\ X!NothingLeaks

--------------------------------------------------------------------------------
LEMMA Events ==
    /\ \A type \in {"KeyPress", "KeyRelease"}, k \in XKeys, again \in BOOLEAN :
           keys \subseteq XKeys => X!KeyEvent(type, k, again) \in Event
    /\ \A entered \in BOOLEAN, mode \in {"Normal", "Grab", "Ungrab"} : X!Crossing(entered, mode) \in Event
    /\ \A type \in {"ButtonPress", "ButtonRelease"}, b \in XButtons :
           place \in {"in", "covered", "out"} => X!ButtonEvent(type, b) \in Event
    /\ \A type \in {"FocusIn", "FocusOut"}, mode \in {"Normal", "Grab", "Ungrab"} :
           [type |-> type, mode |-> mode] \in Event
    /\ \A s \in XSizes : [type |-> "ConfigureNotify", size |-> s] \in Event
    /\ \A type \in {"ClientMessage", "DestroyNotify"} : [type |-> type] \in Event
BY DEF Event, X!KeyEvent, X!Crossing, X!ButtonEvent

LEMMA OneEvent == <<>> \in Seq(Event) /\ \A e \in Event : <<e>> \in Seq(Event)
OBVIOUS

LEMMA SendKeeps ==
    ASSUME X11InputOK
    PROVE  /\ X!Send(<<>>) => queue' \in Seq(Event) /\ Len(queue') <= MaxQueue
           /\ \A e \in Event : X!Send(<<e>>) => queue' \in Seq(Event) /\ Len(queue') <= MaxQueue
           /\ \A s \in Seq(Event) : X!Send(s) => queue' \in Seq(Event) /\ Len(queue') <= MaxQueue
<1>2. \A s \in Seq(Event) : X!Send(s) => queue' \in Seq(Event) /\ Len(queue') <= MaxQueue
  BY ConcatProperties DEF X11InputOK, X!Send
<1> QED BY OneEvent, <1>2

\* The server queues events, and changes nothing of the window.
LEMMA ServerKeeps ==
    ASSUME X11InputOK, X!Server
    PROVE  /\ X11InputOK'
           /\ UNCHANGED <<X!input, window_size, viewport, close, X!images, told, X!program>>
<1> USE SendKeeps, Events
<1> DEFINE Kept == /\ queue' \in Seq(Event) /\ Len(queue') <= MaxQueue
                   /\ keys' \subseteq XKeys /\ elsewhere' \subseteq XKeys
                   /\ focus' \in BOOLEAN /\ grabbed' \in BOOLEAN
                   /\ repeating' = X!NoKey \/ repeating' \in XKeys
                   /\ place' \in {"in", "covered", "out"} /\ drag' \in BOOLEAN
<1>0. UNCHANGED <<X!input, window_size, viewport, close, X!images, told, X!program>>
  BY DEF X!Server
<1>t. keys \subseteq XKeys /\ place \in {"in", "covered", "out"} /\ drag \in BOOLEAN /\ (repeating = X!NoKey \/ repeating \in XKeys)
      /\ queue \in Seq(Event) /\ Len(queue) <= MaxQueue /\ elsewhere \subseteq XKeys
      /\ focus \in BOOLEAN /\ grabbed \in BOOLEAN
  BY DEF X11InputOK
<1>1. ASSUME NEW k \in XKeys, X!KeyDown(k) \/ X!KeyUp(k) \/ X!RepeatRelease(k) PROVE Kept
  BY <1>1, <1>t DEF X!KeyDown, X!KeyUp, X!RepeatRelease
<1>2. CASE X!RepeatPress
  BY <1>2, <1>t, <1>0 DEF X!RepeatPress, X11InputOK, X!input
<1>3. CASE X!ChangeFocus \/ X!GrabKeyboard
  BY <1>3, <1>t, <1>0 DEF X!ChangeFocus, X!GrabKeyboard, X11InputOK, X!input
<1>4. ASSUME NEW p \in {"in", "covered", "out"}, X!MovePointer(p) PROVE Kept
  BY <1>4, <1>t DEF X!MovePointer
<1>5. ASSUME NEW b \in XButtons, X!ButtonDown(b) PROVE Kept
  BY <1>5, <1>t DEF X!ButtonDown
<1>6. ASSUME NEW b \in XButtons, X!ButtonUp(b) PROVE Kept
  <2> DEFINE released == <<X!ButtonEvent("ButtonRelease", b)>>
             left == IF buttons = {b} /\ place # "in" THEN <<X!Crossing(FALSE, "Ungrab")>> ELSE <<>>
  <2>1. released \in Seq(Event) /\ left \in Seq(Event)
    BY <1>t, OneEvent
  <2>2. released \o left \in Seq(Event)
    BY <2>1, ConcatProperties
  <2>3. X!Send(released \o left) /\ UNCHANGED <<keys, repeating, place, drag, elsewhere, focus, grabbed>>
    BY <1>6 DEF X!ButtonUp
  <2> QED BY <2>2, <2>3, <1>t
<1>7. CASE X!DragElsewhere
  <2>1. X!Send(<<>>) \/ X!Send(<<X!Crossing(drag, "Ungrab")>>) \/ X!Send(<<X!Crossing(drag, "Grab")>>)
    BY <1>7 DEF X!DragElsewhere
  <2>2. drag' = ~drag /\ UNCHANGED <<keys, repeating, place, elsewhere, focus, grabbed, never_focused>>
    BY <1>7 DEF X!DragElsewhere
  <2>3. queue' \in Seq(Event) /\ Len(queue') <= MaxQueue
    BY <2>1, <1>t
  <2>4. drag' \in BOOLEAN
    BY <2>2
  <2> QED BY <1>0, <2>2, <2>3, <2>4, <1>t DEF X11InputOK, X!input
<1>8. ASSUME NEW s \in XSizes, X!Configure(s) PROVE Kept
  BY <1>8, <1>t DEF X!Configure
<1>9. ASSUME NEW type \in {"ClientMessage", "DestroyNotify"}, X!AskToClose(type) PROVE Kept
  BY <1>9, <1>t DEF X!AskToClose
<1>f. never_focused' \in BOOLEAN
  <2>1. never_focused' \in {never_focused, FALSE}
    BY DEF X!Server, X!KeyDown, X!KeyUp, X!RepeatRelease, X!RepeatPress, X!ChangeFocus, X!GrabKeyboard,
           X!MovePointer, X!ButtonDown, X!ButtonUp, X!DragElsewhere, X!Configure, X!AskToClose
  <2> QED BY <2>1 DEF X11InputOK
<1>10. Kept => X11InputOK'
  BY <1>0, <1>f DEF X11InputOK, X!input
<1> QED BY <1>0, <1>1, <1>2, <1>3, <1>4, <1>5, <1>6, <1>7, <1>8, <1>9, <1>10 DEF X!Server

--------------------------------------------------------------------------------
\* A handler of the pump.  What the contract sees is the size, told at once, and the close.
LEMMA ProcessKeeps ==
    ASSUME X11Parameters, X11IInv, X!process_event
    PROVE  /\ X11IInv' /\ pc = "drain" /\ UNCHANGED <<pc, result, shown>>
           /\ close' = close \/ close' = TRUE
           /\ \/ UNCHANGED window_size
              \/ close' = close
<1> DEFINE e == Head(queue)
<1> USE DEF X11IInv
<1>0. /\ pc = "drain" /\ queue # <<>> /\ queue' = Tail(queue)
      /\ UNCHANGED <<keys, repeating, place, drag, elsewhere, focus, grabbed, never_focused>>
      /\ UNCHANGED <<pc, result, shown, viewport, stage>>
  BY DEF X!process_event, X!program
<1>1. e \in Event /\ queue' \in Seq(Event) /\ Len(queue') <= MaxQueue
  <2>1. queue \in Seq(Event) /\ Len(queue) <= MaxQueue /\ Len(queue) \in Nat /\ MaxQueue \in Nat
    BY LenProperties DEF X11InputOK, X11Parameters
  <2>2. e \in Event /\ queue' \in Seq(Event) /\ Len(queue') = Len(queue) - 1
    BY <1>0, <2>1, HeadTailProperties
  <2> QED BY <2>1, <2>2
<1>2. /\ e.type \in {"KeyPress", "KeyRelease"} => e.key \in XKeys
      /\ e.type = "ConfigureNotify" => e.size \in XSizes
      /\ e.type \in {"ButtonPress", "ButtonRelease"} => e.button \in XButtons
  BY <1>1 DEF Event
<1> DEFINE Handled ==
        /\ key_status' \subseteq XKeys /\ button_status' \subseteq 0 .. 7 /\ is_mouse_inside' \in BOOLEAN
        /\ told' \in X11Told /\ told'.size = window_size' /\ window_size' \in XSizes
        /\ close' \in BOOLEAN /\ (close' = close \/ close' = TRUE)
        /\ UNCHANGED window_size \/ close' = close
        /\ image_scaler' \in {image_scaler, 0} /\ UNCHANGED <<image_buffer, held>>
<1>t. /\ key_status \subseteq XKeys /\ button_status \subseteq 0 .. 7 /\ is_mouse_inside \in BOOLEAN /\ told \in X11Told
      /\ told.size = window_size /\ window_size \in XSizes /\ close \in BOOLEAN /\ keys \subseteq XKeys
  BY DEF X11InputOK, X11WindowOK, X11SizeIsTold
<1>i. ASSUME NEW inside \in BOOLEAN, X!SetInside(inside)
      PROVE  is_mouse_inside' \in BOOLEAN /\ told' \in X11Told /\ told'.size = told.size
  BY <1>i, <1>t DEF X!SetInside, X11Told
<1>3. ASSUME X!OnKey(e) PROVE Handled
  <2>1. UNCHANGED <<button_status, is_mouse_inside, window_size, close, X!images>>
    BY <1>3 DEF X!OnKey
  <2>2. key_status' \subseteq XKeys /\ told' \in X11Told /\ told'.size = told.size
    BY <1>2, <1>3, <1>t DEF X!OnKey, X!SetKey, X11Told
  <2> QED BY <1>t, <2>1, <2>2 DEF X!images
<1>4. ASSUME X!OnButton(e) PROVE Handled
  <2>1. UNCHANGED <<key_status, window_size, close, X!images>>
    BY <1>4 DEF X!OnButton
  <2>2. is_mouse_inside' \in BOOLEAN /\ told' \in X11Told /\ told'.size = told.size
    BY <1>2, <1>4, <1>i, <1>t DEF X!OnButton
  <2>3. button_status' \subseteq 0 .. 7
    <3>1. e.button \in Nat
      BY <1>2, <1>4 DEF X!OnButton, X11Parameters
    <3>2. X!Names[e.button] \in Nat
      BY <3>1 DEF X!Names
    <3>3. X!Names[e.button] > 7 \/ X!Names[e.button] \in 0 .. 7
      BY <3>2
    <3> QED BY <1>4, <1>t, <3>3 DEF X!OnButton
  <2> QED BY <1>t, <2>1, <2>2, <2>3 DEF X!images
<1>5. ASSUME X!OnCrossing(e) PROVE Handled
  <2>1. UNCHANGED <<key_status, button_status, window_size, close, X!images>>
    BY <1>5 DEF X!OnCrossing
  <2>2. is_mouse_inside' \in BOOLEAN /\ told' \in X11Told /\ told'.size = told.size
    BY <1>2, <1>5, <1>i, <1>t DEF X!OnCrossing
  <2> QED BY <1>t, <2>1, <2>2 DEF X!images
<1>6. ASSUME X!OnConfigure(e) PROVE Handled
  <2>1. /\ window_size' = e.size /\ image_scaler' = 0 /\ UNCHANGED <<X!input, close, image_buffer, held>>
        /\ e.size \in XSizes
    BY <1>2, <1>6 DEF X!OnConfigure
  <2>2. told' \in X11Told /\ told'.size = e.size
    BY <1>2, <1>6, <1>t DEF X!OnConfigure, X11Told
  <2> QED BY <1>t, <2>1, <2>2 DEF X!input
<1>7. ASSUME X!OnFocus(e) PROVE Handled
  <2>1. UNCHANGED <<button_status, is_mouse_inside, window_size, close, X!images>>
    BY <1>7 DEF X!OnFocus
  <2>2. key_status' \subseteq XKeys /\ told' \in X11Told /\ told'.size = told.size
    <3>0. e.mode # "Normal" \/ e.type = "FocusIn" \/ e.type = "FocusOut"
      BY <1>7 DEF X!OnFocus
    <3>1. CASE e.mode # "Normal"
      BY <1>7, <1>t, <3>1 DEF X!OnFocus, X11Told
    <3>2. CASE e.mode = "Normal" /\ e.type = "FocusIn"
      <4>1. key_status' = keys /\ told' = [told EXCEPT !.active = TRUE]
        BY <1>7, <3>2 DEF X!OnFocus, X!sync_key_status
      <4> QED BY <1>t, <4>1 DEF X11Told
    <3>3. CASE e.mode = "Normal" /\ e.type = "FocusOut"
      <4>1. key_status' = {} /\ told' = [told EXCEPT !.active = FALSE, !.keys = @ \ key_status]
        BY <1>7, <3>3 DEF X!OnFocus, X!mfb_release_held_keys
      <4>2. told.keys \ key_status \in SUBSET XKeys
        BY <1>t DEF X11Told
      <4> QED BY <1>t, <4>1, <4>2 DEF X11Told
    <3> QED BY <3>0, <3>1, <3>2, <3>3
  <2> QED BY <1>t, <2>1, <2>2 DEF X!images
<1>8. ASSUME X!OnDestroy(e) \/ X!OnDelete(e) PROVE Handled
  <2>1. close' \in {close, TRUE} /\ UNCHANGED <<X!input, window_size, X!images, told>>
    BY <1>8 DEF X!OnDestroy, X!OnDelete
  <2> QED BY <1>t, <2>1 DEF X!input, X!images
<1>9. Handled
  BY <1>3, <1>4, <1>5, <1>6, <1>7, <1>8 DEF X!process_event
<1>10. X11InputOK' /\ X11WindowOK' /\ X11SizeIsTold' /\ ImagesOK' /\ X11Obtained' /\ X!NothingLeaks'
  BY <1>0, <1>1, <1>9 DEF X11InputOK, X11WindowOK, X11SizeIsTold, ImagesOK, X11Obtained, X!NothingLeaks
<1> QED BY <1>0, <1>9, <1>10

\* Whatever the opening has obtained so far, each release finds what it asks for: the
\* images, the text and the display in SWindowData_X11, the window and the cursor on an open
\* display.
LEMMA X11DestroyKeeps ==
    ASSUME X11WindowOK, ImagesOK, X11Obtained, pc \in {"opening", "idle", "called", "drain"},
           X!destroy_window_data
    PROVE  held' = {} /\ image_scaler' = 0 /\ image_buffer' = 0
<1>1. held \subseteq {"data", "specific", "display", "window", "text", "image", "timer", "cursor"}
  BY DEF X11WindowOK, X!ToSet, X!Wanted
<1>2. held' = X!mfb_free_window_data(X!CloseDisplay(X!FreeCursor(X!DestroyWindow(
                  X!x11_text_destroy(X!DestroyImage(held))))))
  BY DEF X!destroy_window_data
<1>3. CASE {"specific", "display"} \subseteq held
  <2>1. "specific" \in held /\ "display" \in held
    BY <1>3
  <2>2. X!x11_text_destroy(X!DestroyImage(held)) = held \ {"image", "text"}
    BY <2>1 DEF X!DestroyImage, X!x11_text_destroy
  <2>3. X!FreeCursor(X!DestroyWindow(held \ {"image", "text"})) = held \ {"image", "text", "window", "cursor"}
    BY <2>1 DEF X!DestroyWindow, X!FreeCursor
  <2>4. X!CloseDisplay(held \ {"image", "text", "window", "cursor"})
            = held \ {"image", "text", "window", "cursor", "display"}
    BY <2>1 DEF X!CloseDisplay
  <2>5. held' = (held \ {"image", "text", "window", "cursor", "display"}) \ {"timer", "specific", "data"}
    BY <1>2, <2>2, <2>3, <2>4 DEF X!mfb_free_window_data
  <2>6. image_scaler' = 0 /\ image_buffer' = 0
    BY <2>1 DEF X!destroy_window_data
  <2> QED BY <1>1, <2>5, <2>6
<1>4. CASE held \in {{}, {"data"}} /\ pc = "opening"
  <2>1. "specific" \notin held /\ "display" \notin held
    BY <1>4
  <2>2. held' = held \ {"timer", "specific", "data"}
    BY <1>2, <2>1 DEF X!DestroyImage, X!x11_text_destroy, X!DestroyWindow, X!FreeCursor, X!CloseDisplay,
                      X!mfb_free_window_data
  <2>3. image_scaler' = 0 /\ image_buffer' = 0
    BY <1>4, <2>1 DEF X!destroy_window_data, ImagesOK
  <2> QED BY <1>4, <2>2, <2>3
<1>5. CASE held = {"data", "specific"} /\ pc = "opening"
  <2>1. "specific" \in held /\ "display" \notin held
    BY <1>5
  <2>2. X!x11_text_destroy(X!DestroyImage(held)) = held
    BY <1>5 DEF X!DestroyImage, X!x11_text_destroy
  <2>3. X!CloseDisplay(X!FreeCursor(X!DestroyWindow(held))) = held
    BY <1>5 DEF X!DestroyWindow, X!FreeCursor, X!CloseDisplay
  <2>4. held' = held \ {"timer", "specific", "data"}
    BY <1>2, <2>2, <2>3 DEF X!mfb_free_window_data
  <2>5. image_scaler' = 0 /\ image_buffer' = 0
    BY <2>1 DEF X!destroy_window_data
  <2> QED BY <1>5, <2>4, <2>5
<1>6. stage = 1 \/ stage = 2 \/ stage = 3 \/ stage > 3
  BY DEF X11WindowOK
<1> QED BY <1>3, <1>4, <1>5, <1>6 DEF X11Obtained

\* Every opening that fails gives back what it had.
LEMMA X11OpeningKeeps ==
    ASSUME X11IInv, X!mfb_open_ex
    PROVE  /\ X11IInv' /\ pc = "opening" /\ pc' \in {"opening", "failed", "idle"}
           /\ UNCHANGED <<window_size, close, told, result, shown>>
<1> USE DEF X11IInv
<1>1. /\ pc = "opening"
      /\ UNCHANGED <<X!user, button_status, is_mouse_inside, is_active, window_size, viewport, close,
                     told, call, result, shown>>
  BY DEF X!mfb_open_ex
<1>2. \/ UNCHANGED <<image_scaler, image_buffer>> /\ pc' \in {"opening", "idle"}
      \/ held' = {} /\ image_scaler' = 0 /\ image_buffer' = 0 /\ pc' = "failed"
  BY <1>1, X11DestroyKeeps DEF X!mfb_open_ex, X!Obtain, X!images
<1>3. key_status' \subseteq XKeys
  BY DEF X!mfb_open_ex, X11InputOK
<1>w. held' \subseteq X!ToSet(X!Wanted) /\ stage' \in Nat \ {0}
  <2>t. held \subseteq X!ToSet(X!Wanted) /\ stage \in Nat \ {0} /\ Len(X!Wanted) \in Nat
    BY DEF X11WindowOK, X!Wanted
  <2>1. CASE stage <= Len(X!Wanted)
    <3>1. X!Wanted[stage] \in X!ToSet(X!Wanted)
      BY <2>t, <2>1 DEF X!Wanted, X!ToSet
    <3>2. X!Obtain(X!Wanted[stage]) /\ stage' = stage + 1
      BY <2>1 DEF X!mfb_open_ex
    <3>3. held' = held \/ held' = held \cup {X!Wanted[stage]} \/ held' = {}
      BY <1>1, <3>2, X11DestroyKeeps DEF X!Obtain, X!images
    <3> QED BY <2>t, <3>1, <3>2, <3>3
  <2>2. CASE ~(stage <= Len(X!Wanted))
    BY <2>t, <2>2 DEF X!mfb_open_ex, X!images
  <2> QED BY <2>1, <2>2
<1>4. X11InputOK' /\ X11WindowOK' /\ X11SizeIsTold'
  BY <1>1, <1>2, <1>3, <1>w DEF X11InputOK, X11WindowOK, X11SizeIsTold, X!user
<1>5. ImagesOK' /\ X!NothingLeaks'
  BY <1>1, <1>2 DEF ImagesOK, X11Obtained, X!NothingLeaks
<1>6. X11Obtained'
  <2>1. stage \in Nat \ {0}
    BY DEF X11WindowOK
  <2>2. CASE stage > Len(X!Wanted)
    <3>1. stage > 3 /\ pc' = "idle" /\ held' = held
      BY <2>1, <2>2 DEF X!mfb_open_ex, X!images, X!Wanted
    <3> QED BY <1>1, <3>1 DEF X11Obtained
  <2>3. CASE stage <= Len(X!Wanted) /\ pc' # "failed"
    <3>1. X!Obtain(X!Wanted[stage]) /\ stage' = stage + 1
      BY <2>3 DEF X!mfb_open_ex
    <3>2. \/ pc' = "opening" /\ held' = held \cup {X!Wanted[stage]}
          \/ pc' = "opening" /\ held' = held /\ X!Wanted[stage] \in {"text", "cursor"}
      BY <1>1, <2>3, <3>1 DEF X!Obtain, X!images, X!Optional
    <3>3. CASE stage = 1
      <4>1. X!Wanted[stage] = "data"
        BY <3>3 DEF X!Wanted
      <4> QED BY <1>1, <3>1, <3>2, <3>3, <4>1 DEF X11Obtained
    <3>4. CASE stage = 2
      <4>1. X!Wanted[stage] = "specific"
        BY <3>4 DEF X!Wanted
      <4> QED BY <1>1, <3>1, <3>2, <3>4, <4>1 DEF X11Obtained
    <3>5. CASE stage = 3
      <4>1. X!Wanted[stage] = "display"
        BY <3>5 DEF X!Wanted
      <4> QED BY <1>1, <3>1, <3>2, <3>5, <4>1 DEF X11Obtained
    <3>6. CASE stage > 3
      <4>1. {"specific", "display"} \subseteq held /\ stage' > 3
        BY <1>1, <2>1, <3>1, <3>6 DEF X11Obtained
      <4>2. {"specific", "display"} \subseteq held'
        BY <3>2, <4>1
      <4> QED BY <2>1, <3>1, <3>6, <4>1, <4>2 DEF X11Obtained
    <3> QED BY <2>1, <3>3, <3>4, <3>5, <3>6
  <2>4. CASE pc' = "failed"
    BY <2>4 DEF X11Obtained
  <2> QED BY <2>1, <2>2, <2>3, <2>4 DEF X!Wanted
<1> QED BY <1>1, <1>2, <1>4, <1>5, <1>6

\* What is drawn is put from an image of the viewport's size, made anew when the last one
\* was of another.
LEMMA DrawKeeps ==
    ASSUME X11Parameters, X11WindowOK, ImagesOK, pc = "called", NEW b, X!Draw(b)
    PROVE  /\ ImagesOK' /\ held' = held /\ image_scaler' \in Nat /\ image_buffer' \in Nat
           /\ \/ pc' = "idle" /\ result' = "INTERNAL_ERROR" /\ shown' = shown
              \/ pc' = "drain" /\ result' = result /\ shown'.window = window_size
<1>0. image_scaler' \in Nat /\ image_buffer' \in Nat
  <2>1. image_scaler \in Nat /\ image_buffer \in Nat /\ window_size \in Nat /\ viewport[1] \in Nat
        /\ viewport[2] \in Nat \ {0}
    BY DEF X11WindowOK, X11Parameters
  <2>2. window_size * viewport[1] \in Nat
    BY <2>1
  <2>3. X!dst_size \in Nat
    BY <2>1, <2>2 DEF X!dst_size
  <2> QED BY <2>1, <2>3 DEF X!Draw, X!MakeScaler
<1>1. image_scaler' # 0 => image_buffer' = image_scaler'
  <2>1. CASE X!use_scaler(b) /\ X!Stale
    BY <2>1 DEF X!Draw, X!MakeScaler
  <2>2. CASE ~(X!use_scaler(b) /\ X!Stale)
    BY <2>2 DEF X!Draw, ImagesOK
  <2> QED BY <2>1, <2>2
<1>2. X!use_scaler(b) => image_scaler' \in {0, X!dst_size}
  BY DEF X!Draw, X!MakeScaler, X!Stale
<1>3. CASE X!use_scaler(b) /\ image_scaler' = 0
  BY <1>0, <1>1, <1>3 DEF X!Draw, ImagesOK
<1>4. CASE ~(X!use_scaler(b) /\ image_scaler' = 0)
  <2>1. /\ pc' = "drain" /\ result' = result /\ held' = held
        /\ shown' = [window |-> window_size, dst |-> X!dst_size,
                     image |-> IF X!use_scaler(b) THEN image_scaler' ELSE FirstSize,
                     pixels |-> IF X!use_scaler(b) THEN image_buffer' ELSE b]
    BY <1>4 DEF X!Draw
  <2>2. shown'.image = shown'.dst /\ shown'.pixels = shown'.dst
    <3>1. CASE X!use_scaler(b)
      BY <1>1, <1>2, <1>4, <2>1, <3>1
    <3>2. CASE ~X!use_scaler(b)
      BY <2>1, <3>2 DEF X!use_scaler
    <3> QED BY <3>1, <3>2
  <2> QED BY <1>0, <1>1, <2>1, <2>2 DEF ImagesOK
<1> QED BY <1>0, <1>3, <1>4

\* An update ends the window, refuses its buffer, fails to scale it, or shows it.
LEMMA X11UpdateKeeps ==
    ASSUME X11Parameters, X11IInv, NEW b \in XSizes \cup {0}, X!mfb_update_ex(b)
    PROVE  /\ X11IInv' /\ pc = "called" /\ UNCHANGED <<window_size, close, told>>
           /\ \/ close /\ pc' = "gone" /\ result' = "EXIT" /\ shown' = shown
              \/ pc' = "idle" /\ result' \in {"INVALID_BUFFER", "INTERNAL_ERROR"} /\ shown' = shown
              \/ ~close /\ pc' = "drain" /\ result' = result /\ shown'.window = window_size
<1> USE DEF X11IInv
<1>1. pc = "called" /\ UNCHANGED <<X!user, X!input, window_size, viewport, stage, close, told>>
  BY DEF X!mfb_update_ex
<1>2. CASE close
  <2>1. held' = {} /\ image_scaler' = 0 /\ image_buffer' = 0 /\ pc' = "gone" /\ result' = "EXIT" /\ shown' = shown
    BY <1>1, <1>2, X11DestroyKeeps DEF X!mfb_update_ex, X!Leave
  <2> QED BY <1>1, <1>2, <2>1 DEF X11InputOK, X11WindowOK, X11SizeIsTold, ImagesOK, X11Obtained, X!NothingLeaks, X!user, X!input
<1>3. CASE ~close
  <2>1. /\ ImagesOK' /\ held' = held /\ image_scaler' \in Nat /\ image_buffer' \in Nat
        /\ \/ pc' = "idle" /\ result' \in {"INVALID_BUFFER", "INTERNAL_ERROR"} /\ shown' = shown
           \/ pc' = "drain" /\ result' = result /\ shown'.window = window_size
    <3>1. CASE b = 0
      BY <1>1, <1>3, <3>1 DEF X!mfb_update_ex, X!images, ImagesOK, X11WindowOK
    <3>2. CASE b > 0
      <4>1. X!Draw(b)
        BY <1>3, <3>2 DEF X!mfb_update_ex
      <4> QED BY <1>1, <4>1, DrawKeeps
    <3> QED BY <3>1, <3>2 DEF X11Parameters
  <2> QED BY <1>1, <1>3, <2>1 DEF X11InputOK, X11WindowOK, X11SizeIsTold, X11Obtained, X!NothingLeaks, X!user, X!input
<1> QED BY <1>2, <1>3 DEF X11WindowOK

\* A pump ends the window, goes on, or answers with no event left.
LEMMA X11PumpKeeps ==
    ASSUME X11IInv, X!Pump \/ X!Drained
    PROVE  /\ X11IInv' /\ pc \in {"called", "drain"} /\ UNCHANGED <<window_size, close, told, shown>>
           /\ \/ close /\ pc' = "gone" /\ result' = "EXIT"
              \/ pc' = "drain" /\ result' = result
              \/ pc' = "idle" /\ result' \in {"OK", "INTERNAL_ERROR"}
<1> USE DEF X11IInv
<1>1. pc \in {"called", "drain"} /\ UNCHANGED <<X!user, X!input, window_size, viewport, stage, close, told, shown>>
  BY DEF X!Pump, X!Drained
<1>2. \/ close /\ held' = {} /\ image_scaler' = 0 /\ image_buffer' = 0 /\ pc' = "gone" /\ result' = "EXIT"
      \/ /\ \/ pc' = "drain" /\ result' = result
            \/ pc' = "idle" /\ result' \in {"OK", "INTERNAL_ERROR"}
         /\ UNCHANGED <<image_scaler, image_buffer, held>>
  BY <1>1, X11DestroyKeeps DEF X!Pump, X!Drained, X!Leave, X!images
<1> QED BY <1>1, <1>2 DEF X11InputOK, X11WindowOK, X11SizeIsTold, ImagesOK, X11Obtained, X!NothingLeaks, X!user, X!input

\* The other calls of the application.
LEMMA X11CallsKeep ==
    ASSUME X11Parameters, X11IInv, X!Application
    PROVE  /\ X11IInv' /\ UNCHANGED <<window_size, told, result, shown>>
           /\ \/ pc = "idle" /\ pc' = "called" /\ close' = close
              \/ pc' = pc /\ (close' = close \/ (close' = TRUE /\ pc \in {"idle", "drain"}))
<1>1. /\ UNCHANGED <<X!user, X!input, window_size, stage, X!images, told, result, shown>>
      /\ \/ pc = "idle" /\ pc' = "called" /\ close' = close
         \/ pc' = pc /\ (close' = close \/ (close' = TRUE /\ pc \in {"idle", "drain"}))
  BY DEF X!Application, X!Call, X!mfb_close, X!mfb_set_viewport, X!program
<1>2. viewport' \in Nat \X (Nat \ {0})
  BY DEF X!Application, X!Call, X!mfb_close, X!mfb_set_viewport, X11IInv, X11WindowOK, X11Parameters
<1>3. X11InputOK' /\ X11SizeIsTold'
  BY <1>1 DEF X11IInv, X11InputOK, X11SizeIsTold, X!user, X!input
<1>4. X11WindowOK' /\ ImagesOK' /\ X11Obtained' /\ X!NothingLeaks'
  BY <1>1, <1>2 DEF X11IInv, X11WindowOK, ImagesOK, X11Obtained, X!NothingLeaks, X!images
<1> QED BY <1>1, <1>3, <1>4 DEF X11IInv

--------------------------------------------------------------------------------
LEMMA X11InitHolds == X11Parameters /\ X!Init => X11IInv
<1> SUFFICES ASSUME X11Parameters, X!Init PROVE X11IInv
  OBVIOUS
<1>1. X11InputOK
  <2>1. /\ queue = <<>> /\ keys \subseteq XKeys /\ key_status = {} /\ elsewhere = {} /\ button_status = {}
        /\ repeating = X!NoKey /\ focus = FALSE /\ grabbed = FALSE /\ drag = FALSE /\ is_mouse_inside = FALSE
        /\ place = "out" /\ never_focused = TRUE
    BY DEF X!Init
  <2>2. queue \in Seq(Event) /\ Len(queue) <= MaxQueue
    BY <2>1, OneEvent, EmptySeq DEF X11Parameters
  <2> QED BY <2>1, <2>2 DEF X11InputOK
<1>2. told \in X11Told /\ told.size = FirstSize
  BY DEF X!Init, X11Told, X11Parameters
<1>3. /\ window_size = FirstSize /\ close = FALSE /\ pc = "opening" /\ viewport = <<FirstSize, FirstSize>>
      /\ image_scaler = 0 /\ image_buffer = 0 /\ held = {} /\ stage = 1
  BY DEF X!Init
<1>4. X11WindowOK /\ X11SizeIsTold
  <2>1. viewport \in Nat \X (Nat \ {0}) /\ held \subseteq X!ToSet(X!Wanted)
    BY <1>3 DEF X11Parameters
  <2>2. /\ window_size \in XSizes /\ close \in BOOLEAN /\ image_scaler \in Nat /\ image_buffer \in Nat
        /\ stage \in Nat \ {0} /\ pc \in {"opening", "failed", "idle", "called", "drain", "gone"}
    <3>1. window_size = FirstSize /\ close = FALSE /\ image_scaler = 0 /\ image_buffer = 0 /\ stage = 1 /\ pc = "opening"
      BY <1>3
    <3>2. close \in BOOLEAN
      BY <3>1
    <3> QED BY <3>1, <3>2 DEF X11Parameters
  <2>3. X11SizeIsTold
    BY <1>2, <1>3 DEF X11SizeIsTold
  <2> QED BY <1>2, <2>1, <2>2, <2>3 DEF X11WindowOK
<1>5. ImagesOK /\ X11Obtained /\ X!NothingLeaks
  BY DEF X!Init, ImagesOK, X11Obtained, X!NothingLeaks
<1> QED BY <1>1, <1>4, <1>5 DEF X11IInv

\* The inductive step, and what the contract sees of it.
LEMMA X11StepKeeps ==
    ASSUME X11Parameters, X11IInv, [X!Next]_X!vars
    PROVE  X11IInv' /\ [X!Contract!Next]_X!Contract!vars
<1> DEFINE Kept == [X!Contract!Next]_X!Contract!vars
<1> USE DEF X!Contract!vars, X!Contract!Next
<1>t. /\ close \in BOOLEAN /\ window_size \in XSizes /\ told.size = window_size
      /\ X11IInv' => window_size' \in XSizes /\ told'.size = window_size'
  BY DEF X11IInv, X11WindowOK, X11SizeIsTold
\* Steps the application cannot see, or by which the close is asked for.
<1>s. ASSUME UNCHANGED <<window_size, result, shown>>, told'.size = told.size,
             pc' = "gone" <=> pc = "gone",
             pc' \in {"called", "drain"} <=> pc \in {"called", "drain"},
             close' = close \/ (close' = TRUE /\ pc # "gone")
      PROVE  Kept
  BY <1>s, <1>t DEF X!Contract!RequestClose
\* The end.
<1>e. ASSUME close, pc \in {"called", "drain"}, pc' = "gone", result' = "EXIT", shown' = shown,
             UNCHANGED <<window_size, told>>
      PROVE  Kept
  <2>1. (pc' \in {"called", "drain"}) = FALSE /\ pc # "gone"
    BY <1>e
  <2>2. X!Contract!ReturnExit
    BY <1>e, <2>1 DEF X!Contract!ReturnExit
  <2> QED BY <2>2
<1>1. CASE X!Server
  <2>1. UNCHANGED <<X!input, window_size, viewport, close, X!images, told, X!program>> /\ X11InputOK'
    BY <1>1, ServerKeeps DEF X11IInv
  <2>2. X11IInv'
    BY <2>1 DEF X11IInv, X11WindowOK, X11SizeIsTold, ImagesOK, X11Obtained, X!NothingLeaks, X!images, X!program
  <2> QED BY <2>1, <2>2, <1>s DEF X!program
<1>2. CASE X!mfb_open_ex
  BY <1>2, <1>s, X11OpeningKeeps
<1>3. CASE X!process_event
  <2>1. CASE window_size' = window_size
    BY <1>3, <1>s, <1>t, <2>1, ProcessKeeps
  <2>2. CASE close' = close
    <3>1. X!Contract!Resize
      BY <1>3, <1>t, <2>2, ProcessKeeps DEF X!Contract!Resize
    <3> QED BY <1>3, <3>1, ProcessKeeps
  <2> QED BY <1>3, <2>1, <2>2, ProcessKeeps
<1>4. CASE X!Pump \/ X!Drained
  <2>1. CASE close /\ pc' = "gone" /\ result' = "EXIT"
    BY <1>4, <1>e, <2>1, X11PumpKeeps
  <2>2. CASE pc' = "drain" /\ result' = result
    BY <1>4, <1>s, <2>2, X11PumpKeeps
  <2>3. CASE pc' = "idle" /\ result' = "OK"
    BY <1>4, <1>t, <2>3, X11PumpKeeps DEF X!Contract!ReturnOK
  <2>4. CASE pc' = "idle" /\ result' = "INTERNAL_ERROR"
    BY <1>4, <1>t, <2>4, X11PumpKeeps DEF X!Contract!ReturnError
  <2> QED BY <1>4, <2>1, <2>2, <2>3, <2>4, X11PumpKeeps
<1>5. ASSUME NEW b \in XSizes \cup {0}, X!mfb_update_ex(b) PROVE X11IInv' /\ Kept
  <2>1. CASE close /\ pc' = "gone" /\ result' = "EXIT"
    BY <1>5, <1>e, <2>1, X11UpdateKeeps
  <2>2. CASE pc' = "idle"
    BY <1>5, <1>t, <2>2, X11UpdateKeeps DEF X!Contract!ReturnError
  <2>3. CASE ~close /\ pc' = "drain"
    BY <1>5, <1>t, <2>3, X11UpdateKeeps DEF X!Contract!Show
  <2> QED BY <1>5, <2>1, <2>2, <2>3, X11UpdateKeeps
<1>6. CASE X!Application
  <2>1. CASE pc = "idle" /\ pc' = "called" /\ close' = close
    BY <1>6, <1>t, <2>1, X11CallsKeep DEF X!Contract!Call
  <2>2. CASE pc' = pc /\ (close' = close \/ (close' = TRUE /\ pc \in {"idle", "drain"}))
    BY <1>6, <1>s, <2>2, X11CallsKeep
  <2> QED BY <1>6, <2>1, <2>2, X11CallsKeep
<1>7. CASE UNCHANGED X!vars
  <2>1. X11IInv'
    BY <1>7 DEF X!vars, X!user, X!input, X!images, X!program, X11IInv, X11InputOK, X11WindowOK, X11SizeIsTold, ImagesOK,
                X11Obtained, X!NothingLeaks
  <2> QED BY <1>7, <1>s, <2>1 DEF X!vars, X!program
<1> QED BY <1>1, <1>2, <1>3, <1>4, <1>5, <1>6, <1>7 DEF X!Next, X!Library

--------------------------------------------------------------------------------
\* Windows.

\* What is assumed of the constants: a size is positive, as 0 is a window of no size.
WinParameters == FirstSize \in WSizes /\ WSizes \subseteq Nat \ {0} /\ MaxQueue \in Nat

Message ==
    [type : {"Key"}, key : WKeys, pressed : BOOLEAN] \cup
    [type : {"Silent"}, key : WKeys] \cup
    [type : {"Down", "Up"}, button : WButtons, at : {"in", "covered", "out"}] \cup
    [type : {"WM_MOUSEMOVE"}, at : {"in", "covered", "out"}] \cup
    [type : {"WM_SIZE", "WM_DPICHANGED", "SIZE_MINIMIZED"}, size : WSizes \cup {0}] \cup
    [type : {"WM_MOUSELEAVE", "WM_CAPTURECHANGED", "WM_SETFOCUS", "WM_KILLFOCUS",
             "WM_CLOSE", "WM_DESTROY", "WM_PAINT"}]

WinTold == [keys : SUBSET WKeys, buttons : SUBSET WButtons, inside : BOOLEAN, active : BOOLEAN,
         size : WSizes]

\* The queue is a parameter: a step of the procedure is a message and the queue it leaves.
QueueOK == queue \in Seq(Message) /\ Len(queue) <= MaxQueue

WinInputOK ==
    /\ keys \subseteq WKeys /\ unseen \subseteq WKeys /\ lost \subseteq WButtons /\ place \in {"in", "covered", "out"}
    /\ key_status \subseteq WKeys /\ thread_keys \subseteq WKeys /\ button_status \subseteq WButtons
    /\ is_mouse_inside \in BOOLEAN /\ is_active \in BOOLEAN /\ is_cursor_visible \in BOOLEAN

WinWindowOK ==
    /\ window_size \in WSizes \cup {0} /\ draw_buffer \in WSizes \cup {0} /\ close \in BOOLEAN
    /\ told \in WinTold
    /\ pc \in {"opening", "failed", "idle", "called", "drain", "gone"}
    /\ stage \in Nat \ {0} /\ held \subseteq W!ToSet(W!Wanted)

\* The application was told the size a window that has one has.
WinSizeIsTold == window_size # 0 => told.size = window_size

\* The opening obtains its resources in order, and an open window has the ones that the
\* release of the others asks for.
WinObtained ==
    /\ pc = "opening" /\ stage <= 3 => held \subseteq {"counter", "data"}
    /\ pc = "opening" /\ stage \in {4, 5} => held \subseteq {"counter", "data", "specific", "class"}
    /\ pc = "opening" /\ stage > 3 => "specific" \in held
    /\ pc = "opening" /\ stage > 5 => "window" \in held
    /\ pc \in {"idle", "called", "drain"} => {"specific", "window"} \subseteq held

WinIInv ==
    /\ QueueOK /\ WinInputOK /\ WinWindowOK /\ WinSizeIsTold /\ WinObtained
    /\ W!CursorCountBalanced /\ W!NothingLeaks

--------------------------------------------------------------------------------
LEMMA Messages ==
    /\ \A k \in WKeys, pressed \in BOOLEAN : W!Key(k, pressed) \in Message
    /\ \A k \in WKeys : W!Silent(k) \in Message
    /\ \A type \in {"Down", "Up"}, b \in WButtons :
           place \in {"in", "covered", "out"} => W!Mouse(type, b) \in Message
    /\ \A p \in {"in", "covered", "out"} : [type |-> "WM_MOUSEMOVE", at |-> p] \in Message
    /\ \A type \in {"WM_SIZE", "WM_DPICHANGED", "SIZE_MINIMIZED"}, s \in WSizes \cup {0} :
           [type |-> type, size |-> s] \in Message
    /\ \A type \in {"WM_MOUSELEAVE", "WM_CAPTURECHANGED", "WM_SETFOCUS", "WM_KILLFOCUS",
                    "WM_CLOSE", "WM_DESTROY", "WM_PAINT"} : [type |-> type] \in Message
BY DEF Message, W!Key, W!Silent, W!Mouse

LEMMA OneMessage == <<>> \in Seq(Message) /\ \A m \in Message : <<m>> \in Seq(Message)
OBVIOUS

\* What waits for the thread is typed, whatever the system posts after it.
LEMMA PostKeeps ==
    ASSUME QueueOK, NEW messages \in Seq(Message), W!Post(messages)
    PROVE  QueueOK'
BY ConcatProperties DEF QueueOK, W!Post

LEMMA PostOneKeeps ==
    ASSUME QueueOK
    PROVE  /\ W!Post(<<>>) => QueueOK'
           /\ \A m \in Message : W!Post(<<m>>) => QueueOK'
BY OneMessage, PostKeeps

\* The system writes messages and its own state only.
LEMMA SystemKeeps ==
    ASSUME QueueOK, WinInputOK, W!System
    PROVE  /\ QueueOK' /\ keys' \subseteq WKeys /\ unseen' \subseteq WKeys /\ lost' \subseteq WButtons
           /\ place' \in {"in", "covered", "out"}
           /\ UNCHANGED <<thread_keys, cursor_count, W!input, W!window, told, W!program>>
<1> USE PostOneKeeps, Messages DEF WinInputOK
<1> DEFINE Kept == /\ QueueOK' /\ keys' \subseteq WKeys /\ unseen' \subseteq WKeys /\ lost' \subseteq WButtons
                   /\ place' \in {"in", "covered", "out"}
                   /\ UNCHANGED <<thread_keys, cursor_count>>
<1>0. UNCHANGED <<W!input, W!window, told, W!program>>
  BY DEF W!System
<1>1. ASSUME NEW k \in WKeys, W!KeyDown(k) PROVE Kept
  BY <1>1 DEF W!KeyDown
<1>2. ASSUME NEW k \in WKeys, W!KeyUp(k) PROVE Kept
  BY <1>2 DEF W!KeyUp
<1>3. ASSUME W!ChangeFocus \/ W!TakeCapture PROVE Kept
  BY <1>3 DEF W!ChangeFocus, W!TakeCapture
<1>4. ASSUME NEW p \in {"in", "covered", "out"}, W!MovePointer(p) PROVE Kept
  <2> DEFINE left == IF tracking /\ p # "in" THEN <<W!Leave>> ELSE <<>>
             moved == IF capture \/ p = "in" THEN <<[type |-> "WM_MOUSEMOVE", at |-> p]>>
                                             ELSE <<>>
  <2>1. left \in Seq(Message) /\ moved \in Seq(Message)
    BY OneMessage DEF W!Leave
  <2>2. W!Post(left \o moved) /\ place' = p /\ UNCHANGED <<keys, unseen, lost, thread_keys, cursor_count>>
    BY <1>4 DEF W!MovePointer
  <2>3. left \o moved \in Seq(Message)
    BY <2>1, ConcatProperties
  <2> QED BY <2>2, <2>3, PostKeeps
<1>5. ASSUME NEW b \in WButtons, W!ButtonDown(b) \/ W!ButtonUp(b) PROVE Kept
  BY <1>5 DEF W!ButtonDown, W!ButtonUp
<1>6. ASSUME NEW type \in {"WM_SIZE", "WM_DPICHANGED", "SIZE_MINIMIZED"}, NEW s \in WSizes \cup {0},
             W!Resize(type, s)
      PROVE  Kept
  BY <1>6 DEF W!Resize
<1>7. ASSUME NEW type \in {"WM_CLOSE", "WM_DESTROY", "WM_PAINT"}, W!Ask(type) PROVE Kept
  BY <1>7 DEF W!Ask
<1> QED BY <1>0, <1>1, <1>2, <1>3, <1>4, <1>5, <1>6, <1>7 DEF W!System

--------------------------------------------------------------------------------
LEMMA HeadIsTyped ==
    ASSUME WinParameters, QueueOK, queue # <<>>
    PROVE  /\ Head(queue) \in Message /\ Tail(queue) \in Seq(Message)
           /\ Len(queue) \in Nat /\ Len(queue) <= MaxQueue /\ Len(Tail(queue)) = Len(queue) - 1
           /\ queue' = Tail(queue) => QueueOK'
<1>1. /\ Head(queue) \in Message /\ Tail(queue) \in Seq(Message)
      /\ Len(queue) \in Nat /\ Len(queue) <= MaxQueue /\ Len(Tail(queue)) = Len(queue) - 1
  BY HeadTailProperties, LenProperties DEF QueueOK
<1>2. ASSUME queue' = Tail(queue) PROVE QueueOK'
  <2>1. queue' \in Seq(Message) /\ Len(queue') = Len(queue) - 1
    BY <1>1, <1>2
  <2> QED BY <1>1, <2>1 DEF QueueOK, WinParameters
<1> QED BY <1>1, <1>2

\* Arming the tracker puts one leave at most in the place of the message.
LEMMA TrackKeeps ==
    ASSUME WinParameters, QueueOK, queue # <<>>, NEW armed, W!track_mouse_leave(armed)
    PROVE  QueueOK'
<1>1. CASE queue' = Tail(queue) \o <<W!Leave>>
  <2> DEFINE e == W!Leave
  <2>1. e \in Message
    BY Messages DEF W!Leave
  <2> HIDE DEF e
  <2>2. <<e>> \in Seq(Message) /\ Len(<<e>>) = 1
    BY <2>1
  <2>3. queue' \in Seq(Message) /\ Len(queue') = Len(Tail(queue)) + 1
    BY <1>1, <2>2, HeadIsTyped, ConcatProperties DEF e
  <2> QED BY <2>3, HeadIsTyped DEF QueueOK, WinParameters
<1>2. CASE queue' = Tail(queue) \o <<>>
  BY <1>2, HeadIsTyped, ConcatEmptySeq
<1>3. CASE queue' = Tail(queue)
  BY <1>3, HeadIsTyped
<1> QED BY <1>1, <1>2, <1>3 DEF W!track_mouse_leave, W!NoPost

\* The count moves with what the window knows of the pointer.
LEMMA InsideKeeps ==
    ASSUME WinInputOK, W!CursorCountBalanced, is_cursor_visible' = is_cursor_visible,
           NEW b \in BOOLEAN, W!set_mouse_inside(b)
    PROVE  is_mouse_inside' \in BOOLEAN /\ W!CursorCountBalanced'
<1>0. 2 - 1 = 1 /\ 1 + 1 = 2
  OBVIOUS
<1> USE DEF WinInputOK, W!CursorCountBalanced, W!set_mouse_inside, W!Hidden, W!Balanced
<1>1. CASE b = is_mouse_inside \/ is_cursor_visible
  BY <1>1
<1>2. CASE b /\ ~is_mouse_inside /\ ~is_cursor_visible
  <2>1. is_mouse_inside' /\ ~is_cursor_visible' /\ cursor_count' = cursor_count - 1 /\ cursor_count = 2
    BY <1>2, Zenon
  <2>2. cursor_count' = 1
    BY <1>0, <2>1, Zenon
  <2> QED BY <1>2, <2>1, <2>2, Zenon
<1>3. CASE ~b /\ is_mouse_inside /\ ~is_cursor_visible
  <2>1. ~is_mouse_inside' /\ cursor_count' = cursor_count + 1 /\ cursor_count = 1
    BY <1>3, Zenon
  <2>2. cursor_count' = 2
    BY <1>0, <2>1, Zenon
  <2> QED BY <1>3, <2>1, <2>2, Zenon
<1> QED BY <1>1, <1>2, <1>3

\* A message of the pointer, buttons and capture included.
LEMMA PointerKeeps ==
    ASSUME WinParameters, WinIInv, queue # <<>>, W!OnPointer(Head(queue)),
           UNCHANGED <<keys, unseen, lost, place, is_cursor_visible, W!program>>
    PROVE  WinIInv'
<1> DEFINE m == Head(queue)
<1> USE DEF WinIInv
<1>0. m \in Message
  BY HeadIsTyped
<1>1. ASSUME NEW points, W!settle_mouse_inside(points)
      PROVE  QueueOK' /\ is_mouse_inside' \in BOOLEAN /\ W!CursorCountBalanced'
  BY <1>1, TrackKeeps, InsideKeeps DEF W!settle_mouse_inside, WinInputOK
<1>2. UNCHANGED <<cursor_count, is_mouse_inside>> =>
          is_mouse_inside' \in BOOLEAN /\ W!CursorCountBalanced'
  BY DEF W!CursorCountBalanced, WinInputOK
<1>3. QueueOK' /\ is_mouse_inside' \in BOOLEAN /\ W!CursorCountBalanced'
  <2>1. CASE W!OnButtonDown(m)
    BY <2>1, <1>2, HeadIsTyped DEF W!OnButtonDown
  <2>2. CASE W!OnButtonUp(m)
    BY <2>2, <1>1, <1>2, HeadIsTyped DEF W!OnButtonUp
  <2>3. CASE W!OnCaptureChanged(m)
    BY <2>3, <1>1 DEF W!OnCaptureChanged
  <2>4. CASE W!OnMove(m)
    BY <2>4, <1>2, HeadIsTyped, TrackKeeps, InsideKeeps DEF W!OnMove
  <2>5. CASE W!OnLeave(m)
    BY <2>5, <1>2, HeadIsTyped, InsideKeeps DEF W!OnLeave
  <2> QED BY <2>1, <2>2, <2>3, <2>4, <2>5 DEF W!OnPointer
<1>4. button_status' \subseteq WButtons
  <2>1. m.type = "Down" => m.button \in WButtons
    BY <1>0 DEF Message
  <2>2. \/ m.type = "Down" /\ button_status' = button_status \cup {m.button}
        \/ button_status' = button_status \ {m.button}
        \/ button_status' = {}
        \/ button_status' = button_status
    BY DEF W!OnPointer, W!OnButtonDown, W!OnButtonUp, W!OnCaptureChanged, W!OnMove, W!OnLeave, W!release_mouse_buttons
  <2> QED BY <2>1, <2>2 DEF WinInputOK
<1>5. /\ told' = [told EXCEPT !.inside = is_mouse_inside', !.buttons = button_status']
      /\ UNCHANGED <<keys, unseen, lost, place, is_cursor_visible, key_status, thread_keys, is_active,
                     window_size, draw_buffer, close, held, pc, stage>>
  BY DEF W!OnPointer, W!window, W!buffers, W!program
<1>6. told' \in WinTold /\ told'.size = told.size
  BY <1>3, <1>4, <1>5 DEF WinWindowOK, WinTold
<1>7. WinInputOK' /\ WinWindowOK' /\ WinSizeIsTold' /\ WinObtained' /\ W!NothingLeaks'
  BY <1>3, <1>4, <1>5, <1>6 DEF WinInputOK, WinWindowOK, WinSizeIsTold, WinObtained, W!NothingLeaks
<1> QED BY <1>3, <1>7

\* A message of the keyboard or of the focus.
LEMMA KeysKeep ==
    ASSUME WinParameters, WinIInv, queue # <<>>,
           W!OnKey(Head(queue)) \/ W!OnSilent(Head(queue)) \/ W!OnFocus(Head(queue)),
           UNCHANGED <<keys, unseen, lost, place, is_cursor_visible, W!program>>
    PROVE  WinIInv' /\ told'.size = told.size /\ UNCHANGED W!window
<1> DEFINE m == Head(queue)
<1> USE DEF WinIInv
<1>0. m \in Message /\ (m.type \in {"Key", "Silent"} => m.key \in WKeys)
  <2>1. m \in Message
    BY HeadIsTyped
  <2> QED BY <2>1 DEF Message
<1>1. /\ queue' = Tail(queue)
      /\ UNCHANGED <<W!window, cursor_count, is_mouse_inside, button_status>>
  BY DEF W!OnKey, W!OnSilent, W!OnFocus
<1>2. told' \in WinTold /\ told'.size = told.size
  <2> USE DEF WinWindowOK, WinTold
  <2>1. CASE W!OnKey(m)
    BY <2>1, <1>0 DEF W!OnKey
  <2>2. CASE W!OnSilent(m)
    BY <2>2 DEF W!OnSilent
  <2>3. CASE W!OnSetFocus(m)
    BY <2>3 DEF W!OnSetFocus
  <2>4. CASE W!OnKillFocus(m)
    <3>1. told.keys \ key_status \in SUBSET WKeys
      OBVIOUS
    <3> QED BY <2>4, <3>1 DEF W!OnKillFocus
  <2> QED BY <2>1, <2>2, <2>3, <2>4 DEF W!OnFocus
<1>3. key_status' \subseteq WKeys /\ thread_keys' \subseteq WKeys
  BY <1>0 DEF W!OnKey, W!OnSilent, W!OnFocus, W!OnSetFocus, W!OnKillFocus, W!TakeKeys, W!SetKeys,
              W!sync_key_status, W!mfb_release_held_keys, WinInputOK
<1>4. is_active' \in BOOLEAN
  BY DEF W!OnKey, W!OnSilent, W!OnFocus, W!OnSetFocus, W!OnKillFocus, WinInputOK
<1>5. WinInputOK' /\ WinWindowOK' /\ WinSizeIsTold'
  BY <1>1, <1>2, <1>3, <1>4 DEF WinInputOK, WinWindowOK, WinSizeIsTold, W!window, W!buffers, W!program
<1>6. W!CursorCountBalanced' /\ WinObtained' /\ W!NothingLeaks'
  BY <1>1 DEF W!CursorCountBalanced, WinObtained, W!NothingLeaks, W!window, W!program
<1> QED BY <1>1, <1>2, <1>5, <1>6, HeadIsTyped

\* A message of the window: its size, the close or a repaint.
LEMMA WindowKeeps ==
    ASSUME WinParameters, WinIInv, queue # <<>>, W!OnWindow(Head(queue)),
           UNCHANGED <<keys, unseen, lost, place, is_cursor_visible, W!program>>
    PROVE  /\ WinIInv'
           /\ close' = close \/ close' = TRUE
           /\ \/ UNCHANGED <<window_size, told>>
              \/ close' = close /\ window_size' = 0 /\ UNCHANGED told
              \/ close' = close /\ window_size' \in WSizes /\ told'.size = window_size'
<1> DEFINE m == Head(queue)
<1> USE DEF WinIInv
<1>0. m.type \in {"WM_SIZE", "WM_DPICHANGED", "SIZE_MINIMIZED"} => m.size \in WSizes \cup {0}
  BY HeadIsTyped DEF Message
<1>1. /\ queue' = Tail(queue)
      /\ UNCHANGED <<cursor_count, key_status, thread_keys, button_status, is_mouse_inside,
                     is_active, held, draw_buffer>>
  BY DEF W!OnWindow, W!OnSize, W!OnClose, W!OnPaint, W!buffers
<1>2. /\ told' \in WinTold /\ close' \in BOOLEAN /\ (close' = close \/ close' = TRUE)
      /\ window_size' \in WSizes \cup {0} /\ WinSizeIsTold'
      /\ \/ UNCHANGED <<window_size, told>>
         \/ close' = close /\ window_size' = 0 /\ UNCHANGED told
         \/ close' = close /\ window_size' \in WSizes /\ told'.size = window_size'
  <2> USE DEF WinWindowOK, WinTold, WinSizeIsTold
  <2>1. CASE W!OnSize(m)
    BY <2>1, <1>0 DEF W!OnSize, WinParameters
  <2>2. CASE W!OnClose(m)
    BY <2>2 DEF W!OnClose
  <2>3. CASE W!OnPaint(m)
    BY <2>3 DEF W!OnPaint
  <2> QED BY <2>1, <2>2, <2>3 DEF W!OnWindow
<1>3. WinInputOK' /\ WinWindowOK'
  BY <1>1, <1>2 DEF WinInputOK, WinWindowOK, W!program
<1>4. W!CursorCountBalanced' /\ WinObtained' /\ W!NothingLeaks'
  BY <1>1 DEF W!CursorCountBalanced, WinObtained, W!NothingLeaks, W!program
<1> QED BY <1>1, <1>2, <1>3, <1>4, HeadIsTyped

--------------------------------------------------------------------------------
\* Whatever the opening has obtained so far, each release finds what it asks for, and only
\* the class stays.
LEMMA WinGivesBack ==
    ASSUME WinWindowOK, WinObtained, pc \in {"opening", "idle", "called", "drain"},
           W!destroy_window_data
    PROVE  held' \subseteq {"class"}
<1>1. held \subseteq {"counter", "data", "specific", "class", "window", "hdc", "bitmap_info", "timer"}
  BY DEF WinWindowOK, W!ToSet, W!Wanted
<1>2. held' = W!mfb_free_window_data(W!release_window_counter(W!DestroyWindow(
                  W!ReleaseDC(W!free_bitmap_info(held)))))
  BY DEF W!destroy_window_data
<1>3. CASE {"specific", "window"} \subseteq held
  <2>1. W!ReleaseDC(W!free_bitmap_info(held)) = held \ {"bitmap_info", "hdc"}
    BY <1>3 DEF W!free_bitmap_info, W!ReleaseDC
  <2>2. W!DestroyWindow(held \ {"bitmap_info", "hdc"}) = held \ {"bitmap_info", "hdc", "window"}
    BY <1>3 DEF W!DestroyWindow
  <2>3. held' = ((held \ {"bitmap_info", "hdc", "window"}) \ {"counter"}) \ {"timer", "specific", "data"}
    BY <1>2, <2>1, <2>2 DEF W!release_window_counter, W!mfb_free_window_data
  <2> QED BY <1>1, <2>3
<1>4. CASE held \subseteq {"counter", "data", "specific", "class"}
  <2>1. W!ReleaseDC(W!free_bitmap_info(held)) = held
    BY <1>4 DEF W!free_bitmap_info, W!ReleaseDC
  <2>2. W!DestroyWindow(held) = held
    BY <1>4 DEF W!DestroyWindow
  <2>3. held' = (held \ {"counter"}) \ {"timer", "specific", "data"}
    BY <1>2, <2>1, <2>2 DEF W!release_window_counter, W!mfb_free_window_data
  <2> QED BY <1>4, <2>3
<1>5. stage <= 3 \/ stage \in {4, 5} \/ stage > 5
  BY DEF WinWindowOK
<1>6. stage > 5 => stage > 3
  BY DEF WinWindowOK
<1> QED BY <1>3, <1>4, <1>5, <1>6 DEF WinObtained

\* The end gives everything back, and shows a hidden cursor again.
LEMMA DestroyKeeps ==
    ASSUME WinIInv, pc \in {"opening", "idle", "called", "drain"},
           W!destroy_window_data, is_cursor_visible' = is_cursor_visible
    PROVE  held' \subseteq {"class"} /\ is_mouse_inside' = FALSE /\ W!CursorCountBalanced'
<1> USE DEF WinIInv, WinInputOK
<1>1. held' \subseteq {"class"} /\ is_mouse_inside' = FALSE
  <2>1. is_mouse_inside' = FALSE
    BY DEF W!destroy_window_data
  <2> QED BY <2>1, WinGivesBack
<1> USE DEF W!destroy_window_data
<1>2. cursor_count' = W!Balanced
  <2>0. 1 + 1 = 2
    OBVIOUS
  <2>1. CASE is_mouse_inside /\ ~is_cursor_visible
    BY <2>0, <2>1, Zenon DEF W!CursorCountBalanced, W!Hidden, W!Balanced
  <2>2. CASE ~(is_mouse_inside /\ ~is_cursor_visible)
    BY <2>2, Zenon DEF W!CursorCountBalanced
  <2> QED BY <2>1, <2>2
<1> QED BY <1>1, <1>2 DEF W!CursorCountBalanced

LEMMA WinOpeningKeeps ==
    ASSUME WinIInv, W!mfb_open_ex
    PROVE  /\ WinIInv' /\ pc = "opening" /\ pc' \in {"opening", "failed", "idle"}
           /\ UNCHANGED <<window_size, close, told, result, shown>>
<1> USE DEF WinIInv
<1>1. /\ pc = "opening"
      /\ UNCHANGED <<keys, unseen, place, queue, lost, button_status, is_cursor_visible, window_size, close,
                     draw_buffer, told, result, shown>>
  BY DEF W!mfb_open_ex, W!buffers
<1>2. QueueOK' /\ WinSizeIsTold'
  BY <1>1 DEF QueueOK, WinSizeIsTold
<1>3. CASE /\ stage <= Len(W!Wanted)
           /\ held' = held \cup {W!Wanted[stage]} /\ stage' = stage + 1
           /\ UNCHANGED <<pc, focus, is_active, key_status, thread_keys, cursor_count, is_mouse_inside>>
  <2>1. W!Wanted[stage] \in W!ToSet(W!Wanted) /\ stage' \in Nat \ {0}
    BY <1>3 DEF WinWindowOK, W!ToSet, W!Wanted
  <2>2. WinObtained'
    <3>0. pc' = "opening" /\ stage \in Nat \ {0} /\ stage' = stage + 1
      BY <1>1, <1>3 DEF WinWindowOK
    <3>1. CASE stage = 1 \/ stage = 2
      <4>1. W!Wanted[stage] \in {"counter", "data"}
        BY <3>1 DEF W!Wanted
      <4>2. stage <= 3 /\ stage' <= 3 /\ ~(stage' > 3) /\ ~(stage' > 5) /\ stage' \notin {4, 5}
        BY <3>0, <3>1
      <4> QED BY <1>1, <1>3, <3>0, <4>1, <4>2 DEF WinObtained
    <3>2. CASE stage = 3
      <4>1. W!Wanted[stage] = "specific"
        BY <3>2 DEF W!Wanted
      <4>2. stage <= 3 /\ stage' = 4
        BY <3>0, <3>2
      <4> QED BY <1>1, <1>3, <3>0, <4>1, <4>2 DEF WinObtained
    <3>3. CASE stage = 4
      <4>1. W!Wanted[stage] = "class"
        BY <3>3 DEF W!Wanted
      <4>2. stage > 3 /\ stage \in {4, 5} /\ stage' = 5
        BY <3>0, <3>3
      <4> QED BY <1>1, <1>3, <3>0, <4>1, <4>2 DEF WinObtained
    <3>4. CASE stage = 5
      <4>1. W!Wanted[stage] = "window"
        BY <3>4 DEF W!Wanted
      <4>2. stage > 3 /\ stage' = 6
        BY <3>0, <3>4
      <4> QED BY <1>1, <1>3, <3>0, <4>1, <4>2 DEF WinObtained
    <3>5. CASE stage > 5
      <4>1. stage > 3 /\ ~(stage' <= 3) /\ stage' \notin {4, 5}
        BY <3>0, <3>5
      <4>2. "specific" \in held' /\ "window" \in held'
        BY <1>1, <1>3, <3>5, <4>1 DEF WinObtained
      <4> QED BY <3>0, <4>1, <4>2 DEF WinObtained
    <3> QED BY <3>0, <3>1, <3>2, <3>3, <3>4, <3>5
  <2> QED BY <1>1, <1>2, <1>3, <2>1, <2>2 DEF WinInputOK, WinWindowOK, W!CursorCountBalanced, W!NothingLeaks
<1>4. CASE /\ W!destroy_window_data /\ pc' = "failed"
           /\ UNCHANGED <<stage, focus, is_active, key_status, thread_keys>>
  <2>1. held' \subseteq W!ToSet(W!Wanted)
    BY <1>1, <1>4, DestroyKeeps DEF W!ToSet, W!Wanted
  <2> QED BY <1>1, <1>2, <1>4, <2>1, DestroyKeeps DEF WinInputOK, WinWindowOK, WinObtained, W!NothingLeaks
<1>5. CASE /\ pc' = "idle" /\ focus' = TRUE /\ is_active' = TRUE /\ W!TakeKeys
           /\ stage > Len(W!Wanted) /\ UNCHANGED <<held, stage, cursor_count, is_mouse_inside>>
  <2>1. key_status' \subseteq WKeys /\ thread_keys' \subseteq WKeys
    BY <1>5 DEF W!TakeKeys, W!SetKeys, W!sync_key_status, WinInputOK
  <2>2. stage > 5 /\ stage > 3
    BY <1>5 DEF WinWindowOK, W!Wanted
  <2>3. WinObtained'
    BY <1>1, <1>5, <2>2 DEF WinObtained
  <2> QED BY <1>1, <1>2, <1>5, <2>1, <2>3 DEF WinInputOK, WinWindowOK, W!CursorCountBalanced, W!NothingLeaks
<1> QED BY <1>1, <1>3, <1>4, <1>5 DEF W!mfb_open_ex

\* An update ends the window, refuses its buffer, fails to scale it, or shows it.
LEMMA WinUpdateKeeps ==
    ASSUME WinParameters, WinIInv, NEW b \in WSizes \cup {0}, W!mfb_update_ex(b)
    PROVE  /\ WinIInv' /\ pc = "called" /\ UNCHANGED <<window_size, close, told>>
           /\ \/ close /\ pc' = "gone" /\ result' = "EXIT" /\ shown' = shown
              \/ pc' = "idle" /\ result' \in {"INVALID_BUFFER", "INTERNAL_ERROR"} /\ shown' = shown
              \/ ~close /\ pc' = "drain" /\ result' = result
                 /\ shown' = (IF window_size = 0 THEN shown ELSE window_size)
<1> USE DEF WinIInv
<1>1. /\ pc = "called"
      /\ UNCHANGED <<keys, unseen, place, queue, lost, button_status, is_active, is_cursor_visible, window_size,
                     close, key_status, thread_keys, told, stage>>
  BY DEF W!mfb_update_ex, W!Others
<1>2. QueueOK' /\ WinSizeIsTold'
  BY <1>1 DEF QueueOK, WinSizeIsTold
<1>3. CASE close
  <2>1. W!destroy_window_data /\ pc' = "gone" /\ result' = "EXIT" /\ UNCHANGED <<W!buffers, shown>>
    BY <1>3 DEF W!mfb_update_ex, W!End
  <2>2. held' \subseteq W!ToSet(W!Wanted)
    BY <1>1, <2>1, DestroyKeeps DEF W!ToSet, W!Wanted
  <2> QED BY <1>1, <1>2, <1>3, <2>1, <2>2, DestroyKeeps DEF W!buffers, WinInputOK, WinWindowOK, WinObtained, W!NothingLeaks
<1>4. CASE ~close
  <2>1. /\ UNCHANGED <<held, cursor_count, is_mouse_inside>>
        /\ draw_buffer' \in {draw_buffer, b} /\ pc' \in {"idle", "drain"}
        /\ \/ pc' = "idle" /\ result' \in {"INVALID_BUFFER", "INTERNAL_ERROR"} /\ shown' = shown
           \/ pc' = "drain" /\ result' = result
              /\ shown' = (IF window_size = 0 THEN shown ELSE window_size)
    <3>1. CASE b = 0
      BY <1>4, <3>1 DEF W!mfb_update_ex, W!buffers
    <3>2. CASE b > 0
      BY <1>4, <3>2 DEF W!mfb_update_ex, W!Paint, W!buffers
    <3> QED BY <3>1, <3>2 DEF WinParameters
  <2> QED BY <1>1, <1>2, <1>4, <2>1 DEF WinInputOK, WinWindowOK, WinObtained, W!CursorCountBalanced, W!NothingLeaks
<1> QED BY <1>3, <1>4 DEF WinWindowOK

\* A pump ends the window, goes on, or answers OK with no message left.
LEMMA WinPumpKeeps ==
    ASSUME WinIInv, W!Pump \/ W!Drained
    PROVE  /\ WinIInv' /\ pc \in {"called", "drain"} /\ shown' = shown
           /\ UNCHANGED <<window_size, close>> /\ told'.size = told.size
           /\ \/ close /\ pc' = "gone" /\ result' = "EXIT"
              \/ pc' = "drain" /\ result' = result
              \/ pc' = "idle" /\ result' = "OK"
<1> USE DEF WinIInv
<1>1. /\ pc \in {"called", "drain"} /\ shown' = shown
      /\ UNCHANGED <<keys, unseen, place, queue, lost, button_status, is_active, is_cursor_visible, window_size,
                     close, draw_buffer, thread_keys, stage>>
  BY DEF W!Pump, W!Drained, W!Others, W!buffers
<1>2. key_status' \subseteq WKeys /\ told' \in WinTold /\ told'.size = told.size
  <2> USE DEF WinInputOK, WinWindowOK, WinTold
  <2>1. CASE W!Pump
    BY <2>1 DEF W!Pump
  <2>2. CASE W!Drained
    <3>1. \A up : told.keys \ up \in SUBSET WKeys
      OBVIOUS
    <3> QED BY <2>2, <3>1 DEF W!Drained, W!release_key_lost_by_system
  <2> QED BY <2>1, <2>2
<1>3. \/ close /\ W!destroy_window_data /\ pc' = "gone" /\ result' = "EXIT"
      \/ /\ \/ pc' = "drain" /\ result' = result
            \/ pc' = "idle" /\ result' = "OK"
         /\ UNCHANGED <<held, cursor_count, is_mouse_inside>>
  BY DEF W!Pump, W!Drained, W!End
<1>4. QueueOK' /\ WinSizeIsTold'
  BY <1>1, <1>2 DEF QueueOK, WinSizeIsTold
<1>5. CASE close /\ W!destroy_window_data /\ pc' = "gone" /\ result' = "EXIT"
  <2>1. held' \subseteq {"class"}
    BY <1>1, <1>5, DestroyKeeps
  <2>2. "class" \in W!ToSet(W!Wanted)
    <3>1. 4 \in DOMAIN W!Wanted /\ W!Wanted[4] = "class"
      BY DEF W!Wanted
    <3> QED BY <3>1 DEF W!ToSet
  <2>3. held' \subseteq W!ToSet(W!Wanted)
    BY <2>1, <2>2
  <2> QED BY <1>1, <1>2, <1>4, <1>5, <2>1, <2>3, DestroyKeeps DEF WinInputOK, WinWindowOK, WinObtained, W!NothingLeaks
<1>6. CASE /\ \/ pc' = "drain" /\ result' = result
              \/ pc' = "idle" /\ result' = "OK"
           /\ UNCHANGED <<held, cursor_count, is_mouse_inside>>
  BY <1>1, <1>2, <1>4, <1>6 DEF WinInputOK, WinWindowOK, WinObtained, W!CursorCountBalanced, W!NothingLeaks
<1> QED BY <1>1, <1>2, <1>3, <1>5, <1>6

\* The cursor is shown or hidden by the application while the pointer is anywhere.
LEMMA CursorKeeps ==
    ASSUME WinIInv, NEW show \in BOOLEAN, W!mfb_show_cursor(show)
    PROVE  WinIInv' /\ UNCHANGED <<W!window, told, W!program>>
<1> USE DEF WinIInv
<1>0. 2 - 1 = 1 /\ 1 + 1 = 2
  OBVIOUS
<1>1. /\ UNCHANGED <<keys, unseen, place, queue, lost, key_status, thread_keys, button_status, is_mouse_inside,
                     is_active, W!window, told, W!program>>
      /\ is_cursor_visible' = show
  BY DEF W!mfb_show_cursor
<1>i. (is_mouse_inside' <=> is_mouse_inside) /\ (is_cursor_visible' <=> show)
  BY <1>1
<1>c. cursor_count' = IF ~is_mouse_inside \/ is_cursor_visible = show THEN cursor_count
                      ELSE IF show THEN cursor_count + 1 ELSE cursor_count - 1
  BY DEF W!mfb_show_cursor
<1>b. cursor_count = IF is_mouse_inside /\ ~is_cursor_visible THEN 1 ELSE 2
  BY DEF W!CursorCountBalanced, W!Hidden, W!Balanced
<1>2. W!CursorCountBalanced'
  <2> SUFFICES cursor_count' = IF is_mouse_inside /\ ~show THEN 1 ELSE 2
    BY <1>i, Zenon DEF W!CursorCountBalanced, W!Hidden, W!Balanced
  <2>1. CASE ~is_mouse_inside
    BY <1>b, <1>c, <2>1, Zenon
  <2>2. CASE is_mouse_inside /\ is_cursor_visible = show
    BY <1>b, <1>c, <2>2, Zenon
  <2>3. CASE is_mouse_inside /\ is_cursor_visible # show /\ show
    BY <1>0, <1>b, <1>c, <2>3, Zenon DEF WinInputOK
  <2>4. CASE is_mouse_inside /\ is_cursor_visible # show /\ ~show
    BY <1>0, <1>b, <1>c, <2>4, Zenon DEF WinInputOK
  <2> QED BY <2>1, <2>2, <2>3, <2>4
<1> QED BY <1>1, <1>2 DEF QueueOK, WinInputOK, WinWindowOK, WinSizeIsTold, WinObtained, W!NothingLeaks, W!window,
                          W!buffers, W!program

\* The other calls of the application.
LEMMA WinCallsKeep ==
    ASSUME WinIInv,
           \/ \E c \in {"update_ex", "update_events", "wait_sync"} : W!Call(c)
           \/ W!mfb_close \/ W!FreeBuffer
           \/ \E v \in WSizes : W!mfb_set_viewport(v)
    PROVE  /\ WinIInv' /\ UNCHANGED <<window_size, told, result, shown>>
           /\ \/ pc = "idle" /\ pc' = "called" /\ close' = close
              \/ pc' = pc /\ (close' = close \/ (close' = TRUE /\ pc \in {"idle", "drain"}))
<1>1. /\ UNCHANGED <<W!user, W!input, window_size, draw_buffer, held, told, stage, result, shown>>
      /\ \/ pc = "idle" /\ pc' = "called" /\ close' = close
         \/ pc' = pc /\ (close' = close \/ (close' = TRUE /\ pc \in {"idle", "drain"}))
  BY DEF W!Call, W!mfb_close, W!FreeBuffer, W!mfb_set_viewport, W!window, W!buffers, W!program
<1>2. QueueOK' /\ WinInputOK' /\ W!CursorCountBalanced'
  BY <1>1 DEF WinIInv, QueueOK, WinInputOK, W!CursorCountBalanced, W!user, W!input
<1>3. WinWindowOK' /\ WinSizeIsTold' /\ WinObtained' /\ W!NothingLeaks'
  BY <1>1 DEF WinIInv, WinWindowOK, WinSizeIsTold, WinObtained, W!NothingLeaks
<1> QED BY <1>1, <1>2, <1>3 DEF WinIInv

--------------------------------------------------------------------------------
LEMMA WinInitHolds == WinParameters /\ W!Init => WinIInv
<1> SUFFICES ASSUME WinParameters, W!Init PROVE WinIInv
  OBVIOUS
<1>1. QueueOK
  BY EmptySeq DEF W!Init, QueueOK, WinParameters
<1>2. WinInputOK
  BY DEF W!Init, WinInputOK
<1>3. WinWindowOK /\ WinSizeIsTold
  <2>1. told \in WinTold
    BY DEF W!Init, WinTold, WinParameters
  <2>2. /\ window_size = FirstSize /\ draw_buffer = 0 /\ close = FALSE
        /\ pc = "opening" /\ stage = 1 /\ held = {}
    BY DEF W!Init
  <2>3. WinSizeIsTold
    BY DEF W!Init, WinSizeIsTold
  <2>4. window_size \in WSizes \cup {0} /\ draw_buffer \in WSizes \cup {0}
    BY <2>2 DEF WinParameters
  <2>5. held \subseteq W!ToSet(W!Wanted) /\ stage \in Nat \ {0}
    BY <2>2
  <2>6. close \in BOOLEAN
    BY <2>2
  <2> QED BY <2>1, <2>2, <2>3, <2>4, <2>5, <2>6 DEF WinWindowOK
<1>4. W!CursorCountBalanced /\ WinObtained /\ W!NothingLeaks
  BY DEF W!Init, W!CursorCountBalanced, WinObtained, W!NothingLeaks
<1> QED BY <1>1, <1>2, <1>3, <1>4 DEF WinIInv

\* What a step of the message procedure may do.
LEMMA WndProcKeeps ==
    ASSUME WinParameters, WinIInv, W!WndProc
    PROVE  /\ WinIInv' /\ pc = "drain" /\ UNCHANGED <<pc, result, shown>>
           /\ \/ UNCHANGED <<close, window_size>> /\ told'.size = told.size
              \/ close' = TRUE /\ UNCHANGED <<window_size, told>>
              \/ close' = close /\ window_size' = 0 /\ UNCHANGED told
              \/ close' = close /\ window_size' \in WSizes /\ told'.size = window_size'
<1>1. /\ pc = "drain" /\ queue # <<>>
      /\ UNCHANGED <<keys, unseen, lost, place, is_cursor_visible, W!program>> /\ UNCHANGED <<pc, result, shown>>
  BY DEF W!WndProc, W!program
<1>2. CASE W!OnPointer(Head(queue))
  <2>1. told'.size = told.size
    BY <1>2 DEF W!OnPointer, WinIInv, WinWindowOK, WinTold
  <2> QED BY <1>1, <1>2, <2>1, PointerKeeps DEF W!OnPointer, W!window
<1>3. CASE W!OnKey(Head(queue)) \/ W!OnSilent(Head(queue)) \/ W!OnFocus(Head(queue))
  BY <1>1, <1>3, KeysKeep DEF W!window
<1>4. CASE W!OnWindow(Head(queue))
  BY <1>1, <1>4, WindowKeeps
<1> QED BY <1>1, <1>2, <1>3, <1>4 DEF W!WndProc

\* The inductive step, and what the contract sees of it.
LEMMA WinStepKeeps ==
    ASSUME WinParameters, WinIInv, [W!Next]_W!vars
    PROVE  WinIInv' /\ [W!Contract!Next]_W!Contract!vars
<1> DEFINE size == IF window_size = 0 THEN told.size ELSE window_size
           Kept == [W!Contract!Next]_W!Contract!vars
<1> USE DEF W!Contract!vars, W!Contract!Next
<1>t. /\ close \in BOOLEAN /\ told.size \in WSizes /\ size = told.size
      /\ WinIInv' => size' = told'.size /\ told'.size \in WSizes
  BY DEF WinIInv, WinWindowOK, WinTold, WinSizeIsTold
\* Steps the application cannot see, or by which the close is asked for.
<1>s. ASSUME UNCHANGED <<window_size, result, shown>>, told'.size = told.size,
             pc' = "gone" <=> pc = "gone",
             pc' \in {"called", "drain"} <=> pc \in {"called", "drain"},
             close' = close \/ (close' = TRUE /\ pc # "gone")
      PROVE  Kept
  BY <1>s, <1>t DEF W!Contract!RequestClose
\* The end.
<1>e. ASSUME close, pc \in {"called", "drain"}, pc' = "gone", result' = "EXIT", shown' = shown,
             told'.size = told.size, WinIInv'
      PROVE  Kept
  <2>1. size' = size
    BY <1>e, <1>t
  <2>2. (pc' \in {"called", "drain"}) = FALSE /\ pc # "gone"
    BY <1>e
  <2>3. W!Contract!ReturnExit
    BY <1>e, <2>1, <2>2 DEF W!Contract!ReturnExit
  <2> QED BY <2>3
<1>1. CASE W!System
  <2>1. UNCHANGED <<window_size, result, shown, pc, close, told>>
    BY <1>1, SystemKeeps DEF WinIInv, W!window, W!program
  <2>2. WinIInv'
    BY <1>1, SystemKeeps DEF WinIInv, WinInputOK, WinWindowOK, WinSizeIsTold, WinObtained, W!CursorCountBalanced,
                             W!NothingLeaks, W!input, W!window, W!buffers, W!program
  <2> QED BY <2>1, <2>2, <1>s
<1>2. CASE W!mfb_open_ex
  BY <1>2, <1>s, WinOpeningKeeps
<1>3. CASE W!WndProc
  <2>1. CASE window_size' = window_size /\ told'.size = told.size
    BY <1>3, <1>s, <2>1, WndProcKeeps
  <2>2. CASE close' = close /\ told' = told
    BY <1>3, <1>s, <1>t, <2>2, WndProcKeeps
  <2>3. CASE close' = close /\ window_size' \in WSizes /\ told'.size = window_size'
    <3>1. W!Contract!Resize
      BY <1>3, <1>t, <2>3, WndProcKeeps DEF W!Contract!Resize
    <3> QED BY <1>3, <3>1, WndProcKeeps
  <2> QED BY <1>3, <2>1, <2>2, <2>3, WndProcKeeps
<1>4. CASE W!Pump \/ W!Drained
  <2>1. WinIInv' /\ Kept
    <3>1. CASE close /\ pc' = "gone"
      BY <1>4, <1>e, <3>1, WinPumpKeeps
    <3>2. CASE pc' = "drain"
      BY <1>4, <3>2, <1>s, WinPumpKeeps
    <3>3. CASE pc' = "idle"
      BY <1>4, <3>3, <1>t, WinPumpKeeps DEF W!Contract!ReturnOK
    <3> QED BY <1>4, <3>1, <3>2, <3>3, WinPumpKeeps
  <2> QED BY <2>1
<1>5. ASSUME NEW b \in WSizes \cup {0}, W!mfb_update_ex(b) PROVE WinIInv' /\ Kept
  <2>1. CASE close /\ pc' = "gone"
    BY <1>5, <1>e, <2>1, WinUpdateKeeps
  <2>2. CASE pc' = "idle"
    BY <1>5, <2>2, <1>t, WinUpdateKeeps DEF W!Contract!ReturnError
  <2>3. CASE ~close /\ pc' = "drain"
    BY <1>5, <2>3, <1>t, WinUpdateKeeps DEF W!Contract!Show
  <2> QED BY <1>5, <2>1, <2>2, <2>3, WinUpdateKeeps
<1>6. CASE W!Application
  <2>1. ASSUME NEW show \in BOOLEAN, W!mfb_show_cursor(show) PROVE WinIInv' /\ Kept
    BY <2>1, <1>s, CursorKeeps DEF W!window, W!program
  <2>2. CASE \/ \E c \in {"update_ex", "update_events", "wait_sync"} : W!Call(c)
             \/ W!mfb_close \/ W!FreeBuffer
             \/ \E v \in WSizes : W!mfb_set_viewport(v)
    <3>1. CASE pc = "idle" /\ pc' = "called" /\ close' = close
      BY <2>2, <3>1, <1>t, WinCallsKeep DEF W!Contract!Call
    <3>2. CASE pc' = pc /\ (close' = close \/ (close' = TRUE /\ pc \in {"idle", "drain"}))
      BY <2>2, <3>2, <1>s, WinCallsKeep
    <3> QED BY <2>2, <3>1, <3>2, WinCallsKeep
  <2> QED BY <1>6, <2>1, <2>2 DEF W!Application
<1>7. CASE UNCHANGED W!vars
  <2>1. WinIInv'
    BY <1>7 DEF W!vars, W!user, W!input, W!window, W!buffers, W!program, WinIInv, QueueOK, WinInputOK, WinWindowOK,
                WinSizeIsTold, WinObtained, W!CursorCountBalanced, W!NothingLeaks
  <2> QED BY <1>7, <1>s, <2>1 DEF W!vars, W!window, W!program
<1> QED BY <1>1, <1>2, <1>3, <1>4, <1>5, <1>6, <1>7 DEF W!Next, W!Library

--------------------------------------------------------------------------------
\* DOS.
DosParameters == DFirstSize \in Nat \ {0} /\ DSizes \subseteq Nat \ {0}

DosTold == [buttons : SUBSET DButtons, place : Int, scrolled : Int, size : {DFirstSize}]

DosOK ==
    /\ driver \in {"none", "no_wheel", "bh", "bx"}
    /\ buttons \subseteq DButtons /\ button_status \subseteq DButtons
    /\ place \in Int /\ wheel \in Int /\ scrolled \in Int
    /\ screen \in D!Fits /\ window_size = DFirstSize
    /\ viewport \in Nat \X Nat
    /\ close \in BOOLEAN /\ told \in DosTold
    /\ pc \in {"opening", "failed", "idle", "called", "drain", "return", "gone"}

\* What has been obtained so far: the mode never without its mapping, and once the window
\* is open the buffers its frames need.
ObtainedOK ==
    /\ held \subseteq D!Vesa \cup D!Data
    /\ pc = "opening" =>
          /\ stage \in 1 .. Len(D!Wanted) + 1
          /\ stage <= 3 => held = {D!Wanted[i] : i \in 1 .. stage - 1}
          /\ stage > 3 => D!Vesa \subseteq held
          /\ stage = 4 => held = D!Vesa
    /\ pc \in {"idle", "called", "drain", "return"} =>
          /\ D!Vesa \subseteq held /\ "scale_buffer" \in held
          /\ D!needs_scanline => "scanline_buffer" \in held

DosIInv == DosOK /\ ObtainedOK /\ D!NothingLeaks /\ D!FrameFits

LEMMA DosScreen ==
    ASSUME DosParameters, DosOK
    PROVE  /\ screen.times \in {1, 2} /\ D!actual_size \in Nat \ {0}
           /\ \A n \in Nat : D!scaled(n) \in Nat
<1>1. screen.times \in {1, 2}
  BY DEF DosOK, D!Fits
<1>2. D!actual_size \in Nat \ {0}
  BY <1>1 DEF DosOK, DosParameters, D!actual_size
<1>3. ASSUME NEW n \in Nat PROVE D!scaled(n) \in Nat
  <2>1. n * D!actual_size \in Nat /\ window_size \in Nat \ {0}
    BY <1>2 DEF DosOK, DosParameters
  <2> QED BY <2>1 DEF D!scaled
<1> QED BY <1>1, <1>2, <1>3

\* Where the frame goes is within the screen.
LEMMA PartFits ==
    ASSUME DosParameters, DosOK
    PROVE  D!Part.first + D!Part.count <= D!actual_size
<1> DEFINE a == D!actual_size
           x == IF D!has_viewport THEN D!scaled(viewport[1]) ELSE 0
           w == IF ~D!has_viewport THEN a ELSE IF D!scaled(viewport[2]) = 0 THEN 1 ELSE D!scaled(viewport[2])
<1>1. viewport[1] \in Nat /\ viewport[2] \in Nat
  BY DEF DosOK
<1>2. a \in Nat /\ x \in Nat /\ w \in Nat
  BY <1>1, DosScreen
<1>3. D!Part = IF x >= a THEN [first |-> 0, count |-> 0]
               ELSE [first |-> x, count |-> IF x + w > a THEN a - x ELSE w]
  BY DEF D!Part
<1> HIDE DEF a, x, w
<1>4. CASE x >= a
  BY <1>2, <1>3, <1>4 DEF a
<1>5. CASE x < a
  <2>1. D!Part = [first |-> x, count |-> IF x + w > a THEN a - x ELSE w]
    BY <1>2, <1>3, <1>5
  <2> QED BY <1>2, <1>5, <2>1 DEF a
<1> QED BY <1>2, <1>4, <1>5

\* The user turns the wheel, moves the pointer and strokes keys.
LEMMA UserKeeps ==
    ASSUME DosIInv, D!User
    PROVE  DosIInv' /\ UNCHANGED <<D!input, D!window, told, D!program>>
<1>0. UNCHANGED <<driver, D!input, D!window, told, D!program>>
  BY DEF D!User
<1>1. buttons' \subseteq DButtons /\ place' \in Int /\ wheel' \in Int /\ scrolled' \in Int
  <2>0. buttons \subseteq DButtons /\ place \in Int /\ wheel \in Int /\ scrolled \in Int
    BY DEF DosIInv, DosOK
  <2>1. ASSUME NEW b \in DButtons, D!ChangeButton(b) PROVE <1>1!1
    BY <2>0, <2>1 DEF D!ChangeButton
  <2>2. ASSUME NEW p \in 0 .. 2 * window_size, D!MovePointer(p) PROVE <1>1!1
    BY <2>0, <2>2 DEF D!MovePointer
  <2> QED BY <2>0 DEF D!User, D!ChangeButton, D!MovePointer, D!TurnWheel
<1>2. DosOK'
  BY <1>0, <1>1 DEF DosIInv, DosOK, D!input, D!window, D!program
<1>3. ObtainedOK' /\ D!NothingLeaks' /\ D!FrameFits'
  BY <1>0 DEF DosIInv, ObtainedOK, D!NothingLeaks, D!FrameFits, D!needs_scanline, D!window, D!program
<1> QED BY <1>0, <1>2, <1>3 DEF DosIInv

\* An end gives everything back, whatever the opening had obtained.
LEMMA DosDestroyKeeps ==
    ASSUME ObtainedOK, D!Vesa \subseteq held \/ held = {}, D!destroy_window_data
    PROVE  held' = {}
BY DEF ObtainedOK, D!destroy_window_data, D!vesa_dispose, D!Vesa, D!Data

LEMMA DosOpeningKeeps ==
    ASSUME DosParameters, DosIInv, D!mfb_open_ex
    PROVE  /\ DosIInv' /\ pc = "opening" /\ pc' \in {"opening", "failed", "idle"}
           /\ UNCHANGED <<window_size, close, told, result, shown>>
<1> USE DEF DosIInv
<1>1. /\ pc = "opening"
      /\ UNCHANGED <<D!mouse, button_status, window_size, viewport, close, told, result, shown>>
  BY DEF D!mfb_open_ex
<1>2. stage \in 1 .. Len(D!Wanted) + 1
  BY <1>1 DEF ObtainedOK
<1>3. ASSUME screen' \in D!Fits, pc' \in {"opening", "failed", "idle"} PROVE DosOK'
  BY <1>1, <1>3 DEF DosOK, D!mouse
<1>4. ASSUME pc' \in {"opening", "failed", "idle"} PROVE D!FrameFits'
  BY <1>1, <1>4 DEF D!FrameFits
<1>5. screen \in D!Fits
  BY DEF DosOK
<1>6. ASSUME held' = {}, pc' = "failed" PROVE ObtainedOK' /\ D!NothingLeaks'
  BY <1>6 DEF ObtainedOK, D!NothingLeaks
<1>7. CASE stage <= Len(D!Wanted)
  <2> DEFINE r == D!Wanted[stage]
  <2>0. D!Obtain(r)
    BY <1>7 DEF D!mfb_open_ex
  <2>1. stage' = stage + 1 /\ stage \in 1 .. 8
    BY <1>2, <1>7, <2>0 DEF D!Obtain, D!Wanted
  <2>2. CASE /\ held' = held \cup (IF r = "scanline_buffer" /\ ~D!needs_scanline THEN {} ELSE {r})
             /\ screen' \in (IF r = "mode" THEN D!Fits ELSE {screen})
             /\ pc' = pc
    <3>1. screen' \in D!Fits
      BY <1>5, <2>2
    <3>2. r \in D!Vesa \cup D!Data
      BY <2>1 DEF D!Wanted, D!Vesa, D!Data
    <3>3. stage = 1 => r = "mapping"
      BY DEF D!Wanted
    <3>4. stage = 2 => r = "selector"
      BY DEF D!Wanted
    <3>5. stage = 3 => r = "mode"
      BY DEF D!Wanted
    <3>6. ObtainedOK'
      <4>1. held' \subseteq D!Vesa \cup D!Data
        BY <2>2, <3>2 DEF ObtainedOK
      <4>2. stage' \in 1 .. Len(D!Wanted) + 1
        BY <2>1 DEF D!Wanted
      <4>3. CASE stage = 1
        BY <1>1, <2>1, <2>2, <3>3, <4>1, <4>2, <4>3 DEF ObtainedOK, D!Wanted
      <4>4. CASE stage = 2
        BY <1>1, <2>1, <2>2, <3>4, <4>1, <4>2, <4>4 DEF ObtainedOK, D!Wanted
      <4>5. CASE stage = 3
        BY <1>1, <2>1, <2>2, <3>5, <4>1, <4>2, <4>5 DEF ObtainedOK, D!Wanted, D!Vesa
      <4>6. CASE stage > 3
        BY <1>1, <2>1, <2>2, <4>1, <4>2, <4>6 DEF ObtainedOK
      <4> QED BY <2>1, <4>3, <4>4, <4>5, <4>6
    <3> QED BY <1>1, <1>3, <1>4, <2>2, <3>1, <3>6 DEF D!NothingLeaks
  <2>3. CASE r \in D!Optional /\ UNCHANGED <<held, screen, pc>>
    <3>1. stage > 3
      BY <2>1, <2>3 DEF D!Wanted, D!Optional
    <3>2. stage > 4
      BY <2>1, <2>3, <3>1 DEF D!Wanted, D!Optional
    <3>3. ObtainedOK'
      BY <1>1, <2>1, <2>3, <3>2 DEF ObtainedOK, D!Wanted
    <3> QED BY <1>1, <1>3, <1>4, <1>5, <2>3, <3>3 DEF D!NothingLeaks
  <2>4. CASE /\ r \notin D!Optional /\ pc' = "failed" /\ UNCHANGED screen
             /\ CASE r \in D!Vesa -> D!vesa_init_fails(r)
                  [] r = "data" -> held' = D!vesa_dispose
                  [] OTHER -> D!destroy_window_data
    <3>1. held' = {}
      <4>1. CASE stage = 1
        BY <1>1, <2>4, <4>1 DEF ObtainedOK, D!Wanted, D!Vesa, D!vesa_init_fails
      <4>2. CASE stage = 2
        BY <1>1, <2>4, <4>2 DEF ObtainedOK, D!Wanted, D!Vesa, D!vesa_init_fails
      <4>3. CASE stage = 3
        BY <1>1, <2>4, <4>3 DEF ObtainedOK, D!Wanted, D!Vesa, D!vesa_init_fails
      <4>4. CASE stage = 4
        BY <1>1, <2>4, <4>4 DEF ObtainedOK, D!Wanted, D!Vesa, D!vesa_dispose
      <4>5. CASE stage > 4
        <5>1. r \notin D!Vesa /\ r # "data"
          BY <2>1, <4>5 DEF D!Wanted, D!Vesa
        <5>2. D!destroy_window_data
          BY <2>4, <5>1
        <5>3. D!Vesa \subseteq held
          BY <1>1, <2>1, <4>5 DEF ObtainedOK
        <5> QED BY <5>2, <5>3, DosDestroyKeeps
      <4> QED BY <2>1, <4>1, <4>2, <4>3, <4>4, <4>5
    <3> QED BY <1>1, <1>3, <1>4, <1>5, <1>6, <2>4, <3>1
  <2> QED BY <2>0, <2>2, <2>3, <2>4 DEF D!Obtain
<1>8. CASE ~(stage <= Len(D!Wanted))
  <2>0. D!Complete /\ UNCHANGED screen
    BY <1>8 DEF D!mfb_open_ex, D!Complete
  <2>1. stage > 3 /\ D!Vesa \subseteq held
    BY <1>1, <1>2, <1>8 DEF ObtainedOK, D!Wanted
  <2>2. CASE D!destroy_window_data /\ pc' = "failed"
    <3>1. held' = {}
      BY <2>1, <2>2, DosDestroyKeeps
    <3> QED BY <1>1, <1>3, <1>4, <1>5, <1>6, <2>0, <2>2, <3>1
  <2>3. CASE /\ "scale_buffer" \in held /\ (D!needs_scanline => "scanline_buffer" \in held)
             /\ pc' = "idle" /\ held' = held
    <3>1. ObtainedOK'
      BY <2>0, <2>1, <2>3 DEF ObtainedOK, D!needs_scanline
    <3> QED BY <1>1, <1>3, <1>4, <1>5, <2>0, <2>3, <3>1 DEF D!NothingLeaks
  <2> QED BY <2>0, <2>2, <2>3 DEF D!Complete
<1> QED BY <1>7, <1>8, <1>2

\* The end of a call that finds the close asked for.
LEMMA EndKeeps ==
    ASSUME DosIInv, D!End, pc \in {"called", "drain"},
           UNCHANGED <<D!mouse, button_status, screen, window_size, viewport, close, told, shown>>
    PROVE  DosIInv'
<1>1. held' = {} /\ pc' = "gone"
  BY DosDestroyKeeps DEF DosIInv, ObtainedOK, D!End
<1>2. DosOK'
  BY <1>1 DEF DosIInv, DosOK, D!mouse
<1> QED BY <1>1, <1>2 DEF DosIInv, ObtainedOK, D!NothingLeaks, D!FrameFits

\* A step inside the window's life that obtains and gives back nothing.
LEMMA LivesOn ==
    ASSUME DosIInv, DosOK', UNCHANGED <<held, screen>>,
           pc \in {"idle", "called", "drain", "return"},
           pc' \in {"idle", "called", "drain"}, UNCHANGED shown
    PROVE  DosIInv'
BY DEF DosIInv, ObtainedOK, D!NothingLeaks, D!FrameFits, D!needs_scanline

LEMMA PollKeeps ==
    ASSUME DosParameters, DosIInv, D!Poll
    PROVE  /\ DosIInv' /\ pc = "called" /\ UNCHANGED <<window_size, close, shown>> /\ told'.size = told.size
           /\ \/ close /\ pc' = "gone" /\ result' = "EXIT"
              \/ pc' = "drain" /\ result' = result
<1>1. pc = "called" /\ UNCHANGED <<screen, window_size, viewport, close, shown>>
  BY DEF D!Poll
<1>2. CASE close
  <2>1. D!End /\ UNCHANGED <<D!mouse, D!input, told>>
    BY <1>2 DEF D!Poll
  <2> QED BY <1>1, <1>2, <2>1, EndKeeps DEF D!End, D!input
<1>3. CASE ~close
  <2>1. /\ D!update_mouse /\ pc' = "drain"
        /\ UNCHANGED <<driver, buttons, place, scrolled, held, result>>
    BY <1>3 DEF D!Poll
  <2>2. D!position \in Int /\ D!notches \in Int
    <3>1. D!actual_size \in Nat \ {0}
      BY DosScreen DEF DosIInv
    <3>2. place * window_size \in Int
      BY DEF DosIInv, DosOK, DosParameters
    <3> QED BY <3>1, <3>2 DEF D!position, D!notches, DosIInv, DosOK
  <2>3. told' \in DosTold /\ told'.size = told.size
    <3>1. told \in DosTold /\ buttons \subseteq DButtons
      BY DEF DosIInv, DosOK
    <3>2. told' \in {told, [told EXCEPT !.buttons = buttons, !.place = D!position,
                                        !.scrolled = told.scrolled - D!notches]}
      BY <2>1 DEF D!update_mouse
    <3>3. told.scrolled \in Int
      BY <3>1 DEF DosTold
    <3>4. told.scrolled - D!notches \in Int
      BY <2>2, <3>3
    <3> QED BY <2>2, <3>1, <3>2, <3>4 DEF DosTold
  <2>4. button_status' \subseteq DButtons /\ wheel' \in Int
    BY <2>1 DEF D!update_mouse, DosIInv, DosOK
  <2>5. DosOK'
    BY <1>1, <2>1, <2>3, <2>4 DEF DosIInv, DosOK
  <2> QED BY <1>1, <2>1, <2>3, <2>5, LivesOn
<1> QED BY <1>2, <1>3 DEF DosIInv, DosOK

\* The calls that end, go on or answer, and those of the application.
LEMMA DosCallsKeep ==
    ASSUME DosParameters, DosIInv,
           \/ D!RefuseBuffer \/ D!update_keyboard \/ D!Drained \/ D!Return \/ D!mfb_close
           \/ \E c \in {"update_ex", "update_events", "wait_sync"} : D!Call(c)
           \/ \E offset \in DSizes \cup {0}, size \in DSizes : D!mfb_set_viewport(offset, size)
    PROVE  /\ DosIInv' /\ UNCHANGED <<window_size, told, shown>>
           /\ \/ pc = "idle" /\ pc' = "called" /\ UNCHANGED <<close, result>>
              \/ pc = "called" /\ pc' = "idle" /\ close' = close /\ result' = "INVALID_BUFFER"
              \/ pc \in {"idle", "drain"} /\ pc' = pc /\ close' \in {close, TRUE} /\ result' = result
              \/ pc = "drain" /\ close /\ close' = close /\ pc' = "gone" /\ result' = "EXIT"
              \/ pc \in {"drain", "return"} /\ pc' = "idle" /\ close' = close /\ result' = "OK"
              \/ pc = "drain" /\ pc' = "called" /\ UNCHANGED <<close, result>>
<1> DEFINE Same == UNCHANGED <<D!mouse, D!input, screen, window_size, viewport, held, told, shown>>
<1>1. ASSUME Same, close' \in {close, TRUE}, pc \in {"idle", "called", "drain", "return"},
             pc' \in {"idle", "called", "drain"}
      PROVE  DosIInv'
  <2>1. DosOK'
    BY <1>1 DEF DosIInv, DosOK, D!mouse, D!input
  <2> QED BY <1>1, <2>1, LivesOn
<1>2. CASE D!RefuseBuffer \/ D!Return \/ \E c \in {"update_ex", "update_events", "wait_sync"} : D!Call(c)
  BY <1>1, <1>2 DEF D!RefuseBuffer, D!Return, D!Call, D!window
<1>3. CASE D!update_keyboard \/ D!mfb_close
  BY <1>1, <1>3 DEF D!update_keyboard, D!mfb_close, D!program
<1>4. CASE D!Drained
  <2>1. /\ pc = "drain"
        /\ UNCHANGED <<D!mouse, D!input, screen, window_size, viewport, close, told, shown>>
    BY <1>4 DEF D!Drained
  <2>2. CASE close
    BY <1>4, <2>1, <2>2, EndKeeps DEF D!Drained, D!End, D!input
  <2>3. CASE ~close
    BY <1>1, <1>4, <2>1, <2>3 DEF D!Drained
  <2> QED BY <2>2, <2>3 DEF DosIInv, DosOK
<1>5. ASSUME NEW offset \in DSizes \cup {0}, NEW size \in DSizes, D!mfb_set_viewport(offset, size)
      PROVE  /\ DosIInv' /\ UNCHANGED <<window_size, told, shown>>
             /\ pc \in {"idle", "drain"} /\ pc' = pc /\ close' = close /\ result' = result
  <2>1. viewport' \in Nat \X Nat
    BY <1>5 DEF D!mfb_set_viewport, DosParameters
  <2>2. /\ UNCHANGED <<D!mouse, D!input, screen, window_size, close, held, told, D!program>>
        /\ pc \in {"idle", "drain"}
    BY <1>5 DEF D!mfb_set_viewport
  <2>3. DosOK'
    BY <2>1, <2>2 DEF DosIInv, DosOK, D!mouse, D!input, D!program
  <2> QED BY <2>2, <2>3, LivesOn DEF D!program
<1> QED BY <1>2, <1>3, <1>4, <1>5

LEMMA DosUpdateKeeps ==
    ASSUME DosParameters, DosIInv, NEW b \in DSizes, D!mfb_update_ex(b)
    PROVE  /\ DosIInv' /\ pc = "drain" /\ pc' = "return" /\ ~close
           /\ UNCHANGED <<window_size, close, told, result>> /\ shown'.window = window_size
<1>1. /\ pc = "drain" /\ pc' = "return" /\ ~close
      /\ UNCHANGED <<D!mouse, D!input, D!window, told, result>>
      /\ shown' = [window |-> window_size, part |-> D!Part, read |-> D!frame(b), copied |-> D!actual_size,
                   from |-> IF D!rearranged(b) THEN "scanline_buffer" ELSE "frame"]
  BY DEF D!mfb_update_ex
<1>2. DosOK'
  BY <1>1 DEF DosIInv, DosOK, D!mouse, D!input, D!window
<1>3. ObtainedOK'
  BY <1>1 DEF DosIInv, ObtainedOK, D!needs_scanline, D!window
<1>4. shown'.part.first + shown'.part.count <= shown'.copied
  BY <1>1, PartFits DEF DosIInv
<1>5. shown'.read = shown'.copied
  BY <1>1 DEF D!frame
<1>6. "scale_buffer" \in held' /\ (shown'.from = "scanline_buffer" => "scanline_buffer" \in held')
  <2>1. "scale_buffer" \in held /\ (D!needs_scanline => "scanline_buffer" \in held) /\ held' = held
    BY <1>1 DEF DosIInv, ObtainedOK, D!window
  <2>2. D!rearranged(b) => D!needs_scanline
    BY DEF D!rearranged, D!needs_scanline, DosIInv, DosOK
  <2> QED BY <1>1, <2>1, <2>2
<1> QED BY <1>1, <1>2, <1>3, <1>4, <1>5, <1>6 DEF DosIInv, D!NothingLeaks, D!FrameFits, D!window

LEMMA DosInitHolds == DosParameters /\ D!Init => DosIInv
<1> SUFFICES ASSUME DosParameters, D!Init PROVE DosIInv
  OBVIOUS
<1>1. told \in DosTold
  BY DEF D!Init, DosTold
<1>2. screen \in D!Fits
  BY DEF D!Init, D!Fits
<1>3. viewport \in Nat \X Nat
  BY DEF D!Init, DosParameters
<1>4. DosOK
  <2>1. /\ driver \in {"none", "no_wheel", "bh", "bx"} /\ buttons = {} /\ button_status = {}
        /\ place = 0 /\ wheel = 0 /\ scrolled = 0
        /\ window_size = DFirstSize /\ close = FALSE /\ pc = "opening"
    BY DEF D!Init
  <2>2. place \in Int /\ wheel \in Int /\ scrolled \in Int
        /\ buttons \subseteq DButtons /\ button_status \subseteq DButtons
        /\ pc \in {"opening", "failed", "idle", "called", "drain", "return", "gone"}
    BY <2>1
  <2>3. close \in BOOLEAN
    BY <2>1
  <2> QED BY <1>1, <1>2, <1>3, <2>1, <2>2, <2>3 DEF DosOK
<1>5. ObtainedOK
  BY DEF D!Init, ObtainedOK, D!Wanted
<1> QED BY <1>4, <1>5 DEF D!Init, DosIInv, D!NothingLeaks, D!FrameFits

\* Every step keeps the invariant and is one the contract allows, or none it can see.
LEMMA DosStepKeeps ==
    ASSUME DosParameters, DosIInv, [D!Next]_D!vars
    PROVE  DosIInv' /\ [D!Contract!Next]_D!Contract!vars
<1> DEFINE Kept == [D!Contract!Next]_D!Contract!vars
<1> USE DEF D!Contract!vars, D!Contract!Next
<1>t. close \in BOOLEAN /\ window_size = DFirstSize /\ told.size = DFirstSize /\ DFirstSize # 0
  BY DEF DosIInv, DosOK, DosTold, DosParameters
<1>s. ASSUME UNCHANGED <<window_size, result, shown>>, told'.size = told.size,
             pc' = "gone" <=> pc = "gone",
             pc' \in {"called", "drain", "return"} <=> pc \in {"called", "drain", "return"},
             close' = close \/ (close' = TRUE /\ pc # "gone")
      PROVE  Kept
  BY <1>s, <1>t DEF D!Contract!RequestClose
<1>e. ASSUME close, close' = close, pc \in {"called", "drain", "return"}, pc' = "gone", result' = "EXIT",
             UNCHANGED <<window_size, shown>>, told'.size = told.size
      PROVE  Kept
  <2>2. (pc' \in {"called", "drain", "return"}) = FALSE /\ pc # "gone"
    BY <1>e
  <2>3. D!Contract!ReturnExit
    BY <1>e, <1>t, <2>2 DEF D!Contract!ReturnExit
  <2> QED BY <2>3
<1>1. CASE D!User
  BY <1>1, <1>s, UserKeeps DEF D!window, D!program
<1>2. CASE D!mfb_open_ex
  BY <1>2, <1>s, DosOpeningKeeps
<1>3. CASE D!Poll
  <2>1. CASE close /\ pc' = "gone"
    BY <1>3, <1>e, <2>1, PollKeeps
  <2>2. CASE pc' = "drain"
    BY <1>3, <1>s, <2>2, PollKeeps
  <2> QED BY <1>3, <2>1, <2>2, PollKeeps
<1>4. CASE \/ D!RefuseBuffer \/ D!update_keyboard \/ D!Drained \/ D!Return \/ D!mfb_close
           \/ \E c \in {"update_ex", "update_events", "wait_sync"} : D!Call(c)
           \/ \E offset \in DSizes \cup {0}, size \in DSizes : D!mfb_set_viewport(offset, size)
  <2>0. DosIInv' /\ UNCHANGED <<window_size, told, shown>>
    BY <1>4, DosCallsKeep
  <2>1. CASE pc = "idle" /\ pc' = "called" /\ UNCHANGED <<close, result>>
    BY <1>t, <2>0, <2>1 DEF D!Contract!Call
  <2>2. CASE pc = "called" /\ pc' = "idle" /\ close' = close /\ result' = "INVALID_BUFFER"
    BY <1>t, <2>0, <2>2 DEF D!Contract!ReturnError
  <2>3. CASE pc \in {"idle", "drain"} /\ pc' = pc /\ close' \in {close, TRUE} /\ result' = result
    BY <1>s, <2>0, <2>3
  <2>4. CASE pc = "drain" /\ close /\ close' = close /\ pc' = "gone" /\ result' = "EXIT"
    BY <1>e, <2>0, <2>4
  <2>5. CASE pc \in {"drain", "return"} /\ pc' = "idle" /\ close' = close /\ result' = "OK"
    BY <1>t, <2>0, <2>5 DEF D!Contract!ReturnOK
  <2>6. CASE pc = "drain" /\ pc' = "called" /\ UNCHANGED <<close, result>>
    BY <1>s, <2>0, <2>6
  <2>7. <2>1!1 \/ <2>2!1 \/ <2>3!1 \/ <2>4!1 \/ <2>5!1 \/ <2>6!1
    BY <1>4, DosCallsKeep
  <2> QED BY <2>0, <2>1, <2>2, <2>3, <2>4, <2>5, <2>6, <2>7
<1>5. ASSUME NEW b \in DSizes, D!mfb_update_ex(b) PROVE DosIInv' /\ Kept
  BY <1>5, <1>t, DosUpdateKeeps DEF D!Contract!Show
<1>6. CASE UNCHANGED D!vars
  <2>1. DosIInv'
    BY <1>6 DEF D!vars, D!mouse, D!input, D!window, D!program, DosIInv, DosOK, ObtainedOK, D!needs_scanline,
                D!NothingLeaks, D!FrameFits
  <2> QED BY <1>6, <1>s, <2>1 DEF D!vars, D!window, D!program
<1> QED BY <1>1, <1>2, <1>3, <1>4, <1>5, <1>6 DEF D!Next, D!Library, D!Application

--------------------------------------------------------------------------------
\* The three backends: the window of a state is that of one of them.
Parameters == X11Parameters /\ WinParameters /\ DosParameters
Inv == Each(X11IInv, WinIInv, DosIInv)

LEMMA Start == Parameters /\ MCInit => Inv
<1> SUFFICES ASSUME Parameters, MCInit PROVE Inv
  OBVIOUS
<1>1. \/ OnX11 /\ X!Init
      \/ OnDos /\ ~OnX11 /\ D!Init
      \/ ~OnX11 /\ ~OnDos /\ W!Init
  BY DEF MCInit, Scene, OnX11, OnDos
<1>2. CASE OnX11 /\ X!Init
  BY <1>2, X11InitHolds DEF Parameters, Inv, Each
<1>3. CASE ~OnX11 /\ ~OnDos /\ W!Init
  BY <1>3, WinInitHolds DEF Parameters, Inv, Each
<1>4. CASE OnDos /\ ~OnX11 /\ D!Init
  BY <1>4, DosInitHolds DEF Parameters, Inv, Each
<1> QED BY <1>1, <1>2, <1>3, <1>4

\* A step is one of the backend that runs.
LEMMA OneBackend ==
    ASSUME [MCNext]_<<scenario, both, x11, win, dos>>
    PROVE  /\ OnX11' = OnX11 /\ OnDos' = OnDos
           /\ OnX11 => ~OnDos /\ [X!Next]_X!vars
           /\ OnDos => ~OnX11 /\ [D!Next]_D!vars
           /\ ~OnX11 /\ ~OnDos => [W!Next]_W!vars
<1>1. CASE MCNext
  BY <1>1 DEF MCNext, Scene, OnX11, OnDos
<1>2. CASE UNCHANGED <<scenario, both, x11, win, dos>>
  <2>1. UNCHANGED X!vars
    BY <1>2 DEF both, x11, X!vars, X!user, X!input, X!images, X!program
  <2>2. UNCHANGED W!vars
    BY <1>2 DEF both, win, W!vars, W!user, W!input, W!buffers, W!window, W!program
  <2>3. UNCHANGED D!vars
    BY <1>2 DEF both, dos, D!vars, D!mouse, D!input, D!window, D!program
  <2> QED BY <1>2, <2>1, <2>2, <2>3 DEF OnX11, OnDos
<1> QED BY <1>1, <1>2

LEMMA Step ==
    ASSUME Parameters, Inv, [MCNext]_<<scenario, both, x11, win, dos>>
    PROVE  /\ Inv'
           /\ OnX11 => [X!Contract!Next]_X!Contract!vars
           /\ OnDos => [D!Contract!Next]_D!Contract!vars
           /\ ~OnX11 /\ ~OnDos => [W!Contract!Next]_W!Contract!vars
<1>1. CASE OnX11
  BY <1>1, OneBackend, X11StepKeeps DEF Parameters, Inv, Each
<1>2. CASE ~OnX11 /\ ~OnDos
  BY <1>2, OneBackend, WinStepKeeps DEF Parameters, Inv, Each
<1>3. CASE OnDos
  <2>1. ~OnX11 /\ OnDos' /\ ~OnX11' /\ [D!Next]_D!vars
    BY <1>3, OneBackend DEF OnX11, OnDos
  <2>2. DosParameters /\ DosIInv
    BY <1>3, <2>1 DEF Parameters, Inv, Each
  <2>3. DosIInv' /\ [D!Contract!Next]_D!Contract!vars
    BY <2>1, <2>2, DosStepKeeps
  <2> QED BY <1>3, <2>1, <2>3 DEF Inv, Each
<1> QED BY <1>1, <1>2, <1>3

LEMMA Inductive ==
    ASSUME Parameters
    PROVE  MCSpec => []Inv
<1>1. Inv /\ [MCNext]_<<scenario, both, x11, win, dos>> => Inv'
  BY Step
<1> QED BY Start, <1>1, PTL DEF MCSpec

\* XPutImage is given an image of the viewport's size over pixels of that size, whatever
\* resizes and failed allocations came before; DOS copies as many pixels as the screen has,
\* from buffers that are there, to a place within it (mfb_update_ex of both, OnConfigure).
THEOREM FramesFit ==
    ASSUME Parameters
    PROVE  MCSpec => []FrameFits
<1>1. Inv => FrameFits
  BY DEF Inv, Each, X11IInv, DosIInv, ImagesOK, FrameFits, X!FrameFits
<1> QED BY Inductive, <1>1, PTL

\* An opening that fails at any stage and an end of any kind leave nothing behind: no image
\* and no pixels of X11, no device context, window or timer period of Windows, where only the
\* window class stays registered, no mode and no mapping of DOS.  Each resource is given back
\* under the condition its own release has, so what was obtained before it has to be there
\* still (mfb_open_ex, destroy_window_data of each).
THEOREM NothingIsLeaked ==
    ASSUME Parameters
    PROVE  MCSpec => []NothingLeaks
<1>1. Inv => NothingLeaks
  BY DEF Inv, Each, X11IInv, WinIInv, DosIInv, NothingLeaks
<1> QED BY Inductive, <1>1, PTL

\* The cursor count of the thread is never off by one: a hidden cursor counts while the
\* pointer is inside, and is given back by a leave and by the end (set_mouse_inside,
\* mfb_show_cursor, destroy_window_data).
THEOREM CursorIsBalanced ==
    ASSUME Parameters
    PROVE  MCSpec => []CursorCountBalanced
<1>1. Inv => CursorCountBalanced
  BY DEF Inv, Each, WinIInv, CursorCountBalanced
<1> QED BY Inductive, <1>1, PTL

\* The contract is the same for a state of X11, of Windows and of DOS.
LEMMA OneContract ==
    ASSUME Parameters, Inv, Inv', OnX11' = OnX11, OnDos' = OnDos,
           OnX11 => [X!Contract!Next]_X!Contract!vars,
           OnDos => [D!Contract!Next]_D!Contract!vars,
           ~OnX11 /\ ~OnDos => [W!Contract!Next]_W!Contract!vars
    PROVE  [Contract!Next]_Contract!vars
<1> USE DEF Contract!Next, Contract!vars, Contract!RequestClose, Contract!Call, Contract!Resize,
            Contract!Report, Contract!Show, Contract!ReturnOK, Contract!ReturnError, Contract!ReturnExit
<1>1. CASE OnX11
  <2>1. window_size # 0 /\ window_size' # 0 /\ pc # "return" /\ pc' # "return"
    BY <1>1 DEF Parameters, X11Parameters, Inv, Each, X11IInv, X11WindowOK
  <2>2. [X!Contract!Next]_X!Contract!vars
    BY <1>1
  <2> QED
    BY <1>1, <2>1, <2>2 DEF Each, X!Contract!Next, X!Contract!vars, X!Contract!RequestClose, X!Contract!Call,
       X!Contract!Resize, X!Contract!Report, X!Contract!Show, X!Contract!ReturnOK, X!Contract!ReturnError,
       X!Contract!ReturnExit
<1>2. CASE ~OnX11 /\ ~OnDos
  <2>1. [W!Contract!Next]_W!Contract!vars /\ pc # "return" /\ pc' # "return"
    BY <1>2 DEF Inv, Each, WinIInv, WinWindowOK
  <2> QED
    BY <1>2, <2>1 DEF Each, W!Contract!Next, W!Contract!vars, W!Contract!RequestClose, W!Contract!Call,
       W!Contract!Resize, W!Contract!Report, W!Contract!Show, W!Contract!ReturnOK, W!Contract!ReturnError,
       W!Contract!ReturnExit
<1>3. CASE ~OnX11 /\ OnDos
  <2>1. window_size # 0 /\ window_size' # 0
    BY <1>3 DEF Parameters, DosParameters, Inv, Each, DosIInv, DosOK
  <2>2. [D!Contract!Next]_D!Contract!vars
    BY <1>3
  <2> QED
    BY <1>3, <2>1, <2>2 DEF Each, D!Contract!Next, D!Contract!vars, D!Contract!RequestClose, D!Contract!Call,
       D!Contract!Resize, D!Contract!Report, D!Contract!Show, D!Contract!ReturnOK, D!Contract!ReturnError,
       D!Contract!ReturnExit
<1> QED BY <1>1, <1>2, <1>3

\* Each backend keeps the contract of the public interface: it ends only inside a call
\* that answers EXIT, shows nothing once the close was asked for, and has told the size of
\* the window when it answers OK.
THEOREM Refinement ==
    ASSUME Parameters
    PROVE  MCSpec => ImplementsContract
<1>1. MCInit => Contract!Init
  <2> SUFFICES ASSUME MCInit PROVE Contract!Init
    OBVIOUS
  <2>1. /\ FirstSize \in (XSizes \cup WSizes \cup {DFirstSize}) /\ FirstSize # 0
        /\ DFirstSize \in (XSizes \cup WSizes \cup {DFirstSize}) /\ DFirstSize # 0
    BY DEF Parameters, X11Parameters, DosParameters
  <2>2. \/ OnX11 /\ X!Init
        \/ OnDos /\ ~OnX11 /\ D!Init
        \/ ~OnX11 /\ ~OnDos /\ W!Init
    BY DEF MCInit, Scene, OnX11, OnDos
  <2>3. /\ pc = "opening" /\ close = FALSE /\ result = "OK" /\ window_size \in {FirstSize, DFirstSize}
        /\ told.size = window_size
        /\ Each(shown.window, shown, shown.window) = 0
    BY <2>2 DEF Each, X!Init, W!Init, D!Init
  <2> QED BY <2>1, <2>3 DEF Contract!Init
<1>2. Inv /\ Inv' /\ [MCNext]_<<scenario, both, x11, win, dos>> => [Contract!Next]_Contract!vars
  BY Step, OneBackend, OneContract
<1> QED BY Inductive, <1>1, <1>2, PTL DEF MCSpec, ImplementsContract, Contract!Spec

\* What the contract gives: a window is gone exactly when a call has answered EXIT, so the
\* application that was not told still owns it.
LEMMA ContractKeeps ==
    /\ Contract!Init => Contract!GoneIffExit /\ Contract!CallsAreAlive
    /\ Contract!GoneIffExit /\ Contract!CallsAreAlive /\ [Contract!Next]_Contract!vars =>
          Contract!GoneIffExit' /\ Contract!CallsAreAlive' /\ [Contract!StaysClosed]_Contract!vars
<1> USE DEF Contract!GoneIffExit, Contract!CallsAreAlive
<1>1. Contract!Init => Contract!GoneIffExit /\ Contract!CallsAreAlive
  BY DEF Contract!Init
<1>2. ASSUME Contract!GoneIffExit, Contract!CallsAreAlive, [Contract!Next]_Contract!vars
      PROVE  Contract!GoneIffExit' /\ Contract!CallsAreAlive' /\ [Contract!StaysClosed]_Contract!vars
  <2> USE DEF Contract!StaysClosed
  <2>1. CASE Contract!RequestClose \/ Contract!Call \/ Contract!Resize \/ Contract!Report \/ Contract!Show
    BY <1>2, <2>1 DEF Contract!RequestClose, Contract!Call, Contract!Resize, Contract!Report, Contract!Show
  <2>2. CASE Contract!ReturnOK
    BY <1>2, <2>2 DEF Contract!ReturnOK
  <2>3. CASE Contract!ReturnError
    BY <1>2, <2>3 DEF Contract!ReturnError
  <2>4. CASE Contract!ReturnExit
    BY <1>2, <2>4 DEF Contract!ReturnExit
  <2>5. CASE UNCHANGED Contract!vars
    BY <1>2, <2>5 DEF Contract!vars
  <2> QED BY <1>2, <2>1, <2>2, <2>3, <2>4, <2>5 DEF Contract!Next
<1> QED BY <1>1, <1>2

\* The only way out of a window of X11, Windows or DOS is the EXIT of a call.
THEOREM OnlyExitEndsAWindow ==
    ASSUME Parameters
    PROVE  MCSpec => []Contract!GoneIffExit
BY Refinement, ContractKeeps, PTL DEF ImplementsContract, Contract!Spec

\* A close is final, and the last frame shown before it stays the last.
THEOREM CloseIsFinal ==
    ASSUME Parameters
    PROVE  MCSpec => Contract!NothingShownAfterClose
BY Refinement, ContractKeeps, PTL DEF ImplementsContract, Contract!Spec, Contract!NothingShownAfterClose

--------------------------------------------------------------------------------
\* The keys and the focus, with any keys and any length of the queue: whatever is still queued,
\* what the window knows and what the application was told will come to what the user holds.

\* X11.  An event of the focus that is no grab's.
Focusing(e) == e.type \in {"FocusIn", "FocusOut"} /\ e.mode = "Normal"
Keying(e) == e.type \in {"KeyPress", "KeyRelease"}

\* What an event makes of is_active.  Keys come to a window with the focus.
XFocusStep ==
    {t \in Event \X BOOLEAN \X BOOLEAN :
        IF Focusing(t[1]) THEN t[2] = (t[1].type = "FocusOut") /\ t[3] = (t[1].type = "FocusIn")
        ELSE t[3] = t[2] /\ (Keying(t[1]) => t[2])}

\* The events that say whether key k is down, those that say it right, and whether the
\* table has it right: without the focus the table holds nothing, but until the first one
\* it holds what the opening has found, and no event says anything of a key.
XDeciding(k) == {e \in Event : Focusing(e) \/ (Keying(e) /\ e.key = k)}
XRight(k) ==
    {e \in Event :
        IF focus THEN e.type = "FocusIn" \/ e.type = (IF k \in keys THEN "KeyPress" ELSE "KeyRelease")
        ELSE ~never_focused /\ e.type = "FocusOut"}
XKeyKnown(k) == IF focus \/ never_focused THEN k \in key_status <=> k \in keys ELSE k \notin key_status

XKeyFollows(k) == Follows(queue, XDeciding(k), XRight(k), XKeyKnown(k))

XTypes ==
    /\ elsewhere \subseteq XKeys /\ button_status \subseteq 0 .. 7
    /\ Len(queue) <= MaxQueue
    /\ image_scaler \in Nat /\ image_buffer \in Nat
    /\ viewport \in Nat \X (Nat \ {0})
    /\ held \subseteq X!ToSet(X!Wanted) /\ stage \in Nat \ {0}
XBooleans == focus \in BOOLEAN /\ grabbed \in BOOLEAN /\ is_active \in BOOLEAN

\* Keys that have moved where the window cannot see, or repeat, are left out while it has the
\* focus or never had it.
XSeen(k) == (focus \/ never_focused) => k \notin elsewhere /\ k # repeating

XOpen == pc \notin {"opening", "failed"}
XOpening ==
    ~XOpen =>
        /\ queue = <<>> /\ ~focus /\ never_focused /\ ~is_active /\ told.keys = {} /\ repeating = X!NoKey

XRepeating == repeating # X!NoKey => focus /\ repeating \in keys

XTold == told.keys \subseteq key_status /\ (~is_active => told.keys = {})

XFocusFollows == Leads(queue, XFocusStep, BOOLEAN, is_active, focus)

XKeysFollow == XOpen => \A k \in XKeys : XSeen(k) => XKeyFollows(k)

XKeysInv == XBooleans /\ XOpening /\ XRepeating /\ XTold /\ XFocusFollows /\ XKeysFollow

\* The name of no key is no key's.
KeyParameters == X!NoKey \notin XKeys /\ MaxInputs \in Nat

--------------------------------------------------------------------------------
\* A step of XFocusStep, event by event.
LEMMA FocusSteps ==
    ASSUME NEW e \in Event, NEW a \in BOOLEAN, NEW b \in BOOLEAN
    PROVE  <<e, a, b>> \in XFocusStep <=>
               IF Focusing(e) THEN a = (e.type = "FocusOut") /\ b = (e.type = "FocusIn")
               ELSE b = a /\ (Keying(e) => a)
BY DEF XFocusStep

\* Events that are none of the keyboard's leave all as it is.
LEMMA XNeutral ==
    ASSUME X11InputOK, XKeysInv, NEW s \in Seq(Event), queue' = queue \o s,
           \A i \in 1 .. Len(s) : ~Focusing(s[i]) /\ ~Keying(s[i]),
           UNCHANGED <<focus, never_focused, keys, repeating, elsewhere, key_status, is_active, told, pc>>,
           grabbed' \in BOOLEAN, XOpen
    PROVE  XKeysInv'
<1>q. queue \in Seq(Event) /\ \A i \in 1 .. Len(s) : s[i] \in Event
  BY ConcatElements, ElementOfSeq DEF X11InputOK
<1>1. XFocusFollows'
  <2>1. \A i \in 1 .. Len(s) : <<s[i], focus, focus>> \in XFocusStep
    BY <1>q, FocusSteps DEF XKeysInv, XBooleans
  <2> QED BY <1>q, <2>1, LeadsKept DEF XKeysInv, XBooleans, XFocusFollows
<1>2. ASSUME NEW k \in XKeys, XSeen(k)' PROVE XKeyFollows(k)'
  <2>1. Follows(queue \o s, XDeciding(k), XRight(k), XKeyKnown(k))
    <3>1. Follows(queue, XDeciding(k), XRight(k), XKeyKnown(k))
      BY <1>2 DEF XKeysInv, XKeysFollow, XKeyFollows, XSeen
    <3>2. \A i \in 1 .. Len(s) : s[i] \notin XDeciding(k)
      BY DEF XDeciding
    <3> QED BY <1>q, <3>1, <3>2, FollowsKept
  <2> QED BY <2>1 DEF XKeyFollows, XRight, XKeyKnown
<1> QED BY <1>1, <1>2 DEF XKeysInv, XBooleans, XOpening, XOpen, XRepeating, XTold, XKeysFollow

\* A key the window sees: its event is the last word on that key.
LEMMA XOneKey ==
    ASSUME KeyParameters, X11InputOK, XKeysInv, NEW k \in XKeys, NEW e \in Event, queue' = queue \o <<e>>,
           focus, Keying(e), e.key = k,
           UNCHANGED <<focus, never_focused, key_status, is_active, told, pc, elsewhere, grabbed>>, XOpen,
           repeating \in {X!NoKey, k},
           \A j \in XKeys : j # k => (j \in keys' <=> j \in keys),
           repeating' = k \/ e.type = (IF k \in keys' THEN "KeyPress" ELSE "KeyRelease"),
           repeating' # X!NoKey => repeating' \in keys'
    PROVE  XKeysInv'
<1>q. queue \in Seq(Event) /\ <<e>> \in Seq(Event) /\ Len(<<e>>) = 1 /\ <<e>>[1] = e
  BY DEF X11InputOK
<1>f. ~Focusing(e)
  BY DEF Focusing, Keying
<1>1. XFocusFollows'
  <2>1. <<e, focus, focus'>> \in XFocusStep
    BY <1>f, FocusSteps DEF XKeysInv, XBooleans
  <2> QED BY <1>q, <2>1, LeadsAppend DEF XKeysInv, XBooleans, XFocusFollows
<1>2. ASSUME NEW j \in XKeys, XSeen(j)' PROVE XKeyFollows(j)'
  <2>1. CASE j = k
    <3>1. e \in XDeciding(j) \cap XRight(j)'
      BY <1>2, <2>1 DEF XDeciding, XRight, XSeen
    <3>2. Follows(queue \o <<e>>, XDeciding(j), XRight(j)', XKeyKnown(j)')
      BY <1>q, <3>1, FollowsOne
    <3> QED BY <3>2 DEF XKeyFollows
  <2>2. CASE j # k
    <3>1. Follows(queue, XDeciding(j), XRight(j), XKeyKnown(j))
      <4>1. j # repeating
        BY <2>2, <1>2 DEF KeyParameters
      <4> QED BY <1>2, <4>1 DEF XKeysInv, XKeysFollow, XKeyFollows, XSeen
    <3>2. \A i \in 1 .. Len(<<e>>) : <<e>>[i] \notin XDeciding(j)
      BY <1>f, <2>2 DEF XDeciding
    <3>3. Follows(queue \o <<e>>, XDeciding(j), XRight(j), XKeyKnown(j))
      BY <1>q, <3>1, <3>2, FollowsKept
    <3>4. XRight(j)' = XRight(j) /\ (XKeyKnown(j) => XKeyKnown(j)')
      BY <2>2 DEF XRight, XKeyKnown
    <3> QED BY <3>3, <3>4, FollowsMore DEF XKeyFollows
  <2> QED BY <2>1, <2>2
<1> QED BY <1>1, <1>2 DEF XKeysInv, XBooleans, XOpening, XOpen, XRepeating, XTold, XKeysFollow

\* A key that moves where the window cannot see it.
LEMMA XKeyElsewhere ==
    ASSUME XKeysInv, NEW k \in XKeys, elsewhere' = elsewhere \cup {k},
           \A j \in XKeys : j # k => (j \in keys' <=> j \in keys),
           UNCHANGED <<focus, never_focused, key_status, is_active, told, pc, queue, grabbed, repeating>>, XOpen,
           repeating = X!NoKey
    PROVE  XKeysInv'
<1>2. ASSUME NEW j \in XKeys, XSeen(j)' PROVE XKeyFollows(j)'
  <2>1. XKeyFollows(j) /\ (focus \/ never_focused => j # k)
    BY <1>2 DEF XKeysInv, XKeysFollow, XSeen
  <2>2. XRight(j)' = XRight(j) /\ (XKeyKnown(j) => XKeyKnown(j)')
    BY <2>1 DEF XRight, XKeyKnown
  <2> QED BY <2>1, <2>2, FollowsMore DEF XKeyFollows
<1> QED BY <1>2 DEF XKeysInv, XBooleans, XOpening, XOpen, XRepeating, XTold, XKeysFollow, XFocusFollows

\* The focus comes or goes: its event is the last word on every key.
LEMMA XChangesFocus ==
    ASSUME X11InputOK, XKeysInv, X!ChangeFocus, UNCHANGED <<key_status, is_active, told, pc>>
    PROVE  XKeysInv'
<1> DEFINE e == [type |-> IF focus THEN "FocusOut" ELSE "FocusIn", mode |-> "Normal"]
<1>q. /\ queue \in Seq(Event) /\ e \in Event /\ <<e>> \in Seq(Event) /\ Len(<<e>>) = 1 /\ <<e>>[1] = e
      /\ queue' = queue \o <<e>> /\ Focusing(e)
      /\ focus' = ~focus /\ UNCHANGED <<keys, repeating, grabbed>> /\ repeating = X!NoKey /\ XOpen
      /\ never_focused' = FALSE
  BY Events DEF XOpen, X11InputOK, X!ChangeFocus, X!Send, X!Allows, Focusing
<1> HIDE DEF e
<1>b. focus \in BOOLEAN /\ focus' \in BOOLEAN
  BY <1>q DEF XKeysInv, XBooleans
<1>e. e.type = (IF focus THEN "FocusOut" ELSE "FocusIn") /\ e.mode = "Normal"
  BY DEF e
<1>1. XFocusFollows'
  <2>1. <<e, focus, focus'>> \in XFocusStep
    BY <1>q, <1>b, <1>e, FocusSteps
  <2> QED BY <1>q, <1>b, <2>1, LeadsAppend DEF XKeysInv, XBooleans, XFocusFollows
<1>2. ASSUME NEW j \in XKeys PROVE XKeyFollows(j)'
  <2>1. e \in XDeciding(j) \cap XRight(j)'
    BY <1>q, <1>b, <1>e DEF XDeciding, XRight
  <2>2. Follows(queue \o <<e>>, XDeciding(j), XRight(j)', XKeyKnown(j)')
    BY <1>q, <2>1, FollowsOne
  <2> QED BY <1>q, <2>2 DEF XKeyFollows
<1> QED BY <1>q, <1>b, <1>1, <1>2 DEF XKeysInv, XBooleans, XOpening, XOpen, XRepeating, XTold, XKeysFollow

LEMMA XServerKeys ==
    ASSUME KeyParameters, X11InputOK, XKeysInv, X!Server
    PROVE  XKeysInv'
<1>u. UNCHANGED <<key_status, is_active, told, pc>>
  BY DEF X!Server, X!input, X!program
<1>t. X!NoKey \notin XKeys /\ keys \subseteq XKeys /\ grabbed \in BOOLEAN /\ focus \in BOOLEAN
  BY DEF KeyParameters, X11InputOK, XKeysInv, XBooleans
<1>1. ASSUME NEW k \in XKeys, X!KeyDown(k) \/ X!KeyUp(k) PROVE XKeysInv'
  <2>1. /\ \A j \in XKeys : j # k => (j \in keys' <=> j \in keys)
        /\ UNCHANGED <<focus, never_focused, grabbed, repeating>> /\ repeating = X!NoKey /\ XOpen
    BY <1>1 DEF X!KeyDown, X!KeyUp, X!Allows, XOpen
  <2>2. CASE X!Mine
    <3> DEFINE e == X!KeyEvent(IF k \in keys' THEN "KeyPress" ELSE "KeyRelease", k, FALSE)
    <3>1. queue' = queue \o <<e>> /\ elsewhere' = elsewhere
      BY <1>1, <2>2 DEF X!KeyDown, X!KeyUp, X!Send
    <3>2. e \in Event /\ Keying(e) /\ e.key = k /\ e.type = (IF k \in keys' THEN "KeyPress" ELSE "KeyRelease")
      BY Events, <1>t DEF Keying, X!KeyEvent
    <3> HIDE DEF e
    <3>3. focus
      BY <2>2 DEF X!Mine
    <3> QED BY <1>u, <1>t, <2>1, <3>1, <3>2, <3>3, XOneKey
  <2>3. CASE ~X!Mine
    <3>1. queue' = queue /\ elsewhere' = elsewhere \cup {k}
      BY <1>1, <2>3 DEF X!KeyDown, X!KeyUp
    <3> QED BY <1>u, <2>1, <3>1, XKeyElsewhere
  <2> QED BY <2>2, <2>3
<1>2. ASSUME NEW k \in XKeys, X!RepeatRelease(k) PROVE XKeysInv'
  <2> DEFINE e == X!KeyEvent("KeyRelease", k, FALSE)
  <2>1. /\ queue' = queue \o <<e>> /\ UNCHANGED <<focus, never_focused, grabbed, elsewhere, keys>> /\ focus
        /\ repeating = X!NoKey /\ repeating' = k /\ k \in keys /\ XOpen
    BY <1>2 DEF X!RepeatRelease, X!Send, X!Mine, X!Allows, XOpen
  <2>2. e \in Event /\ Keying(e) /\ e.key = k
    BY Events, <1>t DEF Keying, X!KeyEvent
  <2> HIDE DEF e
  <2> QED BY <1>u, <1>t, <2>1, <2>2, XOneKey
<1>3. CASE X!RepeatPress
  <2> DEFINE e == X!KeyEvent("KeyPress", repeating, TRUE)
  <2>1. /\ queue' = queue \o <<e>> /\ UNCHANGED <<focus, never_focused, grabbed, elsewhere, keys>>
        /\ repeating # X!NoKey /\ repeating' = X!NoKey
    BY <1>3 DEF X!RepeatPress, X!Send
  <2>2. focus /\ repeating \in keys /\ repeating \in XKeys /\ XOpen
    BY <1>t, <2>1 DEF XKeysInv, XRepeating, XOpening
  <2>3. e \in Event /\ Keying(e) /\ e.key = repeating /\ e.type = "KeyPress"
    BY <2>2, Events, <1>t DEF Keying, X!KeyEvent
  <2> HIDE DEF e
  <2> QED BY <1>u, <1>t, <2>1, <2>2, <2>3, XOneKey
<1>4. CASE X!ChangeFocus
  BY <1>4, <1>u, XChangesFocus
<1>5. CASE \/ X!GrabKeyboard \/ X!DragElsewhere
           \/ \E p \in {"in", "covered", "out"} : X!MovePointer(p)
           \/ \E b \in XButtons : X!ButtonDown(b) \/ X!ButtonUp(b)
           \/ \E s \in XSizes : X!Configure(s)
           \/ \E type \in {"ClientMessage", "DestroyNotify"} : X!AskToClose(type)
  <2> DEFINE Other(e) == e \in Event /\ ~Focusing(e) /\ ~Keying(e)
  <2>1. /\ UNCHANGED <<focus, never_focused, keys, repeating, elsewhere>> /\ grabbed' \in BOOLEAN /\ XOpen
    BY <1>5, <1>t DEF XOpen, X!GrabKeyboard, X!DragElsewhere, X!MovePointer, X!ButtonDown, X!ButtonUp, X!Configure,
                      X!AskToClose, X!Allows
  <2>2. \E s \in Seq(Event) : queue' = queue \o s /\ \A i \in 1 .. Len(s) : ~Focusing(s[i]) /\ ~Keying(s[i])
    <3>1. <<>> \in Seq(Event) /\ \A i \in 1 .. Len(<<>>) : ~Focusing(<<>>[i]) /\ ~Keying(<<>>[i])
      BY EmptySeq
    <3>2. ASSUME NEW e, Other(e)
          PROVE  <<e>> \in Seq(Event) /\ \A i \in 1 .. Len(<<e>>) : ~Focusing(<<e>>[i]) /\ ~Keying(<<e>>[i])
      BY <3>2
    <3>3. ASSUME NEW e, NEW f, Other(e), Other(f)
          PROVE  LET s == <<e>> \o <<f>>
                 IN  s \in Seq(Event) /\ \A i \in 1 .. Len(s) : ~Focusing(s[i]) /\ ~Keying(s[i])
      <4> DEFINE s == <<e>> \o <<f>>
      <4>1. e \in Event /\ f \in Event /\ ~Focusing(e) /\ ~Keying(e) /\ ~Focusing(f) /\ ~Keying(f)
        BY <3>3
      <4>2. /\ <<e>> \in Seq(Event) /\ <<f>> \in Seq(Event)
            /\ Len(<<e>>) = 1 /\ Len(<<f>>) = 1 /\ <<e>>[1] = e /\ <<f>>[1] = f
        BY <4>1
      <4>3. s \in Seq(Event) /\ Len(s) = 2 /\ s[1] = e /\ s[1 + 1] = f
        BY <4>2, ConcatElements
      <4> HIDE DEF s
      <4>4. ASSUME NEW i \in 1 .. Len(s) PROVE ~Focusing(s[i]) /\ ~Keying(s[i])
        <5>1. i = 1 \/ i = 1 + 1
          BY <4>3
        <5> QED BY <4>1, <4>3, <5>1
      <4> QED BY <4>3, <4>4 DEF s
    <3>4. /\ \A entered \in BOOLEAN, mode \in {"Normal", "Grab", "Ungrab"} : Other(X!Crossing(entered, mode))
          /\ \A type \in {"ButtonPress", "ButtonRelease"}, b \in XButtons : Other(X!ButtonEvent(type, b))
      BY Events DEF X11InputOK, Focusing, Keying, X!Crossing, X!ButtonEvent
    <3>5. /\ \A type \in {"FocusIn", "FocusOut"}, mode \in {"Grab", "Ungrab"} : Other([type |-> type, mode |-> mode])
          /\ \A s \in XSizes : Other([type |-> "ConfigureNotify", size |-> s])
          /\ \A type \in {"ClientMessage", "DestroyNotify"} : Other([type |-> type])
      BY DEF Focusing, Keying, Event
    <3> HIDE DEF Other
    <3>d. drag \in BOOLEAN
      BY DEF X11InputOK
    <3>6. CASE X!GrabKeyboard
      BY <3>2, <3>5, <3>6 DEF X!GrabKeyboard, X!Send
    <3>7. CASE X!DragElsewhere
      BY <3>1, <3>2, <3>4, <3>7, <3>d DEF X!DragElsewhere, X!Send
    <3>8. CASE \E p \in {"in", "covered", "out"} : X!MovePointer(p)
      BY <3>1, <3>2, <3>4, <3>8 DEF X!MovePointer, X!Send
    <3>9. CASE \E b \in XButtons : X!ButtonDown(b) \/ X!ButtonUp(b)
      <4>1. PICK b \in XButtons : X!ButtonDown(b) \/ X!ButtonUp(b)
        BY <3>9
      <4>2. CASE X!ButtonDown(b)
        BY <3>2, <3>4, <4>2 DEF X!ButtonDown, X!Send
      <4>3. CASE X!ButtonUp(b)
        <5> DEFINE up == X!ButtonEvent("ButtonRelease", b)
                   left == X!Crossing(FALSE, "Ungrab")
        <5>1. Other(up) /\ Other(left)
          BY <3>4
        <5>2. \/ queue' = queue \o (<<up>> \o <<left>>)
              \/ queue' = queue \o (<<up>> \o <<>>)
          BY <4>3 DEF X!ButtonUp, X!Send
        <5>3. <<up>> \in Seq(Event)
          BY <3>2, <5>1
        <5>4. <<up>> \o <<>> = <<up>>
          BY <5>3, ConcatEmptySeq
        <5> HIDE DEF up, left
        <5> QED BY <3>2, <3>3, <5>1, <5>2, <5>4
      <4> QED BY <4>1, <4>2, <4>3
    <3>10. CASE \E s \in XSizes : X!Configure(s)
      BY <3>2, <3>5, <3>10 DEF X!Configure, X!Send
    <3>11. CASE \E type \in {"ClientMessage", "DestroyNotify"} : X!AskToClose(type)
      BY <3>2, <3>5, <3>11 DEF X!AskToClose, X!Send
    <3> QED BY <1>5, <3>6, <3>7, <3>8, <3>9, <3>10, <3>11
  <2> QED BY <1>u, <2>1, <2>2, XNeutral
<1> QED BY <1>1, <1>2, <1>3, <1>4, <1>5 DEF X!Server

\* What the handlers make of the keys: a repeat's release is passed over when its press
\* is already there.
LEMMA XHandled ==
    ASSUME X11InputOK, X11WindowOK, X!process_event
    PROVE  LET e == Head(queue)
               skipped == e.type = "KeyRelease" /\ X!FollowedByItsPress(e)
           IN  /\ Keying(e) => is_active' = is_active
               /\ Keying(e) /\ skipped => UNCHANGED <<key_status, told>>
               /\ Keying(e) /\ ~skipped /\ e.type = "KeyPress" =>
                      key_status' = key_status \cup {e.key} /\ told'.keys = told.keys \cup {e.key}
               /\ Keying(e) /\ ~skipped /\ e.type = "KeyRelease" =>
                      key_status' = key_status \ {e.key} /\ told'.keys = told.keys \ {e.key}
               /\ Focusing(e) /\ e.type = "FocusIn" =>
                      is_active' = TRUE /\ key_status' = keys /\ told'.keys = told.keys
               /\ Focusing(e) /\ e.type = "FocusOut" =>
                      is_active' = FALSE /\ key_status' = {} /\ told'.keys = told.keys \ key_status
               /\ ~Keying(e) /\ ~Focusing(e) =>
                      UNCHANGED <<key_status, is_active>> /\ told'.keys = told.keys
<1> DEFINE e == Head(queue)
<1> DEFINE skipped == e.type = "KeyRelease" /\ X!FollowedByItsPress(e)
<1>0. \/ X!OnKey(e) \/ X!OnButton(e) \/ X!OnCrossing(e) \/ X!OnConfigure(e) \/ X!OnFocus(e)
      \/ X!OnDestroy(e) \/ X!OnDelete(e)
  BY DEF X!process_event
<1>t. told \in X11Told /\ Keying(e) = (e.type \in {"KeyPress", "KeyRelease"})
  BY DEF X11WindowOK, Keying
<1>f. Focusing(e) = (e.type \in {"FocusIn", "FocusOut"} /\ e.mode = "Normal")
  BY DEF Focusing
<1> HIDE DEF e, skipped
<1> SUFFICES /\ Keying(e) => is_active' = is_active
             /\ Keying(e) /\ skipped => UNCHANGED <<key_status, told>>
             /\ Keying(e) /\ ~skipped /\ e.type = "KeyPress" =>
                    key_status' = key_status \cup {e.key} /\ told'.keys = told.keys \cup {e.key}
             /\ Keying(e) /\ ~skipped /\ e.type = "KeyRelease" =>
                    key_status' = key_status \ {e.key} /\ told'.keys = told.keys \ {e.key}
             /\ Focusing(e) /\ e.type = "FocusIn" =>
                    is_active' = TRUE /\ key_status' = keys /\ told'.keys = told.keys
             /\ Focusing(e) /\ e.type = "FocusOut" =>
                    is_active' = FALSE /\ key_status' = {} /\ told'.keys = told.keys \ key_status
             /\ ~Keying(e) /\ ~Focusing(e) =>
                    UNCHANGED <<key_status, is_active>> /\ told'.keys = told.keys
  BY DEF e, skipped
<1>1. CASE X!OnKey(e)
  BY <1>1, <1>t, <1>f DEF X!OnKey, X!SetKey, X11Told, skipped
<1>2. CASE X!OnFocus(e)
  <2>1. e.type \in {"FocusIn", "FocusOut"}
    BY <1>2 DEF X!OnFocus
  <2>2. CASE e.mode # "Normal"
    BY <1>2, <2>1, <2>2, <1>t, <1>f DEF X!OnFocus
  <2>3. CASE e.mode = "Normal" /\ e.type = "FocusIn"
    BY <1>2, <2>1, <2>3, <1>t, <1>f DEF X!OnFocus, X11Told, X!sync_key_status
  <2>4. CASE e.mode = "Normal" /\ e.type = "FocusOut"
    BY <1>2, <2>1, <2>4, <1>t, <1>f DEF X!OnFocus, X11Told, X!mfb_release_held_keys
  <2> QED BY <2>1, <2>2, <2>3, <2>4
<1>3. CASE X!OnButton(e)
  BY <1>3, <1>t, <1>f DEF X!OnButton, X!SetInside, X11Told
<1>4. CASE X!OnCrossing(e)
  BY <1>4, <1>t, <1>f DEF X!OnCrossing, X!SetInside, X11Told
<1>5. CASE X!OnConfigure(e)
  BY <1>5, <1>t, <1>f DEF X!OnConfigure, X!input, X11Told
<1>6. CASE X!OnDestroy(e) \/ X!OnDelete(e)
  BY <1>6, <1>t, <1>f DEF X!OnDestroy, X!OnDelete, X!input
<1> QED BY <1>0, <1>1, <1>2, <1>3, <1>4, <1>5, <1>6

LEMMA XProcessKeys ==
    ASSUME KeyParameters, X11InputOK, X11WindowOK, XKeysInv, X!process_event
    PROVE  XKeysInv'
<1> DEFINE e == Head(queue)
<1> DEFINE skipped == e.type = "KeyRelease" /\ X!FollowedByItsPress(e)
<1>0. /\ queue # <<>> /\ queue' = Tail(queue) /\ pc' = pc /\ pc = "drain"
      /\ UNCHANGED <<keys, focus, never_focused, grabbed, repeating, elsewhere>>
  BY DEF X!process_event, X!program
<1>1. /\ queue \in Seq(Event) /\ e \in Event
      /\ e.type \in {"KeyPress", "KeyRelease"} => e.key \in XKeys
  <2>1. queue \in Seq(Event) /\ e \in Event
    BY <1>0, TailElements DEF X11InputOK
  <2> QED BY <2>1 DEF Event
<1>b. focus \in BOOLEAN /\ is_active \in BOOLEAN
  BY DEF XKeysInv, XBooleans
<1>2. PICK c \in BOOLEAN : <<e, is_active, c>> \in XFocusStep /\ Leads(Tail(queue), XFocusStep, BOOLEAN, c, focus)
  <2> DEFINE V == BOOLEAN
  <2>1. Leads(queue, XFocusStep, V, is_active, focus) /\ queue # <<>> /\ queue \in Seq(Event)
    BY <1>0, <1>1 DEF XKeysInv, XFocusFollows
  <2> HIDE DEF V, e
  <2>2. \E c \in V : <<Head(queue), is_active, c>> \in XFocusStep /\ Leads(Tail(queue), XFocusStep, V, c, focus)
    BY <2>1, LeadsTail
  <2> QED BY <2>2 DEF V, e
<1>3. /\ Focusing(e) => is_active = (e.type = "FocusOut") /\ c = (e.type = "FocusIn")
      /\ ~Focusing(e) => c = is_active /\ (Keying(e) => is_active)
  BY <1>1, <1>2, <1>b, FocusSteps
<1>k. Focusing(e) => ~Keying(e) /\ e.type \in {"FocusIn", "FocusOut"}
  BY DEF Focusing, Keying
<1>y. Keying(e) => e.type \in {"KeyPress", "KeyRelease"} /\ e.key \in XKeys
  BY <1>1 DEF Keying
<1>h. /\ Keying(e) => is_active' = is_active
      /\ Keying(e) /\ skipped => UNCHANGED <<key_status, told>>
      /\ Keying(e) /\ ~skipped /\ e.type = "KeyPress" =>
             key_status' = key_status \cup {e.key} /\ told'.keys = told.keys \cup {e.key}
      /\ Keying(e) /\ ~skipped /\ e.type = "KeyRelease" =>
             key_status' = key_status \ {e.key} /\ told'.keys = told.keys \ {e.key}
      /\ Focusing(e) /\ e.type = "FocusIn" =>
             is_active' = TRUE /\ key_status' = keys /\ told'.keys = told.keys
      /\ Focusing(e) /\ e.type = "FocusOut" =>
             is_active' = FALSE /\ key_status' = {} /\ told'.keys = told.keys \ key_status
      /\ ~Keying(e) /\ ~Focusing(e) =>
             UNCHANGED <<key_status, is_active>> /\ told'.keys = told.keys
  BY XHandled
<1>s. skipped => Len(queue) > 1 /\ queue[2].type = "KeyPress" /\ queue[2].key = e.key
  BY DEF X!FollowedByItsPress
<1>r. skipped => e.type = "KeyRelease"
  OBVIOUS
<1> HIDE DEF e, skipped
<1>4. is_active' = c
  <2>1. CASE Focusing(e)
    BY <1>3, <1>h, <1>k, <2>1
  <2>2. CASE ~Focusing(e)
    BY <1>3, <1>h, <2>2
  <2> QED BY <2>1, <2>2
<1>5. XFocusFollows'
  BY <1>0, <1>2, <1>4 DEF XFocusFollows
<1>6. XTold'
  <2>1. told.keys \subseteq key_status /\ (~is_active => told.keys = {})
    BY DEF XKeysInv, XTold
  <2>2. CASE Keying(e)
    <3>1. is_active' /\ (skipped \/ e.type = "KeyPress" \/ e.type = "KeyRelease")
      BY <1>3, <1>h, <1>k, <1>y, <2>2
    <3> QED BY <1>h, <2>1, <2>2, <3>1 DEF XTold
  <2>3. CASE Focusing(e)
    <3>1. CASE e.type = "FocusIn"
      BY <1>3, <1>h, <2>1, <2>3, <3>1 DEF XTold
    <3>2. CASE e.type = "FocusOut"
      BY <1>3, <1>h, <2>1, <2>3, <3>2 DEF XTold
    <3> QED BY <1>k, <2>3, <3>1, <3>2
  <2>4. CASE ~Keying(e) /\ ~Focusing(e)
    BY <1>h, <2>1, <2>4 DEF XTold
  <2> QED BY <2>2, <2>3, <2>4
<1>7. ASSUME NEW k \in XKeys, XSeen(k) PROVE XKeyFollows(k)'
  <2>1. Follows(queue, XDeciding(k), XRight(k), XKeyKnown(k))
    BY <1>0, <1>7 DEF XKeysInv, XKeysFollow, XKeyFollows, XOpen
  <2>2. XRight(k)' = XRight(k)
    BY <1>0 DEF XRight
  <2>3. CASE skipped /\ Keying(e) /\ e.key = k
    <3>1. queue[2] \in XDeciding(k)
      <4>1. queue[2] \in Event
        BY <1>1, <1>s, <2>3, LenProperties, ElementOfSeq
      <4> QED BY <1>s, <2>3, <4>1 DEF XDeciding, Keying
    <3>2. Follows(Tail(queue), XDeciding(k), XRight(k), XKeyKnown(k)')
      BY <1>1, <1>s, <2>1, <2>3, <3>1, FollowsSkip
    <3> QED BY <1>0, <2>2, <3>2 DEF XKeyFollows
  <2>4. CASE ~(skipped /\ Keying(e) /\ e.key = k)
    <3>1. ASSUME e \notin XDeciding(k), XKeyKnown(k) PROVE XKeyKnown(k)'
      <4>1. ~Focusing(e) /\ ~(Keying(e) /\ e.key = k)
        BY <1>1, <3>1 DEF XDeciding
      <4>2. k \in key_status' <=> k \in key_status
        BY <1>h, <1>y, <4>1
      <4> QED BY <1>0, <3>1, <4>2 DEF XKeyKnown
    <3>2. ASSUME e \in XDeciding(k), e \in XRight(k) PROVE XKeyKnown(k)'
      <4>1. CASE Focusing(e)
        <5>1. \/ focus /\ e.type = "FocusIn" /\ key_status' = keys
              \/ ~focus /\ ~never_focused /\ e.type = "FocusOut" /\ key_status' = {}
          BY <1>h, <1>k, <3>2, <4>1 DEF XRight
        <5> QED BY <1>0, <5>1 DEF XKeyKnown
      <4>2. CASE ~Focusing(e)
        <5>1. Keying(e) /\ e.key = k /\ ~skipped
          BY <2>4, <3>2, <4>2 DEF XDeciding
        <5>2. focus /\ e.type = (IF k \in keys THEN "KeyPress" ELSE "KeyRelease")
          BY <1>y, <3>2, <5>1 DEF XRight
        <5>3. k \in key_status' <=> k \in keys
          BY <1>h, <5>1, <5>2
        <5> QED BY <1>0, <5>2, <5>3 DEF XKeyKnown
      <4> QED BY <4>1, <4>2
    <3>3. Follows(Tail(queue), XDeciding(k), XRight(k), XKeyKnown(k)')
      <4>1. Head(queue) = e
        BY DEF e
      <4> QED BY <1>0, <1>1, <2>1, <3>1, <3>2, <4>1, FollowsTail
    <3> QED BY <1>0, <2>2, <3>3 DEF XKeyFollows
  <2> QED BY <2>3, <2>4
<1>8. XBooleans' /\ XOpening' /\ XRepeating'
  BY <1>0, <1>2, <1>4 DEF XKeysInv, XBooleans, XOpening, XOpen, XRepeating
<1> QED BY <1>0, <1>5, <1>6, <1>7, <1>8 DEF XKeysInv, XKeysFollow, XSeen

\* Nothing else touches the keys, but for the opening, that takes those already held.
LEMMA XOtherKeys ==
    ASSUME XKeysInv,
           UNCHANGED <<queue, focus, never_focused, keys, repeating, elsewhere, key_status, is_active, told, grabbed>>,
           XOpen' <=> XOpen
    PROVE  XKeysInv'
<1>1. ASSUME NEW k \in XKeys, XKeyFollows(k) PROVE XKeyFollows(k)'
  <2>1. XRight(k)' = XRight(k) /\ (XKeyKnown(k) => XKeyKnown(k)')
    BY DEF XRight, XKeyKnown
  <2> QED BY <1>1, <2>1, FollowsMore DEF XKeyFollows
<1> QED BY <1>1 DEF XKeysInv, XBooleans, XOpening, XRepeating, XTold, XFocusFollows, XKeysFollow, XSeen

LEMMA XOpeningKeys ==
    ASSUME XKeysInv, X!mfb_open_ex
    PROVE  XKeysInv'
<1>1. /\ ~XOpen
      /\ UNCHANGED <<queue, focus, never_focused, keys, repeating, elsewhere, is_active, told, grabbed>>
      /\ \/ key_status' = key_status /\ ~XOpen'
         \/ key_status' = keys /\ XOpen'
  BY DEF X!mfb_open_ex, X!Obtain, X!user, XOpen
<1>2. CASE key_status' = key_status /\ ~XOpen'
  BY <1>1, <1>2, XOtherKeys
<1>3. CASE key_status' = keys /\ XOpen'
  <2>1. queue' = <<>> /\ never_focused' /\ told'.keys = {}
    BY <1>1 DEF XKeysInv, XOpening
  <2>2. ASSUME NEW k \in XKeys PROVE XKeyFollows(k)'
    BY <1>1, <1>3, <2>1, FollowsEmpty DEF XKeyFollows, XKeyKnown
  <2> QED BY <1>1, <1>3, <2>1, <2>2 DEF XKeysInv, XBooleans, XOpening, XRepeating, XTold, XFocusFollows, XKeysFollow
<1> QED BY <1>1, <1>2, <1>3

LEMMA XKeysInit ==
    ASSUME X!Init
    PROVE  XKeysInv
<1>1. /\ queue = <<>> /\ focus = FALSE /\ never_focused = TRUE /\ grabbed = FALSE /\ is_active = FALSE
      /\ repeating = X!NoKey /\ told.keys = {} /\ ~XOpen
  BY DEF X!Init, XOpen
<1>2. XFocusFollows
  BY <1>1, LeadsEmpty DEF XFocusFollows
<1> QED BY <1>1, <1>2 DEF XKeysInv, XBooleans, XOpening, XRepeating, XTold, XKeysFollow

LEMMA XStepKeys ==
    ASSUME KeyParameters, X11Parameters, X11IInv, XKeysInv, [X!Next]_X!vars
    PROVE  XKeysInv'
<1> USE DEF X11IInv
<1>1. CASE X!Server
  BY <1>1, XServerKeys
<1>2. CASE X!process_event
  BY <1>2, XProcessKeys
<1>3. CASE X!mfb_open_ex
  BY <1>3, XOpeningKeys
<1>4. CASE X!Drained \/ X!Pump \/ X!Application \/ \E b \in XSizes \cup {0} : X!mfb_update_ex(b)
  <2>1. UNCHANGED <<X!user, X!input, told>>
    BY <1>4 DEF X!Drained, X!Pump, X!Application, X!mfb_update_ex, X!Call, X!mfb_close, X!mfb_set_viewport
  <2>2. XOpen' <=> XOpen
    <3>1. CASE X!Drained \/ X!Pump
      BY <3>1 DEF X!Drained, X!Pump, X!Leave, XOpen
    <3>2. CASE X!Application
      BY <3>2 DEF X!Application, X!Call, X!mfb_close, X!mfb_set_viewport, X!program, XOpen
    <3>3. ASSUME NEW b \in XSizes \cup {0}, X!mfb_update_ex(b) PROVE XOpen /\ XOpen'
      BY <3>3, X11UpdateKeeps DEF XOpen
    <3> QED BY <1>4, <3>1, <3>2, <3>3
  <2> QED BY <2>1, <2>2, XOtherKeys DEF X!user, X!input
<1>5. CASE UNCHANGED X!vars
  BY <1>5, XOtherKeys DEF X!vars, X!user, X!input, X!program, XOpen
<1> QED BY <1>1, <1>2, <1>3, <1>4, <1>5 DEF X!Next, X!Library

\* What the run checks follows.
LEMMA XKeysHold ==
    ASSUME KeyParameters, XKeysInv, X11InputOK
    PROVE  X!KeysSettle /\ X!ToldKeysAreDown /\ X!NothingHeldUnfocused
<1>1. X!ToldKeysAreDown /\ X!NothingHeldUnfocused
  BY DEF XKeysInv, XTold, X!ToldKeysAreDown, X!NothingHeldUnfocused
<1>2. ASSUME X!Quiet PROVE IF focus \/ never_focused THEN key_status \ elsewhere = keys \ elsewhere
                                                  ELSE key_status = {}
  <2>1. queue = <<>> /\ repeating = X!NoKey /\ XOpen
    BY <1>2 DEF X!Quiet, XOpen
  <2>2. \A k \in XKeys : ((focus \/ never_focused) => k \notin elsewhere /\ k # X!NoKey) => XKeyKnown(k)
    BY <2>1, FollowsEmpty DEF XKeysInv, XKeysFollow, XKeyFollows, XSeen
  <2>3. keys \subseteq XKeys /\ key_status \subseteq XKeys
    BY DEF X11InputOK
  <2> QED BY <2>2, <2>3 DEF XKeyKnown, KeyParameters
<1> QED BY <1>1, <1>2 DEF X!KeysSettle

--------------------------------------------------------------------------------
\* Windows.  The messages of the focus, and those of the keys: one that the window sees and
\* one that only the thread does.
WFocusing(m) == m.type \in {"WM_SETFOCUS", "WM_KILLFOCUS"}
WKeying(m) == m.type \in {"Key", "Silent"}

WFocusStep ==
    {t \in Message \X BOOLEAN \X BOOLEAN :
        IF WFocusing(t[1]) THEN t[2] = (t[1].type = "WM_KILLFOCUS") /\ t[3] = (t[1].type = "WM_SETFOCUS")
        ELSE t[3] = t[2] /\ (WKeying(t[1]) => t[2])}

\* The messages that say whether key k is down, and those that say it right: the silent
\* release of a key whose release may be lost is right for the thread.
WDeciding(k) == {m \in Message : WFocusing(m) \/ (WKeying(m) /\ m.key = k)}
WRight(k) ==
    {m \in Message :
        IF focus THEN \/ m.type = "WM_SETFOCUS"
                      \/ m.type = "Key" /\ (m.pressed <=> k \in keys)
                      \/ m.type = "Silent" /\ k \notin keys /\ k \in W!LostBySystem
        ELSE m.type = "WM_KILLFOCUS"}

\* The table has a key right, or will once no message is left; one may be missing.
WKeyKnown(k) ==
    IF ~focus THEN k \notin key_status
    ELSE IF k \in keys THEN k \in key_status \/ k \in W!MayBeMissing
    ELSE k \in key_status => k \notin thread_keys /\ k \in W!LostBySystem

WKeyFollows(k) == Follows(queue, WDeciding(k), WRight(k), WKeyKnown(k))

\* The thread knows of a key that is held, whether or not the window has the focus, if it was
\* sent its press: only messages of that key tell it, for a change of the focus keeps what
\* the thread knows or takes the truth.
WTelling(k) == {m \in Message : WKeying(m) /\ m.key = k}
WTellsRight(k) == {m \in Message : k \in keys /\ k \notin unseen => m.type = "Key" /\ m.pressed}
WThreadKnows(k) == k \in keys /\ k \notin unseen => k \in thread_keys

WThreadFollows(k) == Follows(queue, WTelling(k), WTellsRight(k), WThreadKnows(k))

PrintScreen == "PRINT_SCREEN"

WKeysRight ==
    LET table == key_status \ {PrintScreen}
    IN  IF focus THEN table \subseteq keys /\ keys \subseteq table \cup W!MayBeMissing \cup {PrintScreen}
        ELSE table = {}

WOpening ==
    pc = "opening" =>
        queue = <<>> /\ ~focus /\ ~is_active /\ told.keys = {} /\ ~settled

WTold == told.keys \subseteq key_status /\ (~is_active => told.keys = {})

WFocusFollows == focus \in BOOLEAN /\ Leads(queue, WFocusStep, BOOLEAN, is_active, focus)

WKeysFollow == \A k \in WKeys \ {PrintScreen} : WKeyFollows(k) /\ WThreadFollows(k)

WKeysInv == WOpening /\ WTold /\ WFocusFollows /\ WKeysFollow /\ (settled => queue = <<>> /\ WKeysRight)

--------------------------------------------------------------------------------
LEMMA WFocusSteps ==
    ASSUME NEW m \in Message, NEW a \in BOOLEAN, NEW b \in BOOLEAN
    PROVE  <<m, a, b>> \in WFocusStep <=>
               IF WFocusing(m) THEN a = (m.type = "WM_KILLFOCUS") /\ b = (m.type = "WM_SETFOCUS")
               ELSE b = a /\ (WKeying(m) => a)
BY DEF WFocusStep

\* Messages of the pointer, of the size and of the close, behind what is waiting.
LEMMA WNeutral ==
    ASSUME NEW q \in Seq(Message), NEW s \in Seq(Message), NEW a, NEW b \in BOOLEAN, NEW k, NEW R, NEW ok,
           \A i \in 1 .. Len(s) : ~WFocusing(s[i]) /\ ~WKeying(s[i])
    PROVE  /\ Leads(q, WFocusStep, BOOLEAN, a, b) => Leads(q \o s, WFocusStep, BOOLEAN, a, b)
           /\ Follows(q, WDeciding(k), R, ok) => Follows(q \o s, WDeciding(k), R, ok)
           /\ Follows(q, WTelling(k), R, ok) => Follows(q \o s, WTelling(k), R, ok)
<1>1. \A i \in 1 .. Len(s) : s[i] \in Message
  BY ElementOfSeq
<1>2. \A i \in 1 .. Len(s) : <<s[i], b, b>> \in WFocusStep
  BY <1>1, WFocusSteps
<1>3. \A i \in 1 .. Len(s) : s[i] \notin WDeciding(k) /\ s[i] \notin WTelling(k)
  BY DEF WDeciding, WTelling
<1>4. ASSUME Leads(q, WFocusStep, BOOLEAN, a, b) PROVE Leads(q \o s, WFocusStep, BOOLEAN, a, b)
  <2> DEFINE V == BOOLEAN
  <2>1. b \in V /\ Leads(q, WFocusStep, V, a, b)
    BY <1>4
  <2> HIDE DEF V
  <2>2. Leads(q \o s, WFocusStep, V, a, b)
    BY <1>2, <2>1, LeadsKept
  <2> QED BY <2>2 DEF V
<1>5. ASSUME Follows(q, WDeciding(k), R, ok) PROVE Follows(q \o s, WDeciding(k), R, ok)
  BY <1>3, <1>5, FollowsKept
<1>6. ASSUME Follows(q, WTelling(k), R, ok) PROVE Follows(q \o s, WTelling(k), R, ok)
  BY <1>3, <1>6, FollowsKept
<1> QED BY <1>4, <1>5, <1>6

LEMMA WPostsNeutral ==
    ASSUME QueueOK, WKeysInv, NEW s \in Seq(Message), queue' = queue \o s, settled' = FALSE,
           \A i \in 1 .. Len(s) : ~WFocusing(s[i]) /\ ~WKeying(s[i]),
           UNCHANGED <<focus, keys, unseen, thread_keys, key_status, is_active, told, pc>>, pc # "opening"
    PROVE  WKeysInv'
<1>1. WFocusFollows'
  <2> DEFINE V == BOOLEAN
  <2>1. focus \in BOOLEAN /\ queue \in Seq(Message) /\ Leads(queue, WFocusStep, BOOLEAN, is_active, focus)
    BY DEF QueueOK, WKeysInv, WFocusFollows
  <2>2. Leads(queue \o s, WFocusStep, BOOLEAN, is_active, focus)
    BY <2>1, WNeutral
  <2> QED BY <2>1, <2>2 DEF WFocusFollows
<1>2. ASSUME NEW k \in WKeys \ {PrintScreen} PROVE WKeyFollows(k)' /\ WThreadFollows(k)'
  <2>1. /\ Follows(queue, WDeciding(k), WRight(k), WKeyKnown(k))
        /\ Follows(queue, WTelling(k), WTellsRight(k), WThreadKnows(k))
        /\ queue \in Seq(Message) /\ focus \in BOOLEAN
    BY DEF QueueOK, WKeysInv, WKeysFollow, WKeyFollows, WThreadFollows, WFocusFollows
  <2>2. /\ Follows(queue \o s, WDeciding(k), WRight(k), WKeyKnown(k))
        /\ Follows(queue \o s, WTelling(k), WTellsRight(k), WThreadKnows(k))
    BY <2>1, WNeutral
  <2>3. WRight(k)' = WRight(k) /\ (WKeyKnown(k) => WKeyKnown(k)')
    BY DEF WRight, WKeyKnown, W!MayBeMissing
  <2>4. WTellsRight(k)' = WTellsRight(k) /\ (WThreadKnows(k) => WThreadKnows(k)')
    BY DEF WTellsRight, WThreadKnows
  <2>5. WKeyFollows(k)'
    BY <2>2, <2>3, FollowsMore DEF WKeyFollows
  <2>6. WThreadFollows(k)'
    BY <2>2, <2>4, FollowsMore DEF WThreadFollows, WTelling
  <2> QED BY <2>5, <2>6
<1> QED BY <1>1, <1>2 DEF WKeysInv, WOpening, WTold, WKeysFollow

\* A key the window or its thread sees.
LEMMA WOneKey ==
    ASSUME QueueOK, WKeysInv, NEW k \in WKeys, NEW m \in Message, queue' = queue \o <<m>>, settled' = FALSE,
           focus, WKeying(m), m.key = k, k # PrintScreen => m \in WRight(k)' /\ m \in WTellsRight(k)',
           \A j \in WKeys : j # k => (j \in keys' <=> j \in keys) /\ (j \in unseen' <=> j \in unseen),
           UNCHANGED <<focus, thread_keys, key_status, is_active, told, pc>>, pc # "opening"
    PROVE  WKeysInv'
<1>q. /\ queue \in Seq(Message) /\ <<m>> \in Seq(Message) /\ ~WFocusing(m)
      /\ \A i \in 1 .. Len(<<m>>) : <<m>>[i] = m
  BY DEF QueueOK, WFocusing, WKeying
<1>1. WFocusFollows'
  <2> DEFINE V == BOOLEAN
  <2>1. <<m, focus, focus'>> \in WFocusStep
    BY <1>q, WFocusSteps DEF WKeysInv, WFocusFollows
  <2>2. focus \in V /\ focus' \in V /\ Leads(queue, WFocusStep, V, is_active, focus)
    BY DEF WKeysInv, WFocusFollows
  <2> HIDE DEF V
  <2>3. Leads(queue \o <<m>>, WFocusStep, V, is_active, focus')
    BY <1>q, <2>1, <2>2, LeadsAppend
  <2> QED BY <2>2, <2>3 DEF WFocusFollows, V
<1>2. ASSUME NEW j \in WKeys \ {PrintScreen} PROVE WKeyFollows(j)' /\ WThreadFollows(j)'
  <2>1. CASE j = k
    <3>1. m \in WDeciding(j) \cap WRight(j)' /\ m \in WTelling(j) \cap WTellsRight(j)'
      BY <2>1 DEF WDeciding, WTelling
    <3>2. Follows(queue \o <<m>>, WDeciding(j), WRight(j)', WKeyKnown(j)')
      BY <1>q, <3>1, FollowsOne
    <3>3. Follows(queue \o <<m>>, WTelling(j), WTellsRight(j)', WThreadKnows(j)')
      BY <1>q, <3>1, FollowsOne
    <3> QED BY <3>2, <3>3 DEF WKeyFollows, WThreadFollows
  <2>2. CASE j # k
    <3>1. /\ Follows(queue, WDeciding(j), WRight(j), WKeyKnown(j))
          /\ Follows(queue, WTelling(j), WTellsRight(j), WThreadKnows(j))
      BY DEF WKeysInv, WKeysFollow, WKeyFollows, WThreadFollows
    <3>2. \A i \in 1 .. Len(<<m>>) : <<m>>[i] \notin WDeciding(j) /\ <<m>>[i] \notin WTelling(j)
      BY <1>q, <2>2 DEF WDeciding, WTelling
    <3>3. Follows(queue \o <<m>>, WDeciding(j), WRight(j), WKeyKnown(j))
      BY <1>q, <3>1, <3>2, FollowsKept
    <3>4. Follows(queue \o <<m>>, WTelling(j), WTellsRight(j), WThreadKnows(j))
      BY <1>q, <3>1, <3>2, FollowsKept
    <3>5. WRight(j)' = WRight(j) /\ (WKeyKnown(j) => WKeyKnown(j)')
      BY <2>2 DEF WRight, WKeyKnown, W!MayBeMissing
    <3>6. WTellsRight(j)' = WTellsRight(j) /\ (WThreadKnows(j) => WThreadKnows(j)')
      BY <2>2 DEF WTellsRight, WThreadKnows
    <3>7. WKeyFollows(j)'
      BY <3>3, <3>5, FollowsMore DEF WKeyFollows
    <3>8. WThreadFollows(j)'
      BY <3>4, <3>6, FollowsMore DEF WThreadFollows
    <3> QED BY <3>7, <3>8
  <2> QED BY <2>1, <2>2
<1> QED BY <1>1, <1>2 DEF WKeysInv, WOpening, WTold, WKeysFollow

\* A key that moves unseen: Print Screen, or any key of a window without the focus.
LEMMA WKeyUnseen ==
    ASSUME WKeysInv, NEW k \in WKeys, queue' = queue, settled' = FALSE, focus => k = PrintScreen,
           \A j \in WKeys : j # k => (j \in keys' <=> j \in keys) /\ (j \in unseen' <=> j \in unseen),
           k # PrintScreen => k \notin keys' \/ k \in unseen',
           UNCHANGED <<focus, thread_keys, key_status, is_active, told, pc>>, pc # "opening"
    PROVE  WKeysInv'
<1>1. ASSUME NEW j \in WKeys \ {PrintScreen} PROVE WKeyFollows(j)' /\ WThreadFollows(j)'
  <2>1. /\ Follows(queue, WDeciding(j), WRight(j), WKeyKnown(j))
        /\ Follows(queue, WTelling(j), WTellsRight(j), WThreadKnows(j))
    BY DEF WKeysInv, WKeysFollow, WKeyFollows, WThreadFollows
  <2>2. WRight(j) \subseteq WRight(j)' /\ (WKeyKnown(j) => WKeyKnown(j)')
    <3>1. CASE focus
      <4>1. j # k
        BY <3>1
      <4> QED BY <4>1 DEF WRight, WKeyKnown, W!MayBeMissing
    <3>2. CASE ~focus
      BY <3>2 DEF WRight, WKeyKnown
    <3> QED BY <3>1, <3>2
  <2>3. WTellsRight(j) \subseteq WTellsRight(j)' /\ (WThreadKnows(j) => WThreadKnows(j)')
    <3>1. CASE j = k
      BY <3>1 DEF WTellsRight, WThreadKnows
    <3>2. CASE j # k
      BY <3>2 DEF WTellsRight, WThreadKnows
    <3> QED BY <3>1, <3>2
  <2>4. WKeyFollows(j)'
    BY <2>1, <2>2, FollowsMore DEF WKeyFollows
  <2>5. WThreadFollows(j)'
    BY <2>1, <2>3, FollowsMore DEF WThreadFollows
  <2> QED BY <2>4, <2>5
<1> QED BY <1>1 DEF WKeysInv, WOpening, WTold, WKeysFollow, WFocusFollows

LEMMA WChangesFocus ==
    ASSUME QueueOK, WKeysInv, W!ChangeFocus, UNCHANGED <<key_status, is_active, told, pc>>
    PROVE  WKeysInv'
<1> DEFINE m == [type |-> IF focus THEN "WM_KILLFOCUS" ELSE "WM_SETFOCUS"]
<1>q. /\ queue \in Seq(Message) /\ m \in Message /\ WFocusing(m)
      /\ queue' = queue \o <<m>> /\ settled' = FALSE
      /\ focus' = ~focus /\ UNCHANGED <<keys, unseen, thread_keys>> /\ pc # "opening"
  BY Messages DEF QueueOK, W!ChangeFocus, W!Post, W!Allows, WFocusing
<1>e. m.type = (IF focus THEN "WM_KILLFOCUS" ELSE "WM_SETFOCUS")
  OBVIOUS
<1> HIDE DEF m
<1>b. focus \in BOOLEAN /\ focus' \in BOOLEAN
  BY <1>q DEF WKeysInv, WFocusFollows
<1>1. WFocusFollows'
  <2> DEFINE V == BOOLEAN
  <2>1. <<m, focus, focus'>> \in WFocusStep
    BY <1>q, <1>b, <1>e, WFocusSteps
  <2>2. focus \in V /\ focus' \in V /\ Leads(queue, WFocusStep, V, is_active, focus)
    BY <1>b DEF WKeysInv, WFocusFollows
  <2> HIDE DEF V
  <2>3. Leads(queue \o <<m>>, WFocusStep, V, is_active, focus')
    BY <1>q, <2>1, <2>2, LeadsAppend
  <2> QED BY <1>q, <2>2, <2>3 DEF WFocusFollows, V
<1>2. ASSUME NEW j \in WKeys \ {PrintScreen} PROVE WKeyFollows(j)' /\ WThreadFollows(j)'
  <2>1. m \in WDeciding(j) \cap WRight(j)'
    BY <1>q, <1>b, <1>e DEF WDeciding, WRight
  <2>2. Follows(queue \o <<m>>, WDeciding(j), WRight(j)', WKeyKnown(j)')
    BY <1>q, <2>1, FollowsOne
  <2>3. <<m>> \in Seq(Message) /\ \A i \in 1 .. Len(<<m>>) : <<m>>[i] \notin WTelling(j)
    BY <1>q DEF WTelling, WFocusing, WKeying
  <2>4. Follows(queue, WTelling(j), WTellsRight(j), WThreadKnows(j))
    BY DEF WKeysInv, WKeysFollow, WThreadFollows
  <2>5. Follows(queue \o <<m>>, WTelling(j), WTellsRight(j), WThreadKnows(j))
    BY <1>q, <2>3, <2>4, FollowsKept
  <2>6. WTellsRight(j)' = WTellsRight(j) /\ (WThreadKnows(j) => WThreadKnows(j)')
    BY <1>q DEF WTellsRight, WThreadKnows
  <2>7. WThreadFollows(j)'
    BY <1>q, <2>5, <2>6, FollowsMore DEF WThreadFollows
  <2> QED BY <1>q, <2>2, <2>7 DEF WKeyFollows
<1> QED BY <1>q, <1>1, <1>2 DEF WKeysInv, WOpening, WTold, WKeysFollow

LEMMA WSystemKeys ==
    ASSUME QueueOK, WinInputOK, WKeysInv, W!System
    PROVE  WKeysInv'
<1>u. UNCHANGED <<key_status, is_active, told, pc>>
  BY DEF W!System, W!input, W!program
<1>t. /\ queue \in Seq(Message) /\ <<>> \in Seq(Message) /\ Len(<<>>) = 0 /\ queue \o <<>> = queue
      /\ \A m \in Message : <<m>> \in Seq(Message) /\ Len(<<m>>) = 1 /\ <<m>>[1] = m
  BY OneMessage, EmptySeq, ConcatEmptySeq DEF QueueOK
<1>b. focus \in BOOLEAN
  BY DEF WKeysInv, WFocusFollows
<1> DEFINE Other(m) == m \in Message /\ ~WFocusing(m) /\ ~WKeying(m)
           Neutral(s) == s \in Seq(Message) /\ \A i \in 1 .. Len(s) : ~WFocusing(s[i]) /\ ~WKeying(s[i])
<1>n. Neutral(<<>>) /\ \A m : Other(m) => Neutral(<<m>>)
  BY <1>t
<1>1. ASSUME NEW k \in WKeys, W!KeyDown(k) PROVE WKeysInv'
  <2>1. /\ \A j \in WKeys : j # k => (j \in keys' <=> j \in keys) /\ (j \in unseen' <=> j \in unseen)
        /\ ~focus => k \in unseen'
        /\ k \in keys' /\ UNCHANGED <<focus, thread_keys>> /\ pc # "opening" /\ settled' = FALSE
        /\ queue' = queue \o (IF focus /\ k # PrintScreen THEN <<W!Key(k, TRUE)>> ELSE <<>>)
    BY <1>1 DEF W!KeyDown, W!Allows, W!Post, PrintScreen
  <2>2. CASE focus /\ k # PrintScreen
    <3> DEFINE m == W!Key(k, TRUE)
    <3>1. m \in Message /\ m.type = "Key" /\ m.key = k /\ m.pressed = TRUE
      BY Messages DEF W!Key
    <3> HIDE DEF m
    <3>2. WKeying(m) /\ m \in WRight(k)' /\ m \in WTellsRight(k)'
      BY <2>1, <2>2, <3>1 DEF WKeying, WRight, WTellsRight
    <3>3. queue' = queue \o <<m>>
      BY <2>1, <2>2 DEF m
    <3> QED BY <1>u, <2>1, <2>2, <3>1, <3>2, <3>3, WOneKey
  <2>3. CASE ~(focus /\ k # PrintScreen)
    BY <1>u, <1>t, <2>1, <2>3, WKeyUnseen
  <2> QED BY <2>2, <2>3
<1>2. ASSUME NEW k \in WKeys, W!KeyUp(k) PROVE WKeysInv'
  <2>1. /\ \A j \in WKeys : j # k => (j \in keys' <=> j \in keys) /\ (j \in unseen' <=> j \in unseen)
        /\ k \notin keys' /\ UNCHANGED <<focus, thread_keys>> /\ pc # "opening" /\ settled' = FALSE
        /\ \/ focus /\ queue' = queue \o <<W!Key(k, FALSE)>>
           \/ focus /\ k \in W!LostBySystem /\ queue' = queue \o <<W!Silent(k)>>
           \/ ~focus /\ queue' = queue \o <<>>
    BY <1>2 DEF W!KeyUp, W!Allows, W!Post, W!LostBySystem
  <2>2. CASE focus /\ queue' = queue \o <<W!Key(k, FALSE)>>
    <3> DEFINE m == W!Key(k, FALSE)
    <3>1. m \in Message /\ m.type = "Key" /\ m.key = k /\ m.pressed = FALSE
      BY Messages DEF W!Key
    <3> HIDE DEF m
    <3>2. WKeying(m) /\ m \in WRight(k)' /\ m \in WTellsRight(k)'
      BY <2>1, <2>2, <3>1 DEF WKeying, WRight, WTellsRight
    <3>3. queue' = queue \o <<m>>
      BY <2>2 DEF m
    <3> QED BY <1>u, <2>1, <2>2, <3>1, <3>2, <3>3, WOneKey
  <2>3. CASE focus /\ k \in W!LostBySystem /\ queue' = queue \o <<W!Silent(k)>>
    <3> DEFINE m == W!Silent(k)
    <3>1. m \in Message /\ m.type = "Silent" /\ m.key = k
      BY Messages DEF W!Silent
    <3> HIDE DEF m
    <3>2. WKeying(m) /\ m \in WRight(k)' /\ m \in WTellsRight(k)'
      BY <2>1, <2>3, <3>1 DEF WKeying, WRight, WTellsRight
    <3>3. queue' = queue \o <<m>>
      BY <2>3 DEF m
    <3> QED BY <1>u, <2>1, <2>3, <3>1, <3>2, <3>3, WOneKey
  <2>4. CASE ~focus /\ queue' = queue \o <<>>
    BY <1>u, <1>t, <2>1, <2>4, WKeyUnseen
  <2> QED BY <2>1, <2>2, <2>3, <2>4
<1>3. CASE W!ChangeFocus
  BY <1>3, <1>u, WChangesFocus
<1>4. CASE \/ W!TakeCapture \/ \E p \in {"in", "covered", "out"} : W!MovePointer(p)
           \/ \E b \in WButtons : W!ButtonDown(b) \/ W!ButtonUp(b)
           \/ \E s \in WSizes \cup {0} : W!Resize("WM_SIZE", s) \/ (s > 0 /\ W!Resize("WM_DPICHANGED", s))
           \/ W!Resize("SIZE_MINIMIZED", 0)
           \/ \E type \in {"WM_CLOSE", "WM_DESTROY", "WM_PAINT"} : W!Ask(type)
  <2>1. UNCHANGED <<focus, keys, unseen, thread_keys>> /\ pc # "opening" /\ settled' = FALSE
    BY <1>4 DEF W!TakeCapture, W!MovePointer, W!ButtonDown, W!ButtonUp, W!Resize, W!Ask, W!Allows, W!Post
  <2>m. /\ \A type \in {"Down", "Up"}, b \in WButtons : Other(W!Mouse(type, b))
        /\ \A p \in {"in", "covered", "out"} : Other([type |-> "WM_MOUSEMOVE", at |-> p])
        /\ Other(W!Leave) /\ Other([type |-> "WM_CAPTURECHANGED"])
        /\ \A type \in {"WM_SIZE", "WM_DPICHANGED", "SIZE_MINIMIZED"}, s \in WSizes \cup {0} :
               Other([type |-> type, size |-> s])
        /\ \A type \in {"WM_CLOSE", "WM_DESTROY", "WM_PAINT"} : Other([type |-> type])
    BY Messages DEF WinInputOK, WFocusing, WKeying, W!Mouse, W!Leave
  <2> HIDE DEF Other, Neutral
  <2>2. \E s : Neutral(s) /\ queue' = queue \o s
    <3>1. CASE W!TakeCapture
      BY <1>n, <2>m, <3>1 DEF W!TakeCapture, W!Post
    <3>2. CASE \E p \in {"in", "covered", "out"} : W!MovePointer(p)
      <4>1. PICK p \in {"in", "covered", "out"} : W!MovePointer(p)
        BY <3>2
      <4> DEFINE left == IF tracking /\ p # "in" THEN <<W!Leave>> ELSE <<>>
                 moved == IF capture \/ p = "in" THEN <<[type |-> "WM_MOUSEMOVE", at |-> p]>> ELSE <<>>
      <4>2. Neutral(left) /\ Neutral(moved)
        BY <1>n, <2>m
      <4>3. queue' = queue \o (left \o moved)
        BY <4>1 DEF W!MovePointer, W!Post
      <4> HIDE DEF left, moved
      <4>4. Neutral(left \o moved)
        <5>1. /\ left \o moved \in Seq(Message) /\ Len(left \o moved) = Len(left) + Len(moved)
              /\ Len(left) \in Nat /\ Len(moved) \in Nat
              /\ \A i \in 1 .. Len(left) : (left \o moved)[i] = left[i]
              /\ \A i \in 1 .. Len(moved) : (left \o moved)[Len(left) + i] = moved[i]
          BY <4>2, ConcatElements DEF Neutral
        <5>2. ASSUME NEW i \in 1 .. Len(left \o moved)
              PROVE  ~WFocusing((left \o moved)[i]) /\ ~WKeying((left \o moved)[i])
          <6>1. CASE i <= Len(left)
            <7>1. i \in 1 .. Len(left)
              BY <5>1, <6>1
            <7> QED BY <4>2, <5>1, <7>1 DEF Neutral
          <6>2. CASE ~(i <= Len(left))
            <7>1. i - Len(left) \in 1 .. Len(moved) /\ Len(left) + (i - Len(left)) = i
              BY <5>1, <6>2
            <7> QED BY <4>2, <5>1, <7>1 DEF Neutral
          <6> QED BY <6>1, <6>2
        <5> QED BY <5>1, <5>2 DEF Neutral
      <4> QED BY <4>3, <4>4
    <3>3. CASE \E b \in WButtons : W!ButtonDown(b) \/ W!ButtonUp(b)
      BY <1>n, <2>m, <3>3 DEF W!ButtonDown, W!ButtonUp, W!Post
    <3>4. CASE \/ \E s \in WSizes \cup {0} : W!Resize("WM_SIZE", s) \/ (s > 0 /\ W!Resize("WM_DPICHANGED", s))
               \/ W!Resize("SIZE_MINIMIZED", 0)
      BY <1>n, <2>m, <3>4 DEF W!Resize, W!Post
    <3>5. CASE \E type \in {"WM_CLOSE", "WM_DESTROY", "WM_PAINT"} : W!Ask(type)
      BY <1>n, <2>m, <3>5 DEF W!Ask, W!Post
    <3> QED BY <1>4, <3>1, <3>2, <3>3, <3>4, <3>5
  <2> QED BY <1>u, <2>1, <2>2, WPostsNeutral DEF Neutral
<1> QED BY <1>1, <1>2, <1>3, <1>4 DEF W!System

\* What the window procedure makes of the keys, and what it posts: a leave or nothing.
WHandled(m) ==
    /\ m.type = "Key" /\ m.pressed =>
           /\ is_active' = is_active /\ key_status' = key_status \cup {m.key}
           /\ thread_keys' = thread_keys \cup {m.key} /\ told'.keys = told.keys \cup {m.key}
    /\ m.type = "Key" /\ ~m.pressed =>
           /\ is_active' = is_active /\ key_status' = key_status \ {m.key}
           /\ thread_keys' = thread_keys \ {m.key}
           /\ told'.keys = told.keys \ {m.key} \/ (told'.keys = told.keys /\ m.key \notin key_status)
    /\ m.type = "Silent" =>
           UNCHANGED <<is_active, key_status, told>> /\ thread_keys' = thread_keys \ {m.key}
    /\ m.type = "WM_SETFOCUS" =>
           /\ is_active' = TRUE /\ key_status' = keys /\ told'.keys = told.keys
           /\ thread_keys' \in {thread_keys, keys}
    /\ m.type = "WM_KILLFOCUS" =>
           /\ is_active' = FALSE /\ key_status' = {} /\ told'.keys = told.keys \ key_status
           /\ thread_keys' = thread_keys
    /\ ~WKeying(m) /\ ~WFocusing(m) =>
           UNCHANGED <<key_status, thread_keys, is_active>> /\ told'.keys = told.keys
    /\ queue' \in {Tail(queue), Tail(queue) \o <<W!Leave>>}

LEMMA WProcHandles ==
    ASSUME WinParameters, QueueOK, WinWindowOK, W!WndProc
    PROVE  WHandled(Head(queue))
<1> DEFINE m == Head(queue)
<1>0. W!OnKey(m) \/ W!OnSilent(m) \/ W!OnPointer(m) \/ W!OnFocus(m) \/ W!OnWindow(m)
  BY DEF W!WndProc
<1>q. Tail(queue) \in Seq(Message) /\ Tail(queue) \o <<>> = Tail(queue) /\ m \in Message
  BY HeadIsTyped, ConcatEmptySeq DEF W!WndProc
<1>k. m.type = "Key" => m.pressed \in BOOLEAN
  BY <1>q DEF Message
<1> HIDE DEF m
<1> SUFFICES WHandled(m)
  BY DEF m
<1>t. told \in WinTold
  BY DEF WinWindowOK
<1>1. CASE W!OnKey(m)
  BY <1>1, <1>t, <1>k DEF WHandled, W!OnKey, W!SetKeys, WinTold, WKeying, WFocusing
<1>2. CASE W!OnSilent(m)
  BY <1>2, <1>t DEF WHandled, W!OnSilent, W!SetKeys, WKeying, WFocusing
<1>3. CASE W!OnFocus(m)
  <2>1. CASE m.type = "WM_SETFOCUS"
    BY <1>3, <2>1, <1>t DEF WHandled, W!OnFocus, W!OnSetFocus, W!OnKillFocus, W!TakeKeys, W!SetKeys,
                            W!sync_key_status, WinTold, WKeying, WFocusing
  <2>2. CASE m.type = "WM_KILLFOCUS"
    BY <1>3, <2>2, <1>t DEF WHandled, W!OnFocus, W!OnSetFocus, W!OnKillFocus, W!SetKeys, W!mfb_release_held_keys,
                            WinTold, WKeying, WFocusing
  <2> QED BY <1>3, <2>1, <2>2 DEF W!OnFocus, W!OnSetFocus, W!OnKillFocus
<1>4. CASE W!OnWindow(m)
  <2>1. /\ m.type \in {"WM_SIZE", "WM_DPICHANGED", "SIZE_MINIMIZED", "WM_CLOSE", "WM_DESTROY", "WM_PAINT"}
        /\ UNCHANGED <<key_status, thread_keys, is_active>> /\ queue' = Tail(queue)
    BY <1>4 DEF W!OnWindow, W!OnSize, W!OnClose, W!OnPaint
  <2>2. told'.keys = told.keys
    BY <1>4, <1>t DEF W!OnWindow, W!OnSize, W!OnClose, W!OnPaint, WinTold
  <2> QED BY <2>1, <2>2 DEF WHandled, WKeying, WFocusing
<1>5. CASE W!OnPointer(m)
  <2>1. /\ m.type \in {"Down", "Up", "WM_CAPTURECHANGED", "WM_MOUSEMOVE", "WM_MOUSELEAVE"}
        /\ UNCHANGED <<key_status, thread_keys, is_active>>
    BY <1>5 DEF W!OnPointer, W!OnButtonDown, W!OnButtonUp, W!OnCaptureChanged, W!OnMove, W!OnLeave
  <2>2. told'.keys = told.keys
    BY <1>5, <1>t DEF W!OnPointer, WinTold
  <2>3. queue' \in {Tail(queue), Tail(queue) \o <<W!Leave>>}
    <3> DEFINE Handed == queue' \in {Tail(queue), Tail(queue) \o <<W!Leave>>}
    <3>1. \A armed : W!track_mouse_leave(armed) => Handed
      BY <1>q DEF W!track_mouse_leave, W!NoPost
    <3>2. W!OnButtonDown(m) \/ W!OnLeave(m) => Handed
      BY DEF W!OnButtonDown, W!OnLeave
    <3>3. W!OnMove(m) => Handed
      <4>1. W!OnMove(m) => queue' = Tail(queue) \/ W!track_mouse_leave(TRUE)
        BY DEF W!OnMove
      <4> QED BY <3>1, <4>1
    <3>4. W!OnButtonUp(m) \/ W!OnCaptureChanged(m) => Handed
      <4>1. \A points : W!settle_mouse_inside(points) => Handed
        BY <3>1 DEF W!settle_mouse_inside
      <4>2. W!OnButtonUp(m) \/ W!OnCaptureChanged(m) =>
                queue' = Tail(queue) \/ \E points : W!settle_mouse_inside(points)
        BY DEF W!OnButtonUp, W!OnCaptureChanged
      <4> QED BY <4>1, <4>2
    <3> QED BY <1>5, <3>1, <3>2, <3>3, <3>4 DEF W!OnPointer
  <2> QED BY <2>1, <2>2, <2>3 DEF WHandled, WKeying, WFocusing
<1> QED BY <1>0, <1>1, <1>2, <1>3, <1>4, <1>5

LEMMA WProcKeys ==
    ASSUME WinParameters, QueueOK, WinInputOK, WinWindowOK, WKeysInv, W!WndProc
    PROVE  WKeysInv'
<1> DEFINE m == Head(queue)
<1>0. queue # <<>> /\ pc' = pc /\ pc = "drain" /\ UNCHANGED <<keys, focus, unseen, settled>>
  BY DEF W!WndProc, W!program
<1>1. /\ queue \in Seq(Message) /\ Tail(queue) \in Seq(Message) /\ m \in Message
      /\ WKeying(m) => m.key \in WKeys
  <2>1. queue \in Seq(Message) /\ Tail(queue) \in Seq(Message) /\ m \in Message
    BY <1>0, HeadIsTyped DEF QueueOK
  <2> QED BY <2>1 DEF Message, WKeying
<1>h. WHandled(m)
  BY WProcHandles
<1>b. focus \in BOOLEAN /\ is_active \in BOOLEAN
  BY DEF WKeysInv, WFocusFollows, WinInputOK
<1>c. (WKeying(m) <=> m.type \in {"Key", "Silent"}) /\ (WFocusing(m) <=> m.type \in {"WM_SETFOCUS", "WM_KILLFOCUS"})
  BY DEF WKeying, WFocusing
<1>d. WKeying(m) => ~WFocusing(m)
  BY <1>c
<1>2. PICK c \in BOOLEAN : <<m, is_active, c>> \in WFocusStep /\ Leads(Tail(queue), WFocusStep, BOOLEAN, c, focus)
  <2> DEFINE V == BOOLEAN
  <2>1. Leads(queue, WFocusStep, V, is_active, focus) /\ queue # <<>> /\ queue \in Seq(Message)
    BY <1>0, <1>1 DEF WKeysInv, WFocusFollows
  <2> HIDE DEF V, m
  <2>2. \E c \in V : <<Head(queue), is_active, c>> \in WFocusStep /\ Leads(Tail(queue), WFocusStep, V, c, focus)
    BY <2>1, LeadsTail
  <2> QED BY <2>2 DEF V, m
<1> HIDE DEF m
<1>3. /\ WFocusing(m) => is_active = (m.type = "WM_KILLFOCUS") /\ c = (m.type = "WM_SETFOCUS")
      /\ ~WFocusing(m) => c = is_active /\ (WKeying(m) => is_active)
  BY <1>1, <1>2, <1>b, WFocusSteps
<1>4. is_active' = c
  <2>1. CASE WFocusing(m)
    BY <1>3, <1>h, <1>c, <2>1 DEF WHandled
  <2>2. CASE WKeying(m)
    <3>1. is_active' = is_active
      <4>1. CASE m.type = "Key"
        BY <1>h, <4>1 DEF WHandled
      <4>2. CASE m.type = "Silent"
        BY <1>h, <4>2 DEF WHandled
      <4> QED BY <1>c, <2>2, <4>1, <4>2
    <3> QED BY <1>3, <1>d, <2>2, <3>1
  <2>3. CASE ~WKeying(m) /\ ~WFocusing(m)
    BY <1>3, <1>h, <2>3 DEF WHandled
  <2> QED BY <2>1, <2>2, <2>3
<1>n. \E s \in Seq(Message) : queue' = Tail(queue) \o s /\ \A i \in 1 .. Len(s) : ~WFocusing(s[i]) /\ ~WKeying(s[i])
  <2>1. W!Leave \in Message /\ ~WFocusing(W!Leave) /\ ~WKeying(W!Leave)
    BY Messages DEF W!Leave, WFocusing, WKeying
  <2>2. /\ <<>> \in Seq(Message) /\ Len(<<>>) = 0 /\ Tail(queue) \o <<>> = Tail(queue)
        /\ <<W!Leave>> \in Seq(Message) /\ Len(<<W!Leave>>) = 1 /\ <<W!Leave>>[1] = W!Leave
    BY <1>1, <2>1, OneMessage, EmptySeq, ConcatEmptySeq
  <2>3. queue' = Tail(queue) \/ queue' = Tail(queue) \o <<W!Leave>>
    BY <1>h DEF WHandled
  <2>4. CASE queue' = Tail(queue)
    <3>1. queue' = Tail(queue) \o <<>> /\ <<>> \in Seq(Message)
      BY <2>2, <2>4
    <3>2. \A i \in 1 .. Len(<<>>) : FALSE
      BY <2>2
    <3> QED BY <3>1, <3>2
  <2>5. CASE queue' = Tail(queue) \o <<W!Leave>>
    <3>1. \A i \in 1 .. Len(<<W!Leave>>) : <<W!Leave>>[i] = W!Leave
      BY <2>2
    <3> QED BY <2>1, <2>2, <2>5, <3>1
  <2> QED BY <2>3, <2>4, <2>5
<1>5. WFocusFollows'
  <2>1. Leads(Tail(queue), WFocusStep, BOOLEAN, is_active', focus) /\ focus' = focus
    BY <1>0, <1>2, <1>4
  <2>2. Leads(queue', WFocusStep, BOOLEAN, is_active', focus)
    BY <1>1, <1>b, <1>n, <2>1, WNeutral
  <2> QED BY <1>b, <2>1, <2>2 DEF WFocusFollows
<1>t. told.keys \subseteq key_status /\ (~is_active => told.keys = {})
  BY DEF WKeysInv, WTold
<1>6. WTold'
  <2>1. CASE WKeying(m)
    <3>1. is_active'
      BY <1>3, <1>4, <1>d, <2>1
    <3>2. told'.keys \subseteq key_status'
      <4>1. CASE m.type = "Key" /\ m.pressed
        BY <1>h, <1>t, <4>1 DEF WHandled
      <4>2. CASE m.type = "Key" /\ ~m.pressed
        BY <1>h, <1>t, <4>2 DEF WHandled
      <4>3. CASE m.type = "Silent"
        BY <1>h, <1>t, <4>3 DEF WHandled
      <4> QED BY <1>c, <2>1, <4>1, <4>2, <4>3
    <3> QED BY <3>1, <3>2 DEF WTold
  <2>2. CASE m.type = "WM_SETFOCUS"
    <3>1. WFocusing(m)
      BY <1>c, <2>2
    <3>2. told'.keys = {} /\ is_active'
      BY <1>3, <1>h, <1>t, <2>2, <3>1 DEF WHandled
    <3> QED BY <3>2 DEF WTold
  <2>3. CASE m.type = "WM_KILLFOCUS"
    <3>1. told'.keys = {}
      BY <1>h, <1>t, <2>3 DEF WHandled
    <3> QED BY <3>1 DEF WTold
  <2>4. CASE ~WKeying(m) /\ ~WFocusing(m)
    BY <1>h, <1>t, <2>4 DEF WTold, WHandled
  <2> QED BY <1>c, <2>1, <2>2, <2>3, <2>4
<1>7. ASSUME NEW k \in WKeys \ {PrintScreen} PROVE WKeyFollows(k)'
  <2>1. Follows(queue, WDeciding(k), WRight(k), WKeyKnown(k))
    BY DEF WKeysInv, WKeysFollow, WKeyFollows
  <2>2. WRight(k)' = WRight(k)
    BY <1>0 DEF WRight
  <2>3. ASSUME m \notin WDeciding(k), WKeyKnown(k) PROVE WKeyKnown(k)'
    <3>1. ~WFocusing(m) /\ ~(WKeying(m) /\ m.key = k)
      BY <1>1, <2>3 DEF WDeciding
    <3>2. (k \in key_status' <=> k \in key_status) /\ (k \in thread_keys' <=> k \in thread_keys)
      <4>1. CASE ~WKeying(m)
        BY <1>h, <3>1, <4>1 DEF WHandled
      <4>2. CASE m.type = "Key" /\ m.pressed
        BY <1>c, <1>h, <3>1, <4>2 DEF WHandled
      <4>3. CASE m.type = "Key" /\ ~m.pressed
        BY <1>c, <1>h, <3>1, <4>3 DEF WHandled
      <4>4. CASE m.type = "Silent"
        BY <1>c, <1>h, <3>1, <4>4 DEF WHandled
      <4> QED BY <1>c, <4>1, <4>2, <4>3, <4>4
    <3> QED BY <1>0, <2>3, <3>2 DEF WKeyKnown, W!MayBeMissing
  <2>4. ASSUME m \in WDeciding(k), m \in WRight(k) PROVE WKeyKnown(k)'
    <3>1. CASE WFocusing(m)
      <4>1. \/ focus /\ m.type = "WM_SETFOCUS" /\ key_status' = keys
            \/ ~focus /\ m.type = "WM_KILLFOCUS" /\ key_status' = {}
        <5>1. CASE focus
          BY <1>c, <1>h, <2>4, <3>1, <5>1 DEF WRight, WHandled
        <5>2. CASE ~focus
          BY <1>h, <2>4, <5>2 DEF WRight, WHandled
        <5> QED BY <5>1, <5>2
      <4> QED BY <1>0, <4>1 DEF WKeyKnown
    <3>2. CASE ~WFocusing(m)
      <4>1. WKeying(m) /\ m.key = k /\ focus
        BY <1>c, <2>4, <3>2 DEF WDeciding, WRight
      <4>2. CASE m.type = "Key" /\ m.pressed
        <5>1. k \in keys
          BY <1>c, <2>4, <3>2, <4>1, <4>2 DEF WRight
        <5> QED BY <1>0, <1>h, <4>1, <4>2, <5>1 DEF WKeyKnown, WHandled
      <4>3. CASE m.type = "Key" /\ ~m.pressed
        <5>1. k \notin keys
          BY <1>c, <2>4, <3>2, <4>1, <4>3 DEF WRight
        <5> QED BY <1>0, <1>h, <4>1, <4>3, <5>1 DEF WKeyKnown, WHandled
      <4>4. CASE m.type = "Silent"
        <5>1. k \notin keys /\ k \in W!LostBySystem
          BY <1>c, <2>4, <3>2, <4>1, <4>4 DEF WRight
        <5>2. k \notin thread_keys'
          BY <1>h, <4>1, <4>4 DEF WHandled
        <5> QED BY <1>0, <4>1, <5>1, <5>2 DEF WKeyKnown
      <4> QED BY <1>c, <4>1, <4>2, <4>3, <4>4
    <3> QED BY <3>1, <3>2
  <2>5. Follows(Tail(queue), WDeciding(k), WRight(k), WKeyKnown(k)')
    <3>1. Head(queue) = m
      BY DEF m
    <3> QED BY <1>0, <1>1, <2>1, <2>3, <2>4, <3>1, FollowsTail
  <2>6. Follows(queue', WDeciding(k), WRight(k), WKeyKnown(k)')
    BY <1>1, <1>b, <1>n, <2>5, WNeutral
  <2> QED BY <2>2, <2>6 DEF WKeyFollows
<1>9. ASSUME NEW k \in WKeys \ {PrintScreen} PROVE WThreadFollows(k)'
  <2>1. Follows(queue, WTelling(k), WTellsRight(k), WThreadKnows(k))
    BY DEF WKeysInv, WKeysFollow, WThreadFollows
  <2>2. WTellsRight(k)' = WTellsRight(k)
    BY <1>0 DEF WTellsRight
  <2>3. ASSUME m \notin WTelling(k), WThreadKnows(k) PROVE WThreadKnows(k)'
    <3>1. ~(WKeying(m) /\ m.key = k)
      BY <1>1, <2>3 DEF WTelling
    <3>2. k \in thread_keys /\ k \in keys => k \in thread_keys'
      <4>1. CASE ~WKeying(m)
        <5>1. CASE WFocusing(m)
          BY <1>c, <1>h, <5>1 DEF WHandled
        <5>2. CASE ~WFocusing(m)
          BY <1>h, <4>1, <5>2 DEF WHandled
        <5> QED BY <5>1, <5>2
      <4>2. CASE m.type = "Key" /\ m.pressed
        BY <1>c, <1>h, <3>1, <4>2 DEF WHandled
      <4>3. CASE m.type = "Key" /\ ~m.pressed
        BY <1>c, <1>h, <3>1, <4>3 DEF WHandled
      <4>4. CASE m.type = "Silent"
        BY <1>c, <1>h, <3>1, <4>4 DEF WHandled
      <4> QED BY <1>c, <4>1, <4>2, <4>3, <4>4
    <3> QED BY <1>0, <2>3, <3>2 DEF WThreadKnows
  <2>4. ASSUME m \in WTelling(k), m \in WTellsRight(k) PROVE WThreadKnows(k)'
    <3>1. CASE k \in keys /\ k \notin unseen
      <4>1. m.type = "Key" /\ m.pressed /\ m.key = k
        BY <2>4, <3>1 DEF WTelling, WTellsRight
      <4>2. k \in thread_keys'
        BY <1>h, <4>1 DEF WHandled
      <4> QED BY <4>2 DEF WThreadKnows
    <3>2. CASE ~(k \in keys /\ k \notin unseen)
      BY <1>0, <3>2 DEF WThreadKnows
    <3> QED BY <3>1, <3>2
  <2>5. Follows(Tail(queue), WTelling(k), WTellsRight(k), WThreadKnows(k)')
    <3>1. Head(queue) = m
      BY DEF m
    <3> QED BY <1>0, <1>1, <2>1, <2>3, <2>4, <3>1, FollowsTail
  <2>6. Follows(queue', WTelling(k), WTellsRight(k), WThreadKnows(k)')
    BY <1>1, <1>b, <1>n, <2>5, WNeutral
  <2> QED BY <2>2, <2>6 DEF WThreadFollows
<1>8. ~settled
  BY <1>0 DEF WKeysInv
<1> QED BY <1>0, <1>5, <1>6, <1>7, <1>8, <1>9 DEF WKeysInv, WOpening, WKeysFollow

\* With no message left the thread has every key right, and the keys whose release the
\* system kept for itself come up.
LEMMA WDrainedKeys ==
    ASSUME WinInputOK, WinWindowOK, WKeysInv, W!Drained
    PROVE  WKeysInv'
<1>1. /\ pc = "drain" /\ pc' # "opening" /\ queue = <<>> /\ settled' = TRUE
      /\ UNCHANGED <<queue, keys, focus, unseen, thread_keys, is_active>>
      /\ W!release_key_lost_by_system
  BY DEF W!Drained, W!Others, W!End
<1>2. focus \in BOOLEAN /\ is_active = focus
  <2> DEFINE V == BOOLEAN
  <2>1. focus \in V /\ is_active \in V /\ Leads(<<>>, WFocusStep, V, is_active, focus)
    BY <1>1 DEF WKeysInv, WFocusFollows, WinInputOK
  <2> HIDE DEF V
  <2>2. is_active = focus
    BY <2>1, LeadsEmpty
  <2> QED BY <2>1, <2>2 DEF V
<1>3. \A k \in WKeys \ {PrintScreen} : WKeyKnown(k) /\ WThreadKnows(k)
  BY <1>1, FollowsEmpty DEF WKeysInv, WKeysFollow, WKeyFollows, WThreadFollows
<1>a. \A k \in WKeys \ {PrintScreen} : WThreadKnows(k)'
  BY <1>1, <1>3 DEF WThreadKnows
<1>t. told.keys \subseteq key_status /\ (~is_active => told.keys = {}) /\ told \in WinTold
  BY DEF WKeysInv, WTold, WinWindowOK
<1>4. CASE ~is_active
  <2>1. UNCHANGED <<key_status, told>>
    BY <1>1, <1>4 DEF W!release_key_lost_by_system
  <2>2. \A k \in WKeys \ {PrintScreen} : WKeyKnown(k)' /\ k \notin key_status
    BY <1>1, <1>2, <1>3, <1>4, <2>1 DEF WKeyKnown
  <2>3. WKeysFollow'
    BY <1>1, <1>a, <2>2, FollowsEmpty DEF WKeysFollow, WKeyFollows, WThreadFollows
  <2>4. WKeysRight'
    BY <1>1, <1>2, <1>4, <2>1, <2>2 DEF WKeysRight, WinInputOK
  <2> QED BY <1>1, <1>t, <2>1, <2>3, <2>4 DEF WKeysInv, WOpening, WTold, WFocusFollows
<1>5. CASE is_active
  <2> DEFINE up == {k \in W!LostBySystem \cap key_status : k \notin thread_keys}
  <2>1. key_status' = key_status \ up /\ told' = [told EXCEPT !.keys = told.keys \ up]
    BY <1>1, <1>5 DEF W!release_key_lost_by_system
  <2>2. ASSUME NEW k \in WKeys \ {PrintScreen}
        PROVE  /\ k \in key_status' => k \in keys
               /\ k \in keys => k \in key_status' \/ k \in W!MayBeMissing
               /\ WKeyKnown(k)'
    <3>1. /\ WKeyKnown(k) /\ WThreadKnows(k) /\ focus /\ focus'
          /\ keys' = keys /\ thread_keys' = thread_keys /\ W!MayBeMissing' = W!MayBeMissing
      BY <1>1, <1>2, <1>3, <1>5 DEF W!MayBeMissing
    <3>2. CASE k \in keys
      <4>1. k \in key_status' \/ k \in W!MayBeMissing
        BY <2>1, <3>1, <3>2 DEF WKeyKnown, WThreadKnows, W!MayBeMissing
      <4> QED BY <3>1, <3>2, <4>1 DEF WKeyKnown
    <3>3. CASE k \notin keys
      <4>1. k \notin key_status'
        BY <2>1, <3>1, <3>3 DEF WKeyKnown
      <4> QED BY <3>1, <3>3, <4>1 DEF WKeyKnown
    <3> QED BY <3>2, <3>3
  <2>3. WKeysFollow'
    BY <1>1, <1>a, <2>2, FollowsEmpty DEF WKeysFollow, WKeyFollows, WThreadFollows
  <2>4. WKeysRight'
    <3>1. key_status' \subseteq WKeys /\ keys \subseteq WKeys /\ focus'
      BY <1>1, <1>2, <1>5, <2>1 DEF WinInputOK
    <3> QED BY <1>1, <2>2, <3>1 DEF WKeysRight, W!MayBeMissing
  <2>5. WTold'
    <3>1. told'.keys = told.keys \ up
      BY <1>t, <2>1 DEF WinTold
    <3> QED BY <1>1, <1>5, <1>t, <2>1, <3>1 DEF WTold
  <2> QED BY <1>1, <2>3, <2>4, <2>5 DEF WKeysInv, WOpening, WFocusFollows
<1> QED BY <1>4, <1>5

LEMMA WOpeningKeys ==
    ASSUME WKeysInv, W!mfb_open_ex
    PROVE  WKeysInv'
<1>1. /\ pc = "opening" /\ UNCHANGED <<queue, keys, unseen, told, settled>>
      /\ thread_keys' \in {thread_keys, keys}
      /\ \/ UNCHANGED <<focus, is_active, key_status>>
         \/ pc' = "idle" /\ focus' = TRUE /\ is_active' = TRUE /\ key_status' = keys
  <2>1. pc = "opening" /\ UNCHANGED <<queue, keys, unseen, told, settled>>
    BY DEF W!mfb_open_ex
  <2>2. \/ UNCHANGED <<focus, is_active, key_status, thread_keys>>
        \/ pc' = "idle" /\ focus' = TRUE /\ is_active' = TRUE /\ W!TakeKeys
    BY DEF W!mfb_open_ex
  <2> QED BY <2>1, <2>2 DEF W!TakeKeys, W!SetKeys, W!sync_key_status
<1>o. queue = <<>> /\ ~focus /\ told.keys = {} /\ ~settled
  BY <1>1 DEF WKeysInv, WOpening
<1>t. ASSUME NEW k \in WKeys \ {PrintScreen} PROVE WThreadFollows(k)'
  <2>1. WThreadKnows(k)
    BY <1>o, FollowsEmpty DEF WKeysInv, WKeysFollow, WThreadFollows
  <2>2. WThreadKnows(k)' /\ queue' = <<>>
    BY <1>1, <1>o, <2>1 DEF WThreadKnows
  <2> QED BY <2>2, FollowsEmpty DEF WThreadFollows
<1>2. CASE UNCHANGED <<focus, is_active, key_status>>
  <2>1. ASSUME NEW k \in WKeys \ {PrintScreen} PROVE WKeyFollows(k)'
    <3>1. WKeyKnown(k)
      BY <1>o, FollowsEmpty DEF WKeysInv, WKeysFollow, WKeyFollows
    <3>2. WKeyKnown(k)' /\ queue' = <<>>
      BY <1>1, <1>2, <1>o, <3>1 DEF WKeyKnown
    <3> QED BY <3>2, FollowsEmpty DEF WKeyFollows
  <2> QED BY <1>1, <1>2, <1>o, <1>t, <2>1 DEF WKeysInv, WOpening, WTold, WFocusFollows, WKeysFollow
<1>3. CASE pc' = "idle" /\ focus' = TRUE /\ is_active' = TRUE /\ key_status' = keys
  <2>1. ASSUME NEW k \in WKeys PROVE WKeyFollows(k)'
    <3>1. WKeyKnown(k)' /\ queue' = <<>>
      BY <1>1, <1>3, <1>o DEF WKeyKnown
    <3> QED BY <3>1, FollowsEmpty DEF WKeyFollows
  <2>2. WFocusFollows'
    <3> DEFINE V == BOOLEAN
    <3>1. TRUE \in V
      OBVIOUS
    <3> HIDE DEF V
    <3>2. Leads(<<>>, WFocusStep, V, TRUE, TRUE)
      BY <3>1, LeadsEmpty
    <3> QED BY <1>1, <1>3, <1>o, <3>2 DEF WFocusFollows, V
  <2> QED BY <1>1, <1>3, <1>o, <1>t, <2>1, <2>2 DEF WKeysInv, WOpening, WTold, WKeysFollow
<1> QED BY <1>1, <1>2, <1>3

LEMMA WOtherKeys ==
    ASSUME WKeysInv, pc' = "opening" => pc = "opening",
           UNCHANGED <<queue, focus, keys, unseen, thread_keys, key_status, is_active, told, settled>>
    PROVE  WKeysInv'
<1>1. ASSUME NEW k \in WKeys \ {PrintScreen} PROVE WKeyFollows(k)' /\ WThreadFollows(k)'
  <2>1. WKeyFollows(k) /\ WThreadFollows(k)
    BY DEF WKeysInv, WKeysFollow
  <2>2. WRight(k)' = WRight(k) /\ (WKeyKnown(k) => WKeyKnown(k)')
    BY DEF WRight, WKeyKnown, W!MayBeMissing
  <2>3. WTellsRight(k)' = WTellsRight(k) /\ (WThreadKnows(k) => WThreadKnows(k)')
    BY DEF WTellsRight, WThreadKnows
  <2>4. WKeyFollows(k)'
    BY <2>1, <2>2, FollowsMore DEF WKeyFollows
  <2>5. WThreadFollows(k)'
    BY <2>1, <2>3, FollowsMore DEF WThreadFollows
  <2> QED BY <2>4, <2>5
<1> QED BY <1>1 DEF WKeysInv, WOpening, WTold, WFocusFollows, WKeysFollow, WKeysRight, W!MayBeMissing

LEMMA WKeysInit ==
    ASSUME W!Init
    PROVE  WKeysInv
<1>1. /\ queue = <<>> /\ focus = FALSE /\ is_active = FALSE /\ key_status = {} /\ unseen = keys
      /\ told.keys = {} /\ settled = FALSE
  BY DEF W!Init
<1>2. WFocusFollows
  <2> DEFINE V == BOOLEAN
  <2>1. FALSE \in V
    OBVIOUS
  <2> HIDE DEF V
  <2>2. Leads(<<>>, WFocusStep, V, FALSE, FALSE)
    BY <2>1, LeadsEmpty
  <2> QED BY <1>1, <2>2 DEF WFocusFollows, V
<1>3. ASSUME NEW k \in WKeys PROVE WKeyFollows(k) /\ WThreadFollows(k)
  <2>1. WKeyKnown(k) /\ WThreadKnows(k)
    BY <1>1 DEF WKeyKnown, WThreadKnows
  <2> QED BY <1>1, <2>1, FollowsEmpty DEF WKeyFollows, WThreadFollows
<1> QED BY <1>1, <1>2, <1>3 DEF WKeysInv, WOpening, WTold, WKeysFollow

LEMMA WStepKeys ==
    ASSUME WinParameters, WinIInv, WKeysInv, [W!Next]_W!vars
    PROVE  WKeysInv'
<1> USE DEF WinIInv
<1>1. CASE W!System
  BY <1>1, WSystemKeys
<1>2. CASE W!WndProc
  BY <1>2, WProcKeys
<1>3. CASE W!mfb_open_ex
  BY <1>3, WOpeningKeys
<1>4. CASE W!Drained
  BY <1>4, WDrainedKeys
<1>5. CASE W!Pump \/ W!Application \/ \E b \in WSizes \cup {0} : W!mfb_update_ex(b)
  <2>1. CASE W!Pump
    BY <2>1, WOtherKeys, WinPumpKeeps DEF W!Pump, W!Others
  <2>2. CASE W!Application
    BY <2>2, WOtherKeys DEF W!Application, W!Call, W!mfb_close, W!FreeBuffer, W!mfb_set_viewport, W!mfb_show_cursor,
                            W!user, W!input, W!window, W!program
  <2>3. ASSUME NEW b \in WSizes \cup {0}, W!mfb_update_ex(b) PROVE WKeysInv'
    BY <2>3, WOtherKeys, WinUpdateKeeps DEF W!mfb_update_ex, W!Others
  <2> QED BY <1>5, <2>1, <2>2, <2>3
<1>6. CASE UNCHANGED W!vars
  BY <1>6, WOtherKeys DEF W!vars, W!user, W!input, W!program
<1> QED BY <1>1, <1>2, <1>3, <1>4, <1>5, <1>6 DEF W!Next, W!Library

LEMMA WKeysHold ==
    ASSUME WKeysInv
    PROVE  W!KeysSettle /\ W!ToldKeysAreDown
BY DEF WKeysInv, WTold, WKeysRight, PrintScreen, W!KeysSettle, W!Settled, W!ToldKeysAreDown

--------------------------------------------------------------------------------
\* The three backends.  The keys of DOS are those of DosKeyboard; here only Escape is queued.
DosQueueOK == queue \in Seq({"ESCAPE"}) /\ Len(queue) <= MaxQueue /\ given \in 0 .. MaxInputs

KeysInv == Each(XKeysInv, WKeysInv, DosQueueOK)

LEMMA DosQueueStart ==
    ASSUME Parameters, KeyParameters, D!Init
    PROVE  DosQueueOK
<1>1. queue = <<>> /\ given = 0
  BY DEF D!Init
<1> QED BY <1>1, EmptySeq DEF DosQueueOK, Parameters, WinParameters, KeyParameters

LEMMA DosQueueKeeps ==
    ASSUME Parameters, KeyParameters, DosQueueOK, [D!Next]_D!vars
    PROVE  DosQueueOK'
<1>t. queue \in Seq({"ESCAPE"}) /\ Len(queue) \in Nat /\ Len(queue) <= MaxQueue /\ given \in 0 .. MaxInputs
      /\ MaxQueue \in Nat /\ MaxInputs \in Nat
  BY LenProperties DEF DosQueueOK, Parameters, WinParameters, KeyParameters
<1>1. CASE D!User
  <2>1. given < MaxInputs /\ given' = given + 1
    BY <1>1 DEF D!User, D!Allows
  <2>2. \/ queue' = queue
        \/ Len(queue) < MaxQueue /\ queue' = Append(queue, "ESCAPE")
    BY <1>1 DEF D!User, D!ChangeButton, D!MovePointer, D!TurnWheel
  <2>3. queue' \in Seq({"ESCAPE"}) /\ Len(queue') <= MaxQueue
    BY <1>t, <2>2, AppendProperties
  <2> QED BY <1>t, <2>1, <2>3 DEF DosQueueOK
<1>2. CASE D!update_keyboard
  <2>1. queue # <<>> /\ queue' = Tail(queue) /\ given' = given
    BY <1>2 DEF D!update_keyboard
  <2>2. queue' \in Seq({"ESCAPE"}) /\ Len(queue') = Len(queue) - 1
    BY <1>t, <2>1, HeadTailProperties
  <2> QED BY <1>t, <2>1, <2>2 DEF DosQueueOK
<1>3. CASE UNCHANGED <<queue, given>>
  BY <1>3 DEF DosQueueOK
<1>4. D!mfb_open_ex \/ D!Poll \/ D!RefuseBuffer \/ D!Drained \/ D!Return
      \/ (\E b \in DSizes : D!mfb_update_ex(b)) \/ D!Application \/ UNCHANGED D!vars => UNCHANGED <<queue, given>>
  BY DEF D!mfb_open_ex, D!Poll, D!RefuseBuffer, D!Drained, D!Return, D!mfb_update_ex, D!Application, D!Call,
         D!mfb_close, D!mfb_set_viewport, D!vars
<1> QED BY <1>1, <1>2, <1>3, <1>4 DEF D!Next, D!Library

LEMMA TypesFollow ==
    ASSUME Inv, KeysInv
    PROVE  TypesHold
<1>1. ASSUME X11IInv PROVE X!TypeOK
  BY <1>1 DEF X11IInv, X11InputOK, X11WindowOK, X!TypeOK
<1>2. ASSUME WinIInv PROVE W!TypeOK
  BY <1>2 DEF WinIInv, QueueOK, WinInputOK, WinWindowOK, W!CursorCountBalanced, W!TypeOK
<1>3. ASSUME DosIInv, DosQueueOK PROVE D!TypeOK
  BY <1>3 DEF DosIInv, DosOK, DosQueueOK, ObtainedOK, D!TypeOK
<1> QED BY <1>1, <1>2, <1>3 DEF Inv, KeysInv, Each, TypesHold

LEMMA KeysStart ==
    ASSUME Parameters, KeyParameters, MCInit
    PROVE  KeysInv
<1>1. \/ OnX11 /\ X!Init
      \/ OnDos /\ ~OnX11 /\ D!Init
      \/ ~OnX11 /\ ~OnDos /\ W!Init
  BY DEF MCInit, Scene, OnX11, OnDos
<1> QED BY <1>1, XKeysInit, WKeysInit, DosQueueStart DEF KeysInv, Each

LEMMA KeysStep ==
    ASSUME Parameters, KeyParameters, Inv, KeysInv, [MCNext]_<<scenario, both, x11, win, dos>>
    PROVE  KeysInv'
<1>1. CASE OnX11
  BY <1>1, OneBackend, XStepKeys DEF Parameters, Inv, KeysInv, Each
<1>2. CASE ~OnX11 /\ ~OnDos
  BY <1>2, OneBackend, WStepKeys DEF Parameters, Inv, KeysInv, Each
<1>3. CASE OnDos
  <2>1. ~OnX11 /\ OnDos' /\ ~OnX11' /\ [D!Next]_D!vars
    BY <1>3, OneBackend DEF OnX11, OnDos
  <2>2. DosQueueOK
    BY <1>3, <2>1 DEF KeysInv, Each
  <2>3. DosQueueOK'
    BY <2>1, <2>2, DosQueueKeeps
  <2> QED BY <2>1, <2>3 DEF KeysInv, Each
<1> QED BY <1>1, <1>2, <1>3

\* Once the events are taken, the table of keys says what the keyboard does while the window
\* has the focus, and is empty once it has lost it, and no key the application was told of
\* lacks its release, whatever was held at the opening, repeated, swallowed by the system or
\* moved behind a change of the focus.  Two exceptions are the code's: an X11 window that had
\* no focus yet holds what its opening found, and on Windows a Shift or a Windows key that
\* was pressed unseen and is still held may be missing (the key and focus handlers,
\* sync_key_status, mfb_release_held_keys, release_key_lost_by_system).
THEOREM KeysAreSettled ==
    ASSUME Parameters, KeyParameters
    PROVE  MCSpec => []KeysSettle
<1>1. Inv /\ KeysInv /\ [MCNext]_<<scenario, both, x11, win, dos>> => KeysInv'
  BY KeysStep
<1>2. Inv /\ KeysInv => KeysSettle
  <2>1. ASSUME Inv, KeysInv PROVE KeysSettle
    <3>1. CASE OnX11
      BY <2>1, <3>1, TypesFollow, XKeysHold DEF Inv, KeysInv, Each, KeysSettle, X11IInv
    <3>2. CASE ~OnX11
      BY <2>1, <3>2, TypesFollow, WKeysHold DEF KeysInv, Each, KeysSettle
    <3> QED BY <3>1, <3>2
  <2> QED BY <2>1
<1>3. MCInit => KeysInv
  BY KeysStart
<1> QED BY Inductive, <1>1, <1>2, <1>3, PTL DEF MCSpec

--------------------------------------------------------------------------------
\* X11.  What the window knows of the pointer: the buttons of the table, and whether the
\* pointer is in it.
XPointers == [held : SUBSET (0 .. 7), inside : BOOLEAN]
At(bs, inside) == [held |-> bs, inside |-> inside]

\* An event of a button that has an entry in the table.
XCounts(e) ==
    e.type \in {"ButtonPress", "ButtonRelease"} /\ e.button \notin X!Wheel /\ ~(X!Names[e.button] > 7)

\* What the handlers make of it.
XPoints(e, bs, inside, after, inside_after) ==
    IF XCounts(e)
    THEN /\ after = (IF e.type = "ButtonPress" THEN bs \cup {X!Names[e.button]} ELSE bs \ {X!Names[e.button]})
         /\ inside_after = (IF e.type = "ButtonRelease" /\ after = {} THEN e.at # "out" ELSE inside)
    ELSE /\ after = bs
         /\ inside_after =
                IF e.type \in {"EnterNotify", "LeaveNotify"} /\ e.mode # "Grab" /\ bs = {}
                THEN e.type = "EnterNotify" ELSE inside
XPointerStep ==
    {t \in Event \X XPointers \X XPointers : XPoints(t[1], t[2].held, t[2].inside, t[3].held, t[3].inside)}

\* The table of the buttons that are held, and where the events have to lead to when none of
\* them is: a button without an entry may still keep the crossings to the window.
XHeld == {X!Names[b] : b \in buttons \ X!Wheel} \cap 0 .. 7
XPointerRight(inside) ==
    drag \/ astray \/ (XHeld = {} => (place = "in" => inside) /\ (buttons = {} /\ place # "in" => ~inside))
XPointerFollows ==
    \E inside \in BOOLEAN :
        /\ Leads(queue, XPointerStep, XPointers, At(button_status, is_mouse_inside), At(XHeld, inside))
        /\ XPointerRight(inside)

XPointerInv ==
    /\ told.inside = is_mouse_inside /\ buttons \subseteq XButtons /\ (drag => buttons = {})
    /\ XPointerFollows

--------------------------------------------------------------------------------
LEMMA PointerAt ==
    /\ \A bs \in SUBSET (0 .. 7), y \in BOOLEAN :
           At(bs, y) \in XPointers /\ At(bs, y).held = bs /\ At(bs, y).inside = y
    /\ \A bs, cs \in SUBSET (0 .. 7), y, z \in BOOLEAN : At(bs, y) = At(cs, z) => bs = cs /\ y = z
    /\ \A p \in XPointers : p = At(p.held, p.inside) /\ p.held \in SUBSET (0 .. 7) /\ p.inside \in BOOLEAN
<1>1. \A bs \in SUBSET (0 .. 7), y \in BOOLEAN :
          At(bs, y) \in XPointers /\ At(bs, y).held = bs /\ At(bs, y).inside = y
  BY DEF At, XPointers
<1>2. \A bs, cs \in SUBSET (0 .. 7), y, z \in BOOLEAN : At(bs, y) = At(cs, z) => bs = cs /\ y = z
  <2>1. ASSUME NEW bs \in SUBSET (0 .. 7), NEW cs \in SUBSET (0 .. 7), NEW y \in BOOLEAN, NEW z \in BOOLEAN,
               At(bs, y) = At(cs, z)
        PROVE  bs = cs /\ y = z
    <3>1. At(bs, y).held = At(cs, z).held /\ At(bs, y).inside = At(cs, z).inside
      BY <2>1
    <3> QED BY <1>1, <3>1
  <2> QED BY <2>1
<1>3. \A p \in XPointers : p = At(p.held, p.inside) /\ p.held \in SUBSET (0 .. 7) /\ p.inside \in BOOLEAN
  BY DEF At, XPointers
<1> QED BY <1>1, <1>2, <1>3

LEMMA PointerSteps ==
    ASSUME NEW e \in Event, NEW bs \in SUBSET (0 .. 7), NEW cs \in SUBSET (0 .. 7), NEW y \in BOOLEAN, NEW z \in BOOLEAN
    PROVE  <<e, At(bs, y), At(cs, z)>> \in XPointerStep <=> XPoints(e, bs, y, cs, z)
<1>1. At(bs, y) \in XPointers /\ At(cs, z) \in XPointers
  BY PointerAt
<1>2. /\ At(bs, y).held = bs /\ At(bs, y).inside = y
      /\ At(cs, z).held = cs /\ At(cs, z).inside = z
  BY PointerAt
<1> DEFINE p == At(bs, y)
           q == At(cs, z)
<1> HIDE DEF p, q
<1>3. p \in XPointers /\ q \in XPointers
  BY <1>1 DEF p, q
<1>4. <<e, p, q>> \in XPointerStep <=> XPoints(e, p.held, p.inside, q.held, q.inside)
  BY <1>3 DEF XPointerStep
<1> QED BY <1>2, <1>4 DEF p, q

\* No two buttons have one entry.
LEMMA NamesDiffer ==
    ASSUME NEW b \in Nat, b \notin X!Wheel
    PROVE  X!Names[b] \in Nat /\ \A c \in Nat : c \notin X!Wheel /\ X!Names[c] = X!Names[b] => c = b
<1>1. \A c \in Nat : X!Names[c] = CASE c = 2 -> 3 [] c = 3 -> 2 [] c > 7 -> c - 4 [] OTHER -> c
  BY DEF X!Names
<1>2. \A c \in Nat : X!Names[c] = IF c = 2 THEN 3 ELSE IF c = 3 THEN 2 ELSE IF c > 7 THEN c - 4 ELSE c
  BY <1>1
<1>3. \A c \in Nat : c \notin X!Wheel => c < 4 \/ c > 7
  BY DEF X!Wheel
<1> QED BY <1>2, <1>3

LEMMA HeldNow ==
    ASSUME XButtons \subseteq Nat, buttons \subseteq XButtons, NEW b \in XButtons
    PROVE  /\ XHeld \in SUBSET (0 .. 7)
           /\ buttons' = buttons \cup {b} =>
                  XHeld' = IF b \in X!Wheel \/ X!Names[b] > 7 THEN XHeld ELSE XHeld \cup {X!Names[b]}
           /\ b \in buttons /\ buttons' = buttons \ {b} =>
                  XHeld' = IF b \in X!Wheel \/ X!Names[b] > 7 THEN XHeld ELSE XHeld \ {X!Names[b]}
           /\ buttons' = {} => XHeld' = {}
<1>1. \A c \in XButtons : c \notin X!Wheel => X!Names[c] \in Nat
  BY NamesDiffer
<1>2. \A c, d \in XButtons : c \notin X!Wheel /\ d \notin X!Wheel /\ X!Names[c] = X!Names[d] => c = d
  BY NamesDiffer
<1>3. \A n \in Nat : n > 7 <=> n \notin 0 .. 7
  OBVIOUS
<1>4. ASSUME buttons' = buttons \cup {b}
      PROVE  XHeld' = IF b \in X!Wheel \/ X!Names[b] > 7 THEN XHeld ELSE XHeld \cup {X!Names[b]}
  <2>1. CASE b \in X!Wheel
    BY <1>4, <2>1 DEF XHeld
  <2>2. CASE b \notin X!Wheel /\ X!Names[b] > 7
    <3>1. X!Names[b] \notin 0 .. 7
      BY <1>1, <1>3, <2>2
    <3> QED BY <1>4, <2>2, <3>1 DEF XHeld
  <2>3. CASE b \notin X!Wheel /\ ~(X!Names[b] > 7)
    <3>1. X!Names[b] \in 0 .. 7
      BY <1>1, <1>3, <2>3
    <3> QED BY <1>4, <2>3, <3>1 DEF XHeld
  <2> QED BY <2>1, <2>2, <2>3
<1>5. ASSUME b \in buttons, buttons' = buttons \ {b}
      PROVE  XHeld' = IF b \in X!Wheel \/ X!Names[b] > 7 THEN XHeld ELSE XHeld \ {X!Names[b]}
  <2>1. CASE b \in X!Wheel
    BY <1>5, <2>1 DEF XHeld
  <2>2. CASE b \notin X!Wheel /\ X!Names[b] > 7
    <3>1. X!Names[b] \notin 0 .. 7
      BY <1>1, <1>3, <2>2
    <3> QED BY <1>5, <2>2, <3>1 DEF XHeld
  <2>3. CASE b \notin X!Wheel /\ ~(X!Names[b] > 7)
    BY <1>2, <1>5, <2>3 DEF XHeld
  <2> QED BY <2>1, <2>2, <2>3
<1>6. XHeld \in SUBSET (0 .. 7) /\ (buttons' = {} => XHeld' = {})
  BY DEF XHeld
<1> QED BY <1>4, <1>5, <1>6

\* What the server queues leads on.
LEMMA XSent ==
    ASSUME X11Parameters, X11InputOK, XPointerInv, NEW s \in Seq(Event), queue' = queue \o s,
           UNCHANGED <<button_status, is_mouse_inside, told>>,
           buttons' \subseteq XButtons, drag' => buttons' = {},
           \A y \in BOOLEAN :
               /\ XPointerRight(y)
               /\ Leads(queue, XPointerStep, XPointers, At(button_status, is_mouse_inside), At(XHeld, y))
               => \E z \in BOOLEAN :
                      Leads(s, XPointerStep, XPointers, At(XHeld, y), At(XHeld', z)) /\ XPointerRight(z)'
    PROVE  XPointerInv'
<1>1. PICK y \in BOOLEAN :
          /\ Leads(queue, XPointerStep, XPointers, At(button_status, is_mouse_inside), At(XHeld, y))
          /\ XPointerRight(y)
  BY DEF XPointerInv, XPointerFollows
<1>2. PICK z \in BOOLEAN : Leads(s, XPointerStep, XPointers, At(XHeld, y), At(XHeld', z)) /\ XPointerRight(z)'
  BY <1>1
<1> DEFINE a == At(button_status, is_mouse_inside)
           b == At(XHeld, y)
           c == At(XHeld', z)
<1> HIDE DEF a, b, c
<1>3. Leads(queue, XPointerStep, XPointers, a, b) /\ Leads(s, XPointerStep, XPointers, b, c)
      /\ queue \in Seq(Event)
  BY <1>1, <1>2 DEF a, b, c, X11InputOK
<1>4. Leads(queue', XPointerStep, XPointers, a, c)
  BY <1>3, LeadsConcat
<1>5. XPointerFollows'
  <2>1. a' = a /\ XPointerStep' = XPointerStep /\ XPointers' = XPointers
    BY DEF a, At, XPointerStep
  <2> QED BY <1>2, <1>4 DEF XPointerFollows, a, c, At
<1> QED BY <1>5 DEF XPointerInv

\* Events that are none of the pointer's.
LEMMA XPointerUnseen ==
    ASSUME X11Parameters, X11InputOK, XPointerInv, NEW s \in Seq(Event), queue' = queue \o s,
           \A i \in 1 .. Len(s) :
               s[i].type \notin {"EnterNotify", "LeaveNotify", "ButtonPress", "ButtonRelease"},
           UNCHANGED <<place, buttons, drag, astray, button_status, is_mouse_inside, told>>
    PROVE  XPointerInv'
<1>1. ASSUME NEW y \in BOOLEAN, XPointerRight(y)
      PROVE  Leads(s, XPointerStep, XPointers, At(XHeld, y), At(XHeld', y)) /\ XPointerRight(y)'
  <2>0. XHeld \in SUBSET (0 .. 7) /\ XHeld' = XHeld
    BY DEF XHeld
  <2> DEFINE p == At(XHeld, y)
  <2>1. p \in XPointers
    BY <2>0, PointerAt
  <2>2. ASSUME NEW i \in 1 .. Len(s) PROVE <<s[i], p, p>> \in XPointerStep
    <3>1. s[i] \in Event
      BY ElementOfSeq
    <3>2. XPoints(s[i], XHeld, y, XHeld, y)
      BY DEF XPoints, XCounts
    <3> QED BY <1>1, <2>0, <3>1, <3>2, PointerSteps
  <2> HIDE DEF p
  <2>3. Leads(s, XPointerStep, XPointers, p, p)
    BY <2>1, <2>2, LeadsAll
  <2> QED BY <1>1, <2>0, <2>3 DEF XPointerRight, p
<1>2. buttons' \subseteq XButtons /\ (drag' => buttons' = {})
  BY DEF XPointerInv
<1> QED BY <1>1, <1>2, XSent

\* One event of the pointer.
LEMMA XOnePoint ==
    ASSUME NEW e \in Event, NEW bs \in SUBSET (0 .. 7), NEW cs \in SUBSET (0 .. 7), NEW y \in BOOLEAN, NEW z \in BOOLEAN,
           XPoints(e, bs, y, cs, z)
    PROVE  Leads(<<e>>, XPointerStep, XPointers, At(bs, y), At(cs, z))
<1> DEFINE p == At(bs, y)
           q == At(cs, z)
<1>0. p \in XPointers /\ q \in XPointers
  BY PointerAt
<1>1. <<e, p, q>> \in XPointerStep
  BY PointerSteps
<1> HIDE DEF p, q
<1>2. Leads(<<e>>, XPointerStep, XPointers, p, q)
  BY <1>0, <1>1, LeadsOne
<1> QED BY <1>2 DEF p, q

LEMMA XServerPointer ==
    ASSUME X11Parameters, X11InputOK, XPointerInv, X!Server
    PROVE  XPointerInv'
<1>u. UNCHANGED <<button_status, is_mouse_inside, told>>
  BY DEF X!Server, X!input
<1>t. /\ queue \in Seq(Event) /\ <<>> \in Seq(Event) /\ Len(<<>>) = 0 /\ queue \o <<>> = queue
      /\ \A e \in Event : <<e>> \in Seq(Event) /\ Len(<<e>>) = 1 /\ <<e>>[1] = e
      /\ place \in {"in", "covered", "out"} /\ drag \in BOOLEAN /\ is_mouse_inside \in BOOLEAN
      /\ button_status \in SUBSET (0 .. 7) /\ keys \subseteq XKeys
      /\ (repeating = X!NoKey \/ repeating \in XKeys)
  BY OneEvent, EmptySeq, ConcatEmptySeq DEF X11InputOK
<1>b. buttons \subseteq XButtons /\ (drag => buttons = {})
  BY DEF XPointerInv
<1>h. XHeld \in SUBSET (0 .. 7) /\ XHeld' \in SUBSET (0 .. 7)
  BY DEF XHeld
<1>n. \A y \in BOOLEAN : Leads(<<>>, XPointerStep, XPointers, At(XHeld, y), At(XHeld, y))
  BY <1>h, PointerAt, LeadsEmpty
<1>1. CASE X!RepeatPress \/ X!ChangeFocus \/ X!GrabKeyboard
           \/ (\E k \in XKeys : X!KeyDown(k) \/ X!KeyUp(k) \/ X!RepeatRelease(k))
           \/ (\E s \in XSizes : X!Configure(s))
           \/ (\E type \in {"ClientMessage", "DestroyNotify"} : X!AskToClose(type))
  <2> DEFINE Other(e) == /\ e \in Event
                         /\ e.type \notin {"EnterNotify", "LeaveNotify", "ButtonPress", "ButtonRelease"}
             Fine(s) == s \in Seq(Event) /\ (s = <<>> \/ \E e \in Event : s = <<e>> /\ Other(e))
  <2>1. UNCHANGED <<place, buttons, drag, astray>>
    BY <1>1 DEF X!RepeatPress, X!ChangeFocus, X!GrabKeyboard, X!KeyDown, X!KeyUp, X!RepeatRelease, X!Configure, X!AskToClose
  <2>m. /\ \A type \in {"KeyPress", "KeyRelease"}, k \in XKeys, again \in BOOLEAN : Other(X!KeyEvent(type, k, again))
        /\ \A type \in {"FocusIn", "FocusOut"}, mode \in {"Normal", "Grab", "Ungrab"} :
               Other([type |-> type, mode |-> mode])
        /\ \A s \in XSizes : Other([type |-> "ConfigureNotify", size |-> s])
        /\ \A type \in {"ClientMessage", "DestroyNotify"} : Other([type |-> type])
    BY <1>t, Events DEF X!KeyEvent
  <2>n. \A e : Other(e) => e \in Event
    OBVIOUS
  <2> HIDE DEF Other
  <2>f. Fine(<<>>) /\ \A e : Other(e) => Fine(<<e>>)
    BY <1>t, <2>n
  <2> HIDE DEF Fine
  <2>2. \E s : queue' = queue \o s /\ Fine(s)
    <3>1. CASE X!RepeatPress
      BY <2>m, <2>f, <3>1, <1>t DEF X!RepeatPress, X!Send
    <3>2. CASE \E k \in XKeys : X!KeyDown(k) \/ X!KeyUp(k) \/ X!RepeatRelease(k)
      BY <2>m, <2>f, <3>2, <1>t DEF X!KeyDown, X!KeyUp, X!RepeatRelease, X!Send
    <3>3. CASE X!ChangeFocus
      BY <2>m, <2>f, <3>3, <1>t DEF X!ChangeFocus, X!Send
    <3>4. CASE X!GrabKeyboard
      BY <2>m, <2>f, <3>4, <1>t DEF X!GrabKeyboard, X!Send
    <3>5. CASE \E s \in XSizes : X!Configure(s)
      BY <2>m, <2>f, <3>5 DEF X!Configure, X!Send
    <3>6. CASE \E type \in {"ClientMessage", "DestroyNotify"} : X!AskToClose(type)
      BY <2>m, <2>f, <3>6 DEF X!AskToClose, X!Send
    <3> QED BY <1>1, <3>1, <3>2, <3>3, <3>4, <3>5, <3>6
  <2>3. PICK s : queue' = queue \o s /\ Fine(s)
    BY <2>2
  <2>4. \A i \in 1 .. Len(s) : Other(s[i])
    <3>1. CASE s = <<>>
      <4>1. \A i \in 1 .. Len(s) : FALSE
        BY <1>t, <3>1
      <4> QED BY <4>1
    <3>2. CASE \E e \in Event : s = <<e>> /\ Other(e)
      <4>1. PICK e \in Event : s = <<e>> /\ Other(e)
        BY <3>2
      <4>2. \A i \in 1 .. Len(s) : s[i] = e
        BY <1>t, <4>1
      <4> QED BY <4>1, <4>2
    <3> QED BY <2>3, <3>1, <3>2 DEF Fine
  <2> QED BY <1>u, <2>1, <2>3, <2>4, XPointerUnseen DEF Other, Fine
\* Nothing of the pointer is queued, or one event is.
<1>o. ASSUME NEW s \in Seq(Event), queue' = queue \o s, buttons' \subseteq XButtons, drag' => buttons' = {},
             \A y \in BOOLEAN :
                 /\ XPointerRight(y)
                 /\ Leads(queue, XPointerStep, XPointers, At(button_status, is_mouse_inside), At(XHeld, y))
                 => \E z \in BOOLEAN :
                        /\ XPointerRight(z)'
                        /\ \/ s = <<>> /\ XHeld' = XHeld /\ z = y
                           \/ \E e \in Event : s = <<e>> /\ XPoints(e, XHeld, y, XHeld', z)
                           \/ Leads(s, XPointerStep, XPointers, At(XHeld, y), At(XHeld', z))
      PROVE  XPointerInv'
  <2>1. ASSUME NEW y \in BOOLEAN, XPointerRight(y),
               Leads(queue, XPointerStep, XPointers, At(button_status, is_mouse_inside), At(XHeld, y))
        PROVE  \E z \in BOOLEAN : Leads(s, XPointerStep, XPointers, At(XHeld, y), At(XHeld', z)) /\ XPointerRight(z)'
    <3>1. PICK z \in BOOLEAN :
                 /\ XPointerRight(z)'
                 /\ \/ s = <<>> /\ XHeld' = XHeld /\ z = y
                    \/ \E e \in Event : s = <<e>> /\ XPoints(e, XHeld, y, XHeld', z)
                    \/ Leads(s, XPointerStep, XPointers, At(XHeld, y), At(XHeld', z))
      BY <1>o, <2>1
    <3>2. Leads(s, XPointerStep, XPointers, At(XHeld, y), At(XHeld', z))
      BY <1>h, <1>n, <3>1, XOnePoint
    <3> QED BY <3>1, <3>2
  <2> QED BY <1>u, <1>o, <2>1, XSent
<1>2. ASSUME NEW p \in {"in", "covered", "out"}, X!MovePointer(p) PROVE XPointerInv'
  <2>1. /\ place' = p /\ p # place /\ UNCHANGED <<buttons, drag, astray>>
        /\ X!Send(IF drag \/ "in" \notin {p, place} THEN <<>> ELSE <<X!Crossing(p = "in", "Normal")>>)
    BY <1>2 DEF X!MovePointer
  <2>2. XHeld' = XHeld
    BY <2>1 DEF XHeld
  <2>3. CASE drag \/ "in" \notin {p, place}
    <3>1. queue' = queue \o <<>>
      BY <2>1, <2>3 DEF X!Send
    <3>2. ASSUME NEW y \in BOOLEAN, XPointerRight(y) PROVE XPointerRight(y)'
      BY <2>1, <2>2, <2>3, <3>2 DEF XPointerRight
    <3> QED BY <1>o, <1>t, <1>b, <2>1, <2>2, <3>1, <3>2
  <2>4. CASE ~(drag \/ "in" \notin {p, place})
    <3> DEFINE e == X!Crossing(p = "in", "Normal")
    <3>1. e \in Event /\ e.type = (IF p = "in" THEN "EnterNotify" ELSE "LeaveNotify") /\ e.mode = "Normal"
      BY Events DEF X!Crossing
    <3>2. queue' = queue \o <<e>>
      BY <2>1, <2>4 DEF X!Send
    <3> HIDE DEF e
    <3>3. ASSUME NEW y \in BOOLEAN, XPointerRight(y)
          PROVE  \E z \in BOOLEAN : XPointerRight(z)' /\ XPoints(e, XHeld, y, XHeld', z)
      <4>1. CASE XHeld = {}
        <5>1. XPoints(e, XHeld, y, XHeld', p = "in")
          BY <2>2, <3>1, <4>1 DEF XPoints, XCounts
        <5>2. XPointerRight(p = "in")'
          BY <2>1 DEF XPointerRight
        <5> QED BY <5>1, <5>2
      <4>2. CASE XHeld # {}
        <5>1. XPoints(e, XHeld, y, XHeld', y)
          BY <2>2, <3>1, <4>2 DEF XPoints, XCounts
        <5>2. XPointerRight(y)'
          BY <2>2, <4>2 DEF XPointerRight
        <5> QED BY <5>1, <5>2
      <4> QED BY <4>1, <4>2
    <3>s. <<e>> \in Seq(Event) /\ buttons' \subseteq XButtons /\ (drag' => buttons' = {})
      BY <1>t, <1>b, <2>1, <3>1
    <3> DEFINE s == <<e>>
    <3>y. ASSUME NEW y \in BOOLEAN, XPointerRight(y)
          PROVE  \E z \in BOOLEAN : XPointerRight(z)' /\ \E d \in Event : s = <<d>> /\ XPoints(d, XHeld, y, XHeld', z)
      BY <3>1, <3>y, <3>3
    <3>z. s \in Seq(Event) /\ queue' = queue \o s
      BY <3>2, <3>s
    <3> HIDE DEF s
    <3> QED BY <1>o, <3>s, <3>y, <3>z
  <2> QED BY <2>3, <2>4
<1>3. ASSUME NEW b \in XButtons, X!ButtonDown(b) PROVE XPointerInv'
  <2> DEFINE e == X!ButtonEvent("ButtonPress", b)
  <2>1. /\ place = "in" /\ ~drag /\ buttons' = buttons \cup {b} /\ UNCHANGED <<place, drag, astray>>
        /\ queue' = queue \o <<e>>
    BY <1>3 DEF X!ButtonDown, X!Send
  <2>2. e \in Event /\ e.type = "ButtonPress" /\ e.button = b
    BY <1>t, Events DEF X!ButtonEvent
  <2>3. XHeld' = IF b \in X!Wheel \/ X!Names[b] > 7 THEN XHeld ELSE XHeld \cup {X!Names[b]}
    BY <1>b, <2>1, HeldNow DEF X11Parameters
  <2> HIDE DEF e
  <2>4. ASSUME NEW y \in BOOLEAN, XPointerRight(y)
        PROVE  XPointerRight(y)' /\ XPoints(e, XHeld, y, XHeld', y)
    <3>1. CASE b \in X!Wheel \/ X!Names[b] > 7
      BY <2>1, <2>2, <2>3, <2>4, <3>1 DEF XPoints, XCounts, XPointerRight
    <3>2. CASE ~(b \in X!Wheel \/ X!Names[b] > 7)
      BY <2>1, <2>2, <2>3, <2>4, <3>2 DEF XPoints, XCounts, XPointerRight
    <3> QED BY <3>1, <3>2
  <2>5. buttons' \subseteq XButtons /\ ~drag'
    BY <1>b, <2>1
  <2> QED BY <1>o, <1>t, <2>1, <2>2, <2>4, <2>5
<1>4. ASSUME NEW b \in XButtons, X!ButtonUp(b) PROVE XPointerInv'
  <2> DEFINE e == X!ButtonEvent("ButtonRelease", b)
             g == X!Crossing(FALSE, "Ungrab")
             tail == IF buttons = {b} /\ place # "in" THEN <<g>> ELSE <<>>
  <2>1. /\ b \in buttons /\ buttons' = buttons \ {b} /\ UNCHANGED <<place, drag, astray>>
        /\ queue' = queue \o (<<e>> \o tail)
    BY <1>4 DEF X!ButtonUp, X!Send
  <2>2. /\ e \in Event /\ e.type = "ButtonRelease" /\ e.button = b /\ e.at = place
        /\ g \in Event /\ g.type = "LeaveNotify" /\ g.mode = "Ungrab"
    BY <1>t, Events DEF X!ButtonEvent, X!Crossing
  <2>3. /\ XHeld' = IF b \in X!Wheel \/ X!Names[b] > 7 THEN XHeld ELSE XHeld \ {X!Names[b]}
        /\ buttons' = {} => XHeld' = {}
    BY <1>b, <2>1, HeldNow DEF X11Parameters
  <2>4. buttons' \subseteq XButtons /\ ~drag /\ ~drag' /\ (buttons' = {} <=> buttons = {b})
    BY <1>b, <2>1
  <2>5. /\ tail \in Seq(Event) /\ <<e>> \in Seq(Event) /\ <<g>> \in Seq(Event)
        /\ tail = IF buttons = {b} /\ place # "in" THEN <<g>> ELSE <<>>
    BY <1>t, <2>2
  <2> HIDE DEF e, g, tail
  <2>6. <<e>> \o tail \in Seq(Event)
    BY <2>5, ConcatProperties
  <2>7. ASSUME NEW y \in BOOLEAN, XPointerRight(y)
        PROVE  \E z \in BOOLEAN : /\ XPointerRight(z)'
                                  /\ Leads(<<e>> \o tail, XPointerStep, XPointers, At(XHeld, y), At(XHeld', z))
    <3>1. PICK x \in BOOLEAN :
              /\ XPoints(e, XHeld, y, XHeld', x)
              /\ XHeld' = {} /\ place = "in" => x \/ astray
      <4>1. CASE b \in X!Wheel \/ X!Names[b] > 7
        <5>1. XPoints(e, XHeld, y, XHeld', y)
          BY <2>2, <2>3, <4>1 DEF XPoints, XCounts
        <5>2. XHeld' = {} /\ place = "in" => y \/ astray
          BY <2>3, <2>4, <2>7, <4>1 DEF XPointerRight
        <5> QED BY <5>1, <5>2
      <4>2. CASE ~(b \in X!Wheel \/ X!Names[b] > 7)
        <5> DEFINE x == IF XHeld' = {} THEN place # "out" ELSE y
        <5>1. XPoints(e, XHeld, y, XHeld', x)
          BY <2>2, <2>3, <4>2 DEF XPoints, XCounts
        <5>2. x \in BOOLEAN /\ (XHeld' = {} /\ place = "in" => x)
          OBVIOUS
        <5> QED BY <5>1, <5>2
      <4> QED BY <4>1, <4>2
    <3> DEFINE p == At(XHeld, y)
               q == At(XHeld', x)
               r == At(XHeld', FALSE)
    <3>2. Leads(<<e>>, XPointerStep, XPointers, p, q) /\ q \in XPointers
      BY <1>h, <2>2, <3>1, XOnePoint, PointerAt
    <3>3. CASE buttons = {b} /\ place # "in"
      <4>1. tail = <<g>> /\ buttons' = {} /\ XHeld' = {}
        BY <2>3, <2>4, <2>5, <3>3
      <4>2. XPoints(g, XHeld', x, XHeld', FALSE)
        BY <2>2, <4>1 DEF XPoints, XCounts
      <4>3. Leads(<<g>>, XPointerStep, XPointers, q, r)
        BY <1>h, <2>2, <4>2, XOnePoint
      <4>4. XPointerRight(FALSE)'
        BY <2>1, <3>3 DEF XPointerRight
      <4> HIDE DEF p, q, r
      <4>5. Leads(<<e>> \o tail, XPointerStep, XPointers, p, r)
        BY <2>5, <3>2, <4>1, <4>3, LeadsConcat
      <4> QED BY <4>4, <4>5 DEF p, r
    <3>4. CASE ~(buttons = {b} /\ place # "in")
      <4>1. tail = <<>> /\ <<e>> \o tail = <<e>>
        BY <2>5, <3>4, ConcatEmptySeq
      <4>2. XPointerRight(x)'
        <5>1. buttons' # {} \/ place = "in"
          BY <2>4, <3>4
        <5> QED BY <2>1, <3>1, <5>1 DEF XPointerRight
      <4> QED BY <3>2, <4>1, <4>2
    <3> QED BY <3>3, <3>4
  <2> QED BY <1>o, <2>1, <2>4, <2>6, <2>7
<1>5. CASE X!DragElsewhere
  <2>1. /\ buttons = {} /\ drag' = ~drag /\ UNCHANGED <<place, buttons>>
        /\ astray' = (drag /\ place # "in" /\ (is_mouse_inside \/ astray \/ queue # <<>>))
        /\ X!Send(IF place = "in" THEN <<X!Crossing(drag, IF drag THEN "Ungrab" ELSE "Grab")>> ELSE <<>>)
    BY <1>5 DEF X!DragElsewhere
  <2>2. XHeld = {} /\ XHeld' = {}
    BY <2>1 DEF XHeld
  <2>3. CASE place = "in"
    <3> DEFINE mode == IF drag THEN "Ungrab" ELSE "Grab"
               e == X!Crossing(drag, mode)
    <3>1. mode \in {"Normal", "Grab", "Ungrab"}
      OBVIOUS
    <3>2. e \in Event /\ e.type = (IF drag THEN "EnterNotify" ELSE "LeaveNotify") /\ e.mode = mode
      BY <1>t, <3>1, Events DEF X!Crossing
    <3>3. queue' = queue \o <<e>>
      BY <2>1, <2>3 DEF X!Send
    <3>4. ASSUME NEW y \in BOOLEAN
          PROVE  \E z \in BOOLEAN : XPointerRight(z)' /\ XPoints(e, XHeld, y, XHeld', z)
      <4>1. CASE drag
        <5>1. XPoints(e, XHeld, y, XHeld', TRUE)
          BY <2>2, <3>2, <4>1 DEF XPoints, XCounts
        <5>2. XPointerRight(TRUE)'
          BY <2>1, <2>3 DEF XPointerRight
        <5> QED BY <5>1, <5>2
      <4>2. CASE ~drag
        <5>1. XPoints(e, XHeld, y, XHeld', y)
          BY <2>2, <3>2, <4>2 DEF XPoints, XCounts
        <5>2. XPointerRight(y)'
          BY <2>1, <4>2 DEF XPointerRight
        <5> QED BY <5>1, <5>2
      <4> QED BY <4>1, <4>2
    <3> HIDE DEF e, mode
    <3>s. <<e>> \in Seq(Event) /\ buttons' \subseteq XButtons /\ (drag' => buttons' = {})
      BY <1>t, <1>b, <2>1, <3>2
    <3> DEFINE s == <<e>>
    <3>y. ASSUME NEW y \in BOOLEAN, XPointerRight(y)
          PROVE  \E z \in BOOLEAN : XPointerRight(z)' /\ \E d \in Event : s = <<d>> /\ XPoints(d, XHeld, y, XHeld', z)
      BY <3>2, <3>y, <3>4
    <3>z. s \in Seq(Event) /\ queue' = queue \o s
      BY <3>3, <3>s
    <3> HIDE DEF s
    <3> QED BY <1>o, <3>s, <3>y, <3>z
  <2>4. CASE place # "in"
    <3>1. queue' = queue \o <<>>
      BY <2>1, <2>4 DEF X!Send
    <3>2. ASSUME NEW y \in BOOLEAN,
                 Leads(queue, XPointerStep, XPointers, At(button_status, is_mouse_inside), At(XHeld, y))
          PROVE  XPointerRight(y)'
      <4>1. CASE ~drag
        BY <2>1, <4>1 DEF XPointerRight
      <4>2. CASE astray'
        BY <4>2 DEF XPointerRight
      <4>3. CASE drag /\ ~astray'
        <5>1. ~is_mouse_inside /\ queue = <<>>
          BY <2>1, <2>4, <4>3
        <5> DEFINE p == At(button_status, is_mouse_inside)
                   q == At(XHeld, y)
        <5>2. p \in XPointers
          BY <1>t, PointerAt
        <5> HIDE DEF p, q
        <5>3. p = q
          BY <3>2, <5>1, <5>2, LeadsEmpty DEF p, q
        <5>4. y = is_mouse_inside
          BY <1>t, <1>h, <5>3, PointerAt DEF p, q
        <5> QED BY <2>1, <2>4, <5>1, <5>4 DEF XPointerRight
      <4> QED BY <1>t, <4>1, <4>2, <4>3
    <3> QED BY <1>o, <1>t, <1>b, <2>1, <2>2, <3>1, <3>2
  <2> QED BY <2>3, <2>4
<1> QED BY <1>1, <1>2, <1>3, <1>4, <1>5 DEF X!Server

\* A handler does what the step of its event says, and tells of it.
LEMMA XHandledPointer ==
    ASSUME X11Parameters, X11InputOK, X11WindowOK, told.inside = is_mouse_inside, X!process_event
    PROVE  /\ XPoints(Head(queue), button_status, is_mouse_inside, button_status', is_mouse_inside')
           /\ told'.inside = is_mouse_inside'
           /\ button_status' \in SUBSET (0 .. 7) /\ is_mouse_inside' \in BOOLEAN
<1> DEFINE e == Head(queue)
<1>t. told \in X11Told /\ is_mouse_inside \in BOOLEAN /\ button_status \in SUBSET (0 .. 7)
  BY DEF X11WindowOK, X11InputOK
<1>e. e \in Event
  BY TailElements DEF X!process_event, X11InputOK
<1>b. e.type \in {"ButtonPress", "ButtonRelease"} => e.button \in Nat
  BY <1>e DEF Event, X11Parameters
<1>0. X!OnKey(e) \/ X!OnButton(e) \/ X!OnCrossing(e) \/ X!OnConfigure(e) \/ X!OnFocus(e) \/ X!OnDestroy(e) \/ X!OnDelete(e)
  BY DEF X!process_event
<1> HIDE DEF e
<1>s. ASSUME NEW inside \in BOOLEAN, X!SetInside(inside)
      PROVE  is_mouse_inside' = inside /\ told'.inside = inside
  BY <1>s, <1>t DEF X!SetInside, X11Told
<1> DEFINE Done == /\ XPoints(e, button_status, is_mouse_inside, button_status', is_mouse_inside')
                   /\ told'.inside = is_mouse_inside'
                   /\ button_status' \in SUBSET (0 .. 7) /\ is_mouse_inside' \in BOOLEAN
<1> SUFFICES Done
  BY DEF e
<1>1. CASE X!OnButton(e)
  <2>0. e.type \in {"ButtonPress", "ButtonRelease"} /\ e.button \in Nat
    BY <1>1, <1>b DEF X!OnButton
  <2>1. CASE e.button \in X!Wheel \/ X!Names[e.button] > 7
    <3>1. UNCHANGED <<button_status, is_mouse_inside, told>>
      BY <1>1, <2>1 DEF X!OnButton
    <3>2. ~XCounts(e) /\ e.type \notin {"EnterNotify", "LeaveNotify"}
      BY <2>0, <2>1 DEF XCounts
    <3>3. XPoints(e, button_status, is_mouse_inside, button_status', is_mouse_inside')
      BY <3>1, <3>2 DEF XPoints
    <3>4. told'.inside = is_mouse_inside' /\ button_status' \in SUBSET (0 .. 7) /\ is_mouse_inside' \in BOOLEAN
      BY <1>t, <3>1
    <3> QED BY <3>3, <3>4
  <2>2. CASE ~(e.button \in X!Wheel \/ X!Names[e.button] > 7)
    <3>1. /\ button_status' = IF e.type = "ButtonPress" THEN button_status \cup {X!Names[e.button]}
                              ELSE button_status \ {X!Names[e.button]}
          /\ IF e.type = "ButtonRelease" /\ button_status' = {}
             THEN X!SetInside(e.at # "out")
             ELSE UNCHANGED <<is_mouse_inside, told>>
      BY <1>1, <2>2 DEF X!OnButton
    <3>2. X!Names[e.button] \in 0 .. 7
      <4>1. X!Names[e.button] \in Nat
        BY <2>0 DEF X!Names
      <4> QED BY <2>2, <4>1
    <3>3. button_status' \in SUBSET (0 .. 7)
      BY <1>t, <3>1, <3>2
    <3>4. XCounts(e)
      BY <2>0, <2>2 DEF XCounts
    <3>5. CASE e.type = "ButtonRelease" /\ button_status' = {}
      <4>1. is_mouse_inside' = (e.at # "out") /\ told'.inside = (e.at # "out")
        BY <1>s, <3>1, <3>5
      <4>2. XPoints(e, button_status, is_mouse_inside, button_status', is_mouse_inside')
        BY <3>1, <3>4, <3>5, <4>1 DEF XPoints
      <4> QED BY <3>3, <4>1, <4>2
    <3>6. CASE ~(e.type = "ButtonRelease" /\ button_status' = {})
      <4>1. is_mouse_inside' = is_mouse_inside /\ told' = told
        BY <3>1, <3>6
      <4>2. XPoints(e, button_status, is_mouse_inside, button_status', is_mouse_inside')
        BY <3>1, <3>4, <3>6, <4>1 DEF XPoints
      <4> QED BY <1>t, <3>3, <4>1, <4>2
    <3> QED BY <3>5, <3>6
  <2> QED BY <2>1, <2>2
<1>2. CASE X!OnCrossing(e)
  <2>1. /\ e.type \in {"EnterNotify", "LeaveNotify"} /\ button_status' = button_status /\ ~XCounts(e)
        /\ IF e.mode = "Grab" \/ button_status # {} THEN UNCHANGED <<is_mouse_inside, told>>
           ELSE X!SetInside(e.type = "EnterNotify")
    BY <1>2 DEF X!OnCrossing, XCounts
  <2>2. CASE e.mode = "Grab" \/ button_status # {}
    <3>1. UNCHANGED <<is_mouse_inside, told>>
      BY <2>1, <2>2
    <3>2. XPoints(e, button_status, is_mouse_inside, button_status', is_mouse_inside')
      BY <2>1, <2>2, <3>1 DEF XPoints
    <3> QED BY <1>t, <2>1, <3>1, <3>2
  <2>3. CASE ~(e.mode = "Grab" \/ button_status # {})
    <3>1. is_mouse_inside' = (e.type = "EnterNotify") /\ told'.inside = (e.type = "EnterNotify")
      BY <1>s, <2>1, <2>3
    <3>2. XPoints(e, button_status, is_mouse_inside, button_status', is_mouse_inside')
      BY <2>1, <2>3, <3>1 DEF XPoints
    <3> QED BY <1>t, <2>1, <3>1, <3>2
  <2> QED BY <2>2, <2>3
<1>3. CASE ~X!OnButton(e) /\ ~X!OnCrossing(e)
  <2>1. /\ e.type \notin {"EnterNotify", "LeaveNotify", "ButtonPress", "ButtonRelease"}
        /\ UNCHANGED <<button_status, is_mouse_inside>>
    BY <1>0, <1>3 DEF X!OnKey, X!OnConfigure, X!OnFocus, X!OnDestroy, X!OnDelete, X!input
  <2>2. told'.inside = told.inside
    <3>1. CASE X!OnKey(e)
      BY <1>t, <3>1 DEF X!OnKey, X!SetKey, X11Told
    <3>2. CASE X!OnConfigure(e)
      BY <1>t, <3>2 DEF X!OnConfigure, X11Told
    <3>3. CASE X!OnFocus(e)
      <4>1. e.mode # "Normal" \/ e.type = "FocusIn" \/ e.type = "FocusOut"
        BY <3>3 DEF X!OnFocus
      <4>2. told' = told \/ told' = [told EXCEPT !.active = TRUE]
            \/ told' = [told EXCEPT !.active = FALSE, !.keys = @ \ key_status]
        BY <3>3, <4>1 DEF X!OnFocus
      <4> QED BY <1>t, <4>2 DEF X11Told
    <3>4. CASE X!OnDestroy(e) \/ X!OnDelete(e)
      BY <3>4 DEF X!OnDestroy, X!OnDelete
    <3> QED BY <1>0, <1>3, <3>1, <3>2, <3>3, <3>4
  <2>3. XPoints(e, button_status, is_mouse_inside, button_status', is_mouse_inside')
    BY <2>1 DEF XPoints, XCounts
  <2> QED BY <1>t, <2>1, <2>2, <2>3
<1> QED BY <1>1, <1>2, <1>3

LEMMA XProcessPointer ==
    ASSUME X11Parameters, X11InputOK, X11WindowOK, XPointerInv, X!process_event
    PROVE  XPointerInv'
<1> DEFINE bs == button_status
           in == is_mouse_inside
           p == At(bs, in)
<1>0. /\ queue # <<>> /\ queue' = Tail(queue) /\ UNCHANGED <<place, buttons, drag, astray>>
      /\ queue \in Seq(Event) /\ Head(queue) \in Event /\ bs \in SUBSET (0 .. 7) /\ in \in BOOLEAN
  BY TailElements DEF X!process_event, X11InputOK
<1>1. /\ XPoints(Head(queue), bs, in, bs', in')
      /\ told'.inside = in' /\ bs' \in SUBSET (0 .. 7) /\ in' \in BOOLEAN
  BY XHandledPointer DEF XPointerInv
<1>2. PICK y \in BOOLEAN : Leads(queue, XPointerStep, XPointers, p, At(XHeld, y)) /\ XPointerRight(y)
  BY DEF XPointerInv, XPointerFollows
<1> DEFINE q == At(XHeld, y)
<1>3. \E c \in XPointers : <<Head(queue), p, c>> \in XPointerStep /\ Leads(Tail(queue), XPointerStep, XPointers, c, q)
  <2>1. Leads(queue, XPointerStep, XPointers, p, q)
    BY <1>2
  <2> HIDE DEF p, q
  <2> QED BY <1>0, <2>1, LeadsTail
<1>4. PICK c \in XPointers : <<Head(queue), p, c>> \in XPointerStep /\ Leads(Tail(queue), XPointerStep, XPointers, c, q)
  BY <1>3
<1> DEFINE cs == c.held
           z == c.inside
<1>5. c = At(cs, z) /\ cs \in SUBSET (0 .. 7) /\ z \in BOOLEAN
  BY PointerAt
<1> HIDE DEF cs, z
<1>6. XPoints(Head(queue), bs, in, cs, z)
  BY <1>0, <1>4, <1>5, PointerSteps
<1>7. cs = bs' /\ z = in'
  BY <1>1, <1>6 DEF XPoints
<1>8. XPointerFollows'
  <2>1. XHeld' = XHeld /\ XPointerStep' = XPointerStep /\ XPointerRight(y)'
    BY <1>0, <1>2 DEF XHeld, XPointerStep, XPointerRight
  <2>2. Leads(queue', XPointerStep, XPointers, At(bs', in'), At(XHeld, y))
    BY <1>0, <1>4, <1>5, <1>7
  <2> QED BY <2>1, <2>2 DEF XPointerFollows
<1> QED BY <1>0, <1>1, <1>8 DEF XPointerInv

LEMMA XPointerStays ==
    ASSUME XPointerInv, UNCHANGED <<queue, place, buttons, drag, astray, button_status, is_mouse_inside, told>>
    PROVE  XPointerInv'
BY DEF XPointerInv, XPointerFollows, XPointerRight, XHeld, At, XPointerStep

LEMMA XPointerInit ==
    ASSUME X!Init
    PROVE  XPointerInv
<1>1. /\ queue = <<>> /\ place = "out" /\ buttons = {} /\ drag = FALSE /\ astray = FALSE
      /\ button_status = {} /\ is_mouse_inside = FALSE /\ told.inside = FALSE
  BY DEF X!Init
<1>2. XHeld = {} /\ {} \in SUBSET (0 .. 7)
  BY <1>1 DEF XHeld
<1> DEFINE p == At({}, FALSE)
<1>3. p \in XPointers
  BY <1>2, PointerAt
<1> HIDE DEF p
<1>4. Leads(<<>>, XPointerStep, XPointers, p, p)
  BY <1>3, LeadsEmpty
<1>5. XPointerRight(FALSE)
  BY <1>1 DEF XPointerRight
<1>6. XPointerFollows
  BY <1>1, <1>2, <1>4, <1>5 DEF XPointerFollows, p
<1> QED BY <1>1, <1>6 DEF XPointerInv

LEMMA XStepPointer ==
    ASSUME X11Parameters, X11IInv, XPointerInv, [X!Next]_X!vars
    PROVE  XPointerInv'
<1> USE DEF X11IInv
<1>1. CASE X!Server
  BY <1>1, XServerPointer
<1>2. CASE X!process_event
  BY <1>2, XProcessPointer
<1>3. CASE X!mfb_open_ex \/ X!Drained \/ X!Pump \/ X!Application \/ \E b \in XSizes \cup {0} : X!mfb_update_ex(b)
  <2>1. UNCHANGED <<X!user, button_status, is_mouse_inside, told>>
    BY <1>3 DEF X!mfb_open_ex, X!Drained, X!Pump, X!Application, X!mfb_update_ex, X!Call, X!mfb_close, X!mfb_set_viewport,
                X!input
  <2> QED BY <2>1, XPointerStays DEF X!user
<1>4. CASE UNCHANGED X!vars
  BY <1>4, XPointerStays DEF X!vars, X!user, X!input
<1> QED BY <1>1, <1>2, <1>3, <1>4 DEF X!Next, X!Library

LEMMA XPointerHolds ==
    ASSUME X11InputOK, XPointerInv
    PROVE  X!PointerSettles
<1>1. ASSUME X!Quiet
      PROVE  /\ button_status = XHeld
             /\ buttons = {} /\ ~drag /\ ~astray => is_mouse_inside = (place = "in")
  <2>0. queue = <<>> /\ button_status \in SUBSET (0 .. 7) /\ is_mouse_inside \in BOOLEAN /\ XHeld \in SUBSET (0 .. 7)
    BY <1>1 DEF X!Quiet, X11InputOK, XHeld
  <2> DEFINE p == At(button_status, is_mouse_inside)
  <2>1. PICK y \in BOOLEAN : Leads(<<>>, XPointerStep, XPointers, p, At(XHeld, y)) /\ XPointerRight(y)
    BY <2>0 DEF XPointerInv, XPointerFollows
  <2> DEFINE q == At(XHeld, y)
  <2>2. p \in XPointers /\ Leads(<<>>, XPointerStep, XPointers, p, q)
    BY <2>0, <2>1, PointerAt
  <2> HIDE DEF p, q
  <2>3. p = q
    BY <2>2, LeadsEmpty
  <2>4. button_status = XHeld /\ is_mouse_inside = y
    BY <2>0, <2>3, PointerAt DEF p, q
  <2>5. buttons = {} => XHeld = {}
    BY DEF XHeld
  <2> QED BY <2>0, <2>1, <2>4, <2>5 DEF XPointerRight
<1>2. told.inside = is_mouse_inside
  BY DEF XPointerInv
<1> QED BY <1>1, <1>2 DEF X!PointerSettles, XHeld

--------------------------------------------------------------------------------
\* Windows.  A button of the table that is up already has its release on the way, or the
\* loss of the capture, unless its release went elsewhere.
WHeld(b) == b \in buttons \cup lost
WButtonDeciding(b) ==
    {m \in Message : m.type = "WM_CAPTURECHANGED" \/ (m.type \in {"Down", "Up"} /\ m.button = b)}
WButtonRight(b) == {m \in Message : m.type = "Down" => WHeld(b)}
WButtonKnown(b) == b \in button_status => WHeld(b)
WButtonFollows(b) == Follows(queue, WButtonDeciding(b), WButtonRight(b), WButtonKnown(b))

\* While the pointer is in the window no leave, and no release outside, is the last word.
WArriving(m) == m.type = "WM_MOUSEMOVE" /\ m.at # "out"
WArrivals == {m \in Message : WArriving(m)}
WCrossings ==
    {m \in Message : WArriving(m) \/ m.type = "WM_MOUSELEAVE" \/ (m.type = "Up" /\ m.at = "out")}
WCrossingsFollow ==
    place = "in" /\ pc \notin {"failed", "gone"} => Follows(queue, WCrossings, WArrivals, is_mouse_inside)

\* Inside with no button held, the leave can still come or is on its way.
WLeaveWaits == \E i \in 1 .. Len(queue) : queue[i] = W!Leave
WTracked ==
    /\ tracking => place = "in"
    /\ is_mouse_inside /\ button_status = {} => tracking \/ WLeaveWaits

WinPointerInv ==
    /\ told.inside = is_mouse_inside \/ pc = "gone"
    /\ told.buttons = button_status
    /\ pc = "opening" => ~is_mouse_inside
    /\ WTracked /\ WCrossingsFollow
    /\ \A b \in WButtons : WButtonFollows(b)

--------------------------------------------------------------------------------
LEMMA WButtonKept ==
    ASSUME queue \in Seq(Message), NEW b \in WButtons, WButtonFollows(b), NEW s \in Seq(Message),
           queue' = queue \o s, \A i \in 1 .. Len(s) : s[i] \notin WButtonDeciding(b),
           WHeld(b) => WHeld(b)', b \in button_status' => b \in button_status
    PROVE  WButtonFollows(b)'
<1>1. Follows(queue \o s, WButtonDeciding(b), WButtonRight(b), WButtonKnown(b))
  BY FollowsKept DEF WButtonFollows
<1>2. WButtonRight(b) \subseteq WButtonRight(b)' /\ (WButtonKnown(b) => WButtonKnown(b)')
  BY DEF WButtonRight, WButtonKnown
<1>3. WButtonDeciding(b)' = WButtonDeciding(b)
  BY DEF WButtonDeciding
<1> QED BY <1>1, <1>2, <1>3, FollowsMore DEF WButtonFollows

LEMMA WButtonNew ==
    ASSUME queue \in Seq(Message), NEW b \in WButtons, NEW m \in Message, queue' = queue \o <<m>>,
           m \in WButtonDeciding(b), m.type = "Down" => WHeld(b)'
    PROVE  WButtonFollows(b)'
<1>1. m \in WButtonDeciding(b) \cap WButtonRight(b)'
  BY DEF WButtonRight
<1>2. Follows(queue \o <<m>>, WButtonDeciding(b), WButtonRight(b)', WButtonKnown(b)')
  BY <1>1, FollowsOne
<1>3. WButtonDeciding(b)' = WButtonDeciding(b)
  BY DEF WButtonDeciding
<1> QED BY <1>2, <1>3 DEF WButtonFollows

\* What is posted behind a leave does not take it away.
LEMMA WLeaveStays ==
    ASSUME queue \in Seq(Message), NEW s \in Seq(Message), queue' = queue \o s,
           WLeaveWaits \/ \E i \in 1 .. Len(s) : s[i] = W!Leave
    PROVE  WLeaveWaits'
<1> DEFINE e == W!Leave
<1>1. e' = e
  BY DEF W!Leave
<1> HIDE DEF e
<1>2. CASE \E i \in 1 .. Len(queue) : queue[i] = e
  <2>1. PICK i \in 1 .. Len(queue) : queue[i] = e
    BY <1>2
  <2>2. i \in 1 .. Len(queue') /\ queue'[i] = e
    BY <2>1, ConcatElements
  <2> QED BY <1>1, <2>2 DEF WLeaveWaits, e
<1>3. CASE \E i \in 1 .. Len(s) : s[i] = e
  <2>1. PICK i \in 1 .. Len(s) : s[i] = e
    BY <1>3
  <2>2. Len(queue) + i \in 1 .. Len(queue') /\ queue'[Len(queue) + i] = e
    BY <2>1, ConcatElements
  <2> QED BY <1>1, <2>2 DEF WLeaveWaits, e
<1> QED BY <1>2, <1>3 DEF WLeaveWaits, e

\* Messages that are none of the pointer's.
LEMMA WPointerUnseen ==
    ASSUME queue \in Seq(Message), WinPointerInv, NEW s \in Seq(Message), queue' = queue \o s,
           \A i \in 1 .. Len(s) :
               s[i].type \notin {"WM_CAPTURECHANGED", "Down", "Up", "WM_MOUSEMOVE", "WM_MOUSELEAVE"},
           UNCHANGED <<place, buttons, lost, tracking, button_status, is_mouse_inside, told, pc>>
    PROVE  WinPointerInv'
<1>1. ASSUME NEW b \in WButtons PROVE WButtonFollows(b)'
  <2>1. \A i \in 1 .. Len(s) : s[i] \notin WButtonDeciding(b)
    BY DEF WButtonDeciding
  <2>2. WButtonFollows(b) /\ WHeld(b)' = WHeld(b)
    BY DEF WinPointerInv, WHeld
  <2> QED BY <2>1, <2>2, WButtonKept
<1>2. WCrossingsFollow'
  <2>1. \A i \in 1 .. Len(s) : s[i] \notin WCrossings
    BY DEF WCrossings, WArriving
  <2>2. WCrossings' = WCrossings /\ WArrivals' = WArrivals
    BY DEF WCrossings, WArrivals
  <2> QED BY <2>1, <2>2, FollowsKept DEF WinPointerInv, WCrossingsFollow
<1>3. WTracked'
  BY WLeaveStays DEF WinPointerInv, WTracked
<1> QED BY <1>1, <1>2, <1>3 DEF WinPointerInv

LEMMA WSystemPointer ==
    ASSUME QueueOK, WinInputOK, WinWindowOK, WinPointerInv, W!System
    PROVE  WinPointerInv'
<1>u. UNCHANGED <<button_status, is_mouse_inside, told, pc>>
  BY DEF W!System, W!input, W!program
<1>t. /\ queue \in Seq(Message) /\ <<>> \in Seq(Message) /\ Len(<<>>) = 0 /\ queue \o <<>> = queue
      /\ \A m \in Message : <<m>> \in Seq(Message) /\ Len(<<m>>) = 1 /\ <<m>>[1] = m
  BY OneMessage, EmptySeq, ConcatEmptySeq DEF QueueOK
<1>p. place \in {"in", "covered", "out"}
  BY DEF WinInputOK
<1>i. /\ \A b \in WButtons : WButtonFollows(b)
      /\ WTracked /\ WCrossingsFollow
  BY DEF WinPointerInv
<1>w. /\ WCrossings' = WCrossings /\ WArrivals' = WArrivals
  BY DEF WCrossings, WArrivals
\* One message of the pointer.
<1>o. ASSUME NEW m \in Message, queue' = queue \o <<m>>, UNCHANGED <<place, tracking>>,
             m \notin WCrossings \/ place # "in",
             \A b \in WButtons : \/ m \in WButtonDeciding(b) /\ (m.type = "Down" => WHeld(b)')
                                 \/ m \notin WButtonDeciding(b) /\ (WHeld(b) => WHeld(b)')
      PROVE  WinPointerInv'
  <2> DEFINE s == <<m>>
  <2>0. s \in Seq(Message) /\ queue' = queue \o s /\ \A i \in 1 .. Len(s) : s[i] = m
    BY <1>t, <1>o
  <2> HIDE DEF s
  <2>1. ASSUME NEW b \in WButtons PROVE WButtonFollows(b)'
    <3>1. CASE m \in WButtonDeciding(b) /\ (m.type = "Down" => WHeld(b)')
      BY <1>o, <1>t, <3>1, WButtonNew
    <3>2. CASE m \notin WButtonDeciding(b) /\ (WHeld(b) => WHeld(b)')
      <4>1. \A i \in 1 .. Len(s) : s[i] \notin WButtonDeciding(b)
        BY <2>0, <3>2
      <4> QED BY <1>u, <1>i, <1>t, <2>0, <3>2, <4>1, WButtonKept
    <3> QED BY <1>o, <3>1, <3>2
  <2>2. WCrossingsFollow'
    <3>1. CASE m \notin WCrossings
      <4>1. \A i \in 1 .. Len(s) : s[i] \notin WCrossings
        BY <2>0, <3>1
      <4> QED BY <1>o, <1>u, <1>i, <1>t, <1>w, <2>0, <4>1, FollowsKept DEF WCrossingsFollow
    <3> QED BY <1>o, <3>1 DEF WCrossingsFollow
  <2>3. WTracked'
    BY <1>o, <1>u, <1>i, <1>t, <2>0, WLeaveStays DEF WTracked
  <2> QED BY <1>u, <2>1, <2>2, <2>3 DEF WinPointerInv
<1>1. CASE W!ChangeFocus \/ (\E k \in WKeys : W!KeyDown(k) \/ W!KeyUp(k))
           \/ (\E s \in WSizes \cup {0} : W!Resize("WM_SIZE", s) \/ (s > 0 /\ W!Resize("WM_DPICHANGED", s)))
           \/ W!Resize("SIZE_MINIMIZED", 0)
           \/ (\E type \in {"WM_CLOSE", "WM_DESTROY", "WM_PAINT"} : W!Ask(type))
  <2> DEFINE Other(m) == /\ m \in Message
                         /\ m.type \notin {"WM_CAPTURECHANGED", "Down", "Up", "WM_MOUSEMOVE", "WM_MOUSELEAVE"}
             Others == {m \in Message : Other(m)}
  <2>1. UNCHANGED <<place, buttons, lost, tracking>>
    BY <1>1 DEF W!ChangeFocus, W!KeyDown, W!KeyUp, W!Resize, W!Ask
  <2>m. /\ \A k \in WKeys, pressed \in BOOLEAN : Other(W!Key(k, pressed))
        /\ \A k \in WKeys : Other(W!Silent(k))
        /\ \A type \in {"WM_SETFOCUS", "WM_KILLFOCUS", "WM_CLOSE", "WM_DESTROY", "WM_PAINT"} : Other([type |-> type])
        /\ \A type \in {"WM_SIZE", "WM_DPICHANGED", "SIZE_MINIMIZED"}, s \in WSizes \cup {0} :
               Other([type |-> type, size |-> s])
    BY Messages DEF W!Key, W!Silent
  <2> HIDE DEF Other
  <2>2. \E s \in Seq(Message) : queue' = queue \o s /\ (s = <<>> \/ \E m \in Message : s = <<m>> /\ Other(m))
    <3>n. \A m : Other(m) => m \in Message
      BY DEF Other
    <3> DEFINE Fine(s) == s \in Seq(Message) /\ (s = <<>> \/ \E m \in Message : s = <<m>> /\ Other(m))
    <3>f. Fine(<<>>) /\ \A m : Other(m) => Fine(<<m>>)
      BY <1>t, <3>n
    <3> HIDE DEF Fine
    <3>1. CASE W!ChangeFocus
      <4>1. queue' = queue \o <<[type |-> IF focus THEN "WM_KILLFOCUS" ELSE "WM_SETFOCUS"]>>
        BY <3>1 DEF W!ChangeFocus, W!Post
      <4> QED BY <2>m, <3>f, <4>1 DEF Fine
    <3>2. CASE \E k \in WKeys : W!KeyDown(k) \/ W!KeyUp(k)
      BY <2>m, <3>f, <3>2 DEF W!KeyDown, W!KeyUp, W!Post, Fine
    <3>3. CASE (\E s \in WSizes \cup {0} : W!Resize("WM_SIZE", s) \/ (s > 0 /\ W!Resize("WM_DPICHANGED", s)))
               \/ W!Resize("SIZE_MINIMIZED", 0)
      BY <2>m, <3>f, <3>3 DEF W!Resize, W!Post, Fine
    <3>4. CASE \E type \in {"WM_CLOSE", "WM_DESTROY", "WM_PAINT"} : W!Ask(type)
      BY <2>m, <3>f, <3>4 DEF W!Ask, W!Post, Fine
    <3> QED BY <1>1, <3>1, <3>2, <3>3, <3>4
  <2>3. PICK s \in Seq(Message) : queue' = queue \o s /\ (s = <<>> \/ \E m \in Message : s = <<m>> /\ Other(m))
    BY <2>2
  <2>4. \A i \in 1 .. Len(s) : Other(s[i])
    <3>1. CASE s = <<>>
      <4>1. \A i \in 1 .. Len(s) : FALSE
        BY <1>t, <3>1
      <4> QED BY <4>1
    <3>2. CASE \E m \in Message : s = <<m>> /\ Other(m)
      <4>1. PICK m \in Message : s = <<m>> /\ Other(m)
        BY <3>2
      <4>2. \A i \in 1 .. Len(s) : s[i] = m
        BY <1>t, <4>1
      <4> QED BY <4>1, <4>2
    <3> QED BY <2>3, <3>1, <3>2
  <2> QED BY <1>u, <1>t, <2>1, <2>3, <2>4, WPointerUnseen DEF Other
<1>2. ASSUME NEW p \in {"in", "covered", "out"}, W!MovePointer(p) PROVE WinPointerInv'
  <2> DEFINE move == [type |-> "WM_MOUSEMOVE", at |-> p]
             left == IF tracking /\ p # "in" THEN <<W!Leave>> ELSE <<>>
             moved == IF capture \/ p = "in" THEN <<move>> ELSE <<>>
  <2>0. /\ place' = p /\ UNCHANGED <<buttons, lost>> /\ tracking' = (tracking /\ p = "in")
        /\ queue' = queue \o (left \o moved)
    BY <1>2 DEF W!MovePointer, W!Post
  <2>1. /\ move \in Message /\ W!Leave \in Message
        /\ move.type = "WM_MOUSEMOVE" /\ move.at = p /\ W!Leave.type = "WM_MOUSELEAVE"
    BY Messages DEF W!Leave
  <2>2. left \in Seq(Message) /\ moved \in Seq(Message)
    BY <1>t, <2>1
  <2>3. /\ \A i \in 1 .. Len(left) : left[i] = W!Leave
        /\ \A i \in 1 .. Len(moved) : moved[i] = move
    BY <1>t, <2>1
  <2>d. /\ tracking /\ p # "in" => left = <<W!Leave>>
        /\ p = "in" => left = <<>> /\ moved = <<move>>
    OBVIOUS
  <2> HIDE DEF left, moved, move
  <2> DEFINE s == left \o moved
  <2>4. /\ s \in Seq(Message) /\ Len(s) = Len(left) + Len(moved) /\ Len(left) \in Nat /\ Len(moved) \in Nat
        /\ \A i \in 1 .. Len(left) : s[i] = left[i]
        /\ \A i \in 1 .. Len(moved) : s[Len(left) + i] = moved[i]
    BY <2>2, ConcatElements
  <2>5. queue' = queue \o s
    BY <2>0
  <2> HIDE DEF s
  <2>6. ASSUME NEW i \in 1 .. Len(s) PROVE s[i] = W!Leave \/ s[i] = move
    <3>1. CASE i <= Len(left)
      BY <2>3, <2>4, <3>1
    <3>2. CASE ~(i <= Len(left))
      <4>1. i - Len(left) \in 1 .. Len(moved) /\ Len(left) + (i - Len(left)) = i
        BY <2>4, <3>2
      <4> QED BY <2>3, <2>4, <4>1
    <3> QED BY <3>1, <3>2
  <2>7. ASSUME NEW b \in WButtons PROVE WButtonFollows(b)'
    <3>1. \A i \in 1 .. Len(s) : s[i] \notin WButtonDeciding(b)
      BY <2>1, <2>6 DEF WButtonDeciding
    <3>2. WHeld(b)' = WHeld(b)
      BY <2>0 DEF WHeld
    <3> QED BY <1>u, <1>i, <1>t, <2>4, <2>5, <3>1, <3>2, WButtonKept
  <2>8. WCrossingsFollow'
    <3>1. CASE p = "in"
      <4>1. s = <<move>>
        BY <1>t, <2>1, <2>d, <3>1, ConcatEmptySeq DEF s
      <4>2. move \in WCrossings \cap WArrivals
        BY <2>1, <3>1 DEF WCrossings, WArrivals, WArriving
      <4>3. Follows(queue \o <<move>>, WCrossings, WArrivals, is_mouse_inside)
        BY <1>t, <2>1, <4>2, FollowsOne
      <4> QED BY <1>u, <1>w, <2>5, <4>1, <4>3 DEF WCrossingsFollow
    <3>2. CASE p # "in"
      BY <2>0, <3>2 DEF WCrossingsFollow
    <3> QED BY <3>1, <3>2
  <2>9. WTracked'
    <3>1. tracking' => place' = "in"
      BY <2>0
    <3>2. CASE tracking /\ p # "in"
      <4>0. left = <<W!Leave>> /\ Len(<<W!Leave>>) = 1 /\ <<W!Leave>>[1] = W!Leave
        BY <1>t, <2>1, <2>d, <3>2
      <4>1. 1 \in 1 .. Len(left) /\ left[1] = W!Leave
        BY <4>0
      <4>2. 1 \in 1 .. Len(s) /\ s[1] = W!Leave
        BY <2>4, <4>1
      <4> QED BY <1>t, <2>4, <2>5, <3>1, <4>2, WLeaveStays DEF WTracked
    <3>3. CASE tracking /\ p = "in"
      BY <2>0, <3>1, <3>3 DEF WTracked
    <3>4. CASE ~tracking
      BY <1>u, <1>i, <1>t, <2>4, <2>5, <3>1, <3>4, WLeaveStays DEF WTracked
    <3> QED BY <3>2, <3>3, <3>4
  <2> QED BY <1>u, <2>7, <2>8, <2>9 DEF WinPointerInv
<1>3. ASSUME NEW b \in WButtons, W!ButtonDown(b) PROVE WinPointerInv'
  <2> DEFINE m == W!Mouse("Down", b)
  <2>0. /\ UNCHANGED <<place, tracking>> /\ buttons' = buttons \cup {b} /\ lost' = lost \ {b}
        /\ queue' = queue \o <<m>>
    BY <1>3 DEF W!ButtonDown, W!Post
  <2>1. m \in Message /\ m.type = "Down" /\ m.button = b
    BY <1>p, Messages DEF W!Mouse
  <2> HIDE DEF m
  <2>2. m \notin WCrossings
    BY <2>1 DEF WCrossings, WArriving
  <2>3. \A c \in WButtons : \/ m \in WButtonDeciding(c) /\ (m.type = "Down" => WHeld(c)')
                            \/ m \notin WButtonDeciding(c) /\ (WHeld(c) => WHeld(c)')
    BY <2>0, <2>1 DEF WButtonDeciding, WHeld
  <2> QED BY <1>o, <2>0, <2>1, <2>2, <2>3
<1>4. ASSUME NEW b \in WButtons, W!ButtonUp(b) PROVE WinPointerInv'
  <2> DEFINE m == W!Mouse("Up", b)
  <2>0. /\ UNCHANGED <<place, tracking>> /\ b \in buttons /\ buttons' = buttons \ {b}
        /\ \/ queue' = queue \o <<m>> /\ lost' = lost
           \/ queue' = queue \o <<>> /\ lost' = lost \cup {b}
    BY <1>4 DEF W!ButtonUp, W!Post
  <2>1. m \in Message /\ m.type = "Up" /\ m.button = b /\ m.at = place
    BY <1>p, Messages DEF W!Mouse
  <2> HIDE DEF m
  <2>2. CASE queue' = queue \o <<m>> /\ lost' = lost
    <3>2. m \notin WCrossings \/ place # "in"
      BY <2>1 DEF WCrossings, WArriving
    <3>3. \A c \in WButtons : \/ m \in WButtonDeciding(c) /\ (m.type = "Down" => WHeld(c)')
                              \/ m \notin WButtonDeciding(c) /\ (WHeld(c) => WHeld(c)')
      BY <2>0, <2>1, <2>2 DEF WButtonDeciding, WHeld
    <3> QED BY <1>o, <2>0, <2>1, <2>2, <3>2, <3>3
  <2>3. CASE queue' = queue \o <<>> /\ lost' = lost \cup {b}
    <3>1. queue' = queue
      BY <1>t, <2>3
    <3>2. ASSUME NEW c \in WButtons PROVE WButtonFollows(c)'
      <4>1. WHeld(c) => WHeld(c)'
        BY <2>0, <2>3 DEF WHeld
      <4>2. \A i \in 1 .. Len(<<>>) : FALSE
        BY <1>t
      <4> QED BY <1>u, <1>i, <1>t, <2>3, <4>1, <4>2, WButtonKept
    <3> QED BY <1>u, <1>i, <1>w, <2>0, <3>1, <3>2 DEF WinPointerInv, WTracked, WCrossingsFollow, WLeaveWaits, W!Leave
  <2> QED BY <2>0, <2>2, <2>3
<1>5. CASE W!TakeCapture
  <2> DEFINE m == [type |-> "WM_CAPTURECHANGED"]
  <2>0. /\ UNCHANGED <<place, tracking>> /\ queue' = queue \o <<m>>
    BY <1>5 DEF W!TakeCapture, W!Post
  <2>1. m \in Message /\ m.type = "WM_CAPTURECHANGED"
    BY Messages
  <2> HIDE DEF m
  <2>2. m \notin WCrossings /\ \A c \in WButtons : m \in WButtonDeciding(c) /\ m.type # "Down"
    BY <2>1 DEF WCrossings, WArriving, WButtonDeciding
  <2> QED BY <1>o, <2>0, <2>1, <2>2
<1> QED BY <1>1, <1>2, <1>3, <1>4, <1>5 DEF W!System

--------------------------------------------------------------------------------
\* What a message does to the pointer: the tracker is armed, which posts the leave when the
\* pointer is elsewhere, or left alone.
WArms ==
    /\ tracking' = (place = "in")
    /\ queue' = Tail(queue) \o (IF place = "in" THEN <<>> ELSE <<W!Leave>>)
WRests == UNCHANGED tracking /\ queue' = Tail(queue)

\* The end of a drag: what is known to be outside is, what is inside is watched.
WSettles(inside) ==
    /\ WArms \/ WRests
    /\ is_mouse_inside' => is_mouse_inside /\ WArms
    /\ is_mouse_inside /\ inside /\ place = "in" => is_mouse_inside'

WPointed(m) ==
    /\ (told'.inside = told.inside /\ is_mouse_inside' = is_mouse_inside) \/ told'.inside = is_mouse_inside'
    /\ (told'.buttons = told.buttons /\ button_status' = button_status) \/ told'.buttons = button_status'
    /\ CASE m.type = "Down" ->
              WRests /\ is_mouse_inside' = is_mouse_inside /\ button_status' = button_status \cup {m.button}
         [] m.type = "Up" ->
              /\ button_status' = button_status \ {m.button}
              /\ \/ button_status' # {} /\ WRests /\ is_mouse_inside' = is_mouse_inside
                 \/ WSettles(m.at # "out")
         [] m.type = "WM_CAPTURECHANGED" -> button_status' = {} /\ WSettles(TRUE)
         [] m.type = "WM_MOUSEMOVE" ->
              /\ button_status' = button_status
              /\ \/ ~is_mouse_inside /\ m.at # "out" /\ WArms /\ is_mouse_inside'
                 \/ (is_mouse_inside \/ m.at = "out") /\ WRests /\ is_mouse_inside' = is_mouse_inside
         [] m.type = "WM_MOUSELEAVE" ->
              /\ button_status' = button_status /\ WRests
              /\ is_mouse_inside' = is_mouse_inside \/ ~is_mouse_inside'
              /\ button_status = {} => ~is_mouse_inside'
         [] OTHER -> button_status' = button_status /\ WRests /\ is_mouse_inside' = is_mouse_inside

LEMMA WSettled ==
    ASSUME queue \in Seq(Message), queue # <<>>, NEW inside \in BOOLEAN, NEW other \in BOOLEAN, place = "in" => other,
           W!settle_mouse_inside({inside} \cup IF capture THEN {other} ELSE {}) \/
           (inside = other /\ W!settle_mouse_inside({other}))
    PROVE  WSettles(inside)
<1>1. PICK points \in SUBSET BOOLEAN :
          /\ W!settle_mouse_inside(points) /\ points # {}
          /\ FALSE \in points => ~inside \/ ~other
  <2> DEFINE several == {inside} \cup IF capture THEN {other} ELSE {}
             one == {other}
  <2>1. several \in SUBSET BOOLEAN /\ several # {} /\ (FALSE \in several => ~inside \/ ~other)
    <3>1. CASE capture
      BY <3>1
    <3>2. CASE ~capture
      BY <3>2
    <3> QED BY <3>1, <3>2
  <2>2. one \in SUBSET BOOLEAN /\ one # {} /\ (FALSE \in one => ~other)
    OBVIOUS
  <2>3. W!settle_mouse_inside(several) \/ W!settle_mouse_inside(one)
    OBVIOUS
  <2> HIDE DEF several, one
  <2> QED BY <2>1, <2>2, <2>3
<1>2. is_mouse_inside' = (is_mouse_inside /\ FALSE \notin points)
  BY <1>1 DEF W!settle_mouse_inside, W!set_mouse_inside
<1>3. IF TRUE \in points THEN WArms ELSE WRests
  BY <1>1 DEF W!settle_mouse_inside, W!track_mouse_leave, W!NoPost, WArms, WRests
<1>4. FALSE \notin points => TRUE \in points
  BY <1>1
<1> HIDE DEF WArms, WRests
<1> QED BY <1>1, <1>2, <1>3, <1>4 DEF WSettles

LEMMA WProcPoints ==
    ASSUME WinParameters, QueueOK, WinInputOK, WinWindowOK, W!WndProc
    PROVE  WPointed(Head(queue))
<1> DEFINE m == Head(queue)
<1>0. W!OnKey(m) \/ W!OnSilent(m) \/ W!OnPointer(m) \/ W!OnFocus(m) \/ W!OnWindow(m)
  BY DEF W!WndProc
<1>q. m \in Message /\ queue \in Seq(Message) /\ queue # <<>>
  BY HeadIsTyped DEF W!WndProc, QueueOK
<1>t. told \in WinTold /\ is_mouse_inside \in BOOLEAN /\ button_status \subseteq WButtons
  BY DEF WinWindowOK, WinInputOK
<1> HIDE DEF m
<1> SUFFICES WPointed(m)
  BY DEF m
<1> DEFINE Type == m.type
<1>1. CASE ~W!OnPointer(m)
  <2>1. /\ m.type \notin {"Down", "Up", "WM_CAPTURECHANGED", "WM_MOUSEMOVE", "WM_MOUSELEAVE"}
        /\ UNCHANGED <<button_status, is_mouse_inside, tracking>> /\ queue' = Tail(queue)
    BY <1>0, <1>1 DEF W!OnKey, W!OnSilent, W!OnFocus, W!OnSetFocus, W!OnKillFocus, W!OnWindow, W!OnSize, W!OnClose,
                      W!OnPaint, m
  <2>2. told'.inside = told.inside /\ told'.buttons = told.buttons
    <3>1. CASE W!OnKey(m) \/ W!OnSilent(m)
      BY <1>t, <3>1 DEF W!OnKey, W!OnSilent, WinTold
    <3>2. CASE W!OnFocus(m)
      BY <1>t, <3>2 DEF W!OnFocus, W!OnSetFocus, W!OnKillFocus, WinTold
    <3>3. CASE W!OnWindow(m)
      BY <1>t, <3>3 DEF W!OnWindow, W!OnSize, W!OnClose, W!OnPaint, WinTold
    <3> QED BY <1>0, <1>1, <3>1, <3>2, <3>3
  <2> QED BY <2>1, <2>2 DEF WPointed, WRests
<1>2. CASE W!OnPointer(m)
  <2>1. told'.inside = is_mouse_inside' /\ told'.buttons = button_status'
    BY <1>2, <1>t DEF W!OnPointer, WinTold
  <2>2. CASE W!OnButtonDown(m)
    BY <2>1, <2>2 DEF W!OnButtonDown, WPointed, WRests, m
  <2>3. CASE W!OnButtonUp(m)
    <3>1. m.type = "Up" /\ button_status' = button_status \ {m.button}
      BY <2>3 DEF W!OnButtonUp
    <3>2. CASE button_status' = {}
      <4>1. W!settle_mouse_inside({m.at # "out"} \cup IF capture THEN {place # "out"} ELSE {})
        BY <2>3, <3>2 DEF W!OnButtonUp
      <4>2. WSettles(m.at # "out")
        BY <1>q, <4>1, WSettled
      <4> QED BY <2>1, <3>1, <4>2 DEF WPointed
    <3>3. CASE button_status' # {}
      <4>1. WRests /\ is_mouse_inside' = is_mouse_inside
        BY <2>3, <3>3 DEF W!OnButtonUp, WRests, m
      <4> QED BY <2>1, <3>1, <3>3, <4>1 DEF WPointed
    <3> QED BY <3>2, <3>3
  <2>4. CASE W!OnCaptureChanged(m)
    <3>1. m.type = "WM_CAPTURECHANGED" /\ button_status' = {} /\ W!settle_mouse_inside({place # "out"})
      BY <2>4 DEF W!OnCaptureChanged, W!release_mouse_buttons
    <3>2. WSettles(place # "out")
      BY <1>q, <3>1, WSettled
    <3>3. WSettles(TRUE)
      BY <3>2 DEF WSettles
    <3> QED BY <2>1, <3>1, <3>3 DEF WPointed
  <2>5. CASE W!OnMove(m)
    <3>1. m.type = "WM_MOUSEMOVE" /\ button_status' = button_status
      BY <2>5 DEF W!OnMove
    <3>2. CASE ~is_mouse_inside /\ m.at # "out"
      <4>1. W!track_mouse_leave(TRUE) /\ is_mouse_inside' = TRUE
        BY <2>5, <3>2 DEF W!OnMove, W!set_mouse_inside
      <4>2. WArms
        BY <4>1 DEF W!track_mouse_leave, W!NoPost, WArms, m
      <4> QED BY <2>1, <3>1, <3>2, <4>1, <4>2 DEF WPointed
    <3>3. CASE ~(~is_mouse_inside /\ m.at # "out")
      <4>1. WRests /\ is_mouse_inside' = is_mouse_inside
        BY <2>5, <3>3 DEF W!OnMove, WRests, m
      <4> QED BY <2>1, <3>1, <3>3, <4>1 DEF WPointed
    <3> QED BY <3>2, <3>3
  <2>6. CASE W!OnLeave(m)
    <3>1. /\ m.type = "WM_MOUSELEAVE" /\ button_status' = button_status /\ WRests
          /\ IF button_status = {} THEN is_mouse_inside' = FALSE ELSE is_mouse_inside' = is_mouse_inside
      BY <2>6 DEF W!OnLeave, W!set_mouse_inside, WRests, m
    <3>2. /\ is_mouse_inside' = is_mouse_inside \/ ~is_mouse_inside'
          /\ button_status = {} => ~is_mouse_inside'
      BY <3>1
    <3> QED BY <2>1, <3>1, <3>2 DEF WPointed
  <2> QED BY <1>2, <2>2, <2>3, <2>4, <2>5, <2>6 DEF W!OnPointer
<1> QED BY <1>1, <1>2

\* What is left of the queue after a message: the leave of a tracker armed elsewhere at most.
LEMMA WAfter ==
    ASSUME queue \in Seq(Message), queue # <<>>, place \in {"in", "covered", "out"}, WArms \/ WRests
    PROVE  /\ Head(queue) \in Message /\ Head(queue) = queue[1]
           /\ \E s \in Seq(Message) :
                 /\ queue' = Tail(queue) \o s
                 /\ (\A i \in 1 .. Len(s) : s[i] = W!Leave)
                 /\ (place = "in" => queue' = Tail(queue))
           /\ (WLeaveWaits /\ Head(queue) # W!Leave => WLeaveWaits')
           /\ (WArms => tracking' \/ WLeaveWaits')
<1> DEFINE e == W!Leave
           r == Tail(queue)
<1>e. e' = e
  BY DEF W!Leave
<1>t. /\ e \in Message /\ <<>> \in Seq(Message) /\ <<e>> \in Seq(Message)
      /\ Len(<<e>>) = 1 /\ <<e>>[1] = e /\ Len(<<>>) = 0
  BY Messages, OneMessage DEF W!Leave
<1>q. /\ Head(queue) \in Message /\ Head(queue) = queue[1] /\ r \in Seq(Message)
      /\ Len(queue) \in Nat \ {0} /\ Len(r) = Len(queue) - 1
      /\ \A i \in 1 .. Len(queue) - 1 : r[i] = queue[i + 1]
  BY TailElements
<1> HIDE DEF e, r
<1>1. PICK s \in {<<>>, <<e>>} :
          /\ queue' = r \o s /\ (place = "in" => s = <<>>)
          /\ (WArms /\ ~tracking' => s = <<e>>)
  <2>0. r = r \o <<>>
    BY <1>q, ConcatEmptySeq
  <2>1. CASE WArms
    <3>1. CASE place = "in"
      BY <2>0, <2>1, <3>1 DEF WArms, r
    <3>2. CASE place # "in"
      BY <2>1, <3>2 DEF WArms, r, e
    <3> QED BY <3>1, <3>2
  <2>2. CASE ~WArms
    BY <2>0, <2>2 DEF WRests, r
  <2> QED BY <2>1, <2>2
<1>2. s \in Seq(Message) /\ \A i \in 1 .. Len(s) : s[i] = e
  <2>1. CASE s = <<>>
    BY <1>t, <2>1
  <2>2. CASE s = <<e>>
    BY <1>t, <2>2
  <2> QED BY <2>1, <2>2
<1>3. place = "in" => queue' = r
  BY <1>1, <1>q, ConcatEmptySeq
<1>4. ASSUME WLeaveWaits, Head(queue) # e PROVE WLeaveWaits'
  <2>1. PICK i \in 1 .. Len(queue) : queue[i] = e
    BY <1>4 DEF WLeaveWaits, e
  <2>2. i - 1 \in 1 .. Len(r) /\ r[i - 1] = e
    BY <1>4, <1>q, <2>1
  <2>3. i - 1 \in 1 .. Len(queue') /\ queue'[i - 1] = e
    BY <1>1, <1>2, <1>q, <2>2, ConcatElements
  <2> QED BY <1>e, <2>3 DEF WLeaveWaits, e
<1>5. ASSUME WArms, ~tracking' PROVE WLeaveWaits'
  <2>0. s = <<e>>
    BY <1>1, <1>5
  <2>1. 1 \in 1 .. Len(s) /\ s[1] = e
    BY <1>t, <2>0
  <2>2. Len(r) + 1 \in 1 .. Len(queue') /\ queue'[Len(r) + 1] = e
    BY <1>1, <1>2, <1>q, <2>1, ConcatElements
  <2> QED BY <1>e, <2>2 DEF WLeaveWaits, e
<1> QED BY <1>1, <1>2, <1>3, <1>4, <1>5, <1>q DEF e, r

LEMMA WProcPointer ==
    ASSUME WinParameters, QueueOK, WinInputOK, WinWindowOK, WinPointerInv, W!WndProc
    PROVE  WinPointerInv'
<1> DEFINE m == Head(queue)
<1>q. queue \in Seq(Message) /\ queue # <<>> /\ m \in Message
  BY HeadIsTyped DEF W!WndProc, QueueOK
<1>u. UNCHANGED <<place, buttons, lost, pc>> /\ pc = "drain"
  BY DEF W!WndProc, W!program
<1>t. /\ place \in {"in", "covered", "out"} /\ button_status \subseteq WButtons /\ is_mouse_inside \in BOOLEAN
      /\ told.inside = is_mouse_inside /\ told.buttons = button_status
  BY <1>u DEF WinInputOK, WinPointerInv
<1>p. WPointed(m)
  BY WProcPoints
<1>k. W!Leave \in Message /\ W!Leave.type = "WM_MOUSELEAVE"
      /\ \A x \in Message : x.type = "WM_MOUSELEAVE" => x = W!Leave
  BY Messages DEF W!Leave, Message
<1> HIDE DEF m
<1>m. WArms \/ WRests
  BY <1>p DEF WPointed, WSettles
<1>1. /\ m = queue[1]
      /\ \E s \in Seq(Message) :
            /\ queue' = Tail(queue) \o s
            /\ (\A i \in 1 .. Len(s) : s[i] = W!Leave)
            /\ (place = "in" => queue' = Tail(queue))
      /\ (WLeaveWaits /\ m # W!Leave => WLeaveWaits')
      /\ (WArms => tracking' \/ WLeaveWaits')
  BY <1>q, <1>t, <1>m, WAfter DEF m
<1>2. told'.inside = is_mouse_inside' /\ told'.buttons = button_status'
  BY <1>t, <1>p DEF WPointed
<1>3. WTracked'
  <2>1. tracking' => place' = "in"
    BY <1>m, <1>u DEF WArms, WRests, WinPointerInv, WTracked
  <2>2. ASSUME is_mouse_inside', button_status' = {} PROVE tracking' \/ WLeaveWaits'
    <3>1. CASE WArms
      BY <1>1, <3>1
    <3>2. CASE ~WArms
      <4>1. WRests /\ is_mouse_inside /\ button_status = {} /\ m # W!Leave
        <5>1. CASE m.type = "Up" \/ m.type = "WM_CAPTURECHANGED"
          BY <1>p, <2>2, <3>2, <5>1 DEF WPointed, WSettles
        <5>2. CASE m.type = "Down"
          BY <1>p, <2>2, <5>2 DEF WPointed
        <5>3. CASE m.type = "WM_MOUSEMOVE"
          BY <1>p, <1>k, <2>2, <3>2, <5>3 DEF WPointed
        <5>4. CASE m.type = "WM_MOUSELEAVE"
          BY <1>p, <2>2, <5>4 DEF WPointed
        <5>5. CASE m.type \notin {"Up", "WM_CAPTURECHANGED", "Down", "WM_MOUSEMOVE", "WM_MOUSELEAVE"}
          BY <1>p, <1>k, <2>2, <5>5 DEF WPointed
        <5> QED BY <5>1, <5>2, <5>3, <5>4, <5>5
      <4>2. tracking' = tracking /\ (tracking \/ WLeaveWaits)
        BY <4>1 DEF WRests, WinPointerInv, WTracked
      <4> QED BY <1>1, <4>1, <4>2
    <3> QED BY <3>1, <3>2
  <2> QED BY <2>1, <2>2 DEF WTracked
<1>4. WCrossingsFollow'
  <2> SUFFICES ASSUME place = "in" PROVE Follows(queue', WCrossings, WArrivals, is_mouse_inside')
    BY <1>u DEF WCrossingsFollow, WCrossings, WArrivals
  <2>1. queue' = Tail(queue) /\ Follows(queue, WCrossings, WArrivals, is_mouse_inside)
    BY <1>1, <1>u DEF WinPointerInv, WCrossingsFollow
  <2>2. ASSUME m \in WCrossings \cap WArrivals PROVE is_mouse_inside'
    BY <1>p, <1>t, <2>2 DEF WPointed, WArrivals, WArriving
  <2>3. ASSUME m \notin WCrossings, is_mouse_inside PROVE is_mouse_inside'
    <3>1. m.type # "WM_MOUSELEAVE" /\ ~(m.type = "Up" /\ m.at = "out")
      BY <1>q, <2>3 DEF WCrossings
    <3>2. CASE m.type = "Up" \/ m.type = "WM_CAPTURECHANGED"
      BY <1>p, <2>3, <3>1, <3>2 DEF WPointed, WSettles
    <3>3. CASE m.type \notin {"Up", "WM_CAPTURECHANGED", "WM_MOUSELEAVE"}
      BY <1>p, <2>3, <3>3 DEF WPointed
    <3> QED BY <3>1, <3>2, <3>3
  <2> QED BY <1>q, <2>1, <2>2, <2>3, FollowsTail DEF m
<1>5. ASSUME NEW b \in WButtons PROVE WButtonFollows(b)'
  <2>1. PICK s \in Seq(Message) : queue' = Tail(queue) \o s /\ \A i \in 1 .. Len(s) : s[i] = W!Leave
    BY <1>1
  <2> DEFINE D0 == WButtonDeciding(b)
             R0 == WButtonRight(b)
             k0 == WButtonKnown(b)
             k1 == WButtonKnown(b)'
  <2>2. D0' = D0 /\ R0' = R0 /\ WHeld(b)' = WHeld(b)
    BY <1>u DEF WButtonDeciding, WButtonRight, WHeld
  <2>3. Follows(queue, D0, R0, k0)
    BY DEF WinPointerInv, WButtonFollows
  <2>4. ASSUME m \notin D0, k0 PROVE k1
    <3>1. m.type # "WM_CAPTURECHANGED" /\ ~(m.type \in {"Down", "Up"} /\ m.button = b)
      BY <1>q, <2>4 DEF WButtonDeciding
    <3>2. b \in button_status' => b \in button_status
      BY <1>p, <3>1 DEF WPointed
    <3> QED BY <2>2, <2>4, <3>2 DEF WButtonKnown
  <2>5. ASSUME m \in D0 \cap R0 PROVE k1
    <3>1. CASE m.type = "Down"
      BY <2>2, <2>5, <3>1 DEF WButtonRight, WButtonKnown
    <3>2. CASE m.type = "Up" /\ m.button = b
      BY <1>p, <3>2 DEF WPointed, WButtonKnown
    <3>3. CASE m.type = "WM_CAPTURECHANGED"
      BY <1>p, <3>3 DEF WPointed, WButtonKnown
    <3> QED BY <2>5, <3>1, <3>2, <3>3 DEF WButtonDeciding
  <2>6. \A i \in 1 .. Len(s) : s[i] \notin D0
    BY <1>k, <2>1 DEF WButtonDeciding
  <2>7. Tail(queue) \in Seq(Message)
    BY <1>q, TailElements
  <2> HIDE DEF D0, R0, k0, k1
  <2>8. Follows(Tail(queue), D0, R0, k1)
    BY <1>q, <2>3, <2>4, <2>5, FollowsTail DEF m
  <2>9. Follows(queue', D0, R0, k1)
    BY <2>1, <2>6, <2>7, <2>8, FollowsKept
  <2> QED BY <2>2, <2>9 DEF WButtonFollows, D0, R0, k1
<1> QED BY <1>2, <1>3, <1>4, <1>5, <1>u DEF WinPointerInv

\* Steps that take no message: the window lives on with the pointer it has, or ends.
LEMMA WOtherPointer ==
    ASSUME WinInputOK, WinPointerInv, UNCHANGED <<queue, place, buttons, lost, tracking, button_status>>,
           told'.inside = told.inside, told'.buttons = told.buttons,
           \/ /\ is_mouse_inside' = is_mouse_inside /\ (pc' = "opening" => pc = "opening")
              /\ pc \in {"failed", "gone"} => pc' = pc
           \/ is_mouse_inside' = FALSE /\ (pc' = "gone" \/ (pc' = "failed" /\ pc = "opening"))
    PROVE  WinPointerInv'
<1>1. ASSUME NEW b \in WButtons PROVE WButtonFollows(b)'
  <2>1. WButtonFollows(b)
    BY DEF WinPointerInv
  <2> QED BY <2>1 DEF WButtonFollows, WButtonDeciding, WButtonRight, WButtonKnown, WHeld
<1>2. WCrossings' = WCrossings /\ WArrivals' = WArrivals /\ (WLeaveWaits => WLeaveWaits')
  BY DEF WCrossings, WArrivals, WLeaveWaits, W!Leave
<1>3. WTracked'
  <2>1. is_mouse_inside' => is_mouse_inside
    OBVIOUS
  <2> QED BY <1>2, <2>1 DEF WinPointerInv, WTracked
<1>4. WCrossingsFollow'
  BY <1>2 DEF WinPointerInv, WCrossingsFollow
<1>5. /\ told'.inside = is_mouse_inside' \/ pc' = "gone"
      /\ told'.buttons = button_status' /\ (pc' = "opening" => ~is_mouse_inside')
  <2>0. /\ told.inside = is_mouse_inside \/ pc = "gone"
        /\ told.buttons = button_status /\ (pc = "opening" => is_mouse_inside = FALSE)
    BY DEF WinPointerInv, WinInputOK
  <2>1. CASE /\ is_mouse_inside' = is_mouse_inside /\ (pc' = "opening" => pc = "opening")
             /\ pc \in {"failed", "gone"} => pc' = pc
    BY <2>0, <2>1
  <2>2. CASE is_mouse_inside' = FALSE /\ (pc' = "gone" \/ (pc' = "failed" /\ pc = "opening"))
    BY <2>0, <2>2
  <2> QED BY <2>1, <2>2
<1> QED BY <1>1, <1>3, <1>4, <1>5 DEF WinPointerInv

LEMMA WPointerInit ==
    ASSUME W!Init
    PROVE  WinPointerInv
<1>1. /\ queue = <<>> /\ place = "out" /\ tracking = FALSE /\ button_status = {} /\ is_mouse_inside = FALSE
      /\ told.inside = FALSE /\ told.buttons = {}
  BY DEF W!Init
<1>2. ASSUME NEW b \in WButtons PROVE WButtonFollows(b)
  BY <1>1, FollowsEmpty DEF WButtonFollows, WButtonKnown
<1> QED BY <1>1, <1>2 DEF WinPointerInv, WTracked, WCrossingsFollow

LEMMA WStepPointer ==
    ASSUME WinParameters, WinIInv, WinPointerInv, [W!Next]_W!vars
    PROVE  WinPointerInv'
<1> USE DEF WinIInv
<1>1. CASE W!System
  BY <1>1, WSystemPointer
<1>2. CASE W!WndProc
  BY <1>2, WProcPointer
<1>3. CASE W!mfb_open_ex
  <2>1. /\ pc = "opening" /\ UNCHANGED <<queue, place, buttons, lost, tracking, button_status, told>>
        /\ \/ is_mouse_inside' = is_mouse_inside /\ pc' \in {"opening", "idle"}
           \/ is_mouse_inside' = FALSE /\ pc' = "failed"
    BY <1>3 DEF W!mfb_open_ex, W!destroy_window_data
  <2> QED BY <2>1, WOtherPointer
<1>4. CASE W!Drained
  <2>1. /\ UNCHANGED <<queue, place, buttons, lost, tracking, button_status>> /\ pc = "drain"
        /\ \/ is_mouse_inside' = is_mouse_inside /\ pc' \in {"idle", "drain"}
           \/ is_mouse_inside' = FALSE /\ pc' = "gone"
    BY <1>4 DEF W!Drained, W!Others, W!End, W!destroy_window_data
  <2>2. told'.inside = told.inside /\ told'.buttons = told.buttons
    BY <1>4 DEF W!Drained, W!release_key_lost_by_system, WinWindowOK, WinTold
  <2> QED BY <2>1, <2>2, WOtherPointer
<1>5. CASE W!Pump \/ \E b \in WSizes \cup {0} : W!mfb_update_ex(b)
  <2>1. /\ UNCHANGED <<queue, place, buttons, lost, tracking, button_status, told>> /\ pc = "called"
        /\ \/ is_mouse_inside' = is_mouse_inside /\ pc' \in {"idle", "drain"}
           \/ is_mouse_inside' = FALSE /\ pc' = "gone"
    <3>1. CASE W!Pump
      BY <3>1 DEF W!Pump, W!Others, W!End, W!destroy_window_data
    <3>2. ASSUME NEW b \in WSizes \cup {0}, W!mfb_update_ex(b)
          PROVE  /\ UNCHANGED <<queue, place, buttons, lost, tracking, button_status, told>> /\ pc = "called"
                 /\ \/ is_mouse_inside' = is_mouse_inside /\ pc' \in {"idle", "drain"}
                    \/ is_mouse_inside' = FALSE /\ pc' = "gone"
      <4>1. UNCHANGED <<queue, place, buttons, lost, tracking, button_status, told>> /\ pc = "called"
        BY <3>2 DEF W!mfb_update_ex, W!Others
      <4>2. CASE close
        BY <3>2, <4>1, <4>2 DEF W!mfb_update_ex, W!End, W!destroy_window_data
      <4>3. CASE ~close /\ b = 0
        BY <3>2, <4>1, <4>3 DEF W!mfb_update_ex
      <4>4. CASE ~close /\ b > 0
        <5>1. W!Paint(b) /\ is_mouse_inside' = is_mouse_inside
          BY <3>2, <4>4 DEF W!mfb_update_ex
        <5> QED BY <4>1, <5>1 DEF W!Paint
      <4>5. b = 0 \/ b > 0
        BY DEF WinParameters
      <4> QED BY <4>2, <4>3, <4>4, <4>5
    <3> QED BY <1>5, <3>1, <3>2
  <2> QED BY <2>1, WOtherPointer
<1>6. CASE W!Application
  <2>1. /\ UNCHANGED <<queue, place, buttons, lost, tracking, button_status, told, is_mouse_inside>>
        /\ (pc' = pc \/ (pc = "idle" /\ pc' = "called"))
    BY <1>6 DEF W!Application, W!Call, W!mfb_close, W!FreeBuffer, W!mfb_set_viewport, W!mfb_show_cursor,
                W!user, W!input, W!window, W!program
  <2> QED BY <2>1, WOtherPointer
<1>7. CASE UNCHANGED W!vars
  BY <1>7, WOtherPointer DEF W!vars, W!user, W!input, W!program
<1> QED BY <1>1, <1>2, <1>3, <1>4, <1>5, <1>6, <1>7 DEF W!Next, W!Library

LEMMA WPointerHolds ==
    ASSUME WinIInv, WKeysInv, WinPointerInv
    PROVE  W!PointerSettles /\ W!LeaveIsTracked
<1>1. told.inside = is_mouse_inside \/ pc = "gone"
  BY DEF WinPointerInv
<1>2. told.buttons = button_status
  BY DEF WinPointerInv
<1>3. ASSUME W!Settled
      PROVE  /\ button_status \subseteq buttons \cup lost
             /\ place = "in" => is_mouse_inside
             /\ is_mouse_inside /\ button_status = {} => tracking /\ place = "in"
  <2>1. queue = <<>> /\ pc = "idle"
    BY <1>3 DEF W!Settled, WKeysInv
  <2>2. ASSUME NEW b \in WButtons PROVE WButtonKnown(b)
    BY <2>1, FollowsEmpty DEF WinPointerInv, WButtonFollows
  <2>3. button_status \subseteq buttons \cup lost
    BY <2>2 DEF WButtonKnown, WHeld, WinIInv, WinInputOK
  <2>4. place = "in" => is_mouse_inside
    BY <2>1, FollowsEmpty DEF WinPointerInv, WCrossingsFollow
  <2>5. ~WLeaveWaits
    <3>1. \A i \in 1 .. Len(queue) : FALSE
      BY <2>1, EmptySeq
    <3> QED BY <3>1 DEF WLeaveWaits
  <2> QED BY <2>3, <2>4, <2>5 DEF WinPointerInv, WTracked
<1> QED BY <1>1, <1>2, <1>3 DEF W!PointerSettles, W!LeaveIsTracked, WinIInv, WinInputOK

--------------------------------------------------------------------------------
\* DOS.  Each notch is told or in the counter, which a driver without a wheel never moves;
\* the pointer is on the screen, and where it was when the mode was set at the opening.
DosPointerInv ==
    /\ told.scrolled - wheel = scrolled
    /\ driver \notin {"bh", "bx"} => wheel = 0
    /\ told.buttons = button_status /\ (polled => button_status = buttons)
    /\ driver = "none" => buttons = {} /\ button_status = {}
    /\ place \in Nat /\ place < D!actual_size /\ told.place < window_size
    /\ pc = "opening" => place = 0
    /\ pc \in {"idle", "called", "drain", "return"} => is_mouse_inside = (driver # "none")

LEMMA PlaceInWindow ==
    ASSUME NEW w \in Nat \ {0}, NEW t \in {1, 2}, NEW p \in Nat, p < t * w
    PROVE  (p * w) \div (t * w) < w
<1>1. t * w \in Nat \ {0} /\ p * w \in Nat
  OBVIOUS
<1> DEFINE q == (p * w) \div (t * w)
<1>2. q \in Nat /\ q * (t * w) <= p * w
  BY <1>1
<1> HIDE DEF q
<1>3. ASSUME q >= w PROVE FALSE
  <2>1. t * w <= q * t
    BY <1>2, <1>3
  <2>2. p < q * t
    BY <1>1, <1>2, <2>1
  <2>3. p * w < (q * t) * w
    BY <1>2, <2>2
  <2> QED BY <1>2, <2>3
<1> QED BY <1>2, <1>3 DEF q

LEMMA DosPointerStart == ASSUME DosParameters, D!Init PROVE DosPointerInv
<1>1. /\ told = [buttons |-> {}, place |-> 0, scrolled |-> 0, size |-> DFirstSize]
      /\ wheel = 0 /\ scrolled = 0 /\ button_status = {} /\ buttons = {} /\ polled = FALSE /\ place = 0
      /\ pc = "opening" /\ window_size = DFirstSize /\ screen.times = 1
  BY DEF D!Init
<1>2. D!actual_size = DFirstSize /\ DFirstSize \in Nat \ {0}
  BY <1>1 DEF D!actual_size, DosParameters
<1> QED BY <1>1, <1>2 DEF DosPointerInv

LEMMA DosPointerStep ==
    ASSUME DosParameters, DosIInv, DosPointerInv, [D!Next]_D!vars
    PROVE  DosPointerInv'
<1>t. /\ told \in DosTold /\ wheel \in Int /\ scrolled \in Int /\ window_size = DFirstSize /\ DFirstSize \in Nat \ {0}
      /\ screen.times \in {1, 2} /\ D!actual_size \in Nat \ {0}
      /\ told.scrolled \in Int
  BY DosScreen DEF DosIInv, DosOK, DosTold, DosParameters
\* Steps that only the rest of the window sees.
<1>s. ASSUME UNCHANGED <<D!mouse, told, button_status, window_size, screen>>, pc' = "opening" => pc = "opening",
             pc' \in {"idle", "called", "drain", "return"} =>
                 pc \in {"idle", "called", "drain", "return"} /\ is_mouse_inside' = is_mouse_inside
      PROVE  DosPointerInv'
  BY <1>s DEF DosPointerInv, D!mouse, D!actual_size
<1>1. CASE D!User
  <2>1. /\ UNCHANGED <<driver, told, button_status, window_size, screen, is_mouse_inside, pc>> /\ pc # "opening"
        /\ D!actual_size' = D!actual_size
    BY <1>1 DEF D!User, D!Allows, D!input, D!window, D!program, D!actual_size
  <2>2. CASE UNCHANGED <<buttons, place, wheel, scrolled, polled>>
    BY <2>1, <2>2 DEF DosPointerInv
  <2>3. ASSUME polled' = FALSE, NEW b \in DButtons, D!ChangeButton(b) PROVE DosPointerInv'
    BY <2>1, <2>3 DEF DosPointerInv, D!ChangeButton
  <2>4. ASSUME polled' = FALSE, NEW p \in 0 .. 2 * window_size, D!MovePointer(p) PROVE DosPointerInv'
    <3>1. p \in Nat
      BY <1>t
    <3> QED BY <2>1, <2>4, <3>1 DEF DosPointerInv, D!MovePointer
  <2>5. ASSUME polled' = FALSE, NEW up \in {1, -1}, D!TurnWheel(up) PROVE DosPointerInv'
    <3>1. up \in Int
      OBVIOUS
    <3>2. told.scrolled - (wheel - up) = scrolled + up
      BY <1>t, <3>1 DEF DosPointerInv
    <3> QED BY <2>1, <2>5, <3>2 DEF DosPointerInv, D!TurnWheel
  <2> QED BY <1>1, <2>2, <2>3, <2>4, <2>5 DEF D!User
<1>2. CASE D!mfb_open_ex
  <2>1. /\ pc = "opening" /\ UNCHANGED <<D!mouse, told, button_status, window_size>>
    BY <1>2 DEF D!mfb_open_ex
  <2>2. CASE stage <= Len(D!Wanted)
    <3>1. pc' \in {"opening", "failed"} /\ (screen' = screen \/ screen' \in D!Fits)
      BY <1>2, <2>1, <2>2 DEF D!mfb_open_ex, D!Obtain
    <3>2. D!actual_size' \in Nat \ {0}
      BY <1>t, <2>1, <3>1 DEF D!actual_size, D!Fits
    <3> QED BY <2>1, <3>1, <3>2 DEF DosPointerInv, D!mouse
  <2>3. CASE ~(stage <= Len(D!Wanted))
    <3>1. /\ screen' = screen /\ pc' \in {"failed", "idle"}
          /\ pc' = "idle" => is_mouse_inside' = (driver # "none")
      BY <1>2, <2>3 DEF D!mfb_open_ex, D!Complete, D!init_mouse
    <3> QED BY <2>1, <3>1 DEF DosPointerInv, D!mouse, D!actual_size
  <2> QED BY <2>2, <2>3
<1>3. CASE D!Poll
  <2>0. pc = "called" /\ UNCHANGED <<screen, window_size>>
    BY <1>3 DEF D!Poll
  <2>1. CASE close
    BY <1>3, <1>s, <2>0, <2>1 DEF D!Poll, D!End, D!input
  <2>2. CASE ~close
    <3>1. /\ D!update_mouse /\ polled' = TRUE /\ pc' = "drain"
          /\ UNCHANGED <<driver, buttons, place, scrolled, is_mouse_inside>>
      BY <1>3, <2>2 DEF D!Poll
    <3>2. place \in Nat /\ place < screen.times * window_size
      BY DEF DosPointerInv, D!actual_size
    <3>3. D!position < window_size
      BY <1>t, <3>2, PlaceInWindow DEF D!position, D!actual_size
    <3>4. D!actual_size' = D!actual_size
      BY <2>0 DEF D!actual_size
    <3>5. CASE driver = "none"
      BY <2>0, <3>1, <3>4, <3>5 DEF DosPointerInv, D!update_mouse
    <3>6. CASE driver # "none"
      <4>1. /\ told'.buttons = buttons /\ told'.place = D!position /\ told'.scrolled = told.scrolled - D!notches
            /\ button_status' = buttons
            /\ wheel' = IF driver \in {"bh", "bx"} THEN 0 ELSE wheel
        BY <1>t, <3>1, <3>6 DEF D!update_mouse, DosTold
      <4>2. told.scrolled - wheel = scrolled /\ (driver \notin {"bh", "bx"} => wheel = 0)
        BY DEF DosPointerInv
      <4>3. told'.scrolled - wheel' = scrolled
        BY <1>t, <4>1, <4>2 DEF D!notches
      <4> QED BY <2>0, <3>1, <3>3, <3>4, <3>6, <4>1, <4>2, <4>3 DEF DosPointerInv
    <3> QED BY <3>5, <3>6
  <2> QED BY <2>1, <2>2
<1>4. CASE D!RefuseBuffer \/ D!update_keyboard \/ D!Drained \/ D!Return \/ D!mfb_close
           \/ (\E b \in DSizes : D!mfb_update_ex(b))
           \/ (\E c \in {"update_ex", "update_events", "wait_sync"} : D!Call(c))
           \/ (\E offset \in DSizes \cup {0}, size \in DSizes : D!mfb_set_viewport(offset, size))
  <2>1. /\ UNCHANGED <<D!mouse, D!input, told, window_size, screen>>
        /\ pc \in {"idle", "called", "drain", "return"} /\ pc' # "opening"
    BY <1>4 DEF D!RefuseBuffer, D!update_keyboard, D!Drained, D!End, D!Return, D!mfb_close, D!mfb_update_ex, D!Call,
                D!mfb_set_viewport, D!window, D!program
  <2> QED BY <1>s, <2>1 DEF D!input
<1>5. CASE UNCHANGED D!vars
  BY <1>s, <1>5 DEF D!vars, D!input, D!window, D!program
<1> QED BY <1>1, <1>2, <1>3, <1>4, <1>5 DEF D!Next, D!Library, D!Application

LEMMA DosPointerHolds == ASSUME DosPointerInv PROVE D!PointerSettles
BY DEF DosPointerInv, D!PointerSettles

--------------------------------------------------------------------------------
\* The pointer of the three backends.
PointerInv == Each(XPointerInv, WinPointerInv, DosPointerInv)

LEMMA PointerStart ==
    ASSUME Parameters, MCInit
    PROVE  PointerInv
<1>1. \/ OnX11 /\ X!Init
      \/ OnDos /\ ~OnX11 /\ D!Init
      \/ ~OnX11 /\ ~OnDos /\ W!Init
  BY DEF MCInit, Scene, OnX11, OnDos
<1> QED BY <1>1, XPointerInit, WPointerInit, DosPointerStart DEF Parameters, PointerInv, Each

LEMMA PointerStep ==
    ASSUME Parameters, Inv, PointerInv, [MCNext]_<<scenario, both, x11, win, dos>>
    PROVE  PointerInv'
<1>1. CASE OnX11
  BY <1>1, OneBackend, XStepPointer DEF Parameters, Inv, PointerInv, Each
<1>2. CASE ~OnX11 /\ ~OnDos
  BY <1>2, OneBackend, WStepPointer DEF Parameters, Inv, PointerInv, Each
<1>3. CASE OnDos
  <2>1. ~OnX11 /\ OnDos' /\ ~OnX11' /\ [D!Next]_D!vars
    BY <1>3, OneBackend DEF OnX11, OnDos
  <2>2. DosParameters /\ DosIInv /\ DosPointerInv
    BY <1>3, <2>1 DEF Parameters, Inv, PointerInv, Each
  <2>3. DosPointerInv'
    BY <2>1, <2>2, DosPointerStep
  <2> QED BY <2>1, <2>3 DEF PointerInv, Each
<1> QED BY <1>1, <1>2, <1>3

\* Once the events are taken the window knows which buttons are held and whether the pointer
\* is in it, and has told the application, whatever crossed, was grabbed, captured or let go
\* elsewhere before; Windows still has the leave to come while the pointer is inside; DOS has
\* told or still counts every notch of the wheel and keeps the pointer in the window
\* (OnButton, OnCrossing of X11, the pointer messages and settle_mouse_inside of Windows,
\* update_mouse of DOS).
THEOREM PointersAreSettled ==
    ASSUME Parameters, KeyParameters
    PROVE  MCSpec => []PointerSettles
<1>1. Inv /\ PointerInv /\ [MCNext]_<<scenario, both, x11, win, dos>> => PointerInv'
  BY PointerStep
<1>2. Inv /\ KeysInv /\ [MCNext]_<<scenario, both, x11, win, dos>> => KeysInv'
  BY KeysStep
<1>3. Inv /\ KeysInv /\ PointerInv => PointerSettles
  <2>1. ASSUME Inv, KeysInv, PointerInv PROVE PointerSettles
    <3>1. CASE OnX11
      BY <2>1, <3>1, XPointerHolds DEF Inv, PointerInv, Each, PointerSettles, X11IInv
    <3>2. CASE ~OnX11 /\ ~OnDos
      BY <2>1, <3>2, WPointerHolds DEF Inv, KeysInv, PointerInv, Each, PointerSettles
    <3>3. CASE ~OnX11 /\ OnDos
      BY <2>1, <3>3, DosPointerHolds DEF PointerInv, Each, PointerSettles
    <3> QED BY <3>1, <3>2, <3>3
  <2> QED BY <2>1
<1>4. MCInit => KeysInv
  BY KeysStart
<1>5. MCInit => PointerInv
  BY PointerStart
<1> QED BY Inductive, <1>1, <1>2, <1>3, <1>4, <1>5, PTL DEF MCSpec
================================================================================
