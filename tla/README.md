# MiniFB: a TLA+ verification project

MiniFB is a small C library that gives a program one window, a buffer of pixels
in it, and the keyboard and mouse. It has one backend per platform behind one
public interface (`src/include/MiniFB.h`). This directory models parts of the
library that are hard to test: what happens when events, interrupts, callbacks
and errors arrive between two steps of a call. TLC checks the models on small
instances; TLAPS proves the most important properties for every instance.

Paths below are relative to the repository's `src/` unless they start with
`include/`. `PROJECT.json` maps each definition to the lines it models.

## The system

| component | state | operations | who calls it |
|---|---|---|---|
| Public interface (`include/MiniFB.h`) | the window handle, its callbacks | `mfb_open_ex`, `mfb_update_ex`, `mfb_update_events`, `mfb_wait_sync`, `mfb_close`, setters and getters | the application, in one thread |
| Common core (`MiniFB_common.c`, `MiniFB_internal.c`) | `SWindowData`: sizes, viewport, key and button tables, modifiers, the `close` flag | defaults, viewport arithmetic, held keys and modifiers, titles, log | every backend |
| Frame timer (`MiniFB_timer.c`) | start, accumulated ticks, accumulated error | reset, now, delta, compensated reset | `mfb_wait_sync` |
| Scaler (`MiniFB_stretch*.c`) | cached column table and its key | stretch with a filter, scalar or vector | backends without a scaler |
| Text (`MiniFB_utf8.c`, `MiniFB_xkb.c`) | the compose sequence in progress | decode, feed, cancel | Wayland, X11 |
| Wayland (`wayland/`) | two event queues, three buffer slots, the throttle callback, pending configure, scale, outputs, seats | the update path, opening, protocol listeners | the compositor, through dispatch |
| X11 (`x11/`) | images, input method, focus, crossings | event pump, present | the X server |
| Windows (`windows/`) | the last buffer of the application, capture, leave tracker, cursor count | window procedure, present, pacing | the system, through the message queue |
| macOS and iOS (`macos/`, `ios/`) | textures in flight, semaphore, the shared draw buffer and its lock | update, render delegate, destruction | the application's thread, the render thread, completion handlers |
| Android (`android/`) | the native window that comes and goes, held-back hover exit | command and input callbacks, lock and post | the looper |
| Web (`web/`) | queue of browser events | listeners, poll, `emscripten_sleep` | the browser |
| DOS (`dos/`) | the keyboard ring, the scan code decoder, the VESA mode | interrupt handler, poll, present | the hardware, the application |
| OpenGL drawing (`gl/`) | a texture and a context | draw, resize | X11, Windows |

What is hard in each, and what makes each correct:

* **Wayland**: events of two queues arrive in any order inside any wait of a
  call; buffers come back late or never; frame callbacks are withheld; the close,
  a removed global or a lost connection overtakes a frame. Correct means: a
  buffer belongs to one side at a time, one frame callback at most, every frame
  fits the window it is committed to, a size change always reaches the
  application, a call always returns, a close always ends in `EXIT`.
* **DOS keyboard**: an interrupt shares a ring with the code it interrupts, and a
  key is spelled over several bytes. Correct means: the ring is a queue, and the
  keys held down are the keys reported.
* **Input of the other backends** (Wayland seats, X11, Windows, Web, Android):
  focus changes, grabs, capture and sleeps split what the user did in one motion.
  Correct means: no key or button stays held, no crossing is lost or doubled, the
  cursor is visible when it should be.
* **Metal frames**: three parties share buffers and a semaphore. Correct means: no
  copy out of a buffer with the size of another, nothing freed in use.
* **Android**: no window while paused, a pacing wait that must still end.
* **Common core**: arithmetic at the edges (overflow, zero, float rounding), timer
  debts, stale caches.

## Modules

| module | what it is |
|---|---|
| `WindowContract` | the abstract window: open, closing, gone; calls, reports, frames |
| `WaylandWindow` | the update path of the Wayland backend with its compositor |
| `WaylandWindow_proofs` | its inductive invariant, its safety theorems, the refinement of `WindowContract` |
| `WaylandInput` | seat, keyboard and pointer of the Wayland backend, key repeat included |
| `WaylandInput_proofs` | keys, pointer, wheel and repeats agree, whatever devices and seats do |
| `TextInput` | from keysyms to text: Compose sequences and dead keys, Wayland and X11 |
| `WaylandOutputs` | outputs, the scale, the cursor and its themes |
| `WaylandOpening` | the steps of `mfb_open_ex` and `destroy` as a ledger of objects, libdecor included |
| `WaylandObjects_proofs` | the opening is whole and releases in order; the table of outputs, the scale and the cursor |
| `X11Window` | the X11 backend with its server |
| `WinWindow` | the Windows backend with its system |
| `DosWindow` | the display and the mouse of the DOS backend |
| `Desktop_proofs` | X11, Windows and DOS: frames fit, the cursor count is balanced, nothing is leaked, the keys and the pointers settle; the refinement of `WindowContract` |
| `AndroidWindow` | the Android backend with its activity and looper |
| `MetalFrames` | the frames of the macOS and iOS backends on the GPU |
| `FrameTimer` | the timer of a window and the pacing loop of `mfb_wait_sync` |
| `Mobile_proofs` | Android, Metal and the timer: frames fit, ends are whole, pacing is kept; the pointers of Android settle; the refinement of `WindowContract` |
| `WebInput` | the browser's listeners, their queue, the poll and the calls of the Web backend |
| `WebInput_proofs` | nothing sticks, no crossing is lost, the latest state arrives, no release without its press |
| `EventQueues` | what the events of a queue will make of a state: lemmas the input proofs share |
| `ByteQueue` | the abstract bounded queue of keyboard bytes |
| `DosRing` | the ring between the DOS keyboard interrupt and `update_keyboard` |
| `DosKeyboard_proofs` | the ring refines `ByteQueue`, for every size; no key sticks on DOS |
| `DosKeyboard` | the keyboard, `DosRing`, the decoder, windows opened one after the other |
| `MCWaylandWindow`, `MCDosKeyboard`, `MCWebInput`, `MCWaylandInput` | the instances TLC checks of one component |
| `MCWaylandObjects`, `MCDesktop`, `MCMobile`, `MCLoops` | the instances TLC checks of several, as scenarios |

An MC module with scenarios holds one `INSTANCE` of a component for each; the
variable `scenario` is chosen at the start and kept, so that one run asks one
question of several settings. What a setting leaves out of `Inputs` and `Calls` does
not happen in it, and the fields of the components that it does not run stay at a
fixed value. In `MCDesktop` and `MCMobile` there is one `INSTANCE` of each backend, of
all its inputs and calls, and the settings restrict its steps (`X11Keys`, `WinPointer`,
...); a theorem about such a module needs no other step than that of the backend.
`MCWaylandInput` EXTENDS `WaylandInput`, whose behaviours choose one of the constant
`Settings` at the start (`setting`: keys, buttons, inputs and bounds), and holds `TextInput`
as an `INSTANCE` that runs where no input is set (`Spelling`).

### WaylandWindow and the code

A public call is a sequence of steps named by `pc`, in the order of the body of
`mfb_update_ex` (`wayland/WaylandMiniFB.c`): `begin_window_call`,
`pump_window_events`, key repeats, `surface_throttle_wait`,
`acquire_presentation_slot`, the presentation snapshot, `slot_ensure_buffer`,
`present_presentation_buffer`, `emit_pending_resize`. `mfb_update_events` is the
first two and the last; `mfb_wait_sync` pumps, reports, then paces. The three
dispatch routines (non-blocking, one queue with a timeout, render queue) run
inside those steps and are stepped by `io`, one event handler at a time, so that
the compositor can act between any two.

State: `busy`, `dims`, `front_slot` are the fields of the slots;
`throttle_callback`, `pending_configure`, `must_resize_context`, `close`,
`backend_unusable` are the fields of the window. `wire`, `window_queue`, `buf`
and `cb` are the socket and the two queues: for a slot or the frame callback only
the place of its one outstanding event matters ("held" by the compositor, on the
"wire", in the "queue", "free"). `size` is one number, times `scale` the physical
size; two sizes and two scales tell apart everything the code compares.

Abstractions, and why they are sound for what is checked:

* The compositor sends only at the points where the client reads the socket
  (`AtRead`). An event sent earlier cannot be observed before the next read, so
  every order of arrivals a client can see is kept.
* libwayland's own queue and the libdecor queue are not modelled: they hold no
  event a property speaks of. A full socket (`EAGAIN` of a flush) is a failure.
* A call's local variables are cleared when it returns.
* The boolean of `mfb_wait_sync` is `ret = "OK"`.
* The initial state is a mapped window right after `mfb_open_ex`; `WaylandOpening`
  has the way there.
* Callbacks of the application may ask for the close but do not call back into
  the library.
* `Faults` lets allocation, flush and request failures happen; `FrameCallbacks`,
  `SoftwarePacing` are the build's and the protocol's variants.

### DosRing, DosKeyboard and the code

`ring_buffer_push` runs whole in the interrupt (`keyboard_handler`); the pop it
interrupts is split at every memory access (`PopEmpty`/`PopStart`, `LoadByte`,
`StoreReadIndex`). The ring is a plain struct, neither volatile nor fenced, so a
compiler may store `read_index` before it loads the byte; both orders are
modelled. Refinement mapping: the queue is the cells from `read_index` to
`write_index`, the byte in hand is `raw_scancode` or, when `read_index` has
already moved on, the cell still to be loaded.

`DosKeyboard` uses real scan codes and the entries of the two tables for a
representative handful of keys: plain, extended, both a plain and an extended
meaning of one code (`0x1D`, `0x47`), Pause with its six bytes, codes beyond each
table, the two locks. `update_keyboard` is the pop followed by one of the
`Decode...` actions, which are the branches of the loop body. `EndOfBody` is the
common part of every branch, the `continue`s included. The BIOS flags do not
change while the handler is installed, since the handler replaces that of the
BIOS and does not chain to it.

### WebInput and the code

JavaScript is single-threaded: a listener runs only when the program is away,
between two public calls (`pc = "idle"`: the browser's main loop, or a callback of
the application's own that ends) or in the `emscripten_sleep` of `mfb_wait_sync`
(`pc = "sleep"`). Each listener of `mfb_open_ex_js` is an action (`mousedown`,
`touchEndOrCancel`, `setActive`, ...) that changes the record `w`
(`pressedButtons`, `lastPos`, `is_active`, `events`) and queues through
`enqueueEvent`, whose cap is `MaxQueued`. A call moves through `pc`: `begin`
(the check of `close`, and `mfb_update_js` for `mfb_update_ex`), `poll` (the events
taken by `mfb_update_events_js`, one per step, each by the exported C handler of its
name), then the return, or a sleep. `close` may be set by `mfb_close` and by any
callback.

What the user does is state too (`mouse`, `touching`, `keys`, `inside`, `box`), so
that properties can compare what the window reports with what is true. The
browser's part follows the DOM: a press captures the pointer, so that no leave
arrives while a button is held; a press over another element never reaches the
canvas, though its release may; `pointercancel` ends a press without a release; key
events go to whoever has the focus; and, as the comment over
`window_data_sync_mod_keys` says of Windows, Shift keys have no code once both are
down.

Abstractions: a position and a size are one number each, text and composition,
modifier masks and the wheel's delta are left out, and so are the events' times: the
two halves of AltGr carry a mark instead, as they are always less than
`ALT_GR_PAIR_MS` apart here. One window, resizable. Errors that only a missing
window record can cause are unreachable while the window lives.

### WaylandInput, TextInput and the code

`WaylandInput` has one operator per handler of `wl_keyboard`, `wl_pointer` and `wl_seat`
under its name in the code (`keyboard_key`, `pointer_frame`, `seat_capabilities`), run
by `Dispatch` on the head of one queue; `wayland_emit_due_key_repeats` is the end of a
poll. The compositor is modelled from the protocol: it sends the keys held with an
enter, sends modifiers only when they change, gives the release of a key to whoever has
the focus, keeps the pointer on a surface while a button is down, and announces the rate
0 when it repeats keys itself. `keys`, `focus`, `surface` and `buttons` are what the user
does; `told` is what callbacks said; `Quiet` is the moment when everything sent has been
read. A key is one `mfb_key`: two scan codes that share a name are not told apart. A
press on the title bar that libdecor turns into a move is one the compositor takes over,
so its release is not seen (`astray`).

`TextInput` is `mfb_xkb_compose_feed` with the callers' answer to `false`, and the three
ways of X11: through xkbcommon, through an input context that leaves dead keys to its
client, and through the built-in tables. `Composed` stands for the Compose file and for
the tables; one accent, one Compose key, a letter that takes the accent, one that does
not and a modifier are all that the code tells apart. The reference `Reading` parses what
was typed from left to right, without a state; `AccentedReading` gives the closed form of
the tables. An input method that composes by itself, decoding its UTF-8, and the
characters of a repetition are left out.

### WaylandOutputs, WaylandOpening and the code

`outs` is the set of parallel arrays of outputs with their count; `registry_global_remove`
moves the last entry into the gap (`Compacted`). `mfb_get_monitor_scale` and
`resolve_surface_scale` choose between the fractional scale, the preferred integer one
and that of the outputs entered; a scale is counted in 1/120. `refresh_cursor_surface`
and `ensure_cursor_theme_for_scale` are what follows a change, with a cache of
`CacheSize` themes, images that are no multiple of their scale (`Odd`) and scales that
have no theme (`Missing`). Events wait in one queue and `Quiet` is as above.

`WaylandOpening` holds the objects acquired in `live` and the step of `mfb_open_ex` in
`step`; every step may fail. `Order` is the order in which `destroy` and
`destroy_window_data` release; `Needs` is what libwayland and the protocols prescribe,
and is external: it is what `ReleaseOrder` compares with. The compositor may withdraw a
global, configure the surface, or break the connection between any two steps.
`library` is what one process has learnt of libdecor, which is why two windows are
opened one after another.

### X11Window, WinWindow and the code

Both have the shape of the code: `mfb_open_ex` as a list of things acquired one by one
(`Wanted`), each of which may fail; the pump, `drain`, that takes one event or message
per step; a call that pumps, scales, puts and answers. On X11 `OnKey`, `OnButton`,
`OnCrossing`, `OnFocus` and `OnConfigure` are the cases of `process_event`; the server
grabs the pointer for a press, sends the release and the press of a repeat as two events
that may be split by the end of the queue, and may give the grab to another client.
`image_scaler` and `image_buffer` are the images of a frame, 0 when there is none, else
the size they were made for. A key that moved where the window could not see it is in
`elsewhere`; until the window has had the focus once (`never_focused`) its table holds the
keys that `mfb_open_ex` found, and no event says anything of them. A grab that ended outside
the window is `astray`: no crossing tells of it.

The destruction of both is made of one operator per release (`DestroyImage`,
`x11_text_destroy`, `ReleaseDC`, ...), each under the condition it has in the code and in the
code's order: what `SWindowData_X11` points to is reached through it, the window and the
cursor are given back to a display that is open, the device context with its window. Out of
order, or with one left out, something stays in `held`. The window class of Windows is
registered with the first window and never unregistered: it stays.

On Windows the messages are in one queue; `capture`, `tracking` (the one-shot
`TrackMouseEvent`), `cursor_count` (`ShowCursor`) and `thread_keys` (`GetKeyState`)
belong to the system. `release_key_lost_by_system` asks the system for keys whose release
is swallowed. Where the focus comes, the table is read from the device (`sync_key_status`),
while `thread_keys` may be left as stale as it was or be brought up to date by the system
(`TakeKeys`): the code's comment says that `GetKeyState` answers from the messages the thread
has read, and both are allowed. A key whose press sent this thread no message is `unseen`
until it comes up. A button released outside before the capture was taken is `lost`. Freeing
a buffer is a step of the application (`"free"`), for the repaint that reads it.

### DosWindow and the code

The machine is `driver`, `buttons`, `place` and `wheel`, the counter of the driver that a
read clears; `Wanted` lists what `mfb_open_ex` obtains, the parts of `vesa_init`
first. `screen` is the mode found: once or twice the window's size, 24 or 32 bits, padded
lines or none. A call is `Poll` (`update_mouse`), one `update_keyboard` per stroke that
waits, and `mfb_update_ex` with the path its frame takes: copied, stretched, put together
in the scanline buffer. One axis stands for both. Of the keyboard only Escape is left,
since `DosKeyboard` has the rest.

### AndroidWindow and the code

The looper has two sources, `commands` and `events`, each in order; `process_events` takes
from either. `handle_cmd` is one operator per command of the activity, which may take the
surface away at any time; `surface` is what the system has, `window` what the
application holds of it. `pending_hover_exit` is held back by `handle_input` until the
next event tells a press from a leave, or the poll ends. `mfb_wait_sync` sleeps in
`poll` without a timeout while there is no window. Identifiers of fingers are taken
modulo 8, so two may share an index; the instance has two such (0, 1 and 4 stand for
them with buttons 1 to 3 taken).

### MetalFrames, FrameTimer and the code

`MetalFrames` models `mfb_update_ex` and `drawInMTKView:` of either system. On macOS both
run on the main thread (`Serial`); on iOS the render loop may be another, and a lock
covers the swap and the copy. It does not cover the end: there `destroy_window_data` may come
in the middle of a frame. `semaphore`, `current_buffer` and `in_flight` go round the
three textures; `dealloc` waits for each place of the semaphore and leaves it behind when
the GPU did not finish.

`FrameTimer` counts whole ticks. `mfb_timer_now` is a turn of the pacing loop,
`mfb_timer_compensated_reset` its end, and between any two steps time passes
(`Elapse`). `schedule` is history: when the frame would have begun had every frame taken
its target. The rates' doubles are exact here.

## Runs

| run | instance | distinct states | shows |
|---|---|---|---|
| `wayland_geometry` | 2 slots, 2 sizes (the window starts at the first: the other start mirrors it), 2 scales, 3 configure or scale events, `mfb_update_ex` | 2.8M | `ResizeNeverLost`, `FramesAreCurrent`, `ImplementsContract` |
| `wayland_shutdown` | 3 slots, all calls, 2 events of close, input, removal, hangup, faults | 3.8M | `SlotOwnership`, `ThrottleTracksCallback`, `NeverPresentsOverCallback`, `WindowEventsNeverWait`, `NoFrameAfterEnd` |
| `wayland_loop` | 2 slots, all calls, 1 event, faults, fairness | 139K | `CallReturns`, `CloseLeadsToExit` |
| `wayland_input` | 4 keys and focus, caps, seats; 2 keys and layouts; 2 keys and a clock; 2 buttons and 3 versions of the wheel; 6 keysyms of text | 0.9M | `KeysAgree`, `PointerAgrees`, `TextAgrees`, `LeaveComesLast`, `RepeatsArePaced` |
| `wayland_objects` | one window with a missing and a withdrawn global, two windows, 3 outputs and a table of 2, 4 preferred scales | 2.8M | `OpeningIsWhole`, `ReleaseOrder`, `OutputsAgree`, `ScaleSettles`, `CursorSettles` |
| `desktop` | X11 and Windows, each with keys and focus, with a pointer, with frames of 3 or 2 sizes; DOS with a pointer, with frames | 0.6M | `KeysSettle`, `PointerSettles`, `CursorCountBalanced`, `FrameFits`, `NothingLeaks`, `ImplementsContract` |
| `mobile` | Android with a mouse, with 3 fingers, with 3 sizes; iOS, macOS and a queue without command buffers; a timer of 205 ticks a second | 0.8M | `PointerSettles`, `FramesFit`, `EndsWhole`, `PaceIsKept`, `ImplementsContract` |
| `dos_keys` | 8 cells, 6 keys, 3 strokes, 2 windows | 1.5M | `RingInvariant`, `ImplementsQueue`, `HeldKeysAreDown` |
| `web_input` | queue of 2; 3 keys, a button and the focus; mouse, touch and resize; 5 inputs | 2.5M | `NothingSticks`, `CrossingsAgree`, `LatestStateArrives`, `ReleasesHavePresses` |
| `loops` | a Web loop, an Android loop, the opening of a Wayland window with any of three globals withdrawn, fairness | 0.1M | `CallsReturn`, `CloseLeadsToExit` |
| `web_touch` | mouse and touch, 4 inputs | | violated (finding) |
| `android_update_only` | `mfb_update_ex` alone, 5 commands, fairness | | violated (finding) |

Several properties of a run are conjunctions: `NothingSticks` is `ButtonsAgree` and
`NoKeySticks`, `KeysAgree` and `PointerAgrees` have the names of their parts in the
comment above them, and each includes the component's `TypeOK`.

Why the bounds are enough. *Slots*: three is the program's number, and is needed
where all of them fill (`wayland_shutdown`); geometry needs a slot to be stale and another
to be current, which two give. *Events*: three configure or scale events let the
size go away and come back around a commit; with ends, two are enough for one to
overtake the other, as nothing but the close and the removals changes what a third
would do. *Inputs*: four or five hold a press, a loss of the focus or of the device, the
other key of a pair, and the way back; six with the mouse hold a press inside, a drag out,
a release outside and the next leave. Where
frames are drawn on Windows and Android what came and what waits are four together, so the
third event finds at most one before it. *Sizes*: three let a resize come back to an old size
around another (X11, Android); one size is enough where only input is asked about.
*Outputs*: a table of two, of which the first, the last or one beyond it goes. *Preferred
scales*: one whole, one between, one that has no image of its own. *Frames*: four calls
go round the three textures and come back. *Time*: Delays of a sixth and of half a frame make
frames early, late, and late by more than two. *Ring*: eight cells wrap, fill and empty in
the middle of a pop; the theorem covers 512. *Strokes*: three interleave a Pause between
the press and the release of an extended key. *Queue of the browser*: a
cap of two overflows within the inputs given, with and without something that may
be dropped; the program's is 2048. *Text*: six keysyms hold a sequence given up, two
finished ones, and, with room for two, one that does not fit. `dos_keys` also loses bytes: `HeldKeysAreDown` excuses
histories with a loss, since nothing in the code recovers one. `CHECK_DEADLOCK FALSE` is
in the runs whose inputs or calls are bounded or whose window ends: there the system
stops.

Fairness. `LiveSpec` and `LoopSpec` of `WaylandWindow`: the thread of a running call is
scheduled, `poll` honours its timeout, time passes; a compositor eventually releases a
buffer once another has replaced it (strong fairness, since sends happen only at reads),
as `wl_surface` requires; the application keeps calling. Nothing is assumed of frame
callbacks. The Web loop: the browser resumes a sleep and a running call continues, time
passes, the application keeps calling; nothing is assumed of the user. The Android loop:
the looper's two sources are served strongly fairly, since the poll that serves them comes
and goes; frames fall due; nothing is assumed of the activity. The opening: a step is
taken, and the compositor configures a surface that was committed once, which xdg-shell
requires; withdrawals and breaks may or may not come. The Wayland loop has a run of its
own because its strong fairness conditions multiply the liveness passes over the others.

### Findings

* `web_touch`: the end of a touch releases button 1 without asking whether the
  mouse, or a cancel, released it first: a release without a press.
* `android_update_only`: the header says of `mfb_update` and `mfb_update_ex` "Also updates
  the window events"; on Android `mfb_update_ex` takes none while there is no native window,
  so a program that calls nothing else never hears of its window again.

### Other disagreements, stated but not run

The modules state some of these as properties, which TLC finds violated when given as the
`INVARIANT` of a run; the others the model leaves out, or excuses in a property, and says
so there.

* DOS (`PrefixBelongsToOneScancode`): the prefix of an extended key outside the table
  sticks to the next key. (`ReleasedKeysComeUp`): a keypad key held while Num Lock changes
  stays pressed under its first name. (`CapsLockIsInSync`): a second window takes Caps
  Lock from flags that went stale when the first one installed its handler. The sets
  `MediaKeys`, `KeypadKeys` and `CapsKey` of `MCDosKeyboard` show them.
* Web (`AltGrIsOneKey`): a poll between the halves of AltGr reports its Control, which
  stays pressed when the two releases arrive together. `enqueueEvent` drops the oldest
  movement or resize of a full queue also when no next one "carries the current state"
  (`dropped` in `LatestStateArrives`).
* Windows (`RepaintReadsLentBuffer`): `WM_PAINT` reads the buffer of the last
  `mfb_update_ex` at any later pump, freed or not. The README asks the application to keep
  it, while the call itself promises nothing of the kind. (`MayBeMissing`):
  `release_key_lost_by_system` trusts `GetKeyState`, which does not know of a Shift or a
  Windows key pressed while another window had the focus: where the system leaves it stale
  when the focus comes, the key is in the table and is taken out of it while it is held.
  (`NothingLeaks`): `mfb_open_ex` registers the window class and nothing unregisters it.
* Metal (`TextureIsFree` excepts queues with `skips`): a frame without a command buffer moves the index
  but gives its place back; two of them bring the index to a texture still on the GPU.
  (`PixelsFit` speaks of macOS only, because of iOS): `buffer_size` is stored before the lock is taken, so a render loop
  on another thread may copy out of the old buffer with the new size. And the end takes the
  delegate and frees the buffer with no lock, so a frame in progress may copy from it.
* Wayland (`ModifiersAreTrue` across layouts): `keyboard_keymap` starts with a fresh state
  while a modifier is held, so the modifier is not in the state until it is pressed again.
  `dispatch_queue_timeout` checks only the queue it reads for, though its comment has it
  wake "as soon as either of its two owned queues has events": `mfb_wait_sync` can sleep,
  until the end of its frame at the latest, over a release already received. An
  `xdg_wm_base` withdrawn in the handshake leaves `mfb_open_ex` waiting, with libdecor or
  without: `registry_global_remove` destroys the toplevel and its surface and sets
  `backend_unusable`, while the loop waits for `is_initialized` or `close`, and no configure
  comes any more. Only the end of the connection ends it. `CallsReturn` claims the return of
  an opening in every other case; `WaitsWithoutShell` of `MCLoops` is this one, and without
  it TLC finds the property violated. libdecor's wait for its frame does not look at the
  close again.
* Text: a Compose sequence of more than eight keysyms, modifiers pressed in between
  included, loses the ones beyond when it is given up (`full` in `TextIsTyped`). Without
  xkbcommon an accent followed by another is lost, and without an input context also one
  followed by any key without a character: Shift and a letter after a dead key give the
  bare capital, although the table has the accented one.
* X11: a key pressed under a grab of another client is not seen (`elsewhere`), and a
  pointer grab that ended outside tells no leave (`astray`). A window that opens without the
  focus has the keys of its opening in its table until it has had the focus, although it is
  told of none of them.
* Timer: an application's own timer that is compensated without waiting for the frame
  gathers negative error without a bound; the loop of the library always waits.

## Proofs

Checked by TLAPS, with SMT, Zenon and LS4, for every value of the constants.

`WindowContract`: `OnlyExitEndsAWindow`, `CloseIsFinal`.

`WaylandWindow_proofs`, from `SlotsAssumption` (at least one slot) and
`GeometryAssumption` (sizes and scales are positive numbers, the unit scale among
them). `TypeCorrect` by a step per action. The safety properties are not inductive
alone, and `Invariant` strengthens them by three parts, each a lemma of its own:

* `DispatchInvariant`: which dispatch routine may be running at which step, and
  where the window queue is known to be drained; `WindowEventsNeverWait` follows.
* `RenderInvariant`: slot ownership and the throttle; from the acquisition to the
  commit the slot in hand is free, and after the snapshot nothing is dispatched,
  so that the metrics are those of the window. `SlotsAreOwned`,
  `ThrottleIsOutstanding`, `OneCallback`, `EveryFrameIsCurrent` and
  `NothingAfterTheEnd` follow.
* `CallInvariant`: the size known to the application and the life of the window;
  `ResizesAreReported` follows, and the steps that return satisfy the contract.

`Refinement` maps each step to a step of `WindowContract` or a stutter: a call
is running when `pc` is not idle, the window is closing when `close` is set, a
frame is shown at the commit.

`WaylandObjects_proofs`. For the opening, from nothing, `OpeningInv` ties what is alive to the step of the
opening: everything up to the step is there or was optional, everything released is not
(`EverythingListed`), and while libdecor is given up for xdg-shell the surface keeps one
role (`RoleIsOne`, `Rebuilding`). It is an invariant for any failures, withdrawals and
breaks, and any number of windows; `OpeningWhole` and `ReleaseOrderHolds` follow.

For the outputs, from `ScreenParameters` (scales are positive numbers, preferred fractions,
versions and the sizes of the tables are numbers), `ScreenInv`. While no output was turned
away, what is queued leads the rows of each output in the table, of which there is at most
one, to what the compositor has of it (`RowsLead`, in the sense of *leads* below): every
event of an output is one step of its rows, and the entry moved into a gap disturbs no
other output's. `ScaleIsLargest` holds at any time, because whoever changes an output that
was entered recomputes. The preferred scales and the pointer's place follow what is queued;
without its extension the fractional scale is none. The cursor needs no queue: it is the one
of the scale and of the application's choice as they are now (`CursorIsFresh`), which is why
every handler that changes either has to refresh it last (`Refreshed`).
`TableAgreesAlways`, `ScaleFollows` and `CursorFollows` are what is left of it in a quiet
state. The theme of the scale, and the one of scale 1 when the image of its own is no multiple
of it, must be loadable (`Loadable`), and the cache of themes must not be full: the code
keeps the cursor it had otherwise.

`DosKeyboard_proofs`, from `RingSizeAssumption` (at least two cells) and
`SentAssumption` (bytes). `RingInvariant` says that while a byte is being taken the
program works on the oldest cell, and that when `read_index` has moved on first
the cell is the one that is always kept empty: the interrupt finds the ring full
before it can reach it. `RingIsAQueue` is the refinement of `ByteQueue`; its two
lemmas are how the contents change when a cell is added at the end or dropped at
the start. Of the keys, from `KeyAssumptions`, see below.

`Desktop_proofs`, from `Parameters`: the first size is one of the sizes, sizes are
positive, and a queue has a length. The settings of `MCDesktop` only take steps away, so
the proof is by the steps of `X!Next`, `W!Next` and `D!Next`, with an inductive invariant
for each (`X11IInv`, `WinIInv`, `DosIInv`), of types and of what the window and the
application know of one another: `SizeIsTold`, that a window with a size has told it, from
which `Refinement` follows step by step (a step of the system is a stutter, a message at
most a resize or a request to close, a call its return). `OnlyExitEndsAWindow` and
`CloseIsFinal` are then theorems of `WindowContract` carried over. Windows needs the type
of every message that waits, since a size comes from one, and proves the balance of
`ShowCursor` by the three places that move it (`InsideKeeps`, `CursorKeeps`,
`DestroyKeeps`). That nothing is leaked needs what each stage has obtained (`X11Obtained`,
`WinObtained`): a release that is skipped because what it needs is not there leaves nothing,
as nothing that needs it was obtained either. X11 needs that a scaled image is over pixels of its size (`ImagesOK`),
also after an allocation that failed. DOS needs that the part of a frame is within the
screen whatever the viewport, and what has been obtained at each stage (`ObtainedOK`), as
`vesa_dispose` gives back nothing before the mode is set.

`Mobile_proofs`, from `Parameters` and the assumptions of `FrameTimer`. Android needs that
a destroyed activity is closing, as its poll answers EXIT without looking at the close, and
that a window that opens has been told its surface. Of Metal, `MetalIInv` counts the places
of the semaphore; that it is whole when released needs no more than that `dealloc` takes every place of it
first, also those of a frame that was in the making when the window was destroyed. That a texture is free needs a command buffer for every
frame, and that the frames on the GPU are in consecutive textures that end at the current
one, so that with three places the next texture is free (`NextTextureIsFree`). What is
claimed of the pace is not inductive: that a frame begins at most one frame behind its
schedule depends on the error the timer still carries. `Accounts` says where the error is:
the start of the frame is off the schedule by exactly `accumulated_error_ticks`, which is
never negative and at most the longest frame. The compensated reset halves an error that
is, after a frame of at most twice its target, less than two frames (`CompensateKeeps`);
any longer frame starts afresh. `DueIsTarget` is the step from the loop's product of
doubles to whole ticks.

### What a queue will make of a state

The state of the user and that of the window agree once the queue between them is empty.
An invariant has to say more: what the events that wait will make of the window. There are
two forms, in `EventQueues`, each with lemmas for an event added, an event taken, and an
event dropped in the middle:

* `Follows(queue, W, R, ok)`: the events of W each decide the matter for good. Either it is
  right now and nothing in the queue decides it, or the last event that does is one of R,
  which decide it right. Enough for a crossing, a focus, a size, and for a key of which only
  "not held unless it is down" is asked.
* `Leads(queue, T, V, a, b)`: there are values from a to b, each step of which is one that
  its event may take. Needed where what an event does depends on what it finds.

`Desktop_proofs`, from `KeyParameters` besides: `KeysAreSettled`. The focus is led from
`is_active` to `focus`, as a key comes only to a window that has it. On X11 each key follows that
neither moved elsewhere nor repeats: the last event about it or the focus is the
one that says what the keyboard does; a repeat whose halves are split is a release and a
press. In a window that lost the focus every key follows, to being up (`XSeen`, `XKeyKnown`).
On Windows the messages may say less than the truth, since the system swallows
releases: a key of the table that is up is one that the thread no longer has and that
`release_key_lost_by_system` asks for, before the pump is `settled`. That it takes out no
other needs a second family (`WThreadFollows`): the thread knows of each key that is held and
was sent to it, across any changes of the focus. What is left, held and unseen, is
`MayBeMissing`.
`PRINT_SCREEN`, of which Windows tells the release alone, is left out of the comparison.

Its `PointersAreSettled` has an invariant for each of the three (`PointerInv`). On X11 the
table of buttons and the pointer's being inside are led together (`XPointerStep`): a
crossing counts only while no button of the table is held, and the release of the last one
says where the pointer is. They end at the buttons that are held and have an entry
(`XHeld`, which needs that no two share one, `NamesDiffer`) and, when there are none, at
where the pointer is; nothing is claimed during the drag of another client, nor after one
that went astray. On Windows three things follow: each button, by its own messages and
the loss of the capture (`WButtonFollows`); the place, by the crossings and the releases
outside (`WCrossingsFollow`), which say less than the truth while the pointer is out; and
for that the leave: inside with no button held the tracker is armed or its leave waits
(`WTracked`), since the end of a drag arms it again or tells the leave it dropped
(`WSettled`). With the queue empty this is `LeaveIsTracked`. On DOS nothing waits: every
notch is told or in the counter, and the position is scaled into the window
(`PlaceInWindow`).

`Mobile_proofs`, from `PointerParameters` besides: buttons are 0 to 7, and no two fingers
share an index, which the handler takes modulo 8. `PointersAreSettled` leads two things
through the queue of the looper (`PointerInv`). The mouse is led by its buttons and by its
place, which is over the window, away, or either: a press makes it either until the release
or the next hover, since a click sends a hover exit of its own, and an exit that the handler
holds back already counts as a leave, so that the flush that tells it changes nothing
(`HoverInv`). The fingers are led by the table of buttons, each by its index (`TouchInv`).
Where frames are drawn the scenario has nobody point (`FramesInv`).

`DosKeyboard_proofs`, from `KeyAssumptions` besides: the keyboard sends what its keys send,
and they are neither the keypad, whose keys have two names, nor a key beyond the extended
table, whose prefix outlives it (`SLEEP`): of both the property is not true.
`HeldKeysAreDownAlways` leads the decoder (its prefix, the bytes of Pause it still expects,
the keys told) through `Stream`: the byte the loop is looking at, those in the ring and
those the keyboard has not delivered. The interrupt and the pop move bytes within it, a
stroke adds to its end what leads from the keys held to the keys held, the loop body takes
one step of `DecoderStep` off its start; once a byte is lost nothing is claimed. A second
window starts with no key while the stream still tells of some: the invariant keeps what
a window open all the time would have been told, of which this one's keys are a part.

`WaylandInput_proofs`, from `SettingsAssumption` (the names of keys are none of the two marks,
buttons and bounds are numbers) and `TimesAssumption`, for any settings at once. `InputInv`
leads three things through one queue, that of the seat, the keyboard and the pointer
together. The keyboard is led by its stage (none, bound, with the focus), the keys held and
whether a keymap was read (`KeyboardFollows`): a key may be sent only to a keyboard that will
have the focus by then, a press only of a key that will be up. Capabilities and the removal
of a seat end the stage whatever is held, which is why `release_keyboard_input_state` and
`wayland_clear_keyboard_focus_state` have to tell the releases. The pointer is led by
whether there is one, whether it is over the content, and its buttons (`PointerFollows`): it
leaves without a button, until the title bar has taken a press whose release may then be
missing. The wheel is led by the sum of what was told and the frame gathered so far
(`WheelFollows`): each version gathers a frame in its own events, and a leave, new
capabilities or a removal find no frame begun. The modifiers follow as long as no
layout changes (`ModifiersFollow`). `KeysDoAgree` and `PointerDoesAgree` are what is left
when the queue is empty; `LeaveIsLast` and `RepeatsKeepPace` need the same invariant for a
step: the grid of the repeats is kept by every number of intervals that a late poll skips
(`NextDeadlineExists`, `MultiplesAdd`).

`WebInput_proofs` is about `Spec` of `WebInput`, any mix of inputs at once, where the run
has three; from `WebParameters`, that AltGr is not among them. Its two events are one key
only when a poll takes both, and a poll between them makes its Control one of its own:
what the properties say is then not so (`AltGrIsOneKey`). The queue in `IInv` is `Unread`:
what the poll has still to apply or, between calls, what the listeners have queued. What
may give way to another event in a full queue (`Droppables`) decides nothing but the
pointer's place and the size; `FollowsWithout` and `LeadsWithout` carry every other part
over a drop, `LatestArrives` excuses it. `NoReleaseAlone` excludes touches, whose end
releases a button that is up: the finding above.

Only model-checked: liveness (`CallReturns`, `CallsReturn`, `CloseLeadsToExit`), which is
beyond the prover; and `TextAgrees`, as `Reading` of `TextInput` is a recursion over data.

## Not modelled

* Public calls from callbacks. Every step of a call could contain every call; the code
  guards some of it, and a faithful model would be the product of the update path with
  itself.
* The list of VESA modes and its reading, the OpenGL drawing: straight-line calls of a
  BIOS or a library.
* The CPU scaler, the pixel formats of X11, the arithmetic of the best fit: one call each,
  with no step of another actor in it, and floats whose rounding TLC has not.
* UTF-8 decoding, titles, icons, positions, monitors, styles, DPI arithmetic, insets, the
  soft keyboard, the text of the browser and of Windows.
* The clocks of the systems, the log, constant tables, generated protocol code, examples
  and tests.
