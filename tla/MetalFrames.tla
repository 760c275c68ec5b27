------------------------------- MODULE MetalFrames -------------------------------
(* Frames of the two Metal backends (src/ios/iOSMiniFB.m, iOSViewDelegate.m and     *)
(* src/macos/MacMiniFB.m, OSXViewDelegate.m): the application copies its pixels     *)
(* into a draw buffer, a render loop copies that into one of three textures, and    *)
(* the GPU gives a texture back through a semaphore when its frame is complete.     *)
EXTENDS Naturals, Sequences, SequencesExt

CONSTANTS
    Sizes, FirstSize,  \* sizes of the application's buffer
    Closes,            \* the application may close the window
    MaxCalls           \* bound: calls of the application

VARIABLES
    platform,   \* "ios", whose render loop may be another thread, or "macos"
    skips,      \* the command queue may have no command buffer
    buffer_size, draw_buffer, texture_buffers,  \* sizes; a draw buffer that is freed has size 0
    current_buffer, semaphore, in_flight,       \* in_flight: textures of the frames on the GPU
    app, wanted, render,                        \* where the two threads are
    acquired, released,                         \* dealloc: what it took of the semaphore; dispatch_release
    torn, misfit, calls                         \* history: a texture written under the GPU, pixels that did not fit

setting == <<platform, skips>>
sizes == <<buffer_size, draw_buffer, texture_buffers>>
frames == <<current_buffer, semaphore, in_flight>>
closing == <<acquired, released>>
history == <<torn, misfit, calls>>
vars == <<setting, sizes, frames, app, wanted, render, closing, history>>

MaxBuffersInFlight == 3

\* The locks are short: a step that takes buffer_lock releases it.  macOS has none: there
\* the view is paused while the buffers change, and the loop runs on the main thread.
Serial == platform = "macos"

--------------------------------------------------------------------------------
\* mfb_update_ex.  A new size is stored first, then the textures are made, then swapped
\* under the lock, then the draw buffer is; a failure restores the size.
mfb_update_ex(size) ==
    /\ app = "idle" /\ calls < MaxCalls /\ calls' = calls + 1
    /\ Serial => render = "idle"
    /\ wanted' = size
    /\ IF size = buffer_size THEN app' = "copy" /\ UNCHANGED buffer_size
                             ELSE app' = "resize" /\ buffer_size' = size
    /\ UNCHANGED <<draw_buffer, texture_buffers, frames, render, closing, torn, misfit>>

ResizeFails ==
    /\ app = "resize" /\ app' = "idle"
    /\ buffer_size' = draw_buffer
    /\ UNCHANGED <<draw_buffer, texture_buffers, frames, wanted, render, closing, history>>

\* The GPU keeps the textures of its frames until they are complete.
resizeTextures ==
    /\ app = "resize" /\ app' = "swap"
    /\ texture_buffers' = buffer_size
    /\ UNCHANGED <<buffer_size, draw_buffer, frames, wanted, render, closing, history>>

SwapDrawBuffer ==
    /\ app = "swap" /\ app' = "copy"
    /\ draw_buffer' = buffer_size
    /\ UNCHANGED <<buffer_size, texture_buffers, frames, wanted, render, closing, history>>

\* On iOS the swap and the copy are one critical section; on macOS the view is paused
\* from the first step to the swap.
CopyPixels ==
    /\ app = "copy" /\ app' = "idle"
    /\ misfit' = (misfit \/ wanted # draw_buffer)
    /\ UNCHANGED <<sizes, frames, wanted, render, closing, torn, calls>>

Application ==
    \/ \E size \in Sizes : mfb_update_ex(size)
    \/ ResizeFails \/ resizeTextures \/ SwapDrawBuffer \/ CopyPixels

--------------------------------------------------------------------------------
\* Mutant: one texture too few is used in turn.
TwoTextures ==
    /\ render = "idle" /\ app \notin {"closing", "closed"}
    /\ Serial => app = "idle"
    /\ draw_buffer # 0 /\ semaphore > 0
    /\ current_buffer' = (current_buffer + 1) % 2
    /\ semaphore' = semaphore - 1 /\ render' = "encode"
    /\ UNCHANGED <<sizes, in_flight, app, wanted, closing, history>>

\* The render loop.  A frame that finds no free texture is skipped; one without a command
\* buffer gives its place back.
drawInMTKView ==
    /\ render = "idle" /\ app \notin {"closing", "closed"}
    /\ Serial => app = "idle"
    /\ draw_buffer # 0 /\ semaphore > 0
    /\ current_buffer' = (current_buffer + 1) % MaxBuffersInFlight
    /\ \/ semaphore' = semaphore - 1 /\ render' = "encode"
       \/ skips /\ UNCHANGED <<semaphore, render>>
    /\ UNCHANGED <<sizes, in_flight, app, wanted, closing, history>>

\* The pixels go into the texture: all of the region that buffer_size says.
replaceRegion ==
    /\ render = "encode" /\ render' = "commit"
    /\ app # "copy"
    /\ torn' = (torn \/ current_buffer \in ToSet(in_flight))
    /\ misfit' = (misfit \/ draw_buffer # buffer_size \/ texture_buffers # buffer_size)
    /\ UNCHANGED <<sizes, frames, app, wanted, closing, calls>>

\* With a drawable or without one the command buffer is committed, so its handler runs.
commit ==
    /\ render = "commit" /\ render' = "idle"
    /\ in_flight' = Append(in_flight, current_buffer)
    /\ UNCHANGED <<sizes, current_buffer, semaphore, app, wanted, closing, history>>

\* The frames of a command queue complete in order.
Completed ==
    /\ in_flight # <<>> /\ in_flight' = Tail(in_flight) /\ semaphore' = semaphore + 1
    /\ UNCHANGED <<sizes, current_buffer, app, wanted, render, closing, history>>

--------------------------------------------------------------------------------
\* destroy_window_data takes the delegate from the view and releases it: dealloc waits a
\* second for each place of the semaphore, gives back what it got, and keeps the semaphore
\* when the GPU did not finish.  iOS takes no lock for it: a frame in the making goes on, with
\* a draw buffer that is freed under it, and dealloc waits for its place too.
destroy_window_data ==
    /\ Closes /\ app = "idle"
    /\ Serial => render = "idle"
    /\ app' = "closing" /\ draw_buffer' = 0
    /\ UNCHANGED <<buffer_size, texture_buffers, frames, wanted, render, closing, history>>

wait_for_frames_in_flight ==
    /\ app = "closing" /\ acquired < MaxBuffersInFlight /\ semaphore > 0
    /\ acquired' = acquired + 1 /\ semaphore' = semaphore - 1
    /\ UNCHANGED <<sizes, current_buffer, in_flight, app, wanted, render, released, history>>

\* Mutant: the semaphore is released although frames are still on the GPU.
DeallocAnyway ==
    /\ app = "closing" /\ (acquired = MaxBuffersInFlight \/ semaphore = 0)
    /\ app' = "closed" /\ acquired' = 0 /\ semaphore' = semaphore + acquired /\ released' = TRUE
    /\ UNCHANGED <<sizes, current_buffer, in_flight, wanted, render, history>>
dealloc ==
    /\ app = "closing" /\ (acquired = MaxBuffersInFlight \/ semaphore = 0)
    /\ app' = "closed" /\ acquired' = 0 /\ semaphore' = semaphore + acquired
    /\ released' = (acquired = MaxBuffersInFlight)
    /\ UNCHANGED <<sizes, current_buffer, in_flight, wanted, render, history>>

Init ==
    /\ platform \in {"ios", "macos"} /\ skips \in BOOLEAN
    /\ buffer_size = FirstSize /\ draw_buffer = FirstSize /\ texture_buffers = FirstSize
    /\ current_buffer = MaxBuffersInFlight - 1 /\ semaphore = MaxBuffersInFlight /\ in_flight = <<>>
    /\ app = "idle" /\ wanted = FirstSize /\ render = "idle"
    /\ acquired = 0 /\ released = FALSE /\ torn = FALSE /\ misfit = FALSE /\ calls = 0

Next ==
    /\ \/ Application \/ drawInMTKView \/ replaceRegion \/ commit \/ Completed
       \/ destroy_window_data \/ wait_for_frames_in_flight \/ dealloc
    /\ UNCHANGED setting
Spec == Init /\ [][Next]_vars

--------------------------------------------------------------------------------
\* Every place of the semaphore is free, held by the frame in the making, by a frame on the
\* GPU or by dealloc; and it is released whole, with no handler left to signal it, though on
\* iOS the window may be destroyed in the middle of a frame.
SemaphoreIsWhole ==
    /\ semaphore + Len(in_flight) + acquired + (IF render = "idle" THEN 0 ELSE 1) = MaxBuffersInFlight
    /\ released => in_flight = <<>> /\ semaphore = MaxBuffersInFlight

\* The pixels of a frame are never written into a texture that the GPU still reads, as
\* long as every frame finds a command buffer.
TextureIsFree == ~skips => ~torn

\* Pixels, texture and size agree whenever one is copied into another, on one thread.  With
\* a render loop on a thread of its own, iOS, neither a resize nor the end of the window
\* excludes a frame in the making, and nothing is claimed.
PixelsFit == Serial => ~misfit
================================================================================
