------------------------------- MODULE FrameTimer -------------------------------
(* The timer of a window and the pacing loop of mfb_wait_sync (src/MiniFB_timer.c). *)
(* A frame that ends late makes the next one shorter: the compensated reset moves   *)
(* the start of a frame by half of the error gathered so far.  Ticks are integers,  *)
(* as in the code; the doubles of the rates are exact here.                         *)
EXTENDS Integers

CONSTANTS
    Frequency,  \* ticks of a second
    Fps,        \* target rates of the application, 0 for none
    Longest,    \* ticks of the longest frame among them
    Delays,     \* time that may pass between two steps
    MaxTicks    \* bound: time of a behaviour

ASSUME FrequencyAssumption == Frequency \in Nat
ASSUME FpsAssumption == Fps \subseteq Nat
ASSUME LongestAssumption == Longest \in Nat /\ \A f \in Fps \ {0} : Frequency \div f <= Longest
ASSUME DelaysAssumption == Delays \subseteq Nat

VARIABLES
    now, fps, g_use_hardware_sync,
    start_ticks, last_delta_ticks, accumulated_ticks, accumulated_error_ticks,
    phase,        \* "frame": the application works; "wait", "reset": in mfb_wait_sync
    schedule   \* history: when the frame would have begun had every frame taken its target

timer == <<start_ticks, last_delta_ticks, accumulated_ticks, accumulated_error_ticks>>
vars == <<now, fps, g_use_hardware_sync, timer, phase, schedule>>

mfb_timer_get_ticks_per_frame == IF fps = 0 THEN 0 ELSE Frequency \div fps
Target == mfb_timer_get_ticks_per_frame

\* A cast from double drops the fraction.
Half(x) == IF x >= 0 THEN x \div 2 ELSE -((-x) \div 2)

Init ==
    /\ now = 0 /\ fps \in Fps /\ g_use_hardware_sync \in BOOLEAN /\ (g_use_hardware_sync => fps # 0)
    /\ start_ticks = 0 /\ last_delta_ticks = 0 /\ accumulated_ticks = 0 /\ accumulated_error_ticks = 0
    /\ phase = "frame" /\ schedule = 0

Elapse ==
    /\ \E d \in Delays : now + d <= MaxTicks /\ now' = now + d
    /\ UNCHANGED <<fps, g_use_hardware_sync, timer, phase, schedule>>

\* Between two frames, or in a callback of the wait.  The swap interval of a driver may
\* give hardware synchronisation for any rate but 0.
mfb_set_target_fps(f) ==
    /\ phase \in {"frame", "wait"}
    /\ fps' = f /\ g_use_hardware_sync' \in BOOLEAN /\ (g_use_hardware_sync' => f # 0)
    /\ UNCHANGED <<now, timer, phase, schedule>>

\* Under hardware synchronisation the call returns without touching the timer.
mfb_wait_sync ==
    /\ phase = "frame" /\ ~g_use_hardware_sync /\ phase' = "wait"
    /\ UNCHANGED <<now, fps, g_use_hardware_sync, timer, schedule>>

\* A turn of the loop: the start moves along, so that the call can be repeated.
mfb_timer_now ==
    LET elapsed == accumulated_ticks + (now - start_ticks) IN
    /\ phase = "wait"
    /\ accumulated_ticks' = elapsed /\ start_ticks' = now
    /\ IF fps = 0 \/ elapsed * fps >= Frequency THEN phase' = "reset" ELSE UNCHANGED phase
    /\ UNCHANGED <<now, fps, g_use_hardware_sync, last_delta_ticks, accumulated_error_ticks, schedule>>

mfb_timer_reset ==
    /\ start_ticks' = now /\ last_delta_ticks' = now
    /\ accumulated_ticks' = 0 /\ accumulated_error_ticks' = 0
    /\ schedule' = now

\* Mutant: the correction is not taken from the error it corrects.
ForgetCorrection(actual) ==
    LET error == accumulated_error_ticks + (actual - Target)
        correction == IF error > Target \div 100 \/ -error > Target \div 100 THEN Half(error) ELSE 0
    IN /\ accumulated_error_ticks' = error
       /\ start_ticks' = now - correction /\ last_delta_ticks' = now - correction
       /\ accumulated_ticks' = 0
       /\ schedule' = schedule + Target

Compensate(actual) ==
    LET error == accumulated_error_ticks + (actual - Target)
        late == error > Target \div 100 \/ -error > Target \div 100
        correction == IF late THEN Half(error) ELSE 0
    IN /\ accumulated_error_ticks' = error - correction
       /\ start_ticks' = now - correction /\ last_delta_ticks' = now - correction
       /\ accumulated_ticks' = 0
       /\ schedule' = schedule + Target

mfb_timer_compensated_reset ==
    /\ phase = "reset" /\ phase' = "frame"
    /\ IF fps = 0 \/ now - last_delta_ticks > 2 * Target
       THEN mfb_timer_reset
       ELSE Compensate(now - last_delta_ticks)
    /\ UNCHANGED <<now, fps, g_use_hardware_sync>>

Next ==
    \/ Elapse \/ mfb_wait_sync \/ mfb_timer_now \/ mfb_timer_compensated_reset
    \/ \E f \in Fps : mfb_set_target_fps(f)
Spec == Init /\ [][Next]_vars

--------------------------------------------------------------------------------
TypeOK ==
    /\ now \in Nat /\ fps \in Fps /\ g_use_hardware_sync \in BOOLEAN
    /\ start_ticks \in Int /\ last_delta_ticks \in Int
    /\ accumulated_ticks \in Int /\ accumulated_error_ticks \in Int
    /\ phase \in {"frame", "wait", "reset"} /\ schedule \in Int

\* Where the error has gone: the start of the frame is off its schedule by exactly the
\* error that is still to be corrected, and what the loop has counted starts there.
Accounts ==
    /\ last_delta_ticks = schedule + accumulated_error_ticks
    /\ start_ticks = last_delta_ticks + accumulated_ticks
    /\ last_delta_ticks <= start_ticks /\ start_ticks <= now
    /\ 0 <= accumulated_error_ticks /\ accumulated_error_ticks <= Longest
    /\ phase = "reset" /\ fps # 0 => accumulated_ticks >= Target

\* Pacing never stops and never runs away: a frame does not begin in the future, begins at
\* most one frame behind its schedule however late the frames before it were, and no frame
\* ends before its schedule, whatever changes of the rate come in between.
PaceIsKept ==
    /\ last_delta_ticks <= now
    /\ schedule <= last_delta_ticks /\ last_delta_ticks <= schedule + Longest
    /\ phase = "reset" => now >= schedule + Target
================================================================================
