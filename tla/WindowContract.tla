---------------------------- MODULE WindowContract ----------------------------
(* What the public interface promises of one window, whatever the backend       *)
(* (include/MiniFB.h, include/MiniFB_enums.h): a window is open, then closing,  *)
(* then gone; it goes only inside a call, which then answers EXIT; no frame is  *)
(* shown once the close has been asked for; and a call that answers OK leaves   *)
(* the application knowing the size of the window.                              *)
EXTENDS Naturals

CONSTANT Sizes

VARIABLES
    state,      \* "open", "closing" (the close was asked for) or "gone"
    calling,    \* a public call is running
    result,     \* what the last one answered
    size,       \* the size of the window
    reported,   \* the size the application was last told
    shown       \* the window size the last frame was made for

vars == <<state, calling, result, size, reported, shown>>

Results == {"OK", "EXIT", "INVALID_BUFFER", "INTERNAL_ERROR"}

TypeOK ==
    /\ state \in {"open", "closing", "gone"}
    /\ calling \in BOOLEAN
    /\ result \in Results
    /\ size \in Sizes /\ reported \in Sizes
    /\ shown \in Sizes \cup {0}

Init ==
    /\ state = "open" /\ calling = FALSE /\ result = "OK"
    /\ size \in Sizes /\ reported = size /\ shown = 0

\* The user, the application or one of its callbacks asks for the close.
RequestClose ==
    /\ state = "open"
    /\ state' = "closing"
    /\ UNCHANGED <<calling, result, size, reported, shown>>

Call ==
    /\ state # "gone" /\ ~calling
    /\ calling' = TRUE
    /\ UNCHANGED <<state, result, size, reported, shown>>

\* Only a call can change the size: outside one nothing is dispatched.  The backend
\* tells the application at once, or before the call ends.
Resize ==
    /\ calling
    /\ size' \in Sizes
    /\ reported' \in {reported, size'}
    /\ UNCHANGED <<state, calling, result, shown>>

\* The resize callback runs, with the current size; it may ask for the close.
Report ==
    /\ calling
    /\ reported' = size
    /\ state' \in {state, "closing"}
    /\ UNCHANGED <<calling, result, size, shown>>

Show ==
    /\ calling /\ state = "open"
    /\ shown' = size
    /\ UNCHANGED <<state, calling, result, size, reported>>

ReturnOK ==
    /\ calling
    /\ calling' = FALSE /\ result' = "OK"
    /\ reported' = size
    /\ state' \in {state, "closing"}
    /\ UNCHANGED <<size, shown>>

\* A call that fails may already have shown its frame.
ReturnError ==
    /\ calling
    /\ calling' = FALSE /\ result' \in {"INVALID_BUFFER", "INTERNAL_ERROR"}
    /\ shown' = shown \/ (state = "open" /\ shown' = size)
    /\ UNCHANGED <<state, size, reported>>

ReturnExit ==
    /\ calling /\ state = "closing"
    /\ calling' = FALSE /\ result' = "EXIT" /\ state' = "gone"
    /\ UNCHANGED <<size, reported, shown>>

Next ==
    \/ RequestClose \/ Call \/ Resize \/ Report \/ Show
    \/ ReturnOK \/ ReturnError \/ ReturnExit

Spec == Init /\ [][Next]_vars

--------------------------------------------------------------------------------
\* A window leaves only by the EXIT of a call, and no EXIT leaves it alive: the
\* application that has not been told EXIT still owns the window, and the one that
\* has must not use it again (mfb_update_state in include/MiniFB_enums.h).
GoneIffExit == (state = "gone") <=> (result = "EXIT")

\* A close that was asked for is never taken back, and nothing is shown after it.
StaysClosed == state # "open" => shown' = shown /\ state' # "open"
NothingShownAfterClose == [][StaysClosed]_vars

\* A call runs on a window that is there.
CallsAreAlive == calling => state # "gone"
================================================================================
