------------------------------- MODULE MCWebInput -------------------------------
(* The Web window in two settings: keys and mouse buttons over the canvas and elsewhere, *)
(* with the focus lost and found; and a mouse, a touch screen and a canvas that resizes. *)
EXTENDS WebInput

CONSTANT Scenarios  \* the settings of a run

VARIABLE scenario

Scene(s) == s \in Scenarios /\ scenario = s

K == INSTANCE WebInput WITH
        Buttons <- {1}, Inputs <- {"mouse", "key", "focus"}, Calls <- {"update_ex", "update_events"}
P == INSTANCE WebInput WITH
        Keys <- {}, Inputs <- {"mouse", "touch", "resize"}, Calls <- {"wait_sync"}

MCInit ==
    \/ Scene("keys") /\ K!Init
    \/ Scene("pointer") /\ P!Init
MCNext ==
    /\ UNCHANGED scenario
    /\ \/ Scene("keys") /\ K!Next
       \/ Scene("pointer") /\ P!Next
MCSpec == MCInit /\ [][MCNext]_<<vars, scenario>>

--------------------------------------------------------------------------------
\* No key and no button sticks, and none is forgotten, wherever its release went.
NothingSticks == TypeOK /\ ButtonsAgree /\ NoKeySticks

\* Without a touch, "a key or mouse release with no press behind it is no longer delivered".
ReleasesHavePresses ==
    [][scenario = "keys" => \A b \in Buttons : Delivers(b) => b \in button_status]_vars
================================================================================
