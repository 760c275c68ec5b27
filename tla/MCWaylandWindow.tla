---------------------------- MODULE MCWaylandWindow ----------------------------
(* Small instances of WaylandWindow for TLC. *)
EXTENDS WaylandWindow

MCSizes == {1, 2}
MCScales == {1, 2}
GeometryKinds == {"toplevel", "surface", "scale"}
EndKinds == {"close", "input", "remove_shell", "surface", "remove_shm", "hangup"}

JustUpdate == {"update_ex"}
AllCalls == UpdateCalls \cup {"close"}
OneSize == {1}
OneScale == {1}

\* The window starts at the first of the two sizes: they are only compared, and multiplied
\* by a scale, so that the other start would mirror it.
GeometryInit == Init /\ size = 1
GeometrySpec == GeometryInit /\ [][Next]_vars
================================================================================
