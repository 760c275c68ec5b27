------------------------- MODULE WaylandObjects_proofs -------------------------
(* What MCWaylandObjects says of a window's objects and of its scale, for every value *)
(* of the constants.                                                                  *)
EXTENDS MCWaylandObjects, EventQueues, FiniteSetTheorems, WellFoundedInduction, SequenceTheorems, TLAPS

Temps == {"file", "mapping", "pool", "wl_buffer"}
Kept == {"libdecor_frame", "libdecor_context", "toplevel_decoration", "toplevel",
    "shell_surface", "shell", "decoration_manager", "fractional_scale",
    "fractional_scale_manager", "viewport", "viewporter", "throttle_callback",
    "surface_wrapper", "surface", "slot_0", "slot_1", "slot_2", "cursor_surface",
    "cursor_theme", "shm", "output", "compositor", "keyboard", "pointer", "seat", "registry",
    "window_display_wrapper", "render_display_wrapper", "render_queue", "window_queue",
    "display", "timer", "specific", "window_data"}
Things == Temps \cup Kept
Listed(list, o) == \E i \in 1 .. Len(list) : list[i] = o

\* Whoever needs an object of the list is released before it.
InOrder(list, held) ==
    \A i \in 1 .. Len(list) : \A p \in held :
        list[i] \in Window!Needs(p) => \E j \in 1 .. i - 1 : list[j] = p

Removed == [type : {"remove"}, val : Window!Globals]
Asked == [type : {"configure"}, val : {"same", "other"}] \cup [type : {"close"}, val : {""}]

OpeningTypes ==
    /\ live \subseteq Things /\ todo \in Seq(Things)
    /\ announced \subseteq Window!Globals
    /\ pending \in Seq(Removed \cup Asked) /\ frame_events \in Seq(Asked)
    /\ made \in 0 .. 4 /\ slot \in 1 .. 3
    /\ startups \in Nat
    /\ close \in BOOLEAN /\ committed \in BOOLEAN /\ connected \in BOOLEAN
    /\ is_initialized \in BOOLEAN /\ backend_unusable \in BOOLEAN /\ startup_state_applied \in BOOLEAN

\* Where the opening is.
Ended == step \in {"none", "failed", "closed"}
Rebuilding == step = "slot" /\ committed
Framed == step \in {"frame_handshake", "frame_mapping"}
Mapping == step \in {"mapping", "frame_mapping", "timer", "open"}
Choosing == step \in {"libdecor", "libdecor_context", "libdecor_roundtrip", "libdecor_frame",
                      "shell_surface", "xdg_toplevel"}
Preparing == step \in {"surface", "surface_wrapper", "extensions", "cursor_surface", "toplevel"}
Early == step \in {"window_data", "specific", "display", "queues", "registry", "globals", "formats"}
Waiting == step \in {"handshake", "frame_handshake"}

\* Everything that is left when the window ends is about to be released; a temporary object
\* is one of the slot in the making, or is about to be released.
EverythingListed ==
    /\ InOrder(todo, live)
    /\ Ended => \A o \in live : Listed(todo, o)
    /\ \A o \in live \cap Temps :
        \/ Listed(todo, o)
        \/ step = "slot" /\ todo = <<>> /\ \E k \in 1 .. made : Window!Temporaries[k] = o

\* What a running window is about to release.
ListedOnTheWay ==
    ~Ended => \A i \in 1 .. Len(todo) :
        /\ todo[i] = "slot_0" => step = "slot"
        /\ todo[i] \notin {"slot_1", "slot_2"}
        /\ todo[i] \in {"libdecor_frame", "libdecor_context"} => step = "shell_surface"
        /\ todo[i] = "toplevel" => backend_unusable \/ "toplevel" \notin live
        /\ todo[i] \in {"shell", "shell_surface", "toplevel"} => ~Choosing /\ ~Preparing

\* libdecor and the shell surface never meet.
LibdecorAlone ==
    \A o \in {"libdecor_frame", "libdecor_context"} \cap live :
        /\ "shell_surface" \notin live
        /\ \/ Listed(todo, o) \/ Framed \/ Rebuilding
           \/ step \in {"libdecor_roundtrip", "libdecor_frame", "timer", "open"}
ShellPlaced ==
    "shell_surface" \in live =>
        \/ Listed(todo, "shell_surface") \/ Rebuilding
        \/ step \in {"xdg_toplevel", "handshake", "mapping", "timer", "open"}
RoleStays ==
    /\ Framed \/ Rebuilding => ("libdecor_context" \in live => "libdecor_frame" \in live)
    /\ step \in {"libdecor_roundtrip", "libdecor_frame"} \/ Framed => "libdecor_context" \in live
    /\ step = "xdg_toplevel" => "shell_surface" \in live
RoleRests ==
    /\ "shell_surface" \in live => "shell" \in live
    /\ "toplevel" \in live => "shell_surface" \in live
    /\ "libdecor_frame" \in live => "libdecor_context" \in live
CommitTime ==
    /\ Choosing => "shell" \in live /\ ~committed
    /\ Preparing => ~committed
    /\ Early => ~committed /\ slot = 1
    /\ Waiting \/ Mapping => committed
RoleIsOne == LibdecorAlone /\ ShellPlaced /\ RoleStays /\ RoleRests /\ CommitTime

\* What mfb_open_ex has seen to.
Started ==
    /\ is_initialized => startup_state_applied
    /\ startups = IF startup_state_applied /\ Window!WantsState THEN 1 ELSE 0
    /\ Mapping => is_initialized
SlotsStay ==
    Mapping \/ Choosing \/ Preparing \/ (Waiting /\ ~close) => {"slot_0", "slot_1", "slot_2"} \subseteq live
Rebuilt == Rebuilding => startup_state_applied /\ slot = 1 /\ (~close => {"slot_1", "slot_2"} \subseteq live)
Filling ==
    step = "slot" /\ ~committed =>
        /\ slot >= 2 => "slot_0" \in live /\ ~Listed(todo, "slot_0")
        /\ slot = 3 => "slot_1" \in live
HasRole ==
    Mapping \/ Waiting \/ Rebuilding => backend_unusable \/ "toplevel" \in live \/ "libdecor_frame" \in live
WindowIsWhole == Started /\ SlotsStay /\ Rebuilt /\ Filling /\ HasRole

OpeningInv == OpeningTypes /\ EverythingListed /\ ListedOnTheWay /\ RoleIsOne /\ WindowIsWhole
--------------------------------------------------------------------------------
(* The orders of release.                                                             *)

LEMMA Places ==
    /\ Window!Order[1] = "libdecor_frame" /\ Window!Order[2] = "libdecor_context"
    /\ Window!Order[3] = "toplevel_decoration" /\ Window!Order[4] = "toplevel"
    /\ Window!Order[5] = "shell_surface" /\ Window!Order[6] = "shell"
    /\ Window!Order[7] = "decoration_manager" /\ Window!Order[8] = "fractional_scale"
    /\ Window!Order[9] = "fractional_scale_manager" /\ Window!Order[10] = "viewport"
    /\ Window!Order[11] = "viewporter" /\ Window!Order[12] = "throttle_callback"
    /\ Window!Order[13] = "surface_wrapper" /\ Window!Order[14] = "surface"
    /\ Window!Order[15] = "slot_0" /\ Window!Order[16] = "slot_1" /\ Window!Order[17] = "slot_2"
    /\ Window!Order[18] = "cursor_surface" /\ Window!Order[19] = "cursor_theme"
    /\ Window!Order[20] = "shm" /\ Window!Order[21] = "output" /\ Window!Order[22] = "compositor"
    /\ Window!Order[23] = "keyboard" /\ Window!Order[24] = "pointer" /\ Window!Order[25] = "seat"
    /\ Window!Order[26] = "registry" /\ Window!Order[27] = "window_display_wrapper"
    /\ Window!Order[28] = "render_display_wrapper" /\ Window!Order[29] = "render_queue"
    /\ Window!Order[30] = "window_queue" /\ Window!Order[31] = "display" /\ Window!Order[32] = "timer"
    /\ Window!Order[33] = "specific" /\ Window!Order[34] = "window_data"
BY DEF Window!Order

LEMMA OrderType == Window!Order \in Seq(Things) /\ Len(Window!Order) = 34
<1>1. Window!Order \in Seq(Things)
  BY DEF Window!Order, Things, Kept
<1> QED
  BY <1>1 DEF Window!Order

LEMMA SlotNames == Window!ToSet(Window!Slots) = {"slot_0", "slot_1", "slot_2"}
<1>1. DOMAIN Window!Slots = {1, 2, 3}
  BY DEF Window!Slots
<1>2. Window!Slots[1] = "slot_0" /\ Window!Slots[2] = "slot_1" /\ Window!Slots[3] = "slot_2"
  BY DEF Window!Slots
<1> QED
  BY <1>1, <1>2 DEF Window!ToSet

\* Who needs what (libwayland, xdg-shell).
LEMMA Needed ==
    ASSUME NEW o, NEW p, o \in Window!Needs(p)
    PROVE  \/ o = "display" /\ p \notin {"window_data", "specific", "timer", "file", "mapping", "display"}
           \/ o = "window_queue" /\ p \in {"surface", "cursor_surface", "keyboard", "pointer", "registry"}
                                            \cup Window!Globals
           \/ o = "render_queue" /\ p \in {"surface_wrapper", "throttle_callback", "pool", "wl_buffer",
                                             "slot_0", "slot_1", "slot_2"}
           \/ o = "surface" /\ p \in {"shell_surface", "libdecor_frame", "viewport", "fractional_scale",
                                        "surface_wrapper"}
           \/ o = "surface_wrapper" /\ p = "throttle_callback"
           \/ o = "shell" /\ p = "shell_surface"
           \/ o = "shell_surface" /\ p = "toplevel"
           \/ o \in {"toplevel", "decoration_manager"} /\ p = "toplevel_decoration"
           \/ o = "libdecor_context" /\ p = "libdecor_frame"
           \/ o = "window_data" /\ p = "specific"
<1> USE SlotNames DEF Window!Needs, Window!Memory, Window!Globals, Window!Required
<1>1. o \in {"display", "window_queue", "render_queue", "surface", "surface_wrapper", "shell", "shell_surface",
             "toplevel", "decoration_manager", "libdecor_context", "window_data"}
  OBVIOUS
<1>2. CASE o = "display"
  BY <1>2
<1>3. CASE o = "window_queue"
  BY <1>3
<1>4. CASE o = "render_queue"
  BY <1>4
<1>5. CASE o \in {"surface", "surface_wrapper", "shell", "shell_surface"}
  BY <1>5
<1>6. CASE o \in {"toplevel", "decoration_manager", "libdecor_context", "window_data"}
  BY <1>6
<1> QED
  BY <1>1, <1>2, <1>3, <1>4, <1>5, <1>6

LEMMA GlobalsKept ==
    /\ Window!Globals \subseteq Kept
    /\ {"shell_surface", "toplevel", "libdecor_frame", "libdecor_context"} \cap Window!Globals = {}
BY DEF Window!Globals, Window!Required, Kept

\* Where an object is in the order.
LEMMA Placed ==
    ASSUME NEW p \in Things \ Temps
    PROVE  \E j \in 1 .. 34 : Window!Order[j] = p
<1> DEFINE at(k) == Window!Order[k] = p
<1>1. p \in Kept
  BY DEF Things
<1>2. at(1) \/ at(2) \/ at(3) \/ at(4) \/ at(5) \/ at(6) \/ at(7) \/ at(8) \/ at(9) \/ at(10)
      \/ at(11) \/ at(12) \/ at(13) \/ at(14) \/ at(15) \/ at(16) \/ at(17) \/ at(18) \/ at(19)
      \/ at(20) \/ at(21) \/ at(22) \/ at(23) \/ at(24) \/ at(25) \/ at(26) \/ at(27) \/ at(28)
      \/ at(29) \/ at(30) \/ at(31) \/ at(32) \/ at(33) \/ at(34)
  BY <1>1, Places DEF Kept
<1> HIDE DEF at
<1>3. \E k \in 1 .. 34 : at(k)
  BY <1>2
<1> QED
  BY <1>3 DEF at

\* What needs o comes before it.
LEMMA Before ==
    ASSUME NEW i \in 1 .. 34, NEW j \in 1 .. 34, Window!Order[i] \in Window!Needs(Window!Order[j])
    PROVE  j < i
<1> DEFINE o == Window!Order[i]
           p == Window!Order[j]
<1>1. CASE o = "display"
  <2>1. i = 31
    BY <1>1, Places
  <2>2. p \notin {"window_data", "specific", "timer", "display"}
    BY <1>1, Needed
  <2> QED
    BY <2>1, <2>2, Places
<1>2. CASE o = "window_queue"
  <2>1. i = 30
    BY <1>2, Places
  <2>2. p \notin {"window_data", "specific", "timer", "display", "window_queue"}
    BY <1>2, Needed DEF Window!Globals, Window!Required
  <2> QED
    BY <2>1, <2>2, Places
<1>3. CASE o = "render_queue"
  <2>1. i = 29
    BY <1>3, Places
  <2>2. p \in {"surface_wrapper", "throttle_callback", "slot_0", "slot_1", "slot_2", "pool", "wl_buffer"}
    BY <1>3, Needed
  <2> QED
    BY <2>1, <2>2, Places
<1>4. CASE o = "surface"
  <2>1. i = 14
    BY <1>4, Places
  <2>2. p \in {"shell_surface", "libdecor_frame", "viewport", "fractional_scale", "surface_wrapper"}
    BY <1>4, Needed
  <2> QED
    BY <2>1, <2>2, Places
<1>5. CASE o \in {"surface_wrapper", "shell", "shell_surface", "libdecor_context", "window_data"}
  BY <1>5, Needed, Places
<1>6. CASE o \in {"toplevel", "decoration_manager"}
  BY <1>6, Needed, Places
<1> QED
  BY <1>1, <1>2, <1>3, <1>4, <1>5, <1>6, Needed

\* destroy releases nothing under an object that needs it.
LEMMA OrderIsRight == InOrder(Window!Order, Things \ Temps)
<1> SUFFICES ASSUME NEW i \in 1 .. 34, NEW p \in Things \ Temps, Window!Order[i] \in Window!Needs(p)
             PROVE  \E j \in 1 .. i - 1 : Window!Order[j] = p
  <2>1. Len(Window!Order) = 34
    BY OrderType
  <2> QED
    BY <2>1 DEF InOrder
<1>1. PICK j \in 1 .. 34 : Window!Order[j] = p
  BY Placed
<1>2. j < i
  BY <1>1, Before
<1> QED
  BY <1>1, <1>2

\* What a slot that fails in the opening releases.
Both == Window!Undo \o Window!Order

LEMMA UndoneFirst ==
    /\ Window!Undo \in Seq(Things) /\ Len(Window!Undo) = 4
    /\ Both \in Seq(Things) /\ Len(Both) = 38
    /\ \A k \in 1 .. 34 : Both[k + 4] = Window!Order[k]
    /\ \A k \in 5 .. 38 : Both[k] = Window!Order[k - 4]
    /\ \A k \in 1 .. 4 : Both[k] = Window!Undo[k]
    /\ \A o \in Temps : \E k \in 1 .. 4 : Window!Undo[k] = o
    /\ \A k \in 1 .. 4 : \A p : Window!Undo[k] \notin Window!Needs(p)
<1>1. Window!Undo \in Seq(Things) /\ Len(Window!Undo) = 4
  BY DEF Window!Undo, Things, Temps
<1>2. /\ Both \in Seq(Things) /\ Len(Both) = Len(Window!Undo) + Len(Window!Order)
      /\ \A k \in 1 .. Len(Window!Undo) + Len(Window!Order) :
            Both[k] = IF k <= Len(Window!Undo) THEN Window!Undo[k] ELSE Window!Order[k - Len(Window!Undo)]
  BY <1>1, OrderType, ConcatProperties, Zenon DEF Both
<1>3. Len(Both) = 38 /\ \A k \in 1 .. 38 : Both[k] = IF k <= 4 THEN Window!Undo[k] ELSE Window!Order[k - 4]
  <2>1. Len(Window!Undo) = 4 /\ Len(Window!Order) = 34 /\ 4 + 34 = 38
    BY <1>1, OrderType
  <2> QED
    BY <1>2, <2>1, Zenon
<1>4. \A k \in 1 .. 34 : Both[k + 4] = Window!Order[k]
  <2> SUFFICES ASSUME NEW k \in 1 .. 34 PROVE Both[k + 4] = Window!Order[k]
    OBVIOUS
  <2>1. k + 4 \in 1 .. 38 /\ ~(k + 4 <= 4) /\ k + 4 - 4 = k
    OBVIOUS
  <2> QED
    BY <1>3, <2>1
<1>5. \A o \in Temps : \E k \in 1 .. 4 : Window!Undo[k] = o
  BY DEF Window!Undo, Temps
<1>6. ASSUME NEW k \in 1 .. 4, NEW p PROVE Window!Undo[k] \notin Window!Needs(p)
  <2>1. Window!Undo[k] \in Temps
    BY DEF Window!Undo, Temps
  <2> QED
    BY <2>1, Needed DEF Temps
<1>7. (\A k \in 5 .. 38 : Both[k] = Window!Order[k - 4]) /\ (\A k \in 1 .. 4 : Both[k] = Window!Undo[k])
  <2>1. \A k \in 1 .. 38 : Both[k] = IF k <= 4 THEN Window!Undo[k] ELSE Window!Order[k - 4]
    BY <1>3
  <2> QED
    BY <2>1
<1> QED
  BY <1>1, <1>2, <1>3, <1>4, <1>5, <1>6, <1>7, Zenon

LEMMA Lists ==
    ASSUME NEW o \in Things
    PROVE  /\ o \in Kept => Listed(Window!Order, o)
           /\ Listed(Both, o)
<1>1. o \in Kept => Listed(Window!Order, o)
  BY Placed, OrderType DEF Listed, Kept, Temps
<1>2. /\ Len(Both) = 38 /\ \A k \in 1 .. 34 : Both[k + 4] = Window!Order[k]
      /\ \A k \in 1 .. 4 : Both[k] = Window!Undo[k]
      /\ \A t \in Temps : \E k \in 1 .. 4 : Window!Undo[k] = t
  BY UndoneFirst
<1>3. CASE o \in Temps
  <2>1. PICK k \in 1 .. 4 : Window!Undo[k] = o
    BY <1>2, <1>3
  <2>2. k \in 1 .. Len(Both) /\ Both[k] = o
    BY <1>2, <2>1
  <2> QED
    BY <1>1, <2>2 DEF Listed
<1>4. CASE o \in Kept
  <2>1. PICK k \in 1 .. 34 : Window!Order[k] = o
    BY <1>1, <1>4, OrderType DEF Listed
  <2>2. k + 4 \in 1 .. Len(Both) /\ Both[k + 4] = o
    BY <1>2, <2>1
  <2>3. Listed(Both, o)
    BY <2>2 DEF Listed
  <2> QED
    BY <1>1, <2>3
<1> QED
  BY <1>3, <1>4 DEF Things

\* A failed slot of an opening is undone before the rest.
LEMMA UndoIsRight ==
    InOrder(Both, Things) /\ InOrder(Window!Undo, Things)
<1>1. InOrder(Window!Undo, Things)
  BY UndoneFirst DEF InOrder
<1>2. /\ Len(Both) = 38 /\ \A k \in 1 .. 34 : Both[k + 4] = Window!Order[k]
      /\ \A k \in 5 .. 38 : Both[k] = Window!Order[k - 4]
      /\ \A k \in 1 .. 4 : Both[k] = Window!Undo[k]
      /\ \A t \in Temps : \E k \in 1 .. 4 : Window!Undo[k] = t
      /\ \A k \in 1 .. 4 : \A q : Window!Undo[k] \notin Window!Needs(q)
  BY UndoneFirst
<1>3. ASSUME NEW i \in 1 .. 38, NEW p \in Things, Both[i] \in Window!Needs(p)
      PROVE  \E j \in 1 .. i - 1 : Both[j] = p
  <2>1. i \in 5 .. 38
    <3> SUFFICES ASSUME i \in 1 .. 4 PROVE FALSE
      OBVIOUS
    <3> QED
      BY <1>2, <1>3
  <2>2. i - 4 \in 1 .. 34 /\ Both[i] = Window!Order[i - 4]
    BY <1>2, <2>1
  <2>3. CASE p \in Temps
    <3>1. PICK k \in 1 .. 4 : Window!Undo[k] = p
      BY <1>2, <2>3
    <3>2. k \in 1 .. i - 1 /\ Both[k] = p
      BY <1>2, <3>1, <2>1
    <3> QED
      BY <3>2
  <2>4. CASE p \in Things \ Temps
    <3>1. PICK j \in 1 .. 34 : Window!Order[j] = p
      BY <2>4, Placed
    <3>2. j < i - 4
      BY <1>3, <2>2, <3>1, Before
    <3>3. Both[j + 4] = p /\ j + 4 \in 1 .. i - 1
      BY <3>1, <3>2, <2>1, <1>2
    <3> QED
      BY <3>3
  <2> QED
    BY <2>3, <2>4
<1>4. InOrder(Both, Things)
  BY <1>2, <1>3 DEF InOrder
<1> QED
  BY <1>1, <1>4

LEMMA Narrower ==
    ASSUME NEW list, NEW a, NEW b, a \subseteq b, InOrder(list, b) PROVE InOrder(list, a)
BY DEF InOrder

\* The shorter lists.
LEMMA ShortLists ==
    ASSUME NEW held, NEW g \in Window!Globals
    PROVE  /\ InOrder(<<>>, held) /\ <<>> \in Seq(Things)
           /\ InOrder(<<"pool", "file">>, held) /\ <<"pool", "file">> \in Seq(Things)
           /\ InOrder(<<"slot_0">>, held) /\ <<"slot_0">> \in Seq(Things)
           /\ InOrder(<<"libdecor_frame", "libdecor_context">>, held)
           /\ <<"libdecor_frame", "libdecor_context">> \in Seq(Things)
           /\ InOrder(Window!ReleasedWith(g), held) /\ Window!ReleasedWith(g) \in Seq(Things)
<1>1. InOrder(<<>>, held) /\ <<>> \in Seq(Things)
  BY DEF InOrder
<1>2. InOrder(<<"pool", "file">>, held) /\ <<"pool", "file">> \in Seq(Things)
  BY Needed DEF InOrder, Things, Temps
<1>3. InOrder(<<"slot_0">>, held) /\ <<"slot_0">> \in Seq(Things)
  BY Needed DEF InOrder, Things, Kept
<1>4. /\ InOrder(<<"libdecor_frame", "libdecor_context">>, held)
      /\ <<"libdecor_frame", "libdecor_context">> \in Seq(Things)
  BY Needed DEF InOrder, Things, Kept
<1>5. InOrder(Window!ReleasedWith(g), held) /\ Window!ReleasedWith(g) \in Seq(Things)
  <2> USE Needed DEF InOrder, Things, Kept, Window!ReleasedWith
  <2>1. CASE g = "seat"
    BY <2>1
  <2>2. CASE g = "decoration_manager"
    BY <2>2
  <2>3. CASE g = "fractional_scale_manager"
    BY <2>3
  <2>4. CASE g = "viewporter"
    BY <2>4
  <2>5. CASE g = "shell"
    BY <2>5
  <2>6. CASE g \in {"compositor", "shm", "output"}
    BY <2>6
  <2> QED
    BY <2>1, <2>2, <2>3, <2>4, <2>5, <2>6 DEF Window!Globals, Window!Required
<1> QED
  BY <1>1, <1>2, <1>3, <1>4, <1>5

--------------------------------------------------------------------------------
(* The opening keeps its invariant, action by action.                                 *)

LEMMA NothingListed == \A o : ~Listed(<<>>, o)
BY DEF Listed

LEMMA OpeningInit == Window!Init => OpeningInv
<1> SUFFICES ASSUME Window!Init PROVE OpeningInv
  OBVIOUS
<1> USE DEF Window!Init
<1>1. OpeningTypes
  <2>1. live \subseteq Things /\ todo \in Seq(Things) /\ announced \subseteq Window!Globals
    OBVIOUS
  <2>2. pending \in Seq(Removed \cup Asked) /\ frame_events \in Seq(Asked)
    OBVIOUS
  <2>3. made \in 0 .. 4 /\ slot \in 1 .. 3 /\ startups \in Nat
    OBVIOUS
  <2>4. /\ close \in BOOLEAN /\ committed \in BOOLEAN /\ connected \in BOOLEAN
        /\ is_initialized \in BOOLEAN /\ backend_unusable \in BOOLEAN /\ startup_state_applied \in BOOLEAN
    OBVIOUS
  <2> QED
    BY <2>1, <2>2, <2>3, <2>4, Zenon DEF OpeningTypes
<1>2. EverythingListed
  BY DEF EverythingListed, InOrder
<1>3. ListedOnTheWay
  BY DEF ListedOnTheWay, Ended
<1>4. RoleIsOne
  BY DEF RoleIsOne, LibdecorAlone, ShellPlaced, RoleStays, RoleRests, CommitTime, Framed, Rebuilding, Choosing, Preparing, Early, Waiting, Mapping
<1>5. WindowIsWhole
  BY DEF WindowIsWhole, Started, SlotsStay, Rebuilt, Filling, HasRole, Mapping, Choosing, Preparing,
         Waiting, Rebuilding, Window!WantsState
<1> QED
  BY <1>1, <1>2, <1>3, <1>4, <1>5 DEF OpeningInv

\* One object after the other is released.
LEMMA ReleaseStep == ASSUME OpeningInv, Window!Release PROVE OpeningInv'
<1> USE DEF Window!Release, OpeningInv
<1>0. UNCHANGED <<announced, pending, frame_events, connected, committed, removals, configures, library, windows,
                  step, slot, made, flags, shm_format, is_initialized, close, backend_unusable,
                  startup_state_applied, startups>>
  BY DEF Window!compositor, Window!process, Window!making, Window!state
<1>1. /\ todo' \in Seq(Things) /\ Len(todo) \in Nat /\ Len(todo') = Len(todo) - 1
      /\ Head(todo) = todo[1] /\ todo[1] \in Things
      /\ \A i \in 1 .. Len(todo') : todo'[i] = todo[i + 1] /\ i + 1 \in 1 .. Len(todo)
  BY DEF OpeningTypes
<1>2. live' = live \ {todo[1]}
  BY <1>1
<1> HIDE DEF Window!Release
<1>3. \A o : Listed(todo, o) => o = todo[1] \/ Listed(todo', o)
  <2> SUFFICES ASSUME NEW i \in 1 .. Len(todo), todo[i] # todo[1] PROVE Listed(todo', todo[i])
    BY DEF Listed
  <2>1. i - 1 \in 1 .. Len(todo') /\ (i - 1) + 1 = i
    BY <1>1
  <2> QED
    BY <1>1, <2>1 DEF Listed
<1>4. \A o : Listed(todo', o) => Listed(todo, o)
  BY <1>1 DEF Listed
<1>5. OpeningTypes'
  BY <1>0, <1>1, <1>2 DEF OpeningTypes
<1>6. InOrder(todo', live')
  <2> SUFFICES ASSUME NEW i \in 1 .. Len(todo'), NEW p \in live', todo'[i] \in Window!Needs(p)
               PROVE  \E j \in 1 .. i - 1 : todo'[j] = p
    BY DEF InOrder
  <2>1. PICK j \in 1 .. i : todo[j] = p
    BY <1>1, <1>2 DEF EverythingListed, InOrder
  <2>2. j # 1
    BY <1>2, <2>1
  <2>3. j - 1 \in 1 .. i - 1 /\ j - 1 \in 1 .. Len(todo') /\ (j - 1) + 1 = j
    BY <2>1, <2>2, <1>1
  <2> QED
    BY <2>1, <2>3, <1>1
<1>7. EverythingListed'
  <2>1. ASSUME NEW o \in live' PROVE o \in live /\ o # todo[1]
    BY <1>2
  <2>2. (Ended => \A o \in live : Listed(todo, o))'
    BY <1>0, <1>3, <2>1 DEF EverythingListed, Ended
  <2>3. ASSUME NEW o \in live' \cap Temps PROVE Listed(todo', o)
    BY <1>0, <1>1, <1>3, <2>1 DEF EverythingListed
  <2> QED
    BY <1>6, <2>2, <2>3 DEF EverythingListed
<1>8. ListedOnTheWay'
  BY <1>0, <1>1, <1>2 DEF ListedOnTheWay, Ended, Choosing, Preparing
<1>9. ~Ended =>
        /\ todo[1] = "slot_0" => step = "slot"
        /\ todo[1] \notin {"slot_1", "slot_2"}
        /\ todo[1] \in {"libdecor_frame", "libdecor_context"} => step = "shell_surface"
        /\ todo[1] = "toplevel" => backend_unusable \/ "toplevel" \notin live
        /\ todo[1] \in {"shell", "shell_surface", "toplevel"} => ~Choosing /\ ~Preparing
  BY <1>1 DEF ListedOnTheWay
<1>10. RoleIsOne'
  <2> USE DEF RoleIsOne, Framed, Rebuilding, Choosing, Preparing, Early, Waiting, Mapping, Ended
  <2>1. LibdecorAlone'
    BY <1>0, <1>2, <1>3 DEF LibdecorAlone
  <2>2. ShellPlaced'
    BY <1>0, <1>2, <1>3 DEF ShellPlaced
  <2>3. RoleStays'
    BY <1>0, <1>2, <1>9 DEF RoleStays
  <2>4. RoleRests'
    <3>1. \A o \in live, p \in live : o \in Window!Needs(p) => o # todo[1] \/ p = todo[1]
      BY <1>1 DEF EverythingListed, InOrder
    <3>2. /\ "shell" \in Window!Needs("shell_surface") /\ "shell_surface" \in Window!Needs("toplevel")
          /\ "libdecor_context" \in Window!Needs("libdecor_frame")
      BY SlotNames DEF Window!Needs, Window!Memory, Window!Globals, Window!Required
    <3> QED
      BY <1>2, <3>1, <3>2 DEF RoleRests
  <2>5. CommitTime'
    BY <1>0, <1>2, <1>9 DEF CommitTime
  <2> QED
    BY <2>1, <2>2, <2>3, <2>4, <2>5
<1>11. WindowIsWhole'
  <2> USE DEF WindowIsWhole, Mapping, Choosing, Preparing, Waiting, Rebuilding, Ended
  <2>1. Started'
    BY <1>0 DEF Started, Window!WantsState
  <2>2. SlotsStay'
    BY <1>0, <1>2, <1>9 DEF SlotsStay
  <2>3. Rebuilt'
    BY <1>0, <1>2, <1>9 DEF Rebuilt
  <2>4. Filling'
    <3>1. todo[1] = "slot_0" => Listed(todo, "slot_0")
      BY <1>1 DEF Listed
    <3> QED
      BY <1>0, <1>2, <1>4, <1>9, <3>1 DEF Filling
  <2>5. HasRole'
    BY <1>0, <1>2, <1>9 DEF HasRole
  <2> QED
    BY <2>1, <2>2, <2>3, <2>4, <2>5
<1> QED
  BY <1>5, <1>7, <1>8, <1>10, <1>11

LEMMA Sent ==
    ASSUME OpeningTypes, NEW e \in Asked
    PROVE  /\ Append(pending, e) \in Seq(Removed \cup Asked)
           /\ Append(frame_events, e) \in Seq(Asked)
<1>1. pending \in Seq(Removed \cup Asked) /\ frame_events \in Seq(Asked) /\ e \in Removed \cup Asked
  BY DEF OpeningTypes
<1> QED
  BY <1>1, AppendProperties

\* What the compositor does shows only where the program reads.
LEMMA CompositorStep == ASSUME OpeningInv, Window!Compositor PROVE OpeningInv'
<1> USE DEF OpeningInv, Window!Compositor, Window!Unchanged
<1>1. UNCHANGED <<committed, library, windows, step, live, todo, slot, made, flags, shm_format, is_initialized,
                  close, backend_unusable, startup_state_applied, startups>>
  BY DEF Window!Withdraw, Window!Configure, Window!AskToClose, Window!Break, Window!process,
         Window!making, Window!state
<1>2. /\ announced' \subseteq Window!Globals /\ connected' \in BOOLEAN
      /\ pending' \in Seq(Removed \cup Asked) /\ frame_events' \in Seq(Asked)
  <2>1. CASE \E g \in Window!Globals : Window!Withdraw(g)
    BY <2>1 DEF Window!Withdraw, OpeningTypes, Removed
  <2>2. CASE \E size \in {"same", "other"} : Window!Configure(size)
    <3>1. PICK size \in {"same", "other"} : Window!Configure(size)
      BY <2>2
    <3>2. [type |-> "configure", val |-> size] \in Asked
      BY DEF Asked
    <3> HIDE DEF Asked
    <3>3. UNCHANGED <<announced, connected>>
      BY <3>1 DEF Window!Configure
    <3>4. /\ pending' \in {pending, Append(pending, [type |-> "configure", val |-> size])}
          /\ frame_events' \in {frame_events, Append(frame_events, [type |-> "configure", val |-> size])}
      BY <3>1 DEF Window!Configure
    <3>5. pending' \in Seq(Removed \cup Asked)
      BY <3>2, <3>4, Sent, Zenon DEF OpeningTypes
    <3>6. frame_events' \in Seq(Asked)
      BY <3>2, <3>4, Sent, Zenon DEF OpeningTypes
    <3> QED
      BY <3>3, <3>5, <3>6 DEF OpeningTypes
  <2>3. CASE Window!AskToClose
    <3>1. [type |-> "close", val |-> ""] \in Asked
      BY DEF Asked
    <3>2. UNCHANGED <<announced, connected>>
      BY <2>3 DEF Window!AskToClose
    <3>3. /\ pending' \in {pending, Append(pending, [type |-> "close", val |-> ""])}
          /\ frame_events' \in {frame_events, Append(frame_events, [type |-> "close", val |-> ""])}
      BY <2>3 DEF Window!AskToClose
    <3>4. pending' \in Seq(Removed \cup Asked)
      BY <3>1, <3>3, Sent, Zenon DEF OpeningTypes
    <3>5. frame_events' \in Seq(Asked)
      BY <3>1, <3>3, Sent, Zenon DEF OpeningTypes
    <3> QED
      BY <3>2, <3>4, <3>5 DEF OpeningTypes
  <2>4. CASE Window!Break
    BY <2>4 DEF Window!Break, OpeningTypes
  <2> QED
    BY <2>1, <2>2, <2>3, <2>4
<1> HIDE DEF Window!Compositor
<1>3. OpeningTypes'
  BY <1>1, <1>2 DEF OpeningTypes
<1>4. EverythingListed'
  BY <1>1 DEF EverythingListed, InOrder, Listed, Ended
<1>5. ListedOnTheWay'
  BY <1>1 DEF ListedOnTheWay, Ended, Choosing, Preparing
<1>6. RoleIsOne'
  BY <1>1 DEF RoleIsOne, LibdecorAlone, ShellPlaced, RoleStays, RoleRests, CommitTime, Framed, Rebuilding, Choosing,
              Preparing, Early, Waiting, Mapping, Listed
<1>7. WindowIsWhole'
  BY <1>1 DEF WindowIsWhole, Started, SlotsStay, Rebuilt, Filling, HasRole, Mapping, Choosing, Preparing,
              Waiting, Rebuilding, Window!WantsState, Listed
<1> QED
  BY <1>3, <1>4, <1>5, <1>6, <1>7

\* A step between two releases lists everything, or nothing while the window lives.
LEMMA Between ==
    ASSUME OpeningInv, todo = <<>>, step # "slot", live' \subseteq live \cup Kept,
           (todo' = <<>> /\ ~Ended') \/ (todo' = Window!Order /\ Ended')
    PROVE  /\ EverythingListed' /\ ListedOnTheWay'
           /\ live' \subseteq Things /\ todo' \in Seq(Things)
           /\ Ended' => \A o \in live' : Listed(todo', o)
<1> USE DEF OpeningInv
<1>1. live' \subseteq Kept
  BY NothingListed DEF EverythingListed, OpeningTypes, Things
<1>2. live' \subseteq Things \ Temps
  BY <1>1 DEF Kept, Temps, Things
<1>3. CASE todo' = <<>> /\ ~Ended'
  BY <1>2, <1>3 DEF EverythingListed, ListedOnTheWay, InOrder
<1>4. CASE todo' = Window!Order /\ Ended'
  <2>1. InOrder(todo', live')
    BY <1>2, <1>4, OrderIsRight DEF InOrder
  <2>2. \A o \in live' : Listed(todo', o)
    BY <1>1, <1>4, Lists DEF Things
  <2>3. todo' \in Seq(Things)
    BY <1>4, OrderType
  <2> QED
    BY <1>2, <1>4, <2>1, <2>2, <2>3 DEF EverythingListed, ListedOnTheWay
<1> QED
  BY <1>3, <1>4

\* The objects that are acquired one after the other.
Row(at, objects, next) ==
    \/ at = "window_data" /\ objects = {"window_data"} /\ next = "specific"
    \/ at = "specific" /\ objects = {"specific"} /\ next = "display"
    \/ at = "display" /\ objects = {"display"} /\ next = "queues"
    \/ /\ at = "queues" /\ next = "registry"
       /\ objects = {"window_queue", "render_queue", "window_display_wrapper", "render_display_wrapper"}
    \/ at = "registry" /\ objects = {"registry"} /\ next = "globals"
    \/ at = "surface" /\ objects = {"surface"} /\ next = "surface_wrapper"
    \/ at = "surface_wrapper" /\ objects = {"surface_wrapper"} /\ next = "extensions"
    \/ at = "cursor_surface" /\ objects = {"cursor_surface"} /\ next = "toplevel"
    \/ at = "shell_surface" /\ objects = {"shell_surface"} /\ next = "xdg_toplevel"
    \/ at = "timer" /\ objects = {"timer"} /\ next = "open"
LEMMA AcquireStep ==
    ASSUME OpeningInv, NEW at, NEW objects, NEW next, Row(at, objects, next), Window!Acquire(at, objects, next)
    PROVE  OpeningInv'
<1> USE DEF OpeningInv
<1>1. /\ step = at /\ todo = <<>>
      /\ \E got \in SUBSET objects : live' = live \cup got
      /\ \/ step' = next /\ todo' = <<>> /\ objects \subseteq live'
         \/ step' = "failed" /\ todo' = Window!Order
      /\ UNCHANGED <<announced, pending, frame_events, connected, committed, removals, configures, library,
                     windows, slot, made, flags, shm_format, is_initialized, close, backend_unusable,
                     startup_state_applied, startups>>
  BY DEF Window!Acquire, Window!At, Window!Goto, Window!Fail, Window!compositor, Window!process, Window!making,
         Window!state
<1>2. objects \subseteq Kept /\ step # "slot" /\ next \notin {"none", "failed", "closed"}
  BY <1>1 DEF Row, Kept
<1>3. live \subseteq live' /\ live' \subseteq live \cup objects
  BY <1>1
<1>4. /\ EverythingListed' /\ ListedOnTheWay'
      /\ live' \subseteq Things /\ todo' \in Seq(Things)
      /\ Ended' => \A o \in live' : Listed(todo', o)
  BY <1>1, <1>2, <1>3, Between DEF Ended
<1>5. OpeningTypes'
  BY <1>1, <1>4 DEF OpeningTypes
<1>6. RoleIsOne'
  <2> USE <1>1, <1>3, NothingListed DEF RoleIsOne, Framed, Rebuilding, Choosing, Preparing, Early, Waiting, Mapping, Row
  <2>1. LibdecorAlone'
    <3>1. CASE Ended'
      BY <1>4, <3>1 DEF LibdecorAlone, Ended
    <3>2. CASE step' = next
      BY <3>2 DEF LibdecorAlone
    <3> QED
      BY <3>1, <3>2 DEF Ended
  <2>2. ShellPlaced'
    BY <1>4 DEF ShellPlaced, Ended
  <2>3. RoleStays'
    BY DEF RoleStays
  <2>4. RoleRests'
    BY DEF RoleRests, CommitTime
  <2>5. CommitTime'
    BY DEF CommitTime
  <2> QED
    BY <2>1, <2>2, <2>3, <2>4, <2>5
<1>7. WindowIsWhole'
  <2> USE <1>1, <1>3, NothingListed
      DEF WindowIsWhole, Mapping, Choosing, Preparing, Waiting, Rebuilding, Row
  <2>1. Started'
    BY DEF Started, Window!WantsState
  <2>2. SlotsStay'
    BY DEF SlotsStay
  <2>3. Rebuilt'
    BY DEF Rebuilt
  <2>4. Filling'
    BY DEF Filling
  <2>5. HasRole'
    BY DEF HasRole
  <2> QED
    BY <2>1, <2>2, <2>3, <2>4, <2>5
<1> QED
  BY <1>4, <1>5, <1>6, <1>7

\* The globals of the first roundtrip.
LEMMA GlobalsStep == ASSUME OpeningInv, Window!registry_global PROVE OpeningInv'
<1> USE DEF OpeningInv
<1>1. /\ step = "globals" /\ todo = <<>>
      /\ live \subseteq live' /\ live' \subseteq live \cup announced
      /\ \/ step' = "formats" /\ todo' = <<>>
         \/ step' = "failed" /\ todo' = Window!Order
      /\ announced \subseteq Window!Globals
      /\ UNCHANGED <<announced, pending, frame_events, connected, committed, removals, configures, library,
                         windows, slot, made, flags, is_initialized, close, backend_unusable,
                         startup_state_applied, startups>>
  BY DEF OpeningTypes, Window!registry_global, Window!At, Window!Fail, Window!Goto, Window!compositor,
         Window!process, Window!making, Window!state
<1>2. /\ EverythingListed' /\ ListedOnTheWay'
      /\ live' \subseteq Things /\ todo' \in Seq(Things)
      /\ Ended' => \A o \in live' : Listed(todo', o)
  BY <1>1, Between, GlobalsKept DEF Ended, Kept
<1>3. OpeningTypes'
  BY <1>1, <1>2 DEF OpeningTypes
<1>4. RoleIsOne'
  <2> USE <1>1, <1>2, NothingListed, GlobalsKept DEF RoleIsOne, Framed, Rebuilding, Choosing, Preparing, Early, Waiting, Mapping
  <2>1. LibdecorAlone'
    BY DEF LibdecorAlone, Ended
  <2>2. ShellPlaced'
    BY DEF ShellPlaced, Ended
  <2>3. RoleStays'
    BY DEF RoleStays, CommitTime
  <2>4. RoleRests'
    BY DEF RoleRests, CommitTime, RoleStays
  <2>5. CommitTime'
    BY DEF CommitTime
  <2> QED
    BY <2>1, <2>2, <2>3, <2>4, <2>5
<1>5. WindowIsWhole'
  <2> USE <1>1, <1>2, NothingListed, GlobalsKept DEF WindowIsWhole, RoleIsOne, Mapping, Choosing, Preparing, Waiting, Rebuilding, Early
  <2>1. Started'
    BY DEF Started, Window!WantsState
  <2>2. SlotsStay'
    BY DEF SlotsStay
  <2>3. Rebuilt'
    BY DEF Rebuilt, CommitTime
  <2>4. Filling'
    BY DEF Filling, CommitTime
  <2>5. HasRole'
    BY DEF HasRole, CommitTime
  <2> QED
    BY <2>1, <2>2, <2>3, <2>4, <2>5
<1> QED
  BY <1>2, <1>3, <1>4, <1>5

\* The formats.
LEMMA FormatsStep == ASSUME OpeningInv, Window!Formats PROVE OpeningInv'
<1> USE DEF OpeningInv
<1>1. /\ step = "formats" /\ todo = <<>>
      /\ \/ step' = "slot" /\ todo' = <<>>
         \/ step' = "failed" /\ todo' = Window!Order
      /\ UNCHANGED <<announced, pending, frame_events, connected, committed, removals, configures, library,
                         windows, live, slot, made, flags, is_initialized, close, backend_unusable,
                         startup_state_applied, startups>>
  BY DEF Window!Formats, Window!At, Window!Fail, Window!Goto, Window!compositor, Window!process,
         Window!making, Window!state
<1>2. /\ EverythingListed' /\ ListedOnTheWay'
      /\ live' \subseteq Things /\ todo' \in Seq(Things)
      /\ Ended' => \A o \in live' : Listed(todo', o)
  BY <1>1, Between, GlobalsKept DEF Ended, Kept
<1>3. OpeningTypes'
  BY <1>1, <1>2 DEF OpeningTypes
<1>4. RoleIsOne'
  <2> USE <1>1, <1>2, NothingListed, GlobalsKept DEF RoleIsOne, Framed, Rebuilding, Choosing, Preparing, Early, Waiting, Mapping
  <2>1. LibdecorAlone'
    BY DEF LibdecorAlone, Ended
  <2>2. ShellPlaced'
    BY DEF ShellPlaced, Ended
  <2>3. RoleStays'
    BY DEF RoleStays, CommitTime
  <2>4. RoleRests'
    BY DEF RoleRests, CommitTime, RoleStays
  <2>5. CommitTime'
    BY DEF CommitTime
  <2> QED
    BY <2>1, <2>2, <2>3, <2>4, <2>5
<1>5. WindowIsWhole'
  <2> USE <1>1, <1>2, NothingListed, GlobalsKept DEF WindowIsWhole, RoleIsOne, Mapping, Choosing, Preparing, Waiting, Rebuilding, Early
  <2>1. Started'
    BY DEF Started, Window!WantsState
  <2>2. SlotsStay'
    BY DEF SlotsStay
  <2>3. Rebuilt'
    BY DEF Rebuilt, CommitTime
  <2>4. Filling'
    BY DEF Filling, CommitTime
  <2>5. HasRole'
    BY DEF HasRole, CommitTime
  <2> QED
    BY <2>1, <2>2, <2>3, <2>4, <2>5
<1> QED
  BY <1>2, <1>3, <1>4, <1>5

\* The extensions of the surface.
LEMMA ExtensionsStep == ASSUME OpeningInv, Window!Extensions PROVE OpeningInv'
<1> USE DEF OpeningInv
<1>1. /\ step = "extensions" /\ todo = <<>>
      /\ live \subseteq live' /\ live' \subseteq live \cup {"viewport", "fractional_scale"}
      /\ step' = "cursor_surface" /\ todo' = <<>>
      /\ UNCHANGED <<announced, pending, frame_events, connected, committed, removals, configures, library,
                         windows, slot, made, flags, shm_format, is_initialized, close, backend_unusable,
                         startup_state_applied, startups>>
  BY DEF Window!Extensions, Window!At, Window!Goto, Window!compositor, Window!process, Window!making,
         Window!state
<1>2. /\ EverythingListed' /\ ListedOnTheWay'
      /\ live' \subseteq Things /\ todo' \in Seq(Things)
      /\ Ended' => \A o \in live' : Listed(todo', o)
  BY <1>1, Between, GlobalsKept DEF Ended, Kept
<1>3. OpeningTypes'
  BY <1>1, <1>2 DEF OpeningTypes
<1>4. RoleIsOne'
  <2> USE <1>1, <1>2, NothingListed, GlobalsKept DEF RoleIsOne, Framed, Rebuilding, Choosing, Preparing, Early, Waiting, Mapping
  <2>1. LibdecorAlone'
    BY DEF LibdecorAlone
  <2>2. ShellPlaced'
    BY DEF ShellPlaced
  <2>3. RoleStays'
    BY DEF RoleStays, CommitTime
  <2>4. RoleRests'
    BY DEF RoleRests, CommitTime, RoleStays
  <2>5. CommitTime'
    BY DEF CommitTime
  <2> QED
    BY <2>1, <2>2, <2>3, <2>4, <2>5
<1>5. WindowIsWhole'
  <2> USE <1>1, <1>2, NothingListed, GlobalsKept DEF WindowIsWhole, RoleIsOne, Mapping, Choosing, Preparing, Waiting, Rebuilding, Early
  <2>1. Started'
    BY DEF Started, Window!WantsState
  <2>2. SlotsStay'
    BY DEF SlotsStay
  <2>3. Rebuilt'
    BY DEF Rebuilt, CommitTime
  <2>4. Filling'
    BY DEF Filling, CommitTime
  <2>5. HasRole'
    BY DEF HasRole, CommitTime
  <2> QED
    BY <2>1, <2>2, <2>3, <2>4, <2>5
<1> QED
  BY <1>2, <1>3, <1>4, <1>5

\* The choice of a role.
LEMMA ToplevelStep == ASSUME OpeningInv, Window!create_xdg_toplevel PROVE OpeningInv'
<1> USE DEF OpeningInv
<1>1. /\ step = "toplevel" /\ todo = <<>>
      /\ \/ step' \in {"libdecor", "shell_surface"} /\ todo' = <<>> /\ "shell" \in live
         \/ step' = "failed" /\ todo' = Window!Order
      /\ UNCHANGED <<announced, pending, frame_events, connected, committed, removals, configures, library,
                         windows, live, slot, made, flags, shm_format, is_initialized, close,
                         backend_unusable, startup_state_applied, startups>>
  BY DEF Window!create_xdg_toplevel, Window!At, Window!Goto, Window!Fail, Window!compositor,
         Window!process, Window!making, Window!state
<1>2. /\ EverythingListed' /\ ListedOnTheWay'
      /\ live' \subseteq Things /\ todo' \in Seq(Things)
      /\ Ended' => \A o \in live' : Listed(todo', o)
  BY <1>1, Between, GlobalsKept DEF Ended, Kept
<1>3. OpeningTypes'
  BY <1>1, <1>2 DEF OpeningTypes
<1>4. RoleIsOne'
  <2> USE <1>1, <1>2, NothingListed, GlobalsKept DEF RoleIsOne, Framed, Rebuilding, Choosing, Preparing, Early, Waiting, Mapping
  <2>1. LibdecorAlone'
    BY DEF LibdecorAlone, Ended
  <2>2. ShellPlaced'
    BY DEF ShellPlaced, Ended
  <2>3. RoleStays'
    BY DEF RoleStays, CommitTime
  <2>4. RoleRests'
    BY DEF RoleRests, CommitTime, RoleStays
  <2>5. CommitTime'
    BY DEF CommitTime
  <2> QED
    BY <2>1, <2>2, <2>3, <2>4, <2>5
<1>5. WindowIsWhole'
  <2> USE <1>1, <1>2, NothingListed, GlobalsKept DEF WindowIsWhole, RoleIsOne, Mapping, Choosing, Preparing, Waiting, Rebuilding, Early
  <2>1. Started'
    BY DEF Started, Window!WantsState
  <2>2. SlotsStay'
    BY DEF SlotsStay
  <2>3. Rebuilt'
    BY DEF Rebuilt, CommitTime
  <2>4. Filling'
    BY DEF Filling, CommitTime
  <2>5. HasRole'
    BY DEF HasRole, CommitTime
  <2> QED
    BY <2>1, <2>2, <2>3, <2>4, <2>5
<1> QED
  BY <1>2, <1>3, <1>4, <1>5

\* The library of libdecor.
LEMMA LoadStep == ASSUME OpeningInv, Window!libdecor_load PROVE OpeningInv'
<1> USE DEF OpeningInv
<1>1. /\ step = "libdecor" /\ todo = <<>>
      /\ step' \in {"libdecor_context", "shell_surface"} /\ todo' = <<>>
      /\ UNCHANGED <<announced, pending, frame_events, connected, committed, removals, configures, windows,
                         live, slot, made, flags, shm_format, is_initialized, close, backend_unusable,
                         startup_state_applied, startups>>
  BY DEF Window!libdecor_load, Window!At, Window!Goto, Window!compositor, Window!process, Window!making,
         Window!state
<1>2. /\ EverythingListed' /\ ListedOnTheWay'
      /\ live' \subseteq Things /\ todo' \in Seq(Things)
      /\ Ended' => \A o \in live' : Listed(todo', o)
  BY <1>1, Between, GlobalsKept DEF Ended, Kept
<1>3. OpeningTypes'
  BY <1>1, <1>2 DEF OpeningTypes
<1>4. RoleIsOne'
  <2> USE <1>1, <1>2, NothingListed, GlobalsKept DEF RoleIsOne, Framed, Rebuilding, Choosing, Preparing, Early, Waiting, Mapping
  <2>1. LibdecorAlone'
    BY DEF LibdecorAlone
  <2>2. ShellPlaced'
    BY DEF ShellPlaced
  <2>3. RoleStays'
    BY DEF RoleStays, CommitTime
  <2>4. RoleRests'
    BY DEF RoleRests, CommitTime, RoleStays
  <2>5. CommitTime'
    BY DEF CommitTime
  <2> QED
    BY <2>1, <2>2, <2>3, <2>4, <2>5
<1>5. WindowIsWhole'
  <2> USE <1>1, <1>2, NothingListed, GlobalsKept DEF WindowIsWhole, RoleIsOne, Mapping, Choosing, Preparing, Waiting, Rebuilding, Early
  <2>1. Started'
    BY DEF Started, Window!WantsState
  <2>2. SlotsStay'
    BY DEF SlotsStay
  <2>3. Rebuilt'
    BY DEF Rebuilt, CommitTime
  <2>4. Filling'
    BY DEF Filling, CommitTime
  <2>5. HasRole'
    BY DEF HasRole, CommitTime
  <2> QED
    BY <2>1, <2>2, <2>3, <2>4, <2>5
<1> QED
  BY <1>2, <1>3, <1>4, <1>5

\* The role of an xdg_toplevel.
LEMMA XdgStep == ASSUME OpeningInv, Window!XdgToplevel PROVE OpeningInv'
<1> USE DEF OpeningInv
<1>1. /\ step = "xdg_toplevel" /\ todo = <<>>
      /\ live \subseteq live' /\ live' \subseteq live \cup {"toplevel", "toplevel_decoration"}
      /\ \/ step' = "handshake" /\ todo' = <<>> /\ "toplevel" \in live' /\ committed' = TRUE
         \/ step' = "failed" /\ todo' = Window!Order /\ UNCHANGED <<live, committed>>
      /\ UNCHANGED <<announced, pending, frame_events, connected, removals, configures, library, windows,
                         slot, made, flags, shm_format, is_initialized, close, backend_unusable,
                         startup_state_applied, startups>>
  BY DEF Window!XdgToplevel, Window!At, Window!Goto, Window!Fail, Window!compositor, Window!process,
         Window!making, Window!state
<1>2. /\ EverythingListed' /\ ListedOnTheWay'
      /\ live' \subseteq Things /\ todo' \in Seq(Things)
      /\ Ended' => \A o \in live' : Listed(todo', o)
  BY <1>1, Between, GlobalsKept DEF Ended, Kept
<1>3. OpeningTypes'
  BY <1>1, <1>2 DEF OpeningTypes
<1>4. RoleIsOne'
  <2> USE <1>1, <1>2, NothingListed, GlobalsKept DEF RoleIsOne, Framed, Rebuilding, Choosing, Preparing, Early, Waiting, Mapping
  <2>1. LibdecorAlone'
    BY DEF LibdecorAlone, Ended
  <2>2. ShellPlaced'
    BY DEF ShellPlaced, Ended
  <2>3. RoleStays'
    BY DEF RoleStays, CommitTime
  <2>4. RoleRests'
    BY DEF RoleRests, CommitTime, RoleStays
  <2>5. CommitTime'
    BY DEF CommitTime
  <2> QED
    BY <2>1, <2>2, <2>3, <2>4, <2>5
<1>5. WindowIsWhole'
  <2> USE <1>1, <1>2, NothingListed, GlobalsKept DEF WindowIsWhole, RoleIsOne, Mapping, Choosing, Preparing, Waiting, Rebuilding, Early
  <2>1. Started'
    BY DEF Started, Window!WantsState
  <2>2. SlotsStay'
    BY DEF SlotsStay
  <2>3. Rebuilt'
    BY DEF Rebuilt, CommitTime
  <2>4. Filling'
    BY DEF Filling, CommitTime
  <2>5. HasRole'
    BY DEF HasRole, CommitTime
  <2> QED
    BY <2>1, <2>2, <2>3, <2>4, <2>5
<1> QED
  BY <1>2, <1>3, <1>4, <1>5

\* The first buffer ends the handshake.
LEMMA MappedStep == ASSUME OpeningInv, Window!Mapped PROVE OpeningInv'
<1> USE DEF OpeningInv
<1>1. /\ todo = <<>>
      /\ \/ step' = "failed" /\ todo' = Window!Order
         \/ todo' = <<>> /\ step = "handshake" /\ step' = "mapping" /\ is_initialized /\ ~close
         \/ todo' = <<>> /\ step = "frame_handshake" /\ step' = "frame_mapping" /\ is_initialized /\ ~close
         \/ todo' = <<>> /\ step \in {"mapping", "frame_mapping"} /\ step' = "timer"
      /\ step \in {"handshake", "frame_handshake", "mapping", "frame_mapping"}
      /\ UNCHANGED <<announced, pending, frame_events, connected, committed, removals, configures, library,
                         windows, live, slot, made, flags, shm_format, is_initialized, close,
                         backend_unusable, startup_state_applied, startups>>
  BY DEF Window!Mapped, Window!At, Window!Goto, Window!Fail, Window!compositor, Window!process,
         Window!making, Window!state
<1>2. /\ EverythingListed' /\ ListedOnTheWay'
      /\ live' \subseteq Things /\ todo' \in Seq(Things)
      /\ Ended' => \A o \in live' : Listed(todo', o)
  BY <1>1, Between, GlobalsKept DEF Ended, Kept
<1>3. OpeningTypes'
  BY <1>1, <1>2 DEF OpeningTypes
<1>4. RoleIsOne'
  <2> USE <1>1, <1>2, NothingListed, GlobalsKept DEF RoleIsOne, Framed, Rebuilding, Choosing, Preparing, Early, Waiting, Mapping
  <2>1. LibdecorAlone'
    BY DEF LibdecorAlone, Ended
  <2>2. ShellPlaced'
    BY DEF ShellPlaced, Ended
  <2>3. RoleStays'
    BY DEF RoleStays, CommitTime
  <2>4. RoleRests'
    BY DEF RoleRests, CommitTime, RoleStays
  <2>5. CommitTime'
    BY DEF CommitTime
  <2> QED
    BY <2>1, <2>2, <2>3, <2>4, <2>5
<1>5. WindowIsWhole'
  <2> USE <1>1, <1>2, NothingListed, GlobalsKept DEF WindowIsWhole, RoleIsOne, Mapping, Choosing, Preparing, Waiting, Rebuilding, Early
  <2>1. Started'
    BY DEF Started, Window!WantsState
  <2>2. SlotsStay'
    BY DEF SlotsStay
  <2>3. Rebuilt'
    BY DEF Rebuilt, CommitTime
  <2>4. Filling'
    BY DEF Filling, CommitTime
  <2>5. HasRole'
    BY DEF HasRole, CommitTime
  <2> QED
    BY <2>1, <2>2, <2>3, <2>4, <2>5
<1> QED
  BY <1>2, <1>3, <1>4, <1>5

\* What an open window comes to hold, and its end.
LEMMA UseStep == ASSUME OpeningInv, Window!Application PROVE OpeningInv'
<1> USE DEF OpeningInv
<1>1. /\ step = "open" /\ todo = <<>>
      /\ live \subseteq live' /\ live' \subseteq live \cup {"keyboard", "pointer", "throttle_callback", "cursor_theme"}
      /\ \/ UNCHANGED <<step, todo>>
         \/ step' = "closed" /\ todo' = Window!Order
      /\ UNCHANGED <<announced, pending, frame_events, connected, committed, removals, configures, library,
                         windows, slot, made, flags, shm_format, is_initialized, close, backend_unusable,
                         startup_state_applied, startups>>
  BY DEF Window!Application, Window!Use, Window!destroy, Window!At, Window!compositor, Window!process,
         Window!making, Window!state
<1>2. /\ EverythingListed' /\ ListedOnTheWay'
      /\ live' \subseteq Things /\ todo' \in Seq(Things)
      /\ Ended' => \A o \in live' : Listed(todo', o)
  BY <1>1, Between, GlobalsKept DEF Ended, Kept
<1>3. OpeningTypes'
  BY <1>1, <1>2 DEF OpeningTypes
<1>4. RoleIsOne'
  <2> USE <1>1, <1>2, NothingListed, GlobalsKept DEF RoleIsOne, Framed, Rebuilding, Choosing, Preparing, Early, Waiting, Mapping
  <2>1. LibdecorAlone'
    BY DEF LibdecorAlone, Ended
  <2>2. ShellPlaced'
    BY DEF ShellPlaced, Ended
  <2>3. RoleStays'
    BY DEF RoleStays, CommitTime
  <2>4. RoleRests'
    BY DEF RoleRests, CommitTime, RoleStays
  <2>5. CommitTime'
    BY DEF CommitTime
  <2> QED
    BY <2>1, <2>2, <2>3, <2>4, <2>5
<1>5. WindowIsWhole'
  <2> USE <1>1, <1>2, NothingListed, GlobalsKept DEF WindowIsWhole, RoleIsOne, Mapping, Choosing, Preparing, Waiting, Rebuilding, Early
  <2>1. Started'
    BY DEF Started, Window!WantsState
  <2>2. SlotsStay'
    BY DEF SlotsStay
  <2>3. Rebuilt'
    BY DEF Rebuilt, CommitTime
  <2>4. Filling'
    BY DEF Filling, CommitTime
  <2>5. HasRole'
    BY DEF HasRole, CommitTime
  <2> QED
    BY <2>1, <2>2, <2>3, <2>4, <2>5
<1> QED
  BY <1>2, <1>3, <1>4, <1>5

\* A new window, after the last one has given everything back.
LEMMA OpenStep == ASSUME OpeningInv, Window!mfb_open_ex PROVE OpeningInv'
<1> USE DEF OpeningInv
<1>1. /\ Ended /\ todo = <<>> /\ step' = "window_data" /\ announced' \subseteq Window!Globals
      /\ pending' = <<>> /\ frame_events' = <<>> /\ connected' = TRUE /\ committed' = FALSE
      /\ slot' = 1 /\ made' = 0 /\ is_initialized' = FALSE /\ close' = FALSE /\ backend_unusable' = FALSE
      /\ startup_state_applied' = FALSE /\ startups' = 0
      /\ UNCHANGED <<library, live, todo>>
  BY DEF Window!mfb_open_ex, Ended, Window!Globals, Window!Required, Window!compositor, Window!process,
         Window!making, Window!state
<1>2. live = {}
  BY <1>1, NothingListed DEF EverythingListed
<1>3. OpeningTypes'
  <2>1. pending' \in Seq(Removed \cup Asked) /\ frame_events' \in Seq(Asked)
    BY <1>1
  <2>2. live' \subseteq Things /\ todo' \in Seq(Things)
    BY <1>1, <1>2
  <2>3. made' \in 0 .. 4 /\ slot' \in 1 .. 3 /\ startups' \in Nat
    BY <1>1
  <2>4. /\ close' \in BOOLEAN /\ committed' \in BOOLEAN /\ connected' \in BOOLEAN
        /\ is_initialized' \in BOOLEAN /\ backend_unusable' \in BOOLEAN /\ startup_state_applied' \in BOOLEAN
    BY <1>1
  <2> QED
    BY <1>1, <2>1, <2>2, <2>3, <2>4, Zenon DEF OpeningTypes
<1>4. EverythingListed'
  BY <1>1, <1>2 DEF EverythingListed, InOrder, Ended
<1>5. ListedOnTheWay'
  BY <1>1 DEF ListedOnTheWay
<1>6. RoleIsOne'
  <2> USE <1>1, <1>2 DEF RoleIsOne, Framed, Rebuilding, Choosing, Preparing, Early, Waiting, Mapping
  <2>1. LibdecorAlone'
    BY DEF LibdecorAlone
  <2>2. ShellPlaced'
    BY DEF ShellPlaced
  <2>3. RoleStays'
    BY DEF RoleStays, CommitTime
  <2>4. RoleRests'
    BY DEF RoleRests, CommitTime, RoleStays
  <2>5. CommitTime'
    BY DEF CommitTime
  <2> QED
    BY <2>1, <2>2, <2>3, <2>4, <2>5
<1>7. WindowIsWhole'
  <2> USE <1>1, <1>2 DEF WindowIsWhole, RoleIsOne, Mapping, Choosing, Preparing, Waiting, Rebuilding, Early
  <2>1. Started'
    BY DEF Started, Window!WantsState
  <2>2. SlotsStay'
    BY DEF SlotsStay
  <2>3. Rebuilt'
    BY DEF Rebuilt, CommitTime
  <2>4. Filling'
    BY DEF Filling, CommitTime
  <2>5. HasRole'
    BY DEF HasRole, CommitTime
  <2> QED
    BY <2>1, <2>2, <2>3, <2>4, <2>5
<1> QED
  BY <1>3, <1>4, <1>5, <1>6, <1>7

\* A slot gets its file, its mapping, its pool and its buffer.
LEMMA MakeStep == ASSUME OpeningInv, Window!slot_ensure_buffer PROVE OpeningInv'
<1> USE DEF OpeningInv
<1>1. /\ step = "slot" /\ todo = <<>> /\ made < 4 /\ made' = made + 1
      /\ live' = live \cup {Window!Temporaries[made + 1]}
      /\ UNCHANGED <<announced, pending, frame_events, connected, committed, removals, configures, library,
                         windows, step, todo, slot, flags, shm_format, is_initialized, close,
                         backend_unusable, startup_state_applied, startups>>
  BY DEF Window!slot_ensure_buffer, Window!At, Window!Temporaries, Window!compositor, Window!process,
         Window!making, Window!state
<1>2. Window!Temporaries[made + 1] \in Temps
  BY <1>1 DEF OpeningTypes, Window!Temporaries, Temps
<1>3. OpeningTypes'
  BY <1>1, <1>2 DEF OpeningTypes, Things
<1>4. EverythingListed'
  <2>1. \A o \in live \cap Temps : \E k \in 1 .. made : Window!Temporaries[k] = o
    BY <1>1, NothingListed DEF EverythingListed
  <2>2. \A o \in live' \cap Temps : \E k \in 1 .. made' : Window!Temporaries[k] = o
    BY <1>1, <2>1 DEF OpeningTypes
  <2> QED
    BY <1>1, <2>2 DEF EverythingListed, InOrder, Ended
<1>5. ListedOnTheWay'
  BY <1>1 DEF ListedOnTheWay
<1>6. RoleIsOne'
  <2> USE <1>1, <1>2, NothingListed DEF RoleIsOne, Framed, Rebuilding, Choosing, Preparing, Early, Waiting, Mapping
  <2>1. LibdecorAlone'
    BY DEF LibdecorAlone, Temps
  <2>2. ShellPlaced'
    BY DEF ShellPlaced, Temps
  <2>3. RoleStays'
    BY DEF RoleStays, CommitTime, Temps
  <2>4. RoleRests'
    BY DEF RoleRests, CommitTime, RoleStays, Temps
  <2>5. CommitTime'
    BY DEF CommitTime
  <2> QED
    BY <2>1, <2>2, <2>3, <2>4, <2>5
<1>7. WindowIsWhole'
  <2> USE <1>1, <1>2, NothingListed DEF WindowIsWhole, RoleIsOne, Mapping, Choosing, Preparing, Waiting, Rebuilding, Early
  <2>1. Started'
    BY DEF Started, Window!WantsState
  <2>2. SlotsStay'
    BY DEF SlotsStay
  <2>3. Rebuilt'
    BY DEF Rebuilt, CommitTime
  <2>4. Filling'
    BY DEF Filling, CommitTime
  <2>5. HasRole'
    BY DEF HasRole, CommitTime
  <2> QED
    BY <2>1, <2>2, <2>3, <2>4, <2>5
<1> QED
  BY <1>3, <1>4, <1>5, <1>6, <1>7

\* One of them fails.
LEMMA SlotFails == ASSUME OpeningInv, Window!slot_fails PROVE OpeningInv'
<1> USE DEF OpeningInv
<1>1. /\ step = "slot" /\ todo = <<>> /\ made' = 0
      /\ \/ /\ committed /\ close' = TRUE /\ todo' = Window!Undo
            /\ step' = IF "libdecor_frame" \in live THEN "frame_handshake" ELSE "handshake"
         \/ ~committed /\ step' = "failed" /\ todo' = Both /\ UNCHANGED close
      /\ UNCHANGED <<announced, pending, frame_events, connected, committed, removals, configures, library,
                         windows, live, slot, flags, shm_format, is_initialized, backend_unusable,
                         startup_state_applied, startups>>
  BY DEF Both, Window!slot_fails, Window!At, Window!Attaching, Window!Handshake, Window!compositor,
         Window!process, Window!making, Window!state
<1>2. todo' \in Seq(Things) /\ InOrder(todo', live')
  <2>1. CASE todo' = Window!Undo
    BY <1>1, <2>1, UndoneFirst, UndoIsRight DEF InOrder, OpeningTypes
  <2>2. CASE todo' = Both
    <3>1. Both \in Seq(Things) /\ InOrder(Both, live)
      BY UndoneFirst, UndoIsRight, Narrower DEF OpeningTypes
    <3> QED
      BY <1>1, <2>2, <3>1
  <2> QED
    BY <1>1, <2>1, <2>2
<1>3. OpeningTypes'
  <2>1. close' \in BOOLEAN
    BY <1>1 DEF OpeningTypes
  <2> QED
    BY <1>1, <1>2, <2>1 DEF OpeningTypes
<1>4. EverythingListed'
  <2>1. Ended' => \A o \in live' : Listed(todo', o)
    BY <1>1, Lists DEF Ended, OpeningTypes
  <2>2. \A o \in Temps : Listed(todo', o)
    <3>1. CASE todo' = Window!Undo
      BY <3>1, UndoneFirst DEF Listed
    <3>2. CASE todo' = Both
      BY <3>2, Lists DEF Things
    <3> QED
      BY <1>1, <3>1, <3>2
  <2> QED
    BY <1>2, <2>1, <2>2 DEF EverythingListed
<1>5. ListedOnTheWay'
  <2>1. ~Ended' => \A i \in 1 .. Len(todo') : todo'[i] \in Temps
    BY <1>1 DEF Ended, Window!Undo, Temps
  <2> QED
    BY <2>1 DEF ListedOnTheWay, Temps, Ended
<1>6. RoleIsOne'
  <2> USE <1>1, <1>4, NothingListed DEF RoleIsOne, Framed, Rebuilding, Choosing, Preparing, Early, Waiting, Mapping
  <2>1. LibdecorAlone'
    BY DEF LibdecorAlone, EverythingListed, Ended, RoleStays
  <2>2. ShellPlaced'
    BY DEF ShellPlaced, EverythingListed, Ended, LibdecorAlone
  <2>3. RoleStays'
    BY DEF RoleStays, CommitTime, RoleRests
  <2>4. RoleRests'
    BY DEF RoleRests, CommitTime, RoleStays
  <2>5. CommitTime'
    BY DEF CommitTime
  <2> QED
    BY <2>1, <2>2, <2>3, <2>4, <2>5
<1>7. WindowIsWhole'
  <2> USE <1>1, <1>4, NothingListed DEF WindowIsWhole, RoleIsOne, Mapping, Choosing, Preparing, Waiting, Rebuilding, Early
  <2>1. Started'
    BY DEF Started, Window!WantsState
  <2>2. SlotsStay'
    BY DEF SlotsStay
  <2>3. Rebuilt'
    BY DEF Rebuilt, CommitTime
  <2>4. Filling'
    BY DEF Filling, CommitTime
  <2>5. HasRole'
    BY DEF HasRole, CommitTime
  <2> QED
    BY <2>1, <2>2, <2>3, <2>4, <2>5
<1> QED
  BY <1>3, <1>4, <1>5, <1>6, <1>7

\* A slot is complete.
LEMMA SlotReady == ASSUME OpeningInv, Window!create_shm_buffer PROVE OpeningInv'
<1> USE DEF OpeningInv
<1>1. /\ step = "slot" /\ todo = <<>> /\ made' = 0 /\ todo' = <<"pool", "file">>
      /\ live' = (live \ {"mapping", "wl_buffer"}) \cup {Window!Slots[slot]}
      /\ \/ /\ committed /\ is_initialized' = TRUE /\ UNCHANGED slot
            /\ step' = IF "libdecor_frame" \in live' THEN "frame_handshake" ELSE "handshake"
         \/ ~committed /\ slot < 3 /\ slot' = slot + 1 /\ UNCHANGED <<step, is_initialized>>
         \/ ~committed /\ slot = 3 /\ step' = "surface" /\ UNCHANGED <<slot, is_initialized>>
      /\ UNCHANGED <<announced, pending, frame_events, connected, committed, removals, configures, library,
                         windows, flags, shm_format, close, backend_unusable, startup_state_applied,
                         startups>>
  BY DEF OpeningTypes, Window!create_shm_buffer, Window!At, Window!Attaching, Window!Handshake,
         Window!Slots, Window!compositor, Window!process, Window!making, Window!state
<1>2. /\ slot = 1 => Window!Slots[slot] = "slot_0"
      /\ slot = 2 => Window!Slots[slot] = "slot_1"
      /\ slot = 3 => Window!Slots[slot] = "slot_2"
      /\ slot \in {1, 2, 3}
  BY DEF Window!Slots, OpeningTypes
<1>3. OpeningTypes'
  <2>1. live' \subseteq Things
    BY <1>1, <1>2 DEF OpeningTypes, Things, Kept
  <2>2. todo' \in Seq(Things)
    BY <1>1, ShortLists DEF Window!Globals, Window!Required
  <2>3. slot' \in 1 .. 3 /\ made' \in 0 .. 4
    BY <1>1, <1>2
  <2>4. is_initialized' \in BOOLEAN
    BY <1>1 DEF OpeningTypes
  <2> QED
    BY <1>1, <2>1, <2>2, <2>3, <2>4 DEF OpeningTypes
<1>4. EverythingListed'
  <2>1. InOrder(todo', live')
    BY <1>1, ShortLists DEF Window!Globals, Window!Required
  <2>2. \A o \in live' \cap Temps : Listed(todo', o)
    BY <1>1, <1>2 DEF Temps, Listed
  <2> QED
    BY <1>1, <2>1, <2>2 DEF EverythingListed, Ended
<1>5. ListedOnTheWay'
  BY <1>1 DEF ListedOnTheWay
<1>6. RoleIsOne'
  <2> USE <1>1, <1>2, NothingListed DEF RoleIsOne, Framed, Rebuilding, Choosing, Preparing, Early, Waiting, Mapping
  <2>1. LibdecorAlone'
    BY DEF LibdecorAlone, RoleStays
  <2>2. ShellPlaced'
    BY DEF ShellPlaced, LibdecorAlone
  <2>3. RoleStays'
    BY DEF RoleStays, CommitTime, RoleRests
  <2>4. RoleRests'
    BY DEF RoleRests, CommitTime, RoleStays
  <2>5. CommitTime'
    BY DEF CommitTime
  <2> QED
    BY <2>1, <2>2, <2>3, <2>4, <2>5
<1>7. WindowIsWhole'
  <2> USE <1>1, <1>2, NothingListed DEF WindowIsWhole, RoleIsOne, Mapping, Choosing, Preparing, Waiting, Rebuilding, Early
  <2>1. Started'
    BY DEF Started, Window!WantsState, Rebuilt
  <2>2. SlotsStay'
    BY DEF SlotsStay, Rebuilt, Filling
  <2>3. Rebuilt'
    BY DEF Rebuilt, CommitTime
  <2>4. Filling'
    BY DEF Filling, CommitTime, Listed
  <2>5. HasRole'
    BY DEF HasRole, CommitTime
  <2> QED
    BY <2>1, <2>2, <2>3, <2>4, <2>5
<1> QED
  BY <1>3, <1>4, <1>5, <1>6, <1>7

\* libdecor gives the window a frame, or gives back what it had.
LEMMA LibdecorStep == ASSUME OpeningInv, Window!wayland_libdecor_create_toplevel PROVE OpeningInv'
<1> USE DEF OpeningInv
<1>1. /\ todo = <<>>
      /\ \/ /\ step = "libdecor_context" /\ UNCHANGED committed
            /\ \/ live' = live \cup {"libdecor_context"} /\ step' = "libdecor_roundtrip" /\ todo' = <<>>
               \/ UNCHANGED live /\ step' = "shell_surface" /\ todo' = <<"libdecor_frame", "libdecor_context">>
         \/ /\ step = "libdecor_roundtrip" /\ UNCHANGED <<live, committed>>
            /\ \/ step' = "libdecor_frame" /\ todo' = <<>>
               \/ step' = "shell_surface" /\ todo' = <<"libdecor_frame", "libdecor_context">>
         \/ /\ step = "libdecor_frame"
            /\ \/ live' = live \cup {"libdecor_frame"} /\ step' = "frame_handshake" /\ todo' = <<>> /\ committed' = TRUE
               \/ /\ UNCHANGED <<live, committed>>
                  /\ step' = "shell_surface" /\ todo' = <<"libdecor_frame", "libdecor_context">>
      /\ UNCHANGED <<announced, pending, frame_events, connected, removals, configures, library, windows,
                         slot, made, flags, shm_format, is_initialized, close, backend_unusable,
                         startup_state_applied, startups>>
  BY DEF Window!wayland_libdecor_create_toplevel, Window!At, Window!Goto, Window!Fallback,
         Window!compositor, Window!process, Window!making, Window!state
<1>2. live \subseteq live' /\ live' \subseteq live \cup {"libdecor_context", "libdecor_frame"}
  BY <1>1
<1>3. OpeningTypes'
  <2>1. live' \subseteq Things
    BY <1>2 DEF OpeningTypes, Things, Kept
  <2> QED
    BY <1>1, <2>1, ShortLists DEF OpeningTypes, Window!Globals, Window!Required
<1>4. EverythingListed'
  <2>1. InOrder(todo', live')
    BY <1>1, ShortLists DEF Window!Globals, Window!Required
  <2>2. live' \cap Temps = {}
    BY <1>1, <1>2, NothingListed DEF EverythingListed, Temps
  <2> QED
    BY <1>1, <2>1, <2>2 DEF EverythingListed, Ended
<1>5. ListedOnTheWay'
  BY <1>1 DEF ListedOnTheWay
<1>6. RoleIsOne'
  <2> USE <1>1, <1>2, NothingListed DEF RoleIsOne, Framed, Rebuilding, Choosing, Preparing, Early, Waiting, Mapping
  <2>1. LibdecorAlone'
    BY DEF LibdecorAlone, CommitTime, Listed, RoleStays, ShellPlaced
  <2>2. ShellPlaced'
    BY DEF ShellPlaced, CommitTime
  <2>3. RoleStays'
    BY DEF RoleStays, CommitTime
  <2>4. RoleRests'
    BY DEF RoleRests, CommitTime, RoleStays
  <2>5. CommitTime'
    BY DEF CommitTime
  <2> QED
    BY <2>1, <2>2, <2>3, <2>4, <2>5
<1>7. WindowIsWhole'
  <2> USE <1>1, <1>2, NothingListed DEF WindowIsWhole, RoleIsOne, Mapping, Choosing, Preparing, Waiting, Rebuilding, Early
  <2>1. Started'
    BY DEF Started, Window!WantsState
  <2>2. SlotsStay'
    BY DEF SlotsStay
  <2>3. Rebuilt'
    BY DEF Rebuilt, CommitTime
  <2>4. Filling'
    BY DEF Filling, CommitTime
  <2>5. HasRole'
    BY DEF HasRole, CommitTime
  <2> QED
    BY <2>1, <2>2, <2>3, <2>4, <2>5
<1> QED
  BY <1>3, <1>4, <1>5, <1>6, <1>7

\* An event is taken where the program reads, and nothing is left to release.
LEMMA Taken ==
    ASSUME OpeningInv, Window!Dispatch
    PROVE  /\ todo = <<>> /\ step \in {"formats", "handshake", "frame_handshake", "mapping", "frame_mapping", "open"}
           /\ UNCHANGED <<announced, connected, committed, library, windows, flags>>
           /\ pending' \in Seq(Removed \cup Asked) /\ frame_events' \in Seq(Asked)
           /\ \E e \in Removed \cup Asked, gone \in BOOLEAN :
                 /\ Window!Handle(e, gone)
                 /\ e \in Removed => step \in {"formats", "handshake", "mapping", "open"}
                 /\ ~gone => "toplevel" \in live \/ "libdecor_frame" \in live
<1> USE DEF OpeningInv
<1>1. /\ todo = <<>>
      /\ UNCHANGED <<announced, connected, committed, library, windows, flags>>
  BY DEF Window!Dispatch, Window!process
<1>2. pending \in Seq(Removed \cup Asked) /\ frame_events \in Seq(Asked)
  BY DEF OpeningTypes
<1>3. CASE /\ step \in {"formats", "handshake", "mapping", "open"} /\ pending # <<>>
           /\ pending' = Tail(pending) /\ UNCHANGED frame_events
           /\ Window!Handle(Head(pending), "toplevel" \notin live)
  <2>1. Head(pending) \in Removed \cup Asked /\ Tail(pending) \in Seq(Removed \cup Asked)
    BY <1>2, <1>3, HeadTailProperties
  <2>2. ("toplevel" \notin live) \in BOOLEAN
    OBVIOUS
  <2> QED
    BY <1>1, <1>2, <1>3, <2>1, <2>2
<1>4. CASE /\ step \in {"frame_handshake", "frame_mapping", "open"} /\ frame_events # <<>>
           /\ frame_events' = Tail(frame_events) /\ UNCHANGED pending
           /\ Window!Handle(Head(frame_events), "libdecor_frame" \notin live)
  <2>1. Head(frame_events) \in Asked /\ Tail(frame_events) \in Seq(Asked)
    BY <1>2, <1>4, HeadTailProperties
  <2>2. Asked \cap Removed = {}
    BY DEF Asked, Removed
  <2> QED
    BY <1>1, <1>2, <1>4, <2>1, <2>2
<1> QED
  BY <1>3, <1>4 DEF Window!Dispatch

\* What holds of every event that is taken.
Reads ==
    /\ step \in {"formats", "handshake", "frame_handshake", "mapping", "frame_mapping", "open"}
    /\ UNCHANGED <<announced, connected, committed, library, windows, flags>>
    /\ pending' \in Seq(Removed \cup Asked) /\ frame_events' \in Seq(Asked)

\* The user closes a window that is not open yet.
LEMMA CloseStep ==
    ASSUME OpeningInv, todo = <<>>,
           Window!HandleClose,
           Reads, step # "formats"
    PROVE  OpeningInv'
<1> USE DEF OpeningInv, Reads
<1>1. /\ close' = TRUE
      /\ UNCHANGED <<step, live, todo, slot, made, shm_format, is_initialized, backend_unusable, startup_state_applied, startups>>
  BY DEF Window!HandleClose, Window!making, Window!state
<1>2. live \cap Temps = {} /\ ~Ended
  BY NothingListed DEF EverythingListed, Ended
<1>3. OpeningTypes'
  BY <1>1 DEF OpeningTypes
<1>4. EverythingListed'
  BY <1>1, <1>2, NothingListed DEF EverythingListed, InOrder, Ended
<1>5. ListedOnTheWay'
  BY <1>1 DEF ListedOnTheWay
<1>6. RoleIsOne'
  <2> USE <1>1, NothingListed DEF RoleIsOne, Framed, Rebuilding, Choosing, Preparing, Early, Waiting, Mapping
  <2>1. LibdecorAlone'
    BY DEF LibdecorAlone
  <2>2. ShellPlaced'
    BY DEF ShellPlaced
  <2>3. RoleStays'
    BY DEF RoleStays, CommitTime
  <2>4. RoleRests'
    BY DEF RoleRests, CommitTime, RoleStays
  <2>5. CommitTime'
    BY DEF CommitTime
  <2> QED
    BY <2>1, <2>2, <2>3, <2>4, <2>5
<1>7. WindowIsWhole'
  <2> USE <1>1, NothingListed DEF WindowIsWhole, RoleIsOne, Mapping, Choosing, Preparing, Waiting, Rebuilding, Early
  <2>1. Started'
    BY DEF Started, Window!WantsState
  <2>2. SlotsStay'
    BY DEF SlotsStay
  <2>3. Rebuilt'
    BY DEF Rebuilt, CommitTime
  <2>4. Filling'
    BY DEF Filling, CommitTime
  <2>5. HasRole'
    BY DEF HasRole, CommitTime
  <2> QED
    BY <2>1, <2>2, <2>3, <2>4, <2>5
<1> QED
  BY <1>3, <1>4, <1>5, <1>6, <1>7

\* A configure event asks for the startup state and for the first buffer.
LEMMA ConfigureStep ==
    ASSUME OpeningInv, todo = <<>>,
           NEW size, Window!HandleConfigure(size),
           Reads, step # "formats"
    PROVE  OpeningInv'
<1> USE DEF OpeningInv, Reads
<1>1. /\ startup_state_applied' = TRUE
      /\ startups' = startups + (IF ~startup_state_applied /\ Window!WantsState THEN 1 ELSE 0)
      /\ \/ is_initialized' /\ UNCHANGED <<step, todo, slot>> /\ (is_initialized => UNCHANGED is_initialized)
         \/ ~is_initialized /\ step' = "slot" /\ slot' = 1 /\ todo' = <<"slot_0">> /\ UNCHANGED is_initialized
      /\ UNCHANGED <<live, made, shm_format, close, backend_unusable>>
  BY DEF Window!HandleConfigure, Window!ApplyStartupState, Window!Slots, Window!making, Window!state
<1>2. live \cap Temps = {} /\ ~Ended
  BY NothingListed DEF EverythingListed, Ended
<1>3. OpeningTypes'
  <2>1. todo' \in Seq(Things)
    BY <1>1, ShortLists DEF Window!Globals, Window!Required
  <2>2. slot' \in 1 .. 3 /\ startups' \in Nat
    BY <1>1 DEF OpeningTypes
  <2>3. is_initialized' \in BOOLEAN
    BY <1>1 DEF OpeningTypes, Window!HandleConfigure
  <2> QED
    BY <1>1, <2>1, <2>2, <2>3 DEF OpeningTypes
<1>4. EverythingListed'
  <2>1. InOrder(todo', live')
    BY <1>1, ShortLists DEF Window!Globals, Window!Required
  <2> QED
    BY <1>1, <1>2, <2>1 DEF EverythingListed, Ended
<1>5. ListedOnTheWay'
  BY <1>1 DEF ListedOnTheWay, Choosing, Preparing
<1>6. RoleIsOne'
  <2> USE <1>1, NothingListed DEF RoleIsOne, Framed, Rebuilding, Choosing, Preparing, Early, Waiting, Mapping
  <2>1. LibdecorAlone'
    BY DEF LibdecorAlone, CommitTime, Started
  <2>2. ShellPlaced'
    BY DEF ShellPlaced, CommitTime, Started
  <2>3. RoleStays'
    <3>1. CASE step = "handshake"
      <4>1. "libdecor_context" \notin live
        BY <3>1 DEF LibdecorAlone
      <4> QED
        BY <3>1, <4>1 DEF RoleStays
    <3>2. CASE step # "handshake"
      BY <3>2 DEF RoleStays, Started, WindowIsWhole
    <3> QED
      BY <3>1, <3>2
  <2>4. RoleRests'
    BY DEF RoleRests, CommitTime, RoleStays
  <2>5. CommitTime'
    BY DEF CommitTime
  <2> QED
    BY <2>1, <2>2, <2>3, <2>4, <2>5
<1>7. WindowIsWhole'
  <2> USE <1>1, NothingListed DEF WindowIsWhole, RoleIsOne, Mapping, Choosing, Preparing, Waiting, Rebuilding, Early
  <2>1. Started'
    BY DEF Started, Window!WantsState
  <2>2. SlotsStay'
    BY DEF SlotsStay, Started
  <2>3. Rebuilt'
    BY DEF Rebuilt, CommitTime, Started, SlotsStay
  <2>4. Filling'
    BY DEF Filling, CommitTime, Started
  <2>5. HasRole'
    BY DEF HasRole, CommitTime, Started
  <2> QED
    BY <2>1, <2>2, <2>3, <2>4, <2>5
<1> QED
  BY <1>3, <1>4, <1>5, <1>6, <1>7

\* A global that goes takes with it what was made from it.
LEMMA RemoveStep ==
    ASSUME OpeningInv, todo = <<>>,
           NEW g \in Window!Globals, Window!registry_global_remove(g),
           Reads, step \notin {"frame_handshake", "frame_mapping"}
    PROVE  OpeningInv'
<1> USE DEF OpeningInv, Reads
<1>1. /\ todo' = Window!ReleasedWith(g)
      /\ backend_unusable' = (backend_unusable \/ g \in live \cap Window!Required)
      /\ UNCHANGED <<step, live, slot, made, is_initialized, close, startup_state_applied, startups>>
  BY DEF Window!registry_global_remove, Window!making, Window!state
<1>2. live \cap Temps = {} /\ ~Ended
  BY NothingListed DEF EverythingListed, Ended
<1>3. OpeningTypes'
  <2>1. todo' \in Seq(Things)
    BY <1>1, ShortLists
  <2>2. backend_unusable' \in BOOLEAN
    BY <1>1 DEF OpeningTypes
  <2> QED
    BY <1>1, <2>1, <2>2 DEF OpeningTypes
<1>4. EverythingListed'
  <2>1. InOrder(todo', live')
    BY <1>1, ShortLists
  <2> QED
    BY <1>1, <1>2, <2>1 DEF EverythingListed, Ended
<1>5. ListedOnTheWay'
  <2>1. \A i \in 1 .. Len(todo') :
          /\ todo'[i] \notin {"slot_0", "slot_1", "slot_2", "libdecor_frame", "libdecor_context"}
          /\ todo'[i] = "toplevel" => g = "shell"
    BY <1>1 DEF Window!ReleasedWith, Window!Globals, Window!Required
  <2>2. g = "shell" => backend_unusable' \/ "toplevel" \notin live'
    BY <1>1 DEF RoleIsOne, RoleRests, Window!Required
  <2>3. ~Choosing' /\ ~Preparing'
    BY <1>1 DEF Choosing, Preparing
  <2> QED
    BY <1>1, <2>1, <2>2, <2>3 DEF ListedOnTheWay
<1>6. RoleIsOne'
  <2> USE <1>1, NothingListed DEF RoleIsOne, Framed, Rebuilding, Choosing, Preparing, Early, Waiting, Mapping
  <2>1. LibdecorAlone'
    BY DEF LibdecorAlone
  <2>2. ShellPlaced'
    BY DEF ShellPlaced
  <2>3. RoleStays'
    BY DEF RoleStays, CommitTime
  <2>4. RoleRests'
    BY DEF RoleRests, CommitTime, RoleStays
  <2>5. CommitTime'
    BY DEF CommitTime
  <2> QED
    BY <2>1, <2>2, <2>3, <2>4, <2>5
<1>7. WindowIsWhole'
  <2> USE <1>1, NothingListed DEF WindowIsWhole, RoleIsOne, Mapping, Choosing, Preparing, Waiting, Rebuilding, Early
  <2>1. Started'
    BY DEF Started, Window!WantsState
  <2>2. SlotsStay'
    BY DEF SlotsStay
  <2>3. Rebuilt'
    BY DEF Rebuilt, CommitTime
  <2>4. Filling'
    BY DEF Filling, CommitTime
  <2>5. HasRole'
    BY DEF HasRole, CommitTime
  <2> QED
    BY <2>1, <2>2, <2>3, <2>4, <2>5
<1> QED
  BY <1>3, <1>4, <1>5, <1>6, <1>7

LEMMA DispatchStep == ASSUME OpeningInv, Window!Dispatch PROVE OpeningInv'
<1>1. PICK e \in Removed \cup Asked, gone \in BOOLEAN :
          /\ Window!Handle(e, gone)
          /\ e \in Removed => step \in {"formats", "handshake", "mapping", "open"}
          /\ ~gone => "toplevel" \in live \/ "libdecor_frame" \in live
  BY Taken
<1>2. Reads /\ todo = <<>>
  BY Taken DEF Reads
<1>3. CASE e \in Removed
  <2>1. e.val \in Window!Globals /\ Window!registry_global_remove(e.val)
    BY <1>1, <1>3 DEF Removed, Window!Handle
  <2> QED
    BY <1>1, <1>2, <1>3, <2>1, RemoveStep
<1>4. CASE e \in Asked /\ gone
  <2>1. UNCHANGED <<live, step, todo, slot, made, shm_format, is_initialized, close, backend_unusable,
                    startup_state_applied, startups>>
    BY <1>1, <1>4 DEF Asked, Window!Handle, Window!making, Window!state
  <2> QED
    BY <1>2, <2>1 DEF OpeningInv, OpeningTypes, Reads, EverythingListed, InOrder, ListedOnTheWay, Listed, Ended, RoleIsOne,
       LibdecorAlone, ShellPlaced, RoleStays, RoleRests, CommitTime, WindowIsWhole, Started, SlotsStay, Rebuilt, Filling, HasRole,
       Framed, Rebuilding, Choosing, Preparing, Early, Waiting, Mapping, Window!WantsState
<1>5. CASE e \in Asked /\ ~gone
  <2>1. step # "formats"
    BY <1>1, <1>2, <1>5, NothingListed DEF OpeningInv, RoleIsOne, LibdecorAlone, ShellPlaced, RoleRests, CommitTime,
       Early, Framed, Rebuilding
  <2>2. Window!HandleConfigure(e.val) \/ Window!HandleClose
    BY <1>1, <1>5 DEF Asked, Window!Handle
  <2> QED
    BY <1>2, <2>1, <2>2, ConfigureStep, CloseStep
<1> QED
  BY <1>3, <1>4, <1>5

THEOREM OpeningStep == ASSUME OpeningInv, [Window!Next]_Window!vars PROVE OpeningInv'
<1>1. CASE Window!Compositor
  BY <1>1, CompositorStep
<1>2. CASE Window!Release
  BY <1>2, ReleaseStep
<1>3. CASE Window!mfb_open_ex
  BY <1>3, OpenStep
<1>4. CASE Window!Proceed
  BY <1>4, AcquireStep, GlobalsStep, FormatsStep, MakeStep, SlotFails, SlotReady, ExtensionsStep, ToplevelStep, LoadStep,
     LibdecorStep, XdgStep, DispatchStep, MappedStep DEF Window!Proceed, Row
<1>5. CASE Window!Application
  BY <1>5, UseStep
<1>6. CASE UNCHANGED Window!vars
  <2>1. UNCHANGED <<announced, pending, frame_events, connected, committed, removals, configures, library, windows,
                    step, live, todo, slot, made, flags, shm_format, is_initialized, close, backend_unusable,
                    startup_state_applied, startups>>
    BY <1>6 DEF Window!vars, Window!compositor, Window!process, Window!making, Window!state
  <2> QED
    BY <2>1 DEF OpeningInv, OpeningTypes, EverythingListed, InOrder, ListedOnTheWay, Listed, Ended, RoleIsOne,
       LibdecorAlone, ShellPlaced, RoleStays, RoleRests, CommitTime, WindowIsWhole, Started, SlotsStay, Rebuilt, Filling, HasRole,
       Framed, Rebuilding, Choosing, Preparing, Early, Waiting, Mapping, Window!WantsState
<1> QED
  BY <1>1, <1>2, <1>3, <1>4, <1>5, <1>6 DEF Window!Next

--------------------------------------------------------------------------------
(* The theorems of the opening.                                                       *)

\* No window step happens while another setting runs, and the other way round.
LEMMA OpeningNext ==
    ASSUME Opening, [MCNext]_<<scenario, opening, scaling>>
    PROVE  Opening' /\ [Window!Next]_Window!vars
<1>1. CASE MCNext
  BY <1>1 DEF MCNext, Scene, Opening
<1>2. CASE UNCHANGED <<scenario, opening, scaling>>
  BY <1>2 DEF Opening, opening, Window!vars, Window!compositor, Window!process, Window!making, Window!state
<1> QED
  BY <1>1, <1>2

\* Wherever an opening is, what it holds is listed, in order, and its role is one.
THEOREM OpeningHolds == MCSpec => [](Opening => OpeningInv)
<1>1. MCInit => (Opening => OpeningInv)
  BY OpeningInit DEF MCInit, Scene, Opening
<1>2. (Opening => OpeningInv) /\ [MCNext]_<<scenario, opening, scaling>> => (Opening => OpeningInv)'
  <2> SUFFICES ASSUME Opening => OpeningInv, [MCNext]_<<scenario, opening, scaling>>, Opening'
               PROVE  OpeningInv'
    OBVIOUS
  <2>1. Opening
    BY DEF MCNext, Opening
  <2> QED
    BY <2>1, OpeningNext, OpeningStep
<1> QED
  BY <1>1, <1>2, PTL DEF MCSpec

\* An opening that fails and a window that closes leave nothing behind, a surface has one
\* role, and the window that mfb_open_ex returns has all it needs.
THEOREM OpeningWhole == MCSpec => []OpeningIsWhole
<1>1. OpeningInv => Window!NothingLeaks
  BY NothingListed DEF OpeningInv, EverythingListed, Ended, Window!NothingLeaks
<1>2. OpeningInv => Window!OneRole
  BY NothingListed DEF OpeningInv, RoleIsOne, LibdecorAlone, Framed, Rebuilding, Window!OneRole
<1>3. OpeningInv => Window!OpenIsWhole
  <2> SUFFICES ASSUME OpeningInv, step = "open" PROVE Window!OpenIsWhole
    BY DEF Window!OpenIsWhole, Window!At
  <2> USE DEF OpeningInv, WindowIsWhole, Mapping
  <2>1. is_initialized /\ startups = IF Window!WantsState THEN 1 ELSE 0
    BY DEF Started
  <2>2. {"slot_0", "slot_1", "slot_2"} \subseteq live
    BY DEF SlotsStay
  <2>3. backend_unusable \/ "toplevel" \in live \/ "libdecor_frame" \in live
    BY DEF HasRole
  <2> QED
    BY <2>1, <2>2, <2>3, SlotNames DEF Window!OpenIsWhole
<1>4. (Opening => OpeningInv) => OpeningIsWhole
  BY <1>1, <1>2, <1>3 DEF OpeningIsWhole
<1> QED
  BY <1>4, OpeningHolds, PTL

\* Nothing is released under an object that needs it: the protocol's order holds in every
\* failure of the opening and in destroy.
THEOREM ReleaseOrderHolds == MCSpec => ReleaseOrder
<1>1. ASSUME Opening, OpeningInv, [Window!Next]_Window!vars, NEW o \in live \ live', NEW p \in live'
      PROVE  o \notin Window!Needs(p)
  <2> USE DEF OpeningInv
  <2>1. CASE Window!Release
    <3>1. todo # <<>> /\ live' = live \ {todo[1]} /\ 1 \in 1 .. Len(todo)
      BY <2>1 DEF Window!Release, OpeningTypes
    <3>2. o = todo[1] /\ p \in live
      BY <1>1, <3>1
    <3>3. InOrder(todo, live)
      BY <1>1 DEF EverythingListed
    <3>4. todo[1] \in Window!Needs(p) => \E j \in 1 .. 1 - 1 : todo[j] = p
      BY <3>1, <3>2, <3>3 DEF InOrder
    <3> QED
      BY <3>2, <3>4
  <2>2. CASE Window!create_shm_buffer
    <3>1. o \in {"mapping", "wl_buffer"}
      BY <1>1, <2>2 DEF Window!create_shm_buffer
    <3> QED
      BY <3>1, Needed
  <2>3. CASE live \subseteq live'
    BY <1>1, <2>3
  <2>4. Window!Release \/ Window!create_shm_buffer \/ live \subseteq live'
    <3>1. CASE Window!Compositor
      BY <3>1 DEF Window!Compositor, Window!Withdraw, Window!Configure, Window!AskToClose, Window!Break, Window!Unchanged
    <3>2. CASE Window!mfb_open_ex
      BY <3>2 DEF Window!mfb_open_ex
    <3>3. CASE Window!Proceed
      <4>1. ASSUME NEW at, NEW objects, NEW next, Window!Acquire(at, objects, next) PROVE live \subseteq live'
        BY <4>1 DEF Window!Acquire
      <4>2. Window!registry_global \/ Window!Formats => live \subseteq live'
        BY DEF Window!registry_global, Window!Formats
      <4>3. Window!slot_ensure_buffer \/ Window!slot_fails \/ Window!Extensions => live \subseteq live'
        BY DEF Window!slot_ensure_buffer, Window!slot_fails, Window!Extensions
      <4>4. Window!create_xdg_toplevel \/ Window!libdecor_load \/ Window!wayland_libdecor_create_toplevel => live \subseteq live'
        BY DEF Window!create_xdg_toplevel, Window!libdecor_load, Window!wayland_libdecor_create_toplevel
      <4>5. Window!XdgToplevel \/ Window!Mapped => live \subseteq live'
        BY DEF Window!XdgToplevel, Window!Mapped
      <4>6. Window!Dispatch => live \subseteq live'
        <5> SUFFICES ASSUME Window!Dispatch PROVE UNCHANGED live
          OBVIOUS
        <5>1. PICK e \in Removed \cup Asked, gone \in BOOLEAN : Window!Handle(e, gone)
          BY <1>1, Taken
        <5>2. e \in Removed => e.type = "remove"
          BY DEF Removed
        <5>3. e \in Asked => e.type \in {"configure", "close"}
          BY DEF Asked
        <5> QED
          BY <5>1, <5>2, <5>3
             DEF Window!Handle, Window!registry_global_remove, Window!HandleConfigure, Window!HandleClose
      <4> QED
        BY <3>3, <4>1, <4>2, <4>3, <4>4, <4>5, <4>6 DEF Window!Proceed
    <3>4. CASE Window!Application
      BY <3>4 DEF Window!Application, Window!Use, Window!destroy
    <3>5. CASE UNCHANGED Window!vars
      BY <3>5 DEF Window!vars
    <3> QED
      BY <1>1, <3>1, <3>2, <3>3, <3>4, <3>5 DEF Window!Next
  <2> QED
    BY <2>1, <2>2, <2>3, <2>4
<1>2. (Opening => OpeningInv) /\ [MCNext]_<<scenario, opening, scaling>>
        => [Opening => \A o \in live \ live', p \in live' : o \notin Window!Needs(p)]_live
  BY <1>1, OpeningNext
<1> QED
  BY <1>2, OpeningHolds, PTL DEF MCSpec, ReleaseOrder

--------------------------------------------------------------------------------
(* The outputs, the scale and the cursor: any outputs, scales, sizes of the tables    *)
(* and lengths of the queue.  What is queued leads each entry of the table of outputs *)
(* to what the compositor has, and every other value follows.                         *)

\* A scale is positive; the sizes of the tables are numbers.
ScreenParameters ==
    /\ Scales \subseteq Nat \ {0} /\ Fractions \subseteq Nat /\ Versions \subseteq Nat
    /\ MaxOutputs \in Nat /\ CacheSize \in Nat

Entry == [id : Ids, scale : Scales \cup {1}, entered : BOOLEAN]
Extensions == {"fractional", "viewporter", "shm"}

OutputNotice ==
    [type : {"global", "enter", "leave", "global_remove"}, val : Ids] \cup
    [type : {"scale"}, val : Ids, scale : Scales]
PreferenceNotice ==
    [type : {"preferred_buffer_scale"}, val : Scales] \cup [type : {"preferred_scale"}, val : Fractions]
    \cup [type : {"manager_remove"}, val : Extensions]
PointerNotice == [type : {"pointer"}, val : BOOLEAN]
Notice == OutputNotice \cup PreferenceNotice \cup PointerNotice

\* The entries of an output in a table, and what the compositor will have told of it.
Rows(list, id) == {list[i] : i \in {j \in 1 .. Len(list) : list[j].id = id}}
New(id) == [id |-> id, scale |-> 1, entered |-> FALSE]
Wanted(id) ==
    IF outputs[id] = 0 THEN {}
    ELSE IF id \in served THEN {[id |-> id, scale |-> outputs[id], entered |-> id \in on]}
    ELSE {New(id)}

Rescaled(rows, s) == {[r EXCEPT !.scale = s] : r \in rows}
Marked(rows, is) == {[r EXCEPT !.entered = is] : r \in rows}

\* What an event makes of the entries of an output while the table has room.
RowsStep(id) ==
    {t \in Notice \X (SUBSET Entry) \X (SUBSET Entry) :
        IF t[1] \notin OutputNotice \/ t[1].val # id THEN t[3] = t[2]
        ELSE CASE t[1].type = "global" -> t[2] = {} /\ t[3] = {New(id)}
               [] t[1].type = "scale" -> t[3] = Rescaled(t[2], t[1].scale)
               [] t[1].type = "enter" -> t[3] = Marked(t[2], TRUE)
               [] t[1].type = "leave" -> t[3] = Marked(t[2], FALSE)
               [] t[1].type = "global_remove" -> t[3] = {}}

RowsLead(id) == Leads(queue, RowsStep(id), SUBSET Entry, Rows(outs, id), Wanted(id))
OneRowEach == \A i, j \in 1 .. Len(outs) : outs[i].id = outs[j].id => i = j

Told(type) == {e \in Notice : e.type = type}
Telling(type, val) == {e \in Notice : e.type = type /\ e.val = val}

\* An extension that is still there was never said to go; of one that is not, it was said.
ExtensionFollows(m, has) ==
    /\ m \in managers => has /\ Never(queue, Telling("manager_remove", m))
    /\ m \notin managers =>
           Follows(queue, Telling("manager_remove", m), Telling("manager_remove", m), ~has)
IntegerFollows ==
    Follows(queue, Told("preferred_buffer_scale"), Telling("preferred_buffer_scale", integer),
            surface_preferred_scale = integer)
FractionFollows ==
    {"fractional", "viewporter"} \subseteq managers =>
        Follows(queue, Told("preferred_scale"), Telling("preferred_scale", fraction), preferred_scale_120 = fraction)
HoverFollows == Follows(queue, Told("pointer"), Telling("pointer", hover), pointer_serial_valid = hover)

CompositorTypes ==
    /\ outputs \in [Ids -> Scales \cup {0}] /\ on \subseteq Ids /\ served \subseteq Ids
    /\ IsFiniteSet(served) /\ \A id \in on \cup served : outputs[id] # 0
    /\ integer \in Scales \cup {0} /\ fraction \in Fractions \cup {0}
    /\ managers \subseteq Extensions /\ hover \in BOOLEAN
    /\ queue \in Seq(Notice)
TableTypes ==
    /\ outs \in Seq(Entry) /\ Len(outs) <= MaxOutputs
    /\ crowded \in BOOLEAN
ScaleTypes ==
    /\ version \in Nat /\ integer_output_scale \in Nat /\ preferred_scale_120 \in Nat
    /\ surface_preferred_scale \in Scales \cup {0}
    /\ fractional_scale \in BOOLEAN /\ viewport \in BOOLEAN /\ shm \in BOOLEAN
PointerTypes == pointer_serial_valid \in BOOLEAN /\ is_cursor_visible \in BOOLEAN
ThemeTypes ==
    /\ themes \in Seq(Nat \ Missing) /\ Len(themes) <= CacheSize
    /\ cursor_theme \in {0} \cup {themes[i] : i \in 1 .. Len(themes)}
    /\ cursor \in [theme : Nat, scale : Nat]

\* The scales of the outputs that the surface is on, of which the largest is the window's.
Entered(list) == {list[i].scale : i \in {j \in 1 .. Len(list) : list[j].entered}}
ScaleIsLargest == integer_output_scale = Screen!Largest(Entered(outs))

\* The cursor is the one of the scale and of the application's choice as they are now.
CursorIsFresh ==
    pointer_serial_valid =>
        IF is_cursor_visible
        THEN shm /\ Len(themes) < CacheSize /\ Screen!Loadable =>
                 /\ cursor.theme = (IF Screen!get_cursor_buffer_scale \in Odd THEN 1 ELSE Screen!get_cursor_buffer_scale)
                 /\ cursor.scale = cursor.theme
        ELSE cursor = Screen!Hidden

TableAgrees == ScaleIsLargest /\ (~crowded => OneRowEach /\ \A id \in Ids : RowsLead(id))
PreferencesAgree ==
    /\ ExtensionFollows("fractional", fractional_scale) /\ ExtensionFollows("viewporter", viewport)
    /\ IntegerFollows /\ FractionFollows
    /\ ~fractional_scale => preferred_scale_120 = 0
CursorAgrees == HoverFollows /\ CursorIsFresh /\ Screen!CursorIsLegal

ScreenInv ==
    /\ CompositorTypes /\ TableTypes /\ ScaleTypes /\ PointerTypes /\ ThemeTypes
    /\ TableAgrees /\ PreferencesAgree /\ CursorAgrees

--------------------------------------------------------------------------------
\* A finite set of numbers has a largest.
LEMMA FiniteBounded ==
    ASSUME NEW S \in SUBSET Nat, IsFiniteSet(S)
    PROVE  \E m \in Nat : S \subseteq 0 .. m
<1> DEFINE Unbounded(T) == T \in SUBSET Nat /\ IsFiniteSet(T) /\ \A m \in Nat : ~(T \subseteq 0 .. m)
           Sizes == {n \in Nat : \E T \in SUBSET Nat : Unbounded(T) /\ Cardinality(T) = n}
<1> SUFFICES ASSUME Sizes # {} PROVE FALSE
  <2>1. Cardinality(S) \in Nat
    BY FS_CardinalityType
  <2> QED BY <2>1
<1>1. PICK n \in Sizes : \A m \in Sizes : <<m, n>> \notin OpToRel(<, Nat)
  BY NatLessThanWellFounded, WFMin
<1>2. n \in Nat /\ \A m \in Sizes : ~(m < n)
  BY <1>1 DEF OpToRel
<1>3. PICK T \in SUBSET Nat : Unbounded(T) /\ Cardinality(T) = n
  OBVIOUS
<1>4. T # {}
  BY <1>3
<1>5. PICK x \in T : TRUE
  BY <1>4
<1>6. IsFiniteSet(T \ {x}) /\ Cardinality(T \ {x}) = n - 1
  BY <1>3, <1>5, FS_RemoveElement
<1>7. n - 1 \in Nat
  BY <1>6, FS_CardinalityType
<1>8. PICK m \in Nat : T \ {x} \subseteq 0 .. m
  <2> SUFFICES ASSUME \A m \in Nat : ~(T \ {x} \subseteq 0 .. m) PROVE FALSE
    OBVIOUS
  <2>1. T \ {x} \in SUBSET Nat
    BY <1>3
  <2>2. n - 1 \in Sizes
    BY <1>6, <1>7, <2>1
  <2>3. n - 1 < n
    BY <1>2
  <2> QED BY <1>2, <2>2, <2>3
<1>9. T \subseteq 0 .. (m + x) /\ m + x \in Nat
  BY <1>5, <1>8
<1> QED BY <1>3, <1>9

LEMMA FiniteMax ==
    ASSUME NEW S \in SUBSET Nat, IsFiniteSet(S), S # {}
    PROVE  Screen!Max(S) \in S
<1> DEFINE Bounds == {m \in Nat : S \subseteq 0 .. m}
<1>1. Bounds # {}
  BY FiniteBounded
<1>2. PICK m \in Bounds : \A k \in Bounds : <<k, m>> \notin OpToRel(<, Nat)
  BY <1>1, NatLessThanWellFounded, WFMin
<1>3. m \in Nat /\ S \subseteq 0 .. m /\ \A k \in Bounds : ~(k < m)
  BY <1>2 DEF OpToRel
<1>4. m \in S
  <2> SUFFICES ASSUME m \notin S PROVE FALSE
    OBVIOUS
  <2>1. m # 0
    <3>1. PICK y \in S : y \in 0 .. m
      BY <1>3
    <3> QED BY <3>1
  <2>2. m - 1 \in Nat /\ \A y \in 0 .. m : y # m => y \in 0 .. m - 1
    BY <1>3, <2>1
  <2>3. m - 1 \in Bounds
    BY <1>3, <2>2
  <2> QED BY <1>3, <2>3
<1>5. \A y \in S : m >= y
  <2>1. \A y \in 0 .. m : m >= y
    BY <1>3
  <2> QED BY <1>3, <2>1
<1> QED BY <1>4, <1>5 DEF Screen!Max

LEMMA LargestOf ==
    ASSUME NEW S \in SUBSET Nat, IsFiniteSet(S)
    PROVE  Screen!Largest(S) \in Nat
<1>1. IsFiniteSet(S \cup {1}) /\ S \cup {1} \in SUBSET Nat /\ S \cup {1} # {}
  BY FS_AddElement
<1> QED BY <1>1, FiniteMax DEF Screen!Largest

LEMMA EnteredOf ==
    ASSUME NEW list \in Seq(Entry), ScreenParameters
    PROVE  Entered(list) \in SUBSET Nat /\ IsFiniteSet(Entered(list))
<1> DEFINE D == {j \in 1 .. Len(list) : list[j].entered}
           f == [i \in D |-> list[i].scale]
<1>1. Len(list) \in Nat /\ \A i \in 1 .. Len(list) : list[i] \in Entry
  BY ElementOfSeq, LenProperties
<1>2. IsFiniteSet(D)
  <2>1. IsFiniteSet(1 .. Len(list))
    BY <1>1, FS_Interval
  <2>2. D \in SUBSET (1 .. Len(list))
    OBVIOUS
  <2> HIDE DEF D
  <2> QED BY <2>1, <2>2, FS_Subset
<1>3. f \in Surjection(D, Entered(list))
  BY DEF Surjection, Entered
<1>4. Entered(list) \in SUBSET Nat
  <2>1. Scales \cup {1} \subseteq Nat
    BY DEF ScreenParameters
  <2>2. \A i \in 1 .. Len(list) : list[i].scale \in Scales \cup {1}
    BY <1>1 DEF Entry
  <2> QED BY <2>1, <2>2 DEF Entered
<1> QED BY <1>2, <1>3, <1>4, FS_Surjection

LEMMA IndexOf ==
    ASSUME NEW id, outs \in Seq(Entry), Screen!find_output_index(id) # {}
    PROVE  /\ Screen!Max(Screen!find_output_index(id)) \in 1 .. Len(outs)
           /\ outs[Screen!Max(Screen!find_output_index(id))].id = id
<1>1. Len(outs) \in Nat /\ Screen!find_output_index(id) \in SUBSET (1 .. Len(outs))
  BY LenProperties DEF Screen!find_output_index
<1>2. IsFiniteSet(Screen!find_output_index(id)) /\ Screen!find_output_index(id) \in SUBSET Nat
  <2>1. IsFiniteSet(1 .. Len(outs)) /\ 1 .. Len(outs) \in SUBSET Nat
    BY <1>1, FS_Interval
  <2> QED BY <1>1, <2>1, FS_Subset
<1>3. Screen!Max(Screen!find_output_index(id)) \in Screen!find_output_index(id)
  BY <1>2, FiniteMax
<1> QED BY <1>3 DEF Screen!find_output_index

--------------------------------------------------------------------------------
\* The rows of a table.
LEMMA RowsAdded ==
    ASSUME NEW list \in Seq(Entry), NEW r \in Entry, NEW id
    PROVE  /\ Append(list, r) \in Seq(Entry) /\ Len(Append(list, r)) = Len(list) + 1
           /\ \A j \in 1 .. Len(list) : Append(list, r)[j] = list[j]
           /\ Append(list, r)[Len(list) + 1] = r
           /\ Rows(Append(list, r), id) = Rows(list, id) \cup (IF id = r.id THEN {r} ELSE {})
<1>1. /\ Append(list, r) \in Seq(Entry) /\ Len(Append(list, r)) = Len(list) + 1 /\ Len(list) \in Nat
      /\ \A j \in 1 .. Len(list) : Append(list, r)[j] = list[j]
      /\ Append(list, r)[Len(list) + 1] = r
  BY AppendProperties, LenProperties
<1>2. 1 .. Len(Append(list, r)) = (1 .. Len(list)) \cup {Len(list) + 1}
  BY <1>1
<1> QED BY <1>1, <1>2 DEF Rows

LEMMA RowsCompacted ==
    ASSUME outs \in Seq(Entry), NEW i \in 1 .. Len(outs)
    PROVE  /\ Screen!Compacted(i) \in Seq(Entry) /\ Len(Screen!Compacted(i)) = Len(outs) - 1
           /\ \A j \in 1 .. Len(Screen!Compacted(i)) : Screen!Compacted(i)[j] = outs[IF j = i THEN Len(outs) ELSE j]
           /\ \A j \in 1 .. Len(outs) : j # i =>
                  \E k \in 1 .. Len(Screen!Compacted(i)) : Screen!Compacted(i)[k] = outs[j]
<1> DEFINE new == Screen!Compacted(i)
<1>1. Len(outs) \in Nat /\ \A j \in 1 .. Len(outs) : outs[j] \in Entry
  BY ElementOfSeq, LenProperties
<1>2. new = [j \in 1 .. Len(outs) - 1 |-> IF j = i THEN outs[Len(outs)] ELSE outs[j]]
  BY DEF Screen!Compacted
<1> HIDE DEF new
<1>3. /\ new \in Seq(Entry) /\ Len(new) = Len(outs) - 1
      /\ \A j \in 1 .. Len(new) : new[j] = outs[IF j = i THEN Len(outs) ELSE j]
  BY <1>1, <1>2
<1>4. ASSUME NEW j \in 1 .. Len(outs), j # i PROVE \E k \in 1 .. Len(new) : new[k] = outs[j]
  <2>1. CASE j = Len(outs)
    <3>1. i \in 1 .. Len(new)
      BY <1>1, <1>3, <1>4, <2>1
    <3> QED BY <1>3, <2>1, <3>1
  <2>2. CASE j # Len(outs)
    <3>1. j \in 1 .. Len(new)
      BY <1>1, <1>3, <1>4, <2>2
    <3> QED BY <1>3, <1>4, <3>1
  <2> QED BY <2>1, <2>2
<1> QED BY <1>3, <1>4 DEF new
--------------------------------------------------------------------------------
\* The notices.
LEMMA Notices ==
    /\ \A type \in {"global", "enter", "leave", "global_remove"}, id \in Ids : Screen!Event(type, id) \in OutputNotice
    /\ \A id \in Ids, s \in Scales : [type |-> "scale", val |-> id, scale |-> s] \in OutputNotice
    /\ \A s \in Scales : Screen!Event("preferred_buffer_scale", s) \in PreferenceNotice
    /\ \A f \in Fractions : Screen!Event("preferred_scale", f) \in PreferenceNotice
    /\ \A m \in Extensions : Screen!Event("manager_remove", m) \in PreferenceNotice
    /\ \A over \in BOOLEAN : Screen!Event("pointer", over) \in PointerNotice
BY DEF Screen!Event, OutputNotice, PreferenceNotice, PointerNotice

LEMMA NoticeTypes ==
    ASSUME NEW e \in Notice
    PROVE  /\ e \in OutputNotice <=> e.type \in Screen!OutputEvents
           /\ e \in OutputNotice => e.val \in Ids /\ (e.type = "scale" => e.scale \in Scales)
           /\ e \in PointerNotice <=> e.type = "pointer"
           /\ e \in PreferenceNotice <=> e.type \in {"preferred_buffer_scale", "preferred_scale", "manager_remove"}
           /\ e.type = "pointer" => e.val \in BOOLEAN
           /\ e.type = "preferred_buffer_scale" => e.val \in Scales
           /\ e.type = "preferred_scale" => e.val \in Fractions
           /\ e.type = "manager_remove" => e.val \in Extensions
BY DEF Notice, OutputNotice, PreferenceNotice, PointerNotice, Screen!OutputEvents

\* Every element of a finite set is in the list of it.
LEMMA ListOf ==
    ASSUME NEW S, IsFiniteSet(S)
    PROVE  /\ Screen!SetToSeq(S) \in Seq(S)
           /\ \A x \in S : \E i \in 1 .. Len(Screen!SetToSeq(S)) : Screen!SetToSeq(S)[i] = x
<1> DEFINE n == Cardinality(S)
           s == Screen!SetToSeq(S)
<1>1. n \in Nat /\ ExistsBijection(1 .. n, S)
  BY FS_CardinalityType
<1>2. PICK f \in [1 .. n -> S] : \A i, j \in 1 .. n : f[i] = f[j] => i = j
  BY <1>1 DEF ExistsBijection, Bijection, Injection, IsInjective
<1>3. s \in [1 .. n -> S] /\ Screen!IsInjective(s)
  <2>1. f \in [1 .. n -> S] /\ Screen!IsInjective(f)
    BY <1>2 DEF Screen!IsInjective
  <2>2. Screen!Cardinality(S) = Cardinality(S)
    BY DEF Screen!Cardinality, Cardinality
  <2>3. s = CHOOSE g \in [1 .. n -> S] : Screen!IsInjective(g)
    BY <2>2 DEF Screen!SetToSeq
  <2> HIDE DEF s, n
  <2> QED BY <2>1, <2>3
<1>4. s \in Injection(1 .. n, S)
  BY <1>3 DEF Injection, IsInjective, Screen!IsInjective
<1>5. IsFiniteSet(1 .. n) /\ Cardinality(1 .. n) = n
  BY <1>1, FS_Interval
<1>6. s \in Surjection(1 .. n, S)
  BY <1>4, <1>5, FS_Injection
<1>7. s \in Seq(S) /\ Len(s) = n
  BY <1>1, <1>3
<1> QED BY <1>6, <1>7 DEF Surjection

LEMMA EventsListed ==
    ASSUME NEW type, NEW S, IsFiniteSet(S)
    PROVE  /\ Screen!EventsOf(type, S) \in Seq({Screen!Event(type, id) : id \in S})
           /\ \A id \in S : \E i \in 1 .. Len(Screen!EventsOf(type, S)) :
                  Screen!EventsOf(type, S)[i] = Screen!Event(type, id)
<1> DEFINE T == {Screen!Event(type, id) : id \in S}
           f == [id \in S |-> Screen!Event(type, id)]
<1>1. f \in Surjection(S, T)
  BY DEF Surjection
<1>2. IsFiniteSet(T)
  BY <1>1, FS_Surjection
<1> QED BY <1>2, ListOf DEF Screen!EventsOf
--------------------------------------------------------------------------------
\* The cursor.
Cache == [ok : BOOLEAN, themes : Seq(Nat \ Missing), theme : Nat]
Cached(c) ==
    /\ c \in Cache /\ Len(c.themes) <= CacheSize
    /\ c.theme \in {0} \cup {c.themes[i] : i \in 1 .. Len(c.themes)}

\* A cache that has room gets the theme asked for, if it can be loaded.
LEMMA Ensured ==
    ASSUME ScreenParameters, NEW c, Cached(c), NEW s \in Nat, shm' \in BOOLEAN,
           NEW r, r = Screen!ensure_cursor_theme_for_scale(c, s)
    PROVE  /\ Cached(r) /\ Len(c.themes) <= Len(r.themes)
           /\ r.ok /\ Len(r.themes) < CacheSize => r.theme = s
           /\ shm' /\ Len(c.themes) < CacheSize /\ s \notin Missing => r.ok
<1>1. /\ c = [ok |-> c.ok, themes |-> c.themes, theme |-> c.theme]
      /\ c.ok \in BOOLEAN /\ c.themes \in Seq(Nat \ Missing) /\ c.theme \in Nat
      /\ Len(c.themes) \in Nat /\ CacheSize \in Nat
  BY LenProperties DEF Cached, Cache, ScreenParameters
<1>2. Screen!Range(c.themes) = {c.themes[i] : i \in 1 .. Len(c.themes)}
  BY <1>1 DEF Screen!Range
<1>3. CASE r \in Cache /\ r.themes = c.themes
  <2>1. \/ r.ok /\ r.theme = s /\ (c.theme = s \/ s \in Screen!Range(c.themes))
        \/ ~r.ok /\ r.theme = c.theme /\ (~shm' \/ s \in Missing)
        \/ r.theme = c.theme /\ Len(c.themes) >= CacheSize
    BY <1>1, <1>3 DEF Screen!ensure_cursor_theme_for_scale
  <2> QED BY <1>1, <1>2, <1>3, <2>1 DEF Cached
<1>4. CASE s \notin Missing /\ Len(c.themes) < CacheSize /\ r = [ok |-> TRUE, themes |-> Append(c.themes, s), theme |-> s]
  <2>1. /\ Append(c.themes, s) \in Seq(Nat \ Missing) /\ Len(Append(c.themes, s)) = Len(c.themes) + 1
        /\ Append(c.themes, s)[Len(c.themes) + 1] = s
    BY <1>1, <1>4, AppendProperties
  <2>2. r.ok /\ r.theme = s /\ r.themes = Append(c.themes, s) /\ r \in Cache
    BY <1>4, <2>1 DEF Cache
  <2>3. Len(c.themes) + 1 \in 1 .. Len(r.themes)
    BY <1>1, <2>1, <2>2
  <2> QED BY <1>1, <1>4, <2>1, <2>2, <2>3 DEF Cached
<1>5. \/ r \in Cache /\ r.themes = c.themes
      \/ s \notin Missing /\ Len(c.themes) < CacheSize /\ r = [ok |-> TRUE, themes |-> Append(c.themes, s), theme |-> s]
  <2>1. c.theme = s \/ s \in Screen!Range(c.themes) => r \in Cache /\ r.themes = c.themes
    BY <1>1 DEF Screen!ensure_cursor_theme_for_scale, Cache
  <2>2. ASSUME c.theme # s, s \notin Screen!Range(c.themes)
        PROVE  r = IF ~shm' THEN [c EXCEPT !.ok = FALSE]
                   ELSE IF Len(c.themes) >= CacheSize THEN [c EXCEPT !.ok = c.theme # 0]
                   ELSE IF s \in Missing THEN [c EXCEPT !.ok = FALSE]
                   ELSE [ok |-> TRUE, themes |-> Append(c.themes, s), theme |-> s]
    BY <2>2 DEF Screen!ensure_cursor_theme_for_scale
  <2>3. \A is \in BOOLEAN : [c EXCEPT !.ok = is] \in Cache /\ [c EXCEPT !.ok = is].themes = c.themes
    BY <1>1 DEF Cache
  <2>4. CASE c.theme # s /\ s \notin Screen!Range(c.themes)
    <3>1. r = [c EXCEPT !.ok = FALSE] \/ r = [c EXCEPT !.ok = c.theme # 0] => r \in Cache /\ r.themes = c.themes
      BY <2>3
    <3>2. \/ r = [c EXCEPT !.ok = FALSE] \/ r = [c EXCEPT !.ok = c.theme # 0]
          \/ /\ s \notin Missing /\ ~(Len(c.themes) >= CacheSize)
             /\ r = [ok |-> TRUE, themes |-> Append(c.themes, s), theme |-> s]
      BY <2>2, <2>4, Zenon
    <3>3. ~(Len(c.themes) >= CacheSize) => Len(c.themes) < CacheSize
      BY <1>1
    <3> QED BY <3>1, <3>2, <3>3, Zenon
  <2> QED BY <2>1, <2>4, Zenon
<1> QED BY <1>3, <1>4, <1>5

LEMMA ScaleIsNumber ==
    ASSUME ScreenParameters, ScaleTypes'
    PROVE  Screen!get_cursor_buffer_scale' \in Nat
<1>1. surface_preferred_scale' \in Nat
  BY DEF ScreenParameters, ScaleTypes
<1>2. Screen!Largest({surface_preferred_scale'}) \in Nat
  BY <1>1, FS_Singleton, LargestOf
<1>3. Screen!resolve_surface_scale' \in Nat
  <2>1. Screen!resolve_surface_scale' =
            IF viewport' /\ preferred_scale_120' > 0 THEN preferred_scale_120'
            ELSE IF version' >= 6 THEN 120 * Screen!Largest({surface_preferred_scale'})
            ELSE 120 * integer_output_scale'
    BY DEF Screen!resolve_surface_scale, Screen!One
  <2>2. \A n \in Nat : 120 * n \in Nat
    OBVIOUS
  <2> QED BY <1>2, <2>1, <2>2 DEF ScaleTypes
<1>4. Screen!get_cursor_buffer_scale' =
          IF version' >= 3 THEN (Screen!resolve_surface_scale' + 120 - 1) \div 120 ELSE 1
  BY DEF Screen!get_cursor_buffer_scale, Screen!One
<1>5. \A n \in Nat : (n + 120 - 1) \div 120 \in Nat
  OBVIOUS
<1> QED BY <1>3, <1>4, <1>5

\* What the cursor is told once it is refreshed is right for the scale as it is now.
LEMMA Refreshed ==
    ASSUME ScreenParameters, ThemeTypes, Screen!CursorIsLegal, ScaleTypes', version' = version,
           Screen!refresh_cursor_surface
    PROVE  ThemeTypes' /\ CursorIsFresh' /\ Screen!CursorIsLegal'
<1> DEFINE s == Screen!get_cursor_buffer_scale'
           c == [ok |-> TRUE, themes |-> themes, theme |-> cursor_theme]
           first == Screen!ensure_cursor_theme_for_scale(c, s)
           odd == version >= 3 /\ first.theme \in Odd
           last == IF first.ok /\ odd THEN Screen!ensure_cursor_theme_for_scale(first, 1) ELSE first
<1>1. s \in Nat /\ shm' \in BOOLEAN /\ version \in Nat
  BY ScaleIsNumber DEF ScaleTypes
<1>2. CASE ~pointer_serial_valid'
  BY <1>2 DEF Screen!refresh_cursor_surface, Screen!cursors, ThemeTypes, CursorIsFresh, Screen!CursorIsLegal
<1>3. CASE pointer_serial_valid' /\ ~is_cursor_visible'
  BY <1>3 DEF Screen!refresh_cursor_surface, Screen!Hidden, ThemeTypes, CursorIsFresh, Screen!CursorIsLegal
<1>4. CASE pointer_serial_valid' /\ is_cursor_visible'
  <2>1. /\ themes' = last.themes /\ cursor_theme' = last.theme
        /\ cursor' = IF ~last.ok THEN cursor
                     ELSE [theme |-> last.theme, scale |-> IF version < 3 \/ odd THEN 1 ELSE last.theme]
    BY <1>4 DEF Screen!refresh_cursor_surface
  <2>2. Cached(c)
    BY DEF Cached, Cache, ThemeTypes
  <2>3. /\ Cached(first) /\ Len(c.themes) <= Len(first.themes)
        /\ first.ok /\ Len(first.themes) < CacheSize => first.theme = s
        /\ shm' /\ Len(c.themes) < CacheSize /\ s \notin Missing => first.ok
    BY <1>1, <2>2, Ensured
  <2> HIDE DEF c, first, s
  <2>4. /\ Cached(last) /\ Len(first.themes) <= Len(last.themes)
        /\ odd /\ first.ok /\ last.ok /\ Len(last.themes) < CacheSize => last.theme = 1
        /\ odd /\ first.ok /\ shm' /\ Len(first.themes) < CacheSize /\ 1 \notin Missing => last.ok
    <3>1. CASE first.ok /\ odd
      BY <1>1, <2>3, <3>1, Ensured
    <3>2. CASE ~(first.ok /\ odd)
      BY <2>3, <3>2 DEF Cached, Cache
    <3> QED BY <3>1, <3>2
  <2>5. ~(first.ok /\ odd) => last = first
    OBVIOUS
  <2> HIDE DEF last
  <2>6. ThemeTypes'
    BY <2>1, <2>4 DEF Cached, Cache, ThemeTypes
  <2>7. Screen!CursorIsLegal'
    BY <1>1, <2>1, <2>3, <2>4, <2>5 DEF Screen!CursorIsLegal, Cached, Cache
  <2>8. CursorIsFresh'
    <3> SUFFICES ASSUME shm', Len(themes') < CacheSize, Screen!Loadable'
                 PROVE  /\ cursor'.theme = (IF s \in Odd THEN 1 ELSE s)
                        /\ cursor'.scale = cursor'.theme
      BY <1>4 DEF CursorIsFresh, s
    <3>1. /\ Len(c.themes) \in Nat /\ Len(first.themes) \in Nat /\ Len(last.themes) \in Nat
          /\ CacheSize \in Nat
      BY <2>2, <2>3, <2>4, LenProperties DEF Cached, Cache, ScreenParameters
    <3>2. s \notin Missing /\ (s \in Odd => 1 \notin Missing)
      BY DEF Screen!Loadable, s
    <3>3. first.ok /\ first.theme = s
      BY <2>1, <2>3, <2>4, <3>1, <3>2
    <3>4. version < 3 => s = 1
      BY <1>1 DEF s, Screen!get_cursor_buffer_scale
    <3> QED BY <1>1, <2>1, <2>4, <2>5, <3>1, <3>2, <3>3, <3>4
  <2> QED BY <2>6, <2>7, <2>8
<1> QED BY <1>2, <1>3, <1>4
--------------------------------------------------------------------------------
\* What the compositor sends.
Program == <<version, outs, crowded, integer_output_scale, surface_preferred_scale, preferred_scale_120,
    fractional_scale, viewport, shm, pointer_serial_valid, is_cursor_visible, themes, cursor_theme, cursor>>

LEMMA WantedOf == ASSUME CompositorTypes, NEW id \in Ids PROVE Wanted(id) \in SUBSET Entry
BY DEF CompositorTypes, Wanted, Entry, New

LEMMA WantedNext == ASSUME CompositorTypes', NEW id \in Ids PROVE Wanted(id)' \in SUBSET Entry
BY DEF CompositorTypes, Wanted, Entry, New

LEMMA RowsOf == ASSUME NEW list \in Seq(Entry), NEW id PROVE Rows(list, id) \in SUBSET Entry
<1>1. \A i \in 1 .. Len(list) : list[i] \in Entry
  BY ElementOfSeq
<1> QED BY <1>1 DEF Rows

LEMMA StepsOf ==
    ASSUME NEW id \in Ids, NEW e \in Notice, NEW S \in SUBSET Entry
    PROVE  /\ e \notin OutputNotice \/ e.val # id => <<e, S, S>> \in RowsStep(id)
           /\ e \in OutputNotice /\ e.val = id =>
                 /\ e.type = "global" /\ S = {} => <<e, S, {New(id)}>> \in RowsStep(id)
                 /\ e.type = "scale" => <<e, S, Rescaled(S, e.scale)>> \in RowsStep(id)
                 /\ e.type = "enter" => <<e, S, Marked(S, TRUE)>> \in RowsStep(id)
                 /\ e.type = "leave" => <<e, S, Marked(S, FALSE)>> \in RowsStep(id)
                 /\ e.type = "global_remove" => <<e, S, {}>> \in RowsStep(id)
<1>1. CASE e \notin OutputNotice \/ e.val # id
  BY <1>1 DEF RowsStep
<1>2. CASE e \in OutputNotice /\ e.val = id
  <2>1. New(id) \in Entry
    BY DEF New, Entry
  <2>2. /\ \A r \in Entry, s \in Scales : [r EXCEPT !.scale = s] \in Entry
        /\ \A r \in Entry, is \in BOOLEAN : [r EXCEPT !.entered = is] \in Entry
    BY DEF Entry
  <2>3. e.type = "scale" => e.scale \in Scales
    BY <1>2, NoticeTypes
  <2>4. e.type = "global" /\ S = {} => <<e, S, {New(id)}>> \in RowsStep(id)
    BY <1>2, <2>1 DEF RowsStep
  <2>5. e.type = "scale" => <<e, S, Rescaled(S, e.scale)>> \in RowsStep(id)
    <3> SUFFICES ASSUME e.type = "scale" PROVE <<e, S, Rescaled(S, e.scale)>> \in RowsStep(id)
      OBVIOUS
    <3>1. Rescaled(S, e.scale) \in SUBSET Entry
      BY <2>2, <2>3 DEF Rescaled
    <3> QED BY <1>2, <3>1 DEF RowsStep
  <2>6. e.type = "enter" => <<e, S, Marked(S, TRUE)>> \in RowsStep(id)
    <3>1. Marked(S, TRUE) \in SUBSET Entry
      BY <2>2 DEF Marked
    <3> QED BY <1>2, <3>1 DEF RowsStep
  <2>7. e.type = "leave" => <<e, S, Marked(S, FALSE)>> \in RowsStep(id)
    <3>1. Marked(S, FALSE) \in SUBSET Entry
      BY <2>2 DEF Marked
    <3> QED BY <1>2, <3>1 DEF RowsStep
  <2>8. e.type = "global_remove" => <<e, S, {}>> \in RowsStep(id)
    BY <1>2 DEF RowsStep
  <2> QED BY <1>2, <2>4, <2>5, <2>6, <2>7, <2>8
<1> QED BY <1>1, <1>2

LEMMA ProgramRests ==
    ASSUME ScreenInv, UNCHANGED Program
    PROVE  /\ TableTypes' /\ ScaleTypes' /\ PointerTypes' /\ ThemeTypes'
           /\ ScaleIsLargest' /\ CursorIsFresh' /\ Screen!CursorIsLegal'
           /\ (~crowded' => ~crowded /\ OneRowEach')
<1>1. TableTypes' /\ ScaleTypes' /\ PointerTypes' /\ ThemeTypes'
  BY DEF Program, ScreenInv, TableTypes, ScaleTypes, PointerTypes, ThemeTypes
<1>2. ScaleIsLargest' /\ (~crowded' => ~crowded /\ OneRowEach')
  BY DEF Program, ScreenInv, TableAgrees, ScaleIsLargest, OneRowEach
<1>3. Screen!get_cursor_buffer_scale' = Screen!get_cursor_buffer_scale
  BY DEF Program, Screen!get_cursor_buffer_scale, Screen!resolve_surface_scale
<1>4. CursorIsFresh' /\ Screen!CursorIsLegal'
  BY <1>3 DEF Program, ScreenInv, CursorAgrees, CursorIsFresh, Screen!CursorIsLegal, Screen!Loadable
<1> QED BY <1>1, <1>2, <1>4

\* About outputs.
LEMMA OutputsSent ==
    ASSUME ScreenInv, UNCHANGED Program, UNCHANGED <<integer, fraction, managers, hover>>, CompositorTypes',
           NEW s \in Seq(OutputNotice), queue' = queue \o s,
           \A id \in Ids : Leads(s, RowsStep(id), SUBSET Entry, Wanted(id), Wanted(id)')
    PROVE  ScreenInv'
<1>1. queue \in Seq(Notice) /\ s \in Seq(Notice) /\ \A i \in 1 .. Len(s) : s[i] \in OutputNotice
  <2>1. \A i \in 1 .. Len(s) : s[i] \in OutputNotice
    BY ElementOfSeq
  <2>2. OutputNotice \subseteq Notice
    BY DEF Notice
  <2> QED BY <2>1, <2>2 DEF ScreenInv, CompositorTypes
<1>2. \A i \in 1 .. Len(s) : s[i].type \in Screen!OutputEvents
  BY <1>1, NoticeTypes DEF Notice
<1>3. \A i \in 1 .. Len(s) :
         /\ \A type \in {"pointer", "preferred_scale", "preferred_buffer_scale"} : s[i] \notin Told(type)
         /\ \A m : s[i] \notin Telling("manager_remove", m)
  BY <1>2 DEF Told, Telling, Screen!OutputEvents
<1>4. ExtensionFollows("fractional", fractional_scale)' /\ ExtensionFollows("viewporter", viewport)'
  <2>1. \A m : Never(s, Telling("manager_remove", m))
    BY <1>3 DEF Never
  <2>2. \A m : Never(queue, Telling("manager_remove", m)) => Never(queue', Telling("manager_remove", m))
    BY <1>1, <2>1, NeverConcat
  <2>3. \A m, ok : Follows(queue, Telling("manager_remove", m), Telling("manager_remove", m), ok)
                 => Follows(queue', Telling("manager_remove", m), Telling("manager_remove", m), ok)
    BY <1>1, <1>3, FollowsKept
  <2> QED BY <2>2, <2>3 DEF ScreenInv, PreferencesAgree, ExtensionFollows, Program
<1>5. IntegerFollows' /\ FractionFollows' /\ HoverFollows'
  BY <1>1, <1>3, FollowsKept
     DEF ScreenInv, PreferencesAgree, CursorAgrees, IntegerFollows, FractionFollows, HoverFollows, Program
<1>6. ASSUME ~crowded', NEW id \in Ids PROVE RowsLead(id)'
  <2>1. Leads(queue, RowsStep(id), SUBSET Entry, Rows(outs, id), Wanted(id))
    BY <1>6, ProgramRests DEF ScreenInv, TableAgrees, RowsLead
  <2>2. Leads(queue \o s, RowsStep(id), SUBSET Entry, Rows(outs, id), Wanted(id)')
    BY <1>1, <2>1, LeadsConcat
  <2> QED BY <2>2 DEF RowsLead, Program
<1>7. ~fractional_scale' => preferred_scale_120' = 0
  BY DEF ScreenInv, PreferencesAgree, Program
<1> QED BY <1>4, <1>5, <1>6, <1>7, ProgramRests DEF ScreenInv, TableAgrees, PreferencesAgree, CursorAgrees

\* About anything else.
LEMMA OtherSent ==
    ASSUME ScreenInv, UNCHANGED Program, UNCHANGED <<outputs, on, served>>, CompositorTypes',
           NEW e \in PreferenceNotice \cup PointerNotice, queue' = queue \o <<e>>,
           PreferencesAgree', HoverFollows'
    PROVE  ScreenInv'
<1>1. queue \in Seq(Notice) /\ <<e>> \in Seq(Notice) /\ e \in Notice /\ e \notin OutputNotice
  BY NoticeTypes DEF ScreenInv, CompositorTypes, Notice, Screen!OutputEvents
<1>2. ASSUME ~crowded', NEW id \in Ids PROVE RowsLead(id)'
  <2>1. Leads(queue, RowsStep(id), SUBSET Entry, Rows(outs, id), Wanted(id)) /\ Wanted(id) \in SUBSET Entry
    BY <1>2, ProgramRests, WantedOf DEF ScreenInv, TableAgrees, RowsLead
  <2>2. <<e, Wanted(id), Wanted(id)>> \in RowsStep(id)
    BY <1>1, <2>1, StepsOf
  <2>3. Leads(queue \o <<e>>, RowsStep(id), SUBSET Entry, Rows(outs, id), Wanted(id))
    BY <1>1, <2>1, <2>2, LeadsAppend
  <2> QED BY <2>3 DEF RowsLead, Program, Wanted
<1> QED BY <1>2, ProgramRests DEF ScreenInv, TableAgrees, CursorAgrees
LEMMA OutputAdded ==
    ASSUME ScreenParameters, ScreenInv, NEW id \in Ids, NEW s \in Scales, Screen!AddOutput(id, s)
    PROVE  ScreenInv'
<1> DEFINE e == Screen!Event("global", id)
<1>1. /\ outputs[id] = 0 /\ outputs' = [outputs EXCEPT ![id] = s] /\ queue' = queue \o <<e>>
      /\ UNCHANGED <<on, served, integer, fraction, managers, hover>> /\ UNCHANGED Program
  BY DEF Screen!AddOutput, Screen!Send, Screen!Unchanged, Screen!scales, Screen!pointer, Screen!cursors, Program
<1>2. e \in OutputNotice /\ e \in Notice /\ e.type = "global" /\ e.val = id
  BY Notices DEF Screen!Event, Notice
<1>3. CompositorTypes
  BY DEF ScreenInv
<1>4. \A x \in Ids : outputs'[x] = IF x = id THEN s ELSE outputs[x]
  BY <1>1, <1>3 DEF CompositorTypes
<1>5. queue \o <<e>> \in Seq(Notice) /\ <<e>> \in Seq(OutputNotice)
  BY <1>2, <1>3 DEF CompositorTypes
<1>6. s # 0
  BY DEF ScreenParameters
<1>7. CompositorTypes'
  <2>1. outputs' \in [Ids -> Scales \cup {0}]
    BY <1>1, <1>3 DEF CompositorTypes
  <2>2. \A x \in on' \cup served' : outputs'[x] # 0
    BY <1>1, <1>3, <1>4, <1>6 DEF CompositorTypes
  <2> QED BY <1>1, <1>3, <1>5, <2>1, <2>2 DEF CompositorTypes
<1>8. ASSUME NEW x \in Ids PROVE Leads(<<e>>, RowsStep(x), SUBSET Entry, Wanted(x), Wanted(x)')
  <2>1. Wanted(x) \in SUBSET Entry /\ Wanted(x)' \in SUBSET Entry
    BY <1>3, <1>7, WantedOf, WantedNext
  <2>2. CASE x = id
    <3>1. id \notin served
      BY <1>1, <1>3 DEF CompositorTypes
    <3>2. Wanted(x) = {} /\ Wanted(x)' = {New(id)}
      BY <1>1, <1>4, <1>6, <2>2, <3>1 DEF Wanted
    <3>3. <<e, Wanted(x), Wanted(x)'>> \in RowsStep(x)
      BY <1>2, <2>1, <2>2, <3>2, StepsOf
    <3> QED BY <2>1, <3>3, LeadsOne
  <2>3. CASE x # id
    <3>1. Wanted(x)' = Wanted(x)
      BY <1>1, <1>4, <2>3 DEF Wanted
    <3>2. <<e, Wanted(x), Wanted(x)>> \in RowsStep(x)
      BY <1>2, <2>1, <2>3, StepsOf
    <3> QED BY <2>1, <3>1, <3>2, LeadsOne
  <2> QED BY <2>2, <2>3
<1> HIDE DEF e
<1> QED BY <1>1, <1>5, <1>7, <1>8, OutputsSent

\* An output's one row, rescaled, entered or left.
OutputRow(id, s, is) == [id |-> id, scale |-> s, entered |-> is]

LEMMA RowOf ==
    ASSUME NEW id, NEW s, NEW no \in BOOLEAN, ~no, NEW yes \in BOOLEAN, yes
    PROVE  /\ New(id) = OutputRow(id, 1, no)
           /\ Marked({OutputRow(id, s, no)}, TRUE) = {OutputRow(id, s, yes)}
<1>1. New(id) = OutputRow(id, 1, no)
  <2>1. no = FALSE
    OBVIOUS
  <2> QED BY <2>1, Zenon DEF New, OutputRow
<1>2. [OutputRow(id, s, no) EXCEPT !.entered = TRUE] = OutputRow(id, s, yes)
  <2>1. yes = TRUE
    OBVIOUS
  <2>2. \A is, has : [OutputRow(id, s, is) EXCEPT !.entered = has] = OutputRow(id, s, has)
    BY DEF OutputRow
  <2> QED BY <2>1, <2>2, Zenon
<1>3. Marked({OutputRow(id, s, no)}, TRUE) = {OutputRow(id, s, yes)}
  BY <1>2 DEF Marked
<1> QED BY <1>1, <1>3

LEMMA RowRescaled ==
    ASSUME NEW id, NEW s, NEW t, NEW is
    PROVE  Rescaled({OutputRow(id, s, is)}, t) = {OutputRow(id, t, is)}
<1>1. [OutputRow(id, s, is) EXCEPT !.scale = t] = OutputRow(id, t, is)
  BY DEF OutputRow
<1> QED BY <1>1 DEF Rescaled

LEMMA RowIsEntry ==
    ASSUME NEW id \in Ids, NEW s \in Scales \cup {1}, NEW is \in BOOLEAN
    PROVE  OutputRow(id, s, is) \in Entry
BY DEF OutputRow, Entry

LEMMA OutputServed ==
    ASSUME ScreenParameters, ScreenInv, NEW id \in Ids, Screen!ServeOutput(id)
    PROVE  ScreenInv'
<1> DEFINE e == [type |-> "scale", val |-> id, scale |-> outputs[id]]
           f == Screen!Event("enter", id)
           more == IF id \in on THEN <<f>> ELSE <<>>
<1>1. /\ outputs[id] # 0 /\ id \notin served /\ served' = served \cup {id} /\ queue' = queue \o (<<e>> \o more)
      /\ UNCHANGED <<outputs, on, integer, fraction, managers, hover>> /\ UNCHANGED Program
  BY DEF Screen!ServeOutput, Screen!Send, Screen!Unchanged, Screen!scales, Screen!pointer, Screen!cursors, Program
<1>2. CompositorTypes
  BY DEF ScreenInv
<1>3. outputs[id] \in Scales
  BY <1>1, <1>2 DEF CompositorTypes
<1>4. /\ e \in OutputNotice /\ e \in Notice /\ e.type = "scale" /\ e.val = id /\ e.scale = outputs[id]
      /\ f \in OutputNotice /\ f \in Notice /\ f.type = "enter" /\ f.val = id
  BY <1>3, Notices DEF Screen!Event, Notice
<1> HIDE DEF e, f
<1>5. /\ <<e>> \in Seq(OutputNotice) /\ more \in Seq(OutputNotice) /\ <<e>> \o more \in Seq(OutputNotice)
      /\ <<e>> \in Seq(Notice) /\ more \in Seq(Notice) /\ <<e>> \o more \in Seq(Notice)
  BY <1>4, ConcatElements
<1>6. CompositorTypes'
  <2>1. IsFiniteSet(served')
    BY <1>1, <1>2, FS_AddElement DEF CompositorTypes
  <2>2. queue' \in Seq(Notice)
    BY <1>1, <1>2, <1>5, ConcatElements DEF CompositorTypes
  <2> HIDE DEF more
  <2> QED BY <1>1, <1>2, <2>1, <2>2 DEF CompositorTypes
<1>7. ASSUME NEW x \in Ids PROVE Leads(<<e>> \o more, RowsStep(x), SUBSET Entry, Wanted(x), Wanted(x)')
  <2>1. Wanted(x) \in SUBSET Entry /\ Wanted(x)' \in SUBSET Entry
    BY <1>2, <1>6, WantedOf, WantedNext
  <2>2. CASE x = id
    <3>0. PICK no \in BOOLEAN, yes \in BOOLEAN : ~no /\ yes
      OBVIOUS
    <3> DEFINE first == {OutputRow(id, outputs[id], no)}
    <3>1. Wanted(x) = {OutputRow(id, 1, no)} /\ Wanted(x)' = {OutputRow(id, outputs[id], id \in on)}
      <4>1. Wanted(x) = {New(id)}
        BY <1>1, <2>2 DEF Wanted
      <4>3. New(id) = OutputRow(id, 1, no)
        BY <3>0, RowOf, Zenon
      <4>2. Wanted(x)' = {OutputRow(id, outputs[id], id \in on)}
        BY <1>1, <2>2 DEF Wanted, OutputRow
      <4> QED BY <4>1, <4>2, <4>3
    <3>2. first \in SUBSET Entry
      BY <1>3, RowIsEntry
    <3>3. <<e, Wanted(x), first>> \in RowsStep(x)
      <4>1. <<e, Wanted(x), Rescaled(Wanted(x), e.scale)>> \in RowsStep(x)
        BY <1>4, <2>1, <2>2, StepsOf
      <4>2. Rescaled({OutputRow(id, 1, no)}, outputs[id]) = {OutputRow(id, outputs[id], no)}
        BY RowRescaled
      <4> QED BY <1>4, <3>1, <4>1, <4>2
    <3>4. Marked(first, TRUE) = {OutputRow(id, outputs[id], yes)}
      BY <3>0, RowOf
    <3> HIDE DEF first
    <3>5. Leads(<<e>>, RowsStep(x), SUBSET Entry, Wanted(x), first)
      BY <2>1, <3>2, <3>3, LeadsOne
    <3>6. Leads(more, RowsStep(x), SUBSET Entry, first, Wanted(x)')
      <4>1. CASE id \in on
        <5>1. (id \in on) = yes
          BY <3>0, <4>1
        <5>2. Marked(first, TRUE) = Wanted(x)'
          BY <3>1, <3>4, <5>1
        <5>3. <<f, first, Marked(first, TRUE)>> \in RowsStep(x)
          BY <1>4, <2>2, <3>2, StepsOf
        <5>4. more = <<f>>
          BY <4>1
        <5> QED BY <2>1, <3>2, <5>2, <5>3, <5>4, LeadsOne
      <4>2. CASE id \notin on
        <5>1. (id \in on) = no
          BY <3>0, <4>2
        <5>2. first = Wanted(x)'
          BY <3>1, <5>1 DEF first
        <5>3. more = <<>>
          BY <4>2
        <5> QED BY <3>2, <5>2, <5>3, LeadsEmpty
      <4> QED BY <4>1, <4>2
    <3> HIDE DEF more
    <3> QED BY <1>5, <3>5, <3>6, LeadsConcat
  <2>3. CASE x # id
    <3>1. Wanted(x)' = Wanted(x)
      BY <1>1, <2>3 DEF Wanted
    <3>2. \A i \in 1 .. Len(<<e>> \o more) : (<<e>> \o more)[i] \in {e, f}
      <4>1. <<e>> \in Seq({e, f}) /\ more \in Seq({e, f})
        <5>1. <<e>> \in Seq({e, f}) /\ <<f>> \in Seq({e, f}) /\ <<>> \in Seq({e, f})
          OBVIOUS
        <5> QED BY <5>1
      <4>2. <<e>> \o more \in Seq({e, f})
        BY <4>1, ConcatElements
      <4> HIDE DEF more
      <4> QED BY <4>2, ElementOfSeq
    <3>3. \A g \in {e, f} : <<g, Wanted(x), Wanted(x)>> \in RowsStep(x)
      BY <1>4, <2>1, <2>3, StepsOf
    <3>4. Leads(<<>>, RowsStep(x), SUBSET Entry, Wanted(x), Wanted(x))
      BY <2>1, LeadsEmpty
    <3>5. Leads(<<>> \o (<<e>> \o more), RowsStep(x), SUBSET Entry, Wanted(x), Wanted(x))
      <4>1. <<>> \in Seq(Notice)
        OBVIOUS
      <4> HIDE DEF more
      <4> QED BY <1>5, <2>1, <3>2, <3>3, <3>4, <4>1, LeadsKept
    <3>6. <<>> \o (<<e>> \o more) = <<e>> \o more
      BY <1>5, ConcatEmptySeq
    <3> QED BY <3>1, <3>5, <3>6
  <2> QED BY <2>2, <2>3
<1> HIDE DEF more
<1> QED BY <1>1, <1>5, <1>6, <1>7, OutputsSent

LEMMA OutputRemoved ==
    ASSUME ScreenParameters, ScreenInv, NEW id \in Ids, Screen!RemoveOutput(id)
    PROVE  ScreenInv'
<1> DEFINE e == Screen!Event("global_remove", id)
<1>1. /\ outputs' = [outputs EXCEPT ![id] = 0] /\ on' = on \ {id} /\ served' = served \ {id}
      /\ queue' = queue \o <<e>>
      /\ UNCHANGED <<integer, fraction, managers, hover>> /\ UNCHANGED Program
  BY DEF Screen!RemoveOutput, Screen!Send, Screen!Unchanged, Screen!scales, Screen!pointer, Screen!cursors, Program
<1>2. e \in OutputNotice /\ e \in Notice /\ e.type = "global_remove" /\ e.val = id
  BY Notices DEF Screen!Event, Notice
<1>3. CompositorTypes
  BY DEF ScreenInv
<1>4. \A x \in Ids : outputs'[x] = IF x = id THEN 0 ELSE outputs[x]
  BY <1>1, <1>3 DEF CompositorTypes
<1>5. queue \o <<e>> \in Seq(Notice) /\ <<e>> \in Seq(OutputNotice)
  BY <1>2, <1>3 DEF CompositorTypes
<1>6. CompositorTypes'
  <2>1. outputs' \in [Ids -> Scales \cup {0}]
    BY <1>1, <1>3 DEF CompositorTypes
  <2>2. \A x \in on' \cup served' : outputs'[x] # 0
    BY <1>1, <1>3, <1>4 DEF CompositorTypes
  <2>3. IsFiniteSet(served')
    <3>1. IsFiniteSet(served) /\ served' \in SUBSET served
      BY <1>1, <1>3 DEF CompositorTypes
    <3> QED BY <3>1, FS_Subset
  <2> QED BY <1>1, <1>3, <1>5, <2>1, <2>2, <2>3 DEF CompositorTypes
<1>7. ASSUME NEW x \in Ids PROVE Leads(<<e>>, RowsStep(x), SUBSET Entry, Wanted(x), Wanted(x)')
  <2>1. Wanted(x) \in SUBSET Entry /\ Wanted(x)' \in SUBSET Entry
    BY <1>3, <1>6, WantedOf, WantedNext
  <2>2. CASE x = id
    <3>1. Wanted(x)' = {}
      BY <1>4, <2>2 DEF Wanted
    <3>2. <<e, Wanted(x), Wanted(x)'>> \in RowsStep(x)
      BY <1>2, <2>1, <2>2, <3>1, StepsOf
    <3> QED BY <2>1, <3>2, LeadsOne
  <2>3. CASE x # id
    <3>1. Wanted(x)' = Wanted(x)
      <4>1. outputs'[x] = outputs[x]
        BY <1>4, <2>3
      <4>2. (x \in on') = (x \in on) /\ (x \in served') = (x \in served)
        BY <1>1, <2>3
      <4>3. {[id |-> x, scale |-> outputs[x], entered |-> x \in on']}
                = {[id |-> x, scale |-> outputs[x], entered |-> x \in on]}
        BY <4>2
      <4> QED BY <4>1, <4>2, <4>3 DEF Wanted, New
    <3>2. <<e, Wanted(x), Wanted(x)>> \in RowsStep(x)
      BY <1>2, <2>1, <2>3, StepsOf
    <3> QED BY <2>1, <3>1, <3>2, LeadsOne
  <2> QED BY <2>2, <2>3
<1> HIDE DEF e
<1> QED BY <1>1, <1>5, <1>6, <1>7, OutputsSent

LEMMA OutputRescaled ==
    ASSUME ScreenParameters, ScreenInv, NEW id \in Ids, NEW s \in Scales, Screen!RescaleOutput(id, s)
    PROVE  ScreenInv'
<1> DEFINE e == [type |-> "scale", val |-> id, scale |-> s]
           sent == IF id \in served THEN <<e>> ELSE <<>>
<1>1. /\ outputs[id] # 0 /\ outputs' = [outputs EXCEPT ![id] = s] /\ queue' = queue \o sent
      /\ UNCHANGED <<on, served, integer, fraction, managers, hover>> /\ UNCHANGED Program
  BY DEF Screen!RescaleOutput, Screen!Send, Screen!Unchanged, Screen!scales, Screen!pointer, Screen!cursors, Program
<1>2. e \in OutputNotice /\ e \in Notice /\ e.type = "scale" /\ e.val = id /\ e.scale = s
  BY Notices DEF Notice
<1> HIDE DEF e
<1>3. CompositorTypes
  BY DEF ScreenInv
<1>4. s # 0 /\ \A x \in Ids : outputs'[x] = IF x = id THEN s ELSE outputs[x]
  BY <1>1, <1>3 DEF CompositorTypes, ScreenParameters
<1>5. sent \in Seq(Notice) /\ sent \in Seq(OutputNotice)
  <2>1. <<e>> \in Seq(Notice) /\ <<e>> \in Seq(OutputNotice) /\ <<>> \in Seq(Notice) /\ <<>> \in Seq(OutputNotice)
    BY <1>2
  <2> QED BY <2>1
<1>6. CompositorTypes'
  <2>1. outputs' \in [Ids -> Scales \cup {0}]
    BY <1>1, <1>3 DEF CompositorTypes
  <2>2. \A x \in on' \cup served' : outputs'[x] # 0
    BY <1>1, <1>3, <1>4 DEF CompositorTypes
  <2>3. queue' \in Seq(Notice)
    <3> HIDE DEF sent
    <3> QED BY <1>1, <1>3, <1>5, ConcatElements DEF CompositorTypes
  <2> QED BY <1>1, <1>3, <2>1, <2>2, <2>3 DEF CompositorTypes
<1>7. ASSUME NEW x \in Ids PROVE Leads(sent, RowsStep(x), SUBSET Entry, Wanted(x), Wanted(x)')
  <2>1. Wanted(x) \in SUBSET Entry /\ Wanted(x)' \in SUBSET Entry
    BY <1>3, <1>6, WantedOf, WantedNext
  <2>2. CASE id \in served /\ x = id
    <3>1. Wanted(x) = {OutputRow(id, outputs[id], id \in on)} /\ Wanted(x)' = {OutputRow(id, s, id \in on)}
      BY <1>1, <1>4, <2>2 DEF Wanted, OutputRow
    <3>2. <<e, Wanted(x), Rescaled(Wanted(x), s)>> \in RowsStep(x)
      BY <1>2, <2>1, <2>2, StepsOf
    <3>3. Rescaled(Wanted(x), s) = Wanted(x)'
      BY <3>1, RowRescaled
    <3>4. sent = <<e>>
      BY <2>2
    <3> QED BY <2>1, <3>2, <3>3, <3>4, LeadsOne
  <2>3. CASE ~(id \in served /\ x = id)
    <3>1. Wanted(x)' = Wanted(x)
      BY <1>1, <1>4, <2>3 DEF Wanted
    <3>2. CASE id \in served
      <4>1. <<e, Wanted(x), Wanted(x)>> \in RowsStep(x)
        BY <1>2, <2>1, <2>3, <3>2, StepsOf
      <4>2. sent = <<e>>
        BY <3>2
      <4> QED BY <2>1, <3>1, <4>1, <4>2, LeadsOne
    <3>3. CASE id \notin served
      BY <2>1, <3>1, <3>3, LeadsEmpty
    <3> QED BY <3>2, <3>3
  <2> QED BY <2>2, <2>3
<1> HIDE DEF sent
<1> QED BY <1>1, <1>5, <1>6, <1>7, OutputsSent

\* The events that mark some outputs mark those and no other.
LEMMA RowMarked ==
    ASSUME NEW id, NEW s, NEW was, NEW is
    PROVE  Marked({OutputRow(id, s, was)}, is) = {OutputRow(id, s, is)}
<1>1. [OutputRow(id, s, was) EXCEPT !.entered = is] = OutputRow(id, s, is)
  BY DEF OutputRow
<1> QED BY <1>1 DEF Marked

LEMMA MarksLead ==
    ASSUME NEW S \in SUBSET Ids, IsFiniteSet(S), NEW x \in Ids, NEW b \in SUBSET Entry, NEW type, NEW is \in BOOLEAN,
           (type = "enter" /\ is) \/ (type = "leave" /\ ~is)
    PROVE  /\ Screen!EventsOf(type, S) \in Seq(OutputNotice)
           /\ Leads(Screen!EventsOf(type, S), RowsStep(x), SUBSET Entry, b, IF x \in S THEN Marked(b, is) ELSE b)
<1> DEFINE q == Screen!EventsOf(type, S)
           told == {Screen!Event(type, id) : id \in S}
           mark == Screen!Event(type, x)
           c == Marked(b, is)
<1>1. /\ q \in Seq(told) /\ \A i \in 1 .. Len(q) : q[i] \in told
      /\ \A id \in S : \E i \in 1 .. Len(q) : q[i] = Screen!Event(type, id)
  BY EventsListed, ElementOfSeq
<1>2. told \subseteq OutputNotice /\ told \subseteq Notice
  BY Notices DEF Notice
<1>3. c \in SUBSET Entry /\ Marked(c, is) = c
  <2>1. \A r \in Entry : [r EXCEPT !.entered = is] \in Entry
    BY DEF Entry
  <2>2. \A r \in Entry : [[r EXCEPT !.entered = is] EXCEPT !.entered = is] = [r EXCEPT !.entered = is]
    BY DEF Entry
  <2>3. c \in SUBSET Entry
    BY <2>1 DEF Marked
  <2>4. \A r \in c : [r EXCEPT !.entered = is] = r
    <3>1. \A r \in c : \E y \in b : r = [y EXCEPT !.entered = is]
      BY DEF Marked
    <3> HIDE DEF c
    <3> QED BY <2>2, <3>1
  <2> HIDE DEF c
  <2> QED BY <2>3, <2>4 DEF Marked
<1>4. \A id \in S : Screen!Event(type, id) = mark => id = x
  BY DEF Screen!Event
<1>5. \A e \in told : e.type = type /\ (e.val = x => e = mark)
  BY DEF Screen!Event
<1>6. \A e \in told : e # mark => \A v \in SUBSET Entry : <<e, v, v>> \in RowsStep(x)
  BY <1>2, <1>5, StepsOf
<1>7. \A v \in SUBSET Entry : mark \in told => <<mark, v, Marked(v, is)>> \in RowsStep(x)
  <2> SUFFICES ASSUME NEW v \in SUBSET Entry, mark \in told PROVE <<mark, v, Marked(v, is)>> \in RowsStep(x)
    OBVIOUS
  <2>1. mark \in Notice /\ mark \in OutputNotice /\ mark.val = x /\ mark.type = type
    BY <1>2 DEF Screen!Event
  <2>2. CASE type = "enter" /\ is
    <3>1. <<mark, v, Marked(v, TRUE)>> \in RowsStep(x)
      BY <2>1, <2>2, StepsOf
    <3>2. is = TRUE
      BY <2>2
    <3> QED BY <3>1, <3>2, Zenon
  <2>3. CASE type = "leave" /\ ~is
    <3>1. <<mark, v, Marked(v, FALSE)>> \in RowsStep(x)
      BY <2>1, <2>3, StepsOf
    <3>2. is = FALSE
      BY <2>3
    <3> QED BY <3>1, <3>2, Zenon
  <2> QED BY <2>2, <2>3
<1>8. q \in Seq(Notice) /\ q \in Seq(OutputNotice)
  BY <1>1, <1>2
<1>9. \A i \in 1 .. Len(q) : <<q[i], c, c>> \in RowsStep(x) /\ <<q[i], b, IF q[i] \in {mark} THEN c ELSE b>> \in RowsStep(x)
  <2> HIDE DEF q, told, mark, c
  <2>1. mark \in told => <<mark, c, c>> \in RowsStep(x) /\ <<mark, b, c>> \in RowsStep(x)
    BY <1>3, <1>7 DEF c
  <2> QED BY <1>1, <1>3, <1>6, <2>1
<1>10. Leads(q, RowsStep(x), SUBSET Entry, b, IF \E i \in 1 .. Len(q) : q[i] \in {mark} THEN c ELSE b)
  <2> HIDE DEF q, told, mark, c
  <2> QED BY <1>3, <1>8, <1>9, LeadsOver
<1>11. (\E i \in 1 .. Len(q) : q[i] \in {mark}) <=> x \in S
  <2>1. ASSUME NEW i \in 1 .. Len(q), q[i] = mark PROVE x \in S
    <3>1. PICK id \in S : q[i] = Screen!Event(type, id)
      BY <1>1
    <3> QED BY <1>4, <2>1, <3>1
  <2>2. ASSUME x \in S PROVE \E i \in 1 .. Len(q) : q[i] = mark
    BY <1>1, <2>2
  <2> QED BY <2>1, <2>2
<1>12. (IF \E i \in 1 .. Len(q) : q[i] \in {mark} THEN c ELSE b) = IF x \in S THEN c ELSE b
  BY <1>11, Zenon
<1> QED BY <1>8, <1>10, <1>12, Zenon

LEMMA SurfaceMoved ==
    ASSUME ScreenParameters, ScreenInv, NEW to \in SUBSET Ids, Screen!MoveSurface(to)
    PROVE  ScreenInv'
<1> DEFINE entered == (to \ on) \cap served
           left == (on \ to) \cap served
           enters == Screen!EventsOf("enter", entered)
           leaves == Screen!EventsOf("leave", left)
<1>1. /\ (\A id \in to : outputs[id] # 0) /\ on' = to /\ queue' = queue \o (enters \o leaves)
      /\ outputs' = outputs /\ served' = served
      /\ UNCHANGED <<integer, fraction, managers, hover>> /\ UNCHANGED Program
  BY DEF Screen!MoveSurface, Screen!Send, Screen!Unchanged, Screen!scales, Screen!pointer, Screen!cursors, Program
<1>2. CompositorTypes
  BY DEF ScreenInv
<1>3. /\ entered \in SUBSET Ids /\ IsFiniteSet(entered)
      /\ left \in SUBSET Ids /\ IsFiniteSet(left)
  <2>1. entered \in SUBSET served /\ left \in SUBSET served /\ served \in SUBSET Ids /\ IsFiniteSet(served)
    BY <1>2 DEF CompositorTypes
  <2> QED BY <2>1, FS_Subset
<1>4. PICK yes \in BOOLEAN, no \in BOOLEAN : yes /\ ~no
  OBVIOUS
<1> HIDE DEF entered, left
<1>5. /\ \A x \in Ids, b \in SUBSET Entry :
             Leads(enters, RowsStep(x), SUBSET Entry, b, IF x \in entered THEN Marked(b, yes) ELSE b)
      /\ \A x \in Ids, b \in SUBSET Entry :
             Leads(leaves, RowsStep(x), SUBSET Entry, b, IF x \in left THEN Marked(b, no) ELSE b)
  BY <1>3, <1>4, MarksLead
<1>6. ASSUME Ids # {} PROVE enters \in Seq(OutputNotice) /\ leaves \in Seq(OutputNotice)
  <2>1. PICK x \in Ids : TRUE
    BY <1>6
  <2>2. {} \in SUBSET Entry
    OBVIOUS
  <2> QED BY <1>3, <1>4, <2>1, <2>2, MarksLead
<1>7. Ids # {}
  BY <1>2 DEF Screen!MoveSurface, CompositorTypes
<1>8. /\ enters \in Seq(Notice) /\ leaves \in Seq(Notice)
      /\ enters \o leaves \in Seq(OutputNotice) /\ enters \o leaves \in Seq(Notice)
  <2>1. enters \in Seq(Notice) /\ leaves \in Seq(Notice)
    <3>1. OutputNotice \subseteq Notice
      BY DEF Notice
    <3> HIDE DEF enters, leaves
    <3> QED BY <1>6, <1>7, <3>1
  <2> HIDE DEF enters, leaves
  <2> QED BY <1>6, <1>7, <2>1, ConcatElements
<1> HIDE DEF enters, leaves
<1>9. CompositorTypes'
  <2>1. queue' \in Seq(Notice)
    BY <1>1, <1>2, <1>8, ConcatElements DEF CompositorTypes
  <2>2. /\ outputs' \in [Ids -> Scales \cup {0}] /\ on' \subseteq Ids /\ served' \subseteq Ids
        /\ IsFiniteSet(served') /\ \A id \in on' \cup served' : outputs'[id] # 0
    BY <1>1, <1>2 DEF CompositorTypes
  <2> QED BY <1>1, <1>2, <2>1, <2>2 DEF CompositorTypes
<1>10. ASSUME NEW x \in Ids PROVE Leads(enters \o leaves, RowsStep(x), SUBSET Entry, Wanted(x), Wanted(x)')
  <2>1. Wanted(x) \in SUBSET Entry /\ Wanted(x)' \in SUBSET Entry
    BY <1>2, <1>9, WantedOf, WantedNext
  <2> DEFINE mid == IF x \in entered THEN Marked(Wanted(x), yes) ELSE Wanted(x)
  <2>2. CASE x \in served
    <3> DEFINE was == x \in on
               is == x \in to
               here == was \/ is
               o == outputs[x]
    <3>0. o \in Scales
      BY <1>2, <2>2 DEF CompositorTypes
    <3>1. Wanted(x) = {OutputRow(x, o, was)} /\ Wanted(x)' = {OutputRow(x, o, is)}
      <4>1. outputs[x] # 0
        BY <1>2, <2>2 DEF CompositorTypes
      <4> QED BY <1>1, <2>2, <4>1 DEF Wanted, OutputRow
    <3>2. mid = {OutputRow(x, o, here)}
      <4>1. CASE x \in entered
        <5>1. here = yes
          BY <1>4, <4>1 DEF entered
        <5>2. Marked(Wanted(x), yes) = {OutputRow(x, o, yes)}
          BY <3>1, RowMarked
        <5> QED BY <4>1, <5>1, <5>2
      <4>2. CASE x \notin entered
        <5>1. here = was
          BY <2>2, <4>2 DEF entered
        <5> QED BY <3>1, <4>2, <5>1
      <4> QED BY <4>1, <4>2
    <3>3. Wanted(x)' = IF x \in left THEN Marked(mid, no) ELSE mid
      <4>1. CASE x \in left
        <5>1. is = no
          BY <1>4, <4>1 DEF left
        <5>2. Marked(mid, no) = {OutputRow(x, o, no)}
          BY <3>2, RowMarked
        <5> QED BY <3>1, <4>1, <5>1, <5>2
      <4>2. CASE x \notin left
        <5>1. here = is
          BY <2>2, <4>2 DEF left
        <5> QED BY <3>1, <3>2, <4>2, <5>1
      <4> QED BY <4>1, <4>2
    <3>4. mid \in SUBSET Entry
      <4>1. here \in BOOLEAN
        OBVIOUS
      <4> QED BY <3>0, <3>2, <4>1, RowIsEntry
    <3> HIDE DEF mid, o, was, is, here
    <3>5. Leads(enters, RowsStep(x), SUBSET Entry, Wanted(x), mid)
      BY <1>5, <2>1 DEF mid
    <3>6. Leads(leaves, RowsStep(x), SUBSET Entry, mid, Wanted(x)')
      BY <1>5, <3>3, <3>4
    <3> QED BY <1>8, <3>5, <3>6, LeadsConcat
  <2>3. CASE x \notin served
    <3>1. Wanted(x)' = Wanted(x)
      BY <1>1, <2>3 DEF Wanted, New
    <3>2. x \notin entered /\ x \notin left
      BY <2>3 DEF entered, left
    <3>3. Leads(enters, RowsStep(x), SUBSET Entry, Wanted(x), Wanted(x))
      BY <1>5, <2>1, <3>2
    <3>4. Leads(leaves, RowsStep(x), SUBSET Entry, Wanted(x), Wanted(x))
      BY <1>5, <2>1, <3>2
    <3> QED BY <1>8, <3>1, <3>3, <3>4, LeadsConcat
  <2> QED BY <2>2, <2>3
<1> QED BY <1>1, <1>8, <1>9, <1>10, OutputsSent

\* The other things the compositor may have to say.
LEMMA OneMore ==
    ASSUME ScreenInv, NEW e \in Notice, queue' = queue \o <<e>>
    PROVE  /\ queue' \in Seq(Notice)
           /\ \A W, R, ok : Follows(queue, W, R, ok) /\ (e \in W => e \in R) => Follows(queue', W, R, ok)
           /\ \A W, R, ok : e \in W \cap R => Follows(queue', W, R, ok)
           /\ \A W : Never(queue, W) /\ e \notin W => Never(queue', W)
<1>1. queue \in Seq(Notice) /\ <<e>> \in Seq(Notice) /\ Len(<<e>>) = 1 /\ <<e>>[1] = e
  BY DEF ScreenInv, CompositorTypes
<1>2. queue' \in Seq(Notice)
  BY <1>1, ConcatElements
<1>3. \A i \in 1 .. Len(<<e>>) : <<e>>[i] = e
  BY <1>1
<1>4. ASSUME NEW W, NEW R, NEW ok, e \in W \cap R PROVE Follows(queue', W, R, ok)
  BY <1>1, <1>4, FollowsOne
<1>5. ASSUME NEW W, NEW R, NEW ok, Follows(queue, W, R, ok), e \notin W PROVE Follows(queue', W, R, ok)
  BY <1>1, <1>3, <1>5, FollowsKept
<1>6. ASSUME NEW W, Never(queue, W), e \notin W PROVE Never(queue', W)
  <2>1. Never(<<e>>, W)
    BY <1>3, <1>6 DEF Never
  <2> QED BY <1>1, <1>6, <2>1, NeverConcat
<1> QED BY <1>2, <1>4, <1>5, <1>6

LEMMA IntegerPreferred ==
    ASSUME ScreenParameters, ScreenInv, NEW s \in Scales, Screen!PreferInteger(s)
    PROVE  ScreenInv'
<1> DEFINE e == Screen!Event("preferred_buffer_scale", s)
<1>1. /\ integer' = s /\ queue' = queue \o <<e>>
      /\ UNCHANGED <<outputs, on, served>> /\ UNCHANGED <<fraction, managers, hover>> /\ UNCHANGED Program
  BY DEF Screen!PreferInteger, Screen!Send, Screen!Unchanged, Screen!scales, Screen!pointer, Screen!cursors, Program
<1>2. e \in PreferenceNotice /\ e \in Notice /\ e.type = "preferred_buffer_scale" /\ e.val = s
  BY Notices DEF Screen!Event, Notice
<1> HIDE DEF e
<1>3. queue' \in Seq(Notice)
  BY <1>1, <1>2, OneMore
<1>4. CompositorTypes'
  BY <1>1, <1>3 DEF ScreenInv, CompositorTypes
<1>5. /\ \A m : e \notin Telling("manager_remove", m)
      /\ e \notin Told("preferred_scale") /\ e \notin Told("pointer")
      /\ e \in Told("preferred_buffer_scale") /\ e \in Telling("preferred_buffer_scale", s)
  BY <1>2 DEF Told, Telling
<1>6. IntegerFollows'
  BY <1>1, <1>2, <1>5, OneMore DEF IntegerFollows
<1>7. ExtensionFollows("fractional", fractional_scale)' /\ ExtensionFollows("viewporter", viewport)'
  BY <1>1, <1>2, <1>5, OneMore DEF ScreenInv, PreferencesAgree, ExtensionFollows, Program
<1>8. FractionFollows' /\ HoverFollows'
  BY <1>1, <1>2, <1>5, OneMore DEF ScreenInv, PreferencesAgree, CursorAgrees, FractionFollows, HoverFollows, Program
<1>9. PreferencesAgree'
  BY <1>1, <1>6, <1>7, <1>8 DEF ScreenInv, PreferencesAgree, Program
<1> QED BY <1>1, <1>2, <1>4, <1>8, <1>9, OtherSent

LEMMA FractionPreferred ==
    ASSUME ScreenParameters, ScreenInv, NEW f \in Fractions, Screen!PreferFraction(f)
    PROVE  ScreenInv'
<1> DEFINE e == Screen!Event("preferred_scale", f)
<1>1. /\ fraction' = f /\ queue' = queue \o <<e>>
      /\ UNCHANGED <<outputs, on, served>> /\ UNCHANGED <<integer, managers, hover>> /\ UNCHANGED Program
  BY DEF Screen!PreferFraction, Screen!Send, Screen!Unchanged, Screen!scales, Screen!pointer, Screen!cursors, Program
<1>2. e \in PreferenceNotice /\ e \in Notice /\ e.type = "preferred_scale" /\ e.val = f
  BY Notices DEF Screen!Event, Notice
<1> HIDE DEF e
<1>3. queue' \in Seq(Notice)
  BY <1>1, <1>2, OneMore
<1>4. CompositorTypes'
  BY <1>1, <1>3 DEF ScreenInv, CompositorTypes
<1>5. /\ \A m : e \notin Telling("manager_remove", m)
      /\ e \notin Told("preferred_buffer_scale") /\ e \notin Told("pointer")
      /\ e \in Told("preferred_scale") /\ e \in Telling("preferred_scale", f)
  BY <1>2 DEF Told, Telling
<1>6. FractionFollows'
  BY <1>1, <1>2, <1>5, OneMore DEF FractionFollows
<1>7. ExtensionFollows("fractional", fractional_scale)' /\ ExtensionFollows("viewporter", viewport)'
  BY <1>1, <1>2, <1>5, OneMore DEF ScreenInv, PreferencesAgree, ExtensionFollows, Program
<1>8. IntegerFollows' /\ HoverFollows'
  BY <1>1, <1>2, <1>5, OneMore DEF ScreenInv, PreferencesAgree, CursorAgrees, IntegerFollows, HoverFollows, Program
<1>9. PreferencesAgree'
  BY <1>1, <1>6, <1>7, <1>8 DEF ScreenInv, PreferencesAgree, Program
<1> QED BY <1>1, <1>2, <1>4, <1>8, <1>9, OtherSent

LEMMA ManagerWithdrawn ==
    ASSUME ScreenParameters, ScreenInv, NEW m \in Extensions, Screen!Withdraw(m)
    PROVE  ScreenInv'
<1> DEFINE e == Screen!Event("manager_remove", m)
<1>1. /\ managers' = managers \ {m} /\ queue' = queue \o <<e>>
      /\ UNCHANGED <<outputs, on, served>> /\ UNCHANGED <<integer, fraction, hover>> /\ UNCHANGED Program
  BY DEF Screen!Withdraw, Screen!Send, Screen!Unchanged, Screen!scales, Screen!pointer, Screen!cursors, Program
<1>2. e \in PreferenceNotice /\ e \in Notice /\ e.type = "manager_remove" /\ e.val = m
  BY Notices DEF Screen!Event, Notice
<1> HIDE DEF e
<1>3. queue' \in Seq(Notice)
  BY <1>1, <1>2, OneMore
<1>4. CompositorTypes'
  BY <1>1, <1>3 DEF ScreenInv, CompositorTypes
<1>5. /\ \A n : n # m => e \notin Telling("manager_remove", n)
      /\ e \in Telling("manager_remove", m)
      /\ e \notin Told("preferred_scale") /\ e \notin Told("pointer") /\ e \notin Told("preferred_buffer_scale")
  BY <1>2 DEF Told, Telling
<1>6. ExtensionFollows("fractional", fractional_scale)'
  BY <1>1, <1>2, <1>5, OneMore DEF ScreenInv, PreferencesAgree, ExtensionFollows, Program
<1>7. ExtensionFollows("viewporter", viewport)'
  BY <1>1, <1>2, <1>5, OneMore DEF ScreenInv, PreferencesAgree, ExtensionFollows, Program
<1>8. IntegerFollows' /\ HoverFollows' /\ FractionFollows'
  BY <1>1, <1>2, <1>5, OneMore
     DEF ScreenInv, PreferencesAgree, CursorAgrees, IntegerFollows, HoverFollows, FractionFollows, Program
<1>9. PreferencesAgree'
  BY <1>1, <1>6, <1>7, <1>8 DEF ScreenInv, PreferencesAgree, Program
<1> QED BY <1>1, <1>2, <1>4, <1>8, <1>9, OtherSent

LEMMA PointerCrossed ==
    ASSUME ScreenParameters, ScreenInv, Screen!MovePointer
    PROVE  ScreenInv'
<1> DEFINE e == Screen!Event("pointer", ~hover)
<1>1. /\ hover' = ~hover /\ queue' = queue \o <<e>>
      /\ UNCHANGED <<outputs, on, served>> /\ UNCHANGED <<integer, fraction, managers>> /\ UNCHANGED Program
  BY DEF Screen!MovePointer, Screen!Send, Screen!Unchanged, Screen!scales, Screen!pointer, Screen!cursors, Program
<1>2. e \in PointerNotice /\ e \in Notice /\ e.type = "pointer" /\ e.val = hover'
  <2>1. (~hover) \in BOOLEAN
    OBVIOUS
  <2> QED BY <1>1, <2>1, Notices DEF Screen!Event, Notice
<1> HIDE DEF e
<1>3. queue' \in Seq(Notice)
  BY <1>1, <1>2, OneMore
<1>4. CompositorTypes'
  <2>1. hover' \in BOOLEAN
    BY <1>1
  <2> QED BY <1>1, <1>3, <2>1 DEF ScreenInv, CompositorTypes
<1>5. /\ \A m : e \notin Telling("manager_remove", m)
      /\ e \notin Told("preferred_buffer_scale") /\ e \notin Told("preferred_scale")
      /\ e \in Told("pointer") /\ e \in Telling("pointer", hover')
  BY <1>2 DEF Told, Telling
<1>6. HoverFollows'
  BY <1>1, <1>2, <1>5, OneMore DEF HoverFollows
<1>7. ExtensionFollows("fractional", fractional_scale)' /\ ExtensionFollows("viewporter", viewport)'
  BY <1>1, <1>2, <1>5, OneMore DEF ScreenInv, PreferencesAgree, ExtensionFollows, Program
<1>8. IntegerFollows' /\ FractionFollows'
  BY <1>1, <1>2, <1>5, OneMore DEF ScreenInv, PreferencesAgree, CursorAgrees, IntegerFollows, FractionFollows, Program
<1>9. PreferencesAgree'
  BY <1>1, <1>7, <1>8 DEF ScreenInv, PreferencesAgree, Program
<1> QED BY <1>1, <1>2, <1>4, <1>6, <1>9, OtherSent
--------------------------------------------------------------------------------
\* What the program does.
LEMMA CursorShown ==
    ASSUME ScreenParameters, ScreenInv, Screen!mfb_show_cursor
    PROVE  ScreenInv'
<1>1. /\ is_cursor_visible' = ~is_cursor_visible /\ Screen!refresh_cursor_surface
      /\ UNCHANGED <<pointer_serial_valid, shm, version>> /\ UNCHANGED <<outputs, on, served, integer, fraction, managers>>
      /\ UNCHANGED <<hover, queue, outs, crowded>>
      /\ UNCHANGED <<integer_output_scale, surface_preferred_scale, preferred_scale_120, fractional_scale, viewport>>
  BY DEF Screen!mfb_show_cursor, Screen!scales
<1>2. CompositorTypes' /\ TableTypes' /\ ScaleTypes'
  BY <1>1 DEF ScreenInv, CompositorTypes, TableTypes, ScaleTypes
<1>3. PointerTypes'
  <2>1. (~is_cursor_visible) \in BOOLEAN
    OBVIOUS
  <2> QED BY <1>1, <2>1 DEF ScreenInv, PointerTypes
<1>4. ThemeTypes' /\ CursorIsFresh' /\ Screen!CursorIsLegal'
  BY <1>1, <1>2, Refreshed DEF ScreenInv, CursorAgrees
<1>5. TableAgrees' /\ PreferencesAgree' /\ HoverFollows'
  BY <1>1 DEF ScreenInv, TableAgrees, PreferencesAgree, CursorAgrees, ScaleIsLargest, OneRowEach, RowsLead, Wanted,
     ExtensionFollows, IntegerFollows, FractionFollows, HoverFollows
<1> QED BY <1>2, <1>3, <1>4, <1>5 DEF ScreenInv, CursorAgrees

\* An event is read: what follows from it, and what the rest of the queue still leads to.
Reading(e) ==
    /\ queue # <<>> /\ queue' = Tail(queue) /\ e = Head(queue)
    /\ UNCHANGED <<outputs, on, served, integer, fraction, managers, hover, version>>

LEMMA Read ==
    ASSUME ScreenInv, NEW e, Reading(e)
    PROVE  /\ CompositorTypes' /\ e \in Notice
           /\ \A W, R, ok, after :
                 Follows(queue, W, R, ok) /\ (e \notin W /\ ok => after) /\ (e \in W \cap R => after) =>
                     Follows(queue', W, R, after)
           /\ \A W : Never(queue, W) => e \notin W /\ Never(queue', W)
<1>1. queue \in Seq(Notice) /\ queue # <<>> /\ queue' = Tail(queue) /\ e = Head(queue)
  BY DEF ScreenInv, CompositorTypes, Reading
<1>2. e \in Notice /\ queue' \in Seq(Notice)
  BY <1>1, TailElements
<1>3. CompositorTypes'
  BY <1>2 DEF ScreenInv, CompositorTypes, Reading
<1>4. ASSUME NEW W, NEW R, NEW ok, NEW after,
             Follows(queue, W, R, ok), e \notin W /\ ok => after, e \in W \cap R => after
      PROVE  Follows(queue', W, R, after)
  BY <1>1, <1>4, FollowsTail
<1>5. ASSUME NEW W, Never(queue, W) PROVE e \notin W /\ Never(queue', W)
  BY <1>1, <1>5, NeverTail
<1> QED BY <1>2, <1>3, <1>4, <1>5

LEMMA RowsLeave ==
    ASSUME ScreenInv, NEW e, Reading(e), NEW id \in Ids, RowsLead(id)
    PROVE  \E c \in SUBSET Entry :
               <<e, Rows(outs, id), c>> \in RowsStep(id) /\ Leads(queue', RowsStep(id), SUBSET Entry, c, Wanted(id)')
<1>1. queue \in Seq(Notice) /\ queue # <<>> /\ queue' = Tail(queue) /\ e = Head(queue)
  BY DEF ScreenInv, CompositorTypes, Reading
<1>2. PICK c \in SUBSET Entry :
          <<e, Rows(outs, id), c>> \in RowsStep(id) /\ Leads(queue', RowsStep(id), SUBSET Entry, c, Wanted(id))
  <2> DEFINE T == RowsStep(id)
             V == SUBSET Entry
             now == Rows(outs, id)
             then == Wanted(id)
  <2>1. Leads(queue, T, V, now, then) /\ queue # <<>> /\ queue \in Seq(Notice)
    BY <1>1 DEF RowsLead
  <2> HIDE DEF T, V, now, then
  <2>2. \E c \in V : <<Head(queue), now, c>> \in T /\ Leads(Tail(queue), T, V, c, then)
    BY <2>1, LeadsTail
  <2>3. \E c \in V : <<e, now, c>> \in T /\ Leads(queue', T, V, c, then)
    BY <1>1, <2>2
  <2> QED BY <2>3 DEF T, V, now, then
<1>3. Wanted(id)' = Wanted(id)
  BY DEF Reading, Wanted
<1> QED BY <1>2, <1>3

LEMMA RowsRead ==
    ASSUME ScreenInv, NEW e, Reading(e), NEW id \in Ids, RowsLead(id),
           \A c : <<e, Rows(outs, id), c>> \in RowsStep(id) => c = Rows(outs, id)'
    PROVE  RowsLead(id)'
<1>1. PICK c \in SUBSET Entry :
          <<e, Rows(outs, id), c>> \in RowsStep(id) /\ Leads(queue', RowsStep(id), SUBSET Entry, c, Wanted(id)')
  BY RowsLeave
<1>2. c = Rows(outs, id)'
  BY <1>1
<1> QED BY <1>1, <1>2 DEF RowsLead

LEMMA StepGives ==
    ASSUME NEW id \in Ids, NEW e, NEW S, NEW c, <<e, S, c>> \in RowsStep(id)
    PROVE  /\ e \notin OutputNotice \/ e.val # id => c = S
           /\ e \in OutputNotice /\ e.val = id =>
                 /\ e.type = "global" => S = {} /\ c = {New(id)}
                 /\ e.type = "scale" => c = Rescaled(S, e.scale)
                 /\ e.type = "enter" => c = Marked(S, TRUE)
                 /\ e.type = "leave" => c = Marked(S, FALSE)
                 /\ e.type = "global_remove" => c = {}
BY DEF RowsStep

\* A row is in the table, or the table has none of its output.
LEMMA StepMarks ==
    ASSUME NEW id \in Ids, NEW e \in OutputNotice, e.val = id, NEW S, NEW c, <<e, S, c>> \in RowsStep(id),
           NEW is \in BOOLEAN, (e.type = "enter" /\ is) \/ (e.type = "leave" /\ ~is)
    PROVE  c = Marked(S, is)
<1>1. CASE e.type = "enter" /\ is
  <2>1. c = Marked(S, TRUE)
    BY <1>1 DEF RowsStep
  <2>2. is = TRUE
    BY <1>1
  <2> QED BY <2>1, <2>2, Zenon
<1>2. CASE e.type = "leave" /\ ~is
  <2>1. c = Marked(S, FALSE)
    BY <1>2 DEF RowsStep
  <2>2. is = FALSE
    BY <1>2
  <2> QED BY <2>1, <2>2, Zenon
<1> QED BY <1>1, <1>2

LEMMA RowsNone ==
    ASSUME NEW list, NEW id
    PROVE  Rows(list, id) = {} <=> \A j \in 1 .. Len(list) : list[j].id # id
BY DEF Rows

\* An event about an output.
LEMMA TableRead ==
    ASSUME ScreenParameters, ScreenInv, NEW e \in OutputNotice, Reading(e),
           UNCHANGED <<surface_preferred_scale, preferred_scale_120, fractional_scale, viewport, shm>>,
           UNCHANGED <<pointer_serial_valid, is_cursor_visible>>,
           TableTypes', ScaleIsLargest',
           Screen!refresh_cursor_surface \/ UNCHANGED <<integer_output_scale, themes, cursor_theme, cursor>>,
           ~crowded' => OneRowEach' /\ \A id \in Ids : RowsLead(id)'
    PROVE  ScreenInv'
<1>1. /\ \A m : e \notin Telling("manager_remove", m)
      /\ e \notin Told("preferred_scale") /\ e \notin Told("pointer") /\ e \notin Told("preferred_buffer_scale")
  BY DEF Told, Telling, OutputNotice
<1>2. CompositorTypes'
  BY Read
<1>3. integer_output_scale' \in Nat
  <2>1. outs' \in Seq(Entry)
    BY DEF TableTypes
  <2>2. Entered(outs') \in SUBSET Nat /\ IsFiniteSet(Entered(outs'))
    BY <2>1, EnteredOf
  <2>3. Screen!Largest(Entered(outs')) \in Nat
    BY <2>2, LargestOf
  <2>4. integer_output_scale' = Screen!Largest(Entered(outs'))
    BY DEF ScaleIsLargest, Screen!Largest, Screen!Max, Entered
  <2> QED BY <2>3, <2>4
<1>4. version' = version /\ ScaleTypes'
  BY <1>3 DEF ScreenInv, ScaleTypes, Reading
<1>5. PointerTypes'
  BY DEF ScreenInv, PointerTypes
<1>6. ThemeTypes' /\ CursorIsFresh' /\ Screen!CursorIsLegal'
  <2>1. CASE Screen!refresh_cursor_surface
    BY <1>4, <2>1, Refreshed DEF ScreenInv, CursorAgrees
  <2>2. CASE UNCHANGED <<integer_output_scale, themes, cursor_theme, cursor>>
    <3>1. Screen!get_cursor_buffer_scale' = Screen!get_cursor_buffer_scale
      BY <1>4, <2>2 DEF Screen!get_cursor_buffer_scale, Screen!resolve_surface_scale
    <3> QED BY <2>2, <3>1 DEF ScreenInv, ThemeTypes, CursorAgrees, CursorIsFresh, Screen!CursorIsLegal, Screen!Loadable
  <2> QED BY <2>1, <2>2
<1>7. /\ UNCHANGED <<managers, integer, fraction, hover>>
      /\ \A W, R, ok : Follows(queue, W, R, ok) /\ e \notin W => Follows(queue', W, R, ok)
      /\ \A W : Never(queue, W) => Never(queue', W)
  BY Read DEF Reading
<1>8. ExtensionFollows("fractional", fractional_scale)' /\ ExtensionFollows("viewporter", viewport)'
  BY <1>1, <1>7 DEF ScreenInv, PreferencesAgree, ExtensionFollows
<1>9. IntegerFollows' /\ FractionFollows' /\ HoverFollows' /\ (~fractional_scale' => preferred_scale_120' = 0)
  BY <1>1, <1>7 DEF ScreenInv, PreferencesAgree, CursorAgrees, IntegerFollows, FractionFollows, HoverFollows
<1> QED BY <1>2, <1>4, <1>5, <1>6, <1>8, <1>9 DEF ScreenInv, TableAgrees, PreferencesAgree, CursorAgrees

\* One row of the table is changed.
LEMMA RowChanged ==
    ASSUME ScreenParameters, TableTypes, ScaleIsLargest, crowded' = crowded,
           NEW i \in 1 .. Len(outs), NEW r \in Entry, r.id = outs[i].id, outs' = [outs EXCEPT ![i] = r],
           \/ integer_output_scale' = Screen!Largest(Entered(outs'))
           \/ integer_output_scale' = integer_output_scale /\ ~r.entered /\ ~outs[i].entered
    PROVE  /\ TableTypes' /\ ScaleIsLargest'
           /\ OneRowEach => /\ OneRowEach' /\ Rows(outs, r.id) = {outs[i]}
                            /\ \A x : Rows(outs, x)' = IF x = r.id THEN {r} ELSE Rows(outs, x)
<1>1. outs \in Seq(Entry) /\ Len(outs) \in Nat /\ \A j \in 1 .. Len(outs) : outs[j] \in Entry
  BY ElementOfSeq, LenProperties DEF TableTypes
<1>2. /\ outs' \in Seq(Entry) /\ Len(outs') = Len(outs)
      /\ \A j \in 1 .. Len(outs) : outs'[j] = IF j = i THEN r ELSE outs[j]
  BY <1>1
<1>3. TableTypes'
  BY <1>2 DEF TableTypes
<1>4. ScaleIsLargest'
  <2>1. CASE integer_output_scale' = Screen!Largest(Entered(outs'))
    BY <2>1 DEF ScaleIsLargest, Screen!Largest, Screen!Max, Entered
  <2>2. CASE integer_output_scale' = integer_output_scale /\ ~r.entered /\ ~outs[i].entered
    <3>1. {j \in 1 .. Len(outs') : outs'[j].entered} = {j \in 1 .. Len(outs) : outs[j].entered}
      BY <1>2, <2>2
    <3>2. \A j \in {k \in 1 .. Len(outs) : outs[k].entered} : outs'[j] = outs[j]
      BY <1>2, <2>2
    <3>3. Entered(outs)' = Entered(outs)
      BY <3>1, <3>2 DEF Entered
    <3> QED BY <2>2, <3>3 DEF ScaleIsLargest, Screen!Largest, Screen!Max
  <2> QED BY <2>1, <2>2
<1>5. ASSUME OneRowEach
      PROVE  /\ OneRowEach' /\ Rows(outs, r.id) = {outs[i]}
             /\ \A x : Rows(outs, x)' = IF x = r.id THEN {r} ELSE Rows(outs, x)
  <2>1. \A j \in 1 .. Len(outs) : outs'[j].id = outs[j].id
    BY <1>2
  <2>2. OneRowEach'
    BY <1>2, <1>5, <2>1 DEF OneRowEach
  <2>3. \A j \in 1 .. Len(outs) : outs[j].id = r.id => j = i
    BY <1>5 DEF OneRowEach
  <2>4. Rows(outs, r.id) = {outs[i]}
    BY <2>3 DEF Rows
  <2>5. \A x : Rows(outs', x) = IF x = r.id THEN {r} ELSE Rows(outs, x)
    <3>1. ASSUME NEW x PROVE Rows(outs', x) = IF x = r.id THEN {r} ELSE Rows(outs, x)
      <4>1. CASE x = r.id
        BY <1>1, <1>2, <2>3, <4>1 DEF Rows
      <4>2. CASE x # r.id
        BY <1>1, <1>2, <4>2 DEF Rows
      <4> QED BY <4>1, <4>2
    <3> QED BY <3>1
  <2>6. \A x : Rows(outs, x)' = Rows(outs', x)
    BY DEF Rows
  <2> QED BY <2>2, <2>4, <2>5, <2>6
<1> QED BY <1>3, <1>4, <1>5

LEMMA TableKept ==
    ASSUME TableTypes, ScaleIsLargest, UNCHANGED <<outs, crowded, integer_output_scale>>
    PROVE  TableTypes' /\ ScaleIsLargest' /\ (OneRowEach => OneRowEach') /\ \A x : Rows(outs, x)' = Rows(outs, x)
BY DEF TableTypes, ScaleIsLargest, OneRowEach, Rows, Screen!Largest, Screen!Max, Entered

\* Of an output that is not in the table nothing is remembered.
LEMMA NoneChanged ==
    ASSUME NEW S, S = {}, NEW s
    PROVE  Rescaled(S, s) = {} /\ Marked(S, s) = {}
BY DEF Rescaled, Marked

LEMMA ScaleRead ==
    ASSUME ScreenParameters, ScreenInv, NEW e \in OutputNotice, e.type = "scale", crowded' = crowded, Screen!output_scale(e)
    PROVE  /\ TableTypes' /\ ScaleIsLargest'
           /\ Screen!refresh_cursor_surface \/ UNCHANGED <<integer_output_scale, themes, cursor_theme, cursor>>
           /\ OneRowEach => /\ OneRowEach'
                            /\ \A x : Rows(outs, x)' = IF x = e.val THEN Rescaled(Rows(outs, e.val), e.scale) ELSE Rows(outs, x)
<1> DEFINE index == Screen!find_output_index(e.val)
           i == Screen!Max(index)
<1>0. e \in Notice /\ e.val \in Ids /\ e.scale \in Scales /\ TableTypes /\ ScaleIsLargest
  BY NoticeTypes DEF Notice, ScreenInv, TableAgrees
<1>1. CASE index = {}
  <2>1. UNCHANGED <<outs, crowded, integer_output_scale, themes, cursor_theme, cursor>>
    BY <1>1 DEF Screen!output_scale, Screen!ChangeOutput, Screen!cursors
  <2>2. Rows(outs, e.val) = {}
    <3>1. \A j \in 1 .. Len(outs) : outs[j].id # e.val
      BY <1>1 DEF Screen!find_output_index
    <3> QED BY <3>1, RowsNone
  <2> QED BY <1>0, <2>1, <2>2, TableKept, NoneChanged
<1>2. CASE index # {}
  <2>1. i \in 1 .. Len(outs) /\ outs[i].id = e.val
    BY <1>0, <1>2, IndexOf DEF TableTypes
  <2>2. /\ outs' = [outs EXCEPT ![i]["scale"] = e.scale]
        /\ IF outs[i].entered THEN Screen!recompute_output_scale(outs') /\ Screen!refresh_cursor_surface
                              ELSE UNCHANGED <<integer_output_scale, themes, cursor_theme, cursor>>
    BY <1>2 DEF Screen!output_scale, Screen!ChangeOutput, Screen!cursors
  <2> HIDE DEF i, index
  <2> DEFINE r == [outs[i] EXCEPT !.scale = e.scale]
  <2>3. outs[i] \in Entry
    BY <1>0, <2>1, ElementOfSeq DEF TableTypes
  <2>4. r \in Entry /\ r.id = e.val /\ r.entered = outs[i].entered
    BY <1>0, <2>1, <2>3 DEF Entry
  <2>5. outs' = [outs EXCEPT ![i] = r]
    <3>1. outs \in Seq(Entry)
      BY <1>0 DEF TableTypes
    <3> QED BY <2>1, <2>2, <3>1 DEF Entry
  <2> HIDE DEF r
  <2>6. \/ integer_output_scale' = Screen!Largest(Entered(outs'))
        \/ integer_output_scale' = integer_output_scale /\ ~r.entered /\ ~outs[i].entered
    <3>1. Screen!recompute_output_scale(outs') => integer_output_scale' = Screen!Largest(Entered(outs'))
      BY DEF Screen!recompute_output_scale, Entered
    <3> QED BY <2>2, <2>4, <3>1
  <2>7. /\ TableTypes' /\ ScaleIsLargest'
        /\ OneRowEach => /\ OneRowEach' /\ Rows(outs, e.val) = {outs[i]}
                         /\ \A x : Rows(outs, x)' = IF x = e.val THEN {r} ELSE Rows(outs, x)
    <3>1. r.id = outs[i].id
      BY <2>1, <2>4
    <3>2. /\ TableTypes' /\ ScaleIsLargest'
          /\ OneRowEach => /\ OneRowEach' /\ Rows(outs, r.id) = {outs[i]}
                           /\ \A x : Rows(outs, x)' = IF x = r.id THEN {r} ELSE Rows(outs, x)
      BY <1>0, <2>1, <2>4, <2>5, <2>6, <3>1, RowChanged
    <3> QED BY <2>4, <3>2
  <2>8. Rescaled({outs[i]}, e.scale) = {r}
    BY DEF Rescaled, r
  <2> QED BY <2>2, <2>7, <2>8
<1> QED BY <1>1, <1>2

LEMMA EnteredRead ==
    ASSUME ScreenParameters, ScreenInv, NEW e \in OutputNotice, NEW is \in BOOLEAN, crowded' = crowded,
           Screen!ChangeOutput(e.val, "entered", is)
    PROVE  /\ TableTypes' /\ ScaleIsLargest'
           /\ Screen!refresh_cursor_surface \/ UNCHANGED <<integer_output_scale, themes, cursor_theme, cursor>>
           /\ OneRowEach => /\ OneRowEach'
                            /\ \A x : Rows(outs, x)' = IF x = e.val THEN Marked(Rows(outs, e.val), is) ELSE Rows(outs, x)
<1> DEFINE index == Screen!find_output_index(e.val)
           i == Screen!Max(index)
<1>0. e \in Notice /\ e.val \in Ids /\ TableTypes /\ ScaleIsLargest
  BY NoticeTypes DEF Notice, ScreenInv, TableAgrees
<1>1. CASE index = {}
  <2>1. UNCHANGED <<outs, crowded, integer_output_scale, themes, cursor_theme, cursor>>
    BY <1>1 DEF Screen!ChangeOutput, Screen!cursors
  <2>2. Rows(outs, e.val) = {}
    <3>1. \A j \in 1 .. Len(outs) : outs[j].id # e.val
      BY <1>1 DEF Screen!find_output_index
    <3> QED BY <3>1, RowsNone
  <2> QED BY <1>0, <2>1, <2>2, TableKept, NoneChanged
<1>2. CASE index # {}
  <2>1. i \in 1 .. Len(outs) /\ outs[i].id = e.val
    BY <1>0, <1>2, IndexOf DEF TableTypes
  <2>2. /\ outs' = [outs EXCEPT ![i]["entered"] = is]
        /\ Screen!recompute_output_scale(outs') /\ Screen!refresh_cursor_surface
    BY <1>2 DEF Screen!ChangeOutput, Screen!cursors
  <2> HIDE DEF i, index
  <2> DEFINE r == [outs[i] EXCEPT !.entered = is]
  <2>3. outs[i] \in Entry
    BY <1>0, <2>1, ElementOfSeq DEF TableTypes
  <2>4. r \in Entry /\ r.id = e.val
    BY <1>0, <2>1, <2>3 DEF Entry
  <2>5. outs' = [outs EXCEPT ![i] = r]
    <3>1. outs \in Seq(Entry)
      BY <1>0 DEF TableTypes
    <3> QED BY <2>1, <2>2, <3>1 DEF Entry
  <2> HIDE DEF r
  <2>6. integer_output_scale' = Screen!Largest(Entered(outs'))
    BY <2>2 DEF Screen!recompute_output_scale, Entered
  <2>7. /\ TableTypes' /\ ScaleIsLargest'
        /\ OneRowEach => /\ OneRowEach' /\ Rows(outs, e.val) = {outs[i]}
                         /\ \A x : Rows(outs, x)' = IF x = e.val THEN {r} ELSE Rows(outs, x)
    <3>1. r.id = outs[i].id
      BY <2>1, <2>4
    <3>2. /\ TableTypes' /\ ScaleIsLargest'
          /\ OneRowEach => /\ OneRowEach' /\ Rows(outs, r.id) = {outs[i]}
                           /\ \A x : Rows(outs, x)' = IF x = r.id THEN {r} ELSE Rows(outs, x)
      BY <1>0, <2>1, <2>4, <2>5, <2>6, <3>1, RowChanged
    <3> QED BY <2>4, <3>2
  <2>8. Marked({outs[i]}, is) = {r}
    BY DEF Marked, r
  <2> QED BY <2>2, <2>7, <2>8
<1> QED BY <1>1, <1>2

LEMMA GlobalRead ==
    ASSUME ScreenParameters, ScreenInv, NEW e \in OutputNotice, Screen!registry_global(e)
    PROVE  /\ TableTypes' /\ ScaleIsLargest'
           /\ UNCHANGED <<integer_output_scale, themes, cursor_theme, cursor>>
           /\ ~crowded' => ~crowded
           /\ ~crowded' /\ OneRowEach /\ Rows(outs, e.val) = {} =>
                  /\ OneRowEach'
                  /\ \A x : Rows(outs, x)' = IF x = e.val THEN {New(e.val)} ELSE Rows(outs, x)
<1> DEFINE r == New(e.val)
<1>0. e.val \in Ids /\ TableTypes /\ ScaleIsLargest
  BY NoticeTypes DEF Notice, ScreenInv, TableAgrees
<1>1. UNCHANGED <<integer_output_scale, themes, cursor_theme, cursor>>
  BY DEF Screen!registry_global, Screen!cursors
<1>2. CASE Len(outs) < MaxOutputs
  <2>1. outs' = Append(outs, r) /\ crowded' = crowded
    BY <1>2 DEF Screen!registry_global, New
  <2>2. r \in Entry /\ ~r.entered /\ r.id = e.val
    BY <1>0 DEF New, Entry
  <2> HIDE DEF r
  <2>3. outs \in Seq(Entry) /\ Len(outs) \in Nat /\ MaxOutputs \in Nat
    BY <1>0, LenProperties DEF TableTypes, ScreenParameters
  <2>4. /\ outs' \in Seq(Entry) /\ Len(outs') = Len(outs) + 1 /\ outs'[Len(outs) + 1] = r
        /\ \A j \in 1 .. Len(outs) : outs'[j] = outs[j]
        /\ \A x : Rows(outs', x) = Rows(outs, x) \cup (IF x = r.id THEN {r} ELSE {})
    BY <2>1, <2>2, <2>3, RowsAdded
  <2>5. TableTypes'
    BY <1>0, <1>2, <2>1, <2>3, <2>4 DEF TableTypes
  <2>6. ScaleIsLargest'
    <3>1. {j \in 1 .. Len(outs') : outs'[j].entered} = {j \in 1 .. Len(outs) : outs[j].entered}
      <4>1. 1 .. Len(outs') = (1 .. Len(outs)) \cup {Len(outs) + 1}
        BY <2>3, <2>4
      <4> QED BY <2>2, <2>4, <4>1
    <3>2. Entered(outs)' = Entered(outs)
      BY <2>4, <3>1 DEF Entered
    <3> QED BY <1>0, <1>1, <3>2 DEF ScaleIsLargest, Screen!Largest, Screen!Max
  <2>7. ASSUME OneRowEach, Rows(outs, e.val) = {}
        PROVE  /\ OneRowEach'
               /\ \A x : Rows(outs, x)' = IF x = e.val THEN {r} ELSE Rows(outs, x)
    <3>1. \A j \in 1 .. Len(outs) : outs[j].id # e.val
      BY <2>7, RowsNone
    <3>2. OneRowEach'
      <4> SUFFICES ASSUME NEW j \in 1 .. Len(outs'), NEW k \in 1 .. Len(outs'), outs'[j].id = outs'[k].id PROVE j = k
        BY DEF OneRowEach
      <4>1. CASE j \in 1 .. Len(outs) /\ k \in 1 .. Len(outs)
        BY <2>4, <2>7, <4>1 DEF OneRowEach
      <4>2. CASE j \in 1 .. Len(outs) /\ k \notin 1 .. Len(outs)
        <5>1. k = Len(outs) + 1
          BY <2>3, <2>4, <4>2
        <5> QED BY <2>2, <2>4, <3>1, <4>2, <5>1
      <4>3. CASE j \notin 1 .. Len(outs) /\ k \in 1 .. Len(outs)
        <5>1. j = Len(outs) + 1
          BY <2>3, <2>4, <4>3
        <5> QED BY <2>2, <2>4, <3>1, <4>3, <5>1
      <4>4. CASE j \notin 1 .. Len(outs) /\ k \notin 1 .. Len(outs)
        BY <2>3, <2>4, <4>4
      <4> QED BY <4>1, <4>2, <4>3, <4>4
    <3>3. ASSUME NEW x PROVE Rows(outs, x)' = IF x = e.val THEN {r} ELSE Rows(outs, x)
      <4>1. Rows(outs, x)' = Rows(outs', x)
        BY DEF Rows
      <4>2. Rows(outs', x) = Rows(outs, x) \cup (IF x = e.val THEN {r} ELSE {})
        BY <2>2, <2>4
      <4>3. CASE x = e.val
        BY <2>7, <4>1, <4>2, <4>3
      <4>4. CASE x # e.val
        BY <4>1, <4>2, <4>4
      <4> QED BY <4>3, <4>4
    <3> QED BY <3>2, <3>3
  <2> QED BY <1>1, <2>1, <2>5, <2>6, <2>7 DEF r
<1>3. CASE ~(Len(outs) < MaxOutputs)
  <2>1. crowded' = TRUE /\ outs' = outs
    BY <1>3 DEF Screen!registry_global
  <2>2. TableTypes'
    BY <1>0, <2>1 DEF TableTypes
  <2>3. ScaleIsLargest'
    BY <1>0, <1>1, <2>1 DEF ScaleIsLargest, Screen!Largest, Screen!Max, Entered
  <2> QED BY <1>1, <2>1, <2>2, <2>3
<1> QED BY <1>2, <1>3

LEMMA GlobalRemoveRead ==
    ASSUME ScreenParameters, ScreenInv, NEW e \in OutputNotice, crowded' = crowded, Screen!registry_global_remove(e)
    PROVE  /\ TableTypes' /\ ScaleIsLargest'
           /\ Screen!refresh_cursor_surface \/ UNCHANGED <<integer_output_scale, themes, cursor_theme, cursor>>
           /\ OneRowEach => /\ OneRowEach'
                            /\ \A x : Rows(outs, x)' = IF x = e.val THEN {} ELSE Rows(outs, x)
<1> DEFINE index == Screen!find_output_index(e.val)
           i == Screen!Max(index)
<1>0. e.val \in Ids /\ TableTypes /\ ScaleIsLargest
  BY NoticeTypes DEF Notice, ScreenInv, TableAgrees
<1>1. CASE index = {}
  <2>1. UNCHANGED <<outs, crowded, integer_output_scale, themes, cursor_theme, cursor>>
    BY <1>1 DEF Screen!registry_global_remove, Screen!cursors
  <2>2. Rows(outs, e.val) = {}
    <3>1. \A j \in 1 .. Len(outs) : outs[j].id # e.val
      BY <1>1 DEF Screen!find_output_index
    <3> QED BY <3>1, RowsNone
  <2> QED BY <1>0, <2>1, <2>2, TableKept
<1>2. CASE index # {}
  <2>1. i \in 1 .. Len(outs) /\ outs[i].id = e.val
    BY <1>0, <1>2, IndexOf DEF TableTypes
  <2>2. /\ outs' = Screen!Compacted(i)
        /\ IF outs[i].entered THEN Screen!recompute_output_scale(outs') /\ Screen!refresh_cursor_surface
                              ELSE UNCHANGED <<integer_output_scale, themes, cursor_theme, cursor>>
    BY <1>2 DEF Screen!registry_global_remove, Screen!cursors
  <2> HIDE DEF i, index
  <2>3. outs \in Seq(Entry) /\ Len(outs) \in Nat /\ Len(outs) <= MaxOutputs /\ MaxOutputs \in Nat
    BY <1>0, LenProperties DEF TableTypes, ScreenParameters
  <2>4. /\ outs' \in Seq(Entry) /\ Len(outs') = Len(outs) - 1
        /\ \A j \in 1 .. Len(outs') : outs'[j] = outs[IF j = i THEN Len(outs) ELSE j]
        /\ \A j \in 1 .. Len(outs) : j # i => \E k \in 1 .. Len(outs') : outs'[k] = outs[j]
    BY <2>1, <2>2, <2>3, RowsCompacted
  <2>5. \A j \in 1 .. Len(outs') : \E k \in 1 .. Len(outs) : k # i /\ outs'[j] = outs[k]
    <3> SUFFICES ASSUME NEW j \in 1 .. Len(outs') PROVE \E k \in 1 .. Len(outs) : k # i /\ outs'[j] = outs[k]
      OBVIOUS
    <3>1. CASE j = i
      BY <2>1, <2>3, <2>4, <3>1
    <3>2. CASE j # i
      <4>1. outs'[j] = outs[j] /\ j \in 1 .. Len(outs)
        BY <2>3, <2>4, <3>2
      <4> QED BY <3>2, <4>1
    <3> QED BY <3>1, <3>2
  <2>6. TableTypes'
    BY <1>0, <2>3, <2>4 DEF TableTypes
  <2>7. ScaleIsLargest'
    <3>1. CASE outs[i].entered
      BY <2>2, <3>1 DEF Screen!recompute_output_scale, ScaleIsLargest, Screen!Largest, Screen!Max, Entered
    <3>2. CASE ~outs[i].entered
      <4>1. Entered(outs') \subseteq Entered(outs)
        BY <2>5 DEF Entered
      <4>2. Entered(outs) \subseteq Entered(outs')
        <5> SUFFICES ASSUME NEW j \in 1 .. Len(outs), outs[j].entered PROVE outs[j].scale \in Entered(outs')
          BY DEF Entered
        <5>1. PICK k \in 1 .. Len(outs') : outs'[k] = outs[j]
          BY <2>4, <3>2
        <5> QED BY <5>1 DEF Entered
      <4>3. Entered(outs)' = Entered(outs)
        BY <4>1, <4>2 DEF Entered
      <4> QED BY <1>0, <2>2, <3>2, <4>3 DEF ScaleIsLargest, Screen!Largest, Screen!Max
    <3> QED BY <3>1, <3>2
  <2>8. ASSUME OneRowEach
        PROVE  OneRowEach' /\ \A x : Rows(outs, x)' = IF x = e.val THEN {} ELSE Rows(outs, x)
    <3>1. OneRowEach'
      <4> SUFFICES ASSUME NEW j \in 1 .. Len(outs'), NEW k \in 1 .. Len(outs'), outs'[j].id = outs'[k].id PROVE j = k
        BY DEF OneRowEach
      <4> DEFINE at(n) == IF n = i THEN Len(outs) ELSE n
      <4>1. at(j) \in 1 .. Len(outs) /\ at(k) \in 1 .. Len(outs) /\ outs'[j] = outs[at(j)] /\ outs'[k] = outs[at(k)]
        BY <2>1, <2>3, <2>4
      <4>2. at(j) = at(k)
        <5> HIDE DEF at
        <5> QED BY <2>8, <4>1 DEF OneRowEach
      <4> QED BY <2>1, <2>3, <2>4, <4>2
    <3>2. \A j \in 1 .. Len(outs) : outs[j].id = e.val => j = i
      BY <2>1, <2>8 DEF OneRowEach
    <3>3. ASSUME NEW x PROVE Rows(outs, x)' = IF x = e.val THEN {} ELSE Rows(outs, x)
      <4>1. Rows(outs, x)' = Rows(outs', x)
        BY DEF Rows
      <4>2. CASE x = e.val
        <5>1. \A j \in 1 .. Len(outs') : outs'[j].id # e.val
          BY <2>5, <3>2
        <5> QED BY <4>1, <4>2, <5>1, RowsNone
      <4>3. CASE x # e.val
        <5>1. Rows(outs', x) \subseteq Rows(outs, x)
          BY <2>5 DEF Rows
        <5>2. Rows(outs, x) \subseteq Rows(outs', x)
          BY <2>1, <2>4, <4>3 DEF Rows
        <5> QED BY <4>1, <4>3, <5>1, <5>2
      <4> QED BY <4>2, <4>3
    <3> QED BY <3>1, <3>3
  <2> QED BY <2>2, <2>6, <2>7, <2>8
<1> QED BY <1>1, <1>2

LEMMA TablesHandled ==
    ASSUME ScreenParameters, ScreenInv, NEW e \in OutputNotice, Reading(e), Screen!Tables(e)
    PROVE  ScreenInv'
<1>1. /\ UNCHANGED <<surface_preferred_scale, preferred_scale_120, fractional_scale, viewport, shm>>
      /\ UNCHANGED <<pointer_serial_valid, is_cursor_visible>>
      /\ e.type # "global" => crowded' = crowded
  BY DEF Screen!Tables, Screen!pointer
<1>2. e.val \in Ids /\ e \in Notice /\ e.type \in {"scale", "enter", "leave", "global_remove", "global"}
  BY NoticeTypes DEF Notice, OutputNotice
<1>3. ASSUME TableTypes', ScaleIsLargest', ~crowded' => ~crowded,
             Screen!refresh_cursor_surface \/ UNCHANGED <<integer_output_scale, themes, cursor_theme, cursor>>,
             ~crowded' /\ OneRowEach /\ (e.type = "global" => Rows(outs, e.val) = {}) => OneRowEach',
             ~crowded' /\ OneRowEach =>
                 \A x \in Ids : \A c : <<e, Rows(outs, x), c>> \in RowsStep(x) => c = Rows(outs, x)'
      PROVE  ScreenInv'
  <2>1. ASSUME ~crowded' PROVE OneRowEach' /\ \A id \in Ids : RowsLead(id)'
    <3>1. OneRowEach /\ \A id \in Ids : RowsLead(id)
      BY <1>3, <2>1 DEF ScreenInv, TableAgrees
    <3>2. e.type = "global" => Rows(outs, e.val) = {}
      <4>1. PICK c : <<e, Rows(outs, e.val), c>> \in RowsStep(e.val)
        BY <1>2, <3>1, RowsLeave
      <4> QED BY <1>2, <4>1, StepGives
    <3>3. ASSUME NEW id \in Ids PROVE RowsLead(id)'
      BY <1>3, <2>1, <3>1, RowsRead
    <3> QED BY <1>3, <2>1, <3>1, <3>2, <3>3
  <2> QED BY <1>1, <1>3, <2>1, TableRead
<1>4. CASE e.type = "scale"
  <2>1. Screen!output_scale(e)
    BY <1>4 DEF Screen!Tables
  <2>2. /\ TableTypes' /\ ScaleIsLargest'
        /\ Screen!refresh_cursor_surface \/ UNCHANGED <<integer_output_scale, themes, cursor_theme, cursor>>
        /\ OneRowEach => /\ OneRowEach'
                         /\ \A x : Rows(outs, x)' = IF x = e.val THEN Rescaled(Rows(outs, e.val), e.scale) ELSE Rows(outs, x)
    BY <1>1, <1>4, <2>1, ScaleRead
  <2>3. \A x \in Ids : \A c : <<e, Rows(outs, x), c>> \in RowsStep(x) =>
                             c = IF x = e.val THEN Rescaled(Rows(outs, e.val), e.scale) ELSE Rows(outs, x)
    <3> SUFFICES ASSUME NEW x \in Ids, NEW c, <<e, Rows(outs, x), c>> \in RowsStep(x)
                 PROVE  c = IF x = e.val THEN Rescaled(Rows(outs, e.val), e.scale) ELSE Rows(outs, x)
      OBVIOUS
    <3>1. CASE x = e.val
      BY <1>4, <3>1 DEF RowsStep
    <3>2. CASE x # e.val
      BY <3>2, StepGives
    <3> QED BY <3>1, <3>2
  <2> QED BY <1>1, <1>3, <1>4, <2>2, <2>3
<1>5. ASSUME NEW is \in BOOLEAN, (e.type = "enter" /\ is) \/ (e.type = "leave" /\ ~is)
      PROVE  ScreenInv'
  <2>1. Screen!ChangeOutput(e.val, "entered", is)
    <3>1. CASE e.type = "enter" /\ is
      <4>1. Screen!ChangeOutput(e.val, "entered", TRUE)
        BY <3>1 DEF Screen!Tables, Screen!surface_enter
      <4>2. is = TRUE
        BY <3>1
      <4> QED BY <4>1, <4>2, Zenon
    <3>2. CASE e.type = "leave" /\ ~is
      <4>1. Screen!ChangeOutput(e.val, "entered", FALSE)
        BY <3>2 DEF Screen!Tables, Screen!surface_leave
      <4>2. is = FALSE
        BY <3>2
      <4> QED BY <4>1, <4>2, Zenon
    <3> QED BY <1>5, <3>1, <3>2
  <2>2. e.type # "global"
    BY <1>5
  <2>3. /\ TableTypes' /\ ScaleIsLargest'
        /\ Screen!refresh_cursor_surface \/ UNCHANGED <<integer_output_scale, themes, cursor_theme, cursor>>
        /\ OneRowEach => /\ OneRowEach'
                         /\ \A x : Rows(outs, x)' = IF x = e.val THEN Marked(Rows(outs, e.val), is) ELSE Rows(outs, x)
    BY <1>1, <2>1, <2>2, EnteredRead
  <2>4. \A x \in Ids : \A c : <<e, Rows(outs, x), c>> \in RowsStep(x) =>
                             c = IF x = e.val THEN Marked(Rows(outs, e.val), is) ELSE Rows(outs, x)
    <3> SUFFICES ASSUME NEW x \in Ids, NEW c, <<e, Rows(outs, x), c>> \in RowsStep(x)
                 PROVE  c = IF x = e.val THEN Marked(Rows(outs, e.val), is) ELSE Rows(outs, x)
      OBVIOUS
    <3>1. CASE x = e.val
      BY <1>5, <3>1, StepMarks
    <3>2. CASE x # e.val
      BY <3>2, StepGives
    <3> QED BY <3>1, <3>2
  <2> QED BY <1>1, <1>3, <2>2, <2>3, <2>4
<1>6. CASE e.type \in {"enter", "leave"}
  <2>1. PICK is \in BOOLEAN : (e.type = "enter" /\ is) \/ (e.type = "leave" /\ ~is)
    <3>1. CASE e.type = "enter"
      <4>1. (e.type = "enter" /\ TRUE) \/ (e.type = "leave" /\ ~TRUE)
        BY <3>1
      <4> QED BY <4>1, Zenon
    <3>2. CASE e.type = "leave"
      <4>1. (e.type = "enter" /\ FALSE) \/ (e.type = "leave" /\ ~FALSE)
        BY <3>2
      <4> QED BY <4>1, Zenon
    <3> QED BY <1>6, <3>1, <3>2
  <2> QED BY <1>5, <2>1
<1>7. CASE e.type = "global_remove"
  <2>1. Screen!registry_global_remove(e)
    BY <1>7 DEF Screen!Tables
  <2>2. /\ TableTypes' /\ ScaleIsLargest'
        /\ Screen!refresh_cursor_surface \/ UNCHANGED <<integer_output_scale, themes, cursor_theme, cursor>>
        /\ OneRowEach => OneRowEach' /\ \A x : Rows(outs, x)' = IF x = e.val THEN {} ELSE Rows(outs, x)
    BY <1>1, <1>7, <2>1, GlobalRemoveRead
  <2>3. \A x \in Ids : \A c : <<e, Rows(outs, x), c>> \in RowsStep(x) => c = IF x = e.val THEN {} ELSE Rows(outs, x)
    BY <1>7, StepGives
  <2> QED BY <1>1, <1>3, <1>7, <2>2, <2>3
<1>8. CASE e.type = "global"
  <2>1. Screen!registry_global(e)
    BY <1>8 DEF Screen!Tables
  <2>2. /\ TableTypes' /\ ScaleIsLargest' /\ (~crowded' => ~crowded)
        /\ UNCHANGED <<integer_output_scale, themes, cursor_theme, cursor>>
        /\ ~crowded' /\ OneRowEach /\ Rows(outs, e.val) = {} =>
               OneRowEach' /\ \A x : Rows(outs, x)' = IF x = e.val THEN {New(e.val)} ELSE Rows(outs, x)
    BY <2>1, GlobalRead
  <2>3. \A x \in Ids : \A c : <<e, Rows(outs, x), c>> \in RowsStep(x) =>
                             /\ c = IF x = e.val THEN {New(e.val)} ELSE Rows(outs, x)
                             /\ x = e.val => Rows(outs, e.val) = {}
    <3> SUFFICES ASSUME NEW x \in Ids, NEW c, <<e, Rows(outs, x), c>> \in RowsStep(x)
                 PROVE  /\ c = IF x = e.val THEN {New(e.val)} ELSE Rows(outs, x)
                        /\ x = e.val => Rows(outs, e.val) = {}
      OBVIOUS
    <3>1. CASE x = e.val
      BY <1>8, <3>1 DEF RowsStep
    <3>2. CASE x # e.val
      BY <3>2, StepGives
    <3> QED BY <3>1, <3>2
  <2>4. ~crowded' /\ OneRowEach => Rows(outs, e.val) = {}
    <3> SUFFICES ASSUME ~crowded', OneRowEach PROVE Rows(outs, e.val) = {}
      OBVIOUS
    <3>1. RowsLead(e.val)
      BY <1>2, <2>2 DEF ScreenInv, TableAgrees
    <3>2. PICK c : <<e, Rows(outs, e.val), c>> \in RowsStep(e.val)
      BY <1>2, <3>1, RowsLeave
    <3> QED BY <1>2, <2>3, <3>2
  <2> QED BY <1>3, <1>8, <2>2, <2>3, <2>4
<1> QED BY <1>2, <1>4, <1>5, <1>6, <1>7, <1>8

\* An event about what the compositor prefers, or about one of its extensions.
LEMMA PreferenceRead ==
    ASSUME ScreenParameters, ScreenInv, NEW e \in PreferenceNotice, Reading(e),
           UNCHANGED <<outs, crowded, integer_output_scale, pointer_serial_valid, is_cursor_visible>>,
           ScaleTypes', PreferencesAgree',
           \/ Screen!refresh_cursor_surface
           \/ /\ UNCHANGED <<surface_preferred_scale, preferred_scale_120, themes, cursor_theme, cursor>>
              /\ (viewport' = viewport) /\ (shm' => shm)
    PROVE  ScreenInv'
<1>1. e \in Notice /\ e \notin Told("pointer") /\ e \notin OutputNotice
  BY NoticeTypes DEF Told, PreferenceNotice, Notice, Screen!OutputEvents
<1>2. CompositorTypes'
  BY Read
<1>3. TableTypes' /\ PointerTypes' /\ ScaleIsLargest' /\ (OneRowEach => OneRowEach')
      /\ \A x : Rows(outs, x)' = Rows(outs, x)
  BY TableKept DEF ScreenInv, TableAgrees, PointerTypes
<1>4. version' = version
  BY DEF Reading
<1>5. ThemeTypes' /\ CursorIsFresh' /\ Screen!CursorIsLegal'
  <2>1. CASE Screen!refresh_cursor_surface
    BY <1>4, <2>1, Refreshed DEF ScreenInv, CursorAgrees
  <2>2. CASE /\ UNCHANGED <<surface_preferred_scale, preferred_scale_120, themes, cursor_theme, cursor>>
             /\ (viewport' = viewport) /\ (shm' => shm)
    <3>1. Screen!get_cursor_buffer_scale' = Screen!get_cursor_buffer_scale
      BY <1>4, <2>2 DEF Screen!get_cursor_buffer_scale, Screen!resolve_surface_scale
    <3>2. Screen!Loadable' = Screen!Loadable
      BY <3>1 DEF Screen!Loadable
    <3> QED BY <2>2, <3>1, <3>2 DEF ScreenInv, ThemeTypes, CursorAgrees, CursorIsFresh, Screen!CursorIsLegal
  <2> QED BY <2>1, <2>2
<1>6. HoverFollows'
  <2>1. hover' = hover
    BY DEF Reading
  <2> QED BY <1>1, <2>1, Read DEF ScreenInv, CursorAgrees, HoverFollows
<1>7. ASSUME ~crowded', NEW id \in Ids PROVE RowsLead(id)'
  <2>1. RowsLead(id)
    BY <1>7 DEF ScreenInv, TableAgrees
  <2>2. \A c : <<e, Rows(outs, id), c>> \in RowsStep(id) => c = Rows(outs, id)
    BY <1>1 DEF RowsStep
  <2>3. \A c : <<e, Rows(outs, id), c>> \in RowsStep(id) => c = Rows(outs, id)'
    BY <1>3, <2>2
  <2> QED BY <2>1, <2>3, RowsRead
<1>8. TableAgrees'
  <2>1. crowded' = crowded
    OBVIOUS
  <2> QED BY <1>3, <1>7, <2>1 DEF ScreenInv, TableAgrees
<1> QED BY <1>2, <1>3, <1>5, <1>6, <1>8 DEF ScreenInv, CursorAgrees

LEMMA PreferencesHandled ==
    ASSUME ScreenParameters, ScreenInv, NEW e \in PreferenceNotice, Reading(e), Screen!Preferences(e)
    PROVE  ScreenInv'
<1>1. /\ UNCHANGED <<outs, crowded, integer_output_scale, pointer_serial_valid, is_cursor_visible>>
      /\ UNCHANGED <<managers, integer, fraction, version>>
  BY DEF Screen!Preferences, Screen!pointer, Reading
<1>2. e \in Notice
  BY DEF Notice
<1>3. PreferencesAgree /\ ScaleTypes
  BY DEF ScreenInv
<1>4. /\ \A W, R, ok, after :
             Follows(queue, W, R, ok) /\ (e \notin W /\ ok => after) /\ (e \in W \cap R => after) =>
                 Follows(queue', W, R, after)
      /\ \A W : Never(queue, W) => e \notin W /\ Never(queue', W)
  BY Read
<1>5. CASE e.type = "preferred_scale"
  <2>1. /\ preferred_scale_120' = (IF fractional_scale THEN e.val ELSE preferred_scale_120)
        /\ UNCHANGED <<surface_preferred_scale, fractional_scale, viewport, shm>>
        /\ Screen!refresh_cursor_surface \/ UNCHANGED <<preferred_scale_120, themes, cursor_theme, cursor>>
    BY <1>5 DEF Screen!Preferences, Screen!fractional_scale_preferred_scale, Screen!cursors
  <2>2. e.val \in Nat
    BY <1>2, <1>5, NoticeTypes DEF ScreenParameters
  <2>3. ScaleTypes'
    BY <1>1, <1>3, <2>1, <2>2 DEF ScaleTypes
  <2>4. /\ \A m : e \notin Telling("manager_remove", m)
        /\ e \notin Told("preferred_buffer_scale")
        /\ e \in Telling("preferred_scale", fraction) => e.val = fraction
        /\ e \in Told("preferred_scale")
    BY <1>2, <1>5 DEF Telling, Told
  <2>5. ExtensionFollows("fractional", fractional_scale)' /\ ExtensionFollows("viewporter", viewport)'
    BY <1>1, <1>3, <1>4, <2>1, <2>4 DEF PreferencesAgree, ExtensionFollows
  <2>6. IntegerFollows'
    BY <1>1, <1>3, <1>4, <2>1, <2>4 DEF PreferencesAgree, IntegerFollows
  <2>7. FractionFollows'
    <3> SUFFICES ASSUME {"fractional", "viewporter"} \subseteq managers
                 PROVE  Follows(queue', Told("preferred_scale"), Telling("preferred_scale", fraction),
                                preferred_scale_120' = fraction)
      BY <1>1 DEF FractionFollows
    <3>1. fractional_scale
      BY <1>3 DEF PreferencesAgree, ExtensionFollows
    <3>2. preferred_scale_120' = e.val
      BY <2>1, <3>1
    <3>3. Follows(queue, Told("preferred_scale"), Telling("preferred_scale", fraction), preferred_scale_120 = fraction)
      BY <1>3 DEF PreferencesAgree, FractionFollows
    <3> QED BY <1>4, <2>4, <3>2, <3>3
  <2>8. ~fractional_scale' => preferred_scale_120' = 0
    BY <1>3, <2>1 DEF PreferencesAgree
  <2>9. PreferencesAgree'
    BY <2>5, <2>6, <2>7, <2>8 DEF PreferencesAgree
  <2> QED BY <1>1, <2>1, <2>3, <2>9, PreferenceRead
<1>6. CASE e.type = "preferred_buffer_scale"
  <2>1. /\ surface_preferred_scale' = e.val
        /\ UNCHANGED <<preferred_scale_120, fractional_scale, viewport, shm>>
        /\ Screen!refresh_cursor_surface \/ UNCHANGED <<surface_preferred_scale, themes, cursor_theme, cursor>>
    BY <1>6 DEF Screen!Preferences, Screen!surface_preferred_buffer_scale, Screen!cursors
  <2>2. e.val \in Scales
    BY <1>2, <1>6, NoticeTypes
  <2>3. ScaleTypes'
    BY <1>1, <1>3, <2>1, <2>2 DEF ScaleTypes
  <2>4. /\ \A m : e \notin Telling("manager_remove", m)
        /\ e \notin Told("preferred_scale")
        /\ e \in Telling("preferred_buffer_scale", integer) => e.val = integer
        /\ e \in Told("preferred_buffer_scale")
    BY <1>2, <1>6 DEF Telling, Told
  <2>5. ExtensionFollows("fractional", fractional_scale)' /\ ExtensionFollows("viewporter", viewport)'
    BY <1>1, <1>3, <1>4, <2>1, <2>4 DEF PreferencesAgree, ExtensionFollows
  <2>6. IntegerFollows'
    BY <1>1, <1>3, <1>4, <2>1, <2>4 DEF PreferencesAgree, IntegerFollows
  <2>7. FractionFollows' /\ (~fractional_scale' => preferred_scale_120' = 0)
    BY <1>1, <1>3, <1>4, <2>1, <2>4 DEF PreferencesAgree, FractionFollows
  <2>8. PreferencesAgree'
    BY <2>5, <2>6, <2>7 DEF PreferencesAgree
  <2> QED BY <1>1, <2>1, <2>3, <2>8, PreferenceRead
<1>7. CASE e.type = "manager_remove"
  <2>1. /\ fractional_scale' = (fractional_scale /\ e.val # "fractional")
        /\ viewport' = (viewport /\ e.val # "viewporter")
        /\ shm' = (shm /\ e.val # "shm")
        /\ surface_preferred_scale' = surface_preferred_scale
        /\ IF e.val = "shm" THEN UNCHANGED <<preferred_scale_120, themes, cursor_theme, cursor>>
                            ELSE preferred_scale_120' = 0 /\ Screen!refresh_cursor_surface
    BY <1>7 DEF Screen!Preferences, Screen!ManagerRemoved, Screen!cursors
  <2>2. e.val \in Extensions
    BY <1>2, <1>7, NoticeTypes
  <2>3. fractional_scale' \in BOOLEAN /\ viewport' \in BOOLEAN /\ shm' \in BOOLEAN
    BY <2>1
  <2>4. preferred_scale_120' \in Nat
    BY <1>3, <2>1 DEF ScaleTypes
  <2>5. ScaleTypes'
    BY <1>1, <1>3, <2>1, <2>3, <2>4 DEF ScaleTypes
  <2>6. /\ \A m : e \in Telling("manager_remove", m) <=> e.val = m
        /\ e \notin Told("preferred_scale") /\ e \notin Told("preferred_buffer_scale")
    BY <1>2, <1>7 DEF Telling, Told
  <2>7. \A m \in managers : Never(queue, Telling("manager_remove", m)) => e.val # m
    BY <1>4, <2>6
  <2>8. ExtensionFollows("fractional", fractional_scale)'
    <3>1. CASE "fractional" \in managers
      <4>1. fractional_scale /\ Never(queue, Telling("manager_remove", "fractional"))
        BY <1>3, <3>1 DEF PreferencesAgree, ExtensionFollows
      <4>2. fractional_scale' /\ Never(queue', Telling("manager_remove", "fractional"))
        BY <1>4, <2>1, <2>6, <4>1
      <4> QED BY <1>1, <3>1, <4>2 DEF ExtensionFollows
    <3>2. CASE "fractional" \notin managers
      <4>1. Follows(queue, Telling("manager_remove", "fractional"), Telling("manager_remove", "fractional"), ~fractional_scale)
        BY <1>3, <3>2 DEF PreferencesAgree, ExtensionFollows
      <4>2. /\ ~fractional_scale => ~fractional_scale'
            /\ e \in Telling("manager_remove", "fractional") => ~fractional_scale'
        BY <2>1, <2>6
      <4>3. Follows(queue', Telling("manager_remove", "fractional"), Telling("manager_remove", "fractional"), ~fractional_scale')
        BY <1>4, <4>1, <4>2
      <4> QED BY <1>1, <3>2, <4>3 DEF ExtensionFollows
    <3> QED BY <3>1, <3>2
  <2>9. ExtensionFollows("viewporter", viewport)'
    <3>1. CASE "viewporter" \in managers
      <4>1. viewport /\ Never(queue, Telling("manager_remove", "viewporter"))
        BY <1>3, <3>1 DEF PreferencesAgree, ExtensionFollows
      <4>2. viewport' /\ Never(queue', Telling("manager_remove", "viewporter"))
        BY <1>4, <2>1, <2>6, <4>1
      <4> QED BY <1>1, <3>1, <4>2 DEF ExtensionFollows
    <3>2. CASE "viewporter" \notin managers
      <4>1. Follows(queue, Telling("manager_remove", "viewporter"), Telling("manager_remove", "viewporter"), ~viewport)
        BY <1>3, <3>2 DEF PreferencesAgree, ExtensionFollows
      <4>2. /\ ~viewport => ~viewport'
            /\ e \in Telling("manager_remove", "viewporter") => ~viewport'
        BY <2>1, <2>6
      <4>3. Follows(queue', Telling("manager_remove", "viewporter"), Telling("manager_remove", "viewporter"), ~viewport')
        BY <1>4, <4>1, <4>2
      <4> QED BY <1>1, <3>2, <4>3 DEF ExtensionFollows
    <3> QED BY <3>1, <3>2
  <2>10. IntegerFollows'
    BY <1>1, <1>3, <1>4, <2>1, <2>6 DEF PreferencesAgree, IntegerFollows
  <2>11. FractionFollows'
    <3> SUFFICES ASSUME {"fractional", "viewporter"} \subseteq managers
                 PROVE  Follows(queue', Told("preferred_scale"), Telling("preferred_scale", fraction),
                                preferred_scale_120' = fraction)
      BY <1>1 DEF FractionFollows
    <3>1. e.val # "fractional" /\ e.val # "viewporter"
      BY <1>3, <2>7 DEF PreferencesAgree, ExtensionFollows
    <3>2. preferred_scale_120' = preferred_scale_120
      BY <2>1, <2>2, <3>1 DEF Extensions
    <3>3. Follows(queue, Told("preferred_scale"), Telling("preferred_scale", fraction), preferred_scale_120 = fraction)
      BY <1>3 DEF PreferencesAgree, FractionFollows
    <3> QED BY <1>4, <2>6, <3>2, <3>3
  <2>12. ~fractional_scale' => preferred_scale_120' = 0
    <3>1. CASE e.val = "shm"
      BY <1>3, <2>1, <3>1 DEF PreferencesAgree
    <3>2. CASE e.val # "shm"
      BY <2>1, <3>2
    <3> QED BY <3>1, <3>2
  <2>13. PreferencesAgree'
    BY <2>8, <2>9, <2>10, <2>11, <2>12 DEF PreferencesAgree
  <2>14. \/ Screen!refresh_cursor_surface
         \/ /\ UNCHANGED <<surface_preferred_scale, preferred_scale_120, themes, cursor_theme, cursor>>
            /\ (viewport' = viewport) /\ (shm' => shm)
    <3>1. CASE e.val = "shm"
      <4>1. viewport' = viewport
        BY <1>3, <2>1, <3>1 DEF ScaleTypes
      <4> QED BY <2>1, <3>1, <4>1
    <3>2. CASE e.val # "shm"
      BY <2>1, <3>2
    <3> QED BY <3>1, <3>2
  <2> QED BY <1>1, <2>5, <2>13, <2>14, PreferenceRead
<1> QED BY <1>2, <1>5, <1>6, <1>7, NoticeTypes

LEMMA PointerHandled ==
    ASSUME ScreenParameters, ScreenInv, NEW e \in PointerNotice, Reading(e), Screen!Pointer(e)
    PROVE  ScreenInv'
<1>1. /\ UNCHANGED <<outs, crowded, integer_output_scale, surface_preferred_scale, preferred_scale_120>>
      /\ UNCHANGED <<fractional_scale, viewport, shm, is_cursor_visible>>
      /\ UNCHANGED <<managers, integer, fraction, hover, version>>
      /\ pointer_serial_valid' = e.val
      /\ IF e.val THEN Screen!refresh_cursor_surface ELSE UNCHANGED <<themes, cursor_theme, cursor>>
  BY DEF Screen!Pointer, Screen!PointerMoved, Screen!scales, Screen!cursors, Reading
<1>2. e \in Notice /\ e \notin OutputNotice /\ e.val \in BOOLEAN
      /\ (\A m : e \notin Telling("manager_remove", m))
      /\ e \notin Told("preferred_scale") /\ e \notin Told("preferred_buffer_scale")
  BY NoticeTypes DEF Told, Telling, PointerNotice, Notice, Screen!OutputEvents
<1>3. CompositorTypes'
  BY Read
<1>4. TableTypes' /\ ScaleIsLargest' /\ (OneRowEach => OneRowEach')
      /\ \A x : Rows(outs, x)' = Rows(outs, x)
  BY <1>1, TableKept DEF ScreenInv, TableAgrees
<1>5. ScaleTypes' /\ PointerTypes'
  BY <1>1, <1>2 DEF ScreenInv, ScaleTypes, PointerTypes
<1>6. ThemeTypes' /\ CursorIsFresh' /\ Screen!CursorIsLegal'
  <2>1. CASE Screen!refresh_cursor_surface
    BY <1>1, <1>5, <2>1, Refreshed DEF ScreenInv, CursorAgrees
  <2>2. CASE ~e.val
    BY <1>1, <2>2 DEF ScreenInv, ThemeTypes, CursorAgrees, CursorIsFresh, Screen!CursorIsLegal
  <2> QED BY <1>1, <2>1, <2>2
<1>7. HoverFollows'
  <2>1. e \in Telling("pointer", hover) => e.val = hover
    BY DEF Telling
  <2>2. e \in Told("pointer")
    BY <1>2 DEF Told, PointerNotice
  <2>3. Follows(queue, Told("pointer"), Telling("pointer", hover), pointer_serial_valid = hover)
    BY DEF ScreenInv, CursorAgrees, HoverFollows
  <2>4. e \in Telling("pointer", hover) => pointer_serial_valid' = hover
    BY <1>1, <2>1
  <2>5. Follows(queue', Told("pointer"), Telling("pointer", hover), pointer_serial_valid' = hover)
    BY <2>2, <2>3, <2>4, Read
  <2> QED BY <1>1, <2>5 DEF HoverFollows
<1>8. ASSUME ~crowded', NEW id \in Ids PROVE RowsLead(id)'
  <2>1. RowsLead(id)
    BY <1>1, <1>8 DEF ScreenInv, TableAgrees
  <2>2. \A c : <<e, Rows(outs, id), c>> \in RowsStep(id) => c = Rows(outs, id)
    BY <1>2 DEF RowsStep
  <2>3. \A c : <<e, Rows(outs, id), c>> \in RowsStep(id) => c = Rows(outs, id)'
    BY <1>4, <2>2
  <2> QED BY <2>1, <2>3, RowsRead
<1>9. TableAgrees'
  BY <1>1, <1>4, <1>8 DEF ScreenInv, TableAgrees
<1>10. /\ \A W, R, ok : Follows(queue, W, R, ok) /\ e \notin W => Follows(queue', W, R, ok)
       /\ \A W : Never(queue, W) => Never(queue', W)
  BY Read
<1>11. ExtensionFollows("fractional", fractional_scale)' /\ ExtensionFollows("viewporter", viewport)'
  BY <1>1, <1>2, <1>10 DEF ScreenInv, PreferencesAgree, ExtensionFollows
<1>12. IntegerFollows' /\ FractionFollows' /\ (~fractional_scale' => preferred_scale_120' = 0)
  BY <1>1, <1>2, <1>10 DEF ScreenInv, PreferencesAgree, IntegerFollows, FractionFollows
<1> QED BY <1>3, <1>4, <1>5, <1>6, <1>7, <1>9, <1>11, <1>12 DEF ScreenInv, PreferencesAgree, CursorAgrees

LEMMA EventHandled ==
    ASSUME ScreenParameters, ScreenInv, Screen!Dispatch
    PROVE  ScreenInv'
<1> DEFINE e == Head(queue)
<1>1. Reading(e)
  BY DEF Screen!Dispatch, Screen!compositor, Reading
<1>2. e \in Notice
  BY <1>1, Read
<1>3. CASE e.type \in Screen!OutputEvents
  <2>1. Screen!Tables(e)
    <3>1. e.type # "pointer"
      BY <1>3 DEF Screen!OutputEvents
    <3> QED BY <1>3, <3>1 DEF Screen!Dispatch
  <2>2. e \in OutputNotice
    BY <1>2, <1>3, NoticeTypes
  <2> HIDE DEF e
  <2> QED BY <1>1, <2>1, <2>2, TablesHandled
<1>4. CASE e.type = "pointer"
  <2>1. e \in PointerNotice
    BY <1>2, <1>4, NoticeTypes
  <2>2. Screen!Pointer(e)
    <3>1. e.type \notin Screen!OutputEvents
      BY <1>4 DEF Screen!OutputEvents
    <3> QED BY <1>4, <3>1 DEF Screen!Dispatch
  <2> HIDE DEF e
  <2> QED BY <1>1, <2>1, <2>2, PointerHandled
<1>5. CASE e.type \notin Screen!OutputEvents /\ e.type # "pointer"
  <2>1. e \in PreferenceNotice
    BY <1>2, <1>5, NoticeTypes DEF Notice
  <2>2. Screen!Preferences(e)
    BY <1>5 DEF Screen!Dispatch
  <2> HIDE DEF e
  <2> QED BY <1>1, <2>1, <2>2, PreferencesHandled
<1> QED BY <1>3, <1>4, <1>5

\* Every action keeps the invariant, and the window starts with it.
LEMMA ScreenInvStep == ASSUME ScreenParameters, ScreenInv, Screen!Next PROVE ScreenInv'
<1>1. ASSUME Screen!Compositor PROVE ScreenInv'
  <2>1. ASSUME NEW id \in Ids, NEW s \in Scales, Screen!AddOutput(id, s) \/ Screen!RescaleOutput(id, s) PROVE ScreenInv'
    BY <2>1, OutputAdded, OutputRescaled
  <2>2. ASSUME NEW id \in Ids, Screen!ServeOutput(id) \/ Screen!RemoveOutput(id) PROVE ScreenInv'
    BY <2>2, OutputServed, OutputRemoved
  <2>3. ASSUME NEW to \in SUBSET Ids, Screen!MoveSurface(to) PROVE ScreenInv'
    BY <2>3, SurfaceMoved
  <2>4. ASSUME NEW s \in Scales, Screen!PreferInteger(s) PROVE ScreenInv'
    BY <2>4, IntegerPreferred
  <2>5. ASSUME NEW f \in Fractions, Screen!PreferFraction(f) PROVE ScreenInv'
    BY <2>5, FractionPreferred
  <2>6. ASSUME NEW m \in Extensions, Screen!Withdraw(m) PROVE ScreenInv'
    BY <2>6, ManagerWithdrawn
  <2>7. ASSUME Screen!MovePointer PROVE ScreenInv'
    BY <2>7, PointerCrossed
  <2> QED BY <1>1, <2>1, <2>2, <2>3, <2>4, <2>5, <2>6, <2>7 DEF Screen!Compositor, Extensions
<1> QED BY <1>1, CursorShown, EventHandled DEF Screen!Next

LEMMA ScreenInvStart == ASSUME ScreenParameters, Screen!Init PROVE ScreenInv
<1>1. CompositorTypes
  <2>1. /\ outputs \in [Ids -> Scales \cup {0}] /\ on = {} /\ served = {}
        /\ integer = 0 /\ fraction = 0 /\ managers \subseteq Extensions /\ hover \in BOOLEAN /\ queue = <<>>
    BY DEF Screen!Init, Extensions
  <2>2. IsFiniteSet(served)
    BY <2>1, FS_EmptySet
  <2>3. queue \in Seq(Notice)
    BY <2>1
  <2> QED BY <2>1, <2>2, <2>3 DEF CompositorTypes
<1>2. queue = <<>> /\ outs = <<>> /\ themes = <<>>
  BY DEF Screen!Init
<1>3. TableTypes
  <2>1. outs \in Seq(Entry) /\ Len(outs) = 0
    BY <1>2
  <2>2. crowded \in BOOLEAN
    BY DEF Screen!Init
  <2> QED BY <2>1, <2>2 DEF TableTypes, ScreenParameters
<1>4. ScaleTypes
  BY DEF Screen!Init, ScaleTypes, ScreenParameters
<1>5. PointerTypes
  BY DEF Screen!Init, PointerTypes
<1>6. ThemeTypes
  BY <1>2 DEF Screen!Init, ThemeTypes, ScreenParameters, Screen!Hidden
<1>7. ScaleIsLargest
  <2>1. Entered(outs) = {}
    BY <1>2 DEF Entered
  <2>2. Screen!Max({1}) \in {1}
    BY FS_Singleton, FiniteMax
  <2>3. Screen!Largest(Entered(outs)) = Screen!Max({1})
    BY <2>1 DEF Screen!Largest
  <2> QED BY <2>2, <2>3 DEF Screen!Init, ScaleIsLargest
<1>8. OneRowEach
  BY <1>2 DEF OneRowEach
<1>9. ASSUME NEW id \in Ids PROVE RowsLead(id)
  <2>1. Rows(outs, id) = {}
    BY <1>2 DEF Rows
  <2>2. Wanted(id) = {}
    BY DEF Screen!Init, Wanted
  <2>3. Leads(<<>>, RowsStep(id), SUBSET Entry, Rows(outs, id), Wanted(id))
    BY <2>1, <2>2, LeadsEmpty
  <2> QED BY <1>2, <2>3 DEF RowsLead
<1>10. ExtensionFollows("fractional", fractional_scale) /\ ExtensionFollows("viewporter", viewport)
  <2>1. \A W : Never(queue, W)
    BY <1>2 DEF Never
  <2> QED BY <2>1 DEF Screen!Init, ExtensionFollows
<1>11. IntegerFollows /\ FractionFollows
  <2>1. surface_preferred_scale = integer /\ preferred_scale_120 = fraction
    BY DEF Screen!Init
  <2> QED BY <1>2, <2>1, FollowsEmpty DEF IntegerFollows, FractionFollows
<1>12. HoverFollows
  <2>1. pointer_serial_valid = hover
    BY DEF Screen!Init
  <2> QED BY <1>2, <2>1, FollowsEmpty DEF HoverFollows
<1>13. CursorIsFresh /\ Screen!CursorIsLegal /\ (~fractional_scale => preferred_scale_120 = 0)
  BY DEF Screen!Init, CursorIsFresh, Screen!CursorIsLegal, Screen!Hidden
<1> QED BY <1>1, <1>3, <1>4, <1>5, <1>6, <1>7, <1>8, <1>9, <1>10, <1>11, <1>12, <1>13
       DEF ScreenInv, TableAgrees, PreferencesAgree, CursorAgrees

\* The variables of the outputs, one by one.
LEMMA ScreenInvKept == ASSUME ScreenInv, UNCHANGED scaling PROVE ScreenInv'
<1>1. CompositorTypes' /\ TableTypes' /\ ScaleTypes' /\ PointerTypes' /\ ThemeTypes'
  BY DEF scaling, ScreenInv, CompositorTypes, TableTypes, ScaleTypes, PointerTypes, ThemeTypes
<1>2. TableAgrees'
  <2>1. ScaleIsLargest'
    BY DEF scaling, ScreenInv, TableAgrees, ScaleIsLargest, Screen!Largest, Screen!Max, Entered
  <2>2. OneRowEach /\ (\A id \in Ids : RowsLead(id)) => OneRowEach' /\ \A id \in Ids : RowsLead(id)'
    <3>1. OneRowEach => OneRowEach'
      BY DEF scaling, OneRowEach
    <3>2. ASSUME NEW id \in Ids, RowsLead(id) PROVE RowsLead(id)'
      BY <3>2 DEF scaling, RowsLead, Wanted, Rows
    <3> QED BY <3>1, <3>2
  <2> QED BY <2>1, <2>2 DEF scaling, ScreenInv, TableAgrees
<1>3. PreferencesAgree' /\ HoverFollows'
  BY DEF scaling, ScreenInv, PreferencesAgree, CursorAgrees, ExtensionFollows, IntegerFollows, FractionFollows, HoverFollows
<1>4. CursorIsFresh' /\ Screen!CursorIsLegal'
  <2>1. Screen!get_cursor_buffer_scale' = Screen!get_cursor_buffer_scale
    BY DEF scaling, Screen!get_cursor_buffer_scale, Screen!resolve_surface_scale
  <2>2. Screen!Loadable' = Screen!Loadable
    BY <2>1 DEF Screen!Loadable
  <2> QED BY <2>1, <2>2 DEF scaling, ScreenInv, CursorAgrees, CursorIsFresh, Screen!CursorIsLegal
<1> QED BY <1>1, <1>2, <1>3, <1>4 DEF ScreenInv, CursorAgrees

LEMMA ScreenHolds == ScreenParameters => (MCSpec => [](~Opening => ScreenInv))
<1> SUFFICES ASSUME ScreenParameters PROVE MCSpec => [](~Opening => ScreenInv)
  OBVIOUS
<1>1. MCInit => (~Opening => ScreenInv)
  BY ScreenInvStart DEF MCInit, Scene, Opening
<1>2. (~Opening => ScreenInv) /\ [MCNext]_<<scenario, opening, scaling>> => (~Opening => ScreenInv)'
  <2> SUFFICES ASSUME ~Opening => ScreenInv, [MCNext]_<<scenario, opening, scaling>>, ~Opening' PROVE ScreenInv'
    OBVIOUS
  <2>1. scenario' = scenario /\ ~Opening
    BY DEF MCNext, Opening
  <2>2. Screen!Next \/ UNCHANGED scaling
    BY <2>1 DEF MCNext, Scene, Opening
  <2> QED BY <2>1, <2>2, ScreenInvStep, ScreenInvKept
<1> QED BY <1>1, <1>2, PTL DEF MCSpec

--------------------------------------------------------------------------------
\* What the invariant says once everything is read.
LEMMA QuietRows ==
    ASSUME ScreenInv, Screen!Quiet, ~crowded, NEW id \in Ids
    PROVE  Rows(outs, id) = IF outputs[id] = 0 THEN {} ELSE {[id |-> id, scale |-> outputs[id], entered |-> id \in on]}
<1>1. queue = <<>> /\ (outputs[id] # 0 => id \in served)
  BY DEF Screen!Quiet
<1>2. outs \in Seq(Entry) /\ Leads(<<>>, RowsStep(id), SUBSET Entry, Rows(outs, id), Wanted(id))
  BY <1>1 DEF ScreenInv, TableTypes, TableAgrees, RowsLead
<1>3. Rows(outs, id) \in SUBSET Entry
  BY <1>2, RowsOf
<1>4. Rows(outs, id) = Wanted(id)
  BY <1>2, <1>3, LeadsEmpty
<1> QED BY <1>1, <1>4 DEF Wanted

LEMMA TableSettled == ASSUME ScreenInv PROVE Screen!OutputsAgree
<1> SUFFICES ASSUME Screen!Quiet, ~crowded
             PROVE  /\ Screen!ToSet(outs) = {[id |-> id, scale |-> outputs[id], entered |-> id \in on] :
                                                id \in {i \in Ids : outputs[i] # 0}}
                    /\ Screen!IsInjective(outs)
  BY DEF Screen!OutputsAgree
<1>1. outs \in Seq(Entry) /\ DOMAIN outs = 1 .. Len(outs) /\ \A i \in 1 .. Len(outs) : outs[i] \in Entry
  <2>1. outs \in Seq(Entry)
    BY DEF ScreenInv, TableTypes
  <2> QED BY <2>1, ElementOfSeq, LenProperties
<1>2. OneRowEach
  BY DEF ScreenInv, TableAgrees
<1> DEFINE row(id) == [id |-> id, scale |-> outputs[id], entered |-> id \in on]
           wanted == {row(id) : id \in {i \in Ids : outputs[i] # 0}}
<1>3. \A id \in Ids : Rows(outs, id) = IF outputs[id] = 0 THEN {} ELSE {row(id)}
  BY QuietRows
<1>4. \A i \in 1 .. Len(outs) : outs[i].id \in Ids /\ outs[i] \in Rows(outs, outs[i].id)
  BY <1>1 DEF Entry, Rows
<1>5. ASSUME NEW i \in 1 .. Len(outs) PROVE outs[i] \in wanted
  BY <1>3, <1>4
<1>6. ASSUME NEW id \in Ids, outputs[id] # 0 PROVE \E i \in 1 .. Len(outs) : outs[i] = row(id)
  <2>1. row(id) \in Rows(outs, id)
    BY <1>3, <1>6
  <2> QED BY <2>1 DEF Rows
<1>7. Screen!ToSet(outs) = {outs[i] : i \in 1 .. Len(outs)}
  BY <1>1 DEF Screen!ToSet
<1>8. {outs[i] : i \in 1 .. Len(outs)} = wanted
  <2>1. \A x \in wanted : \E id \in Ids : outputs[id] # 0 /\ x = row(id)
    OBVIOUS
  <2> HIDE DEF wanted, row
  <2> QED BY <1>5, <1>6, <2>1
<1>9. Screen!IsInjective(outs)
  BY <1>1, <1>2 DEF OneRowEach, Screen!IsInjective
<1> QED BY <1>7, <1>8, <1>9

LEMMA ScaleSettled == ASSUME ScreenParameters, ScreenInv PROVE Screen!ScaleSettles
<1> SUFFICES ASSUME Screen!Quiet, ~crowded
             PROVE  Screen!mfb_get_monitor_scale =
                        IF {"fractional", "viewporter"} \subseteq managers /\ fraction # 0 THEN fraction
                        ELSE Screen!One * Screen!Largest(IF version >= 6 THEN {integer} ELSE {outputs[id] : id \in on})
  BY DEF Screen!ScaleSettles
<1>1. queue = <<>>
  BY DEF Screen!Quiet
<1>2. surface_preferred_scale = integer
  BY <1>1, FollowsEmpty DEF ScreenInv, PreferencesAgree, IntegerFollows
<1>3. ("fractional" \notin managers => ~fractional_scale) /\ ("viewporter" \notin managers => ~viewport)
      /\ ("viewporter" \in managers => viewport)
  BY <1>1, FollowsEmpty DEF ScreenInv, PreferencesAgree, ExtensionFollows
<1>4. ~fractional_scale => preferred_scale_120 = 0
  BY DEF ScreenInv, PreferencesAgree
<1>5. {"fractional", "viewporter"} \subseteq managers => preferred_scale_120 = fraction
  BY <1>1, FollowsEmpty DEF ScreenInv, PreferencesAgree, FractionFollows
<1>6. Entered(outs) = {outputs[id] : id \in on}
  <2>1. outs \in Seq(Entry) /\ \A i \in 1 .. Len(outs) : outs[i] \in Entry
    BY ElementOfSeq DEF ScreenInv, TableTypes
  <2>2. on \subseteq Ids /\ \A id \in on : outputs[id] # 0
    BY DEF ScreenInv, CompositorTypes
  <2>3. ASSUME NEW i \in 1 .. Len(outs), outs[i].entered PROVE outs[i].scale \in {outputs[id] : id \in on}
    <3>1. outs[i].id \in Ids /\ outs[i] \in Rows(outs, outs[i].id)
      BY <2>1 DEF Entry, Rows
    <3> DEFINE id == outs[i].id
    <3>2. outs[i] = [id |-> id, scale |-> outputs[id], entered |-> id \in on]
      BY <3>1, QuietRows
    <3>3. id \in on /\ outs[i].scale = outputs[id]
      <4>1. PICK is : is = (id \in on)
        OBVIOUS
      <4>2. outs[i] = [id |-> id, scale |-> outputs[id], entered |-> is]
        BY <3>2, <4>1
      <4>3. outs[i].entered = is /\ outs[i].scale = outputs[id]
        BY <4>2
      <4> QED BY <2>3, <4>1, <4>3
    <3> QED BY <3>3
  <2>4. ASSUME NEW id \in on PROVE outputs[id] \in Entered(outs)
    <3>1. id \in Ids /\ outputs[id] # 0
      BY <2>2
    <3>2. [id |-> id, scale |-> outputs[id], entered |-> id \in on] \in Rows(outs, id)
      BY <3>1, QuietRows
    <3>3. PICK i \in 1 .. Len(outs) : outs[i] = [id |-> id, scale |-> outputs[id], entered |-> id \in on]
      BY <3>2 DEF Rows
    <3>4. outs[i].entered /\ outs[i].scale = outputs[id]
      <4>1. PICK is : is = (id \in on)
        OBVIOUS
      <4>2. outs[i] = [id |-> id, scale |-> outputs[id], entered |-> is]
        BY <3>3, <4>1
      <4>3. outs[i].entered = is /\ outs[i].scale = outputs[id]
        BY <4>2
      <4> QED BY <4>1, <4>3
    <3> QED BY <3>4 DEF Entered
  <2> QED BY <2>3, <2>4 DEF Entered
<1>7. integer_output_scale = Screen!Largest({outputs[id] : id \in on})
  BY <1>6 DEF ScreenInv, TableAgrees, ScaleIsLargest
<1>8. Screen!mfb_get_monitor_scale =
          IF viewport /\ preferred_scale_120 > 0 THEN preferred_scale_120
          ELSE IF version >= 6 THEN Screen!One * Screen!Largest({integer})
          ELSE Screen!One * integer_output_scale
  BY <1>2 DEF Screen!mfb_get_monitor_scale, Screen!resolve_surface_scale
<1>9. viewport /\ preferred_scale_120 > 0 <=> {"fractional", "viewporter"} \subseteq managers /\ fraction # 0
  <2>1. preferred_scale_120 \in Nat
    BY DEF ScreenInv, ScaleTypes
  <2> QED BY <1>3, <1>4, <1>5, <2>1
<1> QED BY <1>5, <1>7, <1>8, <1>9

LEMMA CursorSettled == ASSUME ScreenInv PROVE Screen!CursorSettles /\ Screen!CursorIsLegal
<1>1. Screen!Quiet /\ hover => pointer_serial_valid
  BY FollowsEmpty DEF ScreenInv, CursorAgrees, HoverFollows, Screen!Quiet, CompositorTypes, PointerTypes
<1> QED BY <1>1 DEF ScreenInv, CursorAgrees, CursorIsFresh, Screen!CursorSettles

LEMMA ScreenTyped == ASSUME ScreenInv PROVE Screen!TypeOK
<1>1. outs \in Seq(Entry) /\ \A i \in 1 .. Len(outs) : outs[i] \in Entry
  BY ElementOfSeq DEF ScreenInv, TableTypes
<1>2. themes \in Seq(Nat \ Missing) /\ Screen!Range(themes) = {themes[i] : i \in 1 .. Len(themes)}
      /\ \A i \in 1 .. Len(themes) : themes[i] \in Nat \ Missing
  BY ElementOfSeq, LenProperties DEF ScreenInv, ThemeTypes, Screen!Range
<1>3. Screen!Range(themes) \subseteq Nat \ Missing /\ cursor_theme \in {0} \cup Screen!Range(themes)
  BY <1>2 DEF ScreenInv, ThemeTypes
<1>4. \A i \in 1 .. Len(outs) : outs[i].id \in Ids /\ outs[i].scale \in Scales \cup {1}
  BY <1>1 DEF Entry
<1> QED BY <1>3, <1>4 DEF ScreenInv, TableTypes, ThemeTypes, ScaleTypes, PointerTypes, Screen!TypeOK

--------------------------------------------------------------------------------
\* Once everything is read, the table of outputs is the compositor's (registry_global,
\* registry_global_remove, surface_enter, surface_leave), unless an output found no room.
THEOREM TableAgreesAlways == ScreenParameters => (MCSpec => []OutputsAgree)
<1> SUFFICES ASSUME ScreenParameters PROVE MCSpec => []OutputsAgree
  OBVIOUS
<1>1. (~Opening => ScreenInv) => OutputsAgree
  BY TableSettled, ScreenTyped DEF OutputsAgree
<1>2. MCSpec => [](~Opening => ScreenInv)
  BY ScreenHolds
<1> QED BY <1>1, <1>2, PTL

\* Once everything is read, the scale of the window is the most precise one the compositor
\* offers (resolve_surface_scale, recompute_output_scale).
THEOREM ScaleFollows == ScreenParameters => (MCSpec => []ScaleSettles)
<1> SUFFICES ASSUME ScreenParameters PROVE MCSpec => []ScaleSettles
  OBVIOUS
<1>1. (~Opening => ScreenInv) => ScaleSettles
  BY ScaleSettled DEF ScaleSettles
<1>2. MCSpec => [](~Opening => ScreenInv)
  BY ScreenHolds
<1> QED BY <1>1, <1>2, PTL

\* Once everything is read, the cursor over the window is the one the application asked for
\* at the scale of the window; and at no time is its image one its surface may not have
\* (refresh_cursor_surface, ensure_cursor_theme_for_scale).
THEOREM CursorFollows == ScreenParameters => (MCSpec => []CursorSettles)
<1> SUFFICES ASSUME ScreenParameters PROVE MCSpec => []CursorSettles
  OBVIOUS
<1>1. (~Opening => ScreenInv) => CursorSettles
  BY CursorSettled DEF CursorSettles
<1>2. MCSpec => [](~Opening => ScreenInv)
  BY ScreenHolds
<1> QED BY <1>1, <1>2, PTL
================================================================================
