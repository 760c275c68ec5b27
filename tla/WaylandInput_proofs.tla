-------------------------- MODULE WaylandInput_proofs --------------------------
(* What is proved of the keyboard and pointer of the Wayland backend, for every     *)
(* keyboard, every set of buttons, every choice of inputs, every rate of repetition *)
(* and every bound: whatever the user does, and in whatever order devices and seats *)
(* go and come back, the events still waiting lead from what the program knows to   *)
(* what the compositor does.                                                        *)
EXTENDS MCWaylandInput, EventQueues

--------------------------------------------------------------------------------
(* The invariant.                                                                *)
AllKeys == UNION {s.keys : s \in Settings}
Modifiers == {"SHIFT", "ALT"}

KeyboardNotice ==
    [type : {"key"}, key : AllKeys, state : {"pressed", "released", "repeated"}, mods : SUBSET Modifiers]
    \cup [type : {"modifiers"}, mods : SUBSET Modifiers] \cup [type : {"enter"}, keys : SUBSET AllKeys]
    \cup [type : {"leave"}] \cup [type : {"keymap"}, keymap : {"good", "bad"}] \cup [type : {"repeat_info"}, rate : {0, 1}]
SeatNotice ==
    [type : {"capabilities"}, caps : SUBSET {"keyboard", "pointer"}] \cup [type : {"global", "global_remove"}]
PointerNotice ==
    [type : {"pointer_enter", "pointer_leave"}, surface : {"content", "frame"}]
    \cup [type : {"button"}, button : Nat \ {0}, state : {"pressed", "released"}]
    \cup [type : {"axis"}, value : {2}] \cup [type : {"axis_discrete"}, value : {1}]
    \cup [type : {"axis_value120"}, value : {120}] \cup [type : {"frame"}]
Notice == KeyboardNotice \cup SeatNotice \cup PointerNotice

\* The keyboard as its events see it: whether there is one and it has the focus, the keys
\* of the window, and whether a keymap has been read.
KeyboardStates(K) ==
    [stage : {"none", "bound", "active"}, held : SUBSET K, state : {"null", "set"}]
KeyboardNow ==
    [stage |-> IF ~keyboard THEN "none" ELSE IF is_active THEN "active" ELSE "bound",
     held |-> key_status, state |-> IF xkb_state = NULL THEN "null" ELSE "set"]
KeyboardThen(state) ==
    [stage |-> IF "keyboard" \notin caps THEN "none" ELSE IF Listens THEN "active" ELSE "bound",
     held |-> IF Listens THEN keys ELSE {}, state |-> state]

\* What an event makes of it, and what the compositor sends when; changes are the changes of
\* the layout that may happen.
KeyboardLeads(changes, e, a, b) ==
    CASE e.type = "enter" ->
             /\ a.stage = "bound" /\ a.held = {} /\ (changes = {} => a.state = "set")
             /\ b.stage = "active" /\ b.held = e.keys /\ b.state = a.state
      [] e.type = "leave" -> a.stage = "active" /\ b.stage = "bound" /\ b.held = {} /\ b.state = a.state
      [] e.type = "key" ->
             /\ a.stage = "active" /\ b.stage = "active" /\ b.state = a.state
             /\ b.held = (IF e.state = "released" THEN a.held \ {e.key} ELSE a.held \cup {e.key})
             /\ e.state = "pressed" <=> e.key \notin a.held
             /\ e.mods = Mods(b.held)
      [] e.type = "modifiers" -> b = a /\ a.stage = "active" /\ e.mods = XkbMods(a.held)
      [] e.type = "keymap" ->
             /\ a.stage # "none" /\ (changes = {} => a.stage = "bound" /\ e.keymap = "good")
             /\ b.stage = a.stage /\ b.held = a.held /\ b.state = IF e.keymap = "good" THEN "set" ELSE a.state
      [] e.type = "capabilities" ->
             /\ b.state = a.state
             /\ IF "keyboard" \notin e.caps THEN b.stage = "none" /\ b.held = {}
                ELSE b.stage = (IF a.stage = "none" THEN "bound" ELSE a.stage) /\ b.held = a.held
      [] e.type = "global_remove" -> b.stage = "none" /\ b.held = {} /\ b.state = a.state
      [] OTHER -> b = a
KeyboardStep(changes, K) ==
    {t \in Notice \X KeyboardStates(K) \X KeyboardStates(K) : KeyboardLeads(changes, t[1], t[2], t[3])}

Changes == Inputs \cap {"layout", "bad_keymap"}
KeyboardFollows ==
    \E state \in {"null", "set"} :
        /\ Changes = {} /\ "keyboard" \in serves => state = "set"
        /\ Leads(queue, KeyboardStep(Changes, Keys), KeyboardStates(Keys), KeyboardNow, KeyboardThen(state))

\* The pointer: whether there is one and it is over the content, and the buttons.
PointerStates == [stage : {"none", "outside", "inside"}, held : SUBSET (1 .. 7)]
PointerNow ==
    [stage |-> IF ~pointer THEN "none" ELSE IF is_mouse_inside THEN "inside" ELSE "outside",
     held |-> button_status]
PointerThen(held) ==
    [stage |-> IF "pointer" \notin caps THEN "none" ELSE IF surface = "content" THEN "inside" ELSE "outside",
     held |-> held]

\* A pointer leaves without a button unless one went astray.
PointerLeads(manners, e, a, b) ==
    CASE e.type = "pointer_enter" ->
             IF e.surface = "frame" THEN b = a
             ELSE a.stage = "outside" /\ b.stage = "inside" /\ b.held = a.held
      [] e.type = "pointer_leave" ->
             IF e.surface = "frame" THEN b = a
             ELSE /\ a.stage = "inside" /\ b.stage = "outside" /\ b.held = a.held
                  /\ manners = "strict" => a.held = {}
      [] e.type = "button" ->
             /\ a.stage # "none" /\ b.stage = a.stage
             /\ b.held = (IF e.button > 7 THEN a.held
                          ELSE IF e.state = "pressed" THEN a.held \cup {e.button} ELSE a.held \ {e.button})
      [] e.type = "capabilities" ->
             IF "pointer" \notin e.caps THEN b.stage = "none" /\ b.held = {}
             ELSE b.stage = (IF a.stage = "none" THEN "outside" ELSE a.stage) /\ b.held = a.held
      [] e.type = "global_remove" -> b.stage = "none" /\ b.held = {}
      [] OTHER -> b = a
PointerStep(manners) ==
    {t \in Notice \X PointerStates \X PointerStates : PointerLeads(manners, t[1], t[2], t[3])}

Manners == IF astray THEN "lax" ELSE "strict"
PointerFollows ==
    \E held \in SUBSET (1 .. 7) :
        /\ ~astray => held = {b \in buttons : b <= 7}
        /\ Leads(queue, PointerStep(Manners), PointerStates, PointerNow, PointerThen(held))

\* The wheel: the notches told, and the frame being gathered.
WheelStates == [sum : Nat, continuous : Nat, discrete : Nat, fine : Nat]
WheelNow ==
    [sum |-> told.wheel, continuous |-> axis_frame.continuous, discrete |-> axis_frame.discrete,
     fine |-> axis_frame.value120]
WheelThen == [sum |-> turned, continuous |-> 0, discrete |-> 0, fine |-> 0]

NothingGathered(a) == a.continuous = 0 /\ a.discrete = 0 /\ a.fine = 0
WheelLeads(v, e, a, b) ==
    CASE e.type = "axis" ->
             /\ NothingGathered(a) /\ b.discrete = 0 /\ b.fine = 0
             /\ IF v < 5 THEN b.sum = a.sum + 2 /\ b.continuous = 0
                         ELSE b.sum = a.sum /\ b.continuous = 2
      [] e.type = "axis_discrete" ->
             /\ a.continuous = 2 /\ a.discrete = 0 /\ a.fine = 0 /\ v >= 5
             /\ b.sum = a.sum /\ b.continuous = 2 /\ b.discrete = 1 /\ b.fine = 0
      [] e.type = "axis_value120" ->
             /\ a.continuous = 2 /\ a.discrete = 0 /\ a.fine = 0 /\ v >= 5
             /\ b.sum = a.sum /\ b.continuous = 2 /\ b.discrete = 0 /\ b.fine = 120
      [] e.type = "frame" ->
             /\ a.continuous = 2 /\ a.discrete \in {0, 1} /\ a.fine \in {0, 120}
             /\ NothingGathered(b)
             /\ b.sum = a.sum + (IF a.fine = 120 \/ a.discrete = 1 THEN 1 ELSE 2)
      [] OTHER -> b = a /\ (e.type \in {"pointer_leave", "capabilities", "global_remove"} => NothingGathered(a))
WheelStep(v) == {t \in Notice \X WheelStates \X WheelStates : WheelLeads(v, t[1], t[2], t[3])}

WheelFollows == Leads(queue, WheelStep(version), WheelStates, WheelNow, WheelThen)

\* The compositor.
CompositorTypes ==
    /\ setting \in Settings
    /\ serves \subseteq caps /\ caps \subseteq {"keyboard", "pointer"}
    /\ keys \subseteq Keys /\ ("keyboard" \notin caps => keys = {}) /\ focus \in BOOLEAN
    /\ rate \in {0, 1} /\ version \in {1, 5, 8} /\ turned \in Nat /\ now \in Nat
    /\ surface \in Surfaces /\ buttons \subseteq Buttons
    /\ "pointer" \notin serves => surface = "none"
    /\ surface = "none" => buttons = {}
    /\ queue \in Seq(Notice) /\ Len(queue) <= setting.waiting /\ given \in 0 .. setting.most
    /\ astray \in BOOLEAN

ProgramTypes ==
    /\ key_status \subseteq Keys /\ mod_keys \subseteq Modifiers /\ button_status \subseteq 1 .. 7
    /\ is_mouse_inside \in BOOLEAN /\ is_active \in BOOLEAN
    /\ seat \in BOOLEAN /\ keyboard \in BOOLEAN /\ pointer \in BOOLEAN
    /\ xkb_state = NULL \/ xkb_state \in [down : SUBSET Keys, mods : SUBSET Modifiers]
    /\ repeat_rate \in {0, 1} /\ repeat_active \in BOOLEAN /\ repeat_key \in Keys \cup {NoKey}
    /\ repeat_deadline \in Nat /\ since \in Nat
    /\ axis_frame \in [pending : BOOLEAN, continuous : Nat, discrete : Nat, value120 : Nat]
    /\ told \in [keys : SUBSET Keys, buttons : SUBSET (1 .. 7), inside : BOOLEAN, active : BOOLEAN,
                 wheel : Nat, mods : SUBSET Modifiers, real : SUBSET Modifiers]

\* What the application was told is what the window knows, and nothing is held without its
\* device or without the focus.
ToldAgrees ==
    /\ told.keys \subseteq key_status /\ told.active = is_active
    /\ told.buttons = button_status /\ told.inside = is_mouse_inside
    /\ ~keyboard => ~is_active
    /\ ~is_active => key_status = {}
    /\ ~pointer => ~is_mouse_inside /\ button_status = {}
    /\ axis_frame.pending <=> axis_frame.continuous # 0

\* The modifiers, while the layout stays, are those of the keys.
ModifiersFollow ==
    Changes = {} =>
        /\ told.mods = told.real /\ mod_keys = Mods(key_status)
        /\ is_active => xkb_state # NULL
        /\ xkb_state = NULL \/ (xkb_state.down = key_status /\ xkb_state.mods = XkbMods(key_status))

\* What repeats is a key of the window, at the times the compositor asked for.
RepeatFollows ==
    repeat_active =>
        /\ is_active /\ repeat_key \in key_status /\ repeat_rate > 0 /\ xkb_state # NULL
        /\ (repeat_deadline - since - Delay) % Interval = 0

InputInv ==
    /\ CompositorTypes /\ ProgramTypes /\ ToldAgrees /\ ModifiersFollow /\ RepeatFollows
    /\ KeyboardFollows /\ PointerFollows /\ WheelFollows

--------------------------------------------------------------------------------
(* The events.                                                                    *)
LEMMA KeyboardNotices ==
    /\ \A k \in AllKeys, s \in {"pressed", "released", "repeated"}, m \in SUBSET Modifiers :
          [type |-> "key", key |-> k, state |-> s, mods |-> m] \in Notice
    /\ \A m \in SUBSET Modifiers : [type |-> "modifiers", mods |-> m] \in Notice
    /\ \A k \in SUBSET AllKeys : [type |-> "enter", keys |-> k] \in Notice
    /\ [type |-> "leave"] \in Notice
    /\ \A g \in {"good", "bad"} : [type |-> "keymap", keymap |-> g] \in Notice
    /\ \A r \in {0, 1} : [type |-> "repeat_info", rate |-> r] \in Notice
BY DEF Notice, KeyboardNotice

LEMMA SeatNotices ==
    /\ \A c \in SUBSET {"keyboard", "pointer"} : [type |-> "capabilities", caps |-> c] \in Notice
    /\ \A t \in {"global", "global_remove"} : [type |-> t] \in Notice
BY DEF Notice, SeatNotice

LEMMA PointerNotices ==
    /\ \A t \in {"pointer_enter", "pointer_leave"}, s \in {"content", "frame"} :
          [type |-> t, surface |-> s] \in Notice
    /\ \A b \in Nat \ {0}, s \in {"pressed", "released"} :
          [type |-> "button", button |-> b, state |-> s] \in Notice
    /\ [type |-> "axis", value |-> 2] \in Notice
    /\ [type |-> "axis_discrete", value |-> 1] \in Notice
    /\ [type |-> "axis_value120", value |-> 120] \in Notice
    /\ [type |-> "frame"] \in Notice
BY DEF Notice, PointerNotice

PointerTypes == {"pointer_enter", "pointer_leave", "button", "axis", "axis_discrete", "axis_value120", "frame"}
SeatTypes == {"capabilities", "global", "global_remove"}

LEMMA NoticeFields ==
    ASSUME NEW e \in Notice
    PROVE  /\ e.type \in KeyboardEvents \cup SeatTypes \cup PointerTypes
           /\ e.type = "key" => /\ e.key \in AllKeys /\ e.state \in {"pressed", "released", "repeated"}
                                /\ e.mods \in SUBSET Modifiers
           /\ e.type = "modifiers" => e.mods \in SUBSET Modifiers
           /\ e.type = "enter" => e.keys \in SUBSET AllKeys
           /\ e.type = "keymap" => e.keymap \in {"good", "bad"}
           /\ e.type = "repeat_info" => e.rate \in {0, 1}
           /\ e.type = "capabilities" => e.caps \in SUBSET {"keyboard", "pointer"}
           /\ e.type \in {"pointer_enter", "pointer_leave"} => e.surface \in {"content", "frame"}
           /\ e.type = "button" => e.button \in Nat \ {0} /\ e.state \in {"pressed", "released"}
           /\ e.type = "axis" => e.value = 2
           /\ e.type = "axis_discrete" => e.value = 1
           /\ e.type = "axis_value120" => e.value = 120
<1>1. CASE e \in KeyboardNotice
  BY <1>1 DEF KeyboardNotice, KeyboardEvents
<1>2. CASE e \in SeatNotice
  BY <1>2 DEF SeatNotice, SeatTypes
<1>3. CASE e \in PointerNotice
  BY <1>3 DEF PointerNotice, PointerTypes
<1> QED BY <1>1, <1>2, <1>3 DEF Notice

LEMMA KeyboardSteps ==
    ASSUME NEW K, NEW changes, NEW e \in Notice, NEW a \in KeyboardStates(K), NEW b \in KeyboardStates(K)
    PROVE  <<e, a, b>> \in KeyboardStep(changes, K) <=> KeyboardLeads(changes, e, a, b)
BY DEF KeyboardStep

LEMMA PointerSteps ==
    ASSUME NEW manners, NEW e \in Notice, NEW a \in PointerStates, NEW b \in PointerStates
    PROVE  <<e, a, b>> \in PointerStep(manners) <=> PointerLeads(manners, e, a, b)
BY DEF PointerStep

LEMMA WheelSteps ==
    ASSUME NEW v, NEW e \in Notice, NEW a \in WheelStates, NEW b \in WheelStates
    PROVE  <<e, a, b>> \in WheelStep(v) <=> WheelLeads(v, e, a, b)
BY DEF WheelStep

LEMMA KeyboardSame ==
    ASSUME NEW K, NEW a \in KeyboardStates(K), NEW b \in KeyboardStates(K),
           a.stage = b.stage, a.held = b.held, a.state = b.state
    PROVE  a = b
BY DEF KeyboardStates

LEMMA PointerSame ==
    ASSUME NEW a \in PointerStates, NEW b \in PointerStates, a.stage = b.stage, a.held = b.held
    PROVE  a = b
BY DEF PointerStates

LEMMA WheelSame ==
    ASSUME NEW a \in WheelStates, NEW b \in WheelStates, a.sum = b.sum, a.continuous = b.continuous,
           a.discrete = b.discrete, a.fine = b.fine
    PROVE  a = b
BY DEF WheelStates

LEMMA SettingChosen ==
    ASSUME setting \in Settings
    PROVE  /\ Keys \subseteq AllKeys /\ Buttons \subseteq Nat \ {0}
           /\ NoKey \notin Keys /\ "null" \notin Keys
           /\ setting.waiting \in Nat /\ setting.most \in Nat
BY SettingsAssumption DEF Keys, Buttons, AllKeys

LEMMA ModsAreModifiers ==
    ASSUME NEW held
    PROVE  Mods(held) \in SUBSET Modifiers /\ XkbMods(held) \in SUBSET Modifiers
BY DEF Mods, XkbMods, Modifiers

--------------------------------------------------------------------------------
(* The user and the compositor.                                                   *)
program == <<keystate, repeat, mouse, objects, told, since>>

LEMMA NowAndThen ==
    ASSUME CompositorTypes, ProgramTypes
    PROVE  /\ KeyboardNow \in KeyboardStates(Keys) /\ PointerNow \in PointerStates
           /\ WheelNow \in WheelStates /\ WheelThen \in WheelStates
           /\ \A state \in {"null", "set"} : KeyboardThen(state) \in KeyboardStates(Keys)
           /\ \A held \in SUBSET (1 .. 7) : PointerThen(held) \in PointerStates
<1>1. KeyboardNow \in KeyboardStates(Keys) /\ PointerNow \in PointerStates
  BY DEF ProgramTypes, KeyboardNow, KeyboardStates, PointerNow, PointerStates
<1>2. WheelNow \in WheelStates /\ WheelThen \in WheelStates
  BY DEF CompositorTypes, ProgramTypes, WheelNow, WheelThen, WheelStates
<1>3. \A state \in {"null", "set"} : KeyboardThen(state) \in KeyboardStates(Keys)
  BY DEF CompositorTypes, KeyboardThen, KeyboardStates
<1>4. \A held \in SUBSET (1 .. 7) : PointerThen(held) \in PointerStates
  BY DEF CompositorTypes, PointerThen, PointerStates
<1> QED BY <1>1, <1>2, <1>3, <1>4

\* What the user does leaves the program alone.
LEMMA UserStep ==
    ASSUME InputInv, setting' = setting, UNCHANGED program, CompositorTypes',
           KeyboardFollows', PointerFollows', WheelFollows'
    PROVE  InputInv'
<1> USE DEF program, keystate, repeat, mouse, objects
<1>1. Keys' = Keys /\ Changes' = Changes /\ (xkb_state = NULL <=> xkb_state' = NULL)
  BY DEF Keys, Changes, Inputs
<1>2. ProgramTypes'
  BY <1>1 DEF InputInv, ProgramTypes
<1>3. ToldAgrees'
  BY DEF InputInv, ToldAgrees
<1>4. ModifiersFollow'
  BY <1>1 DEF InputInv, ModifiersFollow
<1>5. RepeatFollows'
  BY DEF InputInv, RepeatFollows
<1> QED BY <1>2, <1>3, <1>4, <1>5 DEF InputInv

LEMMA KeyboardSent ==
    ASSUME InputInv, setting' = setting, UNCHANGED program, NEW s \in Seq(Notice), queue' = queue \o s,
           \A state \in {"null", "set"} :
              (Changes = {} /\ "keyboard" \in serves => state = "set")
              => \E after \in {"null", "set"} :
                    /\ Changes = {} /\ "keyboard" \in serves' => after = "set"
                    /\ Leads(s, KeyboardStep(Changes, Keys), KeyboardStates(Keys),
                             KeyboardThen(state), KeyboardThen(after)')
    PROVE  KeyboardFollows'
<1>1. Keys' = Keys /\ Changes' = Changes /\ KeyboardNow' = KeyboardNow
  BY DEF Keys, Changes, Inputs, KeyboardNow, program, keystate, objects
<1>2. PICK state \in {"null", "set"} :
          /\ Changes = {} /\ "keyboard" \in serves => state = "set"
          /\ Leads(queue, KeyboardStep(Changes, Keys), KeyboardStates(Keys), KeyboardNow, KeyboardThen(state))
  BY DEF InputInv, KeyboardFollows
<1>3. PICK after \in {"null", "set"} :
          /\ Changes = {} /\ "keyboard" \in serves' => after = "set"
          /\ Leads(s, KeyboardStep(Changes, Keys), KeyboardStates(Keys),
                   KeyboardThen(state), KeyboardThen(after)')
  BY <1>2
<1> DEFINE then == KeyboardThen(after)'
<1>4. queue \in Seq(Notice)
  BY DEF InputInv, CompositorTypes
<1> HIDE DEF then
<1>5. Leads(queue \o s, KeyboardStep(Changes, Keys), KeyboardStates(Keys), KeyboardNow, then)
  BY <1>2, <1>3, <1>4, LeadsConcat DEF then
<1>6. Leads(queue', KeyboardStep(Changes', Keys'), KeyboardStates(Keys'), KeyboardNow', then)
  BY <1>1, <1>5
<1> USE DEF then
<1> QED BY <1>1, <1>3, <1>6 DEF KeyboardFollows

LEMMA PointerSent ==
    ASSUME InputInv, UNCHANGED program, astray' = astray, NEW s \in Seq(Notice), queue' = queue \o s,
           \A held \in SUBSET (1 .. 7) :
              (~astray => held = {b \in buttons : b <= 7})
              => \E after \in SUBSET (1 .. 7) :
                    /\ ~astray => after = {b \in buttons' : b <= 7}
                    /\ Leads(s, PointerStep(Manners), PointerStates, PointerThen(held), PointerThen(after)')
    PROVE  PointerFollows'
<1>1. Manners' = Manners /\ PointerNow' = PointerNow
  BY DEF Manners, PointerNow, program, mouse, objects
<1>2. PICK held \in SUBSET (1 .. 7) :
          /\ ~astray => held = {b \in buttons : b <= 7}
          /\ Leads(queue, PointerStep(Manners), PointerStates, PointerNow, PointerThen(held))
  BY DEF InputInv, PointerFollows
<1>3. PICK after \in SUBSET (1 .. 7) :
          /\ ~astray => after = {b \in buttons' : b <= 7}
          /\ Leads(s, PointerStep(Manners), PointerStates, PointerThen(held), PointerThen(after)')
  BY <1>2
<1> DEFINE then == PointerThen(after)'
<1>4. queue \in Seq(Notice)
  BY DEF InputInv, CompositorTypes
<1> HIDE DEF then
<1>5. Leads(queue \o s, PointerStep(Manners), PointerStates, PointerNow, then)
  BY <1>2, <1>3, <1>4, LeadsConcat DEF then
<1>6. Leads(queue', PointerStep(Manners'), PointerStates, PointerNow', then)
  BY <1>1, <1>5
<1> USE DEF then
<1> QED BY <1>3, <1>6 DEF PointerFollows

LEMMA WheelSent ==
    ASSUME InputInv, UNCHANGED program, version' = version, NEW s \in Seq(Notice), queue' = queue \o s,
           Leads(s, WheelStep(version), WheelStates, WheelThen, WheelThen')
    PROVE  WheelFollows'
<1> DEFINE then == WheelThen'
           now1 == WheelNow
<1>1. WheelNow' = WheelNow
  BY DEF WheelNow, program, mouse
<1>2. queue \in Seq(Notice) /\ Leads(queue, WheelStep(version), WheelStates, WheelNow, WheelThen)
  BY DEF InputInv, WheelFollows, CompositorTypes
<1>3. Leads(s, WheelStep(version), WheelStates, WheelThen, then)
  OBVIOUS
<1> HIDE DEF then
<1>4. Leads(queue \o s, WheelStep(version), WheelStates, WheelNow, then)
  BY <1>2, <1>3, LeadsConcat
<1>5. Leads(queue', WheelStep(version'), WheelStates, WheelNow', then)
  BY <1>1, <1>4
<1> USE DEF then
<1> QED BY <1>5 DEF WheelFollows

\* Events of the others move nothing.
KeyboardMovers == {"enter", "leave", "key", "modifiers", "keymap", "capabilities", "global_remove"}
PointerMovers == {"pointer_enter", "pointer_leave", "button", "capabilities", "global_remove"}
WheelMovers == {"axis", "axis_discrete", "axis_value120", "frame"}

LEMMA KeyboardUnmoved ==
    ASSUME NEW changes, NEW e, e.type \notin KeyboardMovers, NEW b
    PROVE  KeyboardLeads(changes, e, b, b)
BY DEF KeyboardLeads, KeyboardMovers

LEMMA PointerUnmoved ==
    ASSUME NEW manners, NEW e, e.type \notin PointerMovers, NEW b
    PROVE  PointerLeads(manners, e, b, b)
BY DEF PointerLeads, PointerMovers

LEMMA WheelUnmoved ==
    ASSUME NEW v, NEW e, e.type \notin WheelMovers, NEW b, NothingGathered(b)
    PROVE  WheelLeads(v, e, b, b)
BY DEF WheelLeads, WheelMovers

LEMMA ThenIsIdle == NothingGathered(WheelThen)
BY DEF NothingGathered, WheelThen

\* They stay where they are while all that is sent moves nothing.
LEMMA KeyboardKept ==
    ASSUME InputInv, setting' = setting, UNCHANGED program, NEW s \in Seq(Notice), queue' = queue \o s,
           "keyboard" \in serves' <=> "keyboard" \in serves, "keyboard" \in caps' <=> "keyboard" \in caps,
           Listens' <=> Listens, Listens => keys' = keys,
           \A state \in {"null", "set"}, i \in 1 .. Len(s) :
              KeyboardLeads(Changes, s[i], KeyboardThen(state), KeyboardThen(state))
    PROVE  KeyboardFollows'
<1> SUFFICES ASSUME NEW state \in {"null", "set"}, Changes = {} /\ "keyboard" \in serves => state = "set"
             PROVE  /\ Changes = {} /\ "keyboard" \in serves' => state = "set"
                    /\ Leads(s, KeyboardStep(Changes, Keys), KeyboardStates(Keys),
                             KeyboardThen(state), KeyboardThen(state)')
  BY KeyboardSent
<1> DEFINE b == KeyboardThen(state)
<1>1. KeyboardThen(state)' = b
  BY DEF KeyboardThen
<1>2. b \in KeyboardStates(Keys)
  BY NowAndThen DEF InputInv
<1>3. \A i \in 1 .. Len(s) : KeyboardLeads(Changes, s[i], b, b) /\ s[i] \in Notice
  OBVIOUS
<1> HIDE DEF b
<1>4. \A i \in 1 .. Len(s) : <<s[i], b, b>> \in KeyboardStep(Changes, Keys)
  BY <1>2, <1>3, KeyboardSteps
<1>5. Leads(s, KeyboardStep(Changes, Keys), KeyboardStates(Keys), b, b)
  BY <1>2, <1>4, LeadsAll
<1> USE DEF b
<1> QED BY <1>1, <1>5

LEMMA PointerKept ==
    ASSUME InputInv, UNCHANGED program, astray' = astray, NEW s \in Seq(Notice), queue' = queue \o s,
           buttons' = buttons, surface' = surface, "pointer" \in caps' <=> "pointer" \in caps,
           \A held \in SUBSET (1 .. 7), i \in 1 .. Len(s) :
              PointerLeads(Manners, s[i], PointerThen(held), PointerThen(held))
    PROVE  PointerFollows'
<1> SUFFICES ASSUME NEW held \in SUBSET (1 .. 7), ~astray => held = {b \in buttons : b <= 7}
             PROVE  /\ ~astray => held = {b \in buttons' : b <= 7}
                    /\ Leads(s, PointerStep(Manners), PointerStates, PointerThen(held), PointerThen(held)')
  BY PointerSent
<1> DEFINE c == PointerThen(held)
<1>1. PointerThen(held)' = c
  BY DEF PointerThen
<1>2. c \in PointerStates
  BY NowAndThen DEF InputInv
<1>3. \A i \in 1 .. Len(s) : PointerLeads(Manners, s[i], c, c) /\ s[i] \in Notice
  OBVIOUS
<1> HIDE DEF c
<1>4. \A i \in 1 .. Len(s) : <<s[i], c, c>> \in PointerStep(Manners)
  BY <1>2, <1>3, PointerSteps
<1>5. Leads(s, PointerStep(Manners), PointerStates, c, c)
  BY <1>2, <1>4, LeadsAll
<1> USE DEF c
<1> QED BY <1>1, <1>5

LEMMA WheelKept ==
    ASSUME InputInv, UNCHANGED program, version' = version, NEW s \in Seq(Notice), queue' = queue \o s,
           turned' = turned, \A i \in 1 .. Len(s) : s[i].type \notin WheelMovers
    PROVE  WheelFollows'
<1>1. WheelThen' = WheelThen
  BY DEF WheelThen
<1>2. WheelThen \in WheelStates
  BY NowAndThen DEF InputInv
<1>3. \A i \in 1 .. Len(s) : <<s[i], WheelThen, WheelThen>> \in WheelStep(version)
  BY <1>2, WheelSteps, WheelUnmoved, ThenIsIdle
<1>4. Leads(s, WheelStep(version), WheelStates, WheelThen, WheelThen)
  BY <1>2, <1>3, LeadsAll
<1> QED BY <1>1, <1>4, WheelSent

LEMMA ConcatTypes ==
    ASSUME NEW s \in Seq(Notice), NEW r \in Seq(Notice), NEW S, NEW R,
           \A i \in 1 .. Len(s) : s[i].type \in S, \A i \in 1 .. Len(r) : r[i].type \in R
    PROVE  s \o r \in Seq(Notice) /\ \A i \in 1 .. Len(s \o r) : (s \o r)[i].type \in S \cup R
<1> DEFINE all == s \o r
<1>1. /\ all \in Seq(Notice) /\ Len(all) = Len(s) + Len(r) /\ Len(s) \in Nat /\ Len(r) \in Nat
      /\ \A i \in 1 .. Len(all) : all[i] = IF i <= Len(s) THEN s[i] ELSE r[i - Len(s)]
  BY ConcatProperties, LenProperties
<1> HIDE DEF all
<1>2. ASSUME NEW i \in 1 .. Len(all) PROVE all[i].type \in S \cup R
  <2>1. CASE i <= Len(s)
    BY <1>1, <2>1
  <2>2. CASE ~(i <= Len(s))
    <3>1. i - Len(s) \in 1 .. Len(r)
      BY <1>1, <2>2
    <3> QED BY <1>1, <2>2, <3>1
  <2> QED BY <2>1, <2>2
<1> USE DEF all
<1> QED BY <1>1, <1>2

--------------------------------------------------------------------------------
\* One action of the user each.
LEMMA Listening ==
    ASSUME CompositorTypes
    PROVE  /\ Listens => "keyboard" \in serves /\ "keyboard" \in caps /\ focus
           /\ "keyboard" \notin serves => ~Listens
           /\ Keys \subseteq AllKeys
BY SettingChosen DEF CompositorTypes, Listens

LEMMA Sending ==
    ASSUME CompositorTypes, setting' = setting, NEW s \in Seq(Notice), Send(s)
    PROVE  queue' = queue \o s /\ queue' \in Seq(Notice) /\ Len(queue') <= setting'.waiting
<1>1. queue \in Seq(Notice)
  BY DEF CompositorTypes
<1> QED BY <1>1, ConcatElements DEF Send

LEMMA Allowing ==
    ASSUME CompositorTypes, setting' = setting, NEW kind, Allows(kind), given' = given + 1
    PROVE  given' \in 0 .. setting'.most /\ kind \in Inputs
BY SettingChosen DEF CompositorTypes, Allows

LEMMA KeyPressed ==
    ASSUME InputInv, setting' = setting, UNCHANGED program, NEW k \in Keys, Key(k)
    PROVE  InputInv'
<1> DEFINE event == KeyEvent(k, IF k \in keys THEN "released" ELSE "pressed", keys')
           mod == ModEvent(keys')
<1>0. CompositorTypes
  BY DEF InputInv
<1>1. /\ "keyboard" \in caps /\ keys' = (keys \ {k}) \cup ({k} \ keys) /\ given' = given + 1 /\ Allows("key")
      /\ UNCHANGED <<caps, serves, focus, rate, surface, buttons, version, turned, now, astray>>
      /\ Send(IF Listens THEN <<event>> \o (IF XkbMods(keys) = XkbMods(keys') THEN <<>> ELSE <<mod>>) ELSE <<>>)
  BY DEF Key
<1>2. event \in Notice /\ mod \in Notice /\ keys' \in SUBSET Keys
  <2>1. k \in AllKeys
    BY <1>0, Listening
  <2>2. (IF k \in keys THEN "released" ELSE "pressed") \in {"pressed", "released", "repeated"}
    OBVIOUS
  <2> QED BY <1>0, <1>1, <2>1, <2>2, KeyboardNotices, ModsAreModifiers DEF KeyEvent, ModEvent, CompositorTypes
<1>3. /\ event.type = "key" /\ event.key = k /\ event.mods = Mods(keys')
      /\ event.state = (IF k \in keys THEN "released" ELSE "pressed")
      /\ mod.type = "modifiers" /\ mod.mods = XkbMods(keys')
  BY DEF KeyEvent, ModEvent
<1> HIDE DEF event, mod
<1>4. ASSUME NEW s \in {<<>>, <<event>>, <<event, mod>>}, Send(s),
             s = <<>> <=> ~Listens
      PROVE  InputInv'
  <2>1. s \in Seq(Notice) /\ \A i \in 1 .. Len(s) : s[i].type \in {"key", "modifiers"}
    <3>1. CASE s = <<>>
      BY <3>1
    <3>2. CASE s = <<event>>
      BY <1>2, <1>3, <3>2
    <3>3. CASE s = <<event, mod>>
      BY <1>2, <1>3, <3>3
    <3> QED BY <1>4, <3>1, <3>2, <3>3
  <2>2. queue' = queue \o s
    BY <1>0, <1>4, <2>1, Sending
  <2>3. CompositorTypes'
    BY <1>0, <1>1, <1>2, <1>4, <2>1, Sending, Allowing DEF CompositorTypes, Surfaces, Keys, Buttons, Inputs
  <2>4. WheelFollows'
    BY <1>1, <2>1, <2>2, WheelKept DEF WheelMovers
  <2>5. PointerFollows'
    BY <1>1, <2>1, <2>2, PointerKept, PointerUnmoved DEF PointerMovers
  <2>6. KeyboardFollows'
    <3>1. CASE s = <<>>
      <4>1. \A i \in 1 .. Len(s) : FALSE
        BY <3>1
      <4> QED BY <1>1, <1>4, <2>1, <2>2, <3>1, <4>1, KeyboardKept DEF Listens
    <3>2. CASE s # <<>>
      <4> SUFFICES ASSUME NEW state \in {"null", "set"}, Changes = {} /\ "keyboard" \in serves => state = "set"
                   PROVE  /\ Changes = {} /\ "keyboard" \in serves' => state = "set"
                          /\ Leads(s, KeyboardStep(Changes, Keys), KeyboardStates(Keys),
                                   KeyboardThen(state), KeyboardThen(state)')
        BY <2>1, <2>2, KeyboardSent
      <4> DEFINE b == KeyboardThen(state)
                 c == KeyboardThen(state)'
      <4>1. b \in KeyboardStates(Keys) /\ c \in KeyboardStates(Keys)
        <5>1. KeyboardThen(state)' \in KeyboardStates(Keys)
          BY <1>0, <1>1, <1>2 DEF KeyboardThen, KeyboardStates, CompositorTypes
        <5> QED BY <5>1, NowAndThen DEF InputInv
      <4>2. /\ b.stage = "active" /\ c.stage = "active" /\ b.state = c.state
            /\ b.held = keys /\ c.held = keys'
        BY <1>0, <1>1, <1>4, <3>2, Listening DEF KeyboardThen, Listens
      <4> HIDE DEF b, c
      <4>3. <<event, b, c>> \in KeyboardStep(Changes, Keys)
        <5>1. KeyboardLeads(Changes, event, b, c)
          BY <1>1, <1>3, <4>2 DEF KeyboardLeads
        <5> QED BY <1>2, <4>1, <5>1, KeyboardSteps
      <4>4. <<mod, c, c>> \in KeyboardStep(Changes, Keys)
        <5>1. KeyboardLeads(Changes, mod, c, c)
          BY <1>3, <4>2 DEF KeyboardLeads
        <5> QED BY <1>2, <4>1, <5>1, KeyboardSteps
      <4>5. Leads(s, KeyboardStep(Changes, Keys), KeyboardStates(Keys), b, c)
        <5>1. Leads(<<event>>, KeyboardStep(Changes, Keys), KeyboardStates(Keys), b, c)
          BY <4>1, <4>3, LeadsOne
        <5>2. Leads(<<event, mod>>, KeyboardStep(Changes, Keys), KeyboardStates(Keys), b, c)
          BY <1>2, <4>1, <4>3, <4>4, LeadsTwo
        <5> QED BY <1>4, <3>2, <5>1, <5>2
      <4> USE DEF b, c
      <4> QED BY <1>1, <4>5
    <3> QED BY <3>1, <3>2
  <2> QED BY <2>3, <2>4, <2>5, <2>6, UserStep
<1>5. CASE ~Listens
  <2>1. Send(<<>>)
    BY <1>1, <1>5
  <2> QED BY <1>4, <1>5, <2>1
<1>6. CASE Listens /\ XkbMods(keys) = XkbMods(keys')
  <2>1. Send(<<event>>)
    BY <1>1, <1>6
  <2> QED BY <1>4, <1>6, <2>1
<1>7. CASE Listens /\ XkbMods(keys) # XkbMods(keys')
  <2>1. Send(<<event>> \o <<mod>>)
    BY <1>1, <1>7
  <2>2. <<event>> \o <<mod>> = <<event, mod>>
    BY <1>2, ConcatPair
  <2> QED BY <1>4, <1>7, <2>1, <2>2
<1> QED BY <1>5, <1>6, <1>7

LEMMA NothingMoves ==
    ASSUME InputInv, setting' = setting, UNCHANGED program, NEW s \in Seq(Notice), Send(s),
           UNCHANGED <<caps, keys, focus, surface, buttons, version, turned, astray>>,
           "keyboard" \in serves' <=> "keyboard" \in serves, CompositorTypes',
           \A i \in 1 .. Len(s) : s[i].type \notin KeyboardMovers \cup PointerMovers \cup WheelMovers
    PROVE  InputInv'
<1>1. queue' = queue \o s
  BY Sending DEF InputInv
<1>2. Listens' <=> Listens
  BY DEF Listens
<1>3. KeyboardFollows'
  BY <1>1, <1>2, KeyboardKept, KeyboardUnmoved
<1>4. PointerFollows'
  BY <1>1, PointerKept, PointerUnmoved
<1>5. WheelFollows'
  BY <1>1, WheelKept
<1> QED BY <1>3, <1>4, <1>5, UserStep

LEMMA KeyRepeated ==
    ASSUME InputInv, setting' = setting, UNCHANGED program, NEW k \in Keys, RepeatKey(k)
    PROVE  InputInv'
<1> DEFINE event == KeyEvent(k, "repeated", keys)
           s == <<event>>
<1>0. CompositorTypes
  BY DEF InputInv
<1>1. /\ Listens /\ k \in keys /\ given' = given + 1 /\ Allows("repeat") /\ Send(s)
      /\ UNCHANGED <<caps, serves, keys, focus, rate, surface, buttons, version, turned, now, astray>>
  BY DEF RepeatKey
<1>2. event \in Notice /\ event.type = "key" /\ event.key = k /\ event.mods = Mods(keys) /\ event.state = "repeated"
  <2>1. k \in AllKeys
    BY <1>0, Listening
  <2> QED BY <2>1, KeyboardNotices, ModsAreModifiers DEF KeyEvent
<1> HIDE DEF event
<1>3. s \in Seq(Notice) /\ \A i \in 1 .. Len(s) : s[i] = event
  BY <1>2
<1> HIDE DEF s
<1>4. queue' = queue \o s
  BY <1>0, <1>1, <1>3, Sending
<1>5. CompositorTypes'
  BY <1>0, <1>1, <1>3, Sending, Allowing DEF CompositorTypes, Surfaces, Keys, Buttons, Inputs
<1>6. WheelFollows'
  BY <1>1, <1>2, <1>3, <1>4, WheelKept DEF WheelMovers
<1>7. PointerFollows'
  BY <1>1, <1>2, <1>3, <1>4, PointerKept, PointerUnmoved DEF PointerMovers
<1>8. KeyboardFollows'
  <2>1. ASSUME NEW state \in {"null", "set"}
        PROVE  KeyboardLeads(Changes, event, KeyboardThen(state), KeyboardThen(state))
    <3> DEFINE b == KeyboardThen(state)
    <3>1. b.stage = "active" /\ b.held = keys
      BY <1>0, <1>1, Listening DEF KeyboardThen
    <3> HIDE DEF b
    <3>2. KeyboardLeads(Changes, event, b, b)
      BY <1>1, <1>2, <3>1 DEF KeyboardLeads
    <3> USE DEF b
    <3> QED BY <3>2
  <2> QED BY <1>1, <1>3, <1>4, <2>1, KeyboardKept DEF Listens
<1> QED BY <1>5, <1>6, <1>7, <1>8, UserStep

LEMMA RateSet ==
    ASSUME InputInv, setting' = setting, UNCHANGED program, NEW r \in {0, 1}, SetRate(r)
    PROVE  InputInv'
<1> DEFINE event == [type |-> "repeat_info", rate |-> r]
           s == <<event>>
<1>0. CompositorTypes
  BY DEF InputInv
<1>1. /\ rate' = r /\ given' = given + 1 /\ Allows("repeat") /\ Send(s)
      /\ UNCHANGED <<caps, serves, keys, focus, surface, buttons, version, turned, now, astray>>
  BY DEF SetRate
<1>2. event \in Notice /\ event.type = "repeat_info"
  BY KeyboardNotices
<1> HIDE DEF event
<1>3. s \in Seq(Notice) /\ \A i \in 1 .. Len(s) : s[i] = event
  BY <1>2
<1> HIDE DEF s
<1>4. CompositorTypes'
  BY <1>0, <1>1, <1>3, Sending, Allowing DEF CompositorTypes, Surfaces, Keys, Buttons, Inputs
<1> QED BY <1>1, <1>2, <1>3, <1>4, NothingMoves DEF KeyboardMovers, PointerMovers, WheelMovers

LEMMA SeatAdded ==
    ASSUME InputInv, setting' = setting, UNCHANGED program, AddSeat
    PROVE  InputInv'
<1> DEFINE event == [type |-> "global"]
           s == <<event>>
<1>0. CompositorTypes
  BY DEF InputInv
<1>1. /\ given' = given + 1 /\ Allows("seat") /\ Send(s)
      /\ UNCHANGED <<caps, serves, keys, focus, rate, surface, buttons, version, turned, now, astray>>
  BY DEF AddSeat
<1>2. event \in Notice /\ event.type = "global"
  BY SeatNotices
<1> HIDE DEF event
<1>3. s \in Seq(Notice) /\ \A i \in 1 .. Len(s) : s[i] = event
  BY <1>2
<1> HIDE DEF s
<1>4. CompositorTypes'
  BY <1>0, <1>1, <1>3, Sending, Allowing DEF CompositorTypes, Surfaces, Keys, Buttons, Inputs
<1> QED BY <1>1, <1>2, <1>3, <1>4, NothingMoves DEF KeyboardMovers, PointerMovers, WheelMovers

LEMMA NothingSent ==
    ASSUME CompositorTypes, queue' = queue
    PROVE  <<>> \in Seq(Notice) /\ Send(<<>>) /\ \A i \in 1 .. Len(<<>>) : FALSE
<1>1. queue \in Seq(Notice) /\ Len(queue) <= setting.waiting /\ setting.waiting \in Nat
  BY SettingChosen DEF CompositorTypes
<1>2. queue \o <<>> = queue /\ Len(<<>>) = 0 /\ <<>> \in Seq(Notice)
  BY <1>1, ConcatEmptySeq, EmptySeq
<1> QED BY <1>1, <1>2, LenProperties DEF Send

LEMMA TimePasses ==
    ASSUME InputInv, setting' = setting, UNCHANGED program, Tick
    PROVE  InputInv'
<1>1. UNCHANGED <<caps, serves, keys, focus, rate, surface, buttons, version, turned, queue, given, astray>>
      /\ now' = now + 1
  BY DEF Tick
<1>2. CompositorTypes'
  BY <1>1 DEF InputInv, CompositorTypes, Surfaces, Keys, Buttons, Inputs
<1> QED BY <1>1, <1>2, NothingMoves, NothingSent DEF InputInv

LEMMA PointerServed ==
    ASSUME InputInv, setting' = setting, UNCHANGED program, ServePointer
    PROVE  InputInv'
<1>1. /\ "pointer" \in caps \ serves /\ serves' = serves \cup {"pointer"}
      /\ UNCHANGED <<caps, keys, focus, rate, surface, buttons, version, turned, now, queue, given, astray>>
  BY DEF ServePointer
<1>2. CompositorTypes'
  BY <1>1 DEF InputInv, CompositorTypes, Surfaces, Keys, Buttons, Inputs
<1> QED BY <1>1, <1>2, NothingMoves, NothingSent DEF InputInv

\* A window that gets the focus is told the keys already held, and then their modifiers.
LEMMA EnterLeads ==
    ASSUME NEW K \in SUBSET AllKeys, NEW changes, NEW held \in SUBSET K,
           NEW b \in KeyboardStates(K), NEW c \in KeyboardStates(K),
           b.stage = "bound", b.held = {}, changes = {} => b.state = "set",
           c.stage = "active", c.held = held, c.state = b.state
    PROVE  /\ Enter(held) \in Seq(Notice) /\ Len(Enter(held)) = 2
           /\ \A i \in 1 .. 2 : Enter(held)[i].type \in {"enter", "modifiers"}
           /\ Leads(Enter(held), KeyboardStep(changes, K), KeyboardStates(K), b, c)
<1> DEFINE e == [type |-> "enter", keys |-> held]
           m == ModEvent(held)
<1>1. e \in Notice /\ m \in Notice
  BY KeyboardNotices, ModsAreModifiers DEF ModEvent
<1>2. e.type = "enter" /\ e.keys = held /\ m.type = "modifiers" /\ m.mods = XkbMods(held)
  BY DEF ModEvent
<1>3. Enter(held) = <<e, m>>
  BY DEF Enter
<1> HIDE DEF e, m
<1>4. <<e, b, c>> \in KeyboardStep(changes, K) /\ <<m, c, c>> \in KeyboardStep(changes, K)
  <2>1. KeyboardLeads(changes, e, b, c)
    BY <1>2 DEF KeyboardLeads
  <2>2. KeyboardLeads(changes, m, c, c)
    BY <1>2 DEF KeyboardLeads
  <2> QED BY <1>1, <2>1, <2>2, KeyboardSteps
<1>5. Leads(<<e, m>>, KeyboardStep(changes, K), KeyboardStates(K), b, c)
  BY <1>1, <1>4, LeadsTwo
<1>6. Len(<<e, m>>) = 2 /\ \A i \in 1 .. 2 : <<e, m>>[i].type \in {"enter", "modifiers"}
  BY <1>2
<1> QED BY <1>1, <1>3, <1>5, <1>6

LEMMA FocusChanged ==
    ASSUME InputInv, setting' = setting, UNCHANGED program, ChangeFocus
    PROVE  InputInv'
<1>0. CompositorTypes
  BY DEF InputInv
<1>1. /\ focus' = ~focus /\ given' = given + 1 /\ Allows("focus") /\ focus \in BOOLEAN
      /\ UNCHANGED <<caps, serves, keys, rate, surface, buttons, version, turned, now, astray>>
      /\ Send(CASE Listens -> <<[type |-> "leave"]>>
              [] "keyboard" \in serves /\ ~focus -> Enter(keys)
              [] OTHER -> <<>>)
  BY <1>0 DEF ChangeFocus, CompositorTypes
<1>2. ASSUME NEW s \in Seq(Notice), Send(s), \A i \in 1 .. Len(s) : s[i].type \in {"leave", "enter", "modifiers"},
             KeyboardFollows'
      PROVE  InputInv'
  <2>1. queue' = queue \o s
    BY <1>0, <1>2, Sending
  <2>2. CompositorTypes'
    BY <1>0, <1>1, <1>2, Sending, Allowing DEF CompositorTypes, Surfaces, Keys, Buttons, Inputs
  <2>3. WheelFollows'
    BY <1>1, <1>2, <2>1, WheelKept DEF WheelMovers
  <2>4. PointerFollows'
    BY <1>1, <1>2, <2>1, PointerKept, PointerUnmoved DEF PointerMovers
  <2> QED BY <1>2, <2>2, <2>3, <2>4, UserStep
<1>3. CASE "keyboard" \notin serves
  <2>1. Send(<<>>) /\ <<>> \in Seq(Notice) /\ Len(<<>>) = 0
    <3>1. Send(<<>>)
      BY <1>1, <1>3 DEF Listens
    <3> QED BY <3>1, EmptySeq
  <2>2. \A i \in 1 .. Len(<<>>) : FALSE
    BY <2>1
  <2>3. queue' = queue \o <<>>
    BY <1>0, <2>1, Sending
  <2>4. KeyboardFollows'
    BY <1>1, <1>3, <2>1, <2>2, <2>3, KeyboardKept DEF Listens
  <2> QED BY <1>2, <2>1, <2>2, <2>4
<1>4. CASE "keyboard" \in serves /\ focus
  <2> DEFINE e == [type |-> "leave"]
             s == <<e>>
  <2>1. e \in Notice /\ e.type = "leave"
    BY KeyboardNotices
  <2>2. Send(s)
    BY <1>1, <1>4 DEF Listens
  <2> HIDE DEF e
  <2>3. s \in Seq(Notice) /\ \A i \in 1 .. Len(s) : s[i].type = "leave"
    BY <2>1
  <2>4. queue' = queue \o s
    BY <1>0, <2>2, <2>3, Sending
  <2>5. KeyboardFollows'
    <3> SUFFICES ASSUME NEW state \in {"null", "set"}, Changes = {} /\ "keyboard" \in serves => state = "set"
                 PROVE  /\ Changes = {} /\ "keyboard" \in serves' => state = "set"
                        /\ Leads(s, KeyboardStep(Changes, Keys), KeyboardStates(Keys),
                                 KeyboardThen(state), KeyboardThen(state)')
      BY <2>3, <2>4, KeyboardSent
    <3> DEFINE b == KeyboardThen(state)
               c == KeyboardThen(state)'
    <3>1. b \in KeyboardStates(Keys) /\ c \in KeyboardStates(Keys)
      BY <1>0, <1>1 DEF KeyboardThen, KeyboardStates, CompositorTypes
    <3>2. b.stage = "active" /\ c.stage = "bound" /\ c.state = b.state /\ c.held = {}
      BY <1>0, <1>1, <1>4 DEF KeyboardThen, Listens, CompositorTypes
    <3> HIDE DEF b, c
    <3>3. KeyboardLeads(Changes, e, b, c)
      BY <2>1, <3>2 DEF KeyboardLeads
    <3>4. Leads(<<e>>, KeyboardStep(Changes, Keys), KeyboardStates(Keys), b, c)
      BY <2>1, <3>1, <3>3, KeyboardSteps, LeadsOne
    <3> USE DEF b, c
    <3> QED BY <1>1, <3>4
  <2> HIDE DEF s
  <2> QED BY <1>2, <2>2, <2>3, <2>5
<1>5. CASE "keyboard" \in serves /\ ~focus
  <2>1. Send(Enter(keys))
    BY <1>1, <1>5 DEF Listens
  <2>2. ASSUME NEW state \in {"null", "set"}, Changes = {} => state = "set"
        PROVE  /\ Enter(keys) \in Seq(Notice) /\ Len(Enter(keys)) = 2
               /\ \A i \in 1 .. 2 : Enter(keys)[i].type \in {"enter", "modifiers"}
               /\ Leads(Enter(keys), KeyboardStep(Changes, Keys), KeyboardStates(Keys),
                        KeyboardThen(state), KeyboardThen(state)')
    <3> DEFINE b == KeyboardThen(state)
               c == KeyboardThen(state)'
    <3>1. b \in KeyboardStates(Keys) /\ c \in KeyboardStates(Keys)
      BY <1>0, <1>1 DEF KeyboardThen, KeyboardStates, CompositorTypes
    <3>2. /\ b.stage = "bound" /\ b.held = {} /\ b.state = state /\ c.state = state
          /\ c.stage = "active" /\ c.held = keys
      BY <1>0, <1>1, <1>5 DEF KeyboardThen, Listens, CompositorTypes
    <3>3. keys \in SUBSET Keys /\ Keys \in SUBSET AllKeys
      BY <1>0, Listening DEF CompositorTypes
    <3> HIDE DEF b, c
    <3>. c.state = b.state /\ (Changes = {} => b.state = "set")
      BY <2>2, <3>2
    <3>4. /\ Enter(keys) \in Seq(Notice) /\ Len(Enter(keys)) = 2
          /\ \A i \in 1 .. 2 : Enter(keys)[i].type \in {"enter", "modifiers"}
          /\ Leads(Enter(keys), KeyboardStep(Changes, Keys), KeyboardStates(Keys), b, c)
      BY <2>2, <3>1, <3>2, <3>3, EnterLeads
    <3> USE DEF b, c
    <3> QED BY <3>4
  <2>3. /\ Enter(keys) \in Seq(Notice) /\ Len(Enter(keys)) = 2
        /\ \A i \in 1 .. 2 : Enter(keys)[i].type \in {"enter", "modifiers"}
    BY <2>2
  <2>4. queue' = queue \o Enter(keys)
    BY <1>0, <2>1, <2>3, Sending
  <2>5. KeyboardFollows'
    <3>1. "keyboard" \in serves'
      BY <1>1, <1>5
    <3> QED BY <1>5, <2>2, <2>3, <2>4, <3>1, KeyboardSent
  <2> QED BY <1>2, <2>1, <2>3, <2>5
<1> QED BY <1>1, <1>3, <1>4, <1>5

LEMMA LayoutChanged ==
    ASSUME InputInv, setting' = setting, UNCHANGED program, ChangeLayout
    PROVE  InputInv'
<1> DEFINE e == [type |-> "keymap", keymap |-> "good"]
           m == ModEvent(keys)
           s == <<e, m>>
<1>0. CompositorTypes
  BY DEF InputInv
<1>1. /\ given' = given + 1 /\ Allows("layout") /\ Send(s) /\ Listens
      /\ UNCHANGED <<caps, serves, keys, focus, rate, surface, buttons, version, turned, now, astray>>
  BY DEF ChangeLayout
<1>2. /\ e \in Notice /\ e.type = "keymap" /\ e.keymap = "good"
      /\ m \in Notice /\ m.type = "modifiers" /\ m.mods = XkbMods(keys)
  BY KeyboardNotices, ModsAreModifiers DEF ModEvent
<1> HIDE DEF e, m
<1>3. s \in Seq(Notice) /\ \A i \in 1 .. Len(s) : s[i].type \in {"keymap", "modifiers"}
  BY <1>2
<1>4. queue' = queue \o s
  BY <1>0, <1>1, <1>3, Sending
<1>5. CompositorTypes'
  BY <1>0, <1>1, <1>3, Sending, Allowing DEF CompositorTypes, Surfaces, Keys, Buttons, Inputs
<1>6. WheelFollows'
  BY <1>1, <1>3, <1>4, WheelKept DEF WheelMovers
<1>7. PointerFollows'
  BY <1>1, <1>3, <1>4, PointerKept, PointerUnmoved DEF PointerMovers
<1>8. KeyboardFollows'
  <2>0. Changes # {}
    BY <1>0, <1>1, Allowing DEF Changes
  <2> SUFFICES ASSUME NEW state \in {"null", "set"}
               PROVE  Leads(s, KeyboardStep(Changes, Keys), KeyboardStates(Keys),
                            KeyboardThen(state), KeyboardThen("set")')
    BY <1>3, <1>4, <2>0, KeyboardSent
  <2> DEFINE b == KeyboardThen(state)
             c == KeyboardThen("set")'
  <2>1. b \in KeyboardStates(Keys) /\ c \in KeyboardStates(Keys)
    BY <1>0, <1>1 DEF KeyboardThen, KeyboardStates, CompositorTypes
  <2>2. /\ b.stage = "active" /\ b.held = keys
        /\ c.stage = "active" /\ c.state = "set" /\ c.held = keys
    BY <1>0, <1>1, Listening DEF KeyboardThen, Listens
  <2> HIDE DEF b, c
  <2>3. KeyboardLeads(Changes, e, b, c)
    BY <1>2, <2>0, <2>2 DEF KeyboardLeads
  <2>4. KeyboardLeads(Changes, m, c, c)
    BY <1>2, <2>2 DEF KeyboardLeads
  <2>5. Leads(s, KeyboardStep(Changes, Keys), KeyboardStates(Keys), b, c)
    BY <1>2, <2>1, <2>3, <2>4, KeyboardSteps, LeadsTwo
  <2> USE DEF b, c
  <2> QED BY <2>5
<1> QED BY <1>5, <1>6, <1>7, <1>8, UserStep

LEMMA KeyboardServed ==
    ASSUME InputInv, setting' = setting, UNCHANGED program, NEW keymap \in {"good", "bad"}, ServeKeyboard(keymap)
    PROVE  InputInv'
<1> DEFINE e == [type |-> "keymap", keymap |-> keymap]
           r == [type |-> "repeat_info", rate |-> rate]
           s == <<e, r>>
           rest == IF focus THEN Enter(keys) ELSE <<>>
<1>0. CompositorTypes
  BY DEF InputInv
<1>1. /\ "keyboard" \in caps \ serves /\ serves' = serves \cup {"keyboard"} /\ Send(s \o rest)
      /\ keymap = "good" \/ "bad_keymap" \in Inputs
      /\ UNCHANGED <<caps, keys, focus, rate, surface, buttons, version, turned, now, given, astray>>
  BY DEF ServeKeyboard
<1>2. /\ e \in Notice /\ e.type = "keymap" /\ e.keymap = keymap
      /\ r \in Notice /\ r.type = "repeat_info"
  BY <1>0, KeyboardNotices DEF CompositorTypes
<1> HIDE DEF e, r
<1>3. s \in Seq(Notice) /\ \A i \in 1 .. Len(s) : s[i].type \in {"keymap", "repeat_info"}
  BY <1>2
<1>4. Changes = {} => keymap = "good"
  BY <1>1 DEF Changes
\* The keymap and the rate, and the keys held if the window has the focus.
<1>5. ASSUME NEW state \in {"null", "set"}
      PROVE  \E after \in {"null", "set"} :
                /\ Changes = {} => after = "set"
                /\ rest \in Seq(Notice) /\ \A i \in 1 .. Len(rest) : rest[i].type \in {"enter", "modifiers"}
                /\ Leads(s \o rest, KeyboardStep(Changes, Keys), KeyboardStates(Keys),
                         KeyboardThen(state), KeyboardThen(after)')
  <2> DEFINE after == IF keymap = "good" THEN "set" ELSE state
             b == KeyboardThen(state)
             m == KeyboardThen(after)
             c == KeyboardThen(after)'
  <2>1. b \in KeyboardStates(Keys) /\ m \in KeyboardStates(Keys) /\ c \in KeyboardStates(Keys)
    BY <1>0, <1>1 DEF KeyboardThen, KeyboardStates, CompositorTypes
  <2>2. /\ b.stage = "bound" /\ b.held = {} /\ b.state = state
        /\ m.stage = "bound" /\ m.held = {} /\ m.state = after
        /\ c.stage = (IF focus THEN "active" ELSE "bound") /\ c.state = after
        /\ c.held = (IF focus THEN keys ELSE {})
    BY <1>0, <1>1 DEF KeyboardThen, Listens, CompositorTypes
  <2>3. after \in {"null", "set"} /\ (Changes = {} => after = "set")
    BY <1>4
  <2> HIDE DEF b, c, m
  <2>4. KeyboardLeads(Changes, e, b, m)
    BY <1>2, <1>4, <2>2 DEF KeyboardLeads
  <2>5. KeyboardLeads(Changes, r, m, m)
    BY <1>2 DEF KeyboardLeads
  <2>6. Leads(s, KeyboardStep(Changes, Keys), KeyboardStates(Keys), b, m)
    BY <1>2, <2>1, <2>4, <2>5, KeyboardSteps, LeadsTwo
  <2>7. CASE focus
    <3>1. keys \in SUBSET Keys /\ Keys \in SUBSET AllKeys
      BY <1>0, Listening DEF CompositorTypes
    <3>2. Changes = {} => m.state = "set"
      BY <2>2, <2>3
    <3>3. c.stage = "active" /\ c.held = keys /\ c.state = m.state
      BY <2>2, <2>7
    <3>4. /\ Enter(keys) \in Seq(Notice) /\ Len(Enter(keys)) = 2
          /\ \A i \in 1 .. 2 : Enter(keys)[i].type \in {"enter", "modifiers"}
          /\ Leads(Enter(keys), KeyboardStep(Changes, Keys), KeyboardStates(Keys), m, c)
      <4>1. m \in KeyboardStates(Keys) /\ c \in KeyboardStates(Keys) /\ m.stage = "bound" /\ m.held = {}
        BY <2>1, <2>2
      <4> QED BY <3>1, <3>2, <3>3, <4>1, EnterLeads
    <3>5. rest = Enter(keys)
      BY <2>7
    <3> HIDE DEF s, rest
    <3>6. Leads(s \o rest, KeyboardStep(Changes, Keys), KeyboardStates(Keys), b, c)
      BY <1>3, <2>6, <3>4, <3>5, LeadsConcat
    <3>7. rest \in Seq(Notice) /\ \A i \in 1 .. Len(rest) : rest[i].type \in {"enter", "modifiers"}
      BY <3>4, <3>5
    <3> USE DEF b, c
    <3> QED BY <2>3, <3>6, <3>7
  <2>8. CASE ~focus
    <3>1. m = c
      BY <2>1, <2>2, <2>8, KeyboardSame
    <3>2. rest = <<>> /\ <<>> \in Seq(Notice) /\ \A i \in 1 .. Len(<<>>) : FALSE
      BY <2>8, EmptySeq
    <3> HIDE DEF s, rest
    <3>3. s \o rest = s
      BY <1>3, <3>2, ConcatEmptySeq
    <3>4. rest \in Seq(Notice) /\ \A i \in 1 .. Len(rest) : rest[i].type \in {"enter", "modifiers"}
      BY <3>2
    <3>5. Leads(s \o rest, KeyboardStep(Changes, Keys), KeyboardStates(Keys), b, c)
      BY <2>6, <3>1, <3>3
    <3> USE DEF b, c
    <3> QED BY <2>3, <3>4, <3>5
  <2> QED BY <1>0, <2>7, <2>8 DEF CompositorTypes
<1>6. rest \in Seq(Notice) /\ \A i \in 1 .. Len(rest) : rest[i].type \in {"enter", "modifiers"}
  BY <1>5
<1> DEFINE all == s \o rest
<1> HIDE DEF s, rest
<1>7. /\ all \in Seq(Notice) /\ Send(all)
      /\ \A i \in 1 .. Len(all) : all[i].type \in {"keymap", "repeat_info", "enter", "modifiers"}
  <2>1. all \in Seq(Notice) /\ \A i \in 1 .. Len(all) : all[i].type \in {"keymap", "repeat_info"} \cup {"enter", "modifiers"}
    BY <1>3, <1>6, ConcatTypes
  <2> QED BY <1>1, <2>1
<1>a. \A state \in {"null", "set"} :
         \E after \in {"null", "set"} :
            /\ Changes = {} => after = "set"
            /\ Leads(all, KeyboardStep(Changes, Keys), KeyboardStates(Keys),
                     KeyboardThen(state), KeyboardThen(after)')
  BY <1>5
<1> HIDE DEF all
<1>8. queue' = queue \o all
  BY <1>0, <1>7, Sending
<1>9. CompositorTypes'
  BY <1>0, <1>1, <1>7, Sending DEF CompositorTypes, Surfaces, Keys, Buttons, Inputs
<1>10. WheelFollows'
  BY <1>1, <1>7, <1>8, WheelKept DEF WheelMovers
<1>11. PointerFollows'
  BY <1>1, <1>7, <1>8, PointerKept, PointerUnmoved DEF PointerMovers
<1>12. KeyboardFollows'
  BY <1>a, <1>7, <1>8, KeyboardSent
<1> QED BY <1>9, <1>10, <1>11, <1>12, UserStep

\* A device that comes or goes: the events of those that went say no more.
LEMMA Plugged ==
    ASSUME InputInv, setting' = setting, UNCHANGED program, NEW c \in SUBSET {"keyboard", "pointer"},
           NEW e \in Notice, Plug(c, e), NEW kind, Allows(kind),
           (e.type = "capabilities" /\ e.caps = c) \/ (e.type = "global_remove" /\ c = {})
    PROVE  InputInv'
<1> DEFINE s == <<e>>
<1>0. CompositorTypes
  BY DEF InputInv
<1>1. /\ caps' = c /\ serves' = serves \cap c /\ given' = given + 1
      /\ keys' = (IF "keyboard" \in c THEN keys ELSE {})
      /\ surface' = (IF "pointer" \in c THEN surface ELSE "none")
      /\ buttons' = (IF "pointer" \in c THEN buttons ELSE {})
      /\ Send(s)
      /\ UNCHANGED <<focus, rate, version, turned, now, astray>>
  BY DEF Plug
<1>2. s \in Seq(Notice) /\ \A i \in 1 .. Len(s) : s[i] = e
  OBVIOUS
<1>3. queue' = queue \o s
  BY <1>0, <1>1, <1>2, Sending
<1>4. CompositorTypes'
  <2>1. keys' \subseteq Keys /\ buttons' \subseteq Buttons /\ surface' \in Surfaces
    BY <1>0, <1>1 DEF CompositorTypes, Surfaces
  <2>2. /\ serves' \subseteq caps' /\ ("keyboard" \notin caps' => keys' = {})
        /\ ("pointer" \notin serves' => surface' = "none") /\ (surface' = "none" => buttons' = {})
    BY <1>0, <1>1 DEF CompositorTypes
  <2> QED BY <1>0, <1>1, <1>2, <2>1, <2>2, Sending, Allowing DEF CompositorTypes, Surfaces, Keys, Buttons, Inputs
<1>5. WheelFollows'
  BY <1>1, <1>2, <1>3, WheelKept DEF WheelMovers
<1>6. KeyboardFollows'
  <2> SUFFICES ASSUME NEW state \in {"null", "set"}, Changes = {} /\ "keyboard" \in serves => state = "set"
               PROVE  /\ Changes = {} /\ "keyboard" \in serves' => state = "set"
                      /\ Leads(s, KeyboardStep(Changes, Keys), KeyboardStates(Keys),
                               KeyboardThen(state), KeyboardThen(state)')
    BY <1>2, <1>3, KeyboardSent
  <2> DEFINE a == KeyboardThen(state)
             b == KeyboardThen(state)'
  <2>1. a \in KeyboardStates(Keys) /\ b \in KeyboardStates(Keys)
    BY <1>0, <1>1 DEF KeyboardThen, KeyboardStates, CompositorTypes
  <2>2. /\ b.state = a.state
        /\ IF "keyboard" \notin c THEN b.stage = "none" /\ b.held = {}
           ELSE b.stage = (IF a.stage = "none" THEN "bound" ELSE a.stage) /\ b.held = a.held
    BY <1>0, <1>1 DEF KeyboardThen, Listens, CompositorTypes
  <2> HIDE DEF a, b
  <2>3. KeyboardLeads(Changes, e, a, b)
    BY <2>2 DEF KeyboardLeads
  <2>4. Leads(s, KeyboardStep(Changes, Keys), KeyboardStates(Keys), a, b)
    BY <2>1, <2>3, KeyboardSteps, LeadsOne
  <2> USE DEF a, b
  <2> QED BY <1>1, <2>4
<1>7. PointerFollows'
  <2> SUFFICES ASSUME NEW held \in SUBSET (1 .. 7), ~astray => held = {b \in buttons : b <= 7}
               PROVE  \E after \in SUBSET (1 .. 7) :
                        /\ ~astray => after = {b \in buttons' : b <= 7}
                        /\ Leads(s, PointerStep(Manners), PointerStates, PointerThen(held), PointerThen(after)')
    BY <1>1, <1>2, <1>3, PointerSent
  <2> DEFINE after == IF "pointer" \in c THEN held ELSE {}
             a == PointerThen(held)
             b == PointerThen(after)'
  <2>0. after \in SUBSET (1 .. 7) /\ (~astray => after = {x \in buttons' : x <= 7})
    BY <1>1
  <2>1. a \in PointerStates /\ b \in PointerStates
    BY <1>0, <1>1, <2>0 DEF PointerThen, PointerStates, CompositorTypes
  <2>2. IF "pointer" \notin c THEN b.stage = "none" /\ b.held = {}
        ELSE b.stage = (IF a.stage = "none" THEN "outside" ELSE a.stage) /\ b.held = a.held
    BY <1>0, <1>1 DEF PointerThen, CompositorTypes
  <2> HIDE DEF a, b
  <2>3. PointerLeads(Manners, e, a, b)
    BY <2>2 DEF PointerLeads
  <2>4. Leads(s, PointerStep(Manners), PointerStates, a, b)
    BY <2>1, <2>3, PointerSteps, LeadsOne
  <2> USE DEF a, b
  <2> QED BY <2>0, <2>4
<1> QED BY <1>4, <1>5, <1>6, <1>7, UserStep

\* The surface the pointer is over is told once, and so is what it leaves.
LEMMA PointerMoved ==
    ASSUME InputInv, setting' = setting, UNCHANGED program, NEW o \in Surfaces, MovePointer(o)
    PROVE  InputInv'
<1> DEFINE off == PointerEvent("pointer_leave", surface)
           on == PointerEvent("pointer_enter", o)
           s == off \o on
<1>0. CompositorTypes
  BY DEF InputInv
<1>1. /\ "pointer" \in serves /\ o # surface /\ buttons = {} /\ surface' = o /\ given' = given + 1
      /\ Allows("pointer") /\ Send(s)
      /\ UNCHANGED <<caps, serves, keys, focus, rate, buttons, version, turned, now, astray>>
  BY DEF MovePointer
<1>2. o \in {"none", "content", "frame"} /\ surface \in {"none", "content", "frame"} /\ "pointer" \in caps
  BY <1>0, <1>1 DEF CompositorTypes, Surfaces
\* Each of the two leads from outside to where the pointer is, or the other way.
<1>3. ASSUME NEW t \in {"pointer_leave", "pointer_enter"}, NEW x \in {"none", "content", "frame"},
             NEW a \in PointerStates, NEW b \in PointerStates, a.held = b.held, astray \/ a.held = {},
             a.stage = (IF t = "pointer_leave" /\ x = "content" THEN "inside" ELSE "outside"),
             b.stage = (IF t = "pointer_enter" /\ x = "content" THEN "inside" ELSE "outside")
      PROVE  /\ PointerEvent(t, x) \in Seq(Notice)
             /\ \A i \in 1 .. Len(PointerEvent(t, x)) : PointerEvent(t, x)[i].type = t
             /\ Leads(PointerEvent(t, x), PointerStep(Manners), PointerStates, a, b)
  <2>1. CASE x = "none"
    <3>1. PointerEvent(t, x) = <<>> /\ <<>> \in Seq(Notice) /\ \A i \in 1 .. Len(<<>>) : FALSE
      BY <2>1, EmptySeq DEF PointerEvent
    <3>2. a = b
      BY <1>3, <2>1, PointerSame
    <3> QED BY <3>1, <3>2, LeadsEmpty
  <2>2. CASE x # "none"
    <3> DEFINE e == [type |-> t, surface |-> x]
    <3>1. e \in Notice /\ e.type = t /\ e.surface = x
      BY <2>2, PointerNotices
    <3>2. PointerEvent(t, x) = <<e>>
      BY <2>2 DEF PointerEvent
    <3> HIDE DEF e
    <3>3. PointerLeads(Manners, e, a, b)
      <4>1. CASE x = "frame"
        <5>1. a = b
          BY <1>3, <4>1, PointerSame
        <5> QED BY <3>1, <4>1, <5>1 DEF PointerLeads
      <4>2. CASE x = "content"
        BY <1>3, <3>1, <4>2 DEF PointerLeads, Manners
      <4> QED BY <2>2, <4>1, <4>2
    <3>4. Leads(<<e>>, PointerStep(Manners), PointerStates, a, b)
      BY <3>1, <3>3, PointerSteps, LeadsOne
    <3>5. <<e>> \in Seq(Notice) /\ \A i \in 1 .. Len(<<e>>) : <<e>>[i].type = t
      BY <3>1
    <3> QED BY <3>2, <3>4, <3>5
  <2> QED BY <2>1, <2>2
<1>4. ASSUME NEW held \in SUBSET (1 .. 7), ~astray => held = {b \in buttons : b <= 7}
      PROVE  /\ off \in Seq(Notice) /\ \A i \in 1 .. Len(off) : off[i].type = "pointer_leave"
             /\ on \in Seq(Notice) /\ \A i \in 1 .. Len(on) : on[i].type = "pointer_enter"
             /\ Leads(s, PointerStep(Manners), PointerStates, PointerThen(held), PointerThen(held)')
  <2> DEFINE a == PointerThen(held)
             b == [stage |-> "outside", held |-> held]
             c == PointerThen(held)'
  <2>1. a \in PointerStates /\ b \in PointerStates /\ c \in PointerStates
    BY <1>0, <1>1 DEF PointerThen, PointerStates, CompositorTypes
  <2>2. /\ a.stage = (IF surface = "content" THEN "inside" ELSE "outside")
        /\ b.stage = "outside"
        /\ c.stage = (IF o = "content" THEN "inside" ELSE "outside")
        /\ a.held = b.held /\ b.held = c.held
    BY <1>0, <1>1, <1>2 DEF PointerThen, CompositorTypes
  <2>3. (astray \/ a.held = {}) /\ (astray \/ b.held = {})
    BY <1>0, <1>1, <1>4 DEF PointerThen, CompositorTypes
  <2> HIDE DEF a, b, c, off, on
  <2>4. /\ off \in Seq(Notice) /\ \A i \in 1 .. Len(off) : off[i].type = "pointer_leave"
        /\ Leads(off, PointerStep(Manners), PointerStates, a, b)
    BY <1>2, <1>3, <2>1, <2>2, <2>3 DEF off
  <2>5. /\ on \in Seq(Notice) /\ \A i \in 1 .. Len(on) : on[i].type = "pointer_enter"
        /\ Leads(on, PointerStep(Manners), PointerStates, b, c)
    BY <1>2, <1>3, <2>1, <2>2, <2>3 DEF on
  <2>6. Leads(s, PointerStep(Manners), PointerStates, a, c)
    BY <2>4, <2>5, LeadsConcat
  <2> USE DEF a, c
  <2> QED BY <2>4, <2>5, <2>6
<1>5. /\ off \in Seq(Notice) /\ \A i \in 1 .. Len(off) : off[i].type = "pointer_leave"
      /\ on \in Seq(Notice) /\ \A i \in 1 .. Len(on) : on[i].type = "pointer_enter"
  <2>1. \E held \in SUBSET (1 .. 7) : ~astray => held = {b \in buttons : b <= 7}
    BY <1>1
  <2> QED BY <1>4, <2>1
<1> HIDE DEF off, on
<1>6. s \in Seq(Notice) /\ \A i \in 1 .. Len(s) : s[i].type \in {"pointer_leave", "pointer_enter"}
  <2>1. off \in Seq(Notice) /\ \A i \in 1 .. Len(off) : off[i].type \in {"pointer_leave"}
    BY <1>5
  <2>2. on \in Seq(Notice) /\ \A i \in 1 .. Len(on) : on[i].type \in {"pointer_enter"}
    BY <1>5
  <2>3. s \in Seq(Notice) /\ \A i \in 1 .. Len(s) : s[i].type \in {"pointer_leave"} \cup {"pointer_enter"}
    BY <2>1, <2>2, ConcatTypes
  <2> QED BY <2>3
<1> HIDE DEF s
<1>7. queue' = queue \o s
  BY <1>0, <1>1, <1>6, Sending
<1>8. CompositorTypes'
  BY <1>0, <1>1, <1>6, Sending, Allowing DEF CompositorTypes, Surfaces, Keys, Buttons, Inputs
<1>9. WheelFollows'
  BY <1>1, <1>6, <1>7, WheelKept DEF WheelMovers
<1>10. KeyboardFollows'
  BY <1>1, <1>6, <1>7, KeyboardKept, KeyboardUnmoved DEF KeyboardMovers, Listens
<1>11. PointerFollows'
  <2>1. \A held \in SUBSET (1 .. 7) :
           (~astray => held = {b \in buttons : b <= 7})
           => Leads(s, PointerStep(Manners), PointerStates, PointerThen(held), PointerThen(held)')
    BY <1>4
  <2>2. \A held \in SUBSET (1 .. 7) :
           (~astray => held = {b \in buttons : b <= 7})
           => /\ ~astray => held = {b \in buttons' : b <= 7}
              /\ Leads(s, PointerStep(Manners), PointerStates, PointerThen(held), PointerThen(held)')
    BY <1>1, <2>1
  <2> QED BY <1>1, <1>6, <1>7, <2>2, PointerSent
<1> QED BY <1>8, <1>9, <1>10, <1>11, UserStep

LEMMA ButtonMoved ==
    ASSUME InputInv, setting' = setting, UNCHANGED program, NEW n \in Buttons, Button(n)
    PROVE  InputInv'
<1> DEFINE e == [type |-> "button", button |-> n, state |-> IF n \in buttons THEN "released" ELSE "pressed"]
           s == <<e>>
<1>0. CompositorTypes
  BY DEF InputInv
<1>1. /\ surface # "none" /\ buttons' = (buttons \ {n}) \cup ({n} \ buttons) /\ given' = given + 1
      /\ Allows("pointer") /\ Send(s)
      /\ UNCHANGED <<caps, serves, keys, focus, rate, surface, version, turned, now, astray>>
  BY DEF Button
<1>2. n \in Nat \ {0}
  BY <1>0, SettingChosen DEF CompositorTypes
<1>3. /\ e \in Notice /\ e.type = "button" /\ e.button = n
      /\ e.state = (IF n \in buttons THEN "released" ELSE "pressed")
  <2>1. (IF n \in buttons THEN "released" ELSE "pressed") \in {"pressed", "released"}
    OBVIOUS
  <2> QED BY <1>2, <2>1, PointerNotices
<1> HIDE DEF e
<1>4. s \in Seq(Notice) /\ \A i \in 1 .. Len(s) : s[i] = e
  BY <1>3
<1>5. queue' = queue \o s
  BY <1>0, <1>1, <1>4, Sending
<1>6. CompositorTypes'
  <2>1. buttons' \subseteq Buttons
    BY <1>0, <1>1 DEF CompositorTypes
  <2> QED BY <1>0, <1>1, <1>4, <2>1, Sending, Allowing DEF CompositorTypes, Surfaces, Keys, Buttons, Inputs
<1>7. WheelFollows'
  BY <1>1, <1>3, <1>4, <1>5, WheelKept DEF WheelMovers
<1>8. KeyboardFollows'
  BY <1>1, <1>3, <1>4, <1>5, KeyboardKept, KeyboardUnmoved DEF KeyboardMovers, Listens
<1>9. PointerFollows'
  <2> SUFFICES ASSUME NEW held \in SUBSET (1 .. 7), ~astray => held = {b \in buttons : b <= 7}
               PROVE  \E after \in SUBSET (1 .. 7) :
                        /\ ~astray => after = {b \in buttons' : b <= 7}
                        /\ Leads(s, PointerStep(Manners), PointerStates, PointerThen(held), PointerThen(after)')
    BY <1>1, <1>4, <1>5, PointerSent
  <2>0. PICK after \in SUBSET (1 .. 7) :
           after = IF n > 7 THEN held ELSE IF n \in buttons THEN held \ {n} ELSE held \cup {n}
    <3>1. (IF n > 7 THEN held ELSE IF n \in buttons THEN held \ {n} ELSE held \cup {n}) \in SUBSET (1 .. 7)
      BY <1>2
    <3> QED BY <3>1
  <2> DEFINE a == PointerThen(held)
             b == PointerThen(after)'
  <2>1. ~astray => after = {x \in buttons' : x <= 7}
    <3> SUFFICES ASSUME ~astray PROVE after = {x \in buttons' : x <= 7}
      OBVIOUS
    <3>1. \A x : x \in after <=> x \in buttons' /\ x <= 7
      BY <1>1, <1>2, <2>0
    <3> QED BY <3>1
  <2>2. a \in PointerStates /\ b \in PointerStates
    BY <1>0, <1>1, <2>0 DEF PointerThen, PointerStates, CompositorTypes
  <2>3. a.stage # "none" /\ b.stage = a.stage /\ a.held = held /\ b.held = after
    BY <1>0, <1>1 DEF PointerThen, CompositorTypes
  <2>4. b.held = (IF e.button > 7 THEN a.held
                  ELSE IF e.state = "pressed" THEN a.held \cup {e.button} ELSE a.held \ {e.button})
    BY <1>3, <2>0, <2>3
  <2> HIDE DEF a, b
  <2>5. PointerLeads(Manners, e, a, b)
    BY <1>3, <2>3, <2>4 DEF PointerLeads
  <2>6. Leads(s, PointerStep(Manners), PointerStates, a, b)
    BY <1>3, <2>2, <2>5, PointerSteps, LeadsOne
  <2> USE DEF a, b
  <2> QED BY <2>0, <2>1, <2>6
<1> QED BY <1>6, <1>7, <1>8, <1>9, UserStep

\* From here on a button may be down that the user has released.
LEMMA TitleBarDragged ==
    ASSUME InputInv, setting' = setting, UNCHANGED program, DragTitleBar
    PROVE  InputInv'
<1> DEFINE e == [type |-> "pointer_leave", surface |-> "frame"]
           s == <<e>>
<1>0. CompositorTypes
  BY DEF InputInv
<1>1. /\ surface = "frame" /\ surface' = "none" /\ buttons' = {} /\ astray' = TRUE /\ given' = given + 1
      /\ Allows("frame") /\ Send(s)
      /\ UNCHANGED <<caps, serves, keys, focus, rate, version, turned, now>>
  BY DEF DragTitleBar, PointerEvent
<1>2. e \in Notice /\ e.type = "pointer_leave" /\ e.surface = "frame"
  BY PointerNotices
<1> HIDE DEF e
<1>3. s \in Seq(Notice) /\ \A i \in 1 .. Len(s) : s[i] = e
  BY <1>2
<1>4. queue' = queue \o s
  BY <1>0, <1>1, <1>3, Sending
<1>5. CompositorTypes'
  <2>1. surface' \in Surfaces' /\ buttons' \subseteq Buttons' /\ astray' \in BOOLEAN
    BY <1>1 DEF Surfaces
  <2> QED BY <1>0, <1>1, <1>3, <2>1, Sending, Allowing DEF CompositorTypes, Keys, Buttons, Inputs
<1>6. WheelFollows'
  BY <1>1, <1>2, <1>3, <1>4, WheelKept DEF WheelMovers
<1>7. KeyboardFollows'
  BY <1>1, <1>2, <1>3, <1>4, KeyboardKept, KeyboardUnmoved DEF KeyboardMovers, Listens
<1>8. PointerFollows'
  <2>1. PICK held \in SUBSET (1 .. 7) :
            Leads(queue, PointerStep(Manners), PointerStates, PointerNow, PointerThen(held))
    BY DEF InputInv, PointerFollows
  <2> DEFINE b == PointerThen(held)
  <2>2. PointerThen(held)' = b /\ PointerNow' = PointerNow /\ b \in PointerStates /\ Manners' = "lax"
    <3>1. PointerThen(held)' = b
      BY <1>1 DEF PointerThen
    <3>2. PointerNow' = PointerNow
      BY DEF PointerNow, program, mouse, objects
    <3>3. b \in PointerStates
      BY NowAndThen DEF InputInv
    <3>4. Manners' = "lax"
      BY <1>1 DEF Manners
    <3> QED BY <3>1, <3>2, <3>3, <3>4
  <2> HIDE DEF b
  <2>3. queue \in Seq(Notice) /\ Len(queue) \in Nat
    BY <1>0, LenProperties DEF CompositorTypes
  <2>4. ASSUME NEW i \in 1 .. Len(queue), NEW x \in PointerStates, NEW y \in PointerStates,
               <<queue[i], x, y>> \in PointerStep(Manners)
        PROVE  <<queue[i], x, y>> \in PointerStep("lax")
    <3>1. queue[i] \in Notice
      BY <2>3, ElementOfSeq
    <3>2. PointerLeads(Manners, queue[i], x, y)
      BY <2>4, <3>1, PointerSteps
    <3>3. PointerLeads("lax", queue[i], x, y)
      BY <3>2 DEF PointerLeads
    <3> QED BY <3>1, <3>3, PointerSteps
  <2>5. Leads(queue, PointerStep("lax"), PointerStates, PointerNow, b)
    <3>1. Leads(queue, PointerStep(Manners), PointerStates, PointerNow, b)
      BY <2>1 DEF b
    <3> QED BY <2>3, <2>4, <3>1, LeadsMore
  <2>6. <<e, b, b>> \in PointerStep("lax")
    <3>1. PointerLeads("lax", e, b, b)
      BY <1>2 DEF PointerLeads
    <3> QED BY <1>2, <2>2, <3>1, PointerSteps
  <2>7. Leads(queue \o s, PointerStep("lax"), PointerStates, PointerNow, b)
    BY <1>3, <2>2, <2>3, <2>5, <2>6, LeadsKept
  <2>8. Leads(queue', PointerStep(Manners'), PointerStates, PointerNow', PointerThen(held)')
    BY <1>4, <2>2, <2>7
  <2> QED BY <1>1, <2>1, <2>8 DEF PointerFollows
<1> QED BY <1>5, <1>6, <1>7, <1>8, UserStep

\* One notch, in the forms that the version of the protocol has, ends in one sum.
LEMMA Turned ==
    ASSUME InputInv, setting' = setting, UNCHANGED program, NEW finger \in BOOLEAN, Turn(finger)
    PROVE  InputInv'
<1> DEFINE axis == [type |-> "axis", value |-> 2]
           step == IF version >= 8 THEN [type |-> "axis_value120", value |-> 120]
                                   ELSE [type |-> "axis_discrete", value |-> 1]
           frame == [type |-> "frame"]
           steps == version >= 5 /\ ~finger
           V == WheelStates
           D == WheelStep(version)
           a == WheelThen
           b == WheelThen'
           half == [sum |-> turned, continuous |-> 2, discrete |-> 0, fine |-> 0]
           whole == [sum |-> turned, continuous |-> 2, discrete |-> IF version >= 8 THEN 0 ELSE 1,
                    fine |-> IF version >= 8 THEN 120 ELSE 0]
<1>0. CompositorTypes /\ version \in {1, 5, 8} /\ turned \in Nat
  BY DEF InputInv, CompositorTypes
<1>1. /\ turned' = turned + (IF steps THEN 1 ELSE 2) /\ given' = given + 1
      /\ Allows("wheel")
      /\ Send(<<axis>> \o (IF steps THEN <<step>> ELSE <<>>)
                       \o (IF version >= 5 THEN <<frame>> ELSE <<>>))
      /\ UNCHANGED <<caps, serves, keys, focus, rate, surface, buttons, version, now, astray>>
  BY DEF Turn
<1>2. axis \in Notice /\ step \in Notice /\ frame \in Notice
  BY PointerNotices
<1>3. /\ axis.type = "axis" /\ frame.type = "frame"
      /\ step.type = (IF version >= 8 THEN "axis_value120" ELSE "axis_discrete")
  OBVIOUS
<1>4. a \in V /\ half \in V /\ whole \in V /\ b \in V
  <2>1. turned' \in Nat
    BY <1>0, <1>1
  <2> QED BY <1>0, <2>1 DEF WheelThen, WheelStates
<1>5. /\ a.sum = turned /\ NothingGathered(a) /\ b.sum = turned' /\ NothingGathered(b)
      /\ half.sum = turned /\ half.continuous = 2 /\ half.discrete = 0 /\ half.fine = 0
      /\ whole.sum = turned /\ whole.continuous = 2
      /\ whole.discrete = (IF version >= 8 THEN 0 ELSE 1) /\ whole.fine = (IF version >= 8 THEN 120 ELSE 0)
  BY DEF WheelThen, NothingGathered
<1> HIDE DEF axis, step, frame, a, b, half, whole
<1>6. version >= 5 => <<axis, a, half>> \in D
  <2> SUFFICES ASSUME version >= 5 PROVE WheelLeads(version, axis, a, half)
    BY <1>2, <1>4, WheelSteps
  <2> QED BY <1>0, <1>3, <1>5 DEF WheelLeads, NothingGathered
<1>7. version >= 5 => <<step, half, whole>> \in D
  <2> SUFFICES ASSUME version >= 5 PROVE WheelLeads(version, step, half, whole)
    BY <1>2, <1>4, WheelSteps
  <2> QED BY <1>0, <1>3, <1>5 DEF WheelLeads
<1>8. ASSUME NEW s \in Seq(Notice), Send(s), \A i \in 1 .. Len(s) : s[i].type \in WheelMovers,
             Leads(s, D, V, a, b)
      PROVE  InputInv'
  <2>1. queue' = queue \o s
    BY <1>0, <1>8, Sending
  <2>2. CompositorTypes'
    <3>1. turned' \in Nat
      BY <1>0, <1>1
    <3> QED BY <1>0, <1>1, <1>8, <3>1, Sending, Allowing DEF CompositorTypes, Surfaces, Keys, Buttons, Inputs
  <2>3. KeyboardFollows'
    BY <1>1, <1>8, <2>1, KeyboardKept, KeyboardUnmoved DEF KeyboardMovers, WheelMovers, Listens
  <2>4. PointerFollows'
    BY <1>1, <1>8, <2>1, PointerKept, PointerUnmoved DEF PointerMovers, WheelMovers
  <2>5. WheelFollows'
    BY <1>1, <1>8, <2>1, WheelSent DEF a, b
  <2> QED BY <2>2, <2>3, <2>4, <2>5, UserStep
<1>9. CASE version < 5
  <2>1. Send(<<axis>>)
    <3>1. Send(<<axis>> \o <<>> \o <<>>)
      <4>1. version = 1
        BY <1>0, <1>9
      <4> QED BY <1>1, <4>1
    <3>2. <<axis>> \o <<>> = <<axis>>
      BY <1>2, ConcatEmptySeq
    <3> QED BY <3>1, <3>2
  <2>2. WheelLeads(version, axis, a, b)
    BY <1>0, <1>1, <1>3, <1>5, <1>9 DEF WheelLeads, NothingGathered
  <2>3. Leads(<<axis>>, D, V, a, b)
    BY <1>2, <1>4, <2>2, WheelSteps, LeadsOne
  <2>4. <<axis>> \in Seq(Notice) /\ \A i \in 1 .. Len(<<axis>>) : <<axis>>[i].type \in WheelMovers
    BY <1>2, <1>3 DEF WheelMovers
  <2> QED BY <1>8, <2>1, <2>3, <2>4
<1>10. CASE version >= 5 /\ finger
  <2>1. Send(<<axis, frame>>)
    <3>1. Send(<<axis>> \o <<>> \o <<frame>>)
      BY <1>1, <1>10
    <3>2. <<axis>> \o <<>> = <<axis>>
      BY <1>2, ConcatEmptySeq
    <3>3. <<axis>> \o <<frame>> = <<axis, frame>>
      BY <1>2, ConcatPair
    <3> QED BY <3>1, <3>2, <3>3
  <2>2. WheelLeads(version, frame, half, b)
    BY <1>0, <1>1, <1>3, <1>5, <1>10 DEF WheelLeads, NothingGathered
  <2>3. Leads(<<axis, frame>>, D, V, a, b)
    <3>1. <<axis, a, half>> \in D /\ <<frame, half, b>> \in D
      BY <1>2, <1>4, <1>6, <1>10, <2>2, WheelSteps
    <3> HIDE DEF D, V
    <3> QED BY <1>2, <1>4, <3>1, LeadsTwo
  <2>4. <<axis, frame>> \in Seq(Notice) /\ \A i \in 1 .. Len(<<axis, frame>>) : <<axis, frame>>[i].type \in WheelMovers
    BY <1>2, <1>3 DEF WheelMovers
  <2> QED BY <1>8, <2>1, <2>3, <2>4
<1>11. CASE version >= 5 /\ ~finger
  <2> DEFINE s == <<axis, step>> \o <<frame>>
  <2>1. Send(s)
    <3>1. Send(<<axis>> \o <<step>> \o <<frame>>)
      BY <1>1, <1>11
    <3>2. <<axis>> \o <<step>> = <<axis, step>>
      BY <1>2, ConcatPair
    <3> QED BY <3>1, <3>2
  <2>2. WheelLeads(version, frame, whole, b)
    BY <1>0, <1>1, <1>3, <1>5, <1>11 DEF WheelLeads, NothingGathered
  <2>3. Leads(s, D, V, a, b)
    <3>1. <<axis, a, half>> \in D /\ <<step, half, whole>> \in D /\ <<frame, whole, b>> \in D
      BY <1>2, <1>4, <1>6, <1>7, <1>11, <2>2, WheelSteps
    <3> HIDE DEF D, V
    <3>2. Leads(<<axis, step>>, D, V, a, whole)
      BY <1>2, <1>4, <3>1, LeadsTwo
    <3>3. <<axis, step>> \in Seq(Notice)
      BY <1>2, ConcatPair
    <3> QED BY <1>2, <1>4, <3>1, <3>2, <3>3, LeadsAppend
  <2>4. s \in Seq(Notice) /\ \A i \in 1 .. Len(s) : s[i].type \in WheelMovers
    <3>1. <<axis, step>> \in Seq(Notice) /\ \A i \in 1 .. Len(<<axis, step>>) : <<axis, step>>[i].type \in WheelMovers
      BY <1>2, <1>3 DEF WheelMovers
    <3>2. <<frame>> \in Seq(Notice) /\ \A i \in 1 .. Len(<<frame>>) : <<frame>>[i].type \in WheelMovers
      BY <1>2, <1>3 DEF WheelMovers
    <3>3. s \in Seq(Notice) /\ \A i \in 1 .. Len(s) : s[i].type \in WheelMovers \cup WheelMovers
      BY <3>1, <3>2, ConcatTypes
    <3> QED BY <3>3
  <2> HIDE DEF s
  <2> QED BY <1>8, <2>1, <2>3, <2>4
<1> QED BY <1>0, <1>9, <1>10, <1>11

\* Together.
LEMMA UserKeeps ==
    ASSUME InputInv, setting' = setting, User
    PROVE  InputInv'
<1> USE DEF User
<1>0. UNCHANGED program
  BY DEF program
<1>1. CASE \E k \in Keys : Key(k) \/ RepeatKey(k)
  BY <1>0, <1>1, KeyPressed, KeyRepeated
<1>2. CASE \E r \in {0, 1} : SetRate(r)
  BY <1>0, <1>2, RateSet
<1>3. CASE ChangeFocus \/ ChangeLayout \/ AddSeat \/ ServePointer \/ DragTitleBar \/ Tick
  BY <1>0, <1>3, FocusChanged, LayoutChanged, SeatAdded, PointerServed, TitleBarDragged, TimePasses
<1>4. CASE RemoveSeat
  <2> DEFINE e == [type |-> "global_remove"]
  <2>1. e \in Notice /\ e.type = "global_remove" /\ {} \in SUBSET {"keyboard", "pointer"}
    BY SeatNotices
  <2>2. Allows("seat") /\ Plug({}, e)
    BY <1>4 DEF RemoveSeat
  <2> HIDE DEF e
  <2> QED BY <1>0, <2>1, <2>2, Plugged
<1>5. CASE \E c \in SUBSET {"keyboard", "pointer"} : ChangeCaps(c)
  <2>1. PICK c \in SUBSET {"keyboard", "pointer"} : ChangeCaps(c)
    BY <1>5
  <2> DEFINE e == [type |-> "capabilities", caps |-> c]
  <2>2. e \in Notice /\ e.type = "capabilities" /\ e.caps = c
    BY SeatNotices
  <2>3. Allows("caps") /\ Plug(c, e)
    BY <2>1 DEF ChangeCaps
  <2> HIDE DEF e
  <2> QED BY <1>0, <2>2, <2>3, Plugged
<1>6. CASE \E keymap \in {"good", "bad"} : ServeKeyboard(keymap)
  BY <1>0, <1>6, KeyboardServed
<1>7. CASE \E o \in Surfaces : MovePointer(o)
  BY <1>0, <1>7, PointerMoved
<1>8. CASE \E n \in Buttons : Button(n)
  BY <1>0, <1>8, ButtonMoved
<1>9. CASE \E finger \in BOOLEAN : Turn(finger)
  BY <1>0, <1>9, Turned
<1> QED BY <1>1, <1>2, <1>3, <1>4, <1>5, <1>6, <1>7, <1>8, <1>9

--------------------------------------------------------------------------------
(* The program.                                                                   *)
compositor == <<caps, serves, keys, focus, rate, surface, buttons, version, turned, now, given, astray>>

LEMMA TakenType ==
    ASSUME InputInv, queue # <<>>
    PROVE  /\ Head(queue) \in Notice /\ Tail(queue) \in Seq(Notice)
           /\ Len(Tail(queue)) <= setting.waiting
<1>1. queue \in Seq(Notice) /\ Len(queue) <= setting.waiting /\ setting.waiting \in Nat
  BY SettingChosen DEF InputInv, CompositorTypes
<1> QED BY <1>1, TailElements

LEMMA TakenKeepsTypes ==
    ASSUME InputInv, queue # <<>>, setting' = setting, queue' = Tail(queue), UNCHANGED compositor
    PROVE  CompositorTypes'
BY TakenType DEF InputInv, CompositorTypes, compositor, Surfaces, Keys, Buttons, Inputs

\* The event taken is one that the compositor sends in that state.
LEMMA KeyboardTaken ==
    ASSUME InputInv, queue # <<>>
    PROVE  \E c \in KeyboardStates(Keys), state \in {"null", "set"} :
              /\ KeyboardLeads(Changes, Head(queue), KeyboardNow, c)
              /\ Changes = {} /\ "keyboard" \in serves => state = "set"
              /\ Leads(Tail(queue), KeyboardStep(Changes, Keys), KeyboardStates(Keys), c, KeyboardThen(state))
<1>1. PICK state \in {"null", "set"} :
          /\ Changes = {} /\ "keyboard" \in serves => state = "set"
          /\ Leads(queue, KeyboardStep(Changes, Keys), KeyboardStates(Keys), KeyboardNow, KeyboardThen(state))
  BY DEF InputInv, KeyboardFollows
<1> DEFINE D == KeyboardStep(Changes, Keys)
           V == KeyboardStates(Keys)
           a == KeyboardNow
           b == KeyboardThen(state)
<1>2. queue \in Seq(Notice) /\ a \in V /\ Head(queue) \in Notice
  BY NowAndThen, TakenType DEF InputInv, CompositorTypes
<1>3. Leads(queue, D, V, a, b)
  BY <1>1
<1> HIDE DEF D, V, a, b
<1>4. PICK c \in V : <<Head(queue), a, c>> \in D /\ Leads(Tail(queue), D, V, c, b)
  BY <1>2, <1>3, LeadsTail
<1>5. KeyboardLeads(Changes, Head(queue), a, c)
  BY <1>2, <1>4, KeyboardSteps DEF D, V
<1> USE DEF D, V, a, b
<1> QED BY <1>1, <1>4, <1>5

LEMMA PointerTaken ==
    ASSUME InputInv, queue # <<>>
    PROVE  \E c \in PointerStates, held \in SUBSET (1 .. 7) :
              /\ PointerLeads(Manners, Head(queue), PointerNow, c)
              /\ ~astray => held = {b \in buttons : b <= 7}
              /\ Leads(Tail(queue), PointerStep(Manners), PointerStates, c, PointerThen(held))
<1>1. PICK held \in SUBSET (1 .. 7) :
          /\ ~astray => held = {b \in buttons : b <= 7}
          /\ Leads(queue, PointerStep(Manners), PointerStates, PointerNow, PointerThen(held))
  BY DEF InputInv, PointerFollows
<1> DEFINE D == PointerStep(Manners)
           a == PointerNow
           b == PointerThen(held)
<1>2. queue \in Seq(Notice) /\ a \in PointerStates /\ Head(queue) \in Notice
  BY NowAndThen, TakenType DEF InputInv, CompositorTypes
<1>3. Leads(queue, D, PointerStates, a, b)
  BY <1>1
<1> HIDE DEF D, a, b
<1>4. PICK c \in PointerStates : <<Head(queue), a, c>> \in D /\ Leads(Tail(queue), D, PointerStates, c, b)
  BY <1>2, <1>3, LeadsTail
<1>5. PointerLeads(Manners, Head(queue), a, c)
  BY <1>2, <1>4, PointerSteps DEF D
<1> USE DEF D, a, b
<1> QED BY <1>1, <1>4, <1>5

LEMMA WheelTaken ==
    ASSUME InputInv, queue # <<>>
    PROVE  \E c \in WheelStates :
              /\ WheelLeads(version, Head(queue), WheelNow, c)
              /\ Leads(Tail(queue), WheelStep(version), WheelStates, c, WheelThen)
<1> DEFINE D == WheelStep(version)
           a == WheelNow
           b == WheelThen
<1>1. Leads(queue, D, WheelStates, a, b)
  BY DEF InputInv, WheelFollows
<1>2. queue \in Seq(Notice) /\ a \in WheelStates /\ Head(queue) \in Notice
  BY NowAndThen, TakenType DEF InputInv, CompositorTypes
<1> HIDE DEF D, a, b
<1>3. PICK c \in WheelStates : <<Head(queue), a, c>> \in D /\ Leads(Tail(queue), D, WheelStates, c, b)
  BY <1>1, <1>2, LeadsTail
<1>4. WheelLeads(version, Head(queue), a, c)
  BY <1>2, <1>3, WheelSteps DEF D
<1> USE DEF D, a, b
<1> QED BY <1>3, <1>4

\* What the handler makes of the state is what the event was to make of it.
LEMMA KeyboardAdvances ==
    ASSUME InputInv, queue # <<>>, setting' = setting, queue' = Tail(queue), UNCHANGED compositor,
           \A c \in KeyboardStates(Keys) :
              KeyboardLeads(Changes, Head(queue), KeyboardNow, c) => KeyboardNow' = c
    PROVE  KeyboardFollows'
<1>1. PICK c \in KeyboardStates(Keys), state \in {"null", "set"} :
              /\ KeyboardLeads(Changes, Head(queue), KeyboardNow, c)
              /\ Changes = {} /\ "keyboard" \in serves => state = "set"
              /\ Leads(Tail(queue), KeyboardStep(Changes, Keys), KeyboardStates(Keys), c, KeyboardThen(state))
  BY KeyboardTaken
<1>2. Keys' = Keys /\ Changes' = Changes /\ KeyboardThen(state)' = KeyboardThen(state) /\ serves' = serves
  BY DEF Keys, Changes, Inputs, KeyboardThen, Listens, compositor
<1>3. KeyboardNow' = c
  BY <1>1
<1>4. Leads(queue', KeyboardStep(Changes', Keys'), KeyboardStates(Keys'), KeyboardNow', KeyboardThen(state)')
  BY <1>1, <1>2, <1>3
<1> QED BY <1>1, <1>2, <1>4 DEF KeyboardFollows

LEMMA PointerAdvances ==
    ASSUME InputInv, queue # <<>>, setting' = setting, queue' = Tail(queue), UNCHANGED compositor,
           \A c \in PointerStates : PointerLeads(Manners, Head(queue), PointerNow, c) => PointerNow' = c
    PROVE  PointerFollows'
<1>1. PICK c \in PointerStates, held \in SUBSET (1 .. 7) :
              /\ PointerLeads(Manners, Head(queue), PointerNow, c)
              /\ ~astray => held = {b \in buttons : b <= 7}
              /\ Leads(Tail(queue), PointerStep(Manners), PointerStates, c, PointerThen(held))
  BY PointerTaken
<1>2. Manners' = Manners /\ PointerThen(held)' = PointerThen(held) /\ astray' = astray /\ buttons' = buttons
  BY DEF Manners, PointerThen, compositor
<1>3. PointerNow' = c
  BY <1>1
<1>4. Leads(queue', PointerStep(Manners'), PointerStates, PointerNow', PointerThen(held)')
  BY <1>1, <1>2, <1>3
<1> QED BY <1>1, <1>2, <1>4 DEF PointerFollows

LEMMA WheelAdvances ==
    ASSUME InputInv, queue # <<>>, setting' = setting, queue' = Tail(queue), UNCHANGED compositor,
           \A c \in WheelStates : WheelLeads(version, Head(queue), WheelNow, c) => WheelNow' = c
    PROVE  WheelFollows'
<1>1. PICK c \in WheelStates : /\ WheelLeads(version, Head(queue), WheelNow, c)
                               /\ Leads(Tail(queue), WheelStep(version), WheelStates, c, WheelThen)
  BY WheelTaken
<1>2. WheelThen' = WheelThen /\ version' = version /\ WheelNow' = c
  BY <1>1 DEF WheelThen, compositor
<1>3. Leads(queue', WheelStep(version'), WheelStates, WheelNow', WheelThen')
  BY <1>1, <1>2
<1> QED BY <1>3 DEF WheelFollows

\* An event of the others leaves a state alone.
LEMMA KeyboardSteady ==
    ASSUME InputInv, queue # <<>>, setting' = setting, queue' = Tail(queue), UNCHANGED compositor,
           Head(queue).type \notin KeyboardMovers,
           UNCHANGED <<keyboard, is_active, key_status>>, xkb_state' = NULL <=> xkb_state = NULL
    PROVE  KeyboardFollows'
<1>1. KeyboardNow' = KeyboardNow
  BY DEF KeyboardNow
<1>2. \A c : KeyboardLeads(Changes, Head(queue), KeyboardNow, c) => c = KeyboardNow
  BY DEF KeyboardLeads, KeyboardMovers
<1> QED BY <1>1, <1>2, KeyboardAdvances

LEMMA PointerSteady ==
    ASSUME InputInv, queue # <<>>, setting' = setting, queue' = Tail(queue), UNCHANGED compositor,
           Head(queue).type \notin PointerMovers, UNCHANGED <<pointer, is_mouse_inside, button_status>>
    PROVE  PointerFollows'
<1>1. PointerNow' = PointerNow
  BY DEF PointerNow
<1>2. \A c : PointerLeads(Manners, Head(queue), PointerNow, c) => c = PointerNow
  BY DEF PointerLeads, PointerMovers
<1> QED BY <1>1, <1>2, PointerAdvances

\* A frame that is given up had gathered nothing.
LEMMA WheelSteady ==
    ASSUME InputInv, queue # <<>>, setting' = setting, queue' = Tail(queue), UNCHANGED compositor,
           Head(queue).type \notin WheelMovers, told'.wheel = told.wheel,
           \/ UNCHANGED axis_frame
           \/ /\ Head(queue).type \in {"pointer_leave", "capabilities", "global_remove"}
              /\ axis_frame' = EmptyFrame
    PROVE  WheelFollows'
<1>1. ASSUME NEW c, WheelLeads(version, Head(queue), WheelNow, c) PROVE WheelNow' = c
  <2>1. /\ c = WheelNow
        /\ Head(queue).type \in {"pointer_leave", "capabilities", "global_remove"} => NothingGathered(WheelNow)
    BY <1>1 DEF WheelLeads, WheelMovers
  <2>2. CASE UNCHANGED axis_frame
    BY <2>1, <2>2 DEF WheelNow
  <2>3. CASE /\ Head(queue).type \in {"pointer_leave", "capabilities", "global_remove"}
             /\ axis_frame' = EmptyFrame
    BY <2>1, <2>3 DEF WheelNow, NothingGathered, EmptyFrame
  <2> QED BY <2>2, <2>3
<1> QED BY <1>1, WheelAdvances

--------------------------------------------------------------------------------
\* The handlers of the keyboard.
LEMMA KeyboardEventTaken ==
    ASSUME InputInv, queue # <<>>, NEW e, e = Head(queue)
    PROVE  /\ e.type = "enter" => /\ keyboard /\ ~is_active /\ key_status = {} /\ e.keys \in SUBSET Keys
                                  /\ Changes = {} => xkb_state # NULL
           /\ e.type = "leave" => keyboard /\ is_active
           /\ e.type = "key" =>
                 /\ keyboard /\ is_active /\ e.key \in Keys /\ (e.state = "pressed" <=> e.key \notin key_status)
                 /\ e.mods = Mods(IF e.state = "released" THEN key_status \ {e.key} ELSE key_status \cup {e.key})
           /\ e.type = "modifiers" => keyboard /\ is_active /\ e.mods = XkbMods(key_status)
           /\ e.type = "keymap" => keyboard /\ (Changes = {} => ~is_active /\ e.keymap = "good")
<1> DEFINE a == KeyboardNow
<1>1. PICK c \in KeyboardStates(Keys) : KeyboardLeads(Changes, e, a, c)
  BY KeyboardTaken
<1>2. /\ a.stage = (IF ~keyboard THEN "none" ELSE IF is_active THEN "active" ELSE "bound")
      /\ a.held = key_status /\ a.state = (IF xkb_state = NULL THEN "null" ELSE "set")
  BY DEF KeyboardNow
<1>3. c.held \in SUBSET Keys /\ key_status \in SUBSET Keys /\ e \in Notice
  BY TakenType DEF KeyboardStates, InputInv, ProgramTypes
<1> HIDE DEF a
<1>4. CASE e.type = "enter"
  BY <1>1, <1>2, <1>3, <1>4 DEF KeyboardLeads
<1>5. CASE e.type = "leave"
  BY <1>1, <1>2, <1>5 DEF KeyboardLeads
<1>6. CASE e.type = "key"
  <2>1. /\ a.stage = "active" /\ c.held = (IF e.state = "released" THEN a.held \ {e.key} ELSE a.held \cup {e.key})
        /\ (e.state = "pressed" <=> e.key \notin a.held) /\ e.mods = Mods(c.held)
    BY <1>1, <1>6 DEF KeyboardLeads
  <2>2. e.state \in {"pressed", "released", "repeated"}
    BY <1>3, <1>6, NoticeFields
  <2>3. e.key \in Keys
    BY <1>2, <1>3, <2>1, <2>2
  <2> QED BY <1>2, <1>6, <2>1, <2>3
<1>7. CASE e.type = "modifiers"
  BY <1>1, <1>2, <1>7 DEF KeyboardLeads
<1>8. CASE e.type = "keymap"
  BY <1>1, <1>2, <1>8 DEF KeyboardLeads
<1> QED BY <1>4, <1>5, <1>6, <1>7, <1>8

\* What an event of the keyboard leaves alone.
LEMMA KeyboardOnly ==
    ASSUME InputInv, queue # <<>>, setting' = setting, queue' = Tail(queue), UNCHANGED compositor,
           Head(queue).type \in KeyboardEvents, UNCHANGED <<mouse, objects>>,
           UNCHANGED <<told.buttons, told.inside, told.wheel>>, KeyboardFollows',
           ProgramTypes', ModifiersFollow', RepeatFollows',
           told'.keys \subseteq key_status', told'.active = is_active',
           is_active' => keyboard, ~is_active' => key_status' = {}
    PROVE  InputInv'
<1> USE DEF mouse, objects
<1>1. CompositorTypes'
  BY TakenKeepsTypes
<1>2. PointerFollows'
  BY PointerSteady DEF PointerMovers, KeyboardEvents
<1>3. WheelFollows'
  BY WheelSteady DEF WheelMovers, KeyboardEvents
<1>4. ToldAgrees'
  BY DEF InputInv, ToldAgrees
<1> QED BY <1>1, <1>2, <1>3, <1>4 DEF InputInv

LEMMA NullIsNoState ==
    ASSUME CompositorTypes, NEW held \in SUBSET Keys, NEW m
    PROVE  [down |-> held, mods |-> m] # NULL
BY SettingChosen DEF CompositorTypes, NULL

LEMMA NoKeysNoMods == Mods({}) = {} /\ XkbMods({}) = {}
BY DEF Mods, XkbMods

LEMMA KeymapKeeps ==
    ASSUME InputInv, queue # <<>>, setting' = setting, queue' = Tail(queue), UNCHANGED compositor,
           NEW e, e = Head(queue), e.type = "keymap", keyboard_keymap(e), UNCHANGED <<mouse, objects>>
    PROVE  InputInv'
<1> USE DEF keyboard_keymap
<1>0. CompositorTypes /\ ProgramTypes /\ ToldAgrees /\ ModifiersFollow
  BY DEF InputInv
<1>1. keyboard /\ (Changes = {} => ~is_active /\ e.keymap = "good")
  BY KeyboardEventTaken
<1>2. e.keymap \in {"good", "bad"} /\ Keys' = Keys /\ Changes' = Changes /\ keyboard' = keyboard
  BY TakenType, NoticeFields DEF Keys, Changes, Inputs, objects
<1>3. Fresh # NULL
  BY <1>0, NullIsNoState DEF Fresh
<1>4. KeyboardFollows'
  <2>1. ASSUME NEW c \in KeyboardStates(Keys), KeyboardLeads(Changes, e, KeyboardNow, c)
        PROVE  KeyboardNow' = c
    <3> DEFINE a == KeyboardNow
               b == KeyboardNow'
    <3>1. /\ c.stage = a.stage /\ c.held = a.held
          /\ c.state = IF e.keymap = "good" THEN "set" ELSE a.state
      BY <1>2, <2>1 DEF KeyboardLeads
    <3>2. /\ b.stage = a.stage /\ b.held = a.held
          /\ b.state = IF e.keymap = "good" THEN "set" ELSE a.state
      BY <1>2, <1>3 DEF KeyboardNow, objects
    <3>3. b \in KeyboardStates(Keys)
      BY <1>0 DEF KeyboardNow, KeyboardStates, ProgramTypes
    <3> HIDE DEF a, b
    <3> QED BY <3>1, <3>2, <3>3, KeyboardSame DEF b
  <2> QED BY <2>1, KeyboardAdvances
<1>5. ProgramTypes'
  <2>1. Fresh \in [down : SUBSET Keys, mods : SUBSET Modifiers]
    BY DEF Fresh
  <2>2. xkb_state' = NULL \/ xkb_state' \in [down : SUBSET Keys, mods : SUBSET Modifiers]
    <3>1. xkb_state' = Fresh \/ xkb_state' = xkb_state
      OBVIOUS
    <3> QED BY <1>0, <2>1, <3>1 DEF ProgramTypes
  <2>3. /\ UNCHANGED <<key_status, mod_keys, is_active, repeat_rate, repeat_key, repeat_deadline, told, since>>
        /\ repeat_active' = FALSE
    OBVIOUS
  <2> HIDE DEF keyboard_keymap
  <2>4. /\ button_status' \subseteq 1 .. 7 /\ is_mouse_inside' \in BOOLEAN
        /\ seat' \in BOOLEAN /\ keyboard' \in BOOLEAN /\ pointer' \in BOOLEAN
        /\ axis_frame' \in [pending : BOOLEAN, continuous : Nat, discrete : Nat, value120 : Nat]
    BY <1>0 DEF ProgramTypes, mouse, objects
  <2>5. /\ key_status' \subseteq Keys /\ mod_keys' \subseteq Modifiers /\ is_active' \in BOOLEAN
        /\ repeat_rate' \in {0, 1} /\ repeat_active' \in BOOLEAN /\ repeat_key' \in Keys \cup {NoKey}
        /\ repeat_deadline' \in Nat /\ since' \in Nat
        /\ told' \in [keys : SUBSET Keys, buttons : SUBSET (1 .. 7), inside : BOOLEAN, active : BOOLEAN,
                      wheel : Nat, mods : SUBSET Modifiers, real : SUBSET Modifiers]
    BY <1>0, <2>3 DEF ProgramTypes
  <2> QED BY <1>2, <2>2, <2>4, <2>5 DEF ProgramTypes
<1>6. ModifiersFollow'
  <2> SUFFICES ASSUME Changes = {} PROVE /\ told'.mods = told'.real /\ mod_keys' = Mods(key_status')
                                         /\ is_active' => xkb_state' # NULL
                                         /\ xkb_state'.down = key_status' /\ xkb_state'.mods = XkbMods(key_status')
    BY <1>2 DEF ModifiersFollow
  <2>1. key_status = {} /\ xkb_state' = Fresh
    BY <1>0, <1>1 DEF ToldAgrees
  <2> QED BY <1>0, <1>3, <2>1, NoKeysNoMods DEF ModifiersFollow, Fresh
<1>7. RepeatFollows'
  BY DEF RepeatFollows
<1>8. /\ told'.keys \subseteq key_status' /\ told'.active = is_active' /\ (is_active' => keyboard)
      /\ (~is_active' => key_status' = {}) /\ UNCHANGED <<told.buttons, told.inside, told.wheel>>
  BY <1>0 DEF ToldAgrees
<1> QED BY <1>4, <1>5, <1>6, <1>7, <1>8, KeyboardOnly DEF KeyboardEvents

LEMMA EnterKeeps ==
    ASSUME InputInv, queue # <<>>, setting' = setting, queue' = Tail(queue), UNCHANGED compositor,
           NEW e, e = Head(queue), e.type = "enter", keyboard_enter(e), UNCHANGED <<mouse, objects>>
    PROVE  InputInv'
<1> USE DEF keyboard_enter
<1>0. CompositorTypes /\ ProgramTypes /\ ToldAgrees /\ ModifiersFollow
  BY DEF InputInv
<1>1. /\ keyboard /\ ~is_active /\ key_status = {} /\ e.keys \in SUBSET Keys
      /\ Changes = {} => xkb_state # NULL
  BY KeyboardEventTaken
<1>2. Keys' = Keys /\ Changes' = Changes /\ keyboard' = keyboard /\ is_active' = TRUE
  BY DEF Keys, Changes, Inputs, objects
<1>3. /\ xkb_state' = NULL <=> xkb_state = NULL
      /\ xkb_state # NULL => xkb_state'.down = e.keys /\ xkb_state'.mods = XkbMods(e.keys)
  BY <1>0, <1>1, NullIsNoState
<1>4. KeyboardFollows'
  <2>1. ASSUME NEW c \in KeyboardStates(Keys), KeyboardLeads(Changes, e, KeyboardNow, c)
        PROVE  KeyboardNow' = c
    <3> DEFINE a == KeyboardNow
               b == KeyboardNow'
    <3>1. c.stage = "active" /\ c.held = e.keys /\ c.state = a.state
      BY <2>1 DEF KeyboardLeads
    <3>2. b.stage = "active" /\ b.held = e.keys /\ b.state = a.state
      BY <1>1, <1>2, <1>3 DEF KeyboardNow
    <3>3. b \in KeyboardStates(Keys)
      BY <1>1 DEF KeyboardNow, KeyboardStates
    <3> HIDE DEF a, b
    <3> QED BY <3>1, <3>2, <3>3, KeyboardSame DEF b
  <2> QED BY <2>1, KeyboardAdvances
<1>5. told' \in [keys : SUBSET Keys, buttons : SUBSET (1 .. 7), inside : BOOLEAN, active : BOOLEAN,
                 wheel : Nat, mods : SUBSET Modifiers, real : SUBSET Modifiers]
      /\ told'.active = TRUE
      /\ UNCHANGED <<told.keys, told.mods, told.real, told.buttons, told.inside, told.wheel>>
  BY <1>0 DEF ProgramTypes
<1>6. ProgramTypes'
  BY <1>0, <1>1, <1>2, <1>5, ModsAreModifiers DEF ProgramTypes, mouse, objects
<1>7. ModifiersFollow'
  BY <1>0, <1>1, <1>2, <1>3, <1>5 DEF ModifiersFollow
<1>8. RepeatFollows'
  BY DEF RepeatFollows
<1>9. /\ told'.keys \subseteq key_status' /\ told'.active = is_active' /\ (is_active' => keyboard)
      /\ (~is_active' => key_status' = {})
  BY <1>0, <1>1, <1>2, <1>5 DEF ToldAgrees
<1> QED BY <1>4, <1>5, <1>6, <1>7, <1>8, <1>9, KeyboardOnly DEF KeyboardEvents

LEMMA LeaveKeeps ==
    ASSUME InputInv, queue # <<>>, setting' = setting, queue' = Tail(queue), UNCHANGED compositor,
           NEW e, e = Head(queue), e.type = "leave", wayland_clear_keyboard_focus_state,
           UNCHANGED <<mouse, objects>>
    PROVE  InputInv'
<1> USE DEF wayland_clear_keyboard_focus_state, reset_keyboard_state
<1>0. CompositorTypes /\ ProgramTypes /\ ToldAgrees /\ ModifiersFollow
  BY DEF InputInv
<1>1. keyboard /\ is_active
  BY KeyboardEventTaken
<1>2. Keys' = Keys /\ Changes' = Changes /\ keyboard' = keyboard /\ is_active' = FALSE /\ key_status' = {}
  BY DEF Keys, Changes, Inputs, objects
<1>3. Fresh # NULL
  BY <1>0, NullIsNoState DEF Fresh
<1>4. KeyboardFollows'
  <2>1. ASSUME NEW c \in KeyboardStates(Keys), KeyboardLeads(Changes, e, KeyboardNow, c)
        PROVE  KeyboardNow' = c
    <3> DEFINE a == KeyboardNow
               b == KeyboardNow'
    <3>1. c.stage = "bound" /\ c.held = {} /\ c.state = a.state
      BY <2>1 DEF KeyboardLeads
    <3>2. b.stage = "bound" /\ b.held = {} /\ b.state = a.state
      BY <1>1, <1>2, <1>3 DEF KeyboardNow
    <3>3. b \in KeyboardStates(Keys)
      BY <1>2 DEF KeyboardNow, KeyboardStates
    <3> HIDE DEF a, b
    <3> QED BY <3>1, <3>2, <3>3, KeyboardSame DEF b
  <2> QED BY <2>1, KeyboardAdvances
<1>5. told' \in [keys : SUBSET Keys, buttons : SUBSET (1 .. 7), inside : BOOLEAN, active : BOOLEAN,
                 wheel : Nat, mods : SUBSET Modifiers, real : SUBSET Modifiers]
      /\ told'.active = FALSE /\ told'.keys = told.keys \ key_status
      /\ UNCHANGED <<told.mods, told.real, told.buttons, told.inside, told.wheel>>
  BY <1>0 DEF ProgramTypes
<1>6. ProgramTypes'
  BY <1>0, <1>2, <1>5 DEF ProgramTypes, mouse, objects, Fresh
<1>7. ModifiersFollow'
  BY <1>0, <1>2, <1>3, <1>5, NoKeysNoMods DEF ModifiersFollow, Fresh
<1>8. RepeatFollows'
  BY DEF RepeatFollows
<1>9. /\ told'.keys \subseteq key_status' /\ told'.active = is_active' /\ (is_active' => keyboard)
      /\ (~is_active' => key_status' = {})
  BY <1>0, <1>2, <1>5 DEF ToldAgrees
<1> QED BY <1>4, <1>5, <1>6, <1>7, <1>8, <1>9, KeyboardOnly DEF KeyboardEvents

LEMMA ModifiersKeep ==
    ASSUME InputInv, queue # <<>>, setting' = setting, queue' = Tail(queue), UNCHANGED compositor,
           NEW e, e = Head(queue), e.type = "modifiers", keyboard_modifiers(e), UNCHANGED <<mouse, objects>>
    PROVE  InputInv'
<1>0. CompositorTypes /\ ProgramTypes /\ ToldAgrees /\ ModifiersFollow /\ RepeatFollows
  BY DEF InputInv
<1>1. keyboard /\ is_active /\ e.mods = XkbMods(key_status) /\ e.mods \in SUBSET Modifiers
  BY KeyboardEventTaken, ModsAreModifiers
<1>2. Keys' = Keys /\ Changes' = Changes /\ UNCHANGED <<keyboard, key_status, is_active, repeat, told, since>>
  BY DEF Keys, Changes, Inputs, objects, keyboard_modifiers
<1>3. /\ xkb_state' = NULL <=> xkb_state = NULL
      /\ xkb_state = NULL => UNCHANGED <<xkb_state, mod_keys>>
      /\ xkb_state # NULL => /\ xkb_state' = [xkb_state EXCEPT !.mods = e.mods]
                             /\ mod_keys' = e.mods \cup Mods(key_status)
                             /\ xkb_state' \in [down : SUBSET Keys, mods : SUBSET Modifiers]
                             /\ xkb_state'.down = xkb_state.down /\ xkb_state'.mods = e.mods
  <2>1. CASE xkb_state = NULL
    BY <2>1 DEF keyboard_modifiers
  <2>2. CASE xkb_state # NULL
    <3>1. xkb_state \in [down : SUBSET Keys, mods : SUBSET Modifiers]
      BY <1>0, <2>2 DEF ProgramTypes
    <3>2. xkb_state' = [xkb_state EXCEPT !.mods = e.mods] /\ mod_keys' = e.mods \cup Mods(key_status)
      BY <2>2 DEF keyboard_modifiers
    <3>3. /\ xkb_state' = [down |-> xkb_state.down, mods |-> e.mods] /\ xkb_state.down \in SUBSET Keys
          /\ xkb_state' \in [down : SUBSET Keys, mods : SUBSET Modifiers]
          /\ xkb_state'.down = xkb_state.down /\ xkb_state'.mods = e.mods
      BY <1>1, <3>1, <3>2
    <3>4. xkb_state' # NULL
      BY <1>0, <3>3, NullIsNoState
    <3> QED BY <2>2, <3>2, <3>3, <3>4
  <2> QED BY <2>1, <2>2
<1>4. KeyboardFollows'
  <2>1. ASSUME NEW c \in KeyboardStates(Keys), KeyboardLeads(Changes, e, KeyboardNow, c)
        PROVE  KeyboardNow' = c
    <3>1. c = KeyboardNow
      BY <2>1 DEF KeyboardLeads
    <3>2. KeyboardNow' = KeyboardNow
      BY <1>2, <1>3 DEF KeyboardNow
    <3> QED BY <3>1, <3>2
  <2> QED BY <2>1, KeyboardAdvances
<1>5. ProgramTypes'
  BY <1>0, <1>1, <1>2, <1>3, ModsAreModifiers DEF ProgramTypes, mouse, objects, repeat
<1>6. ModifiersFollow'
  <2>1. e.mods \cup Mods(key_status) = Mods(key_status)
    BY <1>1 DEF Mods
  <2> QED BY <1>0, <1>1, <1>2, <1>3, <2>1 DEF ModifiersFollow
<1>7. RepeatFollows'
  BY <1>0, <1>2, <1>3 DEF RepeatFollows, repeat
<1>8. /\ told'.keys \subseteq key_status' /\ told'.active = is_active' /\ (is_active' => keyboard)
      /\ (~is_active' => key_status' = {}) /\ UNCHANGED <<told.buttons, told.inside, told.wheel>>
  BY <1>0, <1>1, <1>2 DEF ToldAgrees
<1> QED BY <1>4, <1>5, <1>6, <1>7, <1>8, KeyboardOnly DEF KeyboardEvents

LEMMA RepeatInfoKeeps ==
    ASSUME InputInv, queue # <<>>, setting' = setting, queue' = Tail(queue), UNCHANGED compositor,
           NEW e, e = Head(queue), e.type = "repeat_info", keyboard_repeat_info(e), UNCHANGED <<mouse, objects>>
    PROVE  InputInv'
<1> USE DEF keyboard_repeat_info
<1>0. CompositorTypes /\ ProgramTypes /\ ToldAgrees /\ ModifiersFollow /\ RepeatFollows
  BY DEF InputInv
<1>1. e.rate \in {0, 1} /\ Keys' = Keys /\ Changes' = Changes
  BY TakenType, NoticeFields DEF Keys, Changes, Inputs
<1>2. xkb_state' = NULL <=> xkb_state = NULL
  BY DEF keystate
<1>3. KeyboardFollows'
  BY <1>2, KeyboardSteady DEF keystate, objects, KeyboardMovers
<1>4. ProgramTypes'
  <2>1. repeat_active' \in BOOLEAN
    OBVIOUS
  <2> QED BY <1>0, <1>1, <2>1 DEF ProgramTypes, mouse, objects, keystate
<1>5. ModifiersFollow'
  BY <1>0, <1>1 DEF ModifiersFollow, keystate
<1>6. RepeatFollows'
  BY <1>0 DEF RepeatFollows, keystate
<1>7. /\ told'.keys \subseteq key_status' /\ told'.active = is_active' /\ (is_active' => keyboard)
      /\ (~is_active' => key_status' = {}) /\ UNCHANGED <<told.buttons, told.inside, told.wheel>>
  BY <1>0 DEF ToldAgrees, keystate
<1> QED BY <1>3, <1>4, <1>5, <1>6, <1>7, KeyboardOnly DEF KeyboardEvents

\* A key keeps the modifiers of the keys, by the change of state that xkbcommon reports.
LEMMA UpdatedState ==
    ASSUME CompositorTypes, NEW down \in SUBSET Keys, NEW mods \in SUBSET Modifiers
    PROVE  /\ [down |-> down, mods |-> mods] \in [down : SUBSET Keys, mods : SUBSET Modifiers]
           /\ [down |-> down, mods |-> mods] # NULL
BY NullIsNoState

LEMMA ShiftsDecide ==
    ASSUME NEW k, NEW held
    PROVE  /\ (XkbMods(held) \ XkbMods({k})) \cup XkbMods(held \cup {k}) = XkbMods(held \cup {k})
           /\ (XkbMods(held) \ XkbMods({k})) \cup XkbMods(held \ {k}) = XkbMods(held \ {k})
<1>1. CASE k \in Shifts
  <2>1. XkbMods({k}) = {"SHIFT"} /\ XkbMods(held) \subseteq {"SHIFT"}
    BY <1>1 DEF XkbMods
  <2> QED BY <2>1
<1>2. CASE k \notin Shifts
  <2>1. (held \cup {k}) \cap Shifts = held \cap Shifts /\ (held \ {k}) \cap Shifts = held \cap Shifts
    BY <1>2
  <2>2. XkbMods(held \cup {k}) = XkbMods(held) /\ XkbMods(held \ {k}) = XkbMods(held)
    BY <2>1 DEF XkbMods
  <2> QED BY <2>2
<1> QED BY <1>1, <1>2

LEMMA KeyKeeps ==
    ASSUME InputInv, queue # <<>>, setting' = setting, queue' = Tail(queue), UNCHANGED compositor,
           NEW e, e = Head(queue), e.type = "key", keyboard_key(e), UNCHANGED <<mouse, objects>>
    PROVE  InputInv'
<1> DEFINE k == e.key
           pressed == e.state # "released"
           states == e.state # "repeated" /\ xkb_state # NULL
           status == IF pressed THEN key_status \cup {k} ELSE key_status \ {k}
           mods == (IF states THEN update_key(k, pressed).mods ELSE mod_keys) \cup Mods(status)
<1>0. CompositorTypes /\ ProgramTypes /\ ToldAgrees /\ ModifiersFollow /\ RepeatFollows
  BY DEF InputInv
<1>1. /\ xkb_state' = (IF states THEN update_key(k, pressed) ELSE xkb_state)
      /\ key_status' = status /\ mod_keys' = mods
      /\ told' = [told EXCEPT !.keys = IF pressed THEN @ \cup {k} ELSE @ \ {k},
                              !.mods = mods, !.real = e.mods]
      /\ CASE states /\ pressed -> Arm(k)
           [] states /\ ~pressed -> Cancel(k)
           [] OTHER -> UNCHANGED <<repeat_active, repeat_key, repeat_deadline, since>>
      /\ UNCHANGED <<is_active, repeat_rate>>
  BY DEF keyboard_key
<1>2. /\ keyboard /\ is_active /\ k \in Keys /\ (e.state = "pressed" <=> k \notin key_status)
      /\ e.mods = Mods(status) /\ e.state \in {"pressed", "released", "repeated"}
  BY KeyboardEventTaken, TakenType, NoticeFields
<1>3. /\ Keys' = Keys /\ Changes' = Changes /\ UNCHANGED <<keyboard, seat, pointer, now>>
      /\ key_status \in SUBSET Keys /\ status \in SUBSET Keys
  BY <1>0, <1>2 DEF Keys, Changes, Inputs, objects, compositor, ProgramTypes
\* The state of the keyboard.
<1>4. /\ xkb_state' = NULL <=> xkb_state = NULL
      /\ xkb_state = NULL \/ xkb_state' \in [down : SUBSET Keys, mods : SUBSET Modifiers]
      /\ states => update_key(k, pressed).mods \in SUBSET Modifiers
  <2>1. CASE ~states
    BY <1>0, <1>1, <2>1 DEF ProgramTypes
  <2>2. CASE states
    <3> DEFINE down == IF pressed THEN xkb_state.down \cup {k} ELSE xkb_state.down \ {k}
               m == update_key(k, pressed)
    <3>1. down \in SUBSET Keys
      BY <1>0, <1>2, <2>2 DEF ProgramTypes
    <3>2. \/ m = [down |-> down, mods |-> (xkb_state.mods \ XkbMods({k})) \cup XkbMods(down)]
          \/ m = [down |-> down, mods |-> xkb_state.mods]
      BY DEF update_key
    <3> HIDE DEF down, m
    <3>3. m \in [down : SUBSET Keys, mods : SUBSET Modifiers] /\ m # NULL
      <4> DEFINE n == (xkb_state.mods \ XkbMods({k})) \cup XkbMods(down)
      <4>1. xkb_state.mods \in SUBSET Modifiers
        BY <1>0, <2>2 DEF ProgramTypes
      <4>2. n \in SUBSET Modifiers
        BY <4>1, ModsAreModifiers
      <4>3. m = [down |-> down, mods |-> n] \/ m = [down |-> down, mods |-> xkb_state.mods]
        BY <3>2
      <4> HIDE DEF n
      <4> QED BY <1>0, <3>1, <4>1, <4>2, <4>3, UpdatedState
    <3>4. xkb_state' = m
      BY <1>1, <2>2 DEF m
    <3>5. m.mods \in SUBSET Modifiers
      BY <3>3
    <3> QED BY <2>2, <3>3, <3>4, <3>5 DEF m
  <2> QED BY <2>1, <2>2
<1>5. mods \in SUBSET Modifiers
  BY <1>0, <1>4, ModsAreModifiers DEF ProgramTypes
<1>6. told' \in [keys : SUBSET Keys, buttons : SUBSET (1 .. 7), inside : BOOLEAN, active : BOOLEAN,
                 wheel : Nat, mods : SUBSET Modifiers, real : SUBSET Modifiers]
      /\ told'.keys = (IF pressed THEN told.keys \cup {k} ELSE told.keys \ {k})
      /\ told'.mods = mods /\ told'.real = Mods(status)
      /\ UNCHANGED <<told.active, told.buttons, told.inside, told.wheel>>
  <2> HIDE DEF mods, status
  <2>1. Mods(status) \in SUBSET Modifiers
    BY ModsAreModifiers
  <2> QED BY <1>0, <1>1, <1>2, <1>5, <2>1 DEF ProgramTypes
<1>7. KeyboardFollows'
  <2>1. ASSUME NEW c \in KeyboardStates(Keys), KeyboardLeads(Changes, e, KeyboardNow, c)
        PROVE  KeyboardNow' = c
    <3> DEFINE a == KeyboardNow
               b == KeyboardNow'
    <3>1. c.stage = "active" /\ c.state = a.state
          /\ c.held = (IF e.state = "released" THEN a.held \ {k} ELSE a.held \cup {k})
      BY <2>1 DEF KeyboardLeads
    <3>2. a.held = key_status
      BY DEF KeyboardNow
    <3>3. b.stage = "active" /\ b.held = status /\ b.state = a.state
      BY <1>1, <1>2, <1>3, <1>4 DEF KeyboardNow
    <3>4. b \in KeyboardStates(Keys)
      BY <1>1, <1>3 DEF KeyboardNow, KeyboardStates
    <3> HIDE DEF a, b
    <3>5. c.held = status
      BY <3>1, <3>2
    <3> HIDE DEF status
    <3> QED BY <3>1, <3>3, <3>4, <3>5, KeyboardSame DEF b
  <2> QED BY <2>1, KeyboardAdvances
\* The repetition.
<1>8. /\ repeat_key' \in Keys \cup {NoKey} /\ repeat_active' \in BOOLEAN
      /\ repeat_deadline' \in Nat /\ since' \in Nat /\ RepeatFollows'
  <2>1. CASE states /\ pressed /\ repeat_rate > 0 /\ Repeats(k)
    <3>1. /\ repeat_active' = TRUE /\ repeat_key' = k
          /\ repeat_deadline' = now + Delay /\ since' = now
      BY <1>1, <2>1 DEF Arm
    <3>2. now \in Nat /\ Delay \in Nat /\ Interval \in Nat \ {0}
      BY <1>0, TimesAssumption DEF CompositorTypes
    <3>3. (repeat_deadline' - since' - Delay) % Interval = 0
      <4>1. repeat_deadline' - since' - Delay = 0
        BY <3>1, <3>2
      <4> QED BY <3>2, <4>1
    <3>4. k \in status
      BY <2>1
    <3> QED BY <1>1, <1>2, <1>4, <2>1, <3>1, <3>2, <3>3, <3>4 DEF RepeatFollows
  <2>2. CASE states /\ ~pressed
    <3>1. repeat_active' = (repeat_active /\ repeat_key # k)
          /\ UNCHANGED <<repeat_key, repeat_deadline, since>>
      BY <1>1, <2>2 DEF Cancel
    <3>2. repeat_active' \in BOOLEAN
      BY <3>1
    <3>3. repeat_key # k /\ repeat_key \in key_status => repeat_key \in status
      OBVIOUS
    <3> HIDE DEF status
    <3> QED BY <1>0, <1>1, <1>4, <3>1, <3>2, <3>3 DEF RepeatFollows, ProgramTypes
  <2>3. CASE ~states \/ (pressed /\ ~(repeat_rate > 0 /\ Repeats(k)))
    <3>1. UNCHANGED <<repeat_active, repeat_key, repeat_deadline, since>>
      <4>1. CASE ~states
        BY <1>1, <4>1
      <4>2. CASE states /\ pressed /\ ~(repeat_rate > 0 /\ Repeats(k))
        BY <1>1, <4>2 DEF Arm
      <4> QED BY <2>3, <4>1, <4>2
    <3>2. repeat_active => pressed
      BY <1>0, <1>2, <2>3 DEF RepeatFollows
    <3>3. pressed /\ repeat_key \in key_status => repeat_key \in status
      OBVIOUS
    <3> HIDE DEF status, pressed, states
    <3> QED BY <1>0, <1>1, <1>4, <3>1, <3>2, <3>3 DEF RepeatFollows, ProgramTypes
  <2> QED BY <2>1, <2>2, <2>3
<1>9. ProgramTypes'
  <2> HIDE DEF mods, status
  <2> QED BY <1>0, <1>1, <1>3, <1>4, <1>5, <1>6, <1>8 DEF ProgramTypes, mouse, objects
\* The modifiers.
<1>10. ModifiersFollow'
  <2> SUFFICES ASSUME Changes = {}
               PROVE  /\ mods = Mods(status) /\ xkb_state' # NULL
                      /\ xkb_state'.down = status /\ xkb_state'.mods = XkbMods(status)
    BY <1>1, <1>3, <1>6 DEF ModifiersFollow
  <2>1. /\ xkb_state # NULL /\ mod_keys = Mods(key_status)
        /\ xkb_state.down = key_status /\ xkb_state.mods = XkbMods(key_status)
    BY <1>0, <1>2 DEF ModifiersFollow
  <2>2. XkbMods(status) \subseteq Mods(status)
    BY DEF Mods
  <2>3. CASE e.state = "repeated"
    <3>1. status = key_status /\ xkb_state' = xkb_state /\ mods = mod_keys \cup Mods(status)
      BY <1>1, <1>2, <2>3
    <3> QED BY <2>1, <3>1
  <2>4. CASE e.state # "repeated"
    <3> DEFINE down == IF pressed THEN xkb_state.down \cup {k} ELSE xkb_state.down \ {k}
    <3>1. down = status /\ (pressed \/ k \in xkb_state.down)
      BY <1>2, <2>1, <2>4
    <3>2. update_key(k, pressed) = [down |-> status, mods |-> (xkb_state.mods \ XkbMods({k})) \cup XkbMods(status)]
      BY <3>1 DEF update_key
    <3>3. (xkb_state.mods \ XkbMods({k})) \cup XkbMods(status) = XkbMods(status)
      <4>1. ASSUME pressed
            PROVE  (XkbMods(key_status) \ XkbMods({k})) \cup XkbMods(status) = XkbMods(status)
        BY <4>1, ShiftsDecide
      <4>2. ASSUME ~pressed
            PROVE  (XkbMods(key_status) \ XkbMods({k})) \cup XkbMods(status) = XkbMods(status)
        BY <4>2, ShiftsDecide
      <4>3. (XkbMods(key_status) \ XkbMods({k})) \cup XkbMods(status) = XkbMods(status)
        BY <4>1, <4>2
      <4> QED BY <2>1, <4>3
    <3>4. states /\ xkb_state' = update_key(k, pressed) /\ mods = update_key(k, pressed).mods \cup Mods(status)
      BY <1>1, <2>1, <2>4
    <3> HIDE DEF status, mods, states
    <3>5. xkb_state' = [down |-> status, mods |-> XkbMods(status)]
      BY <3>2, <3>3, <3>4
    <3>6. mods = xkb_state'.mods \cup Mods(status)
      BY <3>4
    <3>7. mods = Mods(status)
      BY <2>2, <3>5, <3>6
    <3> QED BY <1>4, <2>1, <3>5, <3>7
  <2> QED BY <2>3, <2>4
<1>11. /\ told'.keys \subseteq key_status' /\ told'.active = is_active' /\ (is_active' => keyboard)
       /\ (~is_active' => key_status' = {})
  BY <1>0, <1>1, <1>2, <1>6 DEF ToldAgrees
<1> QED BY <1>6, <1>7, <1>8, <1>9, <1>10, <1>11, KeyboardOnly DEF KeyboardEvents

--------------------------------------------------------------------------------
\* The handlers of the pointer.
LEMMA PointerEventTaken ==
    ASSUME InputInv, queue # <<>>, NEW e, e = Head(queue)
    PROVE  /\ e.type = "pointer_enter" /\ e.surface = "content" => pointer /\ ~is_mouse_inside
           /\ e.type = "pointer_leave" /\ e.surface = "content" =>
                 pointer /\ is_mouse_inside /\ (button_status = {} \/ astray)
           /\ e.type = "button" => pointer
<1> DEFINE a == PointerNow
<1>1. PICK c \in PointerStates : PointerLeads(Manners, e, a, c)
  BY PointerTaken
<1>2. /\ a.stage = (IF ~pointer THEN "none" ELSE IF is_mouse_inside THEN "inside" ELSE "outside")
      /\ a.held = button_status
  BY DEF PointerNow
<1> HIDE DEF a
<1>3. CASE e.type = "pointer_enter" /\ e.surface = "content"
  BY <1>1, <1>2, <1>3 DEF PointerLeads
<1>4. CASE e.type = "pointer_leave" /\ e.surface = "content"
  BY <1>1, <1>2, <1>4 DEF PointerLeads, Manners
<1>5. CASE e.type = "button"
  BY <1>1, <1>2, <1>5 DEF PointerLeads
<1> QED BY <1>3, <1>4, <1>5

\* What an event of the pointer leaves alone.
LEMMA PointerOnly ==
    ASSUME InputInv, queue # <<>>, setting' = setting, queue' = Tail(queue), UNCHANGED compositor,
           Head(queue).type \in PointerTypes, UNCHANGED <<keystate, repeat, objects, since>>,
           UNCHANGED <<told.keys, told.active, told.mods, told.real>>, PointerFollows', WheelFollows',
           told' \in [keys : SUBSET Keys, buttons : SUBSET (1 .. 7), inside : BOOLEAN, active : BOOLEAN,
                      wheel : Nat, mods : SUBSET Modifiers, real : SUBSET Modifiers],
           axis_frame' \in [pending : BOOLEAN, continuous : Nat, discrete : Nat, value120 : Nat],
           button_status' \in SUBSET (1 .. 7), is_mouse_inside' \in BOOLEAN,
           told'.buttons = button_status', told'.inside = is_mouse_inside',
           is_mouse_inside' \/ button_status' # {} => pointer,
           axis_frame'.pending <=> axis_frame'.continuous # 0
    PROVE  InputInv'
<1> USE DEF keystate, repeat, objects
<1>1. CompositorTypes' /\ Keys' = Keys /\ Changes' = Changes
  BY TakenKeepsTypes DEF Keys, Changes, Inputs
<1>2. KeyboardFollows'
  <2>1. xkb_state' = NULL <=> xkb_state = NULL
    OBVIOUS
  <2> QED BY <2>1, KeyboardSteady DEF KeyboardMovers, PointerTypes
<1>3. ToldAgrees'
  BY DEF InputInv, ToldAgrees
<1>4. ProgramTypes'
  BY <1>1 DEF InputInv, ProgramTypes
<1>5. ModifiersFollow'
  BY <1>1 DEF InputInv, ModifiersFollow
<1>6. RepeatFollows'
  BY DEF InputInv, RepeatFollows
<1> QED BY <1>1, <1>2, <1>3, <1>4, <1>5, <1>6 DEF InputInv

LEMMA FrameTypes ==
    /\ EmptyFrame \in [pending : BOOLEAN, continuous : Nat, discrete : Nat, value120 : Nat]
    /\ EmptyFrame.pending = FALSE /\ EmptyFrame.continuous = 0
BY DEF EmptyFrame

LEMMA PointerEnterKeeps ==
    ASSUME InputInv, queue # <<>>, setting' = setting, queue' = Tail(queue), UNCHANGED compositor,
           NEW e, e = Head(queue), e.type = "pointer_enter", pointer_enter(e),
           UNCHANGED <<keystate, repeat, objects, since>>
    PROVE  InputInv'
<1>0. ProgramTypes /\ ToldAgrees
  BY DEF InputInv
<1>1. /\ e.surface \in {"content", "frame"} /\ (e.surface = "content" => pointer /\ ~is_mouse_inside)
      /\ UNCHANGED <<button_status, axis_frame, pointer>> /\ e.type \in PointerTypes
  BY PointerEventTaken, TakenType, NoticeFields DEF pointer_enter, objects, PointerTypes
<1>2. /\ is_mouse_inside' = (is_mouse_inside \/ e.surface = "content")
      /\ told'.inside = is_mouse_inside'
      /\ told' \in [keys : SUBSET Keys, buttons : SUBSET (1 .. 7), inside : BOOLEAN, active : BOOLEAN,
                    wheel : Nat, mods : SUBSET Modifiers, real : SUBSET Modifiers]
      /\ UNCHANGED <<told.keys, told.active, told.mods, told.real, told.buttons, told.wheel>>
  <2>1. CASE e.surface = "content"
    <3>1. is_mouse_inside' = TRUE /\ told' = [told EXCEPT !.inside = TRUE]
      BY <1>1, <2>1 DEF pointer_enter, update_mouse_inside, Inside
    <3> QED BY <1>0, <2>1, <3>1 DEF ProgramTypes
  <2>2. CASE e.surface # "content"
    <3>1. is_mouse_inside' = is_mouse_inside /\ told' = [told EXCEPT !.inside = told.inside]
      BY <2>2 DEF pointer_enter, update_mouse_inside, Inside
    <3>2. told' = told
      BY <1>0, <3>1 DEF ProgramTypes
    <3> QED BY <1>0, <2>2, <3>1, <3>2 DEF ProgramTypes, ToldAgrees
  <2> QED BY <2>1, <2>2
<1>3. WheelFollows'
  BY <1>1, <1>2, WheelSteady DEF WheelMovers
<1>4. PointerFollows'
  <2>1. ASSUME NEW c \in PointerStates, PointerLeads(Manners, e, PointerNow, c) PROVE PointerNow' = c
    <3> DEFINE a == PointerNow
               b == PointerNow'
    <3>1. c.stage = (IF e.surface = "frame" THEN a.stage ELSE "inside") /\ c.held = a.held
      BY <1>1, <2>1 DEF PointerLeads
    <3>2. b.stage = (IF e.surface = "frame" THEN a.stage ELSE "inside") /\ b.held = a.held
      BY <1>1, <1>2 DEF PointerNow
    <3>3. b \in PointerStates
      BY <1>0, <1>1 DEF PointerNow, PointerStates, ProgramTypes
    <3> HIDE DEF a, b
    <3> QED BY <3>1, <3>2, <3>3, PointerSame DEF b
  <2> QED BY <2>1, PointerAdvances
<1>5. /\ button_status' \in SUBSET (1 .. 7) /\ is_mouse_inside' \in BOOLEAN
      /\ axis_frame' \in [pending : BOOLEAN, continuous : Nat, discrete : Nat, value120 : Nat]
      /\ axis_frame'.pending <=> axis_frame'.continuous # 0
      /\ told'.buttons = button_status'
      /\ is_mouse_inside' \/ button_status' # {} => pointer
  BY <1>0, <1>1, <1>2 DEF ProgramTypes, ToldAgrees
<1> QED BY <1>1, <1>2, <1>3, <1>4, <1>5, PointerOnly

LEMMA PointerLeaveKeeps ==
    ASSUME InputInv, queue # <<>>, setting' = setting, queue' = Tail(queue), UNCHANGED compositor,
           NEW e, e = Head(queue), e.type = "pointer_leave", pointer_leave(e),
           UNCHANGED <<keystate, repeat, objects, since>>
    PROVE  /\ InputInv'
           /\ told.inside /\ ~told'.inside => button_status' = {} \/ astray
<1>0. ProgramTypes /\ ToldAgrees
  BY DEF InputInv
<1>1. /\ e.surface \in {"content", "frame"}
      /\ e.surface = "content" => pointer /\ is_mouse_inside /\ (button_status = {} \/ astray)
      /\ UNCHANGED <<button_status, pointer>> /\ axis_frame' = EmptyFrame /\ e.type \in PointerTypes
  BY PointerEventTaken, TakenType, NoticeFields DEF pointer_leave, objects, PointerTypes
<1>2. /\ is_mouse_inside' = (is_mouse_inside /\ e.surface # "content")
      /\ told'.inside = is_mouse_inside'
      /\ told' \in [keys : SUBSET Keys, buttons : SUBSET (1 .. 7), inside : BOOLEAN, active : BOOLEAN,
                    wheel : Nat, mods : SUBSET Modifiers, real : SUBSET Modifiers]
      /\ UNCHANGED <<told.keys, told.active, told.mods, told.real, told.buttons, told.wheel>>
  <2>1. CASE e.surface = "content"
    <3>1. is_mouse_inside' = FALSE /\ told' = [told EXCEPT !.inside = FALSE]
      BY <1>1, <2>1 DEF pointer_leave, update_mouse_inside, Inside
    <3> QED BY <1>0, <2>1, <3>1 DEF ProgramTypes
  <2>2. CASE e.surface # "content"
    <3>1. is_mouse_inside' = is_mouse_inside /\ told' = [told EXCEPT !.inside = told.inside]
      BY <2>2 DEF pointer_leave, update_mouse_inside, Inside
    <3>2. told' = told
      BY <1>0, <3>1 DEF ProgramTypes
    <3> QED BY <1>0, <2>2, <3>1, <3>2 DEF ProgramTypes, ToldAgrees
  <2> QED BY <2>1, <2>2
<1>3. WheelFollows'
  BY <1>1, <1>2, WheelSteady DEF WheelMovers
<1>4. PointerFollows'
  <2>1. ASSUME NEW c \in PointerStates, PointerLeads(Manners, e, PointerNow, c) PROVE PointerNow' = c
    <3> DEFINE a == PointerNow
               b == PointerNow'
    <3>1. c.stage = (IF e.surface = "frame" THEN a.stage ELSE "outside") /\ c.held = a.held
      BY <1>1, <2>1 DEF PointerLeads
    <3>2. b.stage = (IF e.surface = "frame" THEN a.stage ELSE "outside") /\ b.held = a.held
      BY <1>1, <1>2 DEF PointerNow
    <3>3. b \in PointerStates
      BY <1>0, <1>1 DEF PointerNow, PointerStates, ProgramTypes
    <3> HIDE DEF a, b
    <3> QED BY <3>1, <3>2, <3>3, PointerSame DEF b
  <2> QED BY <2>1, PointerAdvances
<1>5. /\ button_status' \in SUBSET (1 .. 7) /\ is_mouse_inside' \in BOOLEAN
      /\ axis_frame' \in [pending : BOOLEAN, continuous : Nat, discrete : Nat, value120 : Nat]
      /\ axis_frame'.pending <=> axis_frame'.continuous # 0
      /\ told'.buttons = button_status'
      /\ is_mouse_inside' \/ button_status' # {} => pointer
  BY <1>0, <1>1, <1>2, FrameTypes DEF ProgramTypes, ToldAgrees
<1>6. InputInv'
  BY <1>1, <1>2, <1>3, <1>4, <1>5, PointerOnly
<1>7. told.inside /\ ~told'.inside => button_status' = {} \/ astray
  BY <1>0, <1>1, <1>2 DEF ToldAgrees
<1> QED BY <1>6, <1>7

LEMMA ButtonKeeps ==
    ASSUME InputInv, queue # <<>>, setting' = setting, queue' = Tail(queue), UNCHANGED compositor,
           NEW e, e = Head(queue), e.type = "button", pointer_button(e),
           UNCHANGED <<keystate, repeat, objects, since>>
    PROVE  InputInv' /\ told'.inside = told.inside
<1>0. ProgramTypes /\ ToldAgrees
  BY DEF InputInv
<1>1. /\ e.button \in Nat \ {0} /\ pointer /\ UNCHANGED <<is_mouse_inside, axis_frame, pointer>>
      /\ e.type \in PointerTypes
  BY PointerEventTaken, TakenType, NoticeFields DEF pointer_button, objects, PointerTypes
<1> DEFINE held == IF e.button > 7 THEN button_status
                   ELSE IF e.state = "pressed" THEN button_status \cup {e.button}
                   ELSE button_status \ {e.button}
<1>2. held \in SUBSET (1 .. 7)
  <2>1. button_status \subseteq 1 .. 7
    BY <1>0 DEF ProgramTypes
  <2>2. ~(e.button > 7) => e.button \in 1 .. 7
    BY <1>1
  <2> QED BY <2>1, <2>2
<1>3. button_status' = held /\ told' = [told EXCEPT !.buttons = held]
  <2>1. told = [told EXCEPT !.buttons = told.buttons] /\ told.buttons = button_status
    BY <1>0 DEF ProgramTypes, ToldAgrees
  <2>2. CASE e.button > 7
    BY <2>1, <2>2 DEF pointer_button
  <2>3. CASE ~(e.button > 7)
    BY <2>1, <2>3 DEF pointer_button
  <2> QED BY <2>2, <2>3
<1> HIDE DEF held
<1>4. /\ told'.buttons = held
      /\ told' \in [keys : SUBSET Keys, buttons : SUBSET (1 .. 7), inside : BOOLEAN, active : BOOLEAN,
                    wheel : Nat, mods : SUBSET Modifiers, real : SUBSET Modifiers]
      /\ UNCHANGED <<told.keys, told.active, told.mods, told.real, told.inside, told.wheel>>
  BY <1>0, <1>2, <1>3 DEF ProgramTypes
<1>5. WheelFollows'
  BY <1>1, <1>4, WheelSteady DEF WheelMovers
<1>6. PointerFollows'
  <2>1. ASSUME NEW c \in PointerStates, PointerLeads(Manners, e, PointerNow, c) PROVE PointerNow' = c
    <3> DEFINE a == PointerNow
               b == PointerNow'
    <3>1. /\ c.stage = a.stage
          /\ c.held = IF e.button > 7 THEN a.held
                      ELSE IF e.state = "pressed" THEN a.held \cup {e.button} ELSE a.held \ {e.button}
      BY <2>1 DEF PointerLeads
    <3>2. a.held = button_status /\ b.stage = a.stage /\ b.held = held
      BY <1>1, <1>3 DEF PointerNow
    <3>3. b \in PointerStates
      BY <1>2, <1>3 DEF PointerNow, PointerStates
    <3> HIDE DEF a, b
    <3>4. c.held = held
      BY <3>1, <3>2 DEF held
    <3> QED BY <3>1, <3>2, <3>3, <3>4, PointerSame DEF b
  <2> QED BY <2>1, PointerAdvances
<1>7. /\ button_status' \in SUBSET (1 .. 7) /\ is_mouse_inside' \in BOOLEAN
      /\ axis_frame' \in [pending : BOOLEAN, continuous : Nat, discrete : Nat, value120 : Nat]
      /\ axis_frame'.pending <=> axis_frame'.continuous # 0
      /\ told'.buttons = button_status' /\ told'.inside = is_mouse_inside'
      /\ is_mouse_inside' \/ button_status' # {} => pointer
  BY <1>0, <1>1, <1>2, <1>3, <1>4 DEF ProgramTypes, ToldAgrees
<1> QED BY <1>1, <1>4, <1>5, <1>6, <1>7, PointerOnly

\* The wheel: each of the four events, with what has been gathered before it.
LEMMA WheelOnly ==
    ASSUME InputInv, queue # <<>>, setting' = setting, queue' = Tail(queue), UNCHANGED compositor,
           NEW e, e = Head(queue), e.type \in WheelMovers,
           UNCHANGED <<keystate, repeat, objects, since, button_status, is_mouse_inside>>, WheelFollows',
           \E delta \in Nat : told' = [told EXCEPT !.wheel = @ + delta],
           axis_frame' \in [pending : BOOLEAN, continuous : Nat, discrete : Nat, value120 : Nat],
           axis_frame'.pending <=> axis_frame'.continuous # 0
    PROVE  InputInv' /\ told'.inside = told.inside
<1>0. ProgramTypes /\ ToldAgrees
  BY DEF InputInv
<1>1. e.type \in PointerTypes
  BY DEF PointerTypes, WheelMovers
<1>2. /\ told' \in [keys : SUBSET Keys, buttons : SUBSET (1 .. 7), inside : BOOLEAN, active : BOOLEAN,
                    wheel : Nat, mods : SUBSET Modifiers, real : SUBSET Modifiers]
      /\ UNCHANGED <<told.keys, told.active, told.mods, told.real, told.inside, told.buttons>>
  <2>1. PICK delta \in Nat : told' = [told EXCEPT !.wheel = told.wheel + delta]
    OBVIOUS
  <2>2. told.wheel + delta \in Nat
    BY <1>0 DEF ProgramTypes
  <2> QED BY <1>0, <2>1, <2>2 DEF ProgramTypes
<1>3. PointerFollows'
  BY PointerSteady DEF PointerMovers, WheelMovers, objects
<1>4. /\ button_status' \in SUBSET (1 .. 7) /\ is_mouse_inside' \in BOOLEAN
      /\ told'.buttons = button_status' /\ told'.inside = is_mouse_inside'
      /\ is_mouse_inside' \/ button_status' # {} => pointer
  BY <1>0, <1>2 DEF ProgramTypes, ToldAgrees
<1> QED BY <1>1, <1>2, <1>3, <1>4, PointerOnly

\* It is told at once, or gathered.
LEMMA WheelGathers ==
    ASSUME InputInv, queue # <<>>, setting' = setting, queue' = Tail(queue), UNCHANGED compositor,
           NEW e, e = Head(queue), e.type \in WheelMovers,
           UNCHANGED <<keystate, repeat, objects, since, button_status, is_mouse_inside>>,
           NEW delta \in Nat, told' = [told EXCEPT !.wheel = @ + delta],
           axis_frame' \in [pending : BOOLEAN, continuous : Nat, discrete : Nat, value120 : Nat],
           axis_frame'.pending <=> axis_frame'.continuous # 0,
           \A c : WheelLeads(version, e, WheelNow, c)
                  => /\ c.sum = told.wheel + delta /\ c.continuous = axis_frame'.continuous
                     /\ c.discrete = axis_frame'.discrete /\ c.fine = axis_frame'.value120
    PROVE  InputInv' /\ told'.inside = told.inside
<1>0. ProgramTypes
  BY DEF InputInv
<1>1. told'.wheel = told.wheel + delta /\ told'.wheel \in Nat
  BY <1>0 DEF ProgramTypes
<1>2. WheelFollows'
  <2>1. ASSUME NEW c \in WheelStates, WheelLeads(version, e, WheelNow, c) PROVE WheelNow' = c
    <3> DEFINE b == WheelNow'
    <3>1. /\ c.sum = told.wheel + delta /\ c.continuous = axis_frame'.continuous
          /\ c.discrete = axis_frame'.discrete /\ c.fine = axis_frame'.value120
      BY <2>1
    <3>2. /\ b.sum = told.wheel + delta /\ b.continuous = axis_frame'.continuous
          /\ b.discrete = axis_frame'.discrete /\ b.fine = axis_frame'.value120
      BY <1>1 DEF WheelNow
    <3>3. b \in WheelStates
      BY <1>1 DEF WheelNow, WheelStates
    <3> HIDE DEF b
    <3> QED BY <3>1, <3>2, <3>3, WheelSame DEF b
  <2> QED BY <2>1, WheelAdvances
<1>3. \E d \in Nat : told' = [told EXCEPT !.wheel = @ + d]
  OBVIOUS
<1> QED BY <1>2, <1>3, WheelOnly

LEMMA WheelNowFields ==
    /\ WheelNow.sum = told.wheel /\ WheelNow.continuous = axis_frame.continuous
    /\ WheelNow.discrete = axis_frame.discrete /\ WheelNow.fine = axis_frame.value120
BY DEF WheelNow

LEMMA AxisKeeps ==
    ASSUME InputInv, queue # <<>>, setting' = setting, queue' = Tail(queue), UNCHANGED compositor,
           NEW e, e = Head(queue), e.type = "axis", pointer_axis(e),
           UNCHANGED <<keystate, repeat, objects, since>>
    PROVE  InputInv' /\ told'.inside = told.inside
<1>0. ProgramTypes /\ ToldAgrees /\ CompositorTypes
  BY DEF InputInv
<1>1. e.value = 2 /\ e.type \in WheelMovers /\ UNCHANGED <<button_status, is_mouse_inside>>
  BY TakenType, NoticeFields DEF WheelMovers, pointer_axis
<1>2. PICK c \in WheelStates : WheelLeads(version, e, WheelNow, c)
  BY WheelTaken
<1>3. axis_frame.continuous = 0 /\ axis_frame.discrete = 0 /\ axis_frame.value120 = 0 /\ axis_frame.pending = FALSE
  <2>1. NothingGathered(WheelNow)
    BY <1>2 DEF WheelLeads
  <2>2. axis_frame.continuous = 0 /\ axis_frame.discrete = 0 /\ axis_frame.value120 = 0
    BY <2>1, WheelNowFields DEF NothingGathered
  <2>3. axis_frame.pending \in BOOLEAN /\ (axis_frame.pending <=> axis_frame.continuous # 0)
    BY <1>0 DEF ProgramTypes, ToldAgrees
  <2> QED BY <2>2, <2>3
<1>4. axis_frame \in [pending : BOOLEAN, continuous : Nat, discrete : Nat, value120 : Nat]
  BY <1>0 DEF ProgramTypes
<1>5. CASE version < 5
  <2>1. told' = [told EXCEPT !.wheel = @ + 2] /\ axis_frame' = axis_frame
    BY <1>1, <1>5 DEF pointer_axis, Wheel
  <2>2. \A d : WheelLeads(version, e, WheelNow, d)
                 => d.sum = told.wheel + 2 /\ d.continuous = 0 /\ d.discrete = 0 /\ d.fine = 0
    BY <1>5, WheelNowFields DEF WheelLeads
  <2>3. axis_frame'.pending <=> axis_frame'.continuous # 0
    BY <1>3, <2>1
  <2>4. \A d : WheelLeads(version, e, WheelNow, d)
                 => /\ d.sum = told.wheel + 2 /\ d.continuous = axis_frame'.continuous
                    /\ d.discrete = axis_frame'.discrete /\ d.fine = axis_frame'.value120
    BY <1>3, <2>1, <2>2
  <2> QED BY <1>1, <1>4, <2>1, <2>3, <2>4, WheelGathers
<1>6. CASE ~(version < 5)
  <2>1. told' = told /\ axis_frame' = [axis_frame EXCEPT !.pending = TRUE, !.continuous = 2]
    <3>1. axis_frame.continuous + e.value = 2
      BY <1>1, <1>3
    <3> QED BY <1>6, <3>1 DEF pointer_axis
  <2>2. /\ axis_frame' \in [pending : BOOLEAN, continuous : Nat, discrete : Nat, value120 : Nat]
        /\ axis_frame'.pending /\ axis_frame'.continuous = 2 /\ axis_frame'.discrete = 0
        /\ axis_frame'.value120 = 0
    BY <1>3, <1>4, <2>1
  <2>3. told' = [told EXCEPT !.wheel = @ + 0]
    BY <1>0, <2>1 DEF ProgramTypes
  <2>4. \A d : WheelLeads(version, e, WheelNow, d)
                 => d.sum = told.wheel + 0 /\ d.continuous = 2 /\ d.discrete = 0 /\ d.fine = 0
    <3>1. told.wheel + 0 = told.wheel
      BY <1>0 DEF ProgramTypes
    <3> QED BY <1>6, <3>1, WheelNowFields DEF WheelLeads
  <2>5. axis_frame'.pending <=> axis_frame'.continuous # 0
    BY <2>2
  <2>6. \A d : WheelLeads(version, e, WheelNow, d)
                 => /\ d.sum = told.wheel + 0 /\ d.continuous = axis_frame'.continuous
                    /\ d.discrete = axis_frame'.discrete /\ d.fine = axis_frame'.value120
    BY <2>2, <2>4
  <2> QED BY <1>1, <2>2, <2>3, <2>5, <2>6, WheelGathers
<1> QED BY <1>5, <1>6

\* A step follows the distance it stands for.
LEMMA StepKeeps ==
    ASSUME InputInv, queue # <<>>, setting' = setting, queue' = Tail(queue), UNCHANGED compositor,
           NEW e, e = Head(queue),
           (e.type = "axis_discrete" /\ axis_discrete(e)) \/ (e.type = "axis_value120" /\ axis_value120(e)),
           UNCHANGED <<keystate, repeat, objects, since>>
    PROVE  InputInv' /\ told'.inside = told.inside
<1>0. ProgramTypes /\ ToldAgrees /\ CompositorTypes
  BY DEF InputInv
<1>1. /\ e.type \in WheelMovers /\ UNCHANGED <<button_status, is_mouse_inside, told>>
      /\ e.type = "axis_discrete" => e.value = 1
      /\ e.type = "axis_value120" => e.value = 120
  BY TakenType, NoticeFields DEF WheelMovers, axis_discrete, axis_value120
<1>2. PICK c \in WheelStates : WheelLeads(version, e, WheelNow, c)
  BY WheelTaken
<1>3. axis_frame.continuous = 2 /\ axis_frame.discrete = 0 /\ axis_frame.value120 = 0
  BY <1>2, WheelNowFields DEF WheelLeads
<1>4. told.wheel + 0 = told.wheel /\ 0 \in Nat
  BY <1>0 DEF ProgramTypes
<1>7. told' = [told EXCEPT !.wheel = @ + 0]
  BY <1>0, <1>1, <1>4 DEF ProgramTypes
<1>8. e.type \in WheelMovers /\ UNCHANGED <<button_status, is_mouse_inside>>
  BY <1>1
<1>5. CASE e.type = "axis_discrete"
  <2>1. /\ axis_frame' \in [pending : BOOLEAN, continuous : Nat, discrete : Nat, value120 : Nat]
        /\ axis_frame'.pending /\ axis_frame'.continuous = 2 /\ axis_frame'.discrete = 1
        /\ axis_frame'.value120 = 0
    <3>1. axis_frame' = [axis_frame EXCEPT !.pending = TRUE, !.discrete = 1]
      BY <1>1, <1>5 DEF axis_discrete
    <3>2. axis_frame \in [pending : BOOLEAN, continuous : Nat, discrete : Nat, value120 : Nat]
      BY <1>0 DEF ProgramTypes
    <3> QED BY <1>3, <3>1, <3>2
  <2>2. \A d : WheelLeads(version, e, WheelNow, d)
                 => d.sum = told.wheel + 0 /\ d.continuous = 2 /\ d.discrete = 1 /\ d.fine = 0
    BY <1>4, <1>5, WheelNowFields DEF WheelLeads
  <2>3. axis_frame'.pending <=> axis_frame'.continuous # 0
    BY <2>1
  <2>4. \A d : WheelLeads(version, e, WheelNow, d)
                 => /\ d.sum = told.wheel + 0 /\ d.continuous = axis_frame'.continuous
                    /\ d.discrete = axis_frame'.discrete /\ d.fine = axis_frame'.value120
    BY <2>1, <2>2
  <2> QED BY <1>4, <1>7, <1>8, <2>1, <2>3, <2>4, WheelGathers
<1>6. CASE e.type = "axis_value120"
  <2>1. /\ axis_frame' \in [pending : BOOLEAN, continuous : Nat, discrete : Nat, value120 : Nat]
        /\ axis_frame'.pending /\ axis_frame'.continuous = 2 /\ axis_frame'.discrete = 0
        /\ axis_frame'.value120 = 120
    <3>1. axis_frame' = [axis_frame EXCEPT !.pending = TRUE, !.value120 = 120]
      <4>1. axis_frame.value120 + e.value = 120
        BY <1>1, <1>3, <1>6
      <4> QED BY <1>6, <4>1 DEF axis_value120
    <3>2. axis_frame \in [pending : BOOLEAN, continuous : Nat, discrete : Nat, value120 : Nat]
      BY <1>0 DEF ProgramTypes
    <3> QED BY <1>3, <3>1, <3>2
  <2>2. \A d : WheelLeads(version, e, WheelNow, d)
                 => d.sum = told.wheel + 0 /\ d.continuous = 2 /\ d.discrete = 0 /\ d.fine = 120
    BY <1>4, <1>6, WheelNowFields DEF WheelLeads
  <2>3. axis_frame'.pending <=> axis_frame'.continuous # 0
    BY <2>1
  <2>4. \A d : WheelLeads(version, e, WheelNow, d)
                 => /\ d.sum = told.wheel + 0 /\ d.continuous = axis_frame'.continuous
                    /\ d.discrete = axis_frame'.discrete /\ d.fine = axis_frame'.value120
    BY <2>1, <2>2
  <2> QED BY <1>4, <1>7, <1>8, <2>1, <2>3, <2>4, WheelGathers
<1> QED BY <1>5, <1>6

LEMMA FrameKeeps ==
    ASSUME InputInv, queue # <<>>, setting' = setting, queue' = Tail(queue), UNCHANGED compositor,
           NEW e, e = Head(queue), e.type = "frame", pointer_frame(e),
           UNCHANGED <<keystate, repeat, objects, since>>
    PROVE  InputInv' /\ told'.inside = told.inside
<1>0. ProgramTypes /\ ToldAgrees /\ CompositorTypes
  BY DEF InputInv
<1>1. e.type \in WheelMovers /\ UNCHANGED <<button_status, is_mouse_inside>> /\ axis_frame' = EmptyFrame
  BY DEF WheelMovers, pointer_frame
<1>2. PICK c \in WheelStates : WheelLeads(version, e, WheelNow, c)
  BY WheelTaken
<1>3. axis_frame.continuous = 2 /\ axis_frame.discrete \in {0, 1} /\ axis_frame.value120 \in {0, 120}
  BY <1>2, WheelNowFields DEF WheelLeads
<1>4. axis_frame.pending
  BY <1>0, <1>3 DEF ToldAgrees
<1> DEFINE delta == IF axis_frame.value120 = 120 \/ axis_frame.discrete = 1 THEN 1 ELSE 2
<1>5. FrameDelta = delta
  <2>1. 120 \div 120 = 1
    OBVIOUS
  <2> QED BY <1>3, <2>1 DEF FrameDelta
<1>6. told' = [told EXCEPT !.wheel = @ + delta]
  BY <1>4, <1>5 DEF pointer_frame, Wheel
<1>7. /\ axis_frame' \in [pending : BOOLEAN, continuous : Nat, discrete : Nat, value120 : Nat]
      /\ axis_frame'.pending = FALSE /\ axis_frame'.continuous = 0 /\ axis_frame'.discrete = 0
      /\ axis_frame'.value120 = 0
  BY <1>1 DEF EmptyFrame
<1>8. \A d : WheelLeads(version, e, WheelNow, d)
               => d.sum = told.wheel + delta /\ d.continuous = 0 /\ d.discrete = 0 /\ d.fine = 0
  BY WheelNowFields DEF WheelLeads, NothingGathered
<1>9. delta \in Nat
  OBVIOUS
<1> HIDE DEF delta
<1>10. axis_frame'.pending <=> axis_frame'.continuous # 0
  BY <1>7
<1>11. \A d : WheelLeads(version, e, WheelNow, d)
                => /\ d.sum = told.wheel + delta /\ d.continuous = axis_frame'.continuous
                   /\ d.discrete = axis_frame'.discrete /\ d.fine = axis_frame'.value120
  BY <1>7, <1>8
<1> QED BY <1>1, <1>6, <1>7, <1>9, <1>10, <1>11, WheelGathers

--------------------------------------------------------------------------------
\* The seat.
LEMMA LoseFacts ==
    ASSUME NEW kl, NEW pl, Lose(kl, pl)
    PROVE  /\ kl => /\ key_status' = {} /\ mod_keys' = {} /\ repeat_active' = FALSE /\ is_active' = FALSE
                    /\ xkb_state' = (IF xkb_state = NULL THEN NULL ELSE Fresh)
           /\ ~kl => UNCHANGED <<keystate, repeat_active>>
           /\ pl => button_status' = {} /\ axis_frame' = EmptyFrame /\ is_mouse_inside' = FALSE
           /\ ~pl => UNCHANGED mouse
           /\ UNCHANGED <<repeat_rate, repeat_key, repeat_deadline, since>>
BY DEF Lose, reset_keyboard_state, release_pointer_input_state

LEMMA LoseTold ==
    ASSUME ProgramTypes, ToldAgrees, NEW kl, NEW pl, Lose(kl, pl)
    PROVE  /\ told'.keys \subseteq key_status' /\ told'.buttons = button_status'
           /\ told'.active = is_active' /\ told'.inside = is_mouse_inside'
           /\ told' \in [keys : SUBSET Keys, buttons : SUBSET (1 .. 7), inside : BOOLEAN, active : BOOLEAN,
                         wheel : Nat, mods : SUBSET Modifiers, real : SUBSET Modifiers]
           /\ UNCHANGED <<told.wheel, told.mods, told.real>>
<1>0. /\ told \in [keys : SUBSET Keys, buttons : SUBSET (1 .. 7), inside : BOOLEAN, active : BOOLEAN,
                   wheel : Nat, mods : SUBSET Modifiers, real : SUBSET Modifiers]
      /\ told.keys \subseteq key_status /\ told.active = is_active
      /\ told.buttons = button_status /\ told.inside = is_mouse_inside
  BY DEF ProgramTypes, ToldAgrees
<1>1. /\ kl => /\ key_status' = {} /\ mod_keys' = {} /\ repeat_active' = FALSE /\ is_active' = FALSE
               /\ xkb_state' = (IF xkb_state = NULL THEN NULL ELSE Fresh)
      /\ ~kl => UNCHANGED <<keystate, repeat_active>>
      /\ pl => button_status' = {} /\ axis_frame' = EmptyFrame /\ is_mouse_inside' = FALSE
      /\ ~pl => UNCHANGED mouse
      /\ UNCHANGED <<repeat_rate, repeat_key, repeat_deadline, since>>
  BY LoseFacts
<1> DEFINE tk == IF kl THEN told.keys \ key_status ELSE told.keys
           tb == IF pl THEN told.buttons \ button_status ELSE told.buttons
           ta == told.active /\ ~kl
           ti == told.inside /\ ~(pl /\ is_mouse_inside)
<1>2. told' = [told EXCEPT !.active = ta, !.keys = tk, !.buttons = tb, !.inside = ti]
  BY DEF Lose
<1>3. tk \in SUBSET Keys /\ tb \in SUBSET (1 .. 7) /\ ta \in BOOLEAN /\ ti \in BOOLEAN
  BY <1>0
<1>4. tk \subseteq key_status' /\ tb = button_status'
  BY <1>0, <1>1 DEF keystate, mouse
<1>5. ta = is_active'
  <2>1. CASE kl
    BY <1>1, <2>1
  <2>2. CASE ~kl
    BY <1>0, <1>1, <2>2 DEF keystate, ProgramTypes
  <2> QED BY <2>1, <2>2
<1>6. ti = is_mouse_inside'
  <2>1. CASE pl
    BY <1>0, <1>1, <2>1
  <2>2. CASE ~pl
    BY <1>0, <1>1, <2>2 DEF mouse, ProgramTypes
  <2> QED BY <2>1, <2>2
<1> HIDE DEF tk, tb, ta, ti
<1>7. /\ told' \in [keys : SUBSET Keys, buttons : SUBSET (1 .. 7), inside : BOOLEAN, active : BOOLEAN,
                    wheel : Nat, mods : SUBSET Modifiers, real : SUBSET Modifiers]
      /\ told'.keys = tk /\ told'.buttons = tb /\ told'.active = ta /\ told'.inside = ti
      /\ UNCHANGED <<told.wheel, told.mods, told.real>>
  BY <1>0, <1>2, <1>3
<1> QED BY <1>4, <1>5, <1>6, <1>7

LEMMA SeatKeeps ==
    ASSUME InputInv, queue # <<>>, setting' = setting, queue' = Tail(queue), UNCHANGED compositor,
           NEW e, e = Head(queue), NEW kl, NEW pl, Lose(kl, pl),
           seat' \in BOOLEAN, keyboard' \in BOOLEAN, pointer' \in BOOLEAN,
           kl => ~keyboard', ~kl /\ keyboard => keyboard', pl => ~pointer', ~pl /\ pointer => pointer',
           \/ /\ e.type = "capabilities" /\ (keyboard' <=> "keyboard" \in e.caps)
              /\ pointer' <=> "pointer" \in e.caps
           \/ e.type = "global_remove" /\ ~keyboard' /\ ~pointer'
    PROVE  /\ InputInv'
           /\ told.inside /\ ~told'.inside => button_status' = {} \/ astray
<1>0. CompositorTypes /\ ProgramTypes /\ ToldAgrees /\ ModifiersFollow /\ RepeatFollows
  BY DEF InputInv
<1>1. /\ kl => /\ key_status' = {} /\ mod_keys' = {} /\ repeat_active' = FALSE /\ is_active' = FALSE
               /\ xkb_state' = (IF xkb_state = NULL THEN NULL ELSE Fresh)
      /\ ~kl => UNCHANGED <<keystate, repeat_active>>
      /\ pl => button_status' = {} /\ axis_frame' = EmptyFrame /\ is_mouse_inside' = FALSE
      /\ ~pl => UNCHANGED mouse
      /\ told'.keys \subseteq key_status' /\ told'.buttons = button_status'
      /\ told'.active = is_active' /\ told'.inside = is_mouse_inside'
      /\ UNCHANGED <<told.wheel, told.mods, told.real, repeat_rate, repeat_key, repeat_deadline, since>>
  <2>1. ProgramTypes /\ ToldAgrees
    BY <1>0
  <2>2. /\ kl => /\ key_status' = {} /\ mod_keys' = {} /\ repeat_active' = FALSE /\ is_active' = FALSE
                 /\ xkb_state' = (IF xkb_state = NULL THEN NULL ELSE Fresh)
        /\ ~kl => UNCHANGED <<keystate, repeat_active>>
        /\ pl => button_status' = {} /\ axis_frame' = EmptyFrame /\ is_mouse_inside' = FALSE
        /\ ~pl => UNCHANGED mouse
        /\ UNCHANGED <<repeat_rate, repeat_key, repeat_deadline, since>>
    BY LoseFacts
  <2>3. told'.keys \subseteq key_status' /\ told'.buttons = button_status'
    BY <2>1, LoseTold
  <2>4. told'.active = is_active' /\ told'.inside = is_mouse_inside'
    BY <2>1, LoseTold
  <2>5. UNCHANGED <<told.wheel, told.mods, told.real>>
    BY <2>1, LoseTold
  <2> QED BY <2>2, <2>3, <2>4, <2>5
<1>2. told' \in [keys : SUBSET Keys, buttons : SUBSET (1 .. 7), inside : BOOLEAN, active : BOOLEAN,
                 wheel : Nat, mods : SUBSET Modifiers, real : SUBSET Modifiers]
  BY <1>0, LoseTold
<1>3. /\ Keys' = Keys /\ Changes' = Changes /\ CompositorTypes' /\ Fresh # NULL
      /\ Fresh \in [down : SUBSET Keys, mods : SUBSET Modifiers]
  <2>1. Keys' = Keys /\ Changes' = Changes
    BY DEF Keys, Changes, Inputs
  <2>2. CompositorTypes'
    BY TakenKeepsTypes
  <2>3. Fresh # NULL /\ Fresh \in [down : SUBSET Keys, mods : SUBSET Modifiers]
    BY <1>0, NullIsNoState DEF Fresh
  <2> QED BY <2>1, <2>2, <2>3
<1>4. /\ ~keyboard' => ~is_active'
      /\ ~is_active' => key_status' = {}
      /\ ~pointer' => ~is_mouse_inside' /\ button_status' = {}
      /\ xkb_state' = NULL <=> xkb_state = NULL
      /\ axis_frame'.pending <=> axis_frame'.continuous # 0
  BY <1>0, <1>1, <1>3, FrameTypes DEF ToldAgrees, keystate, mouse
<1>5. ToldAgrees'
  BY <1>1, <1>4 DEF ToldAgrees
<1>6. ProgramTypes'
  <2>1. /\ key_status' \subseteq Keys /\ mod_keys' \subseteq Modifiers /\ is_active' \in BOOLEAN
        /\ xkb_state' = NULL \/ xkb_state' \in [down : SUBSET Keys, mods : SUBSET Modifiers]
        /\ repeat_active' \in BOOLEAN
    BY <1>0, <1>1, <1>3 DEF ProgramTypes, keystate
  <2>2. /\ button_status' \subseteq 1 .. 7 /\ is_mouse_inside' \in BOOLEAN
        /\ axis_frame' \in [pending : BOOLEAN, continuous : Nat, discrete : Nat, value120 : Nat]
    BY <1>0, <1>1, FrameTypes DEF ProgramTypes, mouse
  <2> QED BY <1>0, <1>1, <1>2, <1>3, <2>1, <2>2 DEF ProgramTypes
<1>7. ModifiersFollow'
  <2>1. CASE kl
    <3>1. /\ key_status' = {} /\ mod_keys' = Mods({}) /\ is_active' = FALSE
          /\ xkb_state' = (IF xkb_state = NULL THEN NULL ELSE Fresh)
      BY <1>1, <2>1, NoKeysNoMods
    <3>2. xkb_state' = NULL \/ (xkb_state'.down = {} /\ xkb_state'.mods = XkbMods({}))
      BY <3>1, NoKeysNoMods DEF Fresh
    <3>3. Changes = {} => told'.mods = told'.real
      BY <1>0, <1>1 DEF ModifiersFollow
    <3> QED BY <1>3, <3>1, <3>2, <3>3 DEF ModifiersFollow
  <2>2. CASE ~kl
    BY <1>0, <1>1, <1>3, <2>2 DEF ModifiersFollow, keystate
  <2> QED BY <2>1, <2>2
<1>8. RepeatFollows'
  BY <1>0, <1>1 DEF RepeatFollows, keystate
<1>9. KeyboardFollows'
  <2>1. ASSUME NEW c \in KeyboardStates(Keys), KeyboardLeads(Changes, e, KeyboardNow, c)
        PROVE  KeyboardNow' = c
    <3> DEFINE a == KeyboardNow
               b == KeyboardNow'
    <3>1. /\ c.state = a.state
          /\ IF ~keyboard' THEN c.stage = "none" /\ c.held = {}
             ELSE c.stage = (IF a.stage = "none" THEN "bound" ELSE a.stage) /\ c.held = a.held
      <4>1. CASE e.type = "capabilities"
        BY <2>1, <4>1 DEF KeyboardLeads
      <4>2. CASE e.type = "global_remove"
        BY <2>1, <4>2 DEF KeyboardLeads
      <4> QED BY <4>1, <4>2
    <3>2. /\ b.state = a.state
          /\ IF ~keyboard' THEN b.stage = "none" /\ b.held = {}
             ELSE b.stage = (IF a.stage = "none" THEN "bound" ELSE a.stage) /\ b.held = a.held
      <4>1. b.state = a.state
        BY <1>4 DEF KeyboardNow
      <4>2. CASE ~keyboard'
        BY <1>4, <4>2 DEF KeyboardNow
      <4>3. CASE keyboard'
        <5>1. UNCHANGED <<key_status, is_active>> /\ (~keyboard => ~is_active)
          BY <1>0, <1>1, <4>3 DEF ToldAgrees, keystate
        <5> QED BY <4>1, <4>3, <5>1 DEF KeyboardNow
      <4> QED BY <4>1, <4>2, <4>3
    <3>3. b \in KeyboardStates(Keys)
      BY <1>3, <1>6 DEF KeyboardNow, KeyboardStates, ProgramTypes
    <3> HIDE DEF a, b
    <3>4. b.stage = c.stage /\ b.held = c.held
      BY <3>1, <3>2
    <3> QED BY <3>1, <3>2, <3>3, <3>4, KeyboardSame DEF b
  <2> QED BY <2>1, KeyboardAdvances
<1>10. PointerFollows'
  <2>1. ASSUME NEW c \in PointerStates, PointerLeads(Manners, e, PointerNow, c) PROVE PointerNow' = c
    <3> DEFINE a == PointerNow
               b == PointerNow'
    <3>1. IF ~pointer' THEN c.stage = "none" /\ c.held = {}
          ELSE c.stage = (IF a.stage = "none" THEN "outside" ELSE a.stage) /\ c.held = a.held
      <4>1. CASE e.type = "capabilities"
        BY <2>1, <4>1 DEF PointerLeads
      <4>2. CASE e.type = "global_remove"
        BY <2>1, <4>2 DEF PointerLeads
      <4> QED BY <4>1, <4>2
    <3>2. IF ~pointer' THEN b.stage = "none" /\ b.held = {}
          ELSE b.stage = (IF a.stage = "none" THEN "outside" ELSE a.stage) /\ b.held = a.held
      <4>1. CASE ~pointer'
        BY <1>4, <4>1 DEF PointerNow
      <4>2. CASE pointer'
        <5>1. UNCHANGED <<button_status, is_mouse_inside>> /\ (~pointer => ~is_mouse_inside)
          BY <1>0, <1>1, <4>2 DEF ToldAgrees, mouse
        <5> QED BY <4>2, <5>1 DEF PointerNow
      <4> QED BY <4>1, <4>2
    <3>3. b \in PointerStates
      BY <1>6 DEF PointerNow, PointerStates, ProgramTypes
    <3> HIDE DEF a, b
    <3>4. b.stage = c.stage /\ b.held = c.held
      BY <3>1, <3>2
    <3> QED BY <3>3, <3>4, PointerSame DEF b
  <2> QED BY <2>1, PointerAdvances
<1>11. WheelFollows'
  <2>1. UNCHANGED axis_frame \/ axis_frame' = EmptyFrame
    BY <1>1 DEF mouse
  <2>2. e.type \in {"pointer_leave", "capabilities", "global_remove"} /\ e.type \notin WheelMovers
    BY DEF WheelMovers
  <2> QED BY <1>1, <2>1, <2>2, WheelSteady
<1>12. told.inside /\ ~told'.inside => button_status' = {} \/ astray
  BY <1>0, <1>1 DEF ToldAgrees, mouse
<1> QED BY <1>3, <1>5, <1>6, <1>7, <1>8, <1>9, <1>10, <1>11, <1>12 DEF InputInv

LEMMA CapabilitiesKeep ==
    ASSUME InputInv, queue # <<>>, setting' = setting, queue' = Tail(queue), UNCHANGED compositor,
           NEW e, e = Head(queue), e.type = "capabilities", seat_capabilities(e)
    PROVE  /\ InputInv'
           /\ told.inside /\ ~told'.inside => button_status' = {} \/ astray
<1> DEFINE kl == keyboard /\ ~keyboard'
           pl == pointer /\ ~pointer'
<1>1. /\ keyboard' = ("keyboard" \in e.caps) /\ pointer' = ("pointer" \in e.caps)
      /\ Lose(kl, pl) /\ seat' = seat
  BY DEF seat_capabilities
<1>2. seat' \in BOOLEAN /\ keyboard' \in BOOLEAN /\ pointer' \in BOOLEAN
  BY <1>1 DEF InputInv, ProgramTypes
<1>3. (kl => ~keyboard') /\ (~kl /\ keyboard => keyboard') /\ (pl => ~pointer') /\ (~pl /\ pointer => pointer')
  OBVIOUS
<1> HIDE DEF kl, pl
<1> QED BY <1>1, <1>2, <1>3, SeatKeeps

LEMMA RemovalKeeps ==
    ASSUME InputInv, queue # <<>>, setting' = setting, queue' = Tail(queue), UNCHANGED compositor,
           NEW e, e = Head(queue), e.type = "global_remove", release_active_seat
    PROVE  /\ InputInv'
           /\ told.inside /\ ~told'.inside => button_status' = {} \/ astray
<1>1. seat' = FALSE /\ keyboard' = FALSE /\ pointer' = FALSE /\ Lose(TRUE, TRUE)
  BY DEF release_active_seat
<1> QED BY <1>1, SeatKeeps

LEMMA GlobalKeeps ==
    ASSUME InputInv, queue # <<>>, setting' = setting, queue' = Tail(queue), UNCHANGED compositor,
           NEW e, e = Head(queue), e.type = "global", registry_global
    PROVE  InputInv' /\ told'.inside = told.inside
<1> USE DEF registry_global, keystate, repeat, mouse
<1>1. CompositorTypes' /\ Keys' = Keys /\ Changes' = Changes
  BY TakenKeepsTypes DEF Keys, Changes, Inputs
<1>2. KeyboardFollows'
  BY KeyboardSteady DEF KeyboardMovers
<1>3. PointerFollows'
  BY PointerSteady DEF PointerMovers
<1>4. WheelFollows'
  BY WheelSteady DEF WheelMovers
<1>5. ProgramTypes' /\ ToldAgrees' /\ ModifiersFollow' /\ RepeatFollows'
  BY <1>1 DEF InputInv, ProgramTypes, ToldAgrees, ModifiersFollow, RepeatFollows
<1> QED BY <1>1, <1>2, <1>3, <1>4, <1>5 DEF InputInv

\* Whatever event is taken: the leave of the pointer comes last.
LEMMA KeyboardToldNothing ==
    ASSUME ProgramTypes, NEW e, e.type \in KeyboardEvents, Keyboard(e)
    PROVE  told'.inside = told.inside
<1>0. told \in [keys : SUBSET Keys, buttons : SUBSET (1 .. 7), inside : BOOLEAN, active : BOOLEAN,
                wheel : Nat, mods : SUBSET Modifiers, real : SUBSET Modifiers]
  BY DEF ProgramTypes
<1>1. CASE e.type \in {"keymap", "modifiers", "repeat_info"}
  BY <1>1 DEF Keyboard, keyboard_keymap, keyboard_modifiers, keyboard_repeat_info
<1>2. CASE e.type = "enter"
  BY <1>0, <1>2 DEF Keyboard, keyboard_enter
<1>3. CASE e.type = "leave"
  BY <1>0, <1>3 DEF Keyboard, wayland_clear_keyboard_focus_state
<1>4. CASE e.type = "key"
  <2>1. keyboard_key(e)
    BY <1>4 DEF Keyboard
  <2> DEFINE pressed == e.state # "released"
             states == e.state # "repeated" /\ xkb_state # NULL
             status == IF pressed THEN key_status \cup {e.key} ELSE key_status \ {e.key}
             k == IF pressed THEN told.keys \cup {e.key} ELSE told.keys \ {e.key}
             m == (IF states THEN update_key(e.key, pressed).mods ELSE mod_keys) \cup Mods(status)
  <2>2. told' = [told EXCEPT !.keys = k, !.mods = m, !.real = e.mods]
    BY <2>1 DEF keyboard_key
  <2> HIDE DEF k, m
  <2> QED BY <1>0, <2>2
<1> QED BY <1>1, <1>2, <1>3, <1>4 DEF KeyboardEvents

LEMMA KeyboardKeeps ==
    ASSUME InputInv, queue # <<>>, setting' = setting, queue' = Tail(queue), UNCHANGED compositor,
           NEW e, e = Head(queue), e.type \in KeyboardEvents, Keyboard(e)
    PROVE  InputInv' /\ told'.inside = told.inside
<1>1. UNCHANGED <<mouse, objects>>
  BY DEF Keyboard
<1>2. ASSUME e.type = "keymap" PROVE InputInv'
  <2>1. keyboard_keymap(e)
    BY <1>2 DEF Keyboard
  <2> QED BY <1>1, <1>2, <2>1, KeymapKeeps
<1>3. ASSUME e.type = "enter" PROVE InputInv'
  <2>1. keyboard_enter(e)
    BY <1>3 DEF Keyboard
  <2> QED BY <1>1, <1>3, <2>1, EnterKeeps
<1>4. ASSUME e.type = "leave" PROVE InputInv'
  <2>1. wayland_clear_keyboard_focus_state
    BY <1>4 DEF Keyboard
  <2> QED BY <1>1, <1>4, <2>1, LeaveKeeps
<1>5. ASSUME e.type = "key" PROVE InputInv'
  <2>1. keyboard_key(e)
    BY <1>5 DEF Keyboard
  <2> QED BY <1>1, <1>5, <2>1, KeyKeeps
<1>6. ASSUME e.type = "modifiers" PROVE InputInv'
  <2>1. keyboard_modifiers(e)
    BY <1>6 DEF Keyboard
  <2> QED BY <1>1, <1>6, <2>1, ModifiersKeep
<1>7. ASSUME e.type = "repeat_info" PROVE InputInv'
  <2>1. keyboard_repeat_info(e)
    BY <1>7 DEF Keyboard
  <2> QED BY <1>1, <1>7, <2>1, RepeatInfoKeeps
<1>8. InputInv'
  BY <1>2, <1>3, <1>4, <1>5, <1>6, <1>7 DEF KeyboardEvents
<1> QED BY <1>8, KeyboardToldNothing DEF InputInv

LEMMA PointerKeeps ==
    ASSUME InputInv, queue # <<>>, setting' = setting, queue' = Tail(queue), UNCHANGED compositor,
           NEW e, e = Head(queue), e.type \in PointerTypes, Pointer(e)
    PROVE  /\ InputInv'
           /\ told.inside /\ ~told'.inside => button_status' = {} \/ astray
<1>0. UNCHANGED <<keystate, repeat, objects, since>>
  BY DEF Pointer
<1>1. CASE e.type = "pointer_enter"
  <2>1. pointer_enter(e)
    BY <1>1 DEF Pointer
  <2>2. InputInv'
    BY <1>0, <1>1, <2>1, PointerEnterKeeps
  <2>3. told.inside => told'.inside
    <3>1. told \in [keys : SUBSET Keys, buttons : SUBSET (1 .. 7), inside : BOOLEAN, active : BOOLEAN,
                    wheel : Nat, mods : SUBSET Modifiers, real : SUBSET Modifiers]
      BY DEF InputInv, ProgramTypes
    <3>2. told' = told \/ told' = [told EXCEPT !.inside = told.inside] \/ told' = [told EXCEPT !.inside = TRUE]
      BY <2>1 DEF pointer_enter, update_mouse_inside
    <3> QED BY <3>1, <3>2
  <2> QED BY <2>2, <2>3
<1>2. CASE e.type = "pointer_leave"
  <2>1. pointer_leave(e)
    BY <1>2 DEF Pointer
  <2> QED BY <1>0, <1>2, <2>1, PointerLeaveKeeps
<1>3. CASE e.type = "button"
  <2>1. pointer_button(e)
    BY <1>3 DEF Pointer
  <2> QED BY <1>0, <1>3, <2>1, ButtonKeeps
<1>4. CASE e.type = "axis"
  <2>1. pointer_axis(e)
    BY <1>4 DEF Pointer
  <2> QED BY <1>0, <1>4, <2>1, AxisKeeps
<1>5. CASE e.type \in {"axis_discrete", "axis_value120"}
  <2>1. (e.type = "axis_discrete" /\ axis_discrete(e)) \/ (e.type = "axis_value120" /\ axis_value120(e))
    BY <1>5 DEF Pointer
  <2> QED BY <1>0, <2>1, StepKeeps
<1>6. CASE e.type = "frame"
  <2>1. pointer_frame(e)
    BY <1>6 DEF Pointer
  <2> QED BY <1>0, <1>6, <2>1, FrameKeeps
<1> QED BY <1>1, <1>2, <1>3, <1>4, <1>5, <1>6 DEF PointerTypes

LEMMA DispatchKeeps ==
    ASSUME InputInv, setting' = setting, Dispatch
    PROVE  /\ InputInv'
           /\ told.inside /\ ~told'.inside => button_status' = {} \/ astray
<1> DEFINE e == Head(queue)
<1>1. /\ queue # <<>> /\ queue' = Tail(queue) /\ UNCHANGED compositor
      /\ CASE e.type \in KeyboardEvents -> Keyboard(e)
           [] e.type = "capabilities" -> seat_capabilities(e)
           [] e.type = "global_remove" -> release_active_seat
           [] e.type = "global" -> registry_global
           [] OTHER -> Pointer(e)
  BY DEF Dispatch, compositor
<1>2. e.type \in KeyboardEvents \cup SeatTypes \cup PointerTypes
  BY <1>1, TakenType, NoticeFields
<1> HIDE DEF e
<1>3. e = Head(queue)
  BY DEF e
<1>4. CASE e.type \in KeyboardEvents
  <2>1. Keyboard(e)
    BY <1>1, <1>4 DEF KeyboardEvents
  <2> QED BY <1>1, <1>3, <1>4, <2>1, KeyboardKeeps
<1>5. CASE e.type = "capabilities"
  <2>1. seat_capabilities(e)
    BY <1>1, <1>5 DEF KeyboardEvents
  <2> QED BY <1>1, <1>3, <1>5, <2>1, CapabilitiesKeep
<1>6. CASE e.type = "global_remove"
  <2>1. release_active_seat
    BY <1>1, <1>6 DEF KeyboardEvents
  <2> QED BY <1>1, <1>3, <1>6, <2>1, RemovalKeeps
<1>7. CASE e.type = "global"
  <2>1. registry_global
    BY <1>1, <1>7 DEF KeyboardEvents
  <2> QED BY <1>1, <1>3, <1>7, <2>1, GlobalKeeps
<1>8. CASE e.type \in PointerTypes
  <2>1. Pointer(e)
    BY <1>1, <1>8 DEF KeyboardEvents, PointerTypes
  <2> QED BY <1>1, <1>3, <1>8, <2>1, PointerKeeps
<1> QED BY <1>2, <1>4, <1>5, <1>6, <1>7, <1>8 DEF SeatTypes

--------------------------------------------------------------------------------
(* The repetition.                                                                *)
LEMMA Division ==
    ASSUME NEW a \in Int, NEW n \in Nat \ {0}
    PROVE  a = n * (a \div n) + (a % n) /\ a % n \in 0 .. n - 1 /\ a \div n \in Int
OBVIOUS

LEMMA MultiplesDivide ==
    ASSUME NEW q \in Int, NEW n \in Nat \ {0}, NEW a \in Int, a = n * q
    PROVE  a % n = 0
<1>1. a = n * (a \div n) + (a % n) /\ a % n \in 0 .. n - 1 /\ a \div n \in Int
  BY Division
<1> DEFINE k == q - (a \div n)
<1>2. k \in Int /\ n * k = a % n
  BY <1>1
<1> HIDE DEF k
<1>3. k >= 1 => n * k >= n
  BY <1>2
<1>4. k <= -1 => n * k <= -n
  BY <1>2
<1> QED BY <1>1, <1>2, <1>3, <1>4

LEMMA MultiplesAdd ==
    ASSUME NEW a \in Int, NEW b \in Int, NEW n \in Nat \ {0}, a % n = 0, b % n = 0
    PROVE  (a + b) % n = 0
<1>1. /\ a = n * (a \div n) /\ a \div n \in Int
      /\ b = n * (b \div n) /\ b \div n \in Int
  BY Division
<1> DEFINE p == a \div n
           q == b \div n
<1>2. p \in Int /\ q \in Int /\ a + b = n * p + n * q
  BY <1>1
<1> HIDE DEF p, q
<1>3. n * p + n * q = n * (p + q) /\ p + q \in Int
  BY <1>2
<1>4. a + b = n * (p + q) /\ a + b \in Int
  BY <1>2, <1>3
<1> QED BY <1>3, <1>4, MultiplesDivide

\* There is a deadline to choose, however late the poll is.
LEMMA NextDeadlineExists ==
    ASSUME CompositorTypes, ProgramTypes, repeat_deadline <= now
    PROVE  /\ NextDeadline \in now + 1 .. now + Interval
           /\ (NextDeadline - repeat_deadline) % Interval = 0
<1> DEFINE n == Interval
           r == repeat_deadline
           late == now - r
           q == late \div n
           m == late % n
           d == r + n * q + n
<1>0. now \in Nat /\ r \in Nat /\ n \in Nat \ {0} /\ late \in Int
  BY TimesAssumption DEF CompositorTypes, ProgramTypes
<1>1. late = n * q + m /\ m \in 0 .. n - 1 /\ q \in Int
  BY <1>0, Division
<1>2. n * q \in Int /\ now = r + late
  BY <1>0, <1>1
<1>3. d = now - m + n
  <2> HIDE DEF q, m, late
  <2> QED BY <1>0, <1>1, <1>2
<1>4. d \in now + 1 .. now + n
  <2> HIDE DEF d, m
  <2> QED BY <1>0, <1>1, <1>3
<1>5. (d - r) % n = 0
  <2>1. d - r = n * (q + 1) /\ q + 1 \in Int /\ d - r \in Int
    <3> HIDE DEF q
    <3> QED BY <1>0, <1>1
  <2> HIDE DEF d, q
  <2> QED BY <1>0, <2>1, MultiplesDivide
<1> HIDE DEF d
<1> QED BY <1>4, <1>5 DEF NextDeadline

LEMMA RepeatKeeps ==
    ASSUME InputInv, setting' = setting, wayland_emit_due_key_repeats
    PROVE  /\ InputInv' /\ told'.inside = told.inside
           /\ repeat_deadline' > now' /\ repeat_deadline' <= now' + Interval
           /\ (repeat_deadline' - since - Delay) % Interval = 0
<1> DEFINE n == Interval
           r == repeat_deadline
           d == NextDeadline
<1>0. CompositorTypes /\ ProgramTypes /\ ToldAgrees /\ ModifiersFollow /\ RepeatFollows
  BY DEF InputInv
<1>1. /\ repeat_active /\ r <= now
      /\ key_status' = key_status \cup {repeat_key}
      /\ told' = [told EXCEPT !.keys = @ \cup {repeat_key}]
      /\ repeat_deadline' = d
      /\ UNCHANGED <<user, mod_keys, is_active, xkb_state, repeat_rate, repeat_active, repeat_key,
                     mouse, objects, since>>
  BY DEF wayland_emit_due_key_repeats
<1>2. /\ now \in Nat /\ r \in Nat /\ n \in Nat \ {0} /\ since \in Nat /\ Delay \in Nat
      /\ (r - since - Delay) % n = 0 /\ is_active /\ repeat_key \in key_status
  BY <1>0, <1>1, TimesAssumption DEF CompositorTypes, ProgramTypes, RepeatFollows
<1>3. d \in now + 1 .. now + n /\ (d - r) % n = 0
  BY <1>0, <1>1, NextDeadlineExists
<1> HIDE DEF d
<1>4. (d - since - Delay) % n = 0
  <2>1. d - r \in Int /\ r - since - Delay \in Int /\ (d - r) + (r - since - Delay) = d - since - Delay
    BY <1>2, <1>3
  <2>2. ((d - r) + (r - since - Delay)) % n = 0
    BY <1>2, <1>3, <2>1, MultiplesAdd
  <2> QED BY <2>1, <2>2
<1>5. key_status' = key_status /\ now' = now /\ Keys' = Keys /\ Changes' = Changes
  BY <1>1, <1>2 DEF user, Keys, Changes, Inputs
<1>6. told' \in [keys : SUBSET Keys, buttons : SUBSET (1 .. 7), inside : BOOLEAN, active : BOOLEAN,
                 wheel : Nat, mods : SUBSET Modifiers, real : SUBSET Modifiers]
      /\ told'.keys = told.keys \cup {repeat_key}
      /\ UNCHANGED <<told.active, told.mods, told.real, told.buttons, told.inside, told.wheel>>
  <2>1. told.keys \cup {repeat_key} \in SUBSET Keys
    BY <1>0, <1>2 DEF ProgramTypes
  <2> QED BY <1>0, <1>1, <2>1 DEF ProgramTypes
<1>7. CompositorTypes'
  BY <1>0, <1>1, <1>5 DEF CompositorTypes, user, Surfaces, Keys, Buttons, Inputs
<1>8. ProgramTypes'
  BY <1>0, <1>1, <1>2, <1>3, <1>5, <1>6 DEF ProgramTypes, mouse, objects
<1>9. ToldAgrees'
  BY <1>0, <1>1, <1>2, <1>5, <1>6 DEF ToldAgrees, mouse, objects
<1>10. ModifiersFollow'
  BY <1>0, <1>1, <1>5, <1>6 DEF ModifiersFollow
<1>11. RepeatFollows'
  BY <1>0, <1>1, <1>4, <1>5 DEF RepeatFollows
<1>12. KeyboardFollows'
  <2>1. KeyboardNow' = KeyboardNow /\ \A state : KeyboardThen(state)' = KeyboardThen(state)
    BY <1>1, <1>5 DEF KeyboardNow, KeyboardThen, Listens, user, objects
  <2>2. UNCHANGED <<queue, serves>>
    BY <1>1 DEF user
  <2> QED BY <1>5, <2>1, <2>2 DEF InputInv, KeyboardFollows
<1>13. PointerFollows'
  <2>1. PointerNow' = PointerNow /\ Manners' = Manners /\ \A held : PointerThen(held)' = PointerThen(held)
    BY <1>1 DEF PointerNow, PointerThen, Manners, user, objects, mouse
  <2>2. UNCHANGED <<queue, buttons, astray>>
    BY <1>1 DEF user
  <2> QED BY <2>1, <2>2 DEF InputInv, PointerFollows
<1>14. WheelFollows'
  BY <1>1, <1>6 DEF InputInv, WheelFollows, WheelNow, WheelThen, user, mouse
<1> QED BY <1>1, <1>2, <1>3, <1>4, <1>5, <1>6, <1>7, <1>8, <1>9, <1>10, <1>11, <1>12, <1>13, <1>14 DEF InputInv

\* No event of the compositor puts the deadline of the same key off.
LEMMA EventsLeaveDeadline ==
    ASSUME InputInv, Dispatch, repeat_active, repeat_active', repeat_key' = repeat_key
    PROVE  repeat_deadline' = repeat_deadline
<1> DEFINE e == Head(queue)
<1>1. /\ queue # <<>>
      /\ CASE e.type \in KeyboardEvents -> Keyboard(e)
           [] e.type = "capabilities" -> seat_capabilities(e)
           [] e.type = "global_remove" -> release_active_seat
           [] e.type = "global" -> registry_global
           [] OTHER -> Pointer(e)
  BY DEF Dispatch
<1>2. e.type \in KeyboardEvents \cup SeatTypes \cup PointerTypes
  BY <1>1, TakenType, NoticeFields
<1>3. e.type = "key" => e.key \in Keys /\ (e.state = "pressed" <=> e.key \notin key_status)
  BY <1>1, KeyboardEventTaken
<1>4. repeat_key \in key_status
  BY DEF InputInv, RepeatFollows
<1> HIDE DEF e
<1>5. CASE e.type = "key"
  <2> DEFINE pressed == e.state # "released"
             states == e.state # "repeated" /\ xkb_state # NULL
  <2>1. \/ states /\ pressed /\ Arm(e.key)
        \/ states /\ ~pressed /\ Cancel(e.key)
        \/ UNCHANGED <<repeat_active, repeat_key, repeat_deadline, since>>
    BY <1>1, <1>5 DEF KeyboardEvents, Keyboard, keyboard_key
  <2>2. e.state \in {"pressed", "released", "repeated"}
    <3>1. Head(queue) \in Notice
      BY <1>1, TakenType
    <3> QED BY <1>5, <3>1, NoticeFields DEF e
  <2>3. CASE states /\ pressed /\ Arm(e.key)
    <3>1. e.key # repeat_key
      BY <1>3, <1>4, <1>5, <2>2, <2>3
    <3> QED BY <2>3, <3>1 DEF Arm
  <2>4. CASE states /\ ~pressed /\ Cancel(e.key)
    BY <2>4 DEF Cancel
  <2> QED BY <2>1, <2>3, <2>4
<1>6. CASE e.type \in KeyboardEvents \ {"key"}
  BY <1>1, <1>6 DEF KeyboardEvents, Keyboard, keyboard_keymap, keyboard_enter, keyboard_modifiers,
     wayland_clear_keyboard_focus_state, keyboard_repeat_info, repeat
<1>7. CASE e.type \in SeatTypes
  BY <1>1, <1>7 DEF SeatTypes, KeyboardEvents, seat_capabilities, release_active_seat, registry_global,
     Lose, repeat
<1>8. CASE e.type \in PointerTypes
  BY <1>1, <1>8 DEF PointerTypes, KeyboardEvents, Pointer, repeat
<1> QED BY <1>2, <1>5, <1>6, <1>7, <1>8

--------------------------------------------------------------------------------
(* The invariant holds.                                                           *)
LEMMA InitHolds ==
    ASSUME Init
    PROVE  InputInv
<1> USE DEF Init
<1>1. CompositorTypes
  <2>1. queue \in Seq(Notice) /\ Len(queue) = 0
    BY EmptySeq
  <2>2. /\ setting \in Settings /\ setting.waiting \in Nat /\ setting.most \in Nat
        /\ serves \subseteq caps /\ caps \subseteq {"keyboard", "pointer"} /\ "keyboard" \in caps
        /\ version \in {1, 5, 8} /\ surface \in Surfaces
    BY SettingChosen DEF Surfaces
  <2>3. /\ keys \subseteq Keys /\ ("keyboard" \notin caps => keys = {}) /\ focus \in BOOLEAN
        /\ rate \in {0, 1} /\ turned \in Nat /\ now \in Nat /\ buttons \subseteq Buttons
        /\ "pointer" \in serves /\ buttons = {} /\ astray \in BOOLEAN
    OBVIOUS
  <2>4. queue \in Seq(Notice) /\ Len(queue) <= setting.waiting /\ given \in 0 .. setting.most
    BY <2>1, <2>2
  <2> QED BY <2>2, <2>3, <2>4 DEF CompositorTypes
<1>2. ProgramTypes
  BY FrameTypes DEF ProgramTypes
<1>3. ToldAgrees
  BY FrameTypes DEF ToldAgrees
<1>4. ModifiersFollow
  BY NoKeysNoMods DEF ModifiersFollow
<1>5. RepeatFollows
  BY DEF RepeatFollows
<1>6. KeyboardFollows
  <2>1. KeyboardNow = KeyboardThen("null")
    BY DEF KeyboardNow, KeyboardThen, Listens
  <2>2. KeyboardNow \in KeyboardStates(Keys)
    BY <1>1, <1>2, NowAndThen
  <2>3. Leads(queue, KeyboardStep(Changes, Keys), KeyboardStates(Keys), KeyboardNow, KeyboardThen("null"))
    BY <2>1, <2>2, LeadsEmpty
  <2>4. "keyboard" \notin serves
    OBVIOUS
  <2> QED BY <2>3, <2>4 DEF KeyboardFollows
<1>7. PointerFollows
  <2>1. PointerNow = PointerThen({}) /\ {b \in buttons : b <= 7} = {} /\ {} \in SUBSET (1 .. 7)
    BY DEF PointerNow, PointerThen
  <2>2. PointerNow \in PointerStates
    BY <1>1, <1>2, NowAndThen
  <2>3. Leads(queue, PointerStep(Manners), PointerStates, PointerNow, PointerThen({}))
    BY <2>1, <2>2, LeadsEmpty
  <2> QED BY <2>1, <2>3 DEF PointerFollows
<1>8. WheelFollows
  <2>1. WheelNow = WheelThen
    BY DEF WheelNow, WheelThen, EmptyFrame
  <2>2. WheelNow \in WheelStates
    BY <1>1, <1>2, NowAndThen
  <2> QED BY <2>1, <2>2, LeadsEmpty DEF WheelFollows
<1> QED BY <1>1, <1>2, <1>3, <1>4, <1>5, <1>6, <1>7, <1>8 DEF InputInv

LEMMA StutterKeeps ==
    ASSUME InputInv, UNCHANGED vars
    PROVE  InputInv'
<1>1. UNCHANGED program /\ setting' = setting
  BY DEF vars, program
<1>2. UNCHANGED <<caps, serves, keys, focus, rate, surface, buttons, version, turned, now, queue, given, astray>>
  BY DEF vars, user
<1>3. CompositorTypes'
  BY <1>1, <1>2 DEF InputInv, CompositorTypes, Surfaces, Keys, Buttons, Inputs
<1> QED BY <1>1, <1>2, <1>3, NothingMoves, NothingSent DEF InputInv

LEMMA MCStepKeeps ==
    ASSUME InputInv, [MCNext]_<<vars, textVars>>
    PROVE  InputInv'
<1>1. CASE UNCHANGED vars
  BY <1>1, StutterKeeps
<1>2. CASE Next
  BY <1>2, UserKeeps, DispatchKeeps, RepeatKeeps DEF Next
<1> QED BY <1>1, <1>2 DEF MCNext

\* From what the program knows the waiting events lead to what the compositor does, in every
\* state: devices and seats may go while their events are waiting, and come back (the handlers
\* of wl_seat, wl_keyboard and wl_pointer).
THEOREM InputFollows == MCSpec => []InputInv
<1>1. MCInit => InputInv
  BY InitHolds DEF MCInit
<1>2. InputInv /\ [MCNext]_<<vars, textVars>> => InputInv'
  BY MCStepKeeps
<1> QED BY <1>1, <1>2, PTL DEF MCSpec

LEMMA KeysHold ==
    ASSUME InputInv
    PROVE  KeysAgree
<1>0. CompositorTypes /\ ProgramTypes /\ ToldAgrees /\ ModifiersFollow /\ RepeatFollows
  BY DEF InputInv
<1>1. TypeOK
  BY <1>0 DEF TypeOK, CompositorTypes, ProgramTypes, Modifiers
<1>2. ToldKeysAreDown /\ RepeatHasItsKey
  BY <1>0 DEF ToldKeysAreDown, RepeatHasItsKey, ToldAgrees, RepeatFollows
<1>3. Quiet => (is_active <=> Listens) /\ key_status = (IF Listens THEN keys ELSE {})
  <2> SUFFICES ASSUME queue = <<>>
               PROVE  (is_active <=> Listens) /\ key_status = (IF Listens THEN keys ELSE {})
    BY DEF Quiet
  <2>1. PICK state \in {"null", "set"} :
          Leads(queue, KeyboardStep(Changes, Keys), KeyboardStates(Keys), KeyboardNow, KeyboardThen(state))
    BY DEF InputInv, KeyboardFollows
  <2>2. KeyboardNow \in KeyboardStates(Keys)
    BY <1>0, NowAndThen
  <2>3. KeyboardNow = KeyboardThen(state)
    BY <2>1, <2>2, LeadsEmpty
  <2>4. KeyboardNow.stage = KeyboardThen(state).stage /\ KeyboardNow.held = KeyboardThen(state).held
    BY <2>3
  <2>5. Listens => "keyboard" \in caps
    BY <1>0, Listening
  <2>6. /\ (IF ~keyboard THEN "none" ELSE IF is_active THEN "active" ELSE "bound")
             = (IF "keyboard" \notin caps THEN "none" ELSE IF Listens THEN "active" ELSE "bound")
        /\ key_status = (IF Listens THEN keys ELSE {})
    BY <2>4 DEF KeyboardNow, KeyboardThen
  <2> QED BY <1>0, <2>5, <2>6 DEF ToldAgrees
<1>4. KeysSettle
  <2>1. Listens \in BOOLEAN
    BY <1>0 DEF Listens, CompositorTypes
  <2>2. Quiet => is_active = Listens
    BY <1>0, <1>3, <2>1 DEF ProgramTypes
  <2> QED BY <1>0, <1>3, <2>2 DEF KeysSettle, ToldAgrees
<1>5. Inputs \cap {"layout", "bad_keymap"} = {} => ModifiersAreTrue
  <2> SUFFICES ASSUME Changes = {} PROVE ModifiersAreTrue
    BY DEF Changes
  <2>1. told.mods = told.real /\ mod_keys = Mods(key_status)
    BY <1>0 DEF ModifiersFollow
  <2>2. Quiet => mod_keys = (IF Listens THEN Mods(keys) ELSE {})
    BY <1>3, <2>1, NoKeysNoMods
  <2> QED BY <2>1, <2>2 DEF ModifiersAreTrue
<1> QED BY <1>1, <1>2, <1>4, <1>5 DEF KeysAgree

\* When everything is read, the application sees the keys and the focus of the window, a key
\* it was told is down can be read as down, only such a key repeats, and the modifiers are
\* those of the keys down as long as the layout stays (keyboard_enter, keyboard_key,
\* keyboard_modifiers, wayland_clear_keyboard_focus_state).
THEOREM KeysDoAgree == MCSpec => []KeysAgree
<1>1. InputInv => KeysAgree
  BY KeysHold
<1> QED BY InputFollows, <1>1, PTL

LEMMA PointerHolds ==
    ASSUME InputInv
    PROVE  PointerAgrees
<1>0. CompositorTypes /\ ProgramTypes /\ ToldAgrees
  BY DEF InputInv
<1>1. told.buttons = button_status /\ told.inside = is_mouse_inside
  BY <1>0 DEF ToldAgrees
<1>2. Quiet => (is_mouse_inside <=> surface = "content")
               /\ (~astray => button_status = {b \in buttons : b <= 7})
  <2> SUFFICES ASSUME queue = <<>>
               PROVE  (is_mouse_inside <=> surface = "content")
                      /\ (~astray => button_status = {b \in buttons : b <= 7})
    BY DEF Quiet
  <2>1. PICK held \in SUBSET (1 .. 7) :
          /\ ~astray => held = {b \in buttons : b <= 7}
          /\ Leads(queue, PointerStep(Manners), PointerStates, PointerNow, PointerThen(held))
    BY DEF InputInv, PointerFollows
  <2>2. PointerNow \in PointerStates
    BY <1>0, NowAndThen
  <2>3. PointerNow = PointerThen(held)
    BY <2>1, <2>2, LeadsEmpty
  <2>4. PointerNow.stage = PointerThen(held).stage /\ PointerNow.held = PointerThen(held).held
    BY <2>3
  <2>5. surface = "content" => "pointer" \in caps
    BY <1>0 DEF CompositorTypes
  <2>6. /\ (IF ~pointer THEN "none" ELSE IF is_mouse_inside THEN "inside" ELSE "outside")
             = (IF "pointer" \notin caps THEN "none" ELSE IF surface = "content" THEN "inside" ELSE "outside")
        /\ button_status = held
    BY <2>4 DEF PointerNow, PointerThen
  <2>7. is_mouse_inside <=> surface = "content"
    BY <1>0, <2>5, <2>6 DEF ToldAgrees
  <2> QED BY <2>1, <2>6, <2>7
<1>3. InsideSettles
  <2>1. Quiet => is_mouse_inside = (surface = "content")
    BY <1>0, <1>2 DEF ProgramTypes
  <2> QED BY <1>1, <2>1 DEF InsideSettles
<1>4. ButtonsSettle
  BY <1>1, <1>2 DEF ButtonsSettle
<1>5. WheelIsToldOnce
  <2> SUFFICES ASSUME queue = <<>> PROVE told.wheel = turned
    BY DEF WheelIsToldOnce, Quiet
  <2>1. WheelNow = WheelThen
    BY <1>0, NowAndThen, LeadsEmpty DEF InputInv, WheelFollows
  <2>2. WheelNow.sum = WheelThen.sum
    BY <2>1
  <2> QED BY <2>2 DEF WheelNow, WheelThen
<1> QED BY <1>3, <1>4, <1>5 DEF PointerAgrees

\* When everything is read, the buttons are those the user holds, enter and leave are those of
\* the content, and every notch of the wheel is told once, in every version of the protocol
\* (pointer_enter, pointer_leave, pointer_button, the axis events and pointer_frame).
THEOREM PointerDoesAgree == MCSpec => []PointerAgrees
<1>1. InputInv => PointerAgrees
  BY PointerHolds
<1> QED BY InputFollows, <1>1, PTL

\* No handler tells a leave of the pointer with a button still down, unless the title bar took
\* the release: the leave of the surface, a pointer unplugged, a seat removed
\* (release_pointer_input_state, update_mouse_inside).
THEOREM LeaveIsLast == MCSpec => LeaveComesLast
<1>1. ASSUME InputInv, [MCNext]_<<vars, textVars>>, told.inside, ~told'.inside
      PROVE  button_status' = {} \/ astray'
  <2>1. CASE UNCHANGED vars
    BY <1>1, <2>1 DEF vars
  <2>2. CASE Next /\ User
    BY <1>1, <2>2 DEF User
  <2>3. CASE Next /\ Dispatch
    <3>1. button_status' = {} \/ astray
      BY <1>1, <2>3, DispatchKeeps DEF Next
    <3>2. astray' = astray
      BY <2>3 DEF Dispatch
    <3> QED BY <3>1, <3>2
  <2>4. CASE Next /\ wayland_emit_due_key_repeats
    BY <1>1, <2>4, RepeatKeeps DEF Next
  <2> QED BY <1>1, <2>1, <2>2, <2>3, <2>4 DEF MCNext, Next
<1>2. InputInv /\ [MCNext]_<<vars, textVars>>
        => [told.inside /\ ~told'.inside => button_status' = {} \/ astray']_vars
  BY <1>1
<1> QED BY InputFollows, <1>2, PTL DEF MCSpec, LeaveComesLast

\* The next repeat of a key is due in the future, at most one interval away, at one of the
\* times the compositor asked for, however late the program polls
\* (wayland_emit_due_key_repeats).
THEOREM RepeatsKeepPace == MCSpec => RepeatsArePaced
<1>1. ASSUME InputInv, [MCNext]_<<vars, textVars>>, repeat_active, repeat_active',
             repeat_key' = repeat_key, repeat_deadline' # repeat_deadline
      PROVE  /\ repeat_deadline' > now' /\ repeat_deadline' <= now' + Interval
             /\ (repeat_deadline' - since - Delay) % Interval = 0
  <2>1. ~UNCHANGED vars
    BY <1>1 DEF vars, repeat
  <2>2. ~User
    BY <1>1 DEF User, repeat
  <2>3. ~Dispatch
    BY <1>1, EventsLeaveDeadline
  <2>4. wayland_emit_due_key_repeats /\ setting' = setting
    BY <1>1, <2>1, <2>2, <2>3 DEF MCNext, Next
  <2> QED BY <1>1, <2>4, RepeatKeeps
<1>2. InputInv /\ [MCNext]_<<vars, textVars>>
        => [repeat_active /\ repeat_active' /\ repeat_key' = repeat_key /\ repeat_deadline' # repeat_deadline
               => /\ repeat_deadline' > now' /\ repeat_deadline' <= now' + Interval
                  /\ (repeat_deadline' - since - Delay) % Interval = 0]_vars
  BY <1>1
<1> QED BY InputFollows, <1>2, PTL DEF MCSpec, RepeatsArePaced
================================================================================
