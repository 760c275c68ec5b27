----------------------------- MODULE WebInput_proofs -----------------------------
(* The input of the Web backend with any buttons, keys and places and a queue of any *)
(* length: whatever the queue still holds will make of the window what the listeners *)
(* have seen.  AltGr is left out: a poll between its two events makes the Control of *)
(* the first a key of its own (AltGrIsOneKey is false).                              *)
EXTENDS MCWebInput, EventQueues, FiniteSetTheorems, WellFoundedInduction

WebParameters == "altgr" \notin Inputs /\ MaxInputs \in Nat

\* What the window has still to apply: a call that polls has taken all there was.
Unread == IF pc = "poll" THEN pending ELSE events

\* No event is of a pair of AltGr's.
WebEvent == {e \in Events : e.type = "key" => ~e.pair}

Kinds(types) == {e \in WebEvent : e.type \in types}
Droppables == Kinds({"mousemove", "resize", "mousescroll"})

\* What an event makes of a button.  Without a touch no button is released that is up.
ButtonStep(b) ==
    {t \in WebEvent \X BOOLEAN \X BOOLEAN :
        CASE t[1].type = "mousebutton" /\ t[1].button = b ->
               t[3] = t[1].is_pressed /\ (~t[3] => t[2] \/ "touch" \in Inputs)
          [] t[1].type = "mousecancel" -> ~t[3]
          [] OTHER -> t[3] = t[2]}

\* What the user holds of the keys, as far as it can be told: of two nameless Shift keys,
\* that one of them is down.
Holds(k) == is_active /\ IF nameless /\ k \in Shifts THEN keys \cap Shifts # {} ELSE k \in keys

\* The events that say whether key k is down, and those that do not say it wrong.
KeyDeciding(k) ==
    {e \in WebEvent : \/ e = Active(FALSE)
                      \/ e.type = "key" /\ e.code = k
                      \/ e.type = "modsync" /\ k \in Shifts /\ "SHIFT" \notin e.mods}
KeyRight(k) == {e \in WebEvent : e.type = "key" /\ e.down => Holds(k)}

Placings == Kinds({"mousebutton", "mousemove"})

--------------------------------------------------------------------------------
\* The inductive invariant.
ActiveFollows == Follows(Unread, Kinds({"active"}), {Active(is_active)}, window_active = is_active)
InsideFollows == Follows(Unread, Kinds({"mouseenter"}), {Enter(inside)}, is_mouse_inside = inside)
ButtonLeads(b) == Leads(Unread, ButtonStep(b), BOOLEAN, b \in button_status, b \in pressedButtons)
KeyFollows(k) == Follows(Unread, KeyDeciding(k), KeyRight(k), k \in key_status => Holds(k))
PlaceFollows ==
    Follows(Unread, Placings, {e \in Placings : e.pos = lastPos}, mouse_pos = lastPos)
SizeFollows == Follows(Unread, Kinds({"resize"}), Kinds({"resize"}), window_size = box)

AllKeys == Keys \cup {"LEFT_CONTROL", "RIGHT_ALT"}

Queues ==
    /\ events \in Seq(WebEvent) /\ pending \in Seq(WebEvent)
    /\ IF pc = "poll" THEN events = <<>> ELSE pending = <<>>
    /\ pc # "idle" => alive
UserHolds ==
    /\ altgr = "none" /\ (nameless => keys \cap Shifts # {})
    /\ pressedButtons \subseteq mouse \cup (IF touching THEN {1} ELSE {})
    /\ touching => "touch" \in Inputs
Agree ==
    /\ ActiveFollows /\ InsideFollows
    /\ \A b \in Buttons : ButtonLeads(b)
    /\ \A k \in AllKeys : KeyFollows(k)
    /\ ~dropped => PlaceFollows /\ SizeFollows

IInv == TypeOK /\ Queues /\ UserHolds /\ (alive => Agree)

--------------------------------------------------------------------------------
\* The queue.
LEMMA EventKinds ==
    /\ \A b \in Buttons, down \in BOOLEAN, p \in Places : Button(b, down, p) \in WebEvent
    /\ \A is \in BOOLEAN : Active(is) \in WebEvent /\ Enter(is) \in WebEvent
    /\ \A k \in AllKeys, down \in BOOLEAN : Key(k, down, FALSE) \in WebEvent
    /\ \A p \in Places : [type |-> "mousemove", pos |-> p] \in WebEvent
    /\ \A t \in {"mousescroll", "mousecancel", "resize"} : [type |-> t] \in WebEvent
    /\ \A m \in SUBSET DOMAIN Sides : [type |-> "modsync", mods |-> m] \in WebEvent
<1>1. \A b \in Buttons, down \in BOOLEAN, p \in Places : Button(b, down, p) \in WebEvent
  BY DEF Button, WebEvent, Events
<1>2. \A is \in BOOLEAN : Active(is) \in WebEvent /\ Enter(is) \in WebEvent
  BY DEF Active, Enter, WebEvent, Events
<1>3. \A k \in AllKeys, down \in BOOLEAN : Key(k, down, FALSE) \in WebEvent
  BY DEF Key, AllKeys, WebEvent, Events
<1>4. \A p \in Places : [type |-> "mousemove", pos |-> p] \in WebEvent
  BY DEF WebEvent, Events
<1>5. \A t \in {"mousescroll", "mousecancel", "resize"} : [type |-> t] \in WebEvent
  BY DEF WebEvent, Events
<1>6. \A m \in SUBSET DOMAIN Sides : [type |-> "modsync", mods |-> m] \in WebEvent
  BY DEF WebEvent, Events
<1> QED BY <1>1, <1>2, <1>3, <1>4, <1>5, <1>6

\* A set of places of a queue that is not empty has a first one.
LEMMA FirstPlace ==
    ASSUME NEW D, D \subseteq Nat, D # {}
    PROVE  Min(D) \in D
<1>1. PICK x \in D : \A y \in D : ~(<<y, x>> \in OpToRel(<, Nat))
  BY NatLessThanWellFounded, WFMin
<1>2. \A y \in D : x =< y
  <2> SUFFICES ASSUME NEW y \in D PROVE x =< y
    OBVIOUS
  <2>1. ~(<<y, x>> \in OpToRel(<, Nat))
    BY <1>1
  <2> QED BY <2>1 DEF OpToRel
<1> QED BY <1>2 DEF Min

LEMMA RemovedAt ==
    ASSUME NEW S, NEW q \in Seq(S), NEW i \in 1 .. Len(q)
    PROVE  RemoveAt(q, i) \in Seq(S) /\ Without(q, RemoveAt(q, i), i)
<1> DEFINE a == SubSeq(q, 1, i - 1)
           b == SubSeq(q, i + 1, Len(q))
<1>0. Len(q) \in Nat /\ i \in Nat \ {0} /\ i <= Len(q) /\ i - 1 \in Int /\ i + 1 \in Int /\ Len(q) \in Int
  BY LenProperties
<1>1. /\ a \in Seq(S) /\ Len(a) = i - 1 /\ \A j \in 1 .. i - 1 : a[j] = q[j]
  <2>1. \A j \in 1 .. i - 1 : q[j] \in S
    BY <1>0, ElementOfSeq
  <2>2. a \in Seq(S) /\ Len(a) = (IF 1 <= i - 1 THEN i - 1 - 1 + 1 ELSE 0)
        /\ \A j \in 1 .. i - 1 - 1 + 1 : a[j] = q[1 + j - 1]
    BY <1>0, <2>1, SubSeqProperties
  <2>3. \A j \in 1 .. i - 1 : j \in 1 .. i - 1 - 1 + 1 /\ 1 + j - 1 = j
    BY <1>0
  <2> QED BY <1>0, <2>2, <2>3
<1>2. /\ b \in Seq(S) /\ Len(b) = Len(q) - i /\ \A j \in 1 .. Len(q) - i : b[j] = q[i + j]
  <2>1. \A j \in i + 1 .. Len(q) : q[j] \in S
    BY <1>0, ElementOfSeq
  <2>2. b \in Seq(S) /\ Len(b) = (IF i + 1 <= Len(q) THEN Len(q) - (i + 1) + 1 ELSE 0)
        /\ \A j \in 1 .. Len(q) - (i + 1) + 1 : b[j] = q[i + 1 + j - 1]
    BY <1>0, <2>1, SubSeqProperties
  <2>3. \A j \in 1 .. Len(q) - i : j \in 1 .. Len(q) - (i + 1) + 1 /\ i + 1 + j - 1 = i + j
    BY <1>0
  <2> QED BY <1>0, <2>2, <2>3
<1>3. RemoveAt(q, i) = a \o b
  BY DEF RemoveAt
<1> HIDE DEF a, b
<1>4. /\ a \o b \in Seq(S) /\ Len(a \o b) = Len(q) - 1
      /\ \A j \in 1 .. i - 1 : (a \o b)[j] = a[j]
      /\ \A j \in 1 .. Len(q) - i : (a \o b)[i - 1 + j] = b[j]
  <2>1. /\ a \o b \in Seq(S) /\ Len(a \o b) = Len(a) + Len(b)
        /\ \A j \in 1 .. Len(a) : (a \o b)[j] = a[j]
        /\ \A j \in 1 .. Len(b) : (a \o b)[Len(a) + j] = b[j]
    <3>1. a \in Seq(S) /\ b \in Seq(S)
      BY <1>1, <1>2
    <3> QED BY <3>1, ConcatElements
  <2>2. Len(a) + Len(b) = Len(q) - 1
    BY <1>0, <1>1, <1>2
  <2> QED BY <1>1, <1>2, <2>1, <2>2
<1>5. ASSUME NEW j \in i .. Len(q) - 1 PROVE (a \o b)[j] = q[j + 1]
  <2>1. j - i + 1 \in 1 .. Len(q) - i /\ i - 1 + (j - i + 1) = j /\ i + (j - i + 1) = j + 1
    BY <1>0, <1>5
  <2>2. (a \o b)[i - 1 + (j - i + 1)] = b[j - i + 1] /\ b[j - i + 1] = q[i + (j - i + 1)]
    BY <1>2, <1>4, <2>1
  <2> QED BY <2>1, <2>2
<1> QED BY <1>0, <1>1, <1>3, <1>4, <1>5 DEF Without

\* An event is put last, and at most one goes, of those that may be dropped.
LEMMA Queueing ==
    ASSUME NEW q \in Seq(WebEvent), NEW e \in WebEvent
    PROVE  \E r \in Seq(WebEvent) :
               /\ Queued(q, e) = r \o <<e>>
               /\ r = q \/ (Overflows(q) /\ \E i : Without(q, r, i) /\ q[i] \in Droppables)
<1>1. \A r \in Seq(WebEvent) : Append(r, e) = r \o <<e>>
  BY AppendIsConcat
<1>2. CASE ~Overflows(q)
  BY <1>1, <1>2 DEF Queued
<1>3. CASE Overflows(q)
  <2> DEFINE D == Droppable(q)
             i == Min(D)
  <2>1. D \subseteq 1 .. Len(q) /\ D # {} /\ \A j \in D : q[j] \in Droppables
    <3>1. DOMAIN q = 1 .. Len(q) /\ \A j \in 1 .. Len(q) : q[j] \in WebEvent
      BY LenProperties, ElementOfSeq
    <3> QED BY <1>3, <3>1 DEF Overflows, Droppable, IndicesOf, Droppables, Kinds
  <2>2. i \in D
    <3>1. D \subseteq Nat
      BY <2>1
    <3> QED BY <2>1, <3>1, FirstPlace
  <2> HIDE DEF D
  <2>3. i \in 1 .. Len(q) /\ q[i] \in Droppables
    BY <2>1, <2>2
  <2>4. RemoveAt(q, i) \in Seq(WebEvent) /\ Without(q, RemoveAt(q, i), i)
    BY <2>3, RemovedAt
  <2>5. Queued(q, e) = Append(RemoveAt(q, i), e)
    BY <1>3 DEF Queued, D
  <2> QED BY <1>1, <1>3, <2>3, <2>4, <2>5
<1> QED BY <1>2, <1>3

LEMMA QueuedType ==
    ASSUME NEW q \in Seq(WebEvent), NEW e \in WebEvent
    PROVE  Queued(q, e) \in Seq(WebEvent)
<1>1. <<e>> \in Seq(WebEvent)
  OBVIOUS
<1>2. PICK r \in Seq(WebEvent) : Queued(q, e) = r \o <<e>>
  BY Queueing
<1> QED BY <1>1, <1>2, ConcatElements

\* An event that decides nothing, whatever gives way to it; and one that decides.
LEMMA FollowsQueued ==
    ASSUME NEW q \in Seq(WebEvent), NEW e \in WebEvent, NEW W, NEW R, NEW ok,
           \/ /\ Follows(q, W, R, ok) /\ e \notin W
              /\ W \cap Droppables = {} \/ ~Overflows(q)
           \/ e \in W \cap R
    PROVE  Follows(Queued(q, e), W, R, ok)
<1>1. PICK r \in Seq(WebEvent) :
          /\ Queued(q, e) = r \o <<e>>
          /\ r = q \/ (Overflows(q) /\ \E i : Without(q, r, i) /\ q[i] \in Droppables)
  BY Queueing
<1>2. CASE e \in W \cap R
  BY <1>1, <1>2, FollowsOne
<1>3. CASE Follows(q, W, R, ok) /\ e \notin W /\ (W \cap Droppables = {} \/ ~Overflows(q))
  <2>1. Follows(r, W, R, ok)
    <3>1. CASE r = q
      BY <1>3, <3>1
    <3>2. CASE r # q
      <4>1. PICK i : Without(q, r, i) /\ q[i] \notin W
        BY <1>1, <1>3, <3>2
      <4> QED BY <1>3, <4>1, FollowsWithout
    <3> QED BY <3>1, <3>2
  <2>2. <<e>> \in Seq(WebEvent) /\ \A i \in 1 .. Len(<<e>>) : <<e>>[i] \notin W
    BY <1>3
  <2> QED BY <1>1, <2>1, <2>2, FollowsKept
<1> QED BY <1>2, <1>3

LEMMA LeadsQueued ==
    ASSUME NEW q \in Seq(WebEvent), NEW e \in WebEvent, NEW b \in Buttons,
           NEW a \in BOOLEAN, NEW x \in BOOLEAN, NEW y \in BOOLEAN,
           Leads(q, ButtonStep(b), BOOLEAN, a, x), <<e, x, y>> \in ButtonStep(b)
    PROVE  Leads(Queued(q, e), ButtonStep(b), BOOLEAN, a, y)
<1>1. PICK r \in Seq(WebEvent) :
          /\ Queued(q, e) = r \o <<e>>
          /\ r = q \/ (Overflows(q) /\ \E i : Without(q, r, i) /\ q[i] \in Droppables)
  BY Queueing
<1> DEFINE T == ButtonStep(b)
           V == BOOLEAN
<1>t. \A d \in Droppables : \A u, v \in V : <<d, u, v>> \in T => u = v
  BY DEF Droppables, Kinds, ButtonStep
<1>v. a \in V /\ x \in V /\ y \in V /\ Leads(q, T, V, a, x) /\ <<e, x, y>> \in T
  OBVIOUS
<1> HIDE DEF T, V
<1>2. Leads(r, T, V, a, x)
  <2>1. CASE r # q
    <3>1. PICK i : Without(q, r, i) /\ q[i] \in Droppables
      BY <1>1, <2>1
    <3>2. \A u, v \in V : <<q[i], u, v>> \in T => u = v
      BY <1>t, <3>1
    <3> QED BY <1>v, <3>1, <3>2, LeadsWithout
  <2> QED BY <1>v, <2>1
<1>3. Leads(r \o <<e>>, T, V, a, y)
  BY <1>v, <1>2, LeadsAppend
<1> QED BY <1>1, <1>3 DEF T, V

--------------------------------------------------------------------------------
\* What a listener's event makes of the invariant: it is one that a part knows nothing of,
\* or it says the last word.
LEMMA Listens ==
    ASSUME IInv, NEW e \in WebEvent, enqueueEvent(e), pc # "poll", alive, UNCHANGED <<pc, pending, window>>
    PROVE  /\ Queues'
           /\ (e.type # "active" /\ is_active' = is_active) \/ e = Active(is_active') => ActiveFollows'
           /\ (e.type # "mouseenter" /\ inside' = inside) \/ e = Enter(inside') => InsideFollows'
           /\ (\A b \in Buttons : <<e, b \in pressedButtons, b \in pressedButtons'>> \in ButtonStep(b))
                  => \A b \in Buttons : ButtonLeads(b)'
           /\ \A k \in AllKeys : \/ e \notin KeyDeciding(k) /\ (Holds(k) => Holds(k)')
                                 \/ e \in KeyDeciding(k) \cap KeyRight(k)'
                                 => KeyFollows(k)'
           /\ \/ e \notin Placings /\ lastPos' = lastPos
              \/ e \in Placings /\ e.pos = lastPos'
              => (~dropped' => PlaceFollows')
           /\ e.type = "resize" \/ box' = box => (~dropped' => SizeFollows')
<1>q. /\ events \in Seq(WebEvent) /\ Unread = events /\ Unread' = events' /\ events' = Queued(events, e)
      /\ Agree /\ dropped' = (dropped \/ Overflows(events)) /\ dropped \in BOOLEAN
  BY DEF IInv, Queues, Unread, enqueueEvent, TypeOK
<1>1. Queues'
  BY <1>q, QueuedType DEF IInv, Queues, window
<1>2. ASSUME (e.type # "active" /\ is_active' = is_active) \/ e = Active(is_active') PROVE ActiveFollows'
  <2>1. Kinds({"active"}) \cap Droppables = {}
    BY DEF Kinds, Droppables
  <2>2. CASE e.type # "active" /\ is_active' = is_active
    <3>1. e \notin Kinds({"active"})
      BY <2>2 DEF Kinds
    <3>2. Follows(events, Kinds({"active"}), {Active(is_active)}, window_active = is_active)
      BY <1>q DEF Agree, ActiveFollows
    <3>3. Follows(Queued(events, e), Kinds({"active"}), {Active(is_active)}, window_active = is_active)
      BY <1>q, <2>1, <3>1, <3>2, FollowsQueued
    <3> QED BY <1>q, <2>2, <3>3 DEF ActiveFollows, window, input
  <2>3. CASE e = Active(is_active')
    <3>1. e \in Kinds({"active"}) \cap {Active(is_active')}
      BY <2>3 DEF Kinds, Active
    <3>3. Follows(Queued(events, e), Kinds({"active"}), {Active(is_active')}, window_active' = is_active')
      BY <1>q, <3>1, FollowsQueued
    <3> QED BY <1>q, <3>3 DEF ActiveFollows
  <2> QED BY <1>2, <2>2, <2>3
<1>3. ASSUME (e.type # "mouseenter" /\ inside' = inside) \/ e = Enter(inside') PROVE InsideFollows'
  <2>1. Kinds({"mouseenter"}) \cap Droppables = {}
    BY DEF Kinds, Droppables
  <2>2. CASE e.type # "mouseenter" /\ inside' = inside
    <3>1. e \notin Kinds({"mouseenter"})
      BY <2>2 DEF Kinds
    <3>2. Follows(events, Kinds({"mouseenter"}), {Enter(inside)}, is_mouse_inside = inside)
      BY <1>q DEF Agree, InsideFollows
    <3>3. Follows(Queued(events, e), Kinds({"mouseenter"}), {Enter(inside)}, is_mouse_inside = inside)
      BY <1>q, <2>1, <3>1, <3>2, FollowsQueued
    <3> QED BY <1>q, <2>2, <3>3 DEF InsideFollows, window, input
  <2>3. CASE e = Enter(inside')
    <3>1. e \in Kinds({"mouseenter"}) \cap {Enter(inside')}
      BY <2>3 DEF Kinds, Enter
    <3>3. Follows(Queued(events, e), Kinds({"mouseenter"}), {Enter(inside')}, is_mouse_inside' = inside')
      BY <1>q, <3>1, FollowsQueued
    <3> QED BY <1>q, <3>3 DEF InsideFollows
  <2> QED BY <1>3, <2>2, <2>3
<1>4. ASSUME \A b \in Buttons : <<e, b \in pressedButtons, b \in pressedButtons'>> \in ButtonStep(b),
             NEW b \in Buttons
      PROVE  ButtonLeads(b)'
  <2>1. Leads(events, ButtonStep(b), BOOLEAN, b \in button_status, b \in pressedButtons)
    BY <1>q DEF Agree, ButtonLeads
  <2>2. /\ <<e, b \in pressedButtons, b \in pressedButtons'>> \in ButtonStep(b)
        /\ (b \in button_status) \in BOOLEAN /\ (b \in pressedButtons) \in BOOLEAN
        /\ (b \in pressedButtons') \in BOOLEAN
    BY <1>4
  <2>3. Leads(Queued(events, e), ButtonStep(b), BOOLEAN, b \in button_status, b \in pressedButtons')
    BY <1>q, <2>1, <2>2, LeadsQueued
  <2> QED BY <1>q, <2>3 DEF ButtonLeads, window, input
<1>5. ASSUME NEW k \in AllKeys,
             \/ e \notin KeyDeciding(k) /\ (Holds(k) => Holds(k)')
             \/ e \in KeyDeciding(k) \cap KeyRight(k)'
      PROVE  KeyFollows(k)'
  <2>1. KeyDeciding(k) \cap Droppables = {}
    BY DEF KeyDeciding, Kinds, Droppables, Active
  <2>2. CASE e \notin KeyDeciding(k) /\ (Holds(k) => Holds(k)')
    <3>1. Follows(events, KeyDeciding(k), KeyRight(k), k \in key_status => Holds(k))
      BY <1>q DEF Agree, KeyFollows
    <3>2. Follows(Queued(events, e), KeyDeciding(k), KeyRight(k), k \in key_status => Holds(k))
      BY <1>q, <2>1, <2>2, <3>1, FollowsQueued
    <3>3. KeyRight(k) \subseteq KeyRight(k)' /\ key_status' = key_status
      BY <2>2 DEF KeyRight, window, input
    <3>4. Follows(Queued(events, e), KeyDeciding(k), KeyRight(k)', k \in key_status' => Holds(k)')
      BY <2>2, <3>2, <3>3, FollowsMore
    <3> QED BY <1>q, <3>4 DEF KeyFollows
  <2>3. CASE e \in KeyDeciding(k) \cap KeyRight(k)'
    <3>1. Follows(Queued(events, e), KeyDeciding(k), KeyRight(k)', k \in key_status' => Holds(k)')
      BY <1>q, <2>3, FollowsQueued
    <3> QED BY <1>q, <3>1 DEF KeyFollows
  <2> QED BY <1>5, <2>2, <2>3
<1>6. ASSUME ~dropped', (e \notin Placings /\ lastPos' = lastPos) \/ (e \in Placings /\ e.pos = lastPos')
      PROVE  PlaceFollows'
  <2>0. ~dropped /\ ~Overflows(events)
    BY <1>q, <1>6
  <2>1. CASE e \notin Placings /\ lastPos' = lastPos
    <3>1. Follows(events, Placings, {f \in Placings : f.pos = lastPos}, mouse_pos = lastPos)
      BY <1>q, <2>0 DEF Agree, PlaceFollows
    <3>2. Follows(Queued(events, e), Placings, {f \in Placings : f.pos = lastPos}, mouse_pos = lastPos)
      BY <1>q, <2>0, <2>1, <3>1, FollowsQueued
    <3> QED BY <1>q, <2>1, <3>2 DEF PlaceFollows, window, input
  <2>2. CASE e \in Placings /\ e.pos = lastPos'
    <3>1. e \in Placings \cap {f \in Placings : f.pos = lastPos'}
      BY <2>2
    <3>2. Follows(Queued(events, e), Placings, {f \in Placings : f.pos = lastPos'}, mouse_pos' = lastPos')
      BY <1>q, <3>1, FollowsQueued
    <3> QED BY <1>q, <3>2 DEF PlaceFollows
  <2> QED BY <1>6, <2>1, <2>2
<1>7. ASSUME ~dropped', e.type = "resize" \/ box' = box PROVE SizeFollows'
  <2>0. ~dropped /\ ~Overflows(events)
    BY <1>q, <1>7
  <2>1. CASE e.type # "resize" /\ box' = box
    <3>1. Follows(events, Kinds({"resize"}), Kinds({"resize"}), window_size = box)
      BY <1>q, <2>0 DEF Agree, SizeFollows
    <3>2. e \notin Kinds({"resize"})
      BY <2>1 DEF Kinds
    <3>3. Follows(Queued(events, e), Kinds({"resize"}), Kinds({"resize"}), window_size = box)
      BY <1>q, <2>0, <3>1, <3>2, FollowsQueued
    <3> QED BY <1>q, <2>1, <3>3 DEF SizeFollows, window, input
  <2>2. CASE e.type = "resize"
    <3>1. e \in Kinds({"resize"}) \cap Kinds({"resize"})
      BY <2>2 DEF Kinds
    <3>2. Follows(Queued(events, e), Kinds({"resize"}), Kinds({"resize"}), window_size' = box')
      BY <1>q, <3>1, FollowsQueued
    <3> QED BY <1>q, <3>2 DEF SizeFollows
  <2> QED BY <1>7, <2>1, <2>2
<1> QED BY <1>1, <1>2, <1>3, <1>4, <1>5, <1>6, <1>7

\* What an event makes of the invariant when it is applied.
LEMMA Applies ==
    ASSUME IInv, Applied, alive
    PROVE  LET e == Head(pending)
           IN  /\ Queues' /\ e \in WebEvent
               /\ window_active' = (IF e.type = "active" THEN e.is_active ELSE window_active)
                      => ActiveFollows'
               /\ is_mouse_inside' = (IF e.type = "mouseenter" THEN e.is_inside ELSE is_mouse_inside)
                      => InsideFollows'
               /\ (\A b \in Buttons :
                      (b \in button_status') = CASE e.type = "mousebutton" /\ e.button = b -> e.is_pressed
                                                 [] e.type = "mousecancel" -> FALSE
                                                 [] OTHER -> b \in button_status)
                      => \A b \in Buttons : ButtonLeads(b)'
               /\ \A k \in AllKeys :
                      (k \in key_status' => (e \in KeyDeciding(k) /\ e.type = "key" /\ e.down)
                                            \/ (e \notin KeyDeciding(k) /\ k \in key_status))
                      => KeyFollows(k)'
               /\ mouse_pos' = (IF e \in Placings THEN e.pos ELSE mouse_pos) => (~dropped' => PlaceFollows')
               /\ window_size' = (IF e.type = "resize" THEN box ELSE window_size) => (~dropped' => SizeFollows')
<1> DEFINE e == Head(pending)
<1>q. /\ pending \in Seq(WebEvent) /\ pending # <<>> /\ Unread = pending /\ Unread' = Tail(pending)
      /\ Agree /\ e \in WebEvent /\ Tail(pending) \in Seq(WebEvent) /\ e = Head(pending)
  BY TailElements DEF IInv, Queues, Unread, Applied, Taking
<1>u. UNCHANGED <<is_active, inside, pressedButtons, dropped, lastPos, box, keys, nameless>>
  BY DEF Applied, user, listeners
<1> HIDE DEF e
<1>1. Queues'
  BY <1>q DEF IInv, Queues, Applied, Taking, listeners
<1>2. ASSUME window_active' = (IF e.type = "active" THEN e.is_active ELSE window_active) PROVE ActiveFollows'
  <2>1. Follows(pending, Kinds({"active"}), {Active(is_active)}, window_active = is_active)
    BY <1>q DEF Agree, ActiveFollows
  <2>2. Follows(Tail(pending), Kinds({"active"}), {Active(is_active)}, window_active' = is_active)
    <3>1. e \notin Kinds({"active"}) /\ window_active = is_active => window_active' = is_active
      BY <1>2, <1>q DEF Kinds
    <3>2. e \in Kinds({"active"}) \cap {Active(is_active)} => window_active' = is_active
      BY <1>2 DEF Kinds, Active
    <3> QED BY <1>q, <2>1, <3>1, <3>2, FollowsTail
  <2> QED BY <1>q, <1>u, <2>2 DEF ActiveFollows
<1>3. ASSUME is_mouse_inside' = (IF e.type = "mouseenter" THEN e.is_inside ELSE is_mouse_inside)
      PROVE  InsideFollows'
  <2>1. Follows(pending, Kinds({"mouseenter"}), {Enter(inside)}, is_mouse_inside = inside)
    BY <1>q DEF Agree, InsideFollows
  <2>2. Follows(Tail(pending), Kinds({"mouseenter"}), {Enter(inside)}, is_mouse_inside' = inside)
    <3>1. e \notin Kinds({"mouseenter"}) /\ is_mouse_inside = inside => is_mouse_inside' = inside
      BY <1>3, <1>q DEF Kinds
    <3>2. e \in Kinds({"mouseenter"}) \cap {Enter(inside)} => is_mouse_inside' = inside
      BY <1>3 DEF Kinds, Enter
    <3> QED BY <1>q, <2>1, <3>1, <3>2, FollowsTail
  <2> QED BY <1>q, <1>u, <2>2 DEF InsideFollows
<1>4. ASSUME \A b \in Buttons :
                 (b \in button_status') = CASE e.type = "mousebutton" /\ e.button = b -> e.is_pressed
                                            [] e.type = "mousecancel" -> FALSE
                                            [] OTHER -> b \in button_status,
             NEW b \in Buttons
      PROVE  ButtonLeads(b)'
  <2> DEFINE T == ButtonStep(b)
             V == BOOLEAN
  <2>1. Leads(pending, T, V, b \in button_status, b \in pressedButtons)
    BY <1>q DEF Agree, ButtonLeads
  <2>2. \A c \in V : <<e, b \in button_status, c>> \in T => c = (b \in button_status')
    BY <1>4, <1>q DEF ButtonStep
  <2> HIDE DEF T, V
  <2>3. PICK c \in V : <<Head(pending), b \in button_status, c>> \in T
                       /\ Leads(Tail(pending), T, V, c, b \in pressedButtons)
    BY <1>q, <2>1, LeadsTail
  <2>4. c = (b \in button_status')
    BY <1>q, <2>2, <2>3
  <2>5. Leads(Tail(pending), T, V, b \in button_status', b \in pressedButtons)
    BY <2>3, <2>4
  <2> QED BY <1>q, <1>u, <2>5 DEF ButtonLeads, T, V
<1>5. ASSUME NEW k \in AllKeys,
             k \in key_status' => (e \in KeyDeciding(k) /\ e.type = "key" /\ e.down)
                                  \/ (e \notin KeyDeciding(k) /\ k \in key_status)
      PROVE  KeyFollows(k)'
  <2>0. Holds(k)' = Holds(k) /\ KeyRight(k)' = KeyRight(k)
    BY <1>u DEF Holds, KeyRight
  <2>1. Follows(pending, KeyDeciding(k), KeyRight(k), k \in key_status => Holds(k))
    BY <1>q DEF Agree, KeyFollows
  <2>2. Follows(Tail(pending), KeyDeciding(k), KeyRight(k), k \in key_status' => Holds(k))
    <3>1. e \notin KeyDeciding(k) /\ (k \in key_status => Holds(k)) => (k \in key_status' => Holds(k))
      BY <1>5
    <3>2. e \in KeyDeciding(k) \cap KeyRight(k) => (k \in key_status' => Holds(k))
      BY <1>5 DEF KeyRight
    <3> QED BY <1>q, <2>1, <3>1, <3>2, FollowsTail
  <2> QED BY <1>q, <2>0, <2>2 DEF KeyFollows
<1>6. ASSUME ~dropped', mouse_pos' = (IF e \in Placings THEN e.pos ELSE mouse_pos) PROVE PlaceFollows'
  <2>1. Follows(pending, Placings, {f \in Placings : f.pos = lastPos}, mouse_pos = lastPos)
    BY <1>q, <1>u, <1>6 DEF Agree, PlaceFollows
  <2>2. Follows(Tail(pending), Placings, {f \in Placings : f.pos = lastPos}, mouse_pos' = lastPos)
    <3>1. e \notin Placings /\ mouse_pos = lastPos => mouse_pos' = lastPos
      BY <1>6
    <3>2. e \in Placings \cap {f \in Placings : f.pos = lastPos} => mouse_pos' = lastPos
      BY <1>6
    <3> QED BY <1>q, <2>1, <3>1, <3>2, FollowsTail
  <2> QED BY <1>q, <1>u, <2>2 DEF PlaceFollows
<1>7. ASSUME ~dropped', window_size' = (IF e.type = "resize" THEN box ELSE window_size) PROVE SizeFollows'
  <2>1. Follows(pending, Kinds({"resize"}), Kinds({"resize"}), window_size = box)
    BY <1>q, <1>u, <1>7 DEF Agree, SizeFollows
  <2>2. Follows(Tail(pending), Kinds({"resize"}), Kinds({"resize"}), window_size' = box)
    <3>1. e \notin Kinds({"resize"}) /\ window_size = box => window_size' = box
      BY <1>7, <1>q DEF Kinds
    <3>2. e \in Kinds({"resize"}) \cap Kinds({"resize"}) => window_size' = box
      BY <1>7 DEF Kinds
    <3> QED BY <1>q, <2>1, <3>1, <3>2, FollowsTail
  <2> QED BY <1>q, <1>u, <2>2 DEF SizeFollows
<1> QED BY <1>q, <1>1, <1>2, <1>3, <1>4, <1>5, <1>6, <1>7 DEF e

--------------------------------------------------------------------------------
\* The types, of what the listeners change and of what the program changes.
UserTypes ==
    /\ mouse \subseteq Buttons /\ pressedButtons \subseteq Buttons
    /\ keys \subseteq Keys \cup {"RIGHT_ALT"}
    /\ lastPos \in Places \cup {0} /\ box \in Places
    /\ altgr \in {"none", "down", "up"} /\ given \in 0 .. MaxInputs
    /\ touching \in BOOLEAN /\ nameless \in BOOLEAN /\ inside \in BOOLEAN /\ is_active \in BOOLEAN
    /\ dropped \in BOOLEAN
ProgramTypes ==
    /\ button_status \subseteq Buttons /\ key_status \subseteq Keys \cup {"LEFT_CONTROL", "RIGHT_ALT"}
    /\ mouse_pos \in Places \cup {0} /\ window_size \in Places
    /\ pc \in {"idle", "begin", "poll", "sleep"} /\ call \in Calls \cup {"none"}
    /\ ret \in {"OK", "EXIT"}
    /\ is_mouse_inside \in BOOLEAN /\ window_active \in BOOLEAN
    /\ close \in BOOLEAN /\ alive \in BOOLEAN /\ yielded \in BOOLEAN /\ due \in BOOLEAN

LEMMA Typing == ASSUME Queues PROVE TypeOK <=> UserTypes /\ ProgramTypes
<1>1. \A q \in {events, pending} : \A i \in DOMAIN q : q[i] \in Events
  BY LenProperties, ElementOfSeq DEF Queues, WebEvent
<1> QED BY <1>1 DEF TypeOK, UserTypes, ProgramTypes

\* Every listener runs with nothing pending, and counts an input.
LEMMA Listener ==
    ASSUME IInv, NEW kind, Browser(kind)
    PROVE  /\ kind \in Inputs /\ alive /\ pc # "poll" /\ alive' = alive
           /\ UNCHANGED <<pc, pending, window, program>>
           /\ UserTypes /\ UserHolds /\ Agree
           /\ WebParameters => given' \in 0 .. MaxInputs
           /\ Queues' => (TypeOK' <=> UserTypes')
<1>1. UserTypes /\ ProgramTypes
  BY Typing DEF IInv
<1>2. UNCHANGED <<pc, pending, window, program>> /\ alive' = alive
  BY DEF Browser, window, program
<1>3. ProgramTypes'
  BY <1>1, <1>2 DEF ProgramTypes, window, input, program
<1>4. Queues' => (TypeOK' <=> UserTypes' /\ ProgramTypes')
  BY Typing, PTL
<1> QED BY <1>1, <1>2, <1>3, <1>4 DEF IInv, Browser, UserTypes, WebParameters

\* Neither the mouse nor the touch screen moves a key.
LEMMA NoKey ==
    ASSUME NEW k, NEW e \in WebEvent, UNCHANGED <<keys, nameless>>, is_active => is_active',
           e.type \notin {"key", "modsync"}, e # Active(FALSE)
    PROVE  e \notin KeyDeciding(k) /\ (Holds(k) => Holds(k)')
BY DEF KeyDeciding, Holds

\* A step of ButtonStep, event by event.
LEMMA ButtonSteps ==
    ASSUME NEW e \in WebEvent, NEW b \in Buttons, NEW x \in BOOLEAN, NEW y \in BOOLEAN
    PROVE  <<e, x, y>> \in ButtonStep(b) <=>
               IF e.type = "mousebutton" /\ e.button = b
               THEN y = e.is_pressed /\ (y \/ x \/ "touch" \in Inputs)
               ELSE IF e.type = "mousecancel" THEN ~y ELSE y = x
BY DEF ButtonStep

\* An event that is no button's.
LEMMA NoButton ==
    ASSUME NEW e \in WebEvent, e.type \notin {"mousebutton", "mousecancel"}, pressedButtons' = pressedButtons
    PROVE  \A b \in Buttons : <<e, b \in pressedButtons, b \in pressedButtons'>> \in ButtonStep(b)
<1> SUFFICES ASSUME NEW b \in Buttons
             PROVE  <<e, b \in pressedButtons, b \in pressedButtons'>> \in ButtonStep(b)
  OBVIOUS
<1>1. (b \in pressedButtons) \in BOOLEAN /\ (b \in pressedButtons') = (b \in pressedButtons)
  OBVIOUS
<1> DEFINE x == b \in pressedButtons
<1>2. x \in BOOLEAN /\ (b \in pressedButtons') = x
  BY <1>1
<1> HIDE DEF x
<1>3. <<e, x, x>> \in ButtonStep(b)
  BY <1>2, ButtonSteps
<1> QED BY <1>2, <1>3 DEF x

LEMMA Moved ==
    ASSUME WebParameters, IInv, NEW kind, Browser(kind), NEW p \in Places,
           lastPos' = p, enqueueEvent([type |-> "mousemove", pos |-> p]),
           UNCHANGED <<mouse, touching, inside, pressedButtons, is_active, keys, altgr, nameless, box>>
    PROVE  IInv'
<1> DEFINE e == [type |-> "mousemove", pos |-> p]
<1>0. e \in WebEvent /\ e.type = "mousemove" /\ e.pos = p /\ e # Active(FALSE)
  BY EventKinds DEF Active
<1>e. enqueueEvent(e)
  OBVIOUS
<1> HIDE DEF e
<1>1. e \in Placings
  BY <1>0 DEF Placings, Kinds
<1>2. \A b \in Buttons : <<e, b \in pressedButtons, b \in pressedButtons'>> \in ButtonStep(b)
  BY <1>0, NoButton
<1>3. \A k \in AllKeys : e \notin KeyDeciding(k) /\ (Holds(k) => Holds(k)')
  BY <1>0, NoKey
<1>4. Queues' /\ Agree'
  BY <1>0, <1>e, <1>1, <1>2, <1>3, Listener, Listens DEF Agree
<1>5. UserTypes' /\ UserHolds'
  BY <1>e, Listener DEF UserTypes, UserHolds, enqueueEvent
<1> QED BY <1>4, <1>5, Listener DEF IInv

LEMMA Moves ==
    ASSUME WebParameters, IInv, NEW p \in Places, mousemove(p) \/ touchmove(p)
    PROVE  IInv'
<1>1. PICK kind : Browser(kind) /\ kind \in {"mouse", "touch"}
  BY DEF mousemove, touchmove
<1>2. /\ lastPos' = p /\ enqueueEvent([type |-> "mousemove", pos |-> p])
      /\ UNCHANGED <<mouse, touching, inside, pressedButtons, is_active, keys, altgr, nameless, box>>
  BY DEF mousemove, touchmove, Pointer
<1> QED BY <1>1, <1>2, Moved

LEMMA Wheels ==
    ASSUME WebParameters, IInv, wheel
    PROVE  IInv'
<1> DEFINE e == [type |-> "mousescroll"]
<1>0. /\ e \in WebEvent /\ e.type = "mousescroll" /\ e # Active(FALSE)
      /\ Browser("mouse") /\ enqueueEvent(e)
      /\ UNCHANGED <<mouse, touching, inside, pressedButtons, lastPos, is_active, keys, altgr, nameless, box>>
  BY EventKinds DEF Active, wheel, Pointer
<1> HIDE DEF e
<1>1. e \notin Placings
  BY <1>0 DEF Placings, Kinds
<1>2. \A b \in Buttons : <<e, b \in pressedButtons, b \in pressedButtons'>> \in ButtonStep(b)
  BY <1>0, NoButton
<1>3. \A k \in AllKeys : e \notin KeyDeciding(k) /\ (Holds(k) => Holds(k)')
  BY <1>0, NoKey
<1>4. Queues' /\ Agree'
  BY <1>0, <1>1, <1>2, <1>3, Listener, Listens DEF Agree
<1>5. UserTypes' /\ UserHolds'
  BY <1>0, Listener DEF UserTypes, UserHolds, enqueueEvent
<1> QED BY <1>0, <1>4, <1>5, Listener DEF IInv

LEMMA Crosses ==
    ASSUME WebParameters, IInv, pointerEnterOrLeave
    PROVE  IInv'
<1> DEFINE e == Enter(~inside)
<1>0. /\ e \in WebEvent /\ e.type = "mouseenter" /\ e # Active(FALSE) /\ e = Enter(inside')
      /\ Browser("mouse") /\ enqueueEvent(e) /\ inside' \in BOOLEAN
      /\ UNCHANGED <<mouse, touching, pressedButtons, lastPos, is_active, keys, altgr, nameless, box>>
  BY EventKinds DEF Active, Enter, pointerEnterOrLeave, Pointer
<1> HIDE DEF e
<1>1. e \notin Placings
  BY <1>0 DEF Placings, Kinds
<1>2. \A b \in Buttons : <<e, b \in pressedButtons, b \in pressedButtons'>> \in ButtonStep(b)
  BY <1>0, NoButton
<1>3. \A k \in AllKeys : e \notin KeyDeciding(k) /\ (Holds(k) => Holds(k)')
  BY <1>0, NoKey
<1>4. Queues' /\ Agree'
  BY <1>0, <1>1, <1>2, <1>3, Listener, Listens DEF Agree
<1>5. UserTypes' /\ UserHolds'
  BY <1>0, Listener DEF UserTypes, UserHolds, enqueueEvent
<1> QED BY <1>0, <1>4, <1>5, Listener DEF IInv

LEMMA Resizes ==
    ASSUME WebParameters, IInv, NEW s \in Places, Resized(s)
    PROVE  IInv'
<1> DEFINE e == [type |-> "resize"]
<1>0. /\ e \in WebEvent /\ e.type = "resize" /\ e # Active(FALSE)
      /\ Browser("resize") /\ enqueueEvent(e) /\ box' = s
      /\ UNCHANGED <<mouse, touching, keys, altgr, nameless, inside, pressedButtons, lastPos, is_active>>
  BY EventKinds DEF Active, Resized
<1> HIDE DEF e
<1>1. e \notin Placings
  BY <1>0 DEF Placings, Kinds
<1>2. \A b \in Buttons : <<e, b \in pressedButtons, b \in pressedButtons'>> \in ButtonStep(b)
  BY <1>0, NoButton
<1>3. \A k \in AllKeys : e \notin KeyDeciding(k) /\ (Holds(k) => Holds(k)')
  BY <1>0, NoKey
<1>4. Queues' /\ Agree'
  BY <1>0, <1>1, <1>2, <1>3, Listener, Listens DEF Agree
<1>5. UserTypes' /\ UserHolds'
  BY <1>0, Listener DEF UserTypes, UserHolds, enqueueEvent
<1> QED BY <1>0, <1>4, <1>5, Listener DEF IInv

\* A release, of the mouse or of the touch, that a listener counts as pressed or the touch ends.
LEMMA Releases ==
    ASSUME WebParameters, IInv, NEW kind, Browser(kind), NEW b \in Buttons, NEW p \in Places,
           pressedButtons' = pressedButtons \ {b}, lastPos' = p, enqueueEvent(Button(b, FALSE, p)),
           b \in pressedButtons \/ "touch" \in Inputs,
           UNCHANGED <<inside, is_active, keys, altgr, nameless, box>>,
           mouse' \subseteq mouse, mouse \ {b} \subseteq mouse',
           touching' \in BOOLEAN, touching' => touching, (touching /\ ~touching') => b = 1
    PROVE  IInv'
<1> DEFINE e == Button(b, FALSE, p)
<1>0. /\ e \in WebEvent /\ e.type = "mousebutton" /\ e.button = b /\ e.pos = p /\ e.is_pressed = FALSE
      /\ e # Active(FALSE) /\ enqueueEvent(e)
  BY EventKinds DEF Active, Button
<1> HIDE DEF e
<1>1. e \in Placings
  BY <1>0 DEF Placings, Kinds
<1>2. ASSUME NEW c \in Buttons PROVE <<e, c \in pressedButtons, c \in pressedButtons'>> \in ButtonStep(c)
  <2> DEFINE x == c \in pressedButtons
             y == c \in pressedButtons'
  <2>1. x \in BOOLEAN /\ y \in BOOLEAN /\ (c # b => y = x) /\ (c = b => ~y /\ (x \/ "touch" \in Inputs))
    OBVIOUS
  <2> HIDE DEF x, y
  <2>2. <<e, x, y>> \in ButtonStep(c)
    BY <1>0, <2>1, ButtonSteps
  <2> QED BY <2>2 DEF x, y
<1>3. \A k \in AllKeys : e \notin KeyDeciding(k) /\ (Holds(k) => Holds(k)')
  BY <1>0, NoKey
<1>4. Queues' /\ Agree'
  BY <1>0, <1>1, <1>2, <1>3, Listener, Listens DEF Agree
<1>5. UserTypes' /\ UserHolds'
  BY <1>0, Listener DEF UserTypes, UserHolds, enqueueEvent
<1> QED BY <1>0, <1>4, <1>5, Listener DEF IInv

\* No event: nothing the window is told of has changed.
LEMMA Unheard ==
    ASSUME WebParameters, IInv, NEW kind, Browser(kind), UNCHANGED listeners,
           UNCHANGED <<touching, inside, keys, altgr, nameless, box>>,
           mouse' \subseteq Buttons, pressedButtons \subseteq mouse' \cup (IF touching THEN {1} ELSE {})
    PROVE  IInv'
<1>1. UserTypes' /\ UserHolds'
  BY Listener DEF UserTypes, UserHolds, listeners
<1>2. Queues' /\ Unread' = Unread
  BY Listener DEF IInv, Queues, Unread, listeners
<1>3. Agree'
  BY <1>2, Listener DEF Agree, ActiveFollows, InsideFollows, ButtonLeads, KeyFollows, KeyRight, Holds,
     PlaceFollows, SizeFollows, listeners, window, input
<1> QED BY <1>1, <1>2, <1>3, Listener DEF IInv

LEMMA Buttonless ==
    ASSUME WebParameters, IInv, NEW b \in Buttons
    PROVE  /\ \A p \in Places : mouseup(b, p) => IInv'
           /\ MouseDownElsewhere(b) => IInv'
<1>1. ASSUME NEW p \in Places, mouseup(b, p) PROVE IInv'
  <2>0. Browser("mouse") /\ mouse' = mouse \ {b} /\ Pointer /\ UNCHANGED <<touching, inside, is_active>>
    BY <1>1 DEF mouseup
  <2>u. UserTypes /\ UserHolds
    BY <2>0, Listener
  <2>1. CASE Reported(b) /\ pressedButtons' = pressedButtons \ {b} /\ lastPos' = p /\ enqueueEvent(Button(b, FALSE, p))
    <3>1. b \in pressedButtons /\ touching' \in BOOLEAN
      BY <2>0, <2>1, <2>u DEF Reported, UserTypes
    <3> QED BY <2>0, <2>1, <3>1, Releases DEF Pointer
  <2>2. CASE ~Reported(b) /\ UNCHANGED <<pressedButtons, lastPos, events, dropped>>
    <3>1. /\ mouse' \subseteq Buttons
          /\ pressedButtons \subseteq mouse' \cup (IF touching THEN {1} ELSE {})
      BY <2>0, <2>2, <2>u DEF Reported, UserTypes, UserHolds
    <3> QED BY <2>0, <2>2, <3>1, Unheard DEF Pointer, listeners
  <2> QED BY <1>1, <2>1, <2>2 DEF mouseup
<1>2. ASSUME MouseDownElsewhere(b) PROVE IInv'
  <2>0. Browser("mouse") /\ mouse' = mouse \cup {b} /\ Pointer /\ UNCHANGED <<touching, inside, listeners>>
    BY <1>2 DEF MouseDownElsewhere
  <2>1. /\ mouse' \subseteq Buttons
        /\ pressedButtons \subseteq mouse' \cup (IF touching THEN {1} ELSE {})
    BY <2>0, Listener DEF UserTypes, UserHolds
  <2> QED BY <2>0, <2>1, Unheard DEF Pointer
<1> QED BY <1>1, <1>2

LEMMA TouchEnds ==
    ASSUME WebParameters, IInv, NEW p \in Places, touchEndOrCancel(p)
    PROVE  IInv'
<1>1. /\ Browser("touch") /\ touching' = FALSE /\ pressedButtons' = pressedButtons \ {1} /\ lastPos' = p
      /\ enqueueEvent(Button(1, FALSE, p)) /\ 1 \in Buttons /\ "touch" \in Inputs
      /\ UNCHANGED <<inside, is_active, keys, altgr, nameless, box, mouse>>
  BY ButtonsAssumption DEF touchEndOrCancel, Pointer, Browser
<1> QED BY <1>1, Releases

\* Two events at once.
LEMMA ListensTwice ==
    ASSUME IInv, NEW e \in WebEvent, NEW f \in WebEvent, enqueueBoth(e, f), pc # "poll", alive,
           UNCHANGED <<pc, pending, window, box>>, e.type # "resize", f.type # "resize"
    PROVE  /\ Queues'
           /\ f.type # "active" /\ ((e.type # "active" /\ is_active' = is_active) \/ e = Active(is_active'))
                  => ActiveFollows'
           /\ (e.type # "mouseenter" /\ f.type # "mouseenter" /\ inside' = inside) \/ f = Enter(inside')
                  => InsideFollows'
           /\ (\A b \in Buttons : \E m \in BOOLEAN : /\ <<e, b \in pressedButtons, m>> \in ButtonStep(b)
                                                     /\ <<f, m, b \in pressedButtons'>> \in ButtonStep(b))
                  => \A b \in Buttons : ButtonLeads(b)'
           /\ \A k \in AllKeys : e \notin KeyDeciding(k) /\ f \notin KeyDeciding(k) /\ (Holds(k) => Holds(k)')
                                 => KeyFollows(k)'
           /\ \/ e \notin Placings /\ f \notin Placings /\ lastPos' = lastPos
              \/ f \in Placings /\ f.pos = lastPos'
              => (~dropped' => PlaceFollows')
           /\ ~dropped' => SizeFollows'
<1> DEFINE q == Queued(events, e)
<1>q. /\ events \in Seq(WebEvent) /\ Unread = events /\ Unread' = events' /\ events' = Queued(q, f)
      /\ Agree /\ dropped' = (dropped \/ Overflows(events) \/ Overflows(q)) /\ q \in Seq(WebEvent)
  BY QueuedType DEF IInv, Queues, Unread, enqueueBoth, TypeOK
<1>e. q = Queued(events, e)
  OBVIOUS
<1>s. UNCHANGED <<window_active, is_mouse_inside, button_status, key_status, mouse_pos, window_size, box>>
  BY DEF window, input
<1>d. Kinds({"active"}) \cap Droppables = {} /\ Kinds({"mouseenter"}) \cap Droppables = {}
  BY DEF Kinds, Droppables
<1> HIDE DEF q
<1>1. Queues'
  BY <1>q, QueuedType DEF IInv, Queues, window
<1>2. ASSUME f.type # "active", (e.type # "active" /\ is_active' = is_active) \/ e = Active(is_active')
      PROVE  ActiveFollows'
  <2> DEFINE W == Kinds({"active"})
             R == {Active(is_active')}
             ok == window_active' = is_active'
  <2>0. Follows(events, W, {Active(is_active)}, window_active = is_active)
    BY <1>q DEF Agree, ActiveFollows
  <2>1. (Follows(events, W, R, ok) /\ e \notin W) \/ e \in W \cap R
    BY <1>2, <1>s, <2>0 DEF Kinds, Active
  <2>2. f \notin W
    BY <1>2 DEF Kinds
  <2>3. ActiveFollows' <=> Follows(Unread', W, R, ok)
    BY DEF ActiveFollows
  <2> HIDE DEF W, R, ok
  <2>w. W \cap Droppables = {}
    BY <1>d DEF W
  <2>4. Follows(q, W, R, ok)
    BY <1>q, <1>e, <2>1, <2>w, FollowsQueued
  <2>5. Follows(Queued(q, f), W, R, ok)
    BY <1>q, <2>2, <2>4, <2>w, FollowsQueued
  <2> QED BY <1>q, <2>3, <2>5
<1>3. ASSUME (e.type # "mouseenter" /\ f.type # "mouseenter" /\ inside' = inside) \/ f = Enter(inside')
      PROVE  InsideFollows'
  <2> DEFINE W == Kinds({"mouseenter"})
             R == {Enter(inside')}
             ok == is_mouse_inside' = inside'
  <2>0. Follows(events, W, {Enter(inside)}, is_mouse_inside = inside)
    BY <1>q DEF Agree, InsideFollows
  <2>1. (Follows(events, W, R, ok) /\ e \notin W /\ f \notin W) \/ f \in W \cap R
    BY <1>3, <1>s, <2>0 DEF Kinds, Enter
  <2>3. InsideFollows' <=> Follows(Unread', W, R, ok)
    BY DEF InsideFollows
  <2> HIDE DEF W, R, ok
  <2>w. W \cap Droppables = {}
    BY <1>d DEF W
  <2>4. CASE f \in W \cap R
    <3>1. Follows(Queued(q, f), W, R, ok)
      BY <1>q, <2>4, FollowsQueued
    <3> QED BY <1>q, <2>3, <3>1
  <2>5. CASE Follows(events, W, R, ok) /\ e \notin W /\ f \notin W
    <3>1. Follows(q, W, R, ok)
      BY <1>q, <1>e, <2>5, <2>w, FollowsQueued
    <3>2. Follows(Queued(q, f), W, R, ok)
      BY <1>q, <2>5, <3>1, <2>w, FollowsQueued
    <3> QED BY <1>q, <2>3, <3>2
  <2> QED BY <2>1, <2>4, <2>5
<1>4. ASSUME \A b \in Buttons : \E m \in BOOLEAN : /\ <<e, b \in pressedButtons, m>> \in ButtonStep(b)
                                                   /\ <<f, m, b \in pressedButtons'>> \in ButtonStep(b),
             NEW b \in Buttons
      PROVE  ButtonLeads(b)'
  <2>1. Leads(events, ButtonStep(b), BOOLEAN, b \in button_status, b \in pressedButtons)
    BY <1>q DEF Agree, ButtonLeads
  <2>2. PICK m \in BOOLEAN : /\ <<e, b \in pressedButtons, m>> \in ButtonStep(b)
                             /\ <<f, m, b \in pressedButtons'>> \in ButtonStep(b)
    BY <1>4
  <2>3. /\ (b \in button_status) \in BOOLEAN /\ (b \in pressedButtons) \in BOOLEAN
        /\ (b \in pressedButtons') \in BOOLEAN
    OBVIOUS
  <2>4. Leads(q, ButtonStep(b), BOOLEAN, b \in button_status, m)
    BY <1>q, <1>e, <2>1, <2>2, <2>3, LeadsQueued
  <2>5. Leads(Queued(q, f), ButtonStep(b), BOOLEAN, b \in button_status, b \in pressedButtons')
    BY <1>q, <2>2, <2>3, <2>4, LeadsQueued
  <2> QED BY <1>q, <1>s, <2>5 DEF ButtonLeads
<1>5. ASSUME NEW k \in AllKeys, e \notin KeyDeciding(k), f \notin KeyDeciding(k), Holds(k) => Holds(k)'
      PROVE  KeyFollows(k)'
  <2>1. KeyDeciding(k) \cap Droppables = {}
    BY DEF KeyDeciding, Kinds, Droppables, Active
  <2>2. Follows(events, KeyDeciding(k), KeyRight(k), k \in key_status => Holds(k))
    BY <1>q DEF Agree, KeyFollows
  <2>3. Follows(q, KeyDeciding(k), KeyRight(k), k \in key_status => Holds(k))
    BY <1>q, <1>e, <1>5, <2>1, <2>2, FollowsQueued
  <2>4. Follows(Queued(q, f), KeyDeciding(k), KeyRight(k), k \in key_status => Holds(k))
    BY <1>q, <1>5, <2>1, <2>3, FollowsQueued
  <2>5. KeyRight(k) \subseteq KeyRight(k)' /\ key_status' = key_status
    BY <1>5, <1>s DEF KeyRight
  <2>6. Follows(Queued(q, f), KeyDeciding(k), KeyRight(k)', k \in key_status' => Holds(k)')
    BY <1>5, <2>4, <2>5, FollowsMore
  <2> QED BY <1>q, <2>6 DEF KeyFollows
<1>6. ASSUME ~dropped', \/ e \notin Placings /\ f \notin Placings /\ lastPos' = lastPos
                        \/ f \in Placings /\ f.pos = lastPos'
      PROVE  PlaceFollows'
  <2> DEFINE W == Placings
             R == {g \in Placings : g.pos = lastPos'}
             ok == mouse_pos' = lastPos'
  <2>0. ~dropped /\ ~Overflows(events) /\ ~Overflows(q)
    BY <1>q, <1>6
  <2>1. Follows(events, W, {g \in Placings : g.pos = lastPos}, mouse_pos = lastPos)
    BY <1>q, <2>0 DEF Agree, PlaceFollows
  <2>2. (Follows(events, W, R, ok) /\ e \notin W /\ f \notin W) \/ f \in W \cap R
    BY <1>6, <1>s, <2>1
  <2>3. PlaceFollows' <=> Follows(Unread', W, R, ok)
    BY DEF PlaceFollows
  <2> HIDE DEF W, R, ok
  <2>4. CASE f \in W \cap R
    <3>1. Follows(Queued(q, f), W, R, ok)
      BY <1>q, <2>4, FollowsQueued
    <3> QED BY <1>q, <2>3, <3>1
  <2>5. CASE Follows(events, W, R, ok) /\ e \notin W /\ f \notin W
    <3>1. Follows(q, W, R, ok)
      BY <1>q, <1>e, <2>0, <2>5, FollowsQueued
    <3>2. Follows(Queued(q, f), W, R, ok)
      BY <1>q, <2>0, <2>5, <3>1, FollowsQueued
    <3> QED BY <1>q, <2>3, <3>2
  <2> QED BY <2>2, <2>4, <2>5
<1>7. ASSUME ~dropped' PROVE SizeFollows'
  <2> DEFINE W == Kinds({"resize"})
             ok == window_size = box
  <2>0. ~dropped /\ ~Overflows(events) /\ ~Overflows(q)
    BY <1>q, <1>7
  <2>1. Follows(events, W, W, ok) /\ e \notin W /\ f \notin W
    BY <1>q, <2>0 DEF Agree, SizeFollows, Kinds
  <2>2. SizeFollows' <=> Follows(Unread', W, W, ok)
    BY <1>s DEF SizeFollows
  <2> HIDE DEF W, ok
  <2>3. Follows(q, W, W, ok)
    BY <1>q, <1>e, <2>0, <2>1, FollowsQueued
  <2>4. Follows(Queued(q, f), W, W, ok)
    BY <1>q, <2>0, <2>1, <2>3, FollowsQueued
  <2> QED BY <1>q, <2>2, <2>4
<1> QED BY <1>1, <1>2, <1>3, <1>4, <1>5, <1>6, <1>7

\* A press, of the mouse or of the touch, that takes the focus if the window has none.
LEMMA Presses ==
    ASSUME WebParameters, IInv, NEW kind, Browser(kind), NEW b \in Buttons, NEW p \in Places, Pressed(b, p),
           UNCHANGED <<inside, keys, altgr, nameless, box>>,
           mouse' \subseteq Buttons, touching' \in BOOLEAN,
           mouse \subseteq mouse', touching => touching', touching' => "touch" \in Inputs,
           b \in mouse' \cup (IF touching' THEN {1} ELSE {})
    PROVE  IInv'
<1> DEFINE e == Button(b, TRUE, p)
           a == Active(TRUE)
<1>0. /\ e \in WebEvent /\ e.type = "mousebutton" /\ e.button = b /\ e.pos = p /\ e.is_pressed = TRUE
      /\ e # Active(FALSE) /\ a \in WebEvent /\ a.type = "active" /\ a # Active(FALSE)
      /\ pressedButtons' = pressedButtons \cup {b} /\ lastPos' = p /\ is_active' = TRUE /\ a = Active(is_active')
  BY EventKinds DEF Active, Button, Pressed
<1>p. IF is_active THEN enqueueEvent(e) ELSE enqueueBoth(a, e)
  BY DEF Pressed
<1> HIDE DEF e, a
<1>1. e \in Placings
  BY <1>0 DEF Placings, Kinds
<1>2. ASSUME NEW c \in Buttons
      PROVE  /\ <<e, c \in pressedButtons, c \in pressedButtons'>> \in ButtonStep(c)
             /\ <<a, c \in pressedButtons, c \in pressedButtons>> \in ButtonStep(c)
             /\ (c \in pressedButtons) \in BOOLEAN
  <2> DEFINE x == c \in pressedButtons
             y == c \in pressedButtons'
  <2>1. x \in BOOLEAN /\ y \in BOOLEAN /\ (c # b => y = x) /\ (c = b => y)
    BY <1>0
  <2> HIDE DEF x, y
  <2>2. <<e, x, y>> \in ButtonStep(c) /\ <<a, x, x>> \in ButtonStep(c)
    BY <1>0, <2>1, ButtonSteps
  <2> QED BY <2>1, <2>2 DEF x, y
<1>3. \A k \in AllKeys : e \notin KeyDeciding(k) /\ a \notin KeyDeciding(k) /\ (Holds(k) => Holds(k)')
  BY <1>0, NoKey
<1>4. Queues' /\ Agree' /\ dropped' \in BOOLEAN
  <2>1. CASE is_active
    <3>1. is_active' = is_active
      BY <1>0, <2>1, Listener DEF UserTypes
    <3>2. Queues' /\ Agree'
      BY <1>0, <1>p, <1>1, <1>2, <1>3, <2>1, <3>1, Listener, Listens DEF Agree
    <3> QED BY <1>p, <2>1, <3>2 DEF enqueueEvent
  <2>2. CASE ~is_active
    <3>1. enqueueBoth(a, e)
      BY <1>p, <2>2
    <3>2. \A c \in Buttons : \E m \in BOOLEAN : /\ <<a, c \in pressedButtons, m>> \in ButtonStep(c)
                                                /\ <<e, m, c \in pressedButtons'>> \in ButtonStep(c)
      BY <1>2
    <3>3. Queues' /\ Agree'
      BY <1>0, <1>1, <1>3, <3>1, <3>2, Listener, ListensTwice DEF Agree
    <3> QED BY <3>1, <3>3 DEF enqueueBoth
  <2> QED BY <2>1, <2>2
<1>5. UserTypes' /\ UserHolds'
  BY <1>0, <1>4, Listener DEF UserTypes, UserHolds
<1> QED BY <1>4, <1>5, Listener DEF IInv

LEMMA Downs ==
    ASSUME WebParameters, IInv, NEW p \in Places
    PROVE  /\ \A b \in Buttons : mousedown(b, p) => IInv'
           /\ touchstart(p) => IInv'
<1>1. ASSUME NEW b \in Buttons, mousedown(b, p) PROVE IInv'
  <2>1. /\ Browser("mouse") /\ Pressed(b, p) /\ mouse' = mouse \cup {b}
        /\ UNCHANGED <<inside, keys, altgr, nameless, box, touching>>
    BY <1>1 DEF mousedown, Pointer
  <2>2. UserTypes /\ UserHolds
    BY <2>1, Listener
  <2>3. mouse' \subseteq Buttons /\ touching' \in BOOLEAN /\ (touching' => "touch" \in Inputs) /\ (touching => touching')
    BY <2>1, <2>2 DEF UserTypes, UserHolds
  <2> QED BY <2>1, <2>3, Presses
<1>2. ASSUME touchstart(p) PROVE IInv'
  <2>1. /\ Browser("touch") /\ Pressed(1, p) /\ touching' = TRUE /\ 1 \in Buttons
        /\ UNCHANGED <<inside, keys, altgr, nameless, box, mouse>>
    BY <1>2, ButtonsAssumption DEF touchstart, Pointer
  <2>2. mouse' \subseteq Buttons /\ "touch" \in Inputs
    BY <2>1, Listener DEF UserTypes
  <2> QED BY <2>1, <2>2, Presses
<1> QED BY <1>1, <1>2

LEMMA Cancels ==
    ASSUME WebParameters, IInv, pointerCancel
    PROVE  IInv'
<1> DEFINE e == [type |-> "mousecancel"]
           f == Enter(FALSE)
<1>0. /\ e \in WebEvent /\ e.type = "mousecancel" /\ e # Active(FALSE)
      /\ f \in WebEvent /\ f.type = "mouseenter" /\ f # Active(FALSE)
      /\ Browser("mouse") /\ mouse' = {} /\ inside' = FALSE /\ pressedButtons' = {} /\ enqueueBoth(e, f)
      /\ f = Enter(inside')
      /\ UNCHANGED <<touching, lastPos, is_active, keys, altgr, nameless, box>>
  BY EventKinds DEF Active, Enter, pointerCancel, Pointer
<1> HIDE DEF e, f
<1>1. e \notin Placings /\ f \notin Placings
  BY <1>0 DEF Placings, Kinds
<1>2. ASSUME NEW b \in Buttons
      PROVE  \E m \in BOOLEAN : /\ <<e, b \in pressedButtons, m>> \in ButtonStep(b)
                                /\ <<f, m, b \in pressedButtons'>> \in ButtonStep(b)
  <2> DEFINE x == b \in pressedButtons
             y == b \in pressedButtons'
  <2>1. x \in BOOLEAN /\ y \in BOOLEAN /\ ~y
    BY <1>0
  <2> HIDE DEF x, y
  <2>2. <<e, x, y>> \in ButtonStep(b) /\ <<f, y, y>> \in ButtonStep(b)
    BY <1>0, <2>1, ButtonSteps
  <2>3. \E m \in BOOLEAN : <<e, x, m>> \in ButtonStep(b) /\ <<f, m, y>> \in ButtonStep(b)
    BY <2>1, <2>2
  <2> QED BY <2>3 DEF x, y
<1>3. \A k \in AllKeys : e \notin KeyDeciding(k) /\ f \notin KeyDeciding(k) /\ (Holds(k) => Holds(k)')
  BY <1>0, NoKey
<1>4. Queues' /\ Agree'
  BY <1>0, <1>1, <1>2, <1>3, Listener, ListensTwice DEF Agree
<1>5. UserTypes' /\ UserHolds'
  BY <1>0, Listener DEF UserTypes, UserHolds, enqueueBoth
<1> QED BY <1>0, <1>4, <1>5, Listener DEF IInv

\* A key the window hears, and one it does not.
LEMMA KeyHeard ==
    ASSUME WebParameters, IInv, Browser("key"), NEW e \in WebEvent, e.type \in {"key", "modsync"},
           enqueueEvent(e),
           UNCHANGED <<mouse, touching, inside, box, pressedButtons, lastPos, is_active, altgr>>,
           keys' \subseteq Keys \cup {"RIGHT_ALT"}, nameless' \in BOOLEAN,
           nameless' => keys' \cap Shifts # {},
           \A k \in AllKeys : \/ e \notin KeyDeciding(k) /\ (Holds(k) => Holds(k)')
                              \/ e \in KeyDeciding(k) \cap KeyRight(k)'
    PROVE  IInv'
<1>1. e \notin Placings /\ e.type \notin {"mousebutton", "mousecancel", "active", "mouseenter", "resize"}
  BY DEF Placings, Kinds
<1>2. \A b \in Buttons : <<e, b \in pressedButtons, b \in pressedButtons'>> \in ButtonStep(b)
  BY <1>1, NoButton
<1>4. Queues' /\ Agree'
  BY <1>1, <1>2, Listener, Listens DEF Agree
<1>5. UserTypes' /\ UserHolds'
  BY Listener DEF UserTypes, UserHolds, enqueueEvent
<1> QED BY <1>4, <1>5, Listener DEF IInv

LEMMA KeyUnheard ==
    ASSUME WebParameters, IInv, Browser("key"), ~is_active, UNCHANGED listeners,
           UNCHANGED <<mouse, touching, inside, box, altgr>>,
           keys' \subseteq Keys \cup {"RIGHT_ALT"}, nameless' \in BOOLEAN,
           nameless' => keys' \cap Shifts # {}
    PROVE  IInv'
<1>0. ~is_active'
  BY DEF listeners
<1>1. UserTypes' /\ UserHolds'
  BY Listener DEF UserTypes, UserHolds, listeners
<1>2. Queues' /\ Unread' = Unread
  BY Listener DEF IInv, Queues, Unread, listeners
<1>3. ASSUME NEW k \in AllKeys PROVE Holds(k)' = Holds(k) /\ KeyRight(k)' = KeyRight(k)
  <2>1. Holds(k) = FALSE /\ Holds(k)' = FALSE
    BY <1>0 DEF Holds
  <2> QED BY <2>1 DEF KeyRight
<1>4. UNCHANGED <<window_active, is_mouse_inside, button_status, key_status, mouse_pos, window_size,
                  is_active, inside, pressedButtons, lastPos, box, dropped>> /\ Agree
  BY Listener DEF listeners, window, input
<1>5. Agree'
  BY <1>2, <1>3, <1>4 DEF Agree, ActiveFollows, InsideFollows, ButtonLeads, KeyFollows, PlaceFollows, SizeFollows
<1> QED BY <1>1, <1>2, <1>5, Listener DEF IInv

LEMMA KeyEventKinds ==
    ASSUME NEW k \in Keys, NEW down \in BOOLEAN, NEW mute \in BOOLEAN, NEW e, e = KeyEvent(k, down, mute)
    PROVE  /\ e \in WebEvent
           /\ IF k \in Shifts /\ mute THEN e.type = "modsync" /\ ("SHIFT" \in e.mods <=> keys' \cap Shifts # {})
                                      ELSE e.type = "key" /\ e.code = k /\ e.down = down
<1>1. CASE k \in Shifts /\ mute
  <2> DEFINE m == {n \in DOMAIN Sides : keys' \cap Sides[n] # {}}
  <2>1. e = [type |-> "modsync", mods |-> m]
    BY <1>1 DEF KeyEvent
  <2>2. "SHIFT" \in DOMAIN Sides /\ Sides["SHIFT"] = Shifts
    BY DEF Sides
  <2>3. "SHIFT" \in m <=> keys' \cap Shifts # {}
    BY <2>2
  <2>4. m \in SUBSET DOMAIN Sides
    OBVIOUS
  <2> HIDE DEF m
  <2>5. e \in WebEvent
    BY <2>1, <2>4, EventKinds
  <2>6. e.type = "modsync" /\ e.mods = m
    BY <2>1
  <2> QED BY <1>1, <2>3, <2>5, <2>6
<1>2. CASE ~(k \in Shifts /\ mute)
  <2>1. e = Key(k, down, FALSE)
    BY <1>2 DEF KeyEvent
  <2>2. k \in AllKeys
    BY DEF AllKeys
  <2> QED BY <1>2, <2>1, <2>2, EventKinds DEF Key
<1> QED BY <1>1, <1>2

LEMMA KeyDown ==
    ASSUME WebParameters, IInv, NEW k \in Keys, keydown(k)
    PROVE  IInv'
<1> DEFINE e == KeyEvent(k, TRUE, nameless')
<1>0. /\ Browser("key") /\ keys' = keys \cup {k} /\ nameless' = (nameless \/ Shifts \subseteq keys')
      /\ IF is_active THEN enqueueEvent(e) ELSE UNCHANGED <<events, dropped>>
      /\ UNCHANGED <<mouse, touching, inside, box, pressedButtons, lastPos, is_active, altgr>>
      /\ UserTypes /\ UserHolds
  BY Listener DEF keydown, Typed
<1>1. /\ keys' \subseteq Keys \cup {"RIGHT_ALT"} /\ nameless' \in BOOLEAN
      /\ nameless' => keys' \cap Shifts # {}
  <2>1. Shifts # {}
    BY DEF Shifts
  <2> QED BY <1>0, <2>1 DEF UserTypes, UserHolds
<1>2. /\ e \in WebEvent
      /\ IF k \in Shifts /\ nameless' THEN e.type = "modsync" /\ ("SHIFT" \in e.mods <=> keys' \cap Shifts # {})
                                      ELSE e.type = "key" /\ e.code = k /\ e.down = TRUE
  BY <1>1, KeyEventKinds
<1>3. CASE ~is_active
  BY <1>0, <1>1, <1>3, KeyUnheard DEF listeners
<1>4. CASE is_active
  <2> HIDE DEF e
  <2>a. e # Active(FALSE)
    BY <1>2 DEF Active
  <2>1. ASSUME NEW j \in AllKeys
        PROVE  \/ e \notin KeyDeciding(j) /\ (Holds(j) => Holds(j)')
               \/ e \in KeyDeciding(j) \cap KeyRight(j)'
    <3>1. CASE k \in Shifts /\ nameless'
      <4>1. e \notin KeyDeciding(j)
        BY <1>0, <1>2, <2>a, <3>1 DEF KeyDeciding
      <4>2. Holds(j) => Holds(j)'
        BY <1>0, <1>1, <3>1 DEF Holds
      <4> QED BY <4>1, <4>2
    <3>2. CASE ~(k \in Shifts /\ nameless') /\ j = k
      <4>1. Holds(j)'
        BY <1>0, <1>4, <3>2 DEF Holds
      <4> QED BY <1>2, <3>2, <4>1 DEF KeyDeciding, KeyRight
    <3>3. CASE ~(k \in Shifts /\ nameless') /\ j # k
      <4>1. e \notin KeyDeciding(j)
        BY <1>2, <2>a, <3>3 DEF KeyDeciding
      <4>2. Holds(j) => Holds(j)'
        BY <1>0, <1>1, <3>3 DEF Holds
      <4> QED BY <4>1, <4>2
    <3> QED BY <3>1, <3>2, <3>3
  <2>2. enqueueEvent(e)
    BY <1>0, <1>4
  <2> QED BY <1>0, <1>1, <1>2, <2>1, <2>2, KeyHeard
<1> QED BY <1>3, <1>4

LEMMA KeyUp ==
    ASSUME WebParameters, IInv, NEW k \in Keys, keyup(k)
    PROVE  IInv'
<1> DEFINE e == KeyEvent(k, FALSE, nameless)
<1>0. /\ Browser("key") /\ keys' = keys \ {k} /\ nameless' = (nameless /\ keys' \cap Shifts # {})
      /\ IF is_active THEN enqueueEvent(e) ELSE UNCHANGED <<events, dropped>>
      /\ UNCHANGED <<mouse, touching, inside, box, pressedButtons, lastPos, is_active, altgr>>
      /\ UserTypes /\ UserHolds
  BY Listener DEF keyup, Typed
<1>1. /\ keys' \subseteq Keys \cup {"RIGHT_ALT"} /\ nameless' \in BOOLEAN /\ nameless \in BOOLEAN
      /\ nameless' => keys' \cap Shifts # {}
  BY <1>0 DEF UserTypes
<1>2. /\ e \in WebEvent
      /\ IF k \in Shifts /\ nameless THEN e.type = "modsync" /\ ("SHIFT" \in e.mods <=> keys' \cap Shifts # {})
                                     ELSE e.type = "key" /\ e.code = k /\ e.down = FALSE
  <2>1. e = KeyEvent(k, FALSE, nameless)
    OBVIOUS
  <2> HIDE DEF e
  <2>2. /\ e \in WebEvent
        /\ IF k \in Shifts /\ nameless
           THEN e.type = "modsync" /\ ("SHIFT" \in e.mods <=> keys' \cap Shifts # {})
           ELSE e.type = "key" /\ e.code = k /\ e.down = FALSE
    <3>1. PICK down \in BOOLEAN : down = FALSE
      OBVIOUS
    <3>2. e = KeyEvent(k, down, nameless)
      BY <2>1, <3>1
    <3>3. /\ e \in WebEvent
          /\ IF k \in Shifts /\ nameless
             THEN e.type = "modsync" /\ ("SHIFT" \in e.mods <=> keys' \cap Shifts # {})
             ELSE e.type = "key" /\ e.code = k /\ e.down = down
      BY <1>1, <3>2, KeyEventKinds
    <3> QED BY <3>1, <3>3
  <2> QED BY <2>2
<1>3. CASE ~is_active
  BY <1>0, <1>1, <1>3, KeyUnheard DEF listeners
<1>4. CASE is_active
  <2> HIDE DEF e
  <2>a. e # Active(FALSE)
    BY <1>2 DEF Active
  <2>1. ASSUME NEW j \in AllKeys
        PROVE  \/ e \notin KeyDeciding(j) /\ (Holds(j) => Holds(j)')
               \/ e \in KeyDeciding(j) \cap KeyRight(j)'
    <3>1. CASE k \in Shifts /\ nameless /\ j \in Shifts /\ keys' \cap Shifts = {}
      <4>1. e \in KeyDeciding(j)
        BY <1>2, <3>1 DEF KeyDeciding
      <4>2. e \in KeyRight(j)'
        BY <1>2, <3>1 DEF KeyRight
      <4> QED BY <4>1, <4>2
    <3>2. CASE k \in Shifts /\ nameless /\ ~(j \in Shifts /\ keys' \cap Shifts = {})
      <4>1. e \notin KeyDeciding(j)
        BY <1>2, <2>a, <3>2 DEF KeyDeciding
      <4>2. Holds(j) => Holds(j)'
        BY <1>0, <3>2 DEF Holds
      <4> QED BY <4>1, <4>2
    <3>3. CASE ~(k \in Shifts /\ nameless) /\ j = k
      BY <1>2, <3>3 DEF KeyDeciding, KeyRight
    <3>4. CASE ~(k \in Shifts /\ nameless) /\ j # k
      <4>1. e \notin KeyDeciding(j)
        BY <1>2, <2>a, <3>4 DEF KeyDeciding
      <4>2. Holds(j) => Holds(j)'
        <5>1. nameless => keys' \cap Shifts = keys \cap Shifts
          BY <1>0, <3>4
        <5> QED BY <1>0, <3>4, <5>1 DEF Holds, UserHolds
      <4> QED BY <4>1, <4>2
    <3> QED BY <3>1, <3>2, <3>3, <3>4
  <2>2. enqueueEvent(e)
    BY <1>0, <1>4
  <2> QED BY <1>0, <1>1, <1>2, <2>1, <2>2, KeyHeard
<1> QED BY <1>3, <1>4

LEMMA Activates ==
    ASSUME WebParameters, IInv, setActive
    PROVE  IInv'
<1> DEFINE e == Active(~is_active)
<1>0. /\ e \in WebEvent /\ e.type = "active" /\ e = Active(is_active') /\ is_active' = ~is_active
      /\ Browser("focus") /\ enqueueEvent(e)
      /\ UNCHANGED <<mouse, touching, inside, pressedButtons, lastPos, keys, altgr, nameless, box>>
  BY EventKinds DEF Active, setActive, Pointer
<1> HIDE DEF e
<1>1. e \notin Placings
  BY <1>0 DEF Placings, Kinds
<1>2. \A b \in Buttons : <<e, b \in pressedButtons, b \in pressedButtons'>> \in ButtonStep(b)
  BY <1>0, NoButton
<1>3. ASSUME NEW k \in AllKeys
      PROVE  \/ e \notin KeyDeciding(k) /\ (Holds(k) => Holds(k)')
             \/ e \in KeyDeciding(k) \cap KeyRight(k)'
  <2>1. CASE is_active
    <3>1. e = Active(FALSE)
      BY <1>0, <2>1
    <3> QED BY <1>0, <3>1 DEF KeyDeciding, KeyRight
  <2>2. CASE ~is_active
    <3>1. e # Active(FALSE)
      BY <1>0, <2>2 DEF Active
    <3> QED BY <1>0, <2>2, <3>1, NoKey
  <2> QED BY <2>1, <2>2
<1>4. Queues' /\ Agree'
  BY <1>0, <1>1, <1>2, <1>3, Listener, Listens DEF Agree
<1>5. UserTypes' /\ UserHolds'
  BY <1>0, Listener DEF UserTypes, UserHolds, enqueueEvent
<1> QED BY <1>0, <1>4, <1>5, Listener DEF IInv

LEMMA UserSteps ==
    ASSUME WebParameters, IInv, User
    PROVE  IInv'
<1>1. CASE \E b \in Buttons, p \in Places : mousedown(b, p) \/ mouseup(b, p)
  BY <1>1, Downs, Buttonless
<1>2. CASE \E b \in Buttons : MouseDownElsewhere(b)
  BY <1>2, Buttonless
<1>3. CASE \E p \in Places : mousemove(p) \/ touchstart(p) \/ touchmove(p) \/ touchEndOrCancel(p)
  BY <1>3, Moves, Downs, TouchEnds
<1>4. CASE wheel \/ pointerEnterOrLeave \/ pointerCancel
  BY <1>4, Wheels, Crosses, Cancels
<1>5. CASE \E k \in Keys : keydown(k) \/ keyup(k)
  BY <1>5, KeyDown, KeyUp
<1>6. CASE AltGrFirst \/ AltGrSecond
  BY <1>6 DEF AltGrFirst, AltGrSecond, Browser, WebParameters
<1>7. CASE setActive \/ \E s \in Places : Resized(s)
  BY <1>7, Activates, Resizes
<1> QED BY <1>1, <1>2, <1>3, <1>4, <1>5, <1>6, <1>7 DEF User

--------------------------------------------------------------------------------
\* The program.  An event of the queue is applied to the window.
LEMMA WebEventFields ==
    ASSUME NEW e \in WebEvent
    PROVE  /\ e.type \in {"mousebutton", "mousemove", "mousescroll", "mousecancel", "resize", "mouseenter",
                          "active", "key", "modsync"}
           /\ e.type = "mousebutton" => e.button \in Buttons /\ e.is_pressed \in BOOLEAN /\ e.pos \in Places
           /\ e.type = "mousemove" => e.pos \in Places
           /\ e.type = "mouseenter" => e.is_inside \in BOOLEAN
           /\ e.type = "active" => e.is_active \in BOOLEAN
           /\ e.type = "key" => e.code \in AllKeys /\ e.down \in BOOLEAN /\ e.pair = FALSE
           /\ e.type = "modsync" => e.mods \subseteq DOMAIN Sides
BY DEF WebEvent, Events, AllKeys

LEMMA Applying ==
    ASSUME IInv, Applied, Agree' \/ ~alive,
           UNCHANGED <<is_mouse_inside, window_active, mouse_pos, window_size>>
             \/ (mouse_pos' \in Places \cup {0} /\ window_size' \in Places /\ is_mouse_inside' \in BOOLEAN
                 /\ window_active' \in BOOLEAN),
           button_status' \subseteq Buttons, key_status' \subseteq AllKeys,
           close' \in BOOLEAN, Queues'
    PROVE  IInv'
<1>1. UserTypes /\ ProgramTypes
  BY Typing DEF IInv
<1>2. UserTypes' /\ UserHolds'
  BY <1>1 DEF UserTypes, UserHolds, IInv, Applied, user, listeners
<1>3. ProgramTypes'
  BY <1>1 DEF ProgramTypes, Applied, AllKeys
<1>4. TypeOK' <=> UserTypes' /\ ProgramTypes'
  BY Typing, PTL
<1>5. alive' = alive
  BY DEF Applied
<1> QED BY <1>2, <1>3, <1>4, <1>5 DEF IInv

\* An event that is none of the keyboard's decides no key.
LEMMA KeyKept ==
    ASSUME NEW k, NEW e \in WebEvent, e.type \notin {"key", "modsync", "active"}
    PROVE  e \notin KeyDeciding(k)
BY DEF KeyDeciding, Active

LEMMA ApplyKeys ==
    ASSUME IInv, window_data_call_keyboard_func \/ window_data_sync_mod_keys \/ window_data_call_active_func
    PROVE  IInv'
<1> DEFINE e == Head(pending)
<1>0. /\ Applied /\ e \in WebEvent /\ UserTypes /\ ProgramTypes
      /\ UNCHANGED <<button_status, mouse_pos, is_mouse_inside, window_size>>
      /\ e.type \in {"key", "modsync", "active"} /\ close' \in BOOLEAN
      /\ window_active' = (IF e.type = "active" THEN e.is_active ELSE window_active)
  <2>1. pending # <<>> /\ pending \in Seq(WebEvent) /\ UserTypes /\ ProgramTypes
    BY Typing DEF IInv, Queues, window_data_call_keyboard_func, window_data_sync_mod_keys,
       window_data_call_active_func, Applied, Taking
  <2>2. e \in WebEvent
    BY <2>1, TailElements
  <2> HIDE DEF e
  <2>e. e = Head(pending)
    BY DEF e
  <2>3. CASE window_data_call_keyboard_func
    BY <2>1, <2>2, <2>3, <2>e DEF window_data_call_keyboard_func, CallbackIf, ProgramTypes
  <2>4. CASE window_data_sync_mod_keys
    BY <2>1, <2>2, <2>4, <2>e DEF window_data_sync_mod_keys, CallbackIf, ProgramTypes
  <2>5. CASE window_data_call_active_func
    BY <2>1, <2>2, <2>5, <2>e DEF window_data_call_active_func, CallbackIf, ProgramTypes
  <2> QED BY <2>3, <2>4, <2>5
<1>k. /\ e.type = "key" =>
             key_status' = IF ~e.down /\ e.code \notin key_status THEN key_status
                           ELSE IF e.down THEN key_status \cup {e.code} ELSE key_status \ {e.code}
      /\ e.type = "modsync" => key_status' = key_status \ UNION {Sides[m] : m \in DOMAIN Sides \ e.mods}
      /\ e.type = "active" => key_status' = IF e.is_active THEN key_status ELSE {}
  <2>1. CASE window_data_call_keyboard_func
    <3>1. e.type = "key" /\ ~e.pair
      BY <1>0, <2>1, WebEventFields DEF window_data_call_keyboard_func
    <3>2. ~Hidden
      BY <3>1 DEF Hidden
    <3> QED BY <2>1, <3>1, <3>2 DEF window_data_call_keyboard_func
  <2>2. CASE window_data_sync_mod_keys
    BY <2>2 DEF window_data_sync_mod_keys
  <2>3. CASE window_data_call_active_func
    BY <2>3 DEF window_data_call_active_func
  <2> QED BY <2>1, <2>2, <2>3
<1>a. e = Head(pending)
  OBVIOUS
<1> HIDE DEF e
<1>1. key_status' \subseteq AllKeys /\ button_status' \subseteq Buttons
      /\ mouse_pos' \in Places \cup {0} /\ window_size' \in Places /\ is_mouse_inside' \in BOOLEAN
      /\ window_active' \in BOOLEAN
  <2>1. key_status \subseteq AllKeys
    BY <1>0 DEF ProgramTypes, AllKeys
  <2>2. key_status' \subseteq AllKeys
    BY <1>0, <1>k, <2>1, WebEventFields
  <2> QED BY <1>0, <2>2, WebEventFields DEF ProgramTypes
<1>2. ASSUME NEW k \in AllKeys, k \in key_status'
      PROVE  (e \in KeyDeciding(k) /\ e.type = "key" /\ e.down) \/ (e \notin KeyDeciding(k) /\ k \in key_status)
  <2>1. CASE e.type = "key"
    <3>1. e \in KeyDeciding(k) <=> e.code = k
      BY <1>0, <2>1 DEF KeyDeciding, Active
    <3>2. key_status' = IF ~e.down /\ e.code \notin key_status THEN key_status
                        ELSE IF e.down THEN key_status \cup {e.code} ELSE key_status \ {e.code}
      BY <1>k, <2>1
    <3> QED BY <1>2, <2>1, <3>1, <3>2
  <2>2. CASE e.type = "modsync"
    <3>1. e \in KeyDeciding(k) => k \in Shifts /\ "SHIFT" \notin e.mods
      BY <2>2 DEF KeyDeciding, Active
    <3>2. key_status' = key_status \ UNION {Sides[m] : m \in DOMAIN Sides \ e.mods}
      BY <1>k, <2>2
    <3>3. "SHIFT" \in DOMAIN Sides /\ Sides["SHIFT"] = Shifts
      BY DEF Sides
    <3>4. k \in key_status /\ ~(k \in Shifts /\ "SHIFT" \notin e.mods)
      BY <1>2, <3>2, <3>3
    <3> QED BY <3>1, <3>4
  <2>3. CASE e.type = "active"
    <3>1. e \in KeyDeciding(k) => e.is_active = FALSE
      BY <2>3 DEF KeyDeciding, Active
    <3>2. key_status' = IF e.is_active THEN key_status ELSE {}
      BY <1>k, <2>3
    <3> QED BY <1>2, <3>1, <3>2
  <2> QED BY <1>0, <2>1, <2>2, <2>3
<1>3. ASSUME NEW b \in Buttons
      PROVE  (b \in button_status') = CASE e.type = "mousebutton" /\ e.button = b -> e.is_pressed
                                        [] e.type = "mousecancel" -> FALSE
                                        [] OTHER -> b \in button_status
  BY <1>0
<1>4. alive => Agree'
  <2>1. e \notin Placings /\ e.type # "resize" /\ e.type # "mouseenter"
    BY <1>0 DEF Placings, Kinds
  <2> QED BY <1>0, <1>a, <1>2, <1>3, <2>1, Applies DEF Agree
<1>5. Queues'
  BY <1>0, TailElements DEF IInv, Queues, Applied, Taking, listeners
<1> QED BY <1>0, <1>1, <1>4, <1>5, Applying

LEMMA ApplyPointer ==
    ASSUME IInv,
           \/ window_data_call_mouse_btn_func \/ window_data_call_mouse_move_func
           \/ window_data_call_mouse_wheel_func \/ window_data_call_mouse_enter_func
           \/ window_data_release_mouse_buttons \/ window_data_update_window_size
    PROVE  IInv'
<1> DEFINE e == Head(pending)
<1>0. /\ Applied /\ e \in WebEvent /\ UserTypes /\ ProgramTypes /\ pending # <<>> /\ pending \in Seq(WebEvent)
  <2>1. pending # <<>> /\ pending \in Seq(WebEvent) /\ UserTypes /\ ProgramTypes /\ Applied
    BY Typing DEF IInv, Queues, window_data_call_mouse_btn_func, window_data_call_mouse_move_func,
       window_data_call_mouse_wheel_func, window_data_call_mouse_enter_func, window_data_release_mouse_buttons,
       window_data_update_window_size, Applied, Taking
  <2> QED BY <2>1, TailElements
<1>a. e = Head(pending)
  OBVIOUS
<1> HIDE DEF e
<1>k. /\ e.type \in {"mousebutton", "mousemove", "mousescroll", "mousecancel", "resize", "mouseenter"}
      /\ button_status' = IF e.type = "mousebutton"
                          THEN IF e.is_pressed THEN button_status \cup {e.button} ELSE button_status \ {e.button}
                          ELSE IF e.type = "mousecancel" THEN {} ELSE button_status
      /\ mouse_pos' = (IF e.type \in {"mousebutton", "mousemove"} THEN e.pos ELSE mouse_pos)
      /\ is_mouse_inside' = (IF e.type = "mouseenter" THEN e.is_inside ELSE is_mouse_inside)
      /\ window_size' = (IF e.type = "resize" THEN box ELSE window_size)
      /\ UNCHANGED <<key_status, window_active>> /\ close' \in BOOLEAN
  <2>1. CASE window_data_call_mouse_btn_func
    BY <1>0, <1>a, <2>1 DEF window_data_call_mouse_btn_func, CallbackIf, ProgramTypes
  <2>2. CASE window_data_call_mouse_move_func
    BY <1>0, <1>a, <2>2 DEF window_data_call_mouse_move_func, CallbackIf, ProgramTypes
  <2>3. CASE window_data_call_mouse_wheel_func
    BY <1>0, <1>a, <2>3 DEF window_data_call_mouse_wheel_func, CallbackIf, ProgramTypes, input
  <2>4. CASE window_data_call_mouse_enter_func
    BY <1>0, <1>a, <2>4 DEF window_data_call_mouse_enter_func, CallbackIf, ProgramTypes
  <2>5. CASE window_data_release_mouse_buttons
    BY <1>0, <1>a, <2>5 DEF window_data_release_mouse_buttons, CallbackIf, ProgramTypes
  <2>6. CASE window_data_update_window_size
    BY <1>0, <1>a, <2>6 DEF window_data_update_window_size, CallbackIf, ProgramTypes
  <2> QED BY <2>1, <2>2, <2>3, <2>4, <2>5, <2>6
<1>1. key_status' \subseteq AllKeys /\ button_status' \subseteq Buttons
      /\ mouse_pos' \in Places \cup {0} /\ window_size' \in Places /\ is_mouse_inside' \in BOOLEAN
      /\ window_active' \in BOOLEAN
  <2>1. key_status' \subseteq AllKeys /\ button_status' \subseteq Buttons
    BY <1>0, <1>k, WebEventFields DEF ProgramTypes, AllKeys
  <2>2. mouse_pos' \in Places \cup {0} /\ window_size' \in Places
    BY <1>0, <1>k, WebEventFields DEF ProgramTypes, UserTypes
  <2>3. is_mouse_inside' \in BOOLEAN /\ window_active' \in BOOLEAN
    BY <1>0, <1>k, WebEventFields DEF ProgramTypes
  <2> QED BY <2>1, <2>2, <2>3
<1>2. \A k \in AllKeys : e \notin KeyDeciding(k)
  BY <1>0, <1>k, KeyKept
<1>3. ASSUME NEW b \in Buttons
      PROVE  (b \in button_status') = CASE e.type = "mousebutton" /\ e.button = b -> e.is_pressed
                                        [] e.type = "mousecancel" -> FALSE
                                        [] OTHER -> b \in button_status
  <2>1. CASE e.type = "mousebutton" /\ e.button = b
    <3>1. e.is_pressed \in BOOLEAN /\ (b \in button_status' <=> e.is_pressed)
      BY <1>0, <1>k, <2>1, WebEventFields
    <3> QED BY <2>1, <3>1
  <2>2. CASE e.type = "mousecancel"
    <3>1. (b \in button_status') = FALSE /\ e.type # "mousebutton"
      BY <1>k, <2>2
    <3> QED BY <2>2, <3>1
  <2>4. CASE e.type = "mousebutton" /\ e.button # b
    <3>1. b \in button_status' <=> b \in button_status
      BY <1>k, <2>4
    <3> QED BY <2>4, <3>1
  <2>3. CASE e.type \notin {"mousebutton", "mousecancel"}
    BY <1>k, <2>3
  <2> QED BY <2>1, <2>2, <2>3, <2>4
<1>4. alive => Agree'
  <2>1. e \in Placings <=> e.type \in {"mousebutton", "mousemove"}
    BY <1>0 DEF Placings, Kinds
  <2> QED BY <1>0, <1>a, <1>k, <1>2, <1>3, <2>1, Applies DEF Agree
<1>5. Queues'
  BY <1>0, TailElements DEF IInv, Queues, Applied, Taking, listeners
<1> QED BY <1>0, <1>1, <1>k, <1>4, <1>5, Applying

\* The calls.  None but mfb_update_ex touches what the queue follows.
LEMMA Calling ==
    ASSUME WebParameters, IInv,
           \/ \E c \in Calls \ {"close"} : Call(c)
           \/ mfb_close \/ BeginClosed \/ mfb_update_events \/ PolledClosed \/ PolledUpdate \/ mfb_wait_sync
           \/ Wake \/ TimePasses
    PROVE  IInv'
<1>1. UserTypes /\ ProgramTypes /\ Queues /\ UserHolds
  BY Typing DEF IInv
<1>2. UserTypes' /\ UserHolds' /\ UNCHANGED input
  BY <1>1 DEF Call, mfb_close, BeginClosed, mfb_update_events, PolledClosed, PolledUpdate, mfb_wait_sync, Wake,
     TimePasses, UserTypes, UserHolds, user, listeners, window, program, Exit, Return, Poll
<1>3. ProgramTypes'
  <2>1. CASE (\E c \in Calls \ {"close"} : Call(c)) \/ mfb_close \/ TimePasses
    BY <1>1, <2>1 DEF Call, mfb_close, TimePasses, ProgramTypes, window, program, input
  <2>2. CASE BeginClosed \/ PolledClosed \/ PolledUpdate
    BY <1>1, <2>2 DEF BeginClosed, PolledClosed, PolledUpdate, ProgramTypes, window, input, Exit, Return
  <2>3. CASE mfb_update_events \/ mfb_wait_sync \/ Wake
    BY <1>1, <2>3 DEF mfb_update_events, mfb_wait_sync, Wake, ProgramTypes, window, input, Return, Poll
  <2> QED BY <2>1, <2>2, <2>3
<1>4. Queues' /\ (alive' => alive /\ Unread' = Unread)
  <2>1. CASE (\E c \in Calls \ {"close"} : Call(c)) \/ mfb_close \/ TimePasses
    BY <1>1, <2>1 DEF Call, mfb_close, TimePasses, Queues, Unread, listeners, window, program, input
  <2>2. CASE BeginClosed \/ PolledClosed
    BY <1>1, <2>2 DEF BeginClosed, PolledClosed, Queues, listeners, Exit, Return, Polled
  <2>3. CASE mfb_update_events \/ Wake
    BY <1>1, <2>3 DEF mfb_update_events, Wake, Queues, Unread, window, Poll
  <2>4. CASE PolledUpdate \/ mfb_wait_sync
    BY <1>1, <2>4 DEF PolledUpdate, mfb_wait_sync, Queues, Unread, listeners, window, Return, Polled
  <2> QED BY <2>1, <2>2, <2>3, <2>4
<1>5. UNCHANGED <<is_active, inside, pressedButtons, lastPos, dropped, keys, nameless, box>>
  BY DEF Call, mfb_close, BeginClosed, mfb_update_events, PolledClosed, PolledUpdate, mfb_wait_sync, Wake,
     TimePasses, user, listeners
<1>6. ASSUME alive' PROVE Agree'
  <2>1. Agree /\ Unread' = Unread
    BY <1>4, <1>6 DEF IInv
  <2> QED BY <1>2, <1>5, <2>1 DEF Agree, ActiveFollows, InsideFollows, ButtonLeads, KeyFollows, KeyRight, Holds,
             PlaceFollows, SizeFollows, input
<1>7. TypeOK' <=> UserTypes' /\ ProgramTypes'
  BY <1>4, Typing, PTL
<1> QED BY <1>2, <1>3, <1>4, <1>6, <1>7 DEF IInv

\* mfb_update_ex takes the size of the canvas as it is: nothing has to follow it any more.
LEMMA Updating ==
    ASSUME WebParameters, IInv, mfb_update_ex
    PROVE  IInv'
<1>1. UserTypes /\ ProgramTypes /\ Queues /\ UserHolds
  BY Typing DEF IInv
<1>2. UserTypes' /\ UserHolds' /\ ProgramTypes'
  <2>1. UserTypes' /\ UserHolds'
    BY <1>1 DEF mfb_update_ex, UserTypes, UserHolds, user
  <2>2. PICK asks \in {FALSE, window_size # box} :
            /\ close' = asks
            /\ IF asks THEN Exit /\ UNCHANGED events ELSE Poll /\ UNCHANGED <<call, ret, yielded, alive>>
    BY DEF mfb_update_ex
  <2>3. close' \in BOOLEAN
    BY <2>2
  <2>4. /\ button_status' \subseteq Buttons /\ key_status' \subseteq Keys \cup {"LEFT_CONTROL", "RIGHT_ALT"}
        /\ mouse_pos' \in Places \cup {0} /\ window_size' \in Places
        /\ is_mouse_inside' \in BOOLEAN /\ window_active' \in BOOLEAN /\ due' \in BOOLEAN
    BY <1>1 DEF mfb_update_ex, UserTypes, ProgramTypes
  <2>5. /\ pc' \in {"idle", "begin", "poll", "sleep"} /\ call' \in Calls \cup {"none"} /\ ret' \in {"OK", "EXIT"}
        /\ alive' \in BOOLEAN /\ yielded' \in BOOLEAN
    BY <1>1, <2>2 DEF ProgramTypes, Exit, Return, Poll
  <2> QED BY <2>1, <2>3, <2>4, <2>5 DEF ProgramTypes
<1>3. Queues' /\ (alive' => alive /\ Unread' = Unread)
  BY <1>1 DEF mfb_update_ex, Queues, Unread, Exit, Return, Poll
<1>4. /\ UNCHANGED <<is_active, inside, pressedButtons, lastPos, dropped, keys, nameless, box>>
      /\ UNCHANGED <<button_status, key_status, mouse_pos, is_mouse_inside, window_active>>
      /\ window_size' = box
  BY DEF mfb_update_ex, user
<1>5. ASSUME alive' PROVE Agree'
  <2>1. Agree /\ Unread' = Unread
    BY <1>3, <1>5 DEF IInv
  <2>2. SizeFollows => SizeFollows'
    <3>1. ASSUME SizeFollows PROVE Follows(Unread, Kinds({"resize"}), Kinds({"resize"}), window_size' = box)
      BY <1>4, <3>1, FollowsMore DEF SizeFollows
    <3> QED BY <1>4, <2>1, <3>1 DEF SizeFollows
  <2> QED BY <1>4, <2>1, <2>2 DEF Agree, ActiveFollows, InsideFollows, ButtonLeads, KeyFollows, KeyRight, Holds,
             PlaceFollows
<1>6. TypeOK' <=> UserTypes' /\ ProgramTypes'
  BY <1>3, Typing, PTL
<1> QED BY <1>2, <1>3, <1>5, <1>6 DEF IInv

LEMMA WebInit ==
    ASSUME WebParameters, Init
    PROVE  IInv
<1>1. UserTypes /\ ProgramTypes /\ Queues /\ UserHolds
  <2>1. UserTypes
    <3>1. /\ mouse \subseteq Buttons /\ pressedButtons \subseteq Buttons /\ keys \subseteq Keys \cup {"RIGHT_ALT"}
          /\ lastPos \in Places \cup {0} /\ box \in Places /\ altgr \in {"none", "down", "up"}
      BY DEF Init
    <3>2. given \in 0 .. MaxInputs
      BY DEF Init, WebParameters
    <3>3. /\ touching \in BOOLEAN /\ nameless \in BOOLEAN /\ inside \in BOOLEAN /\ is_active \in BOOLEAN
          /\ dropped \in BOOLEAN
      BY DEF Init
    <3> QED BY <3>1, <3>2, <3>3 DEF UserTypes
  <2>2. ProgramTypes
    BY DEF Init, ProgramTypes
  <2>3. Queues /\ UserHolds
    BY DEF Init, Queues, UserHolds
  <2> QED BY <2>1, <2>2, <2>3
<1>2. Unread = <<>>
  BY DEF Init, Unread
<1>3. ActiveFollows /\ InsideFollows /\ PlaceFollows /\ SizeFollows
  BY <1>2, FollowsEmpty DEF Init, ActiveFollows, InsideFollows, PlaceFollows, SizeFollows
<1>4. ASSUME NEW b \in Buttons PROVE ButtonLeads(b)
  <2> DEFINE T == ButtonStep(b)
             V == BOOLEAN
             x == b \in button_status
             y == b \in pressedButtons
  <2>1. x \in V /\ x = y
    BY DEF Init
  <2> HIDE DEF T, V, x, y
  <2>2. Leads(<<>>, T, V, x, y)
    BY <2>1, LeadsEmpty
  <2> QED BY <1>2, <2>2 DEF ButtonLeads, T, V, x, y
<1>5. ASSUME NEW k \in AllKeys PROVE KeyFollows(k)
  <2>1. k \in key_status => Holds(k)
    BY DEF Init
  <2> QED BY <1>2, <2>1, FollowsEmpty DEF KeyFollows
<1> QED BY <1>1, <1>3, <1>4, <1>5, Typing DEF IInv, Agree

LEMMA WebInductive == ASSUME WebParameters PROVE Spec => []IInv
<1>1. Init => IInv
  BY WebInit
<1>2. IInv /\ [Next]_vars => IInv'
  <2> SUFFICES ASSUME IInv, [Next]_vars PROVE IInv'
    OBVIOUS
  <2>1. CASE User
    BY <2>1, UserSteps
  <2>2. CASE Apply
    BY <2>2, ApplyKeys, ApplyPointer DEF Apply
  <2>3. CASE mfb_update_ex
    BY <2>3, Updating
  <2>4. CASE \/ \E c \in Calls \ {"close"} : Call(c)
             \/ mfb_close \/ BeginClosed \/ mfb_update_events \/ PolledClosed \/ PolledUpdate \/ mfb_wait_sync
             \/ Wake \/ TimePasses
    BY <2>4, Calling
  <2>5. CASE UNCHANGED vars
    <3>1. TypeOK'
      BY <2>5 DEF IInv, TypeOK, vars, user, listeners, window, input, program
    <3>2. Queues' /\ UserHolds' /\ Unread' = Unread
      BY <2>5 DEF IInv, Queues, UserHolds, Unread, vars, user, listeners, window, program
    <3>3. Agree => Agree'
      BY <2>5, <3>2 DEF Agree, ActiveFollows, InsideFollows, ButtonLeads, KeyFollows, KeyRight, Holds, PlaceFollows,
         SizeFollows, vars, user, listeners, window, input
    <3> QED BY <2>5, <3>1, <3>2, <3>3 DEF IInv, vars, window
  <2> QED BY <2>1, <2>2, <2>3, <2>4, <2>5 DEF Next, Step, Gone
<1> QED BY <1>1, <1>2, PTL DEF Spec

\* What the invariant says once all is applied.
LEMMA WebDrained ==
    ASSUME IInv, Drained
    PROVE  /\ window_active = is_active /\ is_mouse_inside = inside
           /\ \A b \in Buttons : b \in button_status <=> b \in pressedButtons
           /\ \A k \in AllKeys : k \in key_status => Holds(k)
           /\ ~dropped => mouse_pos = lastPos /\ window_size = box
<1>1. Agree /\ Unread = <<>> /\ UserTypes /\ ProgramTypes
  BY Typing DEF IInv, Drained, Unread
<1>2. window_active = is_active /\ is_mouse_inside = inside
  BY <1>1, FollowsEmpty DEF Agree, ActiveFollows, InsideFollows
<1>3. ASSUME NEW b \in Buttons PROVE b \in button_status <=> b \in pressedButtons
  <2> DEFINE T == ButtonStep(b)
             V == BOOLEAN
             x == b \in button_status
             y == b \in pressedButtons
  <2>1. x \in V /\ Leads(<<>>, T, V, x, y)
    BY <1>1 DEF Agree, ButtonLeads
  <2> HIDE DEF T, V, x, y
  <2>2. x = y
    BY <2>1, LeadsEmpty
  <2> QED BY <2>2 DEF x, y
<1>4. ASSUME NEW k \in AllKeys PROVE k \in key_status => Holds(k)
  BY <1>1, FollowsEmpty DEF Agree, KeyFollows
<1>5. ~dropped => mouse_pos = lastPos /\ window_size = box
  BY <1>1, FollowsEmpty DEF Agree, PlaceFollows, SizeFollows
<1> QED BY <1>2, <1>3, <1>4, <1>5

--------------------------------------------------------------------------------
(* The theorems are about Spec, of which the settings of the runs are instances with fewer  *)
(* inputs: they hold of every mix of keys, focus, mouse, touch and resizes.                 *)

\* No key and no button sticks in the window, and no button is forgotten that a listener
\* still counts as pressed, whatever the queue drops (enqueueEvent, mfb_update_events_js).
THEOREM NothingSticksEver ==
    ASSUME WebParameters
    PROVE  Spec => []NothingSticks
<1>1. ASSUME IInv, Drained PROVE ButtonsAgree /\ NoKeySticks
  <2>1. UserTypes /\ ProgramTypes /\ UserHolds
    BY <1>1, Typing DEF IInv
  <2>2. /\ window_active = is_active /\ \A b \in Buttons : b \in button_status <=> b \in pressedButtons
        /\ \A k \in AllKeys : k \in key_status => Holds(k)
    BY <1>1, WebDrained
  <2>3. ButtonsAgree
    <3>1. button_status = pressedButtons
      BY <2>1, <2>2 DEF UserTypes, ProgramTypes
    <3> QED BY <2>1, <3>1 DEF ButtonsAgree, UserHolds
  <2>4. \A k \in key_status : Holds(k)
    BY <2>1, <2>2 DEF ProgramTypes, AllKeys
  <2>5. NoKeySticks
    <3>1. key_status \ Shifts \subseteq keys
      BY <2>4 DEF Holds
    <3>2. key_status \cap Shifts # {} => keys \cap Shifts # {}
      BY <2>4 DEF Holds
    <3>3. ~window_active => key_status = {}
      BY <2>2, <2>4 DEF Holds
    <3> QED BY <3>1, <3>2, <3>3 DEF NoKeySticks
  <2> QED BY <2>3, <2>5
<1>2. IInv => NothingSticks
  BY <1>1 DEF IInv, NothingSticks, ButtonsAgree, NoKeySticks
<1> QED BY <1>2, WebInductive, PTL

\* Where the pointer is and who has the focus is never lost: a crossing is never dropped and
\* never overtaken (pointerEnterOrLeave, setActive).
THEOREM CrossingsArrive ==
    ASSUME WebParameters
    PROVE  Spec => []CrossingsAgree
<1>1. IInv => CrossingsAgree
  BY WebDrained DEF CrossingsAgree
<1> QED BY <1>1, WebInductive, PTL

\* What was not dropped arrives: the window ends where the pointer and the canvas are, also
\* after an mfb_update_ex that took the size before its event.
THEOREM LatestArrives ==
    ASSUME WebParameters
    PROVE  Spec => []LatestStateArrives
<1>1. IInv => LatestStateArrives
  BY WebDrained DEF LatestStateArrives
<1> QED BY <1>1, WebInductive, PTL

\* Without a touch "a key or mouse release with no press behind it is no longer delivered":
\* the press is in the window when its release is applied.
THEOREM NoReleaseAlone ==
    ASSUME WebParameters, "touch" \notin Inputs
    PROVE  Spec => ReleaseHasPress /\ ReleasesHavePresses
<1>1. ASSUME IInv, NEW b \in Buttons, Delivers(b) PROVE b \in button_status
  <2> DEFINE e == Head(pending)
             T == ButtonStep(b)
             V == BOOLEAN
             x == b \in button_status
  <2>1. /\ pending \in Seq(WebEvent) /\ pending # <<>> /\ Unread = pending /\ Agree
        /\ e \in {Button(b, FALSE, p) : p \in Places}
    BY <1>1 DEF IInv, Queues, Unread, Delivers, Taking
  <2>2. e \in WebEvent /\ e.type = "mousebutton" /\ e.button = b /\ ~e.is_pressed
    <3>1. e \in WebEvent
      BY <2>1, TailElements
    <3>2. PICK p \in Places : e = [type |-> "mousebutton", button |-> b, is_pressed |-> FALSE, pos |-> p]
      BY <2>1 DEF Button
    <3> HIDE DEF e
    <3> QED BY <3>1, <3>2
  <2>3. x \in V /\ Leads(pending, T, V, x, b \in pressedButtons)
    BY <2>1 DEF Agree, ButtonLeads
  <2>4. \A c \in V : <<e, x, c>> \in T => x
    BY <2>2 DEF ButtonStep
  <2> HIDE DEF T, V, x
  <2>5. PICK c \in V : <<Head(pending), x, c>> \in T
    BY <2>1, <2>3, LeadsTail
  <2>6. x
    BY <2>4, <2>5
  <2> QED BY <2>6 DEF x
<1>2. IInv /\ [Next]_vars =>
          /\ [\A b \in Buttons : Delivers(b) => b \in button_status]_vars
          /\ [scenario = "keys" => \A b \in Buttons : Delivers(b) => b \in button_status]_vars
  BY <1>1
<1> QED BY <1>2, WebInductive, PTL DEF Spec, ReleaseHasPress, ReleasesHavePresses
================================================================================
