------------------------------ MODULE EventQueues ------------------------------
(* What a queue of events holds, seen from its two ends.  The backends keep state  *)
(* that the system has already changed and whose events are still on their way;    *)
(* an invariant of such a backend says what the events left in the queue will make *)
(* of the state.                                                                   *)
EXTENDS Naturals, Sequences, SequenceTheorems, TLAPS

\* The events of W each decide a value for good: ok says the value is right as it is, and
\* R has the events that make it right.  The value will be right when the queue is empty.
Follows(queue, W, R, ok) ==
    /\ ok \/ \E i \in 1 .. Len(queue) : queue[i] \in W
    /\ \A i \in 1 .. Len(queue) :
          queue[i] \in W => queue[i] \in R \/ \E j \in i + 1 .. Len(queue) : queue[j] \in W

\* Nothing in it is an event of W.
Never(queue, W) == \A i \in 1 .. Len(queue) : queue[i] \notin W

\* The events lead from a to b, each by a step of T: a set of triples of an event, the value
\* it finds and the value it leaves.
Leads(queue, T, V, a, b) ==
    \E f \in [0 .. Len(queue) -> V] :
        /\ f[0] = a /\ f[Len(queue)] = b
        /\ \A i \in 1 .. Len(queue) : <<queue[i], f[i - 1], f[i]>> \in T

--------------------------------------------------------------------------------
LEMMA ConcatElements ==
    ASSUME NEW S, NEW q \in Seq(S), NEW s \in Seq(S)
    PROVE  /\ q \o s \in Seq(S) /\ Len(q \o s) = Len(q) + Len(s)
           /\ Len(q) \in Nat /\ Len(s) \in Nat
           /\ \A i \in 1 .. Len(q) : (q \o s)[i] = q[i]
           /\ \A i \in 1 .. Len(s) : (q \o s)[Len(q) + i] = s[i]
BY ConcatProperties, LenProperties

LEMMA ConcatPair ==
    ASSUME NEW S, NEW e \in S, NEW g \in S
    PROVE  <<e>> \o <<g>> = <<e, g>> /\ <<e, g>> \in Seq(S)
<1>1. <<e>> \in Seq(S) /\ <<g>> \in Seq(S) /\ <<e, g>> \in Seq(S)
  OBVIOUS
<1>2. /\ Len(<<e>>) = 1 /\ Len(<<g>>) = 1 /\ Len(<<e, g>>) = 2
      /\ <<e>>[1] = e /\ <<g>>[1] = g /\ <<e, g>>[1] = e /\ <<e, g>>[2] = g
  OBVIOUS
<1>3. /\ <<e>> \o <<g>> \in Seq(S) /\ Len(<<e>> \o <<g>>) = 2
      /\ (<<e>> \o <<g>>)[1] = e /\ (<<e>> \o <<g>>)[2] = g
  <2>1. 1 \in 1 .. Len(<<e>>) /\ 1 \in 1 .. Len(<<g>>) /\ Len(<<e>>) + 1 = 2
    BY <1>2
  <2> QED BY <1>1, <1>2, <2>1, ConcatElements
<1>4. \A i \in 1 .. 2 : i = 1 \/ i = 2
  OBVIOUS
<1>5. \A i \in 1 .. Len(<<e>> \o <<g>>) : (<<e>> \o <<g>>)[i] = <<e, g>>[i]
  BY <1>2, <1>3, <1>4
<1> QED BY <1>1, <1>2, <1>3, <1>5, SeqEqual

LEMMA TailElements ==
    ASSUME NEW S, NEW q \in Seq(S), q # <<>>
    PROVE  /\ Head(q) \in S /\ Head(q) = q[1] /\ Tail(q) \in Seq(S)
           /\ Len(q) \in Nat \ {0} /\ Len(Tail(q)) = Len(q) - 1
           /\ \A i \in 1 .. Len(q) - 1 : Tail(q)[i] = q[i + 1]
BY HeadTailProperties, EmptySeq, LenProperties

\* Events that decide nothing do not matter.
LEMMA FollowsKept ==
    ASSUME NEW S, NEW q \in Seq(S), NEW s \in Seq(S), NEW W, NEW R, NEW ok,
           Follows(q, W, R, ok), \A i \in 1 .. Len(s) : s[i] \notin W
    PROVE  Follows(q \o s, W, R, ok)
<1>1. ok \/ \E i \in 1 .. Len(q \o s) : (q \o s)[i] \in W
  BY ConcatElements DEF Follows
<1>2. ASSUME NEW i \in 1 .. Len(q \o s), (q \o s)[i] \in W
      PROVE  (q \o s)[i] \in R \/ \E j \in i + 1 .. Len(q \o s) : (q \o s)[j] \in W
  <2>1. CASE i <= Len(q)
    <3>1. i \in 1 .. Len(q) /\ q[i] \in W
      BY <1>2, <2>1, ConcatElements
    <3>2. CASE \E j \in i + 1 .. Len(q) : q[j] \in W
      <4>1. PICK j \in i + 1 .. Len(q) : q[j] \in W
        BY <3>2
      <4>2. j \in i + 1 .. Len(q \o s) /\ (q \o s)[j] = q[j]
        BY <3>1, <4>1, ConcatElements
      <4> QED BY <4>1, <4>2
    <3>3. CASE q[i] \in R
      BY <3>1, <3>3, ConcatElements
    <3> QED BY <3>1, <3>2, <3>3 DEF Follows
  <2>2. CASE i > Len(q)
    <3>1. i - Len(q) \in 1 .. Len(s) /\ i = Len(q) + (i - Len(q))
      BY <1>2, <2>2, ConcatElements
    <3> QED BY <1>2, <3>1, ConcatElements
  <2> QED BY <1>2, <2>1, <2>2, ConcatElements
<1> QED BY <1>1, <1>2 DEF Follows

\* What comes last decides.
LEMMA FollowsNew ==
    ASSUME NEW S, NEW q \in Seq(S), NEW s \in Seq(S), NEW W, NEW R, NEW ok,
           NEW last \in 1 .. Len(s), s[last] \in W \cap R,
           \A i \in last + 1 .. Len(s) : s[i] \notin W
    PROVE  Follows(q \o s, W, R, ok)
<1>1. Len(q) + last \in 1 .. Len(q \o s) /\ (q \o s)[Len(q) + last] \in W \cap R
  BY ConcatElements
<1>2. ASSUME NEW i \in 1 .. Len(q \o s), (q \o s)[i] \in W
      PROVE  (q \o s)[i] \in R \/ \E j \in i + 1 .. Len(q \o s) : (q \o s)[j] \in W
  <2>1. CASE i < Len(q) + last
    <3>1. Len(q) + last \in i + 1 .. Len(q \o s)
      BY <1>1, <1>2, <2>1, ConcatElements
    <3> QED BY <1>1, <3>1
  <2>2. CASE i = Len(q) + last
    BY <1>1, <2>2
  <2>3. CASE i > Len(q) + last
    <3>1. i - Len(q) \in last + 1 .. Len(s) /\ i = Len(q) + (i - Len(q)) /\ i - Len(q) \in 1 .. Len(s)
      BY <1>2, <2>3, ConcatElements
    <3> QED BY <1>2, <3>1, ConcatElements
  <2> QED BY <1>1, <1>2, <2>1, <2>2, <2>3, ConcatElements
<1> QED BY <1>1, <1>2 DEF Follows

LEMMA FollowsOne ==
    ASSUME NEW S, NEW q \in Seq(S), NEW e \in S, NEW W, NEW R, NEW ok, e \in W \cap R
    PROVE  Follows(q \o <<e>>, W, R, ok)
<1>1. <<e>> \in Seq(S) /\ Len(<<e>>) = 1 /\ <<e>>[1] = e
  OBVIOUS
<1>2. 1 \in 1 .. Len(<<e>>) /\ <<e>>[1] \in W \cap R /\ \A i \in 1 + 1 .. Len(<<e>>) : <<e>>[i] \notin W
  BY <1>1
<1> QED BY <1>1, <1>2, FollowsNew

\* The event taken decides, unless another one that does is waiting.
LEMMA FollowsTail ==
    ASSUME NEW S, NEW q \in Seq(S), q # <<>>, NEW W, NEW R, NEW ok, NEW after,
           Follows(q, W, R, ok),
           Head(q) \notin W /\ ok => after,
           Head(q) \in W \cap R => after
    PROVE  Follows(Tail(q), W, R, after)
<1>1. ASSUME NEW i \in 1 .. Len(Tail(q)), Tail(q)[i] \in W
      PROVE  Tail(q)[i] \in R \/ \E j \in i + 1 .. Len(Tail(q)) : Tail(q)[j] \in W
  <2>1. i + 1 \in 1 .. Len(q) /\ q[i + 1] \in W /\ Tail(q)[i] = q[i + 1]
    BY <1>1, TailElements
  <2>2. CASE \E j \in i + 1 + 1 .. Len(q) : q[j] \in W
    <3>1. PICK j \in i + 1 + 1 .. Len(q) : q[j] \in W
      BY <2>2
    <3>2. j - 1 \in i + 1 .. Len(Tail(q)) /\ Tail(q)[j - 1] = q[j]
      <4>1. j - 1 \in 1 .. Len(q) - 1 /\ j - 1 + 1 = j /\ j - 1 \in i + 1 .. Len(q) - 1
        BY <1>1, <3>1, TailElements
      <4> QED BY <4>1, TailElements
    <3> QED BY <3>1, <3>2
  <2> QED BY <2>1, <2>2 DEF Follows
<1>2. after \/ \E i \in 1 .. Len(Tail(q)) : Tail(q)[i] \in W
  <2>1. CASE Head(q) \notin W
    <3>1. CASE ok
      BY <2>1, <3>1
    <3>2. CASE \E i \in 1 .. Len(q) : q[i] \in W
      <4>1. PICK i \in 1 .. Len(q) : q[i] \in W
        BY <3>2
      <4>2. i # 1
        BY <2>1, <4>1, TailElements
      <4>3. i - 1 \in 1 .. Len(Tail(q)) /\ Tail(q)[i - 1] = q[i]
        <5>1. i - 1 \in 1 .. Len(q) - 1 /\ i - 1 + 1 = i
          BY <4>1, <4>2, TailElements
        <5> QED BY <5>1, TailElements
      <4> QED BY <4>1, <4>3
    <3> QED BY <3>1, <3>2 DEF Follows
  <2>2. CASE Head(q) \in W
    <3>1. q[1] \in W /\ 1 \in 1 .. Len(q)
      BY <2>2, TailElements
    <3>2. CASE q[1] \in R
      BY <2>2, <3>2, TailElements
    <3>3. CASE \E j \in 1 + 1 .. Len(q) : q[j] \in W
      <4>1. PICK j \in 1 + 1 .. Len(q) : q[j] \in W
        BY <3>3
      <4>3. j - 1 \in 1 .. Len(Tail(q)) /\ Tail(q)[j - 1] = q[j]
        <5>1. j - 1 \in 1 .. Len(q) - 1 /\ j - 1 + 1 = j
          BY <4>1, TailElements
        <5> QED BY <5>1, TailElements
      <4> QED BY <4>1, <4>3
    <3> QED BY <3>1, <3>2, <3>3 DEF Follows
  <2> QED BY <2>1, <2>2
<1> QED BY <1>1, <1>2 DEF Follows

\* Nor does an event that another one follows.
LEMMA FollowsSkip ==
    ASSUME NEW S, NEW q \in Seq(S), Len(q) > 1, NEW W, q[2] \in W, NEW R, NEW ok, NEW after,
           Follows(q, W, R, ok)
    PROVE  Follows(Tail(q), W, R, after)
<1>1. q # <<>> /\ Len(q) \in Nat
  BY EmptySeq, LenProperties
<1>2. 1 \in 1 .. Len(Tail(q)) /\ Tail(q)[1] \in W
  BY <1>1, TailElements
<1>3. ASSUME NEW i \in 1 .. Len(Tail(q)), Tail(q)[i] \in W
      PROVE  Tail(q)[i] \in R \/ \E j \in i + 1 .. Len(Tail(q)) : Tail(q)[j] \in W
  <2>1. /\ i + 1 \in 1 .. Len(q) /\ q[i + 1] = Tail(q)[i]
    BY <1>1, TailElements
  <2>2. CASE \E j \in i + 1 + 1 .. Len(q) : q[j] \in W
    <3>1. PICK j \in i + 1 + 1 .. Len(q) : q[j] \in W
      BY <2>2
    <3>2. j - 1 \in 1 .. Len(q) - 1 /\ j - 1 + 1 = j /\ j - 1 \in i + 1 .. Len(q) - 1
      BY <1>1, <2>1, <3>1
    <3>3. j - 1 \in i + 1 .. Len(Tail(q)) /\ Tail(q)[j - 1] = q[j]
      BY <1>1, <3>2, TailElements
    <3> QED BY <3>1, <3>3
  <2> QED BY <1>3, <2>1, <2>2 DEF Follows
<1> QED BY <1>2, <1>3 DEF Follows

\* With nothing left to come the value is right.
LEMMA FollowsEmpty ==
    ASSUME NEW W, NEW R, NEW ok
    PROVE  Follows(<<>>, W, R, ok) <=> ok
BY EmptySeq DEF Follows

LEMMA NeverConcat ==
    ASSUME NEW S, NEW q \in Seq(S), NEW s \in Seq(S), NEW W, Never(q, W), Never(s, W)
    PROVE  Never(q \o s, W)
<1>1. ASSUME NEW i \in 1 .. Len(q \o s) PROVE (q \o s)[i] \notin W
  <2>1. CASE i \in 1 .. Len(q)
    BY <2>1, ConcatElements DEF Never
  <2>2. CASE i \notin 1 .. Len(q)
    <3>1. PICK k \in 1 .. Len(s) : i = Len(q) + k
      <4>1. i - Len(q) \in 1 .. Len(s) /\ i = Len(q) + (i - Len(q))
        BY <2>2, ConcatElements
      <4> QED BY <4>1
    <3> QED BY <3>1, ConcatElements DEF Never
  <2> QED BY <2>1, <2>2
<1> QED BY <1>1 DEF Never

LEMMA NeverTail ==
    ASSUME NEW S, NEW q \in Seq(S), q # <<>>, NEW W, Never(q, W)
    PROVE  Head(q) \notin W /\ Never(Tail(q), W)
<1>1. ASSUME NEW i \in 1 .. Len(Tail(q)) PROVE Tail(q)[i] \notin W
  <2>1. i + 1 \in 1 .. Len(q) /\ Tail(q)[i] = q[i + 1]
    BY TailElements
  <2> QED BY <2>1 DEF Never
<1>2. 1 \in 1 .. Len(q) /\ Head(q) = q[1]
  BY TailElements
<1> QED BY <1>1, <1>2 DEF Never

\* The value and what is right may change together, unseen by the queue.
LEMMA FollowsMore ==
    ASSUME NEW q, NEW W, NEW R, NEW ok, NEW Q, NEW after,
           Follows(q, W, R, ok), R \subseteq Q, ok => after
    PROVE  Follows(q, W, Q, after)
BY DEF Follows

\* r is the queue without its event at place i.
Without(q, r, i) ==
    /\ i \in 1 .. Len(q) /\ Len(r) = Len(q) - 1
    /\ \A j \in 1 .. i - 1 : r[j] = q[j]
    /\ \A j \in i .. Len(r) : r[j] = q[j + 1]

\* An event that decides nothing may be taken out.
LEMMA FollowsWithout ==
    ASSUME NEW S, NEW q \in Seq(S), NEW r \in Seq(S), NEW i, Without(q, r, i), NEW W, q[i] \notin W,
           NEW R, NEW ok, Follows(q, W, R, ok)
    PROVE  Follows(r, W, R, ok)
<1>0. Len(q) \in Nat /\ Len(r) \in Nat /\ i \in 1 .. Len(q) /\ Len(r) = Len(q) - 1
  BY LenProperties DEF Without
<1>1. ASSUME NEW j \in 1 .. Len(q), q[j] \in W
      PROVE  \E k \in 1 .. Len(r) : r[k] = q[j] /\ k = (IF j < i THEN j ELSE j - 1)
  <2>1. CASE j < i
    BY <1>0, <1>1, <2>1 DEF Without
  <2>2. CASE j > i
    <3>1. j - 1 \in i .. Len(r) /\ j - 1 + 1 = j /\ j - 1 \in 1 .. Len(r)
      BY <1>0, <1>1, <2>2
    <3>2. r[j - 1] = q[j - 1 + 1]
      BY <3>1 DEF Without
    <3>3. r[j - 1] = q[j] /\ j - 1 = (IF j < i THEN j ELSE j - 1)
      BY <1>0, <2>2, <3>1, <3>2
    <3> QED BY <3>1, <3>3
  <2>3. j # i
    BY <1>1
  <2> QED BY <1>0, <2>1, <2>2, <2>3
<1>2. ASSUME NEW k \in 1 .. Len(r), r[k] \in W
      PROVE  r[k] \in R \/ \E m \in k + 1 .. Len(r) : r[m] \in W
  <2> DEFINE j == IF k < i THEN k ELSE k + 1
  <2>1. j \in 1 .. Len(q) /\ q[j] = r[k]
    BY <1>0, <1>2 DEF Without
  <2>2. CASE \E n \in j + 1 .. Len(q) : q[n] \in W
    <3>1. PICK n \in j + 1 .. Len(q) : q[n] \in W
      BY <2>2
    <3>2. n \in 1 .. Len(q) /\ n # i
      BY <1>0, <1>2, <3>1
    <3>3. PICK m \in 1 .. Len(r) : r[m] = q[n] /\ m = (IF n < i THEN n ELSE n - 1)
      BY <1>1, <3>1, <3>2
    <3>4. m \in k + 1 .. Len(r)
      BY <1>0, <1>2, <3>1, <3>2, <3>3
    <3> QED BY <3>1, <3>3, <3>4
  <2> QED BY <1>2, <2>1, <2>2 DEF Follows
<1>3. ok \/ \E k \in 1 .. Len(r) : r[k] \in W
  BY <1>1 DEF Follows
<1> QED BY <1>2, <1>3 DEF Follows

--------------------------------------------------------------------------------
LEMMA LeadsEmpty ==
    ASSUME NEW T, NEW V, NEW a, NEW b, a \in V
    PROVE  Leads(<<>>, T, V, a, b) <=> a = b
<1>1. Len(<<>>) = 0
  BY EmptySeq
<1>2. ASSUME a = b PROVE Leads(<<>>, T, V, a, b)
  <2>1. [i \in 0 .. 0 |-> a] \in [0 .. 0 -> V] /\ [i \in 0 .. 0 |-> a][0] = a
    OBVIOUS
  <2>2. \A i \in 1 .. 0 : FALSE
    OBVIOUS
  <2> QED BY <1>1, <1>2, <2>1, <2>2 DEF Leads
<1> QED BY <1>1, <1>2 DEF Leads

LEMMA LeadsAppend ==
    ASSUME NEW S, NEW q \in Seq(S), NEW e \in S, NEW T, NEW V, NEW a, NEW b \in V, NEW c \in V,
           Leads(q, T, V, a, b), <<e, b, c>> \in T
    PROVE  Leads(q \o <<e>>, T, V, a, c)
<1> DEFINE s == <<e>>
           n == Len(q)
<1>0. /\ s \in Seq(S) /\ Len(s) = 1 /\ s[1] = e
  OBVIOUS
<1>1. /\ Len(q \o s) = n + 1 /\ n \in Nat
      /\ \A i \in 1 .. n : (q \o s)[i] = q[i]
      /\ (q \o s)[n + 1] = e
  BY <1>0, ConcatElements
<1>2. PICK f \in [0 .. n -> V] : /\ f[0] = a /\ f[n] = b
                                 /\ \A i \in 1 .. n : <<q[i], f[i - 1], f[i]>> \in T
  BY DEF Leads
<1> DEFINE g == [i \in 0 .. n + 1 |-> IF i <= n THEN f[i] ELSE c]
<1>3. g \in [0 .. n + 1 -> V] /\ g[0] = a /\ g[n + 1] = c
  BY <1>1, <1>2
<1> HIDE DEF s, n
<1>4. ASSUME NEW i \in 1 .. n + 1 PROVE <<(q \o s)[i], g[i - 1], g[i]>> \in T
  <2>1. CASE i <= n
    <3>1. i \in 1 .. n /\ i - 1 <= n /\ i - 1 \in 0 .. n + 1 /\ i \in 0 .. n + 1
      BY <1>1, <2>1
    <3>2. (q \o s)[i] = q[i] /\ g[i - 1] = f[i - 1] /\ g[i] = f[i]
      BY <1>1, <2>1, <3>1
    <3>3. <<q[i], f[i - 1], f[i]>> \in T
      BY <1>2, <3>1
    <3> QED BY <3>2, <3>3
  <2>2. CASE ~(i <= n)
    <3>1. i = n + 1
      BY <1>1, <1>4, <2>2
    <3>2. g[n] = f[n] /\ g[n + 1] = c /\ n + 1 - 1 = n
      <4>1. n \in 0 .. n + 1 /\ n + 1 \in 0 .. n + 1 /\ ~(n + 1 <= n) /\ n <= n
        BY <1>1
      <4> QED BY <1>1, <4>1
    <3>3. (q \o s)[i] = e /\ g[i - 1] = b /\ g[i] = c
      BY <1>1, <1>2, <3>1, <3>2
    <3> QED BY <3>3
  <2> QED BY <2>1, <2>2
<1> USE DEF s, n
<1> QED BY <1>1, <1>3, <1>4 DEF Leads

\* Events that change nothing may be any number.
LEMMA LeadsKept ==
    ASSUME NEW S, NEW q \in Seq(S), NEW s \in Seq(S), NEW T, NEW V, NEW a, NEW b \in V,
           Leads(q, T, V, a, b), \A i \in 1 .. Len(s) : <<s[i], b, b>> \in T
    PROVE  Leads(q \o s, T, V, a, b)
<1> DEFINE n == Len(q)
           m == Len(s)
<1>1. /\ Len(q \o s) = n + m /\ n \in Nat /\ m \in Nat
      /\ \A i \in 1 .. n : (q \o s)[i] = q[i]
      /\ \A i \in 1 .. m : (q \o s)[n + i] = s[i]
  BY ConcatElements
<1>2. PICK f \in [0 .. n -> V] : /\ f[0] = a /\ f[n] = b
                                 /\ \A i \in 1 .. n : <<q[i], f[i - 1], f[i]>> \in T
  BY DEF Leads
<1>s. \A i \in 1 .. m : <<s[i], b, b>> \in T
  OBVIOUS
<1> HIDE DEF n, m
<1> DEFINE g == [i \in 0 .. n + m |-> IF i <= n THEN f[i] ELSE b]
<1>3. g \in [0 .. n + m -> V] /\ g[0] = a /\ g[n + m] = b
  BY <1>1, <1>2
<1>4. ASSUME NEW i \in 1 .. n + m PROVE <<(q \o s)[i], g[i - 1], g[i]>> \in T
  <2>1. CASE i <= n
    <3>1. i \in 1 .. n /\ i - 1 <= n /\ i - 1 \in 0 .. n + m /\ i \in 0 .. n + m
      BY <1>1, <2>1
    <3>2. (q \o s)[i] = q[i] /\ g[i - 1] = f[i - 1] /\ g[i] = f[i]
      BY <1>1, <2>1, <3>1
    <3>3. <<q[i], f[i - 1], f[i]>> \in T
      BY <1>2, <3>1
    <3> QED BY <3>2, <3>3
  <2>2. CASE ~(i <= n)
    <3>1. i - n \in 1 .. m /\ n + (i - n) = i /\ i - 1 \in 0 .. n + m /\ i \in 0 .. n + m
      BY <1>1, <1>4, <2>2
    <3>2. (q \o s)[i] = s[i - n] /\ g[i] = b
      BY <1>1, <2>2, <3>1
    <3>3. g[i - 1] = b
      <4>1. CASE i - 1 <= n
        <5>1. i - 1 = n
          BY <1>1, <1>4, <2>2, <4>1
        <5> QED BY <1>2, <3>1, <4>1, <5>1
      <4>2. CASE ~(i - 1 <= n)
        BY <3>1, <4>2
      <4> QED BY <4>1, <4>2
    <3> QED BY <1>s, <3>1, <3>2, <3>3
  <2> QED BY <2>1, <2>2
<1> USE DEF n, m
<1> QED BY <1>1, <1>3, <1>4 DEF Leads

LEMMA LeadsOne ==
    ASSUME NEW e, NEW T, NEW V, NEW b \in V, NEW c \in V, <<e, b, c>> \in T
    PROVE  Leads(<<e>>, T, V, b, c)
<1> DEFINE f == [i \in 0 .. 1 |-> IF i = 0 THEN b ELSE c]
<1>1. Len(<<e>>) = 1 /\ <<e>>[1] = e
  OBVIOUS
<1>2. f \in [0 .. 1 -> V] /\ f[0] = b /\ f[1] = c
  OBVIOUS
<1>3. \A i \in 1 .. 1 : <<<<e>>[i], f[i - 1], f[i]>> \in T
  <2>1. \A i \in 1 .. 1 : i = 1 /\ i - 1 = 0
    OBVIOUS
  <2> HIDE DEF f
  <2> QED BY <1>1, <1>2, <2>1
<1> HIDE DEF f
<1> QED BY <1>1, <1>2, <1>3 DEF Leads

\* Two queues in a row.
LEMMA LeadsConcat ==
    ASSUME NEW S, NEW q \in Seq(S), NEW s \in Seq(S), NEW T, NEW V, NEW a, NEW b, NEW c,
           Leads(q, T, V, a, b), Leads(s, T, V, b, c)
    PROVE  Leads(q \o s, T, V, a, c)
<1> DEFINE n == Len(q)
           m == Len(s)
<1>1. /\ Len(q \o s) = n + m /\ n \in Nat /\ m \in Nat
      /\ \A i \in 1 .. n : (q \o s)[i] = q[i]
      /\ \A i \in 1 .. m : (q \o s)[n + i] = s[i]
  BY ConcatElements
<1>2. PICK f \in [0 .. n -> V] : /\ f[0] = a /\ f[n] = b
                                 /\ \A i \in 1 .. n : <<q[i], f[i - 1], f[i]>> \in T
  BY DEF Leads
<1>3. PICK h \in [0 .. m -> V] : /\ h[0] = b /\ h[m] = c
                                 /\ \A i \in 1 .. m : <<s[i], h[i - 1], h[i]>> \in T
  BY DEF Leads
<1> HIDE DEF n, m
<1> DEFINE g == [i \in 0 .. n + m |-> IF i <= n THEN f[i] ELSE h[i - n]]
<1>4. ASSUME NEW i \in 0 .. n + m PROVE g[i] \in V
  <2>1. CASE i <= n
    BY <1>1, <1>2, <2>1
  <2>2. CASE ~(i <= n)
    <3>1. i - n \in 0 .. m
      BY <1>1, <1>4, <2>2
    <3> QED BY <1>3, <2>2, <3>1
  <2> QED BY <2>1, <2>2
<1>5. \A i \in 0 .. m : g[n + i] = h[i]
  <2> SUFFICES ASSUME NEW i \in 0 .. m, NEW k, k = n + i PROVE g[k] = h[i]
    OBVIOUS
  <2>1. k \in 0 .. n + m /\ k - n = i
    BY <1>1
  <2>2. CASE k <= n
    <3>1. i = 0 /\ k = n
      BY <1>1, <2>2
    <3> QED BY <1>2, <1>3, <2>1, <2>2, <3>1
  <2>3. CASE ~(k <= n)
    BY <2>1, <2>3
  <2> QED BY <2>2, <2>3
<1>6. g \in [0 .. n + m -> V] /\ g[0] = a /\ g[n + m] = c
  <2>1. 0 \in 0 .. n + m /\ 0 <= n /\ m \in 0 .. m
    BY <1>1
  <2> QED BY <1>1, <1>2, <1>3, <1>4, <1>5, <2>1
<1>7. ASSUME NEW i \in 1 .. n + m PROVE <<(q \o s)[i], g[i - 1], g[i]>> \in T
  <2>1. CASE i <= n
    <3>1. i \in 1 .. n /\ i - 1 <= n /\ i - 1 \in 0 .. n + m /\ i \in 0 .. n + m
      BY <1>1, <2>1
    <3>2. (q \o s)[i] = q[i] /\ g[i - 1] = f[i - 1] /\ g[i] = f[i]
      BY <1>1, <2>1, <3>1
    <3> QED BY <1>2, <3>1, <3>2
  <2>2. CASE ~(i <= n)
    <3>1. /\ i - n \in 1 .. m /\ i - n - 1 \in 0 .. m /\ i - n \in 0 .. m
          /\ n + (i - n) = i /\ n + (i - n - 1) = i - 1
      BY <1>1, <1>7, <2>2
    <3>2. g[n + (i - n)] = h[i - n] /\ g[n + (i - n - 1)] = h[i - n - 1]
      BY <1>5, <3>1
    <3>3. (q \o s)[n + (i - n)] = s[i - n]
      BY <1>1, <3>1
    <3> QED BY <1>3, <3>1, <3>2, <3>3
  <2> QED BY <2>1, <2>2
<1> USE DEF n, m
<1> QED BY <1>1, <1>6, <1>7 DEF Leads

\* The events of E each lead from either value to the second, the others change neither.
LEMMA LeadsOver ==
    ASSUME NEW S, NEW s \in Seq(S), NEW T, NEW V, NEW E, NEW b \in V, NEW c \in V,
           \A i \in 1 .. Len(s) : <<s[i], c, c>> \in T /\ <<s[i], b, IF s[i] \in E THEN c ELSE b>> \in T
    PROVE  Leads(s, T, V, b, IF \E i \in 1 .. Len(s) : s[i] \in E THEN c ELSE b)
<1> DEFINE m == Len(s)
           met(k) == \E i \in 1 .. k : s[i] \in E
<1>1. m \in Nat
  BY LenProperties
<1>s. \A i \in 1 .. m : <<s[i], c, c>> \in T /\ <<s[i], b, IF s[i] \in E THEN c ELSE b>> \in T
  OBVIOUS
<1> HIDE DEF m
<1> DEFINE h == [k \in 0 .. m |-> IF met(k) THEN c ELSE b]
<1>2. h \in [0 .. m -> V] /\ h[0] = b /\ h[m] = IF met(m) THEN c ELSE b
  BY <1>1
<1>3. ASSUME NEW i \in 1 .. m PROVE <<s[i], h[i - 1], h[i]>> \in T
  <2>1. i - 1 \in 0 .. m /\ i \in 0 .. m /\ i \in 1 .. i /\ \A j \in 1 .. i : j = i \/ j \in 1 .. i - 1
    BY <1>1
  <2>2. met(i) <=> met(i - 1) \/ s[i] \in E
    <3>1. 1 .. i - 1 \subseteq 1 .. i
      BY <1>1
    <3> QED BY <2>1, <3>1
  <2> HIDE DEF met
  <2>3. h[i - 1] = (IF met(i - 1) THEN c ELSE b) /\ h[i] = IF met(i) THEN c ELSE b
    BY <2>1
  <2> QED BY <1>s, <2>2, <2>3
<1> USE DEF m
<1> QED BY <1>2, <1>3 DEF Leads

LEMMA LeadsAll ==
    ASSUME NEW S, NEW s \in Seq(S), NEW T, NEW V, NEW b \in V, \A i \in 1 .. Len(s) : <<s[i], b, b>> \in T
    PROVE  Leads(s, T, V, b, b)
<1>1. Len(s) \in Nat
  BY LenProperties
<1> DEFINE f == [i \in 0 .. Len(s) |-> b]
<1>2. f \in [0 .. Len(s) -> V] /\ f[0] = b /\ f[Len(s)] = b
  BY <1>1
<1>3. \A i \in 1 .. Len(s) : f[i - 1] = b /\ f[i] = b
  BY <1>1
<1> HIDE DEF f
<1> QED BY <1>2, <1>3 DEF Leads

LEMMA LeadsTwo ==
    ASSUME NEW S, NEW e \in S, NEW g \in S, NEW T, NEW V, NEW b \in V, NEW c \in V, NEW d \in V,
           <<e, b, c>> \in T, <<g, c, d>> \in T
    PROVE  Leads(<<e, g>>, T, V, b, d)
<1>1. Leads(<<e>>, T, V, b, c)
  BY LeadsOne
<1>2. Leads(<<e>> \o <<g>>, T, V, b, d)
  <2>1. <<e>> \in Seq(S)
    OBVIOUS
  <2> QED BY <1>1, <2>1, LeadsAppend
<1>3. <<e>> \o <<g>> = <<e, g>>
  BY ConcatPair
<1> QED BY <1>2, <1>3

\* What allows more steps leads there too.
LEMMA LeadsMore ==
    ASSUME NEW q, NEW T, NEW U, NEW V, NEW a, NEW b, Leads(q, T, V, a, b),
           \A i \in 1 .. Len(q), x \in V, y \in V : <<q[i], x, y>> \in T => <<q[i], x, y>> \in U,
           Len(q) \in Nat
    PROVE  Leads(q, U, V, a, b)
<1>1. PICK f \in [0 .. Len(q) -> V] : /\ f[0] = a /\ f[Len(q)] = b
                                      /\ \A i \in 1 .. Len(q) : <<q[i], f[i - 1], f[i]>> \in T
  BY DEF Leads
<1>2. \A i \in 1 .. Len(q) : f[i - 1] \in V /\ f[i] \in V
  <2>1. \A i \in 1 .. Len(q) : i - 1 \in 0 .. Len(q) /\ i \in 0 .. Len(q)
    OBVIOUS
  <2> QED BY <2>1
<1> QED BY <1>1, <1>2 DEF Leads

LEMMA LeadsTail ==
    ASSUME NEW S, NEW q \in Seq(S), q # <<>>, NEW T, NEW V, NEW a, NEW b, Leads(q, T, V, a, b)
    PROVE  \E c \in V : <<Head(q), a, c>> \in T /\ Leads(Tail(q), T, V, c, b)
<1> DEFINE n == Len(q) - 1
<1>1. /\ n \in Nat /\ Len(q) = n + 1 /\ Len(Tail(q)) = n /\ Head(q) = q[1]
      /\ \A i \in 1 .. n : Tail(q)[i] = q[i + 1]
  BY TailElements
<1>2. PICK f \in [0 .. n + 1 -> V] : /\ f[0] = a /\ f[n + 1] = b
                                     /\ \A i \in 1 .. n + 1 : <<q[i], f[i - 1], f[i]>> \in T
  BY <1>1 DEF Leads
<1> HIDE DEF n
<1> DEFINE g == [i \in 0 .. n |-> f[i + 1]]
<1>3. g \in [0 .. n -> V] /\ g[0] = f[1] /\ g[n] = b
  BY <1>1, <1>2
<1>4. ASSUME NEW i \in 1 .. n PROVE <<Tail(q)[i], g[i - 1], g[i]>> \in T
  <2>1. i + 1 \in 1 .. n + 1 /\ i + 1 - 1 = i /\ g[i] = f[i + 1] /\ g[i - 1] = f[i] /\ Tail(q)[i] = q[i + 1]
    BY <1>1
  <2>2. <<q[i + 1], f[i], f[i + 1]>> \in T
    BY <1>2, <2>1
  <2> QED BY <2>1, <2>2
<1>5. <<Head(q), a, f[1]>> \in T /\ f[1] \in V
  BY <1>1, <1>2
<1>6. Leads(Tail(q), T, V, f[1], b)
  BY <1>1, <1>3, <1>4 DEF Leads
<1> QED BY <1>5, <1>6

LEMMA LeadsWithout ==
    ASSUME NEW S, NEW q \in Seq(S), NEW r \in Seq(S), NEW i, Without(q, r, i), NEW T, NEW V,
           \A x, y \in V : <<q[i], x, y>> \in T => x = y, NEW a, NEW b, Leads(q, T, V, a, b)
    PROVE  Leads(r, T, V, a, b)
<1> DEFINE n == Len(r)
<1>0. n \in Nat /\ Len(q) = n + 1 /\ i \in 1 .. n + 1
  BY LenProperties DEF Without
<1>1. PICK f \in [0 .. n + 1 -> V] : /\ f[0] = a /\ f[n + 1] = b
                                     /\ \A j \in 1 .. n + 1 : <<q[j], f[j - 1], f[j]>> \in T
  BY <1>0 DEF Leads
<1>2. /\ \A j \in 1 .. i - 1 : r[j] = q[j]
      /\ \A j \in i .. n : r[j] = q[j + 1]
      /\ \A x, y \in V : <<q[i], x, y>> \in T => x = y
  BY DEF Without
<1> HIDE DEF n
<1>3. f[i - 1] = f[i]
  <2>1. i - 1 \in 0 .. n + 1 /\ i \in 0 .. n + 1
    BY <1>0
  <2>2. f[i - 1] \in V /\ f[i] \in V /\ <<q[i], f[i - 1], f[i]>> \in T
    BY <1>0, <1>1, <2>1
  <2> QED BY <1>2, <2>2
<1> DEFINE g == [j \in 0 .. n |-> IF j < i THEN f[j] ELSE f[j + 1]]
<1>4. g \in [0 .. n -> V] /\ g[0] = a /\ g[n] = b
  <2>1. g \in [0 .. n -> V]
    BY <1>0, <1>1
  <2>2. g[0] = a
    BY <1>0, <1>1
  <2>3. g[n] = b
    <3>1. CASE n < i
      <4>1. n \in 0 .. n /\ i = n + 1 /\ i - 1 = n
        BY <1>0, <3>1
      <4> QED BY <1>1, <1>3, <3>1, <4>1
    <3>2. CASE ~(n < i)
      BY <1>0, <1>1, <3>2
    <3> QED BY <3>1, <3>2
  <2> QED BY <2>1, <2>2, <2>3
<1>5. ASSUME NEW j \in 1 .. n PROVE <<r[j], g[j - 1], g[j]>> \in T
  <2>0. j \in 0 .. n /\ j - 1 \in 0 .. n
    BY <1>0, <1>5
  <2>1. CASE j < i
    <3>1. r[j] = q[j] /\ g[j - 1] = f[j - 1] /\ g[j] = f[j] /\ j \in 1 .. n + 1
      BY <1>0, <1>2, <1>5, <2>0, <2>1
    <3> QED BY <1>1, <3>1
  <2>2. CASE ~(j < i)
    <3>1. r[j] = q[j + 1] /\ g[j] = f[j + 1] /\ j + 1 \in 1 .. n + 1 /\ j + 1 - 1 = j
      BY <1>0, <1>2, <1>5, <2>0, <2>2
    <3>2. g[j - 1] = f[j]
      <4>1. CASE j - 1 < i
        <5>1. j = i
          BY <1>0, <1>5, <2>2, <4>1
        <5> QED BY <1>3, <2>0, <4>1, <5>1
      <4>2. CASE ~(j - 1 < i)
        <5>1. j - 1 + 1 = j
          BY <1>5
        <5> QED BY <2>0, <4>2, <5>1
      <4> QED BY <4>1, <4>2
    <3>3. <<q[j + 1], f[j + 1 - 1], f[j + 1]>> \in T
      BY <1>1, <3>1
    <3> QED BY <3>1, <3>2, <3>3
  <2> QED BY <2>1, <2>2
<1> USE DEF n
<1> QED BY <1>4, <1>5 DEF Leads
================================================================================
