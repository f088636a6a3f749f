--------------------------- MODULE LiveSyncProofs ---------------------------
(***************************************************************************)
(* LiveSync implements SharedLevel, the levels converge and no lock is     *)
(* kept for a peer without it: theorems for any heap, looks, bounds and    *)
(* levels, and either client as the writer.                                *)
(* Three parts: sequences of changes (Writes, Changes), by induction on    *)
(* their length from LeastNumber; what each action of the writer makes of  *)
(* its level and sends (WriterEdits); what each handler of the watcher     *)
(* makes of a message (WatcherTakes).  LiveInv ties them together: the     *)
(* changes on their way lead from the watcher's level to the writer's.     *)
(***************************************************************************)
EXTENDS LiveSync, EditorQueuesProofs, WellFoundedInduction

-----------------------------------------------------------------------------
(***************************************************************************)
(* Sequences of changes to a level.                                        *)
(***************************************************************************)

\* A set of numbers has a least one: what holds at 0 and is handed on from
\* each number to the next has no least exception.
LEMMA LeastNumber ==
  ASSUME NEW T, T \subseteq Nat, T # {}
  PROVE  \E m \in T : \A k \in T : m <= k
<1> DEFINE B == {1..n : n \in T}
           R == StrictSubsetOrdering(Nat)
<1>1. B \subseteq FiniteSubsetsOf(Nat) /\ B # {}
  <2>1. \A n \in T : 1..n \subseteq Nat /\ IsFiniteSet(1..n)
    BY FS_Interval
  <2> QED BY <2>1 DEF FiniteSubsetsOf
<1>2. IsWellFoundedOn(R, FiniteSubsetsOf(Nat))
  BY FS_StrictSubsetOrderingWellFounded
<1> HIDE DEF R, B
<1>3. PICK x \in B : \A y \in B : ~ (<<y, x>> \in R)
  BY <1>1, <1>2, WFMin
<1>4. PICK m \in T : x = 1..m
  BY <1>3 DEF B
<1>5. ASSUME NEW k \in T, k < m
      PROVE  FALSE
  <2>1. m \in 1..m /\ m \notin 1..k
    BY <1>5
  <2>2. 1..k \subseteq 1..m /\ 1..k # 1..m
    BY <2>1, <1>5
  <2>3. 1..k \in SUBSET Nat /\ 1..m \in SUBSET Nat
    OBVIOUS
  <2>4. <<1..k, 1..m>> \in R
    BY <2>2, <2>3 DEF StrictSubsetOrdering, R
  <2>5. 1..k \in B
    BY DEF B
  <2> QED BY <2>4, <2>5, <1>3, <1>4
<1> QED BY <1>5

\* The levels that the first n of the changes ops go through.
Through(l, ops, n, h) ==
  /\ h = [k \in 0..n |-> h[k]]
  /\ h[0] = l
  /\ \A k \in 1..n : h[k] = OneWriter!Effect(h[k - 1], ops[k])

Stages(l, ops, h) == Through(l, ops, Len(ops), h)

LEMMA StagesExist ==
  ASSUME NEW l, NEW ops, NEW n \in Nat
  PROVE  \E h : Through(l, ops, n, h)
<1> DEFINE T == {m \in Nat : ~\E h : Through(l, ops, m, h)}
<1> SUFFICES ASSUME T # {}
             PROVE  FALSE
  OBVIOUS
<1>1. PICK m \in T : \A k \in T : m <= k
  <2>1. T \subseteq Nat
    OBVIOUS
  <2> HIDE DEF T
  <2> QED BY <2>1, LeastNumber
<1>2. CASE m = 0
  <2> DEFINE h == [k \in 0..0 |-> l]
  <2>1. Through(l, ops, 0, h)
    BY DEF Through
  <2> QED BY <1>2, <2>1
<1>3. CASE m # 0
  <2>1. m - 1 \in Nat /\ m - 1 \notin T
    BY <1>1, <1>3
  <2>2. PICK g : Through(l, ops, m - 1, g)
    BY <2>1
  <2> DEFINE e == OneWriter!Effect(g[m - 1], ops[m])
             h == [k \in 0..m |-> IF k = m THEN e ELSE g[k]]
  <2>3. \A k \in 1..(m - 1) : g[k] = OneWriter!Effect(g[k - 1], ops[k])
    BY <2>2 DEF Through
  <2>4. h = [k \in 0..m |-> h[k]] /\ h[0] = l
    BY <1>3, <2>2 DEF Through
  <2>5. ASSUME NEW k \in 1..m
        PROVE  h[k] = OneWriter!Effect(h[k - 1], ops[k])
    <3>1. k - 1 \in 0..m /\ k - 1 # m
      OBVIOUS
    <3>2. h[k - 1] = g[k - 1]
      BY <3>1
    <3>3. CASE k = m
      <4>1. h[k] = e
        BY <3>3
      <4> QED BY <3>2, <3>3, <4>1
    <3>4. CASE k # m
      <4>1. h[k] = g[k] /\ k \in 1..(m - 1)
        BY <3>4
      <4>2. g[k] = OneWriter!Effect(g[k - 1], ops[k])
        BY <2>3, <4>1
      <4> QED BY <3>2, <4>1, <4>2
    <3> QED BY <3>3, <3>4
  <2> HIDE DEF h
  <2>6. Through(l, ops, m, h)
    BY <2>4, <2>5 DEF Through
  <2> QED BY <2>6
<1> QED BY <1>2, <1>3

LEMMA StagesUnique ==
  ASSUME NEW l, NEW ops, NEW n \in Nat, NEW h, NEW g, Through(l, ops, n, h), Through(l, ops, n, g)
  PROVE  \A k \in 0..n : h[k] = g[k]
<1> DEFINE T == {k \in 0..n : h[k] # g[k]}
<1> SUFFICES ASSUME T # {}
             PROVE  FALSE
  OBVIOUS
<1>1. PICK m \in T : \A k \in T : m <= k
  <2>1. T \subseteq Nat
    OBVIOUS
  <2> HIDE DEF T
  <2> QED BY <2>1, LeastNumber
<1>2. CASE m = 0
  BY <1>2 DEF Through
<1>3. CASE m # 0
  <2>1. m \in 1..n /\ m - 1 \in 0..n /\ m - 1 \notin T
    BY <1>1, <1>3
  <2>2. h[m - 1] = g[m - 1]
    BY <2>1
  <2>3. /\ h[m] = OneWriter!Effect(h[m - 1], ops[m])
        /\ g[m] = OneWriter!Effect(g[m - 1], ops[m])
    BY <2>1 DEF Through
  <2> QED BY <2>2, <2>3
<1> QED BY <1>2, <1>3

LEMMA StagesEnd ==
  ASSUME NEW l, NEW ops, Len(ops) \in Nat, NEW h, Stages(l, ops, h)
  PROVE  OneWriter!Effects(l, ops) = h[Len(ops)]
<1> DEFINE n == Len(ops)
           f == CHOOSE g : g = [k \in 0..n |-> IF k = 0 THEN l ELSE OneWriter!Effect(g[k - 1], ops[k])]
<1>1. OneWriter!Effects(l, ops) = f[n]
  BY DEF OneWriter!Effects
<1>2. h = [k \in 0..n |-> IF k = 0 THEN l ELSE OneWriter!Effect(h[k - 1], ops[k])]
  BY DEF Stages, Through
<1>3. f = [k \in 0..n |-> IF k = 0 THEN l ELSE OneWriter!Effect(f[k - 1], ops[k])]
  BY <1>2
<1> HIDE DEF f
<1>4. Through(l, ops, n, f)
  <2>1. f[0] = l /\ f = [k \in 0..n |-> f[k]]
    BY <1>3
  <2>2. \A k \in 1..n : f[k] = OneWriter!Effect(f[k - 1], ops[k])
    BY <1>3
  <2> HIDE DEF n
  <2> QED BY <2>1, <2>2 DEF Through
<1>5. f[n] = h[n]
  BY <1>4, StagesUnique DEF Stages
<1> QED BY <1>1, <1>5

\* The changes ops, every one new where it stands, lead from the level l to l2.
Writes(l, ops, l2) ==
  /\ ops \in Seq(OneWriter!LevelOps)
  /\ \E h : /\ Stages(l, ops, h) /\ h[Len(ops)] = l2
            /\ \A k \in 1..Len(ops) : ops[k].type = "place" <=> ops[k].id \notin DOMAIN h[k - 1]

LEMMA WritesNone ==
  ASSUME NEW l
  PROVE  Writes(l, <<>>, l)
<1> DEFINE h == [k \in 0..0 |-> l]
<1>1. <<>> \in Seq(OneWriter!LevelOps) /\ Len(<<>>) = 0
  BY EmptySeq
<1>2. Through(l, <<>>, 0, h) /\ h[0] = l
  BY DEF Through
<1> HIDE DEF h
<1> QED BY <1>1, <1>2 DEF Writes, Stages

LEMMA WritesOne ==
  ASSUME NEW l, NEW op \in OneWriter!LevelOps, op.type = "place" <=> op.id \notin DOMAIN l
  PROVE  Writes(l, <<op>>, OneWriter!Effect(l, op))
<1> DEFINE ops == <<op>>
           e == OneWriter!Effect(l, op)
           h == [k \in 0..1 |-> IF k = 0 THEN l ELSE e]
<1>1. ops \in Seq(OneWriter!LevelOps) /\ Len(ops) = 1 /\ ops[1] = op
  BY OneMessage
<1>2. h[0] = l /\ h[1] = e /\ h = [k \in 0..1 |-> h[k]]
  OBVIOUS
<1>3. \A k \in 1..1 : k = 1 /\ k - 1 = 0
  OBVIOUS
<1> HIDE DEF ops, h
<1>4. Through(l, ops, 1, h)
  BY <1>1, <1>2, <1>3 DEF Through
<1>5. \A k \in 1..1 : ops[k].type = "place" <=> ops[k].id \notin DOMAIN h[k - 1]
  BY <1>1, <1>2, <1>3
<1> QED BY <1>1, <1>2, <1>4, <1>5 DEF Writes, Stages, ops

LEMMA WritesAll ==
  ASSUME NEW a, NEW s, NEW b, NEW t, NEW c, Writes(a, s, b), Writes(b, t, c)
  PROVE  Writes(a, s \o t, c)
<1> DEFINE ops == s \o t
           S == OneWriter!LevelOps
           m == Len(s)
           n == Len(t)
<1>1. s \in Seq(S) /\ t \in Seq(S)
  BY DEF Writes
<1>2. ops \in Seq(S) /\ Len(ops) = m + n /\ m \in Nat /\ n \in Nat
      /\ (\A k \in 1..m : ops[k] = s[k]) /\ (\A k \in 1..n : ops[m + k] = t[k])
  BY <1>1, ConcatProperties, LenProperties
<1>3. PICK h : /\ Stages(a, s, h) /\ h[m] = b
               /\ \A k \in 1..m : s[k].type = "place" <=> s[k].id \notin DOMAIN h[k - 1]
  BY DEF Writes
<1>4. PICK g : /\ Stages(b, t, g) /\ g[n] = c
               /\ \A k \in 1..n : t[k].type = "place" <=> t[k].id \notin DOMAIN g[k - 1]
  BY DEF Writes
<1>5. /\ h[0] = a /\ \A k \in 1..m : h[k] = OneWriter!Effect(h[k - 1], s[k])
      /\ g[0] = b /\ \A k \in 1..n : g[k] = OneWriter!Effect(g[k - 1], t[k])
  BY <1>3, <1>4 DEF Stages, Through
<1> DEFINE f == [k \in 0..(m + n) |-> IF k <= m THEN h[k] ELSE g[k - m]]
<1> HIDE DEF ops, m, n, S
<1>6. f = [k \in 0..(m + n) |-> f[k]] /\ f[0] = a
  BY <1>2, <1>5
<1>7. f[m + n] = c
  <2>1. CASE n = 0
    BY <1>2, <1>3, <1>4, <1>5, <2>1
  <2>2. CASE n # 0
    <3>1. ~(m + n <= m) /\ (m + n) - m = n /\ m + n \in 0..(m + n)
      BY <1>2, <2>2
    <3> QED BY <1>4, <3>1
  <2> QED BY <2>1, <2>2
<1>8. ASSUME NEW k \in 1..(m + n)
      PROVE  /\ f[k] = OneWriter!Effect(f[k - 1], ops[k])
             /\ ops[k].type = "place" <=> ops[k].id \notin DOMAIN f[k - 1]
  <2>1. CASE k <= m
    <3>1. f[k] = h[k] /\ f[k - 1] = h[k - 1] /\ ops[k] = s[k] /\ k \in 1..m
      BY <1>2, <2>1
    <3> HIDE DEF f
    <3> QED BY <1>3, <1>5, <3>1
  <2>2. CASE k > m
    <3> DEFINE j == k - m
    <3>1. j \in 1..n /\ k = m + j /\ k - 1 \in 0..(m + n) /\ k \in 0..(m + n)
      BY <1>2, <2>2
    <3>2. f[k] = g[j] /\ ops[k] = t[j]
      BY <1>2, <2>2, <3>1
    <3>3. f[k - 1] = g[j - 1]
      <4>1. CASE k - 1 > m
        <5>1. ~(k - 1 <= m) /\ (k - 1) - m = j - 1
          BY <1>2, <4>1
        <5> QED BY <3>1, <5>1
      <4>2. CASE k - 1 = m
        BY <1>2, <1>3, <1>5, <3>1, <4>2
      <4> QED BY <1>2, <2>2, <4>1, <4>2
    <3> HIDE DEF f, j
    <3> QED BY <1>4, <1>5, <3>1, <3>2, <3>3
  <2> QED BY <1>2, <2>1, <2>2
<1> HIDE DEF f
<1>9. Through(a, ops, m + n, f)
  BY <1>6, <1>8 DEF Through
<1>10. Len(ops) = m + n /\ ops \in Seq(OneWriter!LevelOps)
  BY <1>2 DEF S
<1>11. Writes(a, ops, c)
  BY <1>7, <1>8, <1>9, <1>10 DEF Writes, Stages
<1> QED BY <1>11 DEF ops

LEMMA WritesTail ==
  ASSUME NEW a, NEW s, NEW c, Writes(a, s, c), s # <<>>
  PROVE  /\ Head(s) \in OneWriter!LevelOps
         /\ Head(s).type = "place" <=> Head(s).id \notin DOMAIN a
         /\ Writes(OneWriter!Effect(a, Head(s)), Tail(s), c)
<1> DEFINE S == OneWriter!LevelOps
           n == Len(s)
           t == Tail(s)
           x == Head(s)
           e == OneWriter!Effect(a, x)
<1>1. /\ s \in Seq(S) /\ n \in Nat /\ n > 0 /\ x = s[1] /\ x \in S
      /\ t \in Seq(S) /\ Len(t) = n - 1 /\ \A k \in 1..(n - 1) : t[k] = s[k + 1]
  BY EmptySeq, LenProperties, HeadTailProperties DEF Writes
<1>2. PICK h : /\ Stages(a, s, h) /\ h[n] = c
               /\ \A k \in 1..n : s[k].type = "place" <=> s[k].id \notin DOMAIN h[k - 1]
  BY DEF Writes
<1>3. h[0] = a /\ \A k \in 1..n : h[k] = OneWriter!Effect(h[k - 1], s[k])
  BY <1>2 DEF Stages, Through
<1> HIDE DEF n, t, x, S
<1>4. h[1] = e /\ (x.type = "place" <=> x.id \notin DOMAIN a)
  <2>1. 1 \in 1..n /\ 1 - 1 = 0
    BY <1>1
  <2>2. h[1] = OneWriter!Effect(h[1 - 1], s[1]) /\ (s[1].type = "place" <=> s[1].id \notin DOMAIN h[1 - 1])
    BY <1>2, <1>3, <2>1
  <2> QED BY <1>1, <1>3, <2>1, <2>2
<1> HIDE DEF e
<1> DEFINE f == [k \in 0..(n - 1) |-> h[k + 1]]
<1>5. f = [k \in 0..(n - 1) |-> f[k]] /\ f[0] = e /\ f[n - 1] = c
  BY <1>1, <1>2, <1>4
<1>6. ASSUME NEW k \in 1..(n - 1)
      PROVE  /\ f[k] = OneWriter!Effect(f[k - 1], t[k])
             /\ t[k].type = "place" <=> t[k].id \notin DOMAIN f[k - 1]
  <2>1. k + 1 \in 1..n /\ (k + 1) - 1 = k /\ (k - 1) + 1 = k /\ k - 1 \in 0..(n - 1) /\ k \in 0..(n - 1)
    BY <1>1
  <2>2. f[k] = h[k + 1] /\ f[k - 1] = h[k] /\ t[k] = s[k + 1]
    BY <1>1, <2>1
  <2>3. /\ h[k + 1] = OneWriter!Effect(h[(k + 1) - 1], s[k + 1])
        /\ s[k + 1].type = "place" <=> s[k + 1].id \notin DOMAIN h[(k + 1) - 1]
    BY <1>2, <1>3, <2>1
  <2> HIDE DEF f
  <2> QED BY <2>1, <2>2, <2>3
<1> HIDE DEF f
<1>7. Through(e, t, n - 1, f)
  BY <1>5, <1>6 DEF Through
<1>8. Writes(e, t, c)
  BY <1>1, <1>5, <1>6, <1>7 DEF Writes, Stages, S
<1> QED BY <1>1, <1>4, <1>8 DEF e, t, x, S

LEMMA WritesEffects ==
  ASSUME NEW l, NEW ops, NEW l2, Writes(l, ops, l2)
  PROVE  /\ l2 = OneWriter!Effects(l, ops)
         /\ \A k \in DOMAIN ops :
              /\ ops[k] \in OneWriter!LevelOps
              /\ ops[k].type = "place" <=>
                   ops[k].id \notin DOMAIN OneWriter!Effects(l, SubSeq(ops, 1, k - 1))
<1> DEFINE S == OneWriter!LevelOps
           n == Len(ops)
<1>1. ops \in Seq(S) /\ n \in Nat /\ DOMAIN ops = 1..n /\ \A k \in 1..n : ops[k] \in S
  BY LenProperties, ElementOfSeq DEF Writes
<1>2. PICK h : /\ Stages(l, ops, h) /\ h[n] = l2
               /\ \A k \in 1..n : ops[k].type = "place" <=> ops[k].id \notin DOMAIN h[k - 1]
  BY DEF Writes
<1>3. OneWriter!Effects(l, ops) = l2
  BY <1>1, <1>2, StagesEnd
<1>4. ASSUME NEW k \in 1..n
      PROVE  OneWriter!Effects(l, SubSeq(ops, 1, k - 1)) = h[k - 1]
  <2> DEFINE s == SubSeq(ops, 1, k - 1)
             g == [j \in 0..(k - 1) |-> h[j]]
  <2>1. Len(s) = k - 1 /\ \A j \in 1..(k - 1) : s[j] = ops[j]
    BY <1>1
  <2>2. h[0] = l /\ \A j \in 1..n : h[j] = OneWriter!Effect(h[j - 1], ops[j])
    BY <1>2 DEF Stages, Through
  <2>3. g = [j \in 0..(k - 1) |-> g[j]] /\ g[0] = l
    BY <2>2
  <2>4. ASSUME NEW j \in 1..(k - 1)
        PROVE  g[j] = OneWriter!Effect(g[j - 1], s[j])
    <3>1. j \in 1..n /\ j \in 0..(k - 1) /\ j - 1 \in 0..(k - 1)
      BY <1>1
    <3>2. g[j] = h[j] /\ g[j - 1] = h[j - 1] /\ s[j] = ops[j]
      BY <2>1, <3>1
    <3> HIDE DEF g, s
    <3> QED BY <2>2, <3>1, <3>2
  <2>5. g[k - 1] = h[k - 1]
    OBVIOUS
  <2> HIDE DEF g, s
  <2>6. Through(l, s, k - 1, g)
    BY <2>3, <2>4 DEF Through
  <2>7. Len(s) \in Nat
    BY <1>1, <2>1
  <2>8. OneWriter!Effects(l, s) = g[k - 1]
    BY <2>1, <2>6, <2>7, StagesEnd DEF Stages
  <2> QED BY <2>5, <2>8 DEF s
<1> HIDE DEF n
<1> QED BY <1>1, <1>2, <1>3, <1>4

\* Placements of different new ids add one object each.
LEMMA PlacesWrite ==
  ASSUME NEW l, NEW n \in Nat, NEW ops, ops = [k \in 1..n |-> ops[k]],
         \A k \in 1..n : ops[k] \in OneWriter!LevelOps /\ ops[k].type = "place",
         \A k \in 1..n : ops[k].id \notin DOMAIN l,
         \A j, k \in 1..n : ops[j].id = ops[k].id => j = k,
         NEW l2, DOMAIN l2 = DOMAIN l \cup {ops[k].id : k \in 1..n}, l2 = [i \in DOMAIN l2 |-> l2[i]],
         l = [i \in DOMAIN l |-> l[i]],
         \A k \in 1..n : l2[ops[k].id] = ops[k].c,
         \A i \in DOMAIN l : l2[i] = l[i]
  PROVE  Writes(l, ops, l2)
<1> DEFINE ids(k) == DOMAIN l \cup {ops[j].id : j \in 1..k}
           lv(k) == [i \in ids(k) |-> l2[i]]
           h == [k \in 0..n |-> lv(k)]
<1>1. ops \in Seq(OneWriter!LevelOps) /\ Len(ops) = n
  BY Messages1ToK
<1>2. lv(0) = l
  <2>1. ids(0) = DOMAIN l
    <3>1. 1..0 = {}
      OBVIOUS
    <3> QED BY <3>1
  <2> QED BY <2>1
<1>3. lv(n) = l2
  OBVIOUS
<1>4. ASSUME NEW k \in 1..n
      PROVE  lv(k) = OneWriter!Effect(lv(k - 1), ops[k]) /\ ops[k].id \notin DOMAIN lv(k - 1)
  <2> DEFINE before == lv(k - 1)
  <2>1. DOMAIN before = ids(k - 1) /\ \A i \in ids(k - 1) : before[i] = l2[i]
    OBVIOUS
  <2>2. ids(k) = ids(k - 1) \cup {ops[k].id}
    <3>1. 1..k = 1..(k - 1) \cup {k}
      OBVIOUS
    <3> QED BY <3>1
  <2>3. ops[k].id \notin ids(k - 1)
    <3>1. \A j \in 1..(k - 1) : j \in 1..n /\ j # k
      OBVIOUS
    <3>2. k \in 1..n /\ ops[k].id \notin DOMAIN l
      OBVIOUS
    <3>3. \A j \in 1..(k - 1) : ops[j].id # ops[k].id
      BY <3>1, <3>2
    <3> QED BY <3>2, <3>3
  <2> HIDE DEF before, ids
  <2>4. OneWriter!Effect(before, ops[k])
          = [i \in DOMAIN before \cup {ops[k].id} |-> IF i = ops[k].id THEN ops[k].c ELSE before[i]]
    <3>1. ops[k].type = "place"
      OBVIOUS
    <3> QED BY <3>1 DEF OneWriter!Effect
  <2>5. OneWriter!Effect(before, ops[k]) = [i \in ids(k) |-> l2[i]]
    BY <2>1, <2>2, <2>3, <2>4
  <2> QED BY <2>1, <2>3, <2>5 DEF before
<1> HIDE DEF lv
<1>5. h[0] = l /\ h[n] = l2 /\ h = [k \in 0..n |-> h[k]]
  BY <1>2, <1>3
<1>6. ASSUME NEW k \in 1..n
      PROVE  /\ h[k] = OneWriter!Effect(h[k - 1], ops[k])
             /\ ops[k].type = "place" <=> ops[k].id \notin DOMAIN h[k - 1]
  <2>1. h[k] = lv(k) /\ h[k - 1] = lv(k - 1)
    OBVIOUS
  <2> HIDE DEF h
  <2> QED BY <1>4, <2>1
<1> HIDE DEF h
<1>7. Through(l, ops, n, h)
  BY <1>5, <1>6 DEF Through
<1> QED BY <1>1, <1>5, <1>6, <1>7 DEF Writes, Stages

-----------------------------------------------------------------------------
(***************************************************************************)
(* The changes among the messages.                                         *)
(***************************************************************************)

\* What the first n messages of q add, one after the other.
Picked(q, n, c) ==
  /\ c = [k \in 0..n |-> c[k]]
  /\ c[0] = <<>>
  /\ \A k \in 1..n : c[k] = IF LevelMsg(q[k]) THEN Append(c[k - 1], q[k]) ELSE c[k - 1]

LEMMA PickedTypes ==
  ASSUME NEW S, NEW q \in Seq(S), NEW n \in 0..Len(q), NEW c, Picked(q, n, c)
  PROVE  \A k \in 0..n : c[k] \in Seq({m \in S : LevelMsg(m)})
<1> DEFINE L == {m \in S : LevelMsg(m)}
           T == {k \in 0..n : c[k] \notin Seq(L)}
<1> SUFFICES ASSUME T # {}
             PROVE  FALSE
  OBVIOUS
<1>0. n \in Nat /\ Len(q) \in Nat
  BY LenProperties
<1>1. PICK m \in T : \A k \in T : m <= k
  <2>1. T \subseteq Nat
    OBVIOUS
  <2> HIDE DEF T
  <2> QED BY <2>1, LeastNumber
<1>2. CASE m = 0
  BY <1>2, EmptySeq DEF Picked
<1>3. CASE m # 0
  <2>1. m \in 1..n /\ m - 1 \in 0..n /\ m - 1 \notin T /\ m \in 1..Len(q)
    BY <1>0, <1>1, <1>3
  <2>2. c[m - 1] \in Seq(L) /\ q[m] \in S
    BY <2>1, ElementOfSeq
  <2>3. LevelMsg(q[m]) => q[m] \in L
    BY <2>2
  <2> HIDE DEF L
  <2>4. LevelMsg(q[m]) => Append(c[m - 1], q[m]) \in Seq(L)
    BY <2>2, <2>3, AppendProperties
  <2>5. c[m] \in Seq(L)
    BY <2>1, <2>2, <2>4 DEF Picked
  <2> QED BY <2>5
<1> QED BY <1>2, <1>3

LEMMA PickedExist ==
  ASSUME NEW q, NEW n \in Nat
  PROVE  \E c : Picked(q, n, c)
<1> DEFINE T == {m \in Nat : ~\E c : Picked(q, m, c)}
<1> SUFFICES ASSUME T # {}
             PROVE  FALSE
  OBVIOUS
<1>1. PICK m \in T : \A k \in T : m <= k
  <2>1. T \subseteq Nat
    OBVIOUS
  <2> HIDE DEF T
  <2> QED BY <2>1, LeastNumber
<1>2. CASE m = 0
  <2> DEFINE c == [k \in 0..0 |-> <<>>]
  <2>1. Picked(q, 0, c)
    BY DEF Picked
  <2> QED BY <1>2, <2>1
<1>3. CASE m # 0
  <2>1. m - 1 \in Nat /\ m - 1 \notin T
    BY <1>1, <1>3
  <2>2. PICK g : Picked(q, m - 1, g)
    BY <2>1
  <2> DEFINE e == IF LevelMsg(q[m]) THEN Append(g[m - 1], q[m]) ELSE g[m - 1]
             c == [k \in 0..m |-> IF k = m THEN e ELSE g[k]]
  <2>3. g[0] = <<>>
        /\ \A k \in 1..(m - 1) : g[k] = IF LevelMsg(q[k]) THEN Append(g[k - 1], q[k]) ELSE g[k - 1]
    BY <2>2 DEF Picked
  <2>4. c = [k \in 0..m |-> c[k]] /\ c[0] = <<>>
    BY <1>3, <2>3
  <2>5. ASSUME NEW k \in 1..m
        PROVE  c[k] = IF LevelMsg(q[k]) THEN Append(c[k - 1], q[k]) ELSE c[k - 1]
    <3>1. c[k - 1] = g[k - 1]
      <4>1. k - 1 \in 0..m /\ k - 1 # m
        OBVIOUS
      <4> QED BY <4>1
    <3>2. CASE k = m
      <4>1. c[k] = e
        BY <3>2
      <4> QED BY <3>1, <3>2, <4>1
    <3>3. CASE k # m
      <4>1. c[k] = g[k] /\ k \in 1..(m - 1)
        BY <3>3
      <4> HIDE DEF c
      <4> QED BY <2>3, <3>1, <4>1
    <3> QED BY <3>2, <3>3
  <2> HIDE DEF c
  <2>6. Picked(q, m, c)
    BY <2>4, <2>5 DEF Picked
  <2> QED BY <2>6
<1> QED BY <1>2, <1>3

LEMMA PickedUnique ==
  ASSUME NEW q, NEW n \in Nat, NEW c, NEW d, Picked(q, n, c), Picked(q, n, d)
  PROVE  c[n] = d[n]
<1> DEFINE T == {k \in 0..n : c[k] # d[k]}
<1> SUFFICES ASSUME T # {}
             PROVE  FALSE
  OBVIOUS
<1>1. PICK m \in T : \A k \in T : m <= k
  <2>1. T \subseteq Nat
    OBVIOUS
  <2> HIDE DEF T
  <2> QED BY <2>1, LeastNumber
<1>2. CASE m = 0
  BY <1>2 DEF Picked
<1>3. CASE m # 0
  <2>1. m \in 1..n /\ m - 1 \in 0..n /\ m - 1 \notin T
    BY <1>1, <1>3
  <2>2. c[m - 1] = d[m - 1]
    BY <2>1
  <2>3. /\ c[m] = IF LevelMsg(q[m]) THEN Append(c[m - 1], q[m]) ELSE c[m - 1]
        /\ d[m] = IF LevelMsg(q[m]) THEN Append(d[m - 1], q[m]) ELSE d[m - 1]
    BY <2>1 DEF Picked
  <2> QED BY <2>2, <2>3
<1> QED BY <1>2, <1>3

LEMMA PickedEnd ==
  ASSUME NEW q, Len(q) \in Nat
  PROVE  \E c : Picked(q, Len(q), c) /\ Changes(q) = c[Len(q)]
<1> DEFINE n == Len(q)
           f == CHOOSE g : g = [k \in 0..n |->
                  IF k = 0 THEN <<>>
                  ELSE IF LevelMsg(q[k]) THEN Append(g[k - 1], q[k])
                  ELSE g[k - 1]]
<1>1. Changes(q) = f[n]
  BY DEF Changes
<1>2. PICK c : Picked(q, n, c)
  BY PickedExist
<1>3. c = [k \in 0..n |->
             IF k = 0 THEN <<>>
             ELSE IF LevelMsg(q[k]) THEN Append(c[k - 1], q[k])
             ELSE c[k - 1]]
  BY <1>2 DEF Picked
<1>4. f = [k \in 0..n |->
             IF k = 0 THEN <<>>
             ELSE IF LevelMsg(q[k]) THEN Append(f[k - 1], q[k])
             ELSE f[k - 1]]
  BY <1>3
<1> HIDE DEF f
<1>5. f = [k \in 0..n |-> f[k]] /\ f[0] = <<>>
  BY <1>4
<1>6. ASSUME NEW k \in 1..n
      PROVE  f[k] = IF LevelMsg(q[k]) THEN Append(f[k - 1], q[k]) ELSE f[k - 1]
  <2>1. k \in 0..n /\ k # 0
    OBVIOUS
  <2> QED BY <1>4, <2>1
<1> HIDE DEF n
<1>7. Picked(q, n, f)
  BY <1>5, <1>6 DEF Picked
<1> QED BY <1>1, <1>7 DEF n

LEMMA ChangesTypes ==
  ASSUME NEW S, NEW q \in Seq(S)
  PROVE  Changes(q) \in Seq({m \in S : LevelMsg(m)})
<1>1. Len(q) \in Nat
  BY LenProperties
<1>2. PICK c : Picked(q, Len(q), c) /\ Changes(q) = c[Len(q)]
  BY <1>1, PickedEnd
<1> QED BY <1>1, <1>2, PickedTypes

LEMMA ChangesOfNone == Changes(<<>>) = <<>>
<1>1. PICK c : Picked(<<>>, 0, c) /\ Changes(<<>>) = c[0]
  <2>1. Len(<<>>) = 0
    OBVIOUS
  <2> QED BY <2>1, PickedEnd
<1> QED BY <1>1 DEF Picked

LEMMA ChangesOfOne ==
  ASSUME NEW m
  PROVE  Changes(<<m>>) = IF LevelMsg(m) THEN <<m>> ELSE <<>>
<1> DEFINE q == <<m>>
<1>0. Len(q) = 1 /\ q[1] = m
  OBVIOUS
<1> HIDE DEF q
<1>1. PICK c : Picked(q, 1, c) /\ Changes(q) = c[1]
  <2>1. Len(q) \in Nat
    BY <1>0
  <2>2. \E c : Picked(q, Len(q), c) /\ Changes(q) = c[Len(q)]
    BY <2>1, PickedEnd
  <2> QED BY <1>0, <2>2
<1>2. c[0] = <<>> /\ c[1] = IF LevelMsg(m) THEN Append(c[0], m) ELSE c[0]
  <2>1. 1 \in 1..1 /\ 1 - 1 = 0
    OBVIOUS
  <2> QED BY <1>0, <1>1, <2>1 DEF Picked
<1>3. Append(<<>>, m) = <<m>>
  OBVIOUS
<1> QED BY <1>1, <1>2, <1>3 DEF q

\* Appending to a concatenation appends to its second part.
AppendsPast(u, v, x) == Append(u \o v, x) = u \o Append(v, x)

LEMMA AppendToBoth ==
  ASSUME NEW S, NEW u \in Seq(S), NEW v \in Seq(S), NEW x \in S
  PROVE  AppendsPast(u, v, x)
<1>1. <<x>> \in Seq(S)
  BY OneMessage
<1>2. (u \o v) \o <<x>> = u \o (v \o <<x>>)
  BY <1>1, ConcatAssociative
<1>3. u \o v \in Seq(S)
  BY ConcatProperties
<1>4. Append(v, x) = v \o <<x>> /\ Append(u \o v, x) = (u \o v) \o <<x>>
  BY <1>3, AppendIsConcat
<1> QED BY <1>2, <1>4 DEF AppendsPast

LEMMA ChangesOfBoth ==
  ASSUME NEW S, NEW s \in Seq(S), NEW t \in Seq(S)
  PROVE  Changes(s \o t) = Changes(s) \o Changes(t)
<1> DEFINE q == s \o t
           m == Len(s)
           n == Len(t)
<1>1. /\ Len(q) = m + n /\ m \in Nat /\ n \in Nat
      /\ (\A k \in 1..m : q[k] = s[k]) /\ (\A k \in 1..n : q[m + k] = t[k] /\ t[k] \in S)
  BY ConcatProperties, LenProperties, ElementOfSeq
<1>2. PICK c : Picked(s, m, c) /\ Changes(s) = c[m]
  BY <1>1, PickedEnd
<1>3. PICK d : Picked(t, n, d) /\ Changes(t) = d[n]
  BY <1>1, PickedEnd
<1>4. c[m] \in Seq(S) /\ \A k \in 0..n : d[k] \in Seq(S)
  <2>1. \A u : u \in Seq({x \in S : LevelMsg(x)}) => u \in Seq(S)
    OBVIOUS
  <2>2. m \in 0..Len(s) /\ n \in 0..Len(t)
    BY <1>1
  <2> HIDE DEF m, n
  <2>3. \A k \in 0..m : c[k] \in Seq({x \in S : LevelMsg(x)})
    BY <1>2, <2>2, PickedTypes
  <2>4. \A k \in 0..n : d[k] \in Seq({x \in S : LevelMsg(x)})
    BY <1>3, <2>2, PickedTypes
  <2>5. m \in 0..m
    BY <1>1
  <2> QED BY <2>1, <2>3, <2>4, <2>5
<1>5. /\ c[0] = <<>>
      /\ \A k \in 1..m : c[k] = IF LevelMsg(s[k]) THEN Append(c[k - 1], s[k]) ELSE c[k - 1]
      /\ d[0] = <<>>
      /\ \A k \in 1..n : d[k] = IF LevelMsg(t[k]) THEN Append(d[k - 1], t[k]) ELSE d[k - 1]
  BY <1>2, <1>3 DEF Picked
<1> HIDE DEF q, m, n
<1> DEFINE f == [k \in 0..(m + n) |-> IF k <= m THEN c[k] ELSE c[m] \o d[k - m]]
<1>6. f = [k \in 0..(m + n) |-> f[k]] /\ f[0] = <<>>
  BY <1>1, <1>5
<1>7. ASSUME NEW j \in 0..n
      PROVE  f[m + j] = c[m] \o d[j]
  <2>1. c[m] \o <<>> = c[m]
    <3> DEFINE u == c[m]
    <3>1. u \in Seq(S)
      BY <1>4
    <3> HIDE DEF u
    <3>2. u \o <<>> = u
      BY <3>1
    <3> QED BY <3>2 DEF u
  <2>2. m + j \in 0..(m + n) /\ (m + j) - m = j /\ (m + j <= m <=> j = 0)
    BY <1>1
  <2>3. CASE j = 0
    <3>1. f[m + j] = c[m] /\ d[j] = <<>>
      BY <1>1, <1>5, <2>2, <2>3
    <3> QED BY <2>1, <3>1
  <2>4. CASE j # 0
    BY <2>2, <2>4
  <2> QED BY <2>3, <2>4
<1>8. ASSUME NEW k \in 1..(m + n)
      PROVE  f[k] = IF LevelMsg(q[k]) THEN Append(f[k - 1], q[k]) ELSE f[k - 1]
  <2>1. CASE k <= m
    <3>1. f[k] = c[k] /\ f[k - 1] = c[k - 1] /\ q[k] = s[k] /\ k \in 1..m
      BY <1>1, <2>1
    <3> HIDE DEF f
    <3> QED BY <1>5, <3>1
  <2>2. CASE k > m
    <3> DEFINE j == k - m
    <3>1. j \in 1..n /\ j \in 0..n /\ j - 1 \in 0..n /\ k = m + j /\ k - 1 = m + (j - 1)
      BY <1>1, <2>2
    <3> HIDE DEF f, j
    <3>2. f[k] = c[m] \o d[j] /\ f[k - 1] = c[m] \o d[j - 1] /\ q[k] = t[j] /\ t[j] \in S
      BY <1>1, <1>7, <3>1
    <3>3. d[j] = IF LevelMsg(t[j]) THEN Append(d[j - 1], t[j]) ELSE d[j - 1]
      BY <1>5, <3>1
    <3>4. AppendsPast(c[m], d[j - 1], t[j])
      BY <1>4, <3>1, <3>2, AppendToBoth
    <3> QED BY <3>2, <3>3, <3>4 DEF AppendsPast
  <2> QED BY <1>1, <2>1, <2>2
<1> HIDE DEF f
<1>9. f[m + n] = c[m] \o d[n]
  <2>1. n \in 0..n
    BY <1>1
  <2> QED BY <1>7, <2>1
<1>10. Picked(q, Len(q), f) /\ Len(q) \in Nat
  <2>1. Picked(q, m + n, f)
    BY <1>6, <1>8 DEF Picked
  <2> QED BY <1>1, <2>1
<1>11. Changes(q) = f[Len(q)]
  BY <1>10, PickedEnd, PickedUnique
<1> QED BY <1>1, <1>2, <1>3, <1>9, <1>11 DEF q

LEMMA ChangesOfHead ==
  ASSUME NEW S, NEW q \in Seq(S), q # <<>>
  PROVE  Changes(q) = IF LevelMsg(Head(q)) THEN <<Head(q)>> \o Changes(Tail(q)) ELSE Changes(Tail(q))
<1>1. Head(q) \in S /\ Tail(q) \in Seq(S) /\ <<Head(q)>> \in Seq(S) /\ q = <<Head(q)>> \o Tail(q)
  BY HeadTailProperties, OneMessage, EmptySeq
<1>2. Changes(q) = Changes(<<Head(q)>>) \o Changes(Tail(q))
  BY <1>1, ChangesOfBoth
<1>3. Changes(Tail(q)) \in Seq({m \in S : LevelMsg(m)})
  BY <1>1, ChangesTypes
<1>4. <<>> \o Changes(Tail(q)) = Changes(Tail(q))
  BY <1>3
<1> QED BY <1>2, <1>4, ChangesOfOne

LEMMA ChangesOfChanges ==
  ASSUME NEW S, NEW q \in Seq(S), \A k \in 1..Len(q) : LevelMsg(q[k])
  PROVE  Changes(q) = q
<1> DEFINE n == Len(q)
           f == [k \in 0..n |-> [j \in 1..k |-> q[j]]]
<1>1. n \in Nat /\ q = [j \in 1..n |-> q[j]] /\ \A k \in 1..n : q[k] \in S
  BY LenProperties, ElementOfSeq
<1> HIDE DEF n
<1>2. f = [k \in 0..n |-> f[k]] /\ f[0] = <<>> /\ f[n] = q
  BY <1>1
<1>3. ASSUME NEW k \in 1..n
      PROVE  f[k] = Append(f[k - 1], q[k])
  <2>1. f[k] = [j \in 1..k |-> q[j]] /\ f[k - 1] = [j \in 1..(k - 1) |-> q[j]]
    BY <1>1
  <2> HIDE DEF f
  <2>2. f[k - 1] \in Seq(S) /\ Len(f[k - 1]) = k - 1
    <3> DEFINE u == [j \in 1..(k - 1) |-> q[j]]
    <3>1. k - 1 \in Nat /\ u = [j \in 1..(k - 1) |-> u[j]] /\ \A j \in 1..(k - 1) : u[j] \in S
      BY <1>1
    <3>2. DOMAIN u = 1..(k - 1)
      OBVIOUS
    <3> HIDE DEF u
    <3>3. u \in Seq(S)
      BY <3>1, Messages1ToK
    <3> QED BY <2>1, <3>1, <3>2, <3>3 DEF u
  <2>3. Append(f[k - 1], q[k]) = [j \in 1..k |-> IF j = k THEN q[k] ELSE f[k - 1][j]]
    BY <1>1, <2>2
  <2> QED BY <2>1, <2>3
<1> HIDE DEF f
<1>4. Picked(q, n, f)
  <2>1. \A k \in 1..n : LevelMsg(q[k])
    BY DEF n
  <2> QED BY <1>2, <1>3, <2>1 DEF Picked
<1>5. Changes(q) = f[n]
  BY <1>1, <1>4, PickedEnd, PickedUnique DEF n
<1> QED BY <1>2, <1>5

-----------------------------------------------------------------------------
(***************************************************************************)
(* A level and the registry that names its objects.                        *)
(***************************************************************************)
SharedOf(r, level) == [i \in DOMAIN r.byId |-> level[r.byId[i]]]

\* No two objects look the same.
Distinct(level) == \A o, p \in DOMAIN level : level[o] = level[p] => o = p

\* The recorded fingerprints are those of the objects.
Exact(r, level) == \A i \in DOMAIN r.fps : i \in DOMAIN r.byId /\ r.fps[i] = Fp(level[r.byId[i]])

\* A client's registry beside its level.
Paired(r, level) ==
  /\ RegistryOK(r) /\ Names(r, DOMAIN level)
  /\ IsMap(level, Ptrs, Contents)
  /\ Distinct(level) /\ Exact(r, level)

LEMMA SharedIs ==
  ASSUME NEW n \in Nodes, Alive(n)
  PROVE  Shared(n) = SharedOf(reg[n], obj[n])
<1>1. {i \in DOMAIN reg[n].byId : reg[n].byId[i] \in Live(n)} = DOMAIN reg[n].byId
  BY DEF Alive, Names
<1> QED BY <1>1 DEF Shared, SharedOf

LEMMA FpInjective ==
  ASSUME NEW c, NEW d, Fp(c) = Fp(d)
  PROVE  c = d
<1>1. Fp(c).at = c /\ Fp(d).at = d
  BY DEF Fp
<1> QED BY <1>1

\* A look that no registered object has is not taken for one.
LEMMA UnknownLook ==
  ASSUME NEW r, NEW level, Paired(r, level), NEW c \in Contents,
         \A i \in DOMAIN r.byId : level[r.byId[i]] # c
  PROVE  findLikelyNetworkId(r, Fp(c)) = INVALID_OBJECT_ID
<1>1. \A i \in DOMAIN r.fps : r.fps[i] # Fp(c)
  BY FpInjective DEF Paired, Exact
<1> QED BY <1>1, UnlikeAll DEF Paired

LEMMA NamedObjects ==
  ASSUME NEW r, NEW level, Paired(r, level)
  PROVE  /\ \A i \in DOMAIN r.byId : r.byId[i] \in DOMAIN level /\ r.byPtr[r.byId[i]] = i
                                     /\ hasObject(r, r.byId[i])
         /\ \A o : hasObject(r, o) => /\ o \in DOMAIN level /\ r.byPtr[o] \in DOMAIN r.byId
                                      /\ r.byId[r.byPtr[o]] = o /\ r.byPtr[o] \in NetIds
                                      /\ r.byPtr[o] # INVALID_OBJECT_ID
  BY DEF Paired, RegistryOK, IsRegistry, IsMap, IsInverse, Names, hasObject, hasNetworkId, NetIds

\* Looking up a live object finds the id it has, and changes no name.
LEMMA LookUp ==
  ASSUME NEW r, NEW level, Paired(r, level), NEW o \in DOMAIN level
  PROVE  LET q == recovered(r, o, Fp(level[o]))
         IN /\ recoveredId(r, o, Fp(level[o])) = findNetworkId(r, o)
            /\ q.byId = r.byId /\ q.byPtr = r.byPtr /\ Paired(q, level)
<1> DEFINE fp == Fp(level[o])
           q == recovered(r, o, fp)
<1>1. o \in Ptrs /\ level[o] \in Contents /\ fp \in Prints
  BY SyncAssumption DEF Paired, IsMap
<1>2. RegistryOK(r) /\ Exact(r, level)
  BY DEF Paired
<1>3. CASE ~hasObject(r, o)
  <2>1. \A i \in DOMAIN r.byId : level[r.byId[i]] # level[o]
    BY <1>3, NamedObjects DEF Paired, Distinct
  <2>2. recoveredId(r, o, fp) = INVALID_OBJECT_ID
    BY <1>1, <1>3, <2>1, UnknownLook DEF recoveredId
  <2>3. q = r
    BY <2>2 DEF recovered
  <2> QED BY <1>3, <2>2, <2>3 DEF findNetworkId
<1>4. CASE hasObject(r, o)
  <2> DEFINE id == r.byPtr[o]
  <2>1. id \in DOMAIN r.byId /\ r.byId[id] = o /\ id # INVALID_OBJECT_ID
    BY <1>4, NamedObjects
  <2>2. recoveredId(r, o, fp) = id
    BY <1>4 DEF recoveredId
  <2>3. q = [r EXCEPT !.fps = With(@, id, fp)]
    BY <1>4, <2>1, <2>2 DEF recovered, updateFingerprint, hasNetworkId
  <2>4. q.byId = r.byId /\ q.byPtr = r.byPtr /\ q.fps = With(r.fps, id, fp)
    BY <1>2, <2>3 DEF RegistryOK, IsRegistry
  <2>5. RegistryOK(q)
    BY <1>1, <1>2, RecoveredOK
  <2>6. Exact(q, level)
    BY <1>2, <2>1, <2>4 DEF Exact, With
  <2>7. Paired(q, level)
    BY <2>4, <2>5, <2>6 DEF Paired, Names
  <2> QED BY <1>4, <2>2, <2>4, <2>7 DEF findNetworkId
<1> QED BY <1>3, <1>4

\* A new object under a new id.
LEMMA PlacedPair ==
  ASSUME NEW r, NEW level, Paired(r, level), NEW id, id \notin DOMAIN r.byId,
         NEW o \in Ptrs, o \notin DOMAIN level, NEW c \in Contents,
         NEW q, q.byId = With(r.byId, id, o),
         q.fps = With(r.fps, id, Fp(c)) \/ q.fps = r.fps
  PROVE  /\ Exact(q, With(level, o, c))
         /\ SharedOf(q, With(level, o, c)) = With(SharedOf(r, level), id, c)
<1> DEFINE l2 == With(level, o, c)
<1>1. l2[o] = c /\ \A p \in DOMAIN level : l2[p] = level[p]
  BY DEF With
<1>2. DOMAIN q.byId = DOMAIN r.byId \cup {id} /\ q.byId[id] = o
      /\ \A i \in DOMAIN r.byId : q.byId[i] = r.byId[i]
  BY DEF With
<1>3. \A i \in DOMAIN r.byId : r.byId[i] \in DOMAIN level
  BY NamedObjects
<1> HIDE DEF l2
<1>4. Exact(q, l2)
  <2>1. \A i \in DOMAIN r.fps : i \in DOMAIN r.byId /\ i # id /\ r.fps[i] = Fp(level[r.byId[i]])
    BY DEF Paired, Exact
  <2>2. \A i \in DOMAIN q.fps : (i = id /\ q.fps[i] = Fp(c)) \/ (i \in DOMAIN r.fps /\ q.fps[i] = r.fps[i])
    BY DEF With
  <2> QED BY <1>1, <1>2, <1>3, <2>1, <2>2 DEF Exact
<1>5. SharedOf(q, l2) = With(SharedOf(r, level), id, c)
  BY <1>1, <1>2, <1>3 DEF SharedOf, With
<1> QED BY <1>4, <1>5 DEF l2

\* An object that looks different, at its address or at another one.
LEMMA EditedPair ==
  ASSUME NEW r, NEW level, Paired(r, level), NEW id \in DOMAIN r.byId, NEW o, o = r.byId[id],
         NEW o2, o2 = o \/ o2 \notin DOMAIN level, NEW c \in Contents,
         NEW q, q.byId = With(r.byId, id, o2), q.fps = With(r.fps, id, Fp(c))
  PROVE  /\ Exact(q, With(Without(level, {o}), o2, c))
         /\ SharedOf(q, With(Without(level, {o}), o2, c))
              = [i \in DOMAIN r.byId |-> IF i = id THEN c ELSE SharedOf(r, level)[i]]
<1> DEFINE l2 == With(Without(level, {o}), o2, c)
<1>1. l2[o2] = c /\ \A p \in DOMAIN level : p # o => l2[p] = IF p = o2 THEN c ELSE level[p]
  BY DEF With, Without
<1>2. DOMAIN q.byId = DOMAIN r.byId /\ q.byId[id] = o2
      /\ \A i \in DOMAIN r.byId : i # id => q.byId[i] = r.byId[i]
  BY DEF With
<1>3. \A i \in DOMAIN r.byId : r.byId[i] \in DOMAIN level /\ (i # id => r.byId[i] # o)
  BY NamedObjects
<1>4. \A i \in DOMAIN r.byId : i # id => l2[r.byId[i]] = level[r.byId[i]]
  BY <1>1, <1>3
<1> HIDE DEF l2
<1>5. Exact(q, l2)
  <2>1. \A i \in DOMAIN r.fps : i \in DOMAIN r.byId /\ r.fps[i] = Fp(level[r.byId[i]])
    BY DEF Paired, Exact
  <2>2. \A i \in DOMAIN q.fps : (i = id /\ q.fps[i] = Fp(c)) \/ (i # id /\ i \in DOMAIN r.fps /\ q.fps[i] = r.fps[i])
    BY DEF With
  <2> QED BY <1>1, <1>2, <1>4, <2>1, <2>2 DEF Exact
<1>6. SharedOf(q, l2) = [i \in DOMAIN r.byId |-> IF i = id THEN c ELSE SharedOf(r, level)[i]]
  BY <1>1, <1>2, <1>4 DEF SharedOf
<1> QED BY <1>5, <1>6 DEF l2

\* An object and its id that are removed.
LEMMA DeletedPair ==
  ASSUME NEW r, NEW level, Paired(r, level), NEW id \in DOMAIN r.byId, NEW l2,
         l2 = Without(level, {r.byId[id]}), NEW q, q = removeByNetworkId(r, id)
  PROVE  /\ Exact(q, l2)
         /\ q.byId = Without(r.byId, {id}) /\ q.byPtr = Without(r.byPtr, {r.byId[id]})
         /\ SharedOf(q, l2) = Without(SharedOf(r, level), {id})
<1> DEFINE o == r.byId[id]
<1>1. \A p \in DOMAIN level : p # o => l2[p] = level[p]
  BY DEF Without
<1>2. q.byId = Without(r.byId, {id}) /\ q.byPtr = Without(r.byPtr, {o}) /\ q.fps = Without(r.fps, {id})
  BY DEF removeByNetworkId, hasNetworkId, Paired, RegistryOK, IsRegistry
<1>3. \A i \in DOMAIN r.byId : r.byId[i] \in DOMAIN level /\ (i # id => r.byId[i] # o)
  BY NamedObjects
<1>4. DOMAIN q.byId = DOMAIN r.byId \ {id} /\ \A i \in DOMAIN q.byId : q.byId[i] = r.byId[i]
  BY <1>2 DEF Without
<1>5. DOMAIN q.fps = DOMAIN r.fps \ {id} /\ \A i \in DOMAIN q.fps : q.fps[i] = r.fps[i]
  BY <1>2 DEF Without
<1>6. Exact(q, l2)
  BY <1>1, <1>3, <1>4, <1>5 DEF Paired, Exact
<1>7. SharedOf(q, l2) = Without(SharedOf(r, level), {id})
  BY <1>1, <1>3, <1>4 DEF SharedOf, Without
<1> QED BY <1>2, <1>6, <1>7

\* New objects, each under a new id of its own.
ScannedTo(q, r, level, D, f) ==
  /\ Exact(q, level)
  /\ DOMAIN SharedOf(q, level) = DOMAIN r.byId \cup {f[o] : o \in D}
  /\ \A i \in DOMAIN r.byId : SharedOf(q, level)[i] = SharedOf(r, level)[i]
  /\ \A o \in D : SharedOf(q, level)[f[o]] = level[o]

LEMMA ScannedPair ==
  ASSUME NEW r, NEW level, Paired(r, level), NEW D \in SUBSET DOMAIN level, NEW f, Bindable(r, D, f),
         \A o \in D : f[o] \notin DOMAIN r.byId,
         NEW q, q.byId = bindAll(r, f).byId, q.fps = r.fps
  PROVE  ScannedTo(q, r, level, D, f)
<1> DEFINE ids == {f[o] : o \in D}
<1>1. DOMAIN f = D /\ \A o, p \in D : f[o] = f[p] => o = p
  BY DEF Bindable
<1>2. q.byId = [i \in DOMAIN r.byId \cup ids |->
                  IF i \in ids THEN CHOOSE o \in DOMAIN f : f[o] = i ELSE r.byId[i]]
  BY <1>1 DEF bindAll, Paired, RegistryOK, IsRegistry
<1>3. DOMAIN q.byId = DOMAIN r.byId \cup ids /\ (\A i \in DOMAIN r.byId : q.byId[i] = r.byId[i])
      /\ \A o \in D : q.byId[f[o]] = o
  <2>1. \A o \in D : (CHOOSE p \in DOMAIN f : f[p] = f[o]) = o
    BY <1>1
  <2> QED BY <1>1, <1>2, <2>1
<1>4. Exact(q, level)
  BY <1>3 DEF Paired, Exact
<1> HIDE DEF ids
<1> QED BY <1>3, <1>4 DEF SharedOf, ScannedTo, ids

-----------------------------------------------------------------------------
(***************************************************************************)
(* What the writer does to its level, and what it sends of it.             *)
(***************************************************************************)
\* No two objects look alike, and the users neither drag, resynchronise,
\* change the role nor leave.
OneWriterEdits ==
  /\ ~Twins
  /\ \A level \in Levels : Distinct(level)
  /\ \A n \in Nodes : Ops[n] \cap {"move", "resync", "role", "disconnect"} = {}

\* The writer w may act: what its actions rely on.
Ready(w) ==
  /\ AliveInv /\ w \in Nodes
  /\ \A n \in Nodes : conn[n] = conn[w] /\ link[n] = conn[w]
  /\ Distinct(obj[w]) /\ Exact(reg[w], obj[w])

WriterEdits(w) ==
  /\ UNCHANGED <<conn, link>>
  /\ \A n \in Nodes : n # w => obj'[n] = obj[n] /\ reg'[n] = reg[n] /\ base'[n] = base[n]
  /\ Distinct(obj'[w]) /\ Exact(reg'[w], obj'[w])
  /\ \E msgs : /\ OfTypes(msgs, HookTypes) /\ Post(w, msgs)
               /\ Writes(SharedOf(reg[w], obj[w]), Changes(msgs), SharedOf(reg'[w], obj'[w]))
               /\ conn[w] \/ Changes(msgs) = <<>>

LEMMA ReadyFacts ==
  ASSUME NEW w, Ready(w)
  PROVE  /\ SyncInv /\ CalmInv /\ EditorsOK /\ RegsOK /\ w \in Nodes
         /\ RegistryOK(reg[w]) /\ Names(reg[w], Live(w)) /\ Paired(reg[w], obj[w])
         /\ Live(w) \subseteq Ptrs /\ Heap[w] \subseteq Ptrs
         /\ DOMAIN reg[w].byId \subseteq HandedOut /\ HandedOut \subseteq ProperIds
         /\ ~conn[w] => DOMAIN reg[w].byId = {}
         /\ \A o : hasObject(reg[w], o) => conn[w]
<1>1. SyncInv /\ CalmInv /\ w \in Nodes /\ Alive(w) /\ Distinct(obj[w]) /\ Exact(reg[w], obj[w])
  BY DEF Ready, AliveInv, RolesInv
<1>2. /\ EditorsOK /\ RegsOK /\ RegistryOK(reg[w]) /\ Live(w) \subseteq Ptrs /\ Heap[w] \subseteq Ptrs
      /\ IsMap(obj[w], Heap[w], Contents) /\ DOMAIN reg[w].byId \subseteq HandedOut
      /\ HandedOut \subseteq ProperIds
  BY <1>1, InvFacts
<1>3. Names(reg[w], Live(w)) /\ (~conn[w] => DOMAIN reg[w].byId = {})
  BY <1>1 DEF Alive
<1>4. Paired(reg[w], obj[w])
  BY <1>1, <1>2, <1>3 DEF Paired, IsMap, Live
<1>5. \A o : hasObject(reg[w], o) => conn[w]
  BY <1>3, <1>4, NamedObjects
<1> QED BY <1>1, <1>2, <1>3, <1>4, <1>5

\* The ids of the program are those of the abstract level.
LEMMA LevelIds == ProperIds \subseteq 1..(2 * IdBase)
  BY SyncAssumption DEF ProperIds

LEMMA LevelOperations ==
  ASSUME NEW id \in ProperIds
  PROVE  /\ \A c \in Contents : /\ [type |-> "place", id |-> id, c |-> c] \in OneWriter!LevelOps
                                /\ [type |-> "commit", id |-> id, c |-> c] \in OneWriter!LevelOps
         /\ [type |-> "delete", id |-> id] \in OneWriter!LevelOps
<1>1. id \in 1..(2 * IdBase)
  BY LevelIds
<1> HIDE DEF ProperIds
<1> QED BY <1>1 DEF OneWriter!LevelOps

\* A step of the writer's that sends one change of its level, or nothing of it.
LEMMA SendsChange ==
  ASSUME NEW w, Ready(w), UNCHANGED <<conn, link>>, conn[w],
         NEW q, NEW level, reg' = [reg EXCEPT ![w] = q], obj' = [obj EXCEPT ![w] = level],
         \A n \in Nodes : n # w => base'[n] = base[n],
         Distinct(level), Exact(q, level),
         NEW op \in OneWriter!LevelOps,
         NEW msgs, OfTypes(msgs, HookTypes), Post(w, msgs), Changes(msgs) = <<op>>,
         op.type = "place" <=> op.id \notin DOMAIN reg[w].byId,
         SharedOf(q, level) = OneWriter!Effect(SharedOf(reg[w], obj[w]), op)
  PROVE  WriterEdits(w)
<1> DEFINE l == SharedOf(reg[w], obj[w])
<1>1. DOMAIN l = DOMAIN reg[w].byId
  BY DEF SharedOf
<1> HIDE DEF l
<1>2. Writes(l, <<op>>, OneWriter!Effect(l, op))
  BY <1>1, WritesOne
<1>3. Writes(SharedOf(reg[w], obj[w]), Changes(msgs), SharedOf(q, level))
  BY <1>2 DEF l
<1>4. reg'[w] = q /\ obj'[w] = level /\ \A n \in Nodes : n # w => reg'[n] = reg[n] /\ obj'[n] = obj[n]
  BY ReadyFacts DEF EditorsOK, RegsOK
<1> QED BY <1>3, <1>4 DEF WriterEdits

LEMMA SendsOne ==
  ASSUME NEW w, Ready(w), UNCHANGED <<conn, link>>, conn[w],
         NEW q, NEW level, reg' = [reg EXCEPT ![w] = q], obj' = [obj EXCEPT ![w] = level],
         \A n \in Nodes : n # w => base'[n] = base[n],
         Distinct(level), Exact(q, level),
         NEW op \in OneWriter!LevelOps, Post(w, <<op>>),
         op.type = "place" <=> op.id \notin DOMAIN reg[w].byId,
         SharedOf(q, level) = OneWriter!Effect(SharedOf(reg[w], obj[w]), op)
  PROVE  WriterEdits(w)
<1>1. op.type \in {"place", "commit", "delete"}
  BY DEF OneWriter!LevelOps
<1>2. OfTypes(<<op>>, HookTypes)
  BY <1>1, MessageOfTypes DEF HookTypes
<1>3. Changes(<<op>>) = <<op>>
  BY <1>1, ChangesOfOne DEF LevelMsg
<1> DEFINE msgs == <<op>>
<1> HIDE DEF msgs
<1>4. OfTypes(msgs, HookTypes) /\ Post(w, msgs) /\ Changes(msgs) = <<op>>
  BY <1>2, <1>3 DEF msgs
<1> QED BY <1>4, SendsChange

LEMMA SendsNone ==
  ASSUME NEW w, Ready(w), UNCHANGED <<conn, link>>,
         NEW q, NEW level, reg' = [reg EXCEPT ![w] = q], obj' = [obj EXCEPT ![w] = level],
         \A n \in Nodes : n # w => base'[n] = base[n],
         Distinct(level), Exact(q, level),
         NEW msgs, OfTypes(msgs, HookTypes), Post(w, msgs), Changes(msgs) = <<>>,
         SharedOf(q, level) = SharedOf(reg[w], obj[w])
  PROVE  WriterEdits(w)
<1>1. Writes(SharedOf(reg[w], obj[w]), Changes(msgs), SharedOf(q, level))
  BY WritesNone
<1>2. reg'[w] = q /\ obj'[w] = level /\ \A n \in Nodes : n # w => reg'[n] = reg[n] /\ obj'[n] = obj[n]
  BY ReadyFacts DEF EditorsOK, RegsOK
<1> QED BY <1>1, <1>2 DEF WriterEdits

LEMMA SaysNothing ==
  ASSUME SyncInv, NEW n \in Nodes, chan' = chan
  PROVE  Post(n, <<>>) /\ OfTypes(<<>>, HookTypes) /\ Changes(<<>>) = <<>>
<1>1. chan[Other(n)] \o <<>> = chan[Other(n)]
  <2> DEFINE q == chan[Other(n)]
  <2>1. q \in Seq(Inboxes[Other(n)])
    BY Queues, NodesFacts
  <2> HIDE DEF q
  <2>2. q \o <<>> = q
    BY <2>1
  <2> QED BY <2>2 DEF q
<1>2. [chan EXCEPT ![Other(n)] = chan[Other(n)]] = chan
  BY Queues
<1> QED BY <1>1, <1>2, NothingOfTypes, ChangesOfNone DEF Post, Sent

\* What a fresh look differs from.
LEMMA FreshLooks ==
  ASSUME OneWriterEdits, NEW w, Ready(w), NEW c \in Contents, FreshLook(c)
  PROVE  /\ \A o \in Live(w) : obj[w][o] # c
         /\ \A i \in DOMAIN reg[w].byId : obj[w][reg[w].byId[i]] # c
  BY ReadyFacts DEF FreshLook, OneWriterEdits, Names

LEMMA GdCreateEdits ==
  ASSUME OneWriterEdits, NEW w, Ready(w), NEW o \in Heap[w], NEW c \in Contents, GdCreate(w, o, c)
  PROVE  WriterEdits(w)
<1> DEFINE level == With(obj[w], o, c)
<1>1. /\ obj' = [obj EXCEPT ![w] = level] /\ o \notin Live(w) /\ FreshLook(c)
      /\ reg' = reg /\ chan' = chan /\ base' = base /\ UNCHANGED <<conn, link>>
  BY DEF GdCreate, session
<1>2. /\ SyncInv /\ w \in Nodes /\ Paired(reg[w], obj[w]) /\ Names(reg[w], Live(w))
  BY ReadyFacts
<1>3. reg' = [reg EXCEPT ![w] = reg[w]]
  BY <1>1, <1>2, LevelUpdates
<1>4. DOMAIN level = Live(w) \cup {o} /\ level[o] = c /\ \A p \in Live(w) : level[p] = obj[w][p]
  BY <1>1 DEF With, Live
<1> HIDE DEF level
<1>5. Distinct(level)
  BY <1>2, <1>4, FreshLooks, <1>1 DEF Distinct, Paired, Live
<1>6. Exact(reg[w], level) /\ SharedOf(reg[w], level) = SharedOf(reg[w], obj[w])
  BY <1>2, <1>4 DEF Exact, Paired, Names, SharedOf
<1> QED BY <1>1, <1>2, <1>3, <1>5, <1>6, SaysNothing, SendsNone

LEMMA PlacementPair ==
  ASSUME NEW w, Ready(w), NEW o \in Heap[w], o \notin Live(w), IdsLeft(w) >= 1, link[w]
  PROVE  LET a == afterPlacement(w, o)
             id == placementId(w, o)
         IN /\ id \in ProperIds /\ id \notin DOMAIN reg[w].byId
            /\ RegistryOK(a) /\ a.byId = With(reg[w].byId, id, o) /\ a.fps = reg[w].fps
            /\ hasObject(a, o) /\ a.byPtr[o] = id
  BY ReadyFacts, PlacementBinds

LEMMA PlaceEdits ==
  ASSUME OneWriterEdits, NEW w, Ready(w), NEW o \in Heap[w], NEW c \in Contents, LocalPlace(w, o, c)
  PROVE  WriterEdits(w)
<1> DEFINE level == With(obj[w], o, c)
           l == SharedOf(reg[w], obj[w])
<1>1. /\ obj' = [obj EXCEPT ![w] = level] /\ o \notin Live(w) /\ FreshLook(c)
      /\ UNCHANGED <<conn, link>> /\ IdsLeft(w) > Cardinality(Unsynced(w))
  BY DEF LocalPlace, session
<1>2. /\ SyncInv /\ CalmInv /\ w \in Nodes /\ Paired(reg[w], obj[w]) /\ Names(reg[w], Live(w)) /\ o \in Ptrs
      /\ EditorsOK /\ RegistryOK(reg[w])
  BY ReadyFacts
<1>3. IdsLeft(w) >= 1
  <2>1. Cardinality(Unsynced(w)) \in Nat
    BY <1>2, UnsyncedFinite
  <2>2. IdsLeft(w) \in Int
    BY <1>2, CountersBounded DEF IdsLeft
  <2> QED BY <1>1, <2>1, <2>2
<1>4. DOMAIN level = Live(w) \cup {o} /\ level[o] = c /\ \A p \in Live(w) : level[p] = obj[w][p]
  BY <1>1 DEF With, Live
<1> HIDE DEF level
<1>5. Distinct(level)
  BY <1>2, <1>4, FreshLooks, <1>1 DEF Distinct, Paired, Live
<1>6. CASE conn[w]
  <2> DEFINE a == afterPlacement(w, o)
             id == placementId(w, o)
             q == refreshed(a, o, c)
             op == [type |-> "place", id |-> id, c |-> c]
  <2>1. hasPermission(w, "canEdit") /\ link[w]
    BY <1>2, <1>6, AllAllowed DEF Ready, builderFlags
  <2>2. reg' = [reg EXCEPT ![w] = q] /\ Post(w, <<op>>) /\ \A n \in Nodes : n # w => base'[n] = base[n]
    BY <1>2, <1>6, <2>1 DEF LocalPlace, EditorsOK
  <2>3. /\ id \in ProperIds /\ id \notin DOMAIN reg[w].byId
        /\ RegistryOK(a) /\ a.byId = With(reg[w].byId, id, o) /\ a.fps = reg[w].fps
        /\ hasObject(a, o) /\ a.byPtr[o] = id
    BY <1>1, <1>3, <2>1, PlacementPair
  <2>4. op \in OneWriter!LevelOps /\ op.type = "place" /\ op.id = id /\ op.c = c
    BY <2>3, LevelOperations
  <2>5. q = [a EXCEPT !.fps = With(@, id, Fp(c))]
    BY <2>3 DEF refreshed, findNetworkId, updateFingerprint, hasNetworkId, With
  <2> HIDE DEF a, id
  <2>6. q.byId = With(reg[w].byId, id, o) /\ q.fps = With(reg[w].fps, id, Fp(c))
    BY <2>3, <2>5 DEF RegistryOK, IsRegistry
  <2> HIDE DEF q, op
  <2>7. Exact(q, level) /\ SharedOf(q, level) = With(l, id, c)
    BY <1>1, <1>2, <2>3, <2>6, PlacedPair DEF level, Live
  <2>8. With(l, id, c) = OneWriter!Effect(l, op)
    BY <2>4 DEF OneWriter!Effect, With
  <2> QED BY <1>1, <1>5, <1>6, <2>2, <2>3, <2>4, <2>7, <2>8, SendsOne
<1>7. CASE ~conn[w]
  <2>1. reg' = [reg EXCEPT ![w] = refreshed(reg[w], o, c)] /\ chan' = chan /\ base' = base
    BY <1>2, <1>7 DEF LocalPlace, SyncInv, RegsOK
  <2>2. refreshed(reg[w], o, c) = reg[w]
    <3>1. DOMAIN reg[w].byId = {}
      BY <1>7, ReadyFacts
    <3> QED BY <3>1 DEF refreshed, updateFingerprint, hasNetworkId
  <2>3. Exact(reg[w], level) /\ SharedOf(reg[w], level) = SharedOf(reg[w], obj[w])
    BY <1>2, <1>4 DEF Exact, Paired, Names, SharedOf
  <2> QED BY <1>1, <1>2, <1>5, <2>1, <2>2, <2>3, SaysNothing, SendsNone
<1> QED BY <1>6, <1>7

\* What a transformation makes of the registry.
LEMMA RepairedPair ==
  ASSUME NEW r, NEW level, Paired(r, level), NEW o \in DOMAIN level, NEW o2 \in Ptrs,
         o2 = o \/ o2 \notin DOMAIN level, NEW c \in Contents, hasObject(r, o)
  PROVE  LET id == r.byPtr[o]
             q == repaired(r, o, o2, c)
         IN /\ RegistryOK(q) /\ q.byId = With(r.byId, id, o2) /\ q.fps = With(r.fps, id, Fp(c))
            /\ hasObject(q, o2) /\ q.byPtr[o2] = id
<1> DEFINE id == r.byPtr[o]
           q == repaired(r, o, o2, c)
<1>1. /\ RegistryOK(r) /\ o \in Ptrs
      /\ id \in DOMAIN r.byId /\ r.byId[id] = o /\ id \in NetIds
  BY NamedObjects DEF Paired, IsMap
<1>2. RegistryOK(q)
  BY <1>1, RepairedOK
<1>3. CASE o2 = o
  <2>1. q = [r EXCEPT !.fps = With(@, id, Fp(c))]
    BY <1>1, <1>3 DEF repaired, refreshed, findNetworkId, updateFingerprint, hasNetworkId
  <2>2. q.byId = r.byId /\ q.byPtr = r.byPtr /\ q.fps = With(r.fps, id, Fp(c))
    BY <1>1, <2>1 DEF RegistryOK, IsRegistry
  <2>3. With(r.byId, id, o) = r.byId
    BY <1>1 DEF With, RegistryOK, IsRegistry, IsMap
  <2> QED BY <1>2, <1>3, <2>2, <2>3 DEF hasObject
<1>4. CASE o2 # o
  <2> DEFINE b == bindObject(r, id, o2)
             otherPtr == {p \in DOMAIN r.byPtr : hasNetworkId(r, id) /\ p = r.byId[id] /\ p # o2}
  <2>1. ~hasObject(r, o2)
    BY <1>4, NamedObjects
  <2>2. {i \in DOMAIN r.byId : hasObject(r, o2) /\ i = r.byPtr[o2] /\ i # id} = {}
    BY <2>1
  <2>3. Without(r.byId, {}) = r.byId /\ Without(r.fps, {}) = r.fps
    BY <1>1 DEF Without, RegistryOK, IsRegistry, IsMap
  <2>4. b.byId = With(r.byId, id, o2) /\ b.fps = r.fps /\ b.byPtr = With(Without(r.byPtr, otherPtr), o2, id)
    BY <1>1, <2>2, <2>3 DEF bindObject, RegistryOK, IsRegistry
  <2>5. hasObject(b, o2) /\ b.byPtr[o2] = id /\ hasNetworkId(b, id)
    BY <2>4 DEF With, hasObject, hasNetworkId
  <2>6. RegistryOK(b)
    BY <1>1, BindOK
  <2>7. q = refreshed(b, o2, c)
    BY <2>1 DEF repaired
  <2> HIDE DEF b
  <2>8. q = [b EXCEPT !.fps = With(@, id, Fp(c))]
    BY <2>5, <2>7 DEF refreshed, findNetworkId, updateFingerprint
  <2>9. q.byId = b.byId /\ q.byPtr = b.byPtr /\ q.fps = With(b.fps, id, Fp(c))
    BY <2>6, <2>8 DEF RegistryOK, IsRegistry
  <2> QED BY <1>2, <2>4, <2>5, <2>9 DEF hasObject
<1> QED BY <1>3, <1>4

LEMMA TransformEdits ==
  ASSUME OneWriterEdits, NEW w, Ready(w), NEW o \in Heap[w], NEW o2 \in Heap[w], NEW c \in Contents,
         LocalTransform(w, o, o2, c)
  PROVE  WriterEdits(w)
<1> DEFINE level == With(Without(obj[w], {o}), o2, c)
           l == SharedOf(reg[w], obj[w])
           r == repaired(reg[w], o, o2, c)
           q == recovered(r, o2, Fp(c))
<1>1. /\ obj' = [obj EXCEPT ![w] = level] /\ reg' = [reg EXCEPT ![w] = q] /\ base' = base
      /\ o \in Live(w) /\ (o2 = o \/ o2 \notin Live(w)) /\ FreshLook(c)
      /\ UNCHANGED <<conn, link>>
      /\ IF conn[w] /\ hasPermission(w, "canEdit")
         THEN Post(w, commitOf(reg'[w], recoveredId(r, o2, Fp(c)), obj'[w]))
         ELSE chan' = chan
  BY DEF LocalTransform, session
<1>2. /\ SyncInv /\ CalmInv /\ w \in Nodes /\ Paired(reg[w], obj[w]) /\ Names(reg[w], Live(w))
      /\ o \in Ptrs /\ o2 \in Ptrs /\ EditorsOK /\ RegsOK /\ RegistryOK(reg[w])
      /\ DOMAIN reg[w].byId \subseteq ProperIds
  BY ReadyFacts
<1>3. reg'[w] = q /\ obj'[w] = level
  BY <1>1, <1>2 DEF EditorsOK, RegsOK
<1>4. DOMAIN level = (Live(w) \ {o}) \cup {o2} /\ level[o2] = c
      /\ \A p \in Live(w) \ {o} : level[p] = IF p = o2 THEN c ELSE obj[w][p]
  BY <1>1 DEF With, Without, Live
<1> HIDE DEF level
<1>5. Distinct(level)
  BY <1>2, <1>4, FreshLooks, <1>1 DEF Distinct, Paired, Live
<1>6. CASE hasObject(reg[w], o)
  <2> DEFINE id == reg[w].byPtr[o]
             op == [type |-> "commit", id |-> id, c |-> c]
  <2>1. conn[w] /\ hasPermission(w, "canEdit") /\ id \in DOMAIN reg[w].byId /\ reg[w].byId[id] = o
        /\ id # INVALID_OBJECT_ID
    BY <1>2, <1>6, ReadyFacts, AllAllowed, NamedObjects DEF builderFlags
  <2>2. /\ RegistryOK(r) /\ r.byId = With(reg[w].byId, id, o2) /\ r.fps = With(reg[w].fps, id, Fp(c))
        /\ hasObject(r, o2) /\ r.byPtr[o2] = id
    BY <1>1, <1>2, <1>6, RepairedPair DEF Live
  <2> HIDE DEF r
  <2>3. recoveredId(r, o2, Fp(c)) = id /\ hasNetworkId(r, id)
    BY <2>2 DEF recoveredId, With, hasNetworkId
  <2>4. q = [r EXCEPT !.fps = With(@, id, Fp(c))]
    BY <2>1, <2>2, <2>3 DEF recovered, updateFingerprint
  <2>5. q.byId = r.byId /\ q.fps = With(r.fps, id, Fp(c))
    BY <2>2, <2>4 DEF RegistryOK, IsRegistry
  <2>6. With(With(reg[w].fps, id, Fp(c)), id, Fp(c)) = With(reg[w].fps, id, Fp(c))
    BY DEF With
  <2> HIDE DEF q, id
  <2>7. q.byId = With(reg[w].byId, id, o2) /\ q.fps = With(reg[w].fps, id, Fp(c))
    BY <2>2, <2>5, <2>6
  <2>8. Exact(q, level)
        /\ SharedOf(q, level) = [i \in DOMAIN reg[w].byId |-> IF i = id THEN c ELSE l[i]]
    BY <1>1, <1>2, <2>1, <2>7, EditedPair DEF level, Live
  <2>9. commitOf(q, id, level) = <<op>>
    BY <1>4, <2>1, <2>7 DEF commitOf, hasNetworkId, With
  <2>10. op \in OneWriter!LevelOps /\ op.type = "commit" /\ op.id = id /\ op.c = c
    BY <1>2, <2>1, LevelOperations
  <2>11. Post(w, <<op>>)
    BY <1>1, <1>3, <2>1, <2>3, <2>9
  <2> HIDE DEF op
  <2>12. SharedOf(q, level) = OneWriter!Effect(l, op)
    BY <2>8, <2>10 DEF OneWriter!Effect, SharedOf
  <2> QED BY <1>1, <1>5, <2>1, <2>8, <2>10, <2>11, <2>12, SendsOne
<1>7. CASE ~hasObject(reg[w], o)
  <2>1. ~hasObject(reg[w], o2) /\ \A i \in DOMAIN reg[w].byId : reg[w].byId[i] # o
    BY <1>1, <1>2, <1>7, NamedObjects DEF Live
  <2>2. r = reg[w]
    BY <1>7, <2>1 DEF repaired
  <2>3. recoveredId(r, o2, Fp(c)) = INVALID_OBJECT_ID
    BY <1>1, <1>2, <2>1, <2>2, FreshLooks, UnknownLook DEF recoveredId
  <2>4. q = reg[w]
    BY <2>2, <2>3 DEF recovered
  <2>5. commitOf(reg'[w], INVALID_OBJECT_ID, obj'[w]) = <<>>
    <3>1. INVALID_OBJECT_ID \notin DOMAIN reg[w].byId
      BY <1>2 DEF RegistryOK, IsRegistry, IsMap, NetIds
    <3> QED BY <1>3, <2>4, <3>1 DEF commitOf, hasNetworkId
  <2>6. Post(w, <<>>)
    BY <1>1, <1>2, <2>3, <2>5, SaysNothing
  <2>7. OfTypes(<<>>, HookTypes) /\ Changes(<<>>) = <<>>
    BY NothingOfTypes, ChangesOfNone
  <2>8. \A i \in DOMAIN reg[w].byId : level[reg[w].byId[i]] = obj[w][reg[w].byId[i]]
    BY <1>1, <1>2, <1>4, <2>1 DEF Names
  <2>9. Exact(reg[w], level) /\ SharedOf(reg[w], level) = SharedOf(reg[w], obj[w])
    BY <1>2, <2>8 DEF Exact, Paired, SharedOf
  <2> QED BY <1>1, <1>5, <2>4, <2>6, <2>7, <2>9, SendsNone
<1> QED BY <1>6, <1>7

LEMMA DeleteEdits ==
  ASSUME OneWriterEdits, NEW w, Ready(w), NEW o \in Heap[w], LocalDelete(w, o)
  PROVE  WriterEdits(w)
<1> DEFINE level == Without(obj[w], {o})
           l == SharedOf(reg[w], obj[w])
           fp == Fp(obj[w][o])
           id == recoveredId(reg[w], o, fp)
           r == recovered(reg[w], o, fp)
<1>1. /\ obj' = [obj EXCEPT ![w] = level] /\ o \in Live(w) /\ UNCHANGED <<conn, link>>
      /\ IF conn[w] /\ id # INVALID_OBJECT_ID /\ hasPermission(w, "canDelete")
         THEN /\ reg' = [reg EXCEPT ![w] = removeByNetworkId(r, id)]
              /\ base' = [base EXCEPT ![w] = Without(@, {o})]
              /\ Post(w, <<[type |-> "delete", id |-> id]>>)
         ELSE /\ reg' = [reg EXCEPT ![w] = r]
              /\ base' = base /\ chan' = chan
  BY DEF LocalDelete, session
<1>2. /\ SyncInv /\ CalmInv /\ w \in Nodes /\ Paired(reg[w], obj[w])
      /\ EditorsOK /\ RegsOK /\ DOMAIN reg[w].byId \subseteq ProperIds
  BY ReadyFacts
<1>3. id = findNetworkId(reg[w], o) /\ r.byId = reg[w].byId /\ r.byPtr = reg[w].byPtr /\ Paired(r, obj[w])
  BY <1>1, <1>2, LookUp DEF Live
<1>4. \A n \in Nodes : n # w => base'[n] = base[n]
  BY <1>1, <1>2 DEF EditorsOK
<1>5. DOMAIN level = Live(w) \ {o} /\ \A p \in DOMAIN level : level[p] = obj[w][p]
  BY DEF Without, Live
<1> HIDE DEF level, r, id, fp
<1>6. Distinct(level)
  BY <1>2, <1>5 DEF Distinct, Paired, Live
<1>7. SharedOf(r, obj[w]) = l
  BY <1>3 DEF SharedOf
<1>8. CASE hasObject(reg[w], o)
  <2>1. /\ conn[w] /\ hasPermission(w, "canDelete") /\ id \in DOMAIN reg[w].byId
        /\ reg[w].byId[id] = o /\ id # INVALID_OBJECT_ID
    BY <1>2, <1>3, <1>8, ReadyFacts, AllAllowed, NamedObjects DEF builderFlags, findNetworkId
  <2> DEFINE op == [type |-> "delete", id |-> id]
             q == removeByNetworkId(r, id)
  <2>2. Exact(q, level) /\ SharedOf(q, level) = Without(l, {id})
    <3>1. id \in DOMAIN r.byId /\ level = Without(obj[w], {r.byId[id]})
      BY <1>3, <2>1 DEF level
    <3>2. Paired(r, obj[w])
      BY <1>3
    <3>3. \A l2, q2 : l2 = Without(obj[w], {r.byId[id]}) /\ q2 = removeByNetworkId(r, id) => Exact(q2, l2) /\ SharedOf(q2, l2) = Without(SharedOf(r, obj[w]), {id})
      BY <3>1, <3>2, DeletedPair
    <3>4. Exact(q, level) /\ SharedOf(q, level) = Without(SharedOf(r, obj[w]), {id})
      BY <3>1, <3>3
    <3> QED BY <3>4, <1>7
  <2>3. op \in OneWriter!LevelOps /\ op.type = "delete" /\ op.id = id
    BY <1>2, <2>1, LevelOperations
  <2>4. reg' = [reg EXCEPT ![w] = q] /\ Post(w, <<op>>)
    BY <1>1, <2>1
  <2>5. op.type = "place" <=> op.id \notin DOMAIN reg[w].byId
    BY <2>1, <2>3
  <2> HIDE DEF op, q
  <2>6. SharedOf(q, level) = OneWriter!Effect(l, op)
    BY <2>2, <2>3 DEF OneWriter!Effect, Without
  <2>7. Exact(q, level) /\ conn[w]
    BY <2>1, <2>2
  <2>8. op \in OneWriter!LevelOps
    BY <2>3
  <2>9. UNCHANGED <<conn, link>>
    BY <1>1
  <2>10. obj' = [obj EXCEPT ![w] = level]
    BY <1>1
  <2> QED BY <2>9, <2>10, <1>4, <1>6, <2>4, <2>5, <2>6, <2>7, <2>8, SendsOne
<1>9. CASE ~hasObject(reg[w], o)
  <2>1. id = INVALID_OBJECT_ID
    BY <1>3, <1>9 DEF findNetworkId
  <2>2. \A i \in DOMAIN r.byId : r.byId[i] \in Live(w) /\ r.byId[i] # o
    BY <1>2, <1>3, <1>9, NamedObjects DEF Live
  <2>3. Exact(r, level) /\ SharedOf(r, level) = l
    BY <1>3, <1>5, <1>7, <2>2 DEF Exact, Paired, SharedOf
  <2>4. reg' = [reg EXCEPT ![w] = r] /\ chan' = chan
    BY <1>1, <2>1
  <2> QED BY <1>1, <1>2, <1>4, <1>6, <2>3, <2>4, SaysNothing, SendsNone
<1> QED BY <1>8, <1>9

\* Looking up the selection changes no name.
LEMMA LookedUpPair ==
  ASSUME NEW n, NEW r, Paired(r, obj[n]), NEW S \in SUBSET Live(n)
  PROVE  LET q == lookedUp(n, r, S)
         IN /\ Paired(q, obj[n]) /\ q.byId = r.byId /\ q.byPtr = r.byPtr
            /\ idsOf(n, r, S) \subseteq DOMAIN r.byId
<1>1. CASE S = {}
  BY <1>1 DEF lookedUp, idsOf
<1>2. CASE S # {}
  <2> DEFINE o == The(S)
             fp == Fp(obj[n][o])
  <2>1. o \in DOMAIN obj[n]
    BY <1>2, TheElement DEF Live
  <2>2. lookedUp(n, r, S) = recovered(r, o, fp) /\ idsOf(n, r, S) = {recoveredId(r, o, fp)} \ {INVALID_OBJECT_ID}
    BY <1>2 DEF lookedUp, idsOf
  <2>3. findNetworkId(r, o) # INVALID_OBJECT_ID => findNetworkId(r, o) \in DOMAIN r.byId
    BY NamedObjects DEF findNetworkId
  <2> QED BY <2>1, <2>2, <2>3, LookUp
<1> QED BY <1>1, <1>2

\* Releasing an object sends its look once more, or nothing of the level.
LEMMA ReleaseChanges ==
  ASSUME NEW n, NEW r, Paired(r, obj[n]), NEW ids \in SUBSET DOMAIN r.byId, DOMAIN r.byId \subseteq ProperIds
  PROVE  /\ \E S : release(n, r, ids) \in Seq(S)
         /\ \/ Changes(release(n, r, ids)) = <<>>
            \/ \E i \in ids : Changes(release(n, r, ids))
                 = <<[type |-> "commit", id |-> i, c |-> SharedOf(r, obj[n])[i]]>>
<1> DEFINE i == The(ids)
           commit == [type |-> "commit", id |-> i, c |-> SharedOf(r, obj[n])[i]]
           unlock == [type |-> "unlock", id |-> i]
<1>1. CASE release(n, r, ids) = <<>>
  BY <1>1, ChangesOfNone, EmptySeq
<1>2. CASE ids # {} /\ release(n, r, ids) # <<>>
  <2>1. i \in ids
    BY <1>2, TheElement
  <2>2. commitOf(r, i, obj[n]) = <<commit>>
    BY <2>1, NamedObjects DEF commitOf, hasNetworkId, SharedOf
  <2>3. release(n, r, ids) = <<commit>> \o <<unlock>>
    BY <1>2, <2>2 DEF release
  <2>4. LevelMsg(commit) /\ ~LevelMsg(unlock)
    BY DEF LevelMsg
  <2> HIDE DEF commit, unlock
  <2>5. <<commit>> \in Seq({commit, unlock}) /\ <<unlock>> \in Seq({commit, unlock})
    BY OneMessage
  <2>6. Changes(<<commit>> \o <<unlock>>) = <<commit>> \o <<>>
    <3>1. Changes(<<commit>>) = <<commit>> /\ Changes(<<unlock>>) = <<>>
      BY <2>4, ChangesOfOne
    <3> DEFINE first == <<commit>>
               last == <<unlock>>
    <3> HIDE DEF first, last
    <3>2. Changes(first \o last) = Changes(first) \o Changes(last)
      BY <2>5, ChangesOfBoth DEF first, last
    <3> QED BY <3>1, <3>2 DEF first, last
  <2>7. <<commit>> \o <<>> = <<commit>>
    OBVIOUS
  <2>8. <<commit>> \o <<unlock>> \in Seq({commit, unlock})
    BY <2>5, ConcatProperties
  <2> QED BY <2>1, <2>3, <2>6, <2>7, <2>8 DEF commit
<1> QED BY <1>1, <1>2 DEF release

\* A change that repeats the look that an object has.
RepeatsLook(r, level, msgs) ==
  \/ Changes(msgs) = <<>>
  \/ \E i \in DOMAIN r.byId : Changes(msgs) = <<[type |-> "commit", id |-> i, c |-> SharedOf(r, level)[i]]>>

LEMMA RepeatsEdits ==
  ASSUME OneWriterEdits, NEW w, Ready(w), UNCHANGED <<conn, link, obj, base>>,
         NEW q, reg' = [reg EXCEPT ![w] = q], Paired(q, obj[w]), q.byId = reg[w].byId,
         NEW msgs, OfTypes(msgs, HookTypes), RepeatsLook(reg[w], obj[w], msgs),
         Post(w, msgs), conn[w]
  PROVE  WriterEdits(w)
<1> DEFINE l == SharedOf(reg[w], obj[w])
<1>1. /\ SyncInv /\ w \in Nodes /\ Paired(reg[w], obj[w]) /\ DOMAIN reg[w].byId \subseteq ProperIds
      /\ obj' = [obj EXCEPT ![w] = obj[w]]
  BY ReadyFacts, LevelUpdates
<1>2. Distinct(obj[w]) /\ Exact(q, obj[w]) /\ SharedOf(q, obj[w]) = l
  BY DEF Paired, SharedOf
<1>3. CASE Changes(msgs) = <<>>
  BY <1>1, <1>2, <1>3, SendsNone
<1>4. CASE Changes(msgs) # <<>>
  <2> DEFINE op(i) == [type |-> "commit", id |-> i, c |-> l[i]]
  <2>1. PICK i \in DOMAIN reg[w].byId : Changes(msgs) = <<op(i)>>
    BY <1>4 DEF RepeatsLook
  <2>2. l[i] \in Contents
    BY <1>1, NamedObjects DEF SharedOf, Paired, IsMap
  <2>3. op(i) \in OneWriter!LevelOps
    BY <1>1, <2>2, LevelOperations
  <2>4. op(i).type = "commit" /\ op(i).id = i /\ op(i).c = l[i]
    OBVIOUS
  <2>5. DOMAIN l = DOMAIN reg[w].byId /\ l = [j \in DOMAIN l |-> l[j]]
    BY DEF SharedOf
  <2> HIDE DEF l
  <2>6. PICK o : o = op(i)
    OBVIOUS
  <2> HIDE DEF op
  <2>7. OneWriter!Effect(l, o) = l
    BY <2>4, <2>5, <2>6 DEF OneWriter!Effect
  <2>8. o.type = "place" <=> o.id \notin DOMAIN reg[w].byId
    BY <2>4, <2>6
  <2>9. o \in OneWriter!LevelOps /\ Changes(msgs) = <<o>>
    BY <2>1, <2>3, <2>6
  <2>10. SharedOf(q, obj[w]) = OneWriter!Effect(SharedOf(reg[w], obj[w]), o)
    BY <1>2, <2>7 DEF l
  <2>11. \A n \in Nodes : n # w => base'[n] = base[n]
    OBVIOUS
  <2>12. UNCHANGED <<conn, link>> /\ obj' = [obj EXCEPT ![w] = obj[w]]
    BY <1>1
  <2>13. Distinct(obj[w]) /\ Exact(q, obj[w])
    BY <1>2
  <2>14. o \in OneWriter!LevelOps
    BY <2>9
  <2>15. Changes(msgs) = <<o>>
    BY <2>9
  <2>16. PICK level : level = obj[w]
    OBVIOUS
  <2>17. obj' = [obj EXCEPT ![w] = level] /\ Distinct(level) /\ Exact(q, level)
         /\ SharedOf(q, level) = OneWriter!Effect(SharedOf(reg[w], obj[w]), o)
    BY <2>10, <2>12, <2>13, <2>16
  <2>18. UNCHANGED <<conn, link>>
    OBVIOUS
  <2>19. obj' = [obj EXCEPT ![w] = level]
    BY <2>17
  <2>20. Distinct(level)
    BY <2>17
  <2>21. Exact(q, level)
    BY <2>17
  <2>22. SharedOf(q, level) = OneWriter!Effect(SharedOf(reg[w], obj[w]), o)
    BY <2>17
  <2> QED BY ONLY <2>8, <2>11, <2>14, <2>15, <2>18, <2>19, <2>20, <2>21, <2>22, Ready(w), conn[w],
              reg' = [reg EXCEPT ![w] = q], OfTypes(msgs, HookTypes), Post(w, msgs), SendsChange, ZenonT(60)
<1> QED BY <1>3, <1>4

\* Releasing an object repeats its look.
LEMMA ReleaseRepeats ==
  ASSUME NEW n, NEW r, Paired(r, obj[n]), NEW ids \in SUBSET DOMAIN r.byId, DOMAIN r.byId \subseteq ProperIds,
         NEW q, r.byId = q.byId
  PROVE  RepeatsLook(q, obj[n], release(n, r, ids))
<1>1. SharedOf(r, obj[n]) = SharedOf(q, obj[n])
  BY DEF SharedOf
<1> QED BY <1>1, ReleaseChanges DEF RepeatsLook

\* A message that changes no level adds nothing.
LEMMA RepeatsAndMore ==
  ASSUME NEW r, NEW level, NEW msgs, RepeatsLook(r, level, msgs), \E S : msgs \in Seq(S),
         NEW more, \E S : more \in Seq(S), Changes(more) = <<>>
  PROVE  RepeatsLook(r, level, msgs \o more)
<1>1. PICK S : msgs \in Seq(S)
  OBVIOUS
<1>2. PICK U : more \in Seq(U)
  OBVIOUS
<1>3. msgs \in Seq(S \cup U) /\ more \in Seq(S \cup U)
  BY <1>1, <1>2, SeqMonotonic
<1>4. Changes(msgs \o more) = Changes(msgs) \o <<>>
  BY <1>3, ChangesOfBoth
<1>5. Changes(msgs) \in Seq({m \in S \cup U : LevelMsg(m)})
  BY <1>3, ChangesTypes
<1>6. Changes(msgs) \o <<>> = Changes(msgs)
  <2> DEFINE q == Changes(msgs)
  <2> HIDE DEF q
  <2>1. ASSUME NEW T, q \in Seq(T)
        PROVE  q \o <<>> = q
    BY <2>1
  <2> QED BY <1>5, <2>1 DEF q
<1> QED BY <1>4, <1>6 DEF RepeatsLook

LEMMA DeselectEdits ==
  ASSUME OneWriterEdits, NEW w, Ready(w), DeselectAll(w)
  PROVE  WriterEdits(w)
<1> DEFINE q == lookedUp(w, reg[w], sel[w])
           old == idsOf(w, reg[w], sel[w])
           msgs == release(w, q, old)
<1>1. /\ reg' = [reg EXCEPT ![w] = q] /\ UNCHANGED <<conn, link, obj, base>>
      /\ IF conn[w] THEN Post(w, msgs) ELSE chan' = chan
  BY DEF DeselectAll, session
<1>2. /\ SyncInv /\ w \in Nodes /\ Paired(reg[w], obj[w]) /\ DOMAIN reg[w].byId \subseteq ProperIds
      /\ sel[w] \in SUBSET Live(w)
  BY ReadyFacts, InvFacts
<1>3. Paired(q, obj[w]) /\ q.byId = reg[w].byId /\ old \subseteq DOMAIN reg[w].byId
  BY <1>2, LookedUpPair
<1>4. OfTypes(msgs, HookTypes)
  BY ReleaseOfTypes
<1> HIDE DEF q, old
<1>5. RepeatsLook(reg[w], obj[w], msgs)
  BY <1>2, <1>3, ReleaseRepeats
<1> HIDE DEF msgs
<1>6. CASE conn[w]
  BY <1>1, <1>3, <1>4, <1>5, <1>6, RepeatsEdits
<1>7. CASE ~conn[w]
  <2>1. Post(w, <<>>) /\ OfTypes(<<>>, HookTypes) /\ Changes(<<>>) = <<>>
    BY <1>1, <1>2, <1>7, SaysNothing
  <2>2. Distinct(obj[w]) /\ Exact(q, obj[w]) /\ SharedOf(q, obj[w]) = SharedOf(reg[w], obj[w])
    BY <1>3 DEF Paired, SharedOf
  <2>3. obj' = [obj EXCEPT ![w] = obj[w]]
    BY <1>1, <1>2, LevelUpdates
  <2> QED BY <1>1, <2>1, <2>2, <2>3, SendsNone
<1> QED BY <1>6, <1>7

LEMMA SelectEdits ==
  ASSUME OneWriterEdits, NEW w, Ready(w), NEW o \in Heap[w], NEW dropped \in SUBSET sel[w],
         SelectObject(w, o, dropped)
  PROVE  WriterEdits(w)
<1> DEFINE before == lookedUp(w, reg[w], dropped)
           old == idsOf(w, reg[w], dropped)
           q == lookedUp(w, before, {o})
           new == idsOf(w, before, {o})
           lock == IF hasPermission(w, "canLock") THEN new ELSE {}
           m == [type |-> "lock_request", id |-> The(lock)]
           more == IF w = Peer /\ lock # {} THEN <<m>> ELSE <<>>
           msgs == release(w, before, old) \o more
<1>1. /\ reg' = [reg EXCEPT ![w] = q] /\ UNCHANGED <<conn, link, obj, base>> /\ o \in Live(w)
      /\ IF conn[w] THEN Post(w, msgs) ELSE chan' = chan
  BY DEF SelectObject, session
<1>2. /\ SyncInv /\ w \in Nodes /\ Paired(reg[w], obj[w]) /\ DOMAIN reg[w].byId \subseteq ProperIds
      /\ dropped \in SUBSET Live(w) /\ {o} \in SUBSET Live(w)
  BY <1>1, ReadyFacts, InvFacts
<1>3. Paired(before, obj[w]) /\ before.byId = reg[w].byId /\ old \subseteq DOMAIN reg[w].byId
  BY <1>2, LookedUpPair
<1>4. OfTypes(release(w, before, old), HookTypes)
  BY ReleaseOfTypes
<1> HIDE DEF before, old
<1>5. Paired(q, obj[w]) /\ q.byId = before.byId
  BY <1>2, <1>3, LookedUpPair
<1> HIDE DEF q
<1>6. RepeatsLook(reg[w], obj[w], release(w, before, old)) /\ \E S : release(w, before, old) \in Seq(S)
  BY <1>2, <1>3, ReleaseRepeats, ReleaseChanges
<1>7. m.type \in HookTypes /\ ~LevelMsg(m)
  BY DEF HookTypes, LevelMsg
<1> HIDE DEF m, lock, new
<1>8. OfTypes(more, HookTypes) /\ Changes(more) = <<>> /\ \E S : more \in Seq(S)
  <2>1. OfTypes(<<m>>, HookTypes) /\ Changes(<<m>>) = <<>> /\ <<m>> \in Seq({m})
    BY <1>7, MessageOfTypes, ChangesOfOne, OneMessage
  <2>2. OfTypes(<<>>, HookTypes) /\ Changes(<<>>) = <<>> /\ <<>> \in Seq({})
    BY NothingOfTypes, ChangesOfNone, EmptySeq
  <2>3. CASE w = Peer /\ lock # {}
    BY <2>1, <2>3
  <2>4. CASE ~(w = Peer /\ lock # {})
    BY <2>2, <2>4
  <2> QED BY <2>3, <2>4
<1> HIDE DEF more
<1>9. OfTypes(msgs, HookTypes) /\ RepeatsLook(reg[w], obj[w], msgs)
  BY <1>4, <1>6, <1>8, BothOfTypes, RepeatsAndMore
<1> HIDE DEF msgs
<1>10. CASE conn[w]
  BY <1>1, <1>3, <1>5, <1>9, <1>10, RepeatsEdits
<1>11. CASE ~conn[w]
  <2>1. Post(w, <<>>) /\ OfTypes(<<>>, HookTypes) /\ Changes(<<>>) = <<>>
    BY <1>1, <1>2, <1>11, SaysNothing
  <2>2. Distinct(obj[w]) /\ Exact(q, obj[w]) /\ SharedOf(q, obj[w]) = SharedOf(reg[w], obj[w])
    BY <1>3, <1>5 DEF Paired, SharedOf
  <2>3. obj' = [obj EXCEPT ![w] = obj[w]]
    BY <1>1, <1>2, LevelUpdates
  <2>4. \A n \in Nodes : n # w => base'[n] = base[n]
    BY <1>1
  <2> QED BY <1>1, <2>1, <2>2, <2>3, <2>4, SendsNone
<1> QED BY <1>10, <1>11

LEMMA DiscoverEdits ==
  ASSUME OneWriterEdits, NEW w, Ready(w), Discover(w)
  PROVE  WriterEdits(w)
<1> DEFINE S == toDiscover(w)
           count == Cardinality(S)
           first == firstFree(w)
           l == SharedOf(reg[w], obj[w])
<1>1. /\ SyncInv /\ CalmInv /\ EditorsOK /\ RegsOK /\ w \in Nodes /\ Paired(reg[w], obj[w])
      /\ DOMAIN reg[w].byId \subseteq HandedOut /\ RegistryOK(reg[w])
  BY ReadyFacts
<1>2. conn[w] /\ link[w] /\ UNCHANGED <<conn, link, obj>> /\ hasPermission(w, "canEdit")
  BY <1>1, AllAllowed DEF Ready, Discover, session, builderFlags
<1>3. \A n \in Nodes : n # w => base'[n] = base[n]
  BY <1>1 DEF Discover, EditorsOK
<1>4. S \in SUBSET Unsynced(w) /\ IsFiniteSet(S) /\ count \in Nat
  BY <1>1, UnsyncedFinite DEF toDiscover
<1>5. PICK f \in Numberings(S, first) :
        LET objectOf(i) == CHOOSE o \in S : f[o] = i
            r == IF link[w] THEN bindAll(reg[w], f) ELSE reg[w]
        IN /\ reg' = [reg EXCEPT ![w] = IF w = Host THEN [r EXCEPT !.nextId = @ + count] ELSE r]
           /\ Post(w, [k \in 1..count |->
                        [type |-> "place", id |-> first + k - 1,
                         c |-> obj[w][objectOf(first + k - 1)]]])
  BY <1>2 DEF Discover, firstFree
<1> DEFINE objectOf(i) == CHOOSE o \in S : f[o] = i
           r == bindAll(reg[w], f)
           q == IF w = Host THEN [r EXCEPT !.nextId = @ + count] ELSE r
           msgs == [k \in 1..count |-> [type |-> "place", id |-> first + k - 1,
                                        c |-> obj[w][objectOf(first + k - 1)]]]
<1>6. reg' = [reg EXCEPT ![w] = q] /\ Post(w, msgs)
  BY <1>2, <1>5
<1>7. IdsLeft(w) >= count
  BY <1>2 DEF Discover
<1> HIDE DEF S, count
<1>8. /\ f \in [S -> first..(first + count - 1)]
      /\ \A o, p \in S : f[o] = f[p] => o = p
      /\ \A i \in first..(first + count - 1) : \E o \in S : f[o] = i
      /\ first \in Int
  <2>1. first \in Int
    BY <1>1, <1>4, <1>7, ScanNumbers
  <2> QED BY <1>4, <2>1, NumberingOK DEF count
<1> HIDE DEF first
<1>9. \A i \in first..(first + count - 1) : i \in ProperIds /\ i \in NetIds /\ i \notin DOMAIN reg[w].byId
  BY <1>1, <1>4, <1>7, ScanFresh DEF first
<1>10. Bindable(reg[w], S, f) /\ \A o \in S : f[o] \notin DOMAIN reg[w].byId
  <2>1. S \subseteq Ptrs /\ S \cap DOMAIN reg[w].byPtr = {} /\ f \in [S -> NetIds]
    BY <1>1, <1>4, <1>8, <1>9, InvFacts DEF Unsynced, hasObject
  <2> QED BY <1>1, <1>8, <1>9, <2>1 DEF Bindable
<1>11. RegistryOK(r) /\ r.fps = reg[w].fps
  <2>1. RegistryOK(r)
    BY <1>10, BindableBound DEF BoundTo
  <2> QED BY <1>1, <2>1 DEF bindAll, RegistryOK, IsRegistry
<1>12. q.byId = r.byId /\ q.fps = reg[w].fps
  BY <1>11 DEF RegistryOK, IsRegistry
<1> HIDE DEF q
<1>13. S \in SUBSET DOMAIN obj[w]
  BY <1>4 DEF Unsynced, Live
<1> HIDE DEF msgs, objectOf
<1>14. /\ Exact(q, obj[w])
       /\ DOMAIN SharedOf(q, obj[w]) = DOMAIN reg[w].byId \cup {f[o] : o \in S}
       /\ \A i \in DOMAIN reg[w].byId : SharedOf(q, obj[w])[i] = SharedOf(reg[w], obj[w])[i]
       /\ \A o \in S : SharedOf(q, obj[w])[f[o]] = obj[w][o]
  <2>1. Paired(reg[w], obj[w])
    BY <1>1
  <2>2. Bindable(reg[w], S, f)
    BY <1>10
  <2>3. \A o \in S : f[o] \notin DOMAIN reg[w].byId
    BY <1>10
  <2>4. q.byId = bindAll(reg[w], f).byId
    BY <1>12
  <2>5. q.fps = reg[w].fps
    BY <1>12
  <2>6. ScannedTo(q, reg[w], obj[w], S, f)
    BY ONLY <2>1, <2>2, <2>3, <2>4, <2>5, <1>13, ScannedPair
  <2> QED BY <2>6 DEF ScannedTo
<1> HIDE DEF r
<1> DEFINE l2 == SharedOf(q, obj[w])
<1>15. msgs = [k \in 1..count |-> msgs[k]]
  BY DEF msgs
<1>16. ASSUME NEW k \in 1..count
       PROVE  /\ msgs[k] \in OneWriter!LevelOps /\ msgs[k].type = "place" /\ msgs[k].id = first + k - 1
              /\ msgs[k].id \notin DOMAIN l /\ msgs[k].id \in {f[o] : o \in S}
              /\ l2[msgs[k].id] = msgs[k].c
  <2> DEFINE id == first + k - 1
             o == objectOf(id)
  <2>1. id \in first..(first + count - 1)
    BY <1>4, <1>8
  <2>2. o \in S /\ f[o] = id
    BY <1>8, <2>1 DEF objectOf
  <2>3. obj[w][o] \in Contents
    BY <1>1, <1>13, <2>2 DEF Paired, IsMap
  <2>4. msgs[k] = [type |-> "place", id |-> id, c |-> obj[w][o]]
    BY DEF msgs
  <2>5. id \in ProperIds /\ id \notin DOMAIN reg[w].byId
    BY <1>9, <2>1
  <2> HIDE DEF id, o
  <2>6. msgs[k].id = id /\ msgs[k].type = "place" /\ msgs[k].c = obj[w][o]
    BY <2>4
  <2>7. msgs[k] \in OneWriter!LevelOps
    BY <2>3, <2>4, <2>5, LevelOperations
  <2>8. id \notin DOMAIN l
    BY <2>5 DEF SharedOf
  <2>9. l2[id] = obj[w][o] /\ id \in {f[p] : p \in S}
    BY <1>14, <2>2
  <2> QED BY <2>6, <2>7, <2>8, <2>9 DEF id
<1>17. \A j, k \in 1..count : msgs[j].id = msgs[k].id => j = k
  BY <1>8, <1>16
<1>18. \A o \in S : \E k \in 1..count : msgs[k].id = f[o]
  <2> TAKE o \in S
  <2>1. f[o] \in first..(first + count - 1)
    BY <1>8
  <2>2. f[o] - first + 1 \in 1..count /\ first + (f[o] - first + 1) - 1 = f[o]
    BY <1>4, <1>8, <2>1
  <2> QED BY <1>16, <2>2
<1>19. DOMAIN l2 = DOMAIN l \cup {msgs[k].id : k \in 1..count}
  <2>1. DOMAIN l = DOMAIN reg[w].byId
    BY DEF SharedOf
  <2>2. {msgs[k].id : k \in 1..count} = {f[o] : o \in S}
    BY <1>16, <1>18
  <2> QED BY <1>14, <2>1, <2>2
<1>20. l = [i \in DOMAIN l |-> l[i]] /\ l2 = [i \in DOMAIN l2 |-> l2[i]] /\ \A i \in DOMAIN l : l2[i] = l[i]
  <2>1. DOMAIN l = DOMAIN reg[w].byId
    BY DEF SharedOf
  <2> QED BY <1>14, <2>1 DEF SharedOf
<1> HIDE DEF l, l2
<1>21. Writes(l, msgs, l2)
  BY <1>4, <1>15, <1>16, <1>17, <1>19, <1>20, PlacesWrite
<1>22. OfTypes(msgs, HookTypes) /\ Changes(msgs) = msgs
  <2>1. \A k \in 1..count : msgs[k].type \in HookTypes /\ LevelMsg(msgs[k])
    BY <1>16 DEF HookTypes, LevelMsg
  <2>2. OfTypes(msgs, HookTypes)
    BY <1>4, <1>15, <2>1, SeveralOfTypes
  <2>3. msgs \in Seq(OneWriter!LevelOps) /\ Len(msgs) = count
    <3>1. msgs \in Seq(OneWriter!LevelOps)
      BY <1>4, <1>15, <1>16, Messages1ToK
    <3> QED BY <1>4, <1>15, <3>1
  <2>4. Changes(msgs) = msgs
    BY <2>1, <2>3, ChangesOfChanges
  <2> QED BY <2>2, <2>4
<1>23. /\ reg'[w] = q /\ obj'[w] = obj[w]
       /\ \A n \in Nodes : n # w => reg'[n] = reg[n] /\ obj'[n] = obj[n]
  BY <1>1, <1>2, <1>6 DEF RegsOK
<1>24. Distinct(obj'[w]) /\ Exact(reg'[w], obj'[w])
  BY <1>1, <1>14, <1>23 DEF Paired
<1>25. Writes(SharedOf(reg[w], obj[w]), Changes(msgs), SharedOf(reg'[w], obj'[w]))
  BY <1>21, <1>22, <1>23 DEF l, l2
<1>26. \E m : /\ OfTypes(m, HookTypes) /\ Post(w, m)
              /\ Writes(SharedOf(reg[w], obj[w]), Changes(m), SharedOf(reg'[w], obj'[w]))
              /\ conn[w] \/ Changes(m) = <<>>
  BY <1>2, <1>6, <1>22, <1>25
<1> QED BY <1>2, <1>3, <1>23, <1>24, <1>26 DEF WriterEdits

-----------------------------------------------------------------------------
(***************************************************************************)
(* What the watcher does with the messages.                                *)
(***************************************************************************)

\* The objects that have no id are as the client found them when it joined.
Settled(n) == conn[n] => \A o \in Unsynced(n) : o \in DOMAIN base[n] /\ base[n][o] = obj[n][o]

\* The change that the message m is to the level l, if it is one.
Applied(l, m) == IF LevelMsg(m) THEN OneWriter!Effect(l, m) ELSE l

\* The watcher v may take its next message.
Watching(v) ==
  /\ AliveInv /\ v \in Nodes
  /\ \A n \in Nodes : conn[n] = conn[v] /\ link[n] = conn[v]
  /\ Settled(v)
  /\ Receives(v, Msg(v).type) /\ Msg(v).type \in HookTypes
  /\ LevelMsg(Msg(v)) => (Msg(v).type = "place" <=> Msg(v).id \notin DOMAIN reg[v].byId)

WatcherTakes(v) ==
  /\ UNCHANGED <<conn, link, base>>
  /\ \A n \in Nodes : n # v => obj'[n] = obj[n] /\ reg'[n] = reg[n]
  /\ \E replies : OfTypes(replies, ReplyTypes) /\ Consume(v, replies)
  /\ SharedOf(reg'[v], obj'[v]) = Applied(SharedOf(reg[v], obj[v]), Msg(v))
  /\ Settled(v)'

LEMMA WatchingFacts ==
  ASSUME NEW v, Watching(v)
  PROVE  /\ SyncInv /\ CalmInv /\ EditorsOK /\ RegsOK /\ v \in Nodes /\ conn[v]
         /\ RegistryOK(reg[v]) /\ Names(reg[v], Live(v)) /\ Live(v) \subseteq Ptrs /\ Heap[v] \subseteq Ptrs
         /\ \A i \in DOMAIN reg[v].byId : hasObject(reg[v], reg[v].byId[i]) /\ reg[v].byPtr[reg[v].byId[i]] = i
         /\ \A o \in Ptrs : o \notin Live(v) => ~hasObject(reg[v], o)
         /\ \A o : hasObject(reg[v], o) => /\ reg[v].byPtr[o] \in DOMAIN reg[v].byId
                                           /\ reg[v].byId[reg[v].byPtr[o]] = o
         /\ Msg(v) \in Inboxes[v]
         /\ IsMap(obj[v], Heap[v], Contents)
<1>1. SyncInv /\ CalmInv /\ RolesInv /\ v \in Nodes /\ Alive(v) /\ Receives(v, Msg(v).type)
  BY DEF Watching, AliveInv, RolesInv
<1>2. /\ EditorsOK /\ RegsOK /\ RegistryOK(reg[v]) /\ Live(v) \subseteq Ptrs /\ Heap[v] \subseteq Ptrs
      /\ IsMap(obj[v], Heap[v], Contents)
  BY <1>1, InvFacts
<1>3. Names(reg[v], Live(v)) /\ conn[v] /\ Msg(v) \in Inboxes[v]
  BY <1>1, HandlersConnected, ReceivedMessage DEF Alive
<1>4. /\ \A i \in DOMAIN reg[v].byId : hasObject(reg[v], reg[v].byId[i]) /\ reg[v].byPtr[reg[v].byId[i]] = i
      /\ \A o : hasObject(reg[v], o) => /\ reg[v].byPtr[o] \in DOMAIN reg[v].byId
                                        /\ reg[v].byId[reg[v].byPtr[o]] = o
  BY <1>2 DEF RegistryOK, IsRegistry, IsMap, IsInverse, hasObject, hasNetworkId
<1>5. \A o \in Ptrs : o \notin Live(v) => ~hasObject(reg[v], o)
  BY <1>3, <1>4 DEF Names
<1> QED BY <1>1, <1>2, <1>3, <1>4, <1>5

LEMMA TakesLock ==
  ASSUME NEW v, Watching(v), HandleUnlockObject(v) \/ (v = Host /\ HandleLockRequest)
  PROVE  WatcherTakes(v)
<1>1. SyncInv /\ v \in Nodes /\ ~LevelMsg(Msg(v))
  BY WatchingFacts DEF HandleUnlockObject, HandleLockRequest, Receives, LevelMsg
<1>2. UNCHANGED <<conn, link, base, obj, reg>>
  BY DEF HandleUnlockObject, HandleLockRequest, session
<1>3. Answers(v)
  BY <1>1, EditHandlersAnswer, LockHandlersAnswer
<1>4. Settled(v)'
  BY <1>2 DEF Watching, Settled, Unsynced, Live
<1>5. SharedOf(reg'[v], obj'[v]) = Applied(SharedOf(reg[v], obj[v]), Msg(v))
  BY <1>1, <1>2 DEF Applied
<1> QED BY <1>2, <1>3, <1>4, <1>5 DEF WatcherTakes, Answers

LEMMA TakesCommit ==
  ASSUME NEW v, Watching(v), HandleCommitEdit(v)
  PROVE  WatcherTakes(v)
<1> DEFINE m == Msg(v)
           id == m.id
           o == reg[v].byId[id]
           l == SharedOf(reg[v], obj[v])
           level == [p \in Live(v) |-> IF p = o THEN m.c ELSE obj[v][p]]
<1>1. m.type = "commit"
  BY DEF HandleCommitEdit, Receives
<1>2. id \in DOMAIN reg[v].byId /\ o \in Live(v)
  BY <1>1, WatchingFacts DEF Watching, LevelMsg, Names
<1>3. editedId(v, id) = id /\ objectsOf(v, id) = {o}
  BY <1>2 DEF editedId, namedId, objectsOf, hasNetworkId
<1>4. peerHasPermission(v, "canEdit")
  BY WatchingFacts, AllAllowed DEF builderFlags
<1>5. obj' = [obj EXCEPT ![v] = level]
  BY <1>3, <1>4 DEF HandleCommitEdit, Live
<1>6. UNCHANGED <<conn, link, base, reg>>
  BY DEF HandleCommitEdit, session
<1>7. Answers(v)
  BY WatchingFacts, EditHandlersAnswer
<1>8. obj'[v] = level /\ \A n \in Nodes : n # v => obj'[n] = obj[n]
  BY <1>5, WatchingFacts DEF EditorsOK
<1>9. Settled(v)'
  <2>1. hasObject(reg[v], o)
    BY <1>2, WatchingFacts
  <2>2. Unsynced(v)' = Unsynced(v) /\ \A p \in Unsynced(v) : obj'[v][p] = obj[v][p]
    BY <1>6, <1>8, <2>1 DEF Unsynced, Live
  <2> QED BY <1>6, <2>2 DEF Watching, Settled
<1>10. SharedOf(reg'[v], obj'[v]) = Applied(l, m)
  <2>1. \A i \in DOMAIN reg[v].byId : reg[v].byId[i] \in Live(v) /\ (reg[v].byId[i] = o => i = id)
    BY <1>2, WatchingFacts DEF Names
  <2>2. SharedOf(reg'[v], obj'[v]) = [i \in DOMAIN reg[v].byId |-> IF i = id THEN m.c ELSE l[i]]
    BY <1>2, <1>6, <1>8, <2>1 DEF SharedOf
  <2>3. Applied(l, m) = [i \in DOMAIN l |-> IF i = id THEN m.c ELSE l[i]]
    BY <1>1 DEF Applied, LevelMsg, OneWriter!Effect
  <2>4. DOMAIN l = DOMAIN reg[v].byId
    BY DEF SharedOf
  <2> QED BY <2>2, <2>3, <2>4
<1> QED BY <1>6, <1>7, <1>8, <1>9, <1>10 DEF WatcherTakes, Answers

LEMMA TakesDelete ==
  ASSUME NEW v, Watching(v), HandleDeleteObject(v)
  PROVE  WatcherTakes(v)
<1> DEFINE m == Msg(v)
           id == m.id
           r == reg[v]
           o == r.byId[id]
           l == SharedOf(r, obj[v])
           q == removeByNetworkId(r, id)
           level == Without(obj[v], {o})
<1>1. m.type = "delete"
  BY DEF HandleDeleteObject, Receives
<1>2. id \in DOMAIN r.byId /\ o \in Live(v)
  BY <1>1, WatchingFacts DEF Watching, LevelMsg, Names
<1>3. namedId(v, id) = id /\ objectsOf(v, id) = {o}
  BY <1>2 DEF namedId, objectsOf, hasNetworkId
<1>4. peerHasPermission(v, "canDelete")
  BY WatchingFacts, AllAllowed DEF builderFlags
<1>5. obj' = [obj EXCEPT ![v] = level] /\ reg' = [reg EXCEPT ![v] = q]
  BY <1>3, <1>4 DEF HandleDeleteObject
<1>6. UNCHANGED <<conn, link, base>>
  BY DEF HandleDeleteObject, session
<1>7. Answers(v)
  BY WatchingFacts, EditHandlersAnswer
<1>8. q.byId = Without(r.byId, {id}) /\ q.byPtr = Without(r.byPtr, {o})
  BY <1>2, WatchingFacts DEF removeByNetworkId, hasNetworkId, RegistryOK, IsRegistry
<1> HIDE DEF q
<1>9. /\ obj'[v] = level /\ reg'[v] = q
      /\ \A n \in Nodes : n # v => obj'[n] = obj[n] /\ reg'[n] = reg[n]
  BY <1>5, WatchingFacts DEF EditorsOK, RegsOK
<1>10. Settled(v)'
  <2>1. \A p \in DOMAIN level : p \in Live(v) /\ p # o /\ level[p] = obj[v][p]
    BY DEF Without, Live
  <2>2. \A p : p # o => (hasObject(q, p) <=> hasObject(r, p))
    BY <1>8 DEF hasObject, Without
  <2>3. \A p \in Unsynced(v)' : p \in Unsynced(v) /\ obj'[v][p] = obj[v][p]
    BY <1>9, <2>1, <2>2 DEF Unsynced, Live
  <2> QED BY <1>6, <2>3 DEF Watching, Settled
<1>11. SharedOf(q, level) = Applied(l, m)
  <2>1. \A i \in DOMAIN r.byId : r.byId[i] \in Live(v) /\ (r.byId[i] = o => i = id)
    BY <1>2, WatchingFacts DEF Names
  <2>2. \A i \in DOMAIN r.byId \ {id} : level[r.byId[i]] = obj[v][r.byId[i]]
    BY <2>1 DEF Without, Live
  <2> HIDE DEF level
  <2>3. DOMAIN q.byId = DOMAIN r.byId \ {id} /\ \A i \in DOMAIN q.byId : q.byId[i] = r.byId[i]
    BY <1>8 DEF Without
  <2>4. SharedOf(q, level) = [i \in DOMAIN r.byId \ {id} |-> l[i]]
    BY <2>2, <2>3 DEF SharedOf
  <2>5. Applied(l, m) = [i \in DOMAIN l \ {id} |-> l[i]]
    BY <1>1 DEF Applied, LevelMsg, OneWriter!Effect
  <2>6. DOMAIN l = DOMAIN r.byId
    BY DEF SharedOf
  <2> QED BY <2>4, <2>5, <2>6
<1> QED BY <1>6, <1>7, <1>9, <1>10, <1>11 DEF WatcherTakes, Answers

LEMMA TakesPlace ==
  ASSUME NEW v, Watching(v), HandlePlaceObject(v)
  PROVE  WatcherTakes(v)
<1> DEFINE m == Msg(v)
           id == m.id
           r == reg[v]
           l == SharedOf(r, obj[v])
<1>1. m.type = "place" /\ id \notin DOMAIN r.byId
  BY DEF HandlePlaceObject, Receives, Watching, LevelMsg
<1>2. (IF v = Host THEN canonicalPeerObjectId(Peer, id) ELSE id) = id
  <2>1. id \in ProperIds /\ (v = Host => id > IdBase)
    BY <1>1, WatchingFacts, InboxMessage
  <2> QED BY <2>1, CanonicalId
<1>3. peerHasPermission(v, "canEdit")
  BY WatchingFacts, AllAllowed DEF builderFlags
<1>4. PICK o \in Heap[v] \ Live(v) : /\ obj' = [obj EXCEPT ![v] = With(obj[v], o, m.c)]
                                     /\ reg' = [reg EXCEPT ![v] = bindObject(r, id, o)]
  BY <1>2, <1>3 DEF HandlePlaceObject
<1> DEFINE q == bindObject(r, id, o)
           level == With(obj[v], o, m.c)
<1>5. UNCHANGED <<conn, link, base>>
  BY DEF HandlePlaceObject, session
<1>6. Answers(v)
  BY WatchingFacts, EditHandlersAnswer
<1>7. q.byId = With(r.byId, id, o) /\ q.byPtr = With(r.byPtr, o, id)
  <2>1. RegistryOK(r) /\ ~hasObject(r, o) /\ ~hasNetworkId(r, id)
    BY <1>1, WatchingFacts DEF hasNetworkId
  <2> DEFINE otherId == {i \in DOMAIN r.byId : hasObject(r, o) /\ i = r.byPtr[o] /\ i # id}
             otherPtr == {p \in DOMAIN r.byPtr : hasNetworkId(r, id) /\ p = r.byId[id] /\ p # o}
  <2>2. otherId = {} /\ otherPtr = {}
    BY <2>1
  <2>3. Without(r.byId, {}) = r.byId /\ Without(r.byPtr, {}) = r.byPtr
    BY <2>1 DEF Without, RegistryOK, IsRegistry, IsMap
  <2> QED BY <2>1, <2>2, <2>3 DEF bindObject, RegistryOK, IsRegistry
<1> HIDE DEF q
<1>8. /\ obj'[v] = level /\ reg'[v] = q
      /\ \A n \in Nodes : n # v => obj'[n] = obj[n] /\ reg'[n] = reg[n]
  BY <1>4, WatchingFacts DEF EditorsOK, RegsOK, q
<1>9. DOMAIN level = Live(v) \cup {o} /\ level[o] = m.c /\ \A p \in Live(v) : level[p] = obj[v][p]
  BY DEF With, Live
<1> HIDE DEF level
<1>10. Settled(v)'
  <2>1. \A p : hasObject(q, p) <=> p = o \/ hasObject(r, p)
    BY <1>7 DEF hasObject, With
  <2>2. \A p \in Unsynced(v)' : p \in Unsynced(v) /\ obj'[v][p] = obj[v][p]
    BY <1>8, <1>9, <2>1 DEF Unsynced, Live
  <2> QED BY <1>5, <2>2 DEF Watching, Settled
<1>11. SharedOf(q, level) = Applied(l, m)
  <2>1. \A i \in DOMAIN r.byId : r.byId[i] \in Live(v)
    BY WatchingFacts DEF Names
  <2>2. DOMAIN q.byId = DOMAIN r.byId \cup {id} /\ q.byId[id] = o /\ \A i \in DOMAIN r.byId : q.byId[i] = r.byId[i]
    BY <1>1, <1>7 DEF With
  <2>3. SharedOf(q, level) = [i \in DOMAIN r.byId \cup {id} |-> IF i = id THEN m.c ELSE l[i]]
    BY <1>1, <1>9, <2>1, <2>2 DEF SharedOf
  <2>4. Applied(l, m) = [i \in DOMAIN l \cup {id} |-> IF i = id THEN m.c ELSE l[i]]
    BY <1>1 DEF Applied, LevelMsg, OneWriter!Effect
  <2>5. DOMAIN l = DOMAIN r.byId
    BY DEF SharedOf
  <2> QED BY <2>3, <2>4, <2>5
<1> QED BY <1>5, <1>6, <1>8, <1>10, <1>11 DEF WatcherTakes, Answers

LEMMA WatcherHandles ==
  ASSUME NEW v, Watching(v), Handle(v)
  PROVE  WatcherTakes(v)
<1>1. CASE HandlePlaceObject(v)
  BY <1>1, TakesPlace
<1>2. CASE HandleDeleteObject(v)
  BY <1>2, TakesDelete
<1>3. CASE HandleCommitEdit(v)
  BY <1>3, TakesCommit
<1>4. CASE HandleUnlockObject(v) \/ (v = Host /\ HandleLockRequest)
  BY <1>4, TakesLock
<1>5. ~HandleEof(v) /\ ~(v = Host /\ HandleStateResyncRequest)
      /\ ~(v = Peer /\ (HandleLockReply \/ HandlePermissionUpdate \/ HandleStateSnapshot))
  <2>1. Msg(v).type \notin {"eof", "resync", "lock_granted", "lock_denied", "permission_update", "chunk"}
    BY DEF Watching, HookTypes
  <2> QED BY <2>1 DEF HandleEof, HandleStateResyncRequest, HandleLockReply, HandlePermissionUpdate,
                      HandleStateSnapshot, Receives
<1> QED BY <1>1, <1>2, <1>3, <1>4, <1>5 DEF Handle

-----------------------------------------------------------------------------
(***************************************************************************)
(* LiveSync implements SharedLevel.                                        *)
(***************************************************************************)
Watcher == Other(writer)

AllOfTypes(q, T) == \A k \in DOMAIN q : q[k].type \in T

LiveInv ==
  /\ AliveInv /\ writer \in Nodes
  /\ \A n \in Nodes : conn[n] = conn[writer] /\ link[n] = conn[writer]
  /\ Distinct(obj[writer]) /\ Exact(reg[writer], obj[writer])
  /\ AllOfTypes(chan[writer], ReplyTypes) /\ AllOfTypes(chan[Watcher], HookTypes)
  /\ Settled(Watcher)
  /\ Writes(SharedOf(reg[Watcher], obj[Watcher]), Changes(chan[Watcher]), SharedOf(reg[writer], obj[writer]))

LevelStep == [OneWriter!LevelNext]_(OneWriter!levelVars)

LEMMA TypedBoth ==
  ASSUME NEW T, NEW q, \E S : q \in Seq(S), AllOfTypes(q, T), NEW msgs, OfTypes(msgs, T)
  PROVE  AllOfTypes(q \o msgs, T)
<1>1. PICK S : q \in Seq(S)
  OBVIOUS
<1>2. PICK U : msgs \in Seq(U) /\ \A m \in U : m.type \in T
  BY Zenon DEF OfTypes
<1>3. \A k \in DOMAIN (q \o msgs) : (k \in DOMAIN q /\ (q \o msgs)[k] = q[k]) \/ (q \o msgs)[k] \in U
  <2> TAKE k \in DOMAIN (q \o msgs)
  <2>1. CASE k <= Len(q)
    BY <1>1, <1>2, <2>1
  <2>2. CASE ~(k <= Len(q))
    <3>1. k - Len(q) \in 1..Len(msgs) /\ (q \o msgs)[k] = msgs[k - Len(q)]
      BY <1>1, <1>2, <2>2
    <3> QED BY <1>2, <3>1, ElementOfSeq
  <2> QED BY <2>1, <2>2
<1> QED BY <1>2, <1>3 DEF AllOfTypes

LEMMA TypedTail ==
  ASSUME NEW T, NEW q, \E S : q \in Seq(S), q # <<>>, AllOfTypes(q, T)
  PROVE  AllOfTypes(Tail(q), T)
<1>1. PICK S : q \in Seq(S)
  OBVIOUS
<1> QED BY <1>1, TailOfQueue DEF AllOfTypes

LEMMA NothingMore ==
  ASSUME NEW q, \E S : q \in Seq(S)
  PROVE  q \o <<>> = q
  OBVIOUS

LEMMA HeadAndRest ==
  ASSUME NEW m, NEW L, NEW rest \in Seq(L)
  PROVE  <<m>> \o rest # <<>> /\ Head(<<m>> \o rest) = m /\ Tail(<<m>> \o rest) = rest
<1> DEFINE T == L \cup {m}
<1>1. rest \in Seq(T) /\ <<m>> \in Seq(T)
  BY SeqMonotonic
<1>2. Len(<<m>> \o rest) = 1 + Len(rest) /\ Len(rest) \in Nat
  BY <1>1
<1>3. (<<m>> \o rest)[1] = m /\ <<m>> \o rest \in Seq(T)
  BY <1>1
<1>4. \A k \in 1..Len(rest) : (<<m>> \o rest)[k + 1] = rest[k]
  BY <1>1
<1>5. Tail(<<m>> \o rest) = rest
  BY <1>1, <1>2, <1>3, <1>4
<1> QED BY <1>2, <1>3, <1>5

LEMMA WritesNothing ==
  ASSUME NEW l, NEW l2, Writes(l, <<>>, l2)
  PROVE  l2 = l
<1>1. Len(<<>>) = 0
  OBVIOUS
<1>2. PICK h : Stages(l, <<>>, h) /\ h[0] = l2
  BY <1>1 DEF Writes
<1>3. h[0] = l
  BY <1>1, <1>2 DEF Stages, Through
<1> QED BY <1>2, <1>3

LEMMA LiveFacts ==
  ASSUME LiveInv
  PROVE  /\ SyncInv /\ CalmInv /\ EditorsOK /\ RegsOK /\ writer \in Nodes /\ Watcher \in Nodes
         /\ Watcher # writer /\ Other(Watcher) = writer /\ \A n \in Nodes : n = writer \/ n = Watcher
         /\ chan = [n \in Nodes |-> chan[n]]
         /\ \A n \in Nodes : \E S : chan[n] \in Seq(S)
         /\ Ready(writer)
         /\ Shared(writer) = SharedOf(reg[writer], obj[writer])
         /\ Shared(Watcher) = SharedOf(reg[Watcher], obj[Watcher])
<1>1. SyncInv /\ CalmInv /\ writer \in Nodes /\ \A n \in Nodes : Alive(n)
  BY DEF LiveInv, AliveInv, RolesInv
<1>2. Watcher \in Nodes /\ Watcher # writer /\ Other(Watcher) = writer /\ \A n \in Nodes : n = writer \/ n = Watcher
  BY <1>1, NodesFacts DEF Watcher
<1>3. EditorsOK /\ RegsOK /\ Ready(writer)
  BY <1>1, InvFacts DEF Ready, LiveInv
<1>4. chan = [n \in Nodes |-> chan[n]] /\ \A n \in Nodes : \E S : chan[n] \in Seq(S)
  BY <1>1, Queues
<1> QED BY <1>1, <1>2, <1>3, <1>4, SharedIs

LEMMA CutBoth ==
  ASSUME NEW p, \E S : p \in Seq(S), NEW ops, \E S : ops \in Seq(S), ops # <<>>, NEW q, q = p \o ops
  PROVE  /\ Len(q) > Len(p) /\ SubSeq(q, 1, Len(p)) = p
         /\ SubSeq(q, Len(p) + 1, Len(q)) = ops
<1>1. PICK S : p \in Seq(S)
  OBVIOUS
<1>2. PICK U : ops \in Seq(U)
  OBVIOUS
<1>3. Len(ops) > 0 /\ Len(q) = Len(p) + Len(ops) /\ Len(ops) \in Nat /\ Len(p) \in Nat
  BY <1>1, <1>2
<1>4. SubSeq(q, 1, Len(p)) = p
  BY <1>1, <1>2, <1>3
<1>5. SubSeq(q, Len(p) + 1, Len(q)) = ops
  BY <1>1, <1>2, <1>3
<1> QED BY <1>3, <1>4, <1>5

\* The parts of a step that concern the abstract level.
LEMMA LevelSteps ==
  ASSUME LiveInv, LiveInv', writer' = writer
  PROVE  LET w == writer
             v == Watcher
             level == SharedOf(reg[w], obj[w])
             view == SharedOf(reg[v], obj[v])
             pending == Changes(chan[v])
             level2 == SharedOf(reg'[w], obj'[w])
             view2 == SharedOf(reg'[v], obj'[v])
             pending2 == Changes(chan'[v])
         IN /\ level2 = level /\ view2 = view /\ pending2 = pending => LevelStep
            /\ pending # <<>> /\ view2 = OneWriter!Effect(view, Head(pending))
               /\ pending2 = Tail(pending) /\ level2 = level => LevelStep
            /\ \A ops : ops # <<>> /\ Writes(level, ops, level2) /\ view2 = view
                        /\ pending2 = pending \o ops /\ (\E S : pending \in Seq(S)) => LevelStep
<1> DEFINE w == writer
           v == Watcher
<1>1. Shared(w) = SharedOf(reg[w], obj[w]) /\ Shared(v) = SharedOf(reg[v], obj[v])
  BY LiveFacts
<1>2. Shared(writer)' = SharedOf(reg'[w], obj'[w]) /\ Shared(Other(writer))' = SharedOf(reg'[v], obj'[v])
  <2>1. w \in Nodes /\ v \in Nodes /\ \A n \in Nodes : Alive(n)'
    BY LiveFacts DEF LiveInv, AliveInv
  <2>2. \A n \in Nodes : Shared(n)' = SharedOf(reg'[n], obj'[n])
    <3> TAKE n \in Nodes
    <3>1. {i \in DOMAIN reg'[n].byId : reg'[n].byId[i] \in Live(n)'} = DOMAIN reg'[n].byId
      BY <2>1 DEF Alive, Names
    <3> QED BY <3>1 DEF Shared, SharedOf, Live
  <2> QED BY <2>1, <2>2 DEF Watcher, Shared, Live
<1>3. Changes(chan[Other(writer)])' = Changes(chan'[v])
  BY DEF Watcher, Changes, LevelMsg
<1>4. Changes(chan[Other(writer)]) = Changes(chan[v]) /\ Shared(Other(writer)) = Shared(v)
  BY DEF Watcher
<1> DEFINE level == SharedOf(reg[w], obj[w])
           view == SharedOf(reg[v], obj[v])
           pending == Changes(chan[v])
           level2 == SharedOf(reg'[w], obj'[w])
           view2 == SharedOf(reg'[v], obj'[v])
           pending2 == Changes(chan'[v])
<1>5. ASSUME level2 = level, view2 = view, pending2 = pending
      PROVE  LevelStep
  <2>1. Shared(writer)' = Shared(writer)
    BY <1>1, <1>2, <1>5
  <2>2. Shared(Other(writer))' = Shared(Other(writer))
    BY <1>1, <1>2, <1>4, <1>5
  <2>3. Changes(chan[Other(writer)])' = Changes(chan[Other(writer)])
    BY <1>3, <1>4, <1>5
  <2> QED BY ONLY <2>1, <2>2, <2>3 DEF LevelStep, OneWriter!levelVars
<1>6. ASSUME pending # <<>>, view2 = OneWriter!Effect(view, Head(pending)), pending2 = Tail(pending),
             level2 = level
      PROVE  LevelStep
  <2>1. Shared(writer)' = Shared(writer)
    BY <1>1, <1>2, <1>6
  <2>2. Shared(Other(writer))' = OneWriter!Effect(Shared(Other(writer)), Head(Changes(chan[Other(writer)])))
    BY <1>1, <1>2, <1>4, <1>6
  <2>3. Changes(chan[Other(writer)])' = Tail(Changes(chan[Other(writer)])) /\ Changes(chan[Other(writer)]) # <<>>
    BY <1>3, <1>4, <1>6
  <2>4. OneWriter!Watch
    BY ONLY <2>1, <2>2, <2>3 DEF OneWriter!Watch
  <2> QED BY <2>4 DEF LevelStep, OneWriter!LevelNext
<1>7. ASSUME NEW ops, ops # <<>>, Writes(level, ops, level2), view2 = view, pending2 = pending \o ops,
             \E S : pending \in Seq(S)
      PROVE  LevelStep
  <2>1. Shared(Other(writer))' = Shared(Other(writer))
    BY <1>1, <1>2, <1>4, <1>7
  <2>2. ops \in Seq(OneWriter!LevelOps)
    BY <1>7 DEF Writes
  <2>3. level2 = OneWriter!Effects(level, ops)
        /\ \A k \in DOMAIN ops : /\ ops[k] \in OneWriter!LevelOps
                                 /\ ops[k].type = "place" <=>
                                      ops[k].id \notin DOMAIN OneWriter!Effects(level, SubSeq(ops, 1, k - 1))
    BY <1>7, WritesEffects
  <2> HIDE DEF level, level2, view, view2, pending, pending2
  <2>4. /\ Len(pending2) > Len(pending) /\ SubSeq(pending2, 1, Len(pending)) = pending
        /\ SubSeq(pending2, Len(pending) + 1, Len(pending2)) = ops
    BY <1>7, <2>2, CutBoth
  <2>5. Shared(writer) = level /\ Shared(writer)' = level2
        /\ Changes(chan[Other(writer)]) = pending /\ Changes(chan[Other(writer)])' = pending2
    BY <1>1, <1>2, <1>3, <1>4 DEF level, level2, pending, pending2
  <2>6. OneWriter!Write
    BY ONLY <2>1, <2>3, <2>4, <2>5 DEF OneWriter!Write
  <2> QED BY <2>6 DEF LevelStep, OneWriter!LevelNext
<1> QED BY <1>5, <1>6, <1>7

\* What the writer does is a change of the level, or nothing to it.
LEMMA WriterStep ==
  ASSUME LiveInv, AliveInv', writer' = writer, WriterEdits(writer)
  PROVE  LiveInv' /\ LevelStep
<1> DEFINE w == writer
           v == Watcher
           level == SharedOf(reg[w], obj[w])
           view == SharedOf(reg[v], obj[v])
           pending == Changes(chan[v])
           level2 == SharedOf(reg'[w], obj'[w])
           view2 == SharedOf(reg'[v], obj'[v])
           pending2 == Changes(chan'[v])
<1>1. /\ conn' = conn /\ link' = link
      /\ obj'[v] = obj[v] /\ reg'[v] = reg[v] /\ base'[v] = base[v]
      /\ Distinct(obj'[w]) /\ Exact(reg'[w], obj'[w])
  BY LiveFacts DEF WriterEdits
<1>2. PICK msgs : /\ OfTypes(msgs, HookTypes) /\ Post(w, msgs)
                  /\ Writes(level, Changes(msgs), level2)
                  /\ conn[w] \/ Changes(msgs) = <<>>
  BY DEF WriterEdits
<1>3. PICK S : chan[v] \in Seq(S) /\ msgs \in Seq(S)
  <2>1. PICK T : chan[v] \in Seq(T)
    BY LiveFacts
  <2>2. PICK U : msgs \in Seq(U)
    BY <1>2, Zenon DEF OfTypes
  <2>3. chan[v] \in Seq(T \cup U) /\ msgs \in Seq(T \cup U)
    BY <2>1, <2>2, SeqMonotonic
  <2> QED BY <2>3
<1>4. pending \in Seq({m \in S : LevelMsg(m)})
  BY <1>3, ChangesTypes
<1>5. /\ chan'[w] = chan[w] /\ AllOfTypes(chan'[v], HookTypes)
      /\ pending2 = pending \o Changes(msgs)
  <2>1. AllOfTypes(chan[v], HookTypes)
    BY DEF LiveInv
  <2>2. CASE conn[w]
    <3>1. chan' = [chan EXCEPT ![v] = chan[v] \o msgs]
      BY <1>2, <2>2, LiveFacts DEF Post, Sent, LiveInv, Watcher
    <3>2. chan'[v] = chan[v] \o msgs /\ chan'[w] = chan[w]
      BY <3>1, LiveFacts
    <3>3. AllOfTypes(chan[v] \o msgs, HookTypes)
      BY <1>2, <1>3, <2>1, TypedBoth
    <3>4. Changes(chan[v] \o msgs) = Changes(chan[v]) \o Changes(msgs)
      BY <1>3, ChangesOfBoth
    <3> QED BY <3>2, <3>3, <3>4
  <2>3. CASE ~conn[w]
    <3>1. chan' = chan /\ Changes(msgs) = <<>>
      BY <1>2, <2>3 DEF Post, Sent
    <3>2. pending \o <<>> = pending
      <4> HIDE DEF pending
      <4> QED BY <1>4, NothingMore
    <3> QED BY <2>1, <3>1, <3>2
  <2> QED BY <2>2, <2>3
<1>6. view2 = view
  BY <1>1
<1>7. Settled(v)'
  <2>1. Watcher' = Watcher
    BY DEF Watcher, Other
  <2>2. Settled(v)
    BY DEF LiveInv
  <2>3. Settled(Watcher)'
    BY <1>1, <2>1, <2>2 DEF Settled, Unsynced, Live
  <2> QED BY <2>3
<1>8. Writes(view, pending, level)
  BY DEF LiveInv
<1> HIDE DEF level, view, pending, level2, view2, pending2
<1>9. Writes(view2, pending2, level2)
  BY <1>2, <1>5, <1>6, <1>8, WritesAll
<1>10. LiveInv'
  <2>1. Watcher' = v
    BY DEF Watcher, Other
  <2>2. writer' \in Nodes /\ \A n \in Nodes : conn'[n] = conn'[w] /\ link'[n] = conn'[w]
    BY <1>1 DEF LiveInv
  <2>3. AllOfTypes(chan'[w], ReplyTypes)
    BY <1>5 DEF LiveInv
  <2>4. Writes(SharedOf(reg'[v], obj'[v]), Changes(chan'[v]), SharedOf(reg'[w], obj'[w]))
    BY <1>9 DEF view2, pending2, level2
  <2>5. Writes(SharedOf(reg[Watcher], obj[Watcher]), Changes(chan[Watcher]), SharedOf(reg[writer], obj[writer]))'
    BY <2>1, <2>4
  <2>6. AllOfTypes(chan'[Watcher'], HookTypes)
    BY <1>5, <2>1
  <2> QED BY <1>1, <1>7, <2>1, <2>2, <2>3, <2>5, <2>6 DEF LiveInv, Distinct, Exact, AllOfTypes
<1>11. LevelStep
  <2>1. CASE Changes(msgs) = <<>>
    <3>1. level2 = level
      BY <1>2, <2>1, WritesNothing
    <3>2. pending2 = pending
      BY <1>4, <1>5, <2>1, NothingMore
    <3> QED BY <1>6, <1>10, <3>1, <3>2, LevelSteps DEF level, level2, view, view2, pending, pending2
  <2>2. CASE Changes(msgs) # <<>>
    <3>1. \E T : pending \in Seq(T)
      BY <1>4
    <3>2. PICK ops : ops = Changes(msgs)
      OBVIOUS
    <3>3. ops # <<>> /\ Writes(level, ops, level2) /\ pending2 = pending \o ops
      BY <1>2, <1>5, <2>2, <3>2
    <3> QED BY <1>6, <1>10, <3>1, <3>3, LevelSteps DEF level, level2, view, view2, pending, pending2
  <2> QED BY <2>1, <2>2
<1> QED BY <1>10, <1>11

\* The invariant after a step, from its parts.
LEMMA LiveAfter ==
  ASSUME LiveInv, AliveInv', writer' = writer,
         \A n \in Nodes : conn'[n] = conn'[writer] /\ link'[n] = conn'[writer],
         SharedOf(reg'[writer], obj'[writer]) = SharedOf(reg[writer], obj[writer]),
         Distinct(obj'[writer]), Exact(reg'[writer], obj'[writer]),
         AllOfTypes(chan'[writer], ReplyTypes), AllOfTypes(chan'[Watcher], HookTypes),
         Settled(Watcher)',
         Writes(SharedOf(reg'[Watcher], obj'[Watcher]), Changes(chan'[Watcher]),
                SharedOf(reg'[writer], obj'[writer]))
  PROVE  LiveInv'
<1>1. Watcher' = Watcher
  BY DEF Watcher, Other
<1>2. Writes(SharedOf(reg[Watcher], obj[Watcher]), Changes(chan[Watcher]), SharedOf(reg[writer], obj[writer]))'
  BY <1>1
<1>3. AllOfTypes(chan'[Watcher'], HookTypes)
  BY <1>1
<1>4. writer' \in Nodes
  BY LiveFacts
<1> QED BY <1>1, <1>2, <1>3, <1>4 DEF LiveInv, Distinct, Exact, AllOfTypes

\* Whatever the watcher receives is the next change, or none.
LEMMA WatcherStep ==
  ASSUME LiveInv, AliveInv', writer' = writer, Handle(Watcher)
  PROVE  LiveInv' /\ LevelStep
<1> DEFINE w == writer
           v == Watcher
           m == Msg(v)
           level == SharedOf(reg[w], obj[w])
           view == SharedOf(reg[v], obj[v])
           pending == Changes(chan[v])
           level2 == SharedOf(reg'[w], obj'[w])
           view2 == SharedOf(reg'[v], obj'[v])
           pending2 == Changes(chan'[v])
<1>1. PICK S : chan[v] \in Seq(S)
  BY LiveFacts
<1>2. chan[v] # <<>> /\ Receives(v, m.type)
  BY DEF Handle, HandlePlaceObject, HandleDeleteObject, HandleCommitEdit, HandleUnlockObject, HandleEof,
         HandleLockRequest, HandleStateResyncRequest, HandleLockReply, HandlePermissionUpdate,
         HandleStateSnapshot, Receives
<1>3. m.type \in HookTypes
  <2>1. AllOfTypes(chan[v], HookTypes)
    BY DEF LiveInv
  <2>2. 1 \in DOMAIN chan[v] /\ m = chan[v][1]
    BY <1>2, LiveFacts, NextMessage
  <2> QED BY <2>1, <2>2 DEF AllOfTypes
<1>4. Writes(view, pending, level)
  BY DEF LiveInv
<1>5. pending = IF LevelMsg(m) THEN <<m>> \o Changes(Tail(chan[v])) ELSE Changes(Tail(chan[v]))
  BY <1>1, <1>2, ChangesOfHead DEF Msg
<1>6. Tail(chan[v]) \in Seq(S) /\ AllOfTypes(Tail(chan[v]), HookTypes)
  <2>1. AllOfTypes(chan[v], HookTypes)
    BY DEF LiveInv
  <2> QED BY <1>1, <1>2, <2>1, TypedTail
<1>7. Changes(Tail(chan[v])) \in Seq({x \in S : LevelMsg(x)})
  BY <1>6, ChangesTypes
<1>8. LevelMsg(m) => pending # <<>> /\ Head(pending) = m /\ Tail(pending) = Changes(Tail(chan[v]))
  <2> DEFINE rest == Changes(Tail(chan[v]))
             L == {x \in S : LevelMsg(x)}
  <2> HIDE DEF rest, L
  <2>1. rest \in Seq(L)
    BY <1>7 DEF rest, L
  <2>2. <<m>> \o rest # <<>> /\ Head(<<m>> \o rest) = m /\ Tail(<<m>> \o rest) = rest
    BY <2>1, HeadAndRest
  <2> QED BY <1>5, <2>2 DEF rest
<1> HIDE DEF pending, m
<1>9. LevelMsg(m) => /\ m.type = "place" <=> m.id \notin DOMAIN view
                     /\ Writes(OneWriter!Effect(view, m), Changes(Tail(chan[v])), level)
  BY <1>4, <1>8, WritesTail
<1>10. DOMAIN view = DOMAIN reg[v].byId
  BY DEF SharedOf
<1>11. Watching(v)
  <2>1. AliveInv /\ v \in Nodes /\ Settled(v) /\ \A n \in Nodes : conn[n] = conn[v] /\ link[n] = conn[v]
    BY LiveFacts DEF LiveInv
  <2>2. LevelMsg(m) => (m.type = "place" <=> m.id \notin DOMAIN reg[v].byId)
    BY <1>9, <1>10
  <2> QED BY <1>2, <1>3, <2>1, <2>2 DEF Watching, m
<1>12. WatcherTakes(v)
  BY <1>11, WatcherHandles
<1>13. conn[v] /\ link[v] /\ conn[w]
  BY <1>11, WatchingFacts, LiveFacts DEF Watching
<1>14. /\ UNCHANGED <<conn, link, base>> /\ obj'[w] = obj[w] /\ reg'[w] = reg[w]
       /\ view2 = Applied(view, m) /\ Settled(v)'
  BY <1>12, LiveFacts DEF WatcherTakes, m
<1>15. PICK replies : OfTypes(replies, ReplyTypes) /\ Consume(v, replies)
  BY <1>12 DEF WatcherTakes
<1>16. chan'[v] = Tail(chan[v]) /\ chan'[w] = chan[w] \o replies
  <2> DEFINE taken == [chan EXCEPT ![v] = Tail(chan[v])]
  <2>1. chan' = [taken EXCEPT ![w] = taken[w] \o replies]
    BY <1>13, <1>15, LiveFacts DEF Consume, Sent
  <2>2. taken[v] = Tail(chan[v]) /\ taken[w] = chan[w] /\ taken = [n \in Nodes |-> taken[n]]
    BY LiveFacts
  <2> HIDE DEF taken
  <2> QED BY <2>1, <2>2, LiveFacts
<1>17. AllOfTypes(chan'[w], ReplyTypes) /\ AllOfTypes(chan'[v], HookTypes)
  <2>1. AllOfTypes(chan[w], ReplyTypes)
    BY DEF LiveInv
  <2>2. AllOfTypes(chan[w] \o replies, ReplyTypes)
    BY <1>15, <2>1, LiveFacts, TypedBoth
  <2> QED BY <1>6, <1>16, <2>2
<1>18. level2 = level
  BY <1>14
<1>19. pending2 = Changes(Tail(chan[v]))
  BY <1>16
<1>20. Writes(view2, pending2, level2)
  <2>1. CASE LevelMsg(m)
    BY <1>9, <1>14, <1>18, <1>19, <2>1 DEF Applied
  <2>2. CASE ~LevelMsg(m)
    BY <1>4, <1>5, <1>14, <1>18, <1>19, <2>2 DEF Applied, pending, m
  <2> QED BY <2>1, <2>2
<1>21. LiveInv'
  <2>1. \A n \in Nodes : conn'[n] = conn'[w] /\ link'[n] = conn'[w]
    BY <1>14 DEF LiveInv
  <2>2. Distinct(obj'[w]) /\ Exact(reg'[w], obj'[w])
    BY <1>14 DEF LiveInv
  <2> QED BY <1>14, <1>17, <1>18, <1>20, <2>1, <2>2, LiveAfter
<1> HIDE DEF level, view, level2, view2, pending2
<1>22. LevelStep
  <2>1. CASE LevelMsg(m)
    <3>1. pending # <<>> /\ view2 = OneWriter!Effect(view, Head(pending)) /\ pending2 = Tail(pending)
      BY <1>8, <1>14, <1>19, <2>1 DEF Applied
    <3> QED BY <1>18, <1>21, <3>1, LevelSteps DEF level, level2, view, view2, pending, pending2
  <2>2. CASE ~LevelMsg(m)
    <3>1. view2 = view /\ pending2 = pending
      BY <1>5, <1>14, <1>19, <2>2 DEF Applied, pending, m
    <3> QED BY <1>18, <1>21, <3>1, LevelSteps DEF level, level2, view, view2, pending, pending2
  <2> QED BY <2>1, <2>2
<1> QED BY <1>21, <1>22

\* A step that changes no shared object and sends no change.
LEMMA QuietStep ==
  ASSUME LiveInv, AliveInv', writer' = writer,
         \A n \in Nodes : conn'[n] = conn'[writer] /\ link'[n] = conn'[writer],
         \A n \in Nodes : SharedOf(reg'[n], obj'[n]) = SharedOf(reg[n], obj[n]),
         Distinct(obj'[writer]), Exact(reg'[writer], obj'[writer]), Settled(Watcher)',
         AllOfTypes(chan'[writer], ReplyTypes), chan'[Watcher] = chan[Watcher]
  PROVE  LiveInv' /\ LevelStep
<1>1. writer \in Nodes /\ Watcher \in Nodes
  BY LiveFacts
<1>2. AllOfTypes(chan'[Watcher], HookTypes)
  BY DEF LiveInv
<1>3. Writes(SharedOf(reg'[Watcher], obj'[Watcher]), Changes(chan'[Watcher]),
             SharedOf(reg'[writer], obj'[writer]))
  BY <1>1 DEF LiveInv
<1>4. LiveInv'
  BY <1>1, <1>2, <1>3, LiveAfter
<1>5. Changes(chan'[Watcher]) = Changes(chan[Watcher])
  OBVIOUS
<1>6. LevelStep
  BY <1>1, <1>4, <1>5, LevelSteps
<1> QED BY <1>4, <1>6

LEMMA ConnectStep ==
  ASSUME LiveInv, AliveInv', writer' = writer, Connect
  PROVE  LiveInv' /\ LevelStep
<1>1. UNCHANGED <<obj, reg, chan>> /\ base' = obj /\ \A n \in Nodes : conn'[n] /\ link'[n]
  BY DEF Connect
<1>2. Watcher' = Watcher /\ writer \in Nodes /\ Watcher \in Nodes
  BY LiveFacts DEF Watcher, Other
<1>3. Settled(Watcher)'
  <2>1. \A n \in Nodes : Settled(n)'
    BY <1>1 DEF Settled, Unsynced, Live
  <2> QED BY <1>2, <2>1 DEF Settled, Unsynced, Live
<1>4. \A n \in Nodes : conn'[n] = conn'[writer] /\ link'[n] = conn'[writer]
  <2>1. conn' = [n \in Nodes |-> TRUE] /\ link' = [n \in Nodes |-> TRUE]
    BY DEF Connect
  <2>2. \A n \in Nodes : conn'[n] = TRUE /\ link'[n] = TRUE
    BY <2>1
  <2> QED BY <1>2, <2>2
<1>5. Distinct(obj'[writer]) /\ Exact(reg'[writer], obj'[writer]) /\ AllOfTypes(chan'[writer], ReplyTypes)
  BY <1>1 DEF LiveInv
<1> QED BY <1>1, <1>3, <1>4, <1>5, QuietStep

\* The writer hears only how its lock requests ended.
LEMMA WriterHears ==
  ASSUME LiveInv, AliveInv', writer' = writer, Handle(writer)
  PROVE  LiveInv' /\ LevelStep
<1> DEFINE w == writer
           v == Watcher
<1>1. /\ SyncInv /\ w \in Nodes /\ v \in Nodes /\ v # w /\ Other(w) = v /\ Other(v) = w
      /\ chan = [n \in Nodes |-> chan[n]]
  BY LiveFacts DEF Watcher
<1>2. chan[w] # <<>> /\ Receives(w, Msg(w).type)
  BY DEF Handle, HandlePlaceObject, HandleDeleteObject, HandleCommitEdit, HandleUnlockObject, HandleEof,
         HandleLockRequest, HandleStateResyncRequest, HandleLockReply, HandlePermissionUpdate,
         HandleStateSnapshot, Receives
<1>3. Msg(w).type \in ReplyTypes
  <2>1. 1 \in DOMAIN chan[w] /\ Msg(w) = chan[w][1]
    BY <1>1, <1>2, NextMessage
  <2> QED BY <2>1 DEF LiveInv, AllOfTypes
<1>4. w = Peer /\ HandleLockReply
  <2>1. Msg(w).type \notin {"place", "delete", "commit", "unlock", "eof", "lock_request", "resync",
                            "permission_update", "chunk"}
    BY <1>3 DEF ReplyTypes
  <2> QED BY <2>1 DEF Handle, HandlePlaceObject, HandleDeleteObject, HandleCommitEdit, HandleUnlockObject,
                      HandleEof, HandleLockRequest, HandleStateResyncRequest, HandlePermissionUpdate,
                      HandleStateSnapshot, Receives
<1>5. UNCHANGED <<obj, reg, base, conn, link>> /\ Consume(w, <<>>)
  BY <1>4 DEF HandleLockReply, session
<1>6. chan'[w] = Tail(chan[w]) /\ chan'[v] = chan[v]
  <2> DEFINE taken == [chan EXCEPT ![w] = Tail(chan[w])]
  <2>1. chan' = [taken EXCEPT ![v] = taken[v] \o <<>>] \/ chan' = taken
    BY <1>1, <1>5 DEF Consume, Sent
  <2>2. taken[w] = Tail(chan[w]) /\ taken[v] = chan[v] /\ taken = [n \in Nodes |-> taken[n]]
    BY <1>1
  <2>3. chan[v] \o <<>> = chan[v]
    BY <1>1, LiveFacts, NothingMore
  <2> HIDE DEF taken
  <2> QED BY <1>1, <2>1, <2>2, <2>3
<1>7. AllOfTypes(chan'[w], ReplyTypes)
  <2>1. AllOfTypes(chan[w], ReplyTypes)
    BY DEF LiveInv
  <2> QED BY <1>1, <1>2, <1>6, <2>1, LiveFacts, TypedTail
<1>8. Settled(Watcher)'
  <2>1. Watcher' = Watcher /\ Settled(Watcher)
    BY DEF LiveInv, Watcher, Other
  <2> QED BY <1>5, <2>1 DEF Settled, Unsynced, Live
<1>9. \A n \in Nodes : SharedOf(reg'[n], obj'[n]) = SharedOf(reg[n], obj[n])
  BY <1>5
<1>10. \A n \in Nodes : conn'[n] = conn'[w] /\ link'[n] = conn'[w]
  BY <1>5 DEF LiveInv
<1>11. Distinct(obj'[w]) /\ Exact(reg'[w], obj'[w])
  BY <1>5 DEF LiveInv
<1> QED BY <1>6, <1>7, <1>8, <1>9, <1>10, <1>11, QuietStep

\* The watcher's scan finds nothing to announce.
LEMMA WatcherScans ==
  ASSUME LiveInv, AliveInv', writer' = writer, Discover(Watcher)
  PROVE  LiveInv' /\ LevelStep
<1> DEFINE w == writer
           v == Watcher
           S == toDiscover(v)
           count == Cardinality(S)
           first == firstFree(v)
<1>1. /\ SyncInv /\ CalmInv /\ RegsOK /\ EditorsOK /\ w \in Nodes /\ v \in Nodes /\ v # w /\ Other(w) = v /\ Other(v) = w
      /\ chan = [n \in Nodes |-> chan[n]] /\ \A n \in Nodes : n = w \/ n = v
  BY LiveFacts DEF Watcher
<1>2. conn[v] /\ link[v] /\ hasPermission(v, "canEdit") /\ UNCHANGED <<obj, conn, link>>
  BY <1>1, AllAllowed DEF Discover, LiveInv, session, builderFlags
<1>3. S = {}
  BY <1>2 DEF toDiscover, Settled, LiveInv
<1>4. count = 0
  BY <1>3, FS_EmptySet
<1>5. PICK f \in Numberings(S, first) :
        LET objectOf(i) == CHOOSE o \in S : f[o] = i
            r == IF link[v] THEN bindAll(reg[v], f) ELSE reg[v]
        IN /\ reg' = [reg EXCEPT ![v] = IF v = Host THEN [r EXCEPT !.nextId = @ + count] ELSE r]
           /\ Post(v, [k \in 1..count |->
                        [type |-> "place", id |-> first + k - 1,
                         c |-> obj[v][objectOf(first + k - 1)]]])
  BY <1>2 DEF Discover, firstFree
<1> DEFINE r == bindAll(reg[v], f)
           q == IF v = Host THEN [r EXCEPT !.nextId = @ + count] ELSE r
<1>6. reg' = [reg EXCEPT ![v] = q] /\ Post(v, <<>>)
  <2>1. [k \in 1..count |-> [type |-> "place", id |-> first + k - 1,
                             c |-> obj[v][CHOOSE o \in S : f[o] = first + k - 1]]] = <<>>
    <3>1. 1..count = {}
      BY <1>4
    <3> HIDE DEF S, first, count
    <3> QED BY <3>1
  <2> QED BY <1>2, <1>5, <2>1
<1>7. DOMAIN f = {}
  BY <1>3, <1>5 DEF Numberings
<1>8. r.byId = reg[v].byId /\ r.byPtr = reg[v].byPtr
  <2>1. RegistryOK(reg[v])
    BY <1>1, InvFacts
  <2> QED BY <1>7, <2>1 DEF bindAll, RegistryOK, IsRegistry, IsMap
<1>9. q.byId = reg[v].byId /\ q.byPtr = reg[v].byPtr
  <2>1. r = [byId |-> r.byId, byPtr |-> r.byPtr, fps |-> r.fps, nextId |-> r.nextId]
    <3>1. RegistryOK(reg[v]) /\ f \in [{} -> NetIds]
      BY <1>1, <1>3, <1>5, InvFacts DEF Numberings
    <3>2. Bindable(reg[v], {}, f)
      BY <3>1 DEF Bindable
    <3> QED BY <3>2, BindableBound DEF BoundTo, RegistryOK, IsRegistry
  <2> HIDE DEF r
  <2> QED BY <1>8, <2>1
<1> HIDE DEF q, r
<1>10. reg'[v] = q /\ reg'[w] = reg[w]
  BY <1>1, <1>6 DEF RegsOK
<1>11. \A n \in Nodes : SharedOf(reg'[n], obj'[n]) = SharedOf(reg[n], obj[n])
  BY <1>1, <1>2, <1>9, <1>10 DEF SharedOf
<1>12. chan' = chan
  <2>1. chan[w] \o <<>> = chan[w]
    BY <1>1, LiveFacts, NothingMore
  <2>2. chan' = [chan EXCEPT ![w] = chan[w] \o <<>>] \/ chan' = chan
    BY <1>1, <1>6 DEF Post, Sent
  <2> QED BY <1>1, <2>1, <2>2
<1>13. Settled(Watcher)'
  <2>1. Watcher' = Watcher /\ Settled(Watcher)
    BY DEF LiveInv, Watcher, Other
  <2>2. Unsynced(v)' = Unsynced(v)
    BY <1>2, <1>9, <1>10, <2>1 DEF Unsynced, Live, hasObject
  <2>3. base'[v] = Without(base[v], S \cup {o \in Live(v) : hasObject(reg[v], o)})
    BY <1>1 DEF Discover, EditorsOK
  <2>4. \A o \in Unsynced(v) : o \in DOMAIN base[v] => o \in DOMAIN base'[v] /\ base'[v][o] = base[v][o]
    BY <1>3, <2>3 DEF Unsynced, Without
  <2> QED BY <1>2, <2>1, <2>2, <2>4 DEF Settled
<1>14. \A n \in Nodes : conn'[n] = conn'[w] /\ link'[n] = conn'[w]
  BY <1>2 DEF LiveInv
<1>15. Distinct(obj'[w]) /\ Exact(reg'[w], obj'[w]) /\ AllOfTypes(chan'[w], ReplyTypes)
  BY <1>2, <1>10, <1>12 DEF LiveInv
<1> QED BY <1>11, <1>12, <1>13, <1>14, <1>15, QuietStep

LEMMA WriterActs ==
  ASSUME OneWriterEdits, NEW w, Ready(w), User(w) \/ Discover(w)
  PROVE  WriterEdits(w)
<1>1. w \in Nodes /\ Ops[w] \cap {"move", "resync", "role", "disconnect"} = {}
  BY DEF Ready, OneWriterEdits
<1>2. \A o \in Heap[w], c \in Contents : ~LocalMove(w, o, c)
  BY <1>1 DEF LocalMove, Acts
<1>3. ~RequestStateResync(w) /\ ~Disconnect(w) /\ ~(w = Host /\ \E r \in GrantedRoles : setPeerRole(r))
  BY <1>1 DEF RequestStateResync, Disconnect, setPeerRole, Acts
<1>4. CASE \E o \in Heap[w], c \in Contents : LocalPlace(w, o, c)
  BY <1>4, PlaceEdits
<1>5. CASE \E o \in Heap[w], c \in Contents : GdCreate(w, o, c)
  BY <1>5, GdCreateEdits
<1>6. CASE \E o, o2 \in Heap[w], c \in Contents : LocalTransform(w, o, o2, c)
  BY <1>6, TransformEdits
<1>7. CASE \E o \in Heap[w] : LocalDelete(w, o)
  BY <1>7, DeleteEdits
<1>8. CASE \E o \in Heap[w], dropped \in SUBSET sel[w] : SelectObject(w, o, dropped)
  BY <1>8, SelectEdits
<1>9. CASE DeselectAll(w)
  BY <1>9, DeselectEdits
<1>10. CASE Discover(w)
  BY <1>10, DiscoverEdits
<1> QED BY <1>2, <1>3, <1>4, <1>5, <1>6, <1>7, <1>8, <1>9, <1>10 DEF User

LEMMA OneWriterOnly == OneWriterEdits => OnlyEdits
  BY NodesFacts DEF OneWriterEdits, OnlyEdits

LEMMA LiveStep ==
  ASSUME OneWriterEdits, LiveInv, [LiveNext]_liveVars
  PROVE  LiveInv' /\ LevelStep
<1>1. CASE UNCHANGED liveVars
  <2>1. AliveInv' /\ writer' = writer /\ UNCHANGED vars
    <3>1. [Next]_vars /\ writer' = writer
      BY <1>1 DEF liveVars
    <3> QED BY <1>1, <3>1, OneWriterOnly, AliveStep DEF LiveInv, liveVars
  <2>2. UNCHANGED <<obj, reg, base, chan, conn, link>>
    BY <2>1 DEF vars
  <2>3. Settled(Watcher)'
    <3>1. Watcher' = Watcher /\ Settled(Watcher)
      BY <2>1 DEF LiveInv, Watcher, Other
    <3> QED BY <2>2, <3>1 DEF Settled, Unsynced, Live
  <2>4. \A n \in Nodes : SharedOf(reg'[n], obj'[n]) = SharedOf(reg[n], obj[n])
    BY <2>2
  <2>5. /\ \A n \in Nodes : conn'[n] = conn'[writer] /\ link'[n] = conn'[writer]
        /\ Distinct(obj'[writer]) /\ Exact(reg'[writer], obj'[writer]) /\ AllOfTypes(chan'[writer], ReplyTypes)
    BY <2>2 DEF LiveInv
  <2>6. chan'[Watcher] = chan[Watcher]
    BY <2>2
  <2> QED BY <2>1, <2>3, <2>4, <2>5, <2>6, QuietStep
<1>2. CASE LiveNext
  <2>1. writer' = writer /\ writer \in Nodes /\ \A n \in Nodes : n = writer \/ n = Watcher
    BY <1>2, LiveFacts DEF LiveNext
  <2>2. AliveInv'
    <3>1. Next
      BY <1>2, <2>1 DEF LiveNext, Next
    <3> QED BY <3>1, OneWriterOnly, AliveStep DEF LiveInv
  <2>3. CASE Connect
    BY <2>1, <2>2, <2>3, ConnectStep
  <2>4. CASE User(writer) \/ Discover(writer)
    <3>1. WriterEdits(writer)
      BY <2>4, LiveFacts, WriterActs
    <3> QED BY <2>1, <2>2, <3>1, WriterStep
  <2>5. CASE Discover(Watcher)
    BY <2>1, <2>2, <2>5, WatcherScans
  <2>6. CASE Handle(writer)
    BY <2>1, <2>2, <2>6, WriterHears
  <2>7. CASE Handle(Watcher)
    BY <2>1, <2>2, <2>7, WatcherStep
  <2> QED BY <1>2, <2>1, <2>3, <2>4, <2>5, <2>6, <2>7 DEF LiveNext
<1> QED BY <1>1, <1>2

LEMMA LiveBegins ==
  ASSUME OneWriterEdits, LiveInit
  PROVE  LiveInv /\ OneWriter!LevelInit
<1>1. Init /\ AliveInv /\ writer \in Nodes /\ Watcher \in Nodes
  BY AliveInit, NodesFacts DEF LiveInit, Watcher
<1>2. /\ \A n \in Nodes : chan[n] = <<>> /\ reg[n] = EmptyRegistry /\ ~conn[n] /\ ~link[n] /\ obj[n] \in Levels
  BY <1>1 DEF Init
<1>3. \A n \in Nodes : SharedOf(reg[n], obj[n]) = [i \in {} |-> 0] /\ Exact(reg[n], obj[n])
  BY <1>2 DEF SharedOf, Exact, EmptyRegistry, Empty
<1>4. Changes(chan[Watcher]) = <<>>
  BY <1>1, <1>2, ChangesOfNone
<1>5. Writes(SharedOf(reg[Watcher], obj[Watcher]), Changes(chan[Watcher]), SharedOf(reg[writer], obj[writer]))
  BY <1>1, <1>3, <1>4, WritesNone
<1>6. Settled(Watcher)
  BY <1>1, <1>2 DEF Settled
<1>7. Distinct(obj[writer])
  BY <1>1, <1>2 DEF OneWriterEdits
<1>8. AllOfTypes(chan[writer], ReplyTypes) /\ AllOfTypes(chan[Watcher], HookTypes)
  BY <1>1, <1>2 DEF AllOfTypes
<1>9. \A n \in Nodes : conn[n] = conn[writer] /\ link[n] = conn[writer]
  <2>1. conn[Host] = FALSE /\ conn[Peer] = FALSE /\ link[Host] = FALSE /\ link[Peer] = FALSE
    BY <1>1 DEF Init, Nodes
  <2> QED BY <1>1, <2>1, NodesFacts
<1>10. LiveInv
  BY <1>1, <1>3, <1>5, <1>6, <1>7, <1>8, <1>9 DEF LiveInv
<1>11. Shared(writer) = [i \in {} |-> 0] /\ Shared(Other(writer)) = [i \in {} |-> 0]
       /\ Changes(chan[Other(writer)]) = <<>>
  BY <1>1, <1>3, <1>4, <1>10, LiveFacts DEF Watcher
<1>12. OneWriter!LevelInit
  BY <1>11 DEF OneWriter!LevelInit
<1> QED BY <1>10, <1>12

(***************************************************************************)
(* While one client, host or peer, places, pastes, edits, replaces,        *)
(* deletes and selects, every step of the session is a step of             *)
(* SharedLevel: what its hooks and its scan send are the changes of its    *)
(* level, each new and in their order, and every handler of the watcher    *)
(* makes the next of them, on the object it names.  Left out are drags,    *)
(* resyncs, roles and disconnections, and levels in which two objects      *)
(* look alike.  (That every change is handled at last is the run's part.)  *)
(***************************************************************************)
THEOREM WatcherFollows ==
  ASSUME OneWriterEdits
  PROVE  LiveSpec => OneWriter!LevelSpec
<1>1. LiveInit => LiveInv /\ OneWriter!LevelInit
  BY LiveBegins
<1>2. LiveInv /\ [LiveNext]_liveVars => LiveInv' /\ [OneWriter!LevelNext]_(OneWriter!levelVars)
  BY LiveStep DEF LevelStep
<1> QED BY <1>1, <1>2, PTL DEF LiveSpec, OneWriter!LevelSpec

(***************************************************************************)
(* In such a session the host's and the peer's level hold the same objects *)
(* under the same ids, looking the same, whenever nothing is under way.    *)
(***************************************************************************)
THEOREM LiveLevelsConverge ==
  ASSUME OneWriterEdits
  PROVE  LiveSpec => []Converged
<1>1. LiveInit => LiveInv
  BY LiveBegins
<1>2. LiveInv /\ [LiveNext]_liveVars => LiveInv'
  BY LiveStep
<1>3. LiveInv => Converged
  <2> SUFFICES ASSUME LiveInv, Quiet
               PROVE  Shared(Host) = Shared(Peer)
    BY DEF Converged
  <2>1. chan[Watcher] = <<>> /\ Changes(<<>>) = <<>>
    BY LiveFacts, NodesFacts, ChangesOfNone DEF Quiet
  <2>2. Writes(SharedOf(reg[Watcher], obj[Watcher]), <<>>, SharedOf(reg[writer], obj[writer]))
    BY <2>1 DEF LiveInv
  <2>3. Shared(writer) = Shared(Watcher)
    BY <2>2, LiveFacts, WritesNothing
  <2> QED BY <2>3, LiveFacts, NodesFacts
<1> QED BY <1>1, <1>2, <1>3, PTL DEF LiveSpec

(***************************************************************************)
(* With one client as the writer and a watcher that only handles messages, *)
(* the host's m_objectLocks keeps no lock for a peer that does not have it *)
(* in m_heldLocks, whichever client writes and whatever it deletes: a      *)
(* writing host grants nothing that it could delete under the peer, and a  *)
(* writing peer gives up what it deletes.                                  *)
(***************************************************************************)
LiveLocksInv ==
  /\ writer \in Nodes
  /\ writer = Peer => LocksInv(FALSE)
  /\ writer = Host => UnaskedInv

THEOREM LiveLocksReleased ==
  ASSUME OnlyEdits
  PROVE  LiveSpec => []NoLeakedLock
<1>1. LiveInit => LiveLocksInv
  BY LocksBegin DEF LiveInit, LiveLocksInv
<1>2. LiveLocksInv /\ [LiveNext]_liveVars => LiveLocksInv'
  <2> SUFFICES ASSUME LiveLocksInv, [LiveNext]_liveVars
               PROVE  LiveLocksInv'
    OBVIOUS
  <2>1. writer' = writer /\ (LiveNext \/ UNCHANGED vars)
    BY DEF LiveNext, liveVars
  <2>2. CASE writer = Peer
    <3>1. [LockNext(FALSE)]_vars
      BY <2>1, <2>2 DEF LiveNext, LockNext
    <3>2. LocksInv(FALSE)
      BY <2>2 DEF LiveLocksInv
    <3>3. LocksInv(FALSE)'
      BY <3>1, <3>2, LocksInvStep
    <3> QED BY <2>1, <2>2, <3>3, NodesFacts DEF LiveLocksInv
  <2>3. CASE writer = Host
    <3>1. [UnaskedNext]_vars
      BY <2>1, <2>3 DEF LiveNext, UnaskedNext
    <3>2. UnaskedInv
      BY <2>3 DEF LiveLocksInv
    <3>3. UnaskedInv'
      BY <3>1, <3>2, UnaskedStep
    <3> QED BY <2>1, <2>3, <3>3, NodesFacts DEF LiveLocksInv
  <2> QED BY <2>2, <2>3, NodesFacts DEF LiveLocksInv
<1>3. LiveLocksInv => NoLeakedLock
  BY LocksInvSuffices, UnaskedSuffices, NodesFacts DEF LiveLocksInv
<1> QED BY <1>1, <1>2, <1>3, PTL DEF LiveSpec
=============================================================================
