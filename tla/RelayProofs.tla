----------------------------- MODULE RelayProofs ----------------------------
(***************************************************************************)
(* Theorems about Relay for every number of popups, of presses of Host and *)
(* of connections, from the inductive invariant RelayInv.  It orders the   *)
(* reports of one popup in the queue (a tunnel's end comes before the next *)
(* tunnel's beginning), and counts the references to the popup against     *)
(* them.                                                                   *)
(***************************************************************************)
EXTENDS Relay, TLAPS, SequenceTheorems, FiniteSetTheorems

Reports == {"onReady", "onFail", "onStop", "onFetched"}
Entries == [fn : Reports, to : Layers]

-----------------------------------------------------------------------------
(***************************************************************************)
(* The reports to one popup in a queue q.                                  *)
(***************************************************************************)

At(q, i, fn, l) == q[i].fn = fn /\ q[i].to = l

Waits(q, fn, l) == \E i \in DOMAIN q : At(q, i, fn, l)

ReadyBefore(q, i, l) == \E j \in DOMAIN q : j < i /\ At(q, j, "onReady", l)

ReadyAfter(q, i, l) == \E j \in DOMAIN q : i < j /\ At(q, j, "onReady", l)

\* Between the ends of two tunnels the second one began.
EndsApart(q, l) ==
  \A i, k \in DOMAIN q : i < k /\ At(q, i, "onStop", l) /\ At(q, k, "onStop", l) =>
    \E j \in DOMAIN q : i < j /\ j < k /\ At(q, j, "onReady", l)

\* After every end a tunnel began.
BegunSince(q, l) == \A i \in DOMAIN q : At(q, i, "onStop", l) => ReadyAfter(q, i, l)

\* The end of a tunnel whose beginning is no longer in the queue.
EndsFirst(q, l) == \E i \in DOMAIN q : At(q, i, "onStop", l) /\ ~ReadyBefore(q, i, l)

\* No failure comes after the beginning of a tunnel.
FailsFirst(q, l) == \A i \in DOMAIN q : At(q, i, "onFail", l) => ~ReadyBefore(q, i, l)

\* A tunnel's end is among what is not due.
EndsLater(q, d, l) == \E i \in DOMAIN q : i > d /\ At(q, i, "onStop", l)

Count(q, fns, l) == Cardinality({i \in DOMAIN q : q[i].fn \in fns /\ q[i].to = l})

-----------------------------------------------------------------------------
(***************************************************************************)
(* The invariant.                                                          *)
(***************************************************************************)

begins(l) == owner = l /\ thread \in {"connecting", "hello"}
serves(l) == owner = l /\ thread \in {"serving", "receiving"}

TypesOK ==
  /\ where \in [Layers -> {"unopened", "shown", "closed"}]
  /\ retains \in [Layers -> Int] /\ addr \in [Layers -> BOOLEAN]
  /\ hosts \in 0..MaxHosts
  /\ session \in 0..hosts /\ lastEnd \in {"never", "stopped", "alone"}
  /\ announcer \in [on : BOOLEAN, key : 0..hosts]
  /\ running \in BOOLEAN /\ sock \in {"invalid", "live"} /\ joinable \in BOOLEAN
  /\ thread \in {"none", "connecting", "hello", "serving", "receiving", "ended"}
  /\ owner \in Layers \cup {NoLayer}
  /\ main \in {"idle", "stopping", "joining"} /\ stopper \in Layers \cup {NoLayer}
  /\ queue \in Seq(Entries) /\ due \in 0..Len(queue)
  /\ fetching \in [Layers -> Nat]
  /\ bridges \in [Bridges -> [at : {"none", "accepting", "open", "halfShut", "closed"},
                              to : 0..hosts]]
  /\ died \in {"no", "terminate", "lateStop", "freed"}
  /\ early \subseteq Layers /\ misled \subseteq Layers

\* Who runs when: outside stop() the thread runs exactly as long as m_running
\* says so, and a thread that was not joined belongs to a session that is there
\* or was lost.
ThreadOK ==
  /\ joinable = (thread # "none")
  /\ thread # "none" => owner \in Layers
  /\ alive /\ running => thread \notin {"none", "ended"}
  /\ alive /\ main = "idle" /\ ~running => thread \in {"none", "ended"}
  /\ main # "idle" => due = 0 /\ stopper \in Layers /\ where[stopper] = "shown"
  /\ alive /\ main = "idle" /\ joinable => session # 0 \/ lastEnd = "alone"

PopupsOK ==
  /\ \A k, l \in Layers : where[k] = "shown" /\ where[l] = "shown" => k = l
  /\ \A l \in Layers : where[l] = "unopened" =>
       owner # l /\ fetching[l] = 0 /\ \A i \in DOMAIN queue : queue[i].to # l

AnnouncedOK ==
  main = "idle" /\ session # 0 => announcer.on /\ announcer.key = session

\* The end of a tunnel will find popup l without an address.
Unheard(l) ==
  /\ ~addr[l]
  /\ EndsFirst(queue, l) \/ (serves(l) /\ ~Waits(queue, "onReady", l))

TunnelsApart(l) == EndsApart(queue, l) /\ (serves(l) => BegunSince(queue, l))

\* Once Stop has returned, the end of a tunnel finds no address unless it is
\* called in the frame that is running.
EndsCleared(l) ==
  alive /\ thread = "none" /\ main = "idle" /\ where[l] = "shown" /\ EndsLater(queue, due, l)
    => due = 0 /\ ~addr[l]

Enough(l) ==
  alive /\ l \notin misled =>
    retains[l] >= Outstanding(l) + (IF Unheard(l) THEN 1 ELSE 0)

Exact(l) ==
  alive /\ l \notin early \cup misled =>
    /\ retains[l] = Outstanding(l) /\ ~Unheard(l)
    /\ begins(l) => ~addr[l] /\ ~Waits(queue, "onReady", l)
    /\ FailsFirst(queue, l)
    /\ Waits(queue, "onFail", l) => ~addr[l]

\* What a popup was retained and released bounds what may still release it.
Bounded(l) ==
  /\ retains[l] <= hosts
  /\ retains[l] + hosts >= fetching[l] + Count(queue, Reports, l)
                             + (IF begins(l) THEN 2 ELSE IF serves(l) THEN 1 ELSE 0)
  /\ fetching[l] + Count(queue, {"onFail", "onStop"}, l)
       + (IF begins(l) \/ serves(l) THEN 1 ELSE 0) <= hosts

LayerOK(l) ==
  TunnelsApart(l) /\ EndsCleared(l) /\ Enough(l) /\ Exact(l) /\ Bounded(l)

\* The inductive invariant.
RelayInv ==
  /\ TypesOK /\ ThreadOK /\ PopupsOK /\ AnnouncedOK /\ CrashesOnlyWhen
  /\ \A l \in Layers : LayerOK(l)

-----------------------------------------------------------------------------
(***************************************************************************)
(* Appending a report and taking the first one.                            *)
(***************************************************************************)

Posted(q, f, t) == Append(q, [fn |-> f, to |-> t])

\* The queue with a new report, position by position.
LEMMA AppendedAt ==
  ASSUME NEW q \in Seq(Entries), NEW f \in Reports, NEW t \in Layers
  PROVE  LET p == Posted(q, f, t)
         IN /\ p \in Seq(Entries) /\ Len(p) = Len(q) + 1 /\ Len(q) \in Nat
            /\ DOMAIN p = 1..(Len(q) + 1) /\ DOMAIN q = 1..Len(q)
            /\ \A i \in DOMAIN q : p[i] = q[i]
            /\ p[Len(q) + 1].fn = f /\ p[Len(q) + 1].to = t
<1> DEFINE e == [fn |-> f, to |-> t]
           p == Append(q, e)
<1>1. e \in Entries /\ e.fn = f /\ e.to = t
  BY DEF Entries
<1> HIDE DEF e
<1>2. p \in Seq(Entries) /\ Len(p) = Len(q) + 1 /\ Len(q) \in Nat
      /\ DOMAIN p = 1..(Len(q) + 1) /\ DOMAIN q = 1..Len(q)
      /\ (\A i \in DOMAIN q : p[i] = q[i]) /\ p[Len(q) + 1] = e
  BY <1>1
<1> QED BY <1>1, <1>2 DEF e, Posted

\* The positions of a queue with a new report: the old ones and the last.
LEMMA Appended ==
  ASSUME NEW q \in Seq(Entries), NEW f \in Reports, NEW t \in Layers, NEW p,
         p = Posted(q, f, t)
  PROVE  /\ DOMAIN q \subseteq DOMAIN p /\ Len(q) + 1 \in DOMAIN p
         /\ \A i \in DOMAIN p : i \in DOMAIN q \/ i = Len(q) + 1
         /\ \A i \in DOMAIN q : i \in Nat /\ i < Len(q) + 1
         /\ \A i \in DOMAIN q : \A fn, l : At(p, i, fn, l) <=> At(q, i, fn, l)
         /\ \A fn, l : At(p, Len(q) + 1, fn, l) <=> (fn = f /\ l = t)
         /\ Len(q) \in Nat /\ Len(p) = Len(q) + 1 /\ p \in Seq(Entries)
  BY AppendedAt DEF At

LEMMA AppendWaits ==
  ASSUME NEW q \in Seq(Entries), NEW f \in Reports, NEW t \in Layers, NEW p,
         p = Posted(q, f, t), NEW fn, NEW l
  PROVE  Waits(p, fn, l) <=> (Waits(q, fn, l) \/ (fn = f /\ l = t))
<1>1. /\ DOMAIN q \subseteq DOMAIN p /\ Len(q) + 1 \in DOMAIN p
      /\ \A i \in DOMAIN p : i \in DOMAIN q \/ i = Len(q) + 1
      /\ \A i \in DOMAIN q : At(p, i, fn, l) <=> At(q, i, fn, l)
      /\ At(p, Len(q) + 1, fn, l) <=> (fn = f /\ l = t)
  BY Appended, AppendedAt DEF At
<1> QED BY <1>1 DEF Waits

\* A report appended: what it does to the order of the reports to popup l.
LEMMA AppendOrder ==
  ASSUME NEW q \in Seq(Entries), NEW f \in Reports, NEW t \in Layers, NEW p,
         p = Posted(q, f, t), NEW l
  PROVE  /\ EndsApart(q, l) /\ (t = l /\ f = "onStop" => BegunSince(q, l)) => EndsApart(p, l)
         /\ BegunSince(q, l) /\ ~(t = l /\ f = "onStop") => BegunSince(p, l)
         /\ t = l /\ f = "onReady" => BegunSince(p, l)
         /\ EndsFirst(p, l) =>
              EndsFirst(q, l) \/ (t = l /\ f = "onStop" /\ ~Waits(q, "onReady", l))
         /\ FailsFirst(q, l) /\ (t = l /\ f = "onFail" => ~Waits(q, "onReady", l))
              => FailsFirst(p, l)
<1> DEFINE n == Len(q) + 1
<1>1. /\ DOMAIN q \subseteq DOMAIN p /\ n \in DOMAIN p
      /\ \A i \in DOMAIN p : i \in DOMAIN q \/ i = n
      /\ \A i \in DOMAIN q : i \in Nat /\ i < n
      /\ \A i \in DOMAIN q : \A fn : At(p, i, fn, l) <=> At(q, i, fn, l)
      /\ \A fn : At(p, n, fn, l) <=> (fn = f /\ l = t)
      /\ n \in Nat
  BY Appended, AppendedAt DEF At
<1> HIDE DEF n
<1>2. ASSUME EndsApart(q, l), t = l /\ f = "onStop" => BegunSince(q, l)
      PROVE  EndsApart(p, l)
  <2> SUFFICES ASSUME NEW i \in DOMAIN p, NEW k \in DOMAIN p, i < k,
                      At(p, i, "onStop", l), At(p, k, "onStop", l)
               PROVE  \E j \in DOMAIN p : i < j /\ j < k /\ At(p, j, "onReady", l)
    BY DEF EndsApart
  <2>1. i \in DOMAIN q
    BY <1>1
  <2>2. CASE k \in DOMAIN q
    <3>1. \E j \in DOMAIN q : i < j /\ j < k /\ At(q, j, "onReady", l)
      BY <2>1, <2>2, <1>1, <1>2 DEF EndsApart
    <3> QED BY <3>1, <1>1
  <2>3. CASE k = n
    <3>1. \E j \in DOMAIN q : i < j /\ At(q, j, "onReady", l)
      BY <2>1, <2>3, <1>1, <1>2 DEF BegunSince, ReadyAfter
    <3> QED BY <3>1, <2>3, <1>1
  <2> QED BY <2>2, <2>3, <1>1
<1>3. ASSUME BegunSince(q, l), ~(t = l /\ f = "onStop")
      PROVE  BegunSince(p, l)
  BY <1>1, <1>3 DEF BegunSince, ReadyAfter
<1>4. ASSUME t = l, f = "onReady"
      PROVE  BegunSince(p, l)
  BY <1>1, <1>4 DEF BegunSince, ReadyAfter
<1>5. ASSUME EndsFirst(p, l)
      PROVE  EndsFirst(q, l) \/ (t = l /\ f = "onStop" /\ ~Waits(q, "onReady", l))
  <2>1. PICK i \in DOMAIN p : At(p, i, "onStop", l) /\ ~ReadyBefore(p, i, l)
    BY <1>5 DEF EndsFirst
  <2>2. \A j \in DOMAIN q : j < i => ~At(q, j, "onReady", l)
    BY <2>1, <1>1 DEF ReadyBefore
  <2>3. CASE i \in DOMAIN q
    BY <2>1, <2>2, <2>3, <1>1 DEF EndsFirst, ReadyBefore
  <2>4. CASE i = n
    BY <2>1, <2>2, <2>4, <1>1 DEF Waits
  <2> QED BY <2>3, <2>4, <1>1
<1>6. ASSUME FailsFirst(q, l), t = l /\ f = "onFail" => ~Waits(q, "onReady", l)
      PROVE  FailsFirst(p, l)
  <2> SUFFICES ASSUME NEW i \in DOMAIN p, At(p, i, "onFail", l),
                      NEW j \in DOMAIN p, j < i, At(p, j, "onReady", l)
               PROVE  FALSE
    BY DEF FailsFirst, ReadyBefore
  <2>1. j \in DOMAIN q /\ At(q, j, "onReady", l)
    BY <1>1
  <2>2. CASE i \in DOMAIN q
    BY <2>1, <2>2, <1>1, <1>6 DEF FailsFirst, ReadyBefore
  <2>3. CASE i = n
    BY <2>1, <2>3, <1>1, <1>6 DEF Waits
  <2> QED BY <2>2, <2>3, <1>1
<1> QED BY <1>2, <1>3, <1>4, <1>5, <1>6

\* The positions that Count counts.
Matching(q, fns, l) == {i \in DOMAIN q : q[i].fn \in fns /\ q[i].to = l}

LEMMA CountIsNat ==
  ASSUME NEW q \in Seq(Entries), NEW fns, NEW l
  PROVE  /\ IsFiniteSet(Matching(q, fns, l)) /\ Count(q, fns, l) \in Nat
         /\ Count(q, fns, l) = Cardinality(Matching(q, fns, l))
<1>1. DOMAIN q = 1..Len(q) /\ Len(q) \in Nat
  OBVIOUS
<1>2. IsFiniteSet(1..Len(q))
  BY <1>1, FS_Interval
<1>3. Matching(q, fns, l) \subseteq 1..Len(q)
  BY <1>1 DEF Matching
<1>4. IsFiniteSet(Matching(q, fns, l))
  BY <1>2, <1>3, FS_Subset
<1> QED BY <1>4, FS_CardinalityType DEF Count, Matching

\* A report appended is counted where it is of the kind and to the popup.
LEMMA AppendCount ==
  ASSUME NEW q \in Seq(Entries), NEW f \in Reports, NEW t \in Layers, NEW p,
         p = Posted(q, f, t), NEW fns, NEW l
  PROVE  Count(p, fns, l) = Count(q, fns, l) + (IF f \in fns /\ t = l THEN 1 ELSE 0)
<1> DEFINE n == Len(q) + 1
           A == Matching(q, fns, l)
           B == Matching(p, fns, l)
<1>1. /\ DOMAIN q \subseteq DOMAIN p /\ n \in DOMAIN p
      /\ \A i \in DOMAIN p : i \in DOMAIN q \/ i = n
      /\ \A i \in DOMAIN q : i \in Nat /\ i < n
      /\ n \in Nat /\ p \in Seq(Entries)
  BY Appended
<1>2. \A i \in DOMAIN q : p[i] = q[i]
  BY AppendedAt
<1>3. p[n].fn = f /\ p[n].to = t
  BY AppendedAt
<1> HIDE DEF n
<1>4. n \notin A
  BY <1>1 DEF Matching
<1>5. IF f \in fns /\ t = l THEN B = A \cup {n} ELSE B = A
  BY <1>1, <1>2, <1>3 DEF Matching
<1>6. IsFiniteSet(A) /\ Count(q, fns, l) = Cardinality(A) /\ Count(q, fns, l) \in Nat
      /\ Count(p, fns, l) = Cardinality(B)
  BY CountIsNat, <1>1
<1> HIDE DEF A, B
<1>7. n \notin A => Cardinality(A \cup {n}) = Cardinality(A) + 1
  BY <1>6, FS_AddElement
<1>8. CASE f \in fns /\ t = l
  BY <1>4, <1>5, <1>6, <1>7, <1>8
<1>9. CASE ~(f \in fns /\ t = l)
  BY <1>5, <1>6, <1>9
<1> QED BY <1>8, <1>9

\* The queue without its first report.
LEMMA Called ==
  ASSUME NEW q \in Seq(Entries), q # <<>>, NEW r, r = Tail(q), NEW h, h = Head(q)
  PROVE  /\ r \in Seq(Entries) /\ h \in Entries /\ h = q[1] /\ Len(q) \in Nat \ {0}
         /\ Len(r) = Len(q) - 1 /\ DOMAIN q = 1..Len(q) /\ DOMAIN r = 1..(Len(q) - 1)
         /\ \A i \in DOMAIN r : i + 1 \in DOMAIN q /\ r[i] = q[i + 1]
         /\ \A i \in DOMAIN q : i = 1 \/ (i - 1 \in DOMAIN r /\ r[i - 1] = q[i])
<1>1. Len(q) \in Nat \ {0} /\ DOMAIN q = 1..Len(q)
  OBVIOUS
<1>2. r \in Seq(Entries) /\ h \in Entries /\ h = q[1] /\ Len(r) = Len(q) - 1
  BY <1>1
<1>3. DOMAIN r = 1..(Len(q) - 1)
  BY <1>2
<1>4. \A i \in DOMAIN r : i + 1 \in DOMAIN q /\ r[i] = q[i + 1]
  BY <1>1, <1>3
<1>5. ASSUME NEW i \in DOMAIN q, i # 1
      PROVE  i - 1 \in DOMAIN r /\ r[i - 1] = q[i]
  <2>1. i - 1 \in DOMAIN r /\ (i - 1) + 1 = i
    BY <1>1, <1>3, <1>5
  <2> QED BY <2>1, <1>4
<1> QED BY <1>1, <1>2, <1>3, <1>4, <1>5

LEMMA CalledWaits ==
  ASSUME NEW q \in Seq(Entries), q # <<>>, NEW r, r = Tail(q), NEW fn, NEW l
  PROVE  /\ Waits(q, fn, l) <=> (Waits(r, fn, l) \/ (Head(q).fn = fn /\ Head(q).to = l))
<1> DEFINE h == Head(q)
<1>1. /\ h = q[1] /\ 1 \in DOMAIN q
      /\ \A i \in DOMAIN r : i + 1 \in DOMAIN q /\ r[i] = q[i + 1]
      /\ \A i \in DOMAIN q : i = 1 \/ (i - 1 \in DOMAIN r /\ r[i - 1] = q[i])
  BY Called
<1> HIDE DEF h
<1>2. (\E i \in DOMAIN r : At(r, i, fn, l)) => \E i \in DOMAIN q : At(q, i, fn, l)
  BY <1>1 DEF At
<1>3. h.fn = fn /\ h.to = l => \E i \in DOMAIN q : At(q, i, fn, l)
  BY <1>1 DEF At
<1>4. (\E i \in DOMAIN q : At(q, i, fn, l))
        => (\E i \in DOMAIN r : At(r, i, fn, l)) \/ (h.fn = fn /\ h.to = l)
  BY <1>1 DEF At
<1> QED BY <1>2, <1>3, <1>4 DEF Waits, h

\* The first report taken: what it does to the order of the others.
LEMMA CalledOrder ==
  ASSUME NEW q \in Seq(Entries), q # <<>>, NEW r, r = Tail(q), NEW l
  PROVE  /\ EndsApart(q, l) => EndsApart(r, l)
         /\ BegunSince(q, l) => BegunSince(r, l)
         /\ FailsFirst(q, l) => FailsFirst(r, l)
         /\ EndsFirst(r, l) /\ ~(Head(q).fn = "onReady" /\ Head(q).to = l) => EndsFirst(q, l)
         /\ \A d \in Nat : EndsLater(r, d - 1, l) => EndsLater(q, d, l)
<1> DEFINE h == Head(q)
<1>1. /\ h = q[1] /\ 1 \in DOMAIN q /\ DOMAIN q \subseteq Nat /\ DOMAIN r \subseteq Nat
      /\ \A i \in DOMAIN r : i + 1 \in DOMAIN q
      /\ \A i \in DOMAIN q : i = 1 \/ i - 1 \in DOMAIN r
  BY Called
<1>2. \A i \in DOMAIN r : \A fn : At(r, i, fn, l) <=> At(q, i + 1, fn, l)
  BY Called DEF At
<1>3. \A i \in DOMAIN q : \A fn : i # 1 => (At(q, i, fn, l) <=> At(r, i - 1, fn, l))
  BY Called DEF At
<1>4. \A fn : At(q, 1, fn, l) <=> (h.fn = fn /\ h.to = l)
  BY <1>1 DEF At
<1>5. \A i \in DOMAIN q : i >= 1
  BY Called
<1> HIDE DEF h
<1>6. ASSUME EndsApart(q, l)
      PROVE  EndsApart(r, l)
  <2> SUFFICES ASSUME NEW i \in DOMAIN r, NEW k \in DOMAIN r, i < k,
                      At(r, i, "onStop", l), At(r, k, "onStop", l)
               PROVE  \E j \in DOMAIN r : i < j /\ j < k /\ At(r, j, "onReady", l)
    BY DEF EndsApart
  <2>0. /\ i + 1 \in DOMAIN q /\ k + 1 \in DOMAIN q /\ i + 1 < k + 1
        /\ At(q, i + 1, "onStop", l) /\ At(q, k + 1, "onStop", l)
    BY <1>1, <1>2
  <2>1. PICK j \in DOMAIN q : i + 1 < j /\ j < k + 1 /\ At(q, j, "onReady", l)
    BY <2>0, <1>6 DEF EndsApart
  <2>2. j # 1 /\ j - 1 \in DOMAIN r /\ i < j - 1 /\ j - 1 < k
    BY <2>1, <1>1
  <2> QED BY <2>1, <2>2, <1>3
<1>7. ASSUME BegunSince(q, l)
      PROVE  BegunSince(r, l)
  <2> SUFFICES ASSUME NEW i \in DOMAIN r, At(r, i, "onStop", l)
               PROVE  \E j \in DOMAIN r : i < j /\ At(r, j, "onReady", l)
    BY DEF BegunSince, ReadyAfter
  <2>1. PICK j \in DOMAIN q : i + 1 < j /\ At(q, j, "onReady", l)
    BY <1>1, <1>2, <1>7 DEF BegunSince, ReadyAfter
  <2>2. j # 1 /\ j - 1 \in DOMAIN r /\ i < j - 1
    BY <2>1, <1>1
  <2> QED BY <2>1, <2>2, <1>3
<1>8. ASSUME FailsFirst(q, l)
      PROVE  FailsFirst(r, l)
  <2> SUFFICES ASSUME NEW i \in DOMAIN r, At(r, i, "onFail", l),
                      NEW j \in DOMAIN r, j < i, At(r, j, "onReady", l)
               PROVE  FALSE
    BY DEF FailsFirst, ReadyBefore
  <2>1. i + 1 \in DOMAIN q /\ j + 1 \in DOMAIN q /\ j + 1 < i + 1
    BY <1>1
  <2>2. At(q, i + 1, "onFail", l) /\ At(q, j + 1, "onReady", l)
    BY <1>2
  <2> QED BY <2>1, <2>2, <1>8 DEF FailsFirst, ReadyBefore
<1>9. ASSUME EndsFirst(r, l), ~(h.fn = "onReady" /\ h.to = l)
      PROVE  EndsFirst(q, l)
  <2>1. PICK i \in DOMAIN r : At(r, i, "onStop", l) /\ ~ReadyBefore(r, i, l)
    BY <1>9 DEF EndsFirst
  <2>2. ASSUME NEW j \in DOMAIN q, j < i + 1, At(q, j, "onReady", l)
        PROVE  FALSE
    <3>1. j # 1
      BY <2>2, <1>4, <1>9
    <3>2. j - 1 \in DOMAIN r /\ j - 1 < i /\ At(r, j - 1, "onReady", l)
      BY <3>1, <2>2, <1>1, <1>3
    <3> QED BY <3>2, <2>1 DEF ReadyBefore
  <2>3. i + 1 \in DOMAIN q /\ At(q, i + 1, "onStop", l)
    BY <2>1, <1>1, <1>2
  <2> QED BY <2>2, <2>3 DEF EndsFirst, ReadyBefore
<1>10. ASSUME NEW d \in Nat, EndsLater(r, d - 1, l)
       PROVE  EndsLater(q, d, l)
  <2>1. PICK i \in DOMAIN r : i > d - 1 /\ At(r, i, "onStop", l)
    BY <1>10 DEF EndsLater
  <2>2. i + 1 \in DOMAIN q /\ i + 1 > d /\ At(q, i + 1, "onStop", l)
    BY <2>1, <1>1, <1>2
  <2> QED BY <2>2 DEF EndsLater
<1> QED BY <1>6, <1>7, <1>8, <1>9, <1>10 DEF h

\* The end of a tunnel taken: the next end has its beginning before it.
LEMMA CalledEnd ==
  ASSUME NEW q \in Seq(Entries), q # <<>>, NEW r, r = Tail(q), NEW l,
         Head(q).fn = "onStop", Head(q).to = l
  PROVE  /\ EndsFirst(q, l)
         /\ EndsApart(q, l) => ~EndsFirst(r, l)
         /\ BegunSince(q, l) => Waits(r, "onReady", l)
<1>1. /\ 1 \in DOMAIN q /\ DOMAIN q \subseteq Nat /\ DOMAIN r \subseteq Nat
      /\ \A i \in DOMAIN r : i + 1 \in DOMAIN q /\ i >= 1
      /\ \A i \in DOMAIN q : i = 1 \/ i - 1 \in DOMAIN r
      /\ \A i \in DOMAIN q : i >= 1
  BY Called
<1>2. \A i \in DOMAIN r : \A fn : At(r, i, fn, l) <=> At(q, i + 1, fn, l)
  BY Called DEF At
<1>3. \A i \in DOMAIN q : \A fn : i # 1 => (At(q, i, fn, l) <=> At(r, i - 1, fn, l))
  BY Called DEF At
<1>4. At(q, 1, "onStop", l)
  BY Called DEF At
<1>5. EndsFirst(q, l)
  BY <1>1, <1>4 DEF EndsFirst, ReadyBefore
<1>6. ASSUME EndsApart(q, l), NEW i \in DOMAIN r, At(r, i, "onStop", l)
      PROVE  ReadyBefore(r, i, l)
  <2>1. i + 1 \in DOMAIN q /\ 1 < i + 1 /\ At(q, i + 1, "onStop", l)
    BY <1>6, <1>1, <1>2
  <2>2. PICK j \in DOMAIN q : 1 < j /\ j < i + 1 /\ At(q, j, "onReady", l)
    BY <2>1, <1>1, <1>4, <1>6 DEF EndsApart
  <2>3. j - 1 \in DOMAIN r /\ j - 1 < i /\ At(r, j - 1, "onReady", l)
    BY <2>2, <1>1, <1>3
  <2> QED BY <2>3 DEF ReadyBefore
<1>7. ASSUME BegunSince(q, l)
      PROVE  Waits(r, "onReady", l)
  <2>1. PICK j \in DOMAIN q : 1 < j /\ At(q, j, "onReady", l)
    BY <1>1, <1>4, <1>7 DEF BegunSince, ReadyAfter
  <2>2. j - 1 \in DOMAIN r /\ At(r, j - 1, "onReady", l)
    BY <2>1, <1>1, <1>3
  <2> QED BY <2>2 DEF Waits
<1> QED BY <1>5, <1>6, <1>7 DEF EndsFirst

\* The beginning of a tunnel taken: no failure is left behind it.
LEMMA CalledBeginning ==
  ASSUME NEW q \in Seq(Entries), q # <<>>, NEW r, r = Tail(q), NEW l,
         Head(q).fn = "onReady", Head(q).to = l, FailsFirst(q, l)
  PROVE  ~Waits(r, "onFail", l)
<1> SUFFICES ASSUME NEW i \in DOMAIN r, At(r, i, "onFail", l)
             PROVE  FALSE
  BY DEF Waits
<1>1. 1 \in DOMAIN q /\ i + 1 \in DOMAIN q /\ 1 < i + 1 /\ r[i] = q[i + 1]
  BY Called
<1>2. At(q, 1, "onReady", l) /\ At(q, i + 1, "onFail", l)
  BY <1>1, Called DEF At
<1> QED BY <1>1, <1>2 DEF FailsFirst, ReadyBefore

\* A report taken is counted no longer.
LEMMA CalledCount ==
  ASSUME NEW q \in Seq(Entries), q # <<>>, NEW fns, NEW l
  PROVE  Count(q, fns, l) =
           Count(Tail(q), fns, l) + (IF Head(q).fn \in fns /\ Head(q).to = l THEN 1 ELSE 0)
<1> DEFINE r == Tail(q)
           h == Head(q)
           A == Matching(q, fns, l)
           B == Matching(r, fns, l)
           g == [i \in B |-> i + 1]
<1>1. /\ r \in Seq(Entries) /\ h = q[1] /\ 1 \in DOMAIN q
      /\ DOMAIN q \subseteq Nat /\ DOMAIN r \subseteq Nat
      /\ \A i \in DOMAIN r : i + 1 \in DOMAIN q /\ r[i] = q[i + 1] /\ i >= 1
      /\ \A i \in DOMAIN q : i = 1 \/ (i - 1 \in DOMAIN r /\ r[i - 1] = q[i])
  BY Called
<1> HIDE DEF h, r
<1>2. \A i \in B : i \in Nat /\ i >= 1 /\ i + 1 \in A \ {1}
  BY <1>1 DEF Matching
<1>3. ASSUME NEW k \in A \ {1}
      PROVE  k - 1 \in B /\ k = (k - 1) + 1
  <2>1. k \in DOMAIN q /\ k # 1 /\ q[k].fn \in fns /\ q[k].to = l
    BY DEF Matching
  <2>2. k - 1 \in DOMAIN r /\ r[k - 1] = q[k] /\ k \in Nat
    BY <1>1, <2>1
  <2> QED BY <2>1, <2>2 DEF Matching
<1>4. IsFiniteSet(A) /\ Count(q, fns, l) = Cardinality(A) /\ IsFiniteSet(B)
      /\ Count(r, fns, l) = Cardinality(B) /\ Cardinality(A) \in Nat /\ Cardinality(B) \in Nat
  BY CountIsNat, <1>1
<1>5. 1 \in A <=> (h.fn \in fns /\ h.to = l)
  BY <1>1 DEF Matching
<1> HIDE DEF A, B
<1>6. g \in Bijection(B, A \ {1})
  <2>1. g \in [B -> A \ {1}]
    BY <1>2
  <2>2. \A a, b \in B : g[a] = g[b] => a = b
    BY <1>2
  <2>3. \A k \in A \ {1} : \E b \in B : g[b] = k
    BY <1>3
  <2> HIDE DEF g
  <2>4. g \in Injection(B, A \ {1})
    BY <2>1, <2>2 DEF Injection, IsInjective
  <2>5. g \in Surjection(B, A \ {1})
    BY <2>1, <2>3 DEF Surjection
  <2> QED BY <2>4, <2>5 DEF Bijection
<1>7. Cardinality(B) = Cardinality(A \ {1})
  <2>1. ExistsBijection(B, A \ {1})
    BY <1>6 DEF ExistsBijection
  <2>2. IsFiniteSet(A \ {1})
    BY <1>4, FS_Subset
  <2> QED BY <2>1, <2>2, <1>4, FS_Bijection
<1>8. CASE 1 \in A
  <2>1. Cardinality(A \ {1}) = Cardinality(A) - 1
    BY <1>4, <1>8, FS_RemoveElement
  <2> QED BY <2>1, <1>4, <1>5, <1>7, <1>8 DEF h, r
<1>9. CASE 1 \notin A
  <2>1. A \ {1} = A
    BY <1>9
  <2>2. Cardinality(A) = Cardinality(B)
    BY <2>1, <1>7
  <2> QED BY <2>2, <1>4, <1>5, <1>9 DEF h, r
<1> QED BY <1>8, <1>9

LEMMA WaitsCount ==
  ASSUME NEW q \in Seq(Entries), NEW fn, NEW fns, fn \in fns, NEW l, Waits(q, fn, l)
  PROVE  Count(q, fns, l) >= 1
<1>1. Matching(q, fns, l) # {}
  BY DEF Waits, At, Matching
<1>2. Cardinality(Matching(q, fns, l)) # 0
  BY <1>1, CountIsNat, FS_EmptySet
<1> QED BY <1>2, CountIsNat

-----------------------------------------------------------------------------
(***************************************************************************)
(* The popups that a step does not touch.                                  *)
(***************************************************************************)

Releasing == {"onReady", "onFail", "onFetched"}

LEMMA OutstandingIs ==
  ASSUME NEW l
  PROVE  /\ Outstanding(l) = (IF begins(l) THEN 1 ELSE 0) + Count(queue, Releasing, l) + fetching[l]
         /\ Outstanding(l)' =
              (IF begins(l)' THEN 1 ELSE 0) + Count(queue', Releasing, l) + fetching'[l]
BY DEF Outstanding, begins, reports, Count, Releasing

\* What of a popup stays as it is in a step that is none of its business.
Untouched(l) ==
  /\ retains'[l] = retains[l] /\ addr'[l] = addr[l] /\ fetching'[l] = fetching[l]
  /\ hosts' >= hosts
  /\ begins(l)' <=> begins(l)
  /\ serves(l)' <=> serves(l)
  /\ alive' => alive
  /\ early \subseteq early' /\ misled \subseteq misled'

\* The numbers that are compared are numbers.
LEMMA Numbers ==
  ASSUME TypesOK, NEW l \in Layers
  PROVE  /\ retains[l] \in Int /\ fetching[l] \in Nat /\ hosts \in Nat
         /\ \A fns : Count(queue, fns, l) \in Nat
         /\ addr[l] \in BOOLEAN
<1>1. queue \in Seq(Entries)
  BY DEF TypesOK
<1>2. \A fns : Count(queue, fns, l) \in Nat
  BY <1>1, CountIsNat
<1> QED BY <1>2, RelayAssumption DEF TypesOK

LEMMA NumbersNext ==
  ASSUME TypesOK', NEW l \in Layers
  PROVE  /\ retains'[l] \in Int /\ fetching'[l] \in Nat /\ hosts' \in Nat
         /\ \A fns : Count(queue', fns, l) \in Nat
         /\ addr'[l] \in BOOLEAN
<1>1. queue' \in Seq(Entries)
  BY DEF TypesOK
<1>2. \A fns : Count(queue', fns, l) \in Nat
  BY <1>1, CountIsNat
<1> QED BY <1>2, RelayAssumption DEF TypesOK

LEMMA LayerSame ==
  ASSUME TypesOK, TypesOK', NEW l \in Layers, LayerOK(l), queue' = queue, Untouched(l),
         EndsCleared(l)'
  PROVE  LayerOK(l)'
<1> USE DEF Untouched
<1>1. TunnelsApart(l)'
  BY DEF LayerOK, TunnelsApart
<1>2. Unheard(l)' <=> Unheard(l)
  BY DEF Unheard
<1>3. Outstanding(l)' = Outstanding(l)
  BY OutstandingIs
<1>4. Enough(l)'
  BY <1>2, <1>3 DEF LayerOK, Enough
<1>5. Exact(l)'
  BY <1>2, <1>3 DEF LayerOK, Exact
<1>6. Bounded(l)'
  BY Numbers, NumbersNext DEF LayerOK, Bounded
<1> QED BY <1>1, <1>4, <1>5, <1>6 DEF LayerOK

\* A report to another popup changes nothing for this one.
LEMMA LayerOther ==
  ASSUME TypesOK, TypesOK', NEW l \in Layers, LayerOK(l), Untouched(l),
         NEW f \in Reports, NEW t \in Layers, t # l,
         queue' = Posted(queue, f, t), EndsCleared(l)'
  PROVE  LayerOK(l)'
<1> USE DEF Untouched
<1>0. queue \in Seq(Entries)
  BY DEF TypesOK
<1>w. \A fn : Waits(queue', fn, l) <=> Waits(queue, fn, l)
  BY <1>0, AppendWaits
<1>o. /\ EndsApart(queue, l) => EndsApart(queue', l)
      /\ BegunSince(queue, l) => BegunSince(queue', l)
      /\ EndsFirst(queue', l) => EndsFirst(queue, l)
      /\ FailsFirst(queue, l) => FailsFirst(queue', l)
  BY <1>0, AppendOrder
<1>c. \A fns : Count(queue', fns, l) = Count(queue, fns, l)
  <2> TAKE fns
  <2>1. Count(queue', fns, l) = Count(queue, fns, l) + (IF f \in fns /\ t = l THEN 1 ELSE 0)
    BY <1>0, AppendCount
  <2> QED BY <2>1, Numbers
<1>1. TunnelsApart(l)'
  BY <1>o DEF LayerOK, TunnelsApart
<1>2. Unheard(l)' => Unheard(l)
  BY <1>o, <1>w DEF Unheard
<1>3. Outstanding(l)' = Outstanding(l)
  BY OutstandingIs, <1>c
<1>n. Outstanding(l) \in Int /\ retains[l] \in Int
  BY OutstandingIs, Numbers
<1>4. Enough(l)'
  BY <1>2, <1>3, <1>n DEF LayerOK, Enough
<1>5. Exact(l)'
  BY <1>2, <1>3, <1>w, <1>o DEF LayerOK, Exact
<1>6. Bounded(l)'
  BY Numbers, NumbersNext, <1>c DEF LayerOK, Bounded
<1> QED BY <1>1, <1>4, <1>5, <1>6 DEF LayerOK

-----------------------------------------------------------------------------
(***************************************************************************)
(* The steps that neither report nor count.                                *)
(***************************************************************************)

\* Everything but the invariant's part for each popup.
FrameOK == TypesOK /\ ThreadOK /\ PopupsOK /\ AnnouncedOK /\ CrashesOnlyWhen

LEMMA QuietStep ==
  ASSUME RelayInv, FrameOK', \A k \in Layers : EndsCleared(k)',
         UNCHANGED <<retains, addr, owner, queue, fetching, hosts, early, misled, died>>,
         \/ thread' = thread
         \/ {thread, thread'} \subseteq {"connecting", "hello"}
         \/ {thread, thread'} \subseteq {"serving", "receiving"}
  PROVE  RelayInv'
<1>1. ASSUME NEW k \in Layers
      PROVE  LayerOK(k)'
  <2>1. /\ begins(k)' <=> begins(k)
        /\ serves(k)' <=> serves(k)
    BY DEF begins, serves
  <2>2. hosts' >= hosts
    BY RelayAssumption DEF RelayInv, TypesOK
  <2>3. Untouched(k)
    BY <2>1, <2>2 DEF Untouched, alive
  <2> QED BY <2>3, <1>1, LayerSame DEF RelayInv, FrameOK
<1> QED BY <1>1 DEF RelayInv, FrameOK

\* Where the same popups are shown, the same reports wait, and the threads are
\* where they were, Stop's promise about their ends stands.
LEMMA ClearedSame ==
  ASSUME RelayInv, UNCHANGED <<where, addr, thread, main, due, queue, died>>
  PROVE  \A k \in Layers : EndsCleared(k)'
BY DEF RelayInv, LayerOK, EndsCleared, alive

LEMMA OpenStep ==
  ASSUME RelayInv, NEW l \in Layers, open(l)
  PROVE  RelayInv'
<1> USE DEF open, room, relay, mainThread, history
<1>1. TypesOK' /\ ThreadOK'
  BY DEF RelayInv, TypesOK, ThreadOK, mainIsFree, alive
<1>2. PopupsOK'
  BY DEF RelayInv, TypesOK, PopupsOK
<1>3. AnnouncedOK' /\ CrashesOnlyWhen'
  BY DEF RelayInv, AnnouncedOK, CrashesOnlyWhen
<1>4. ASSUME NEW k \in Layers
      PROVE  EndsCleared(k)'
  <2>1. CASE k = l
    <3>1. ~EndsLater(queue, due, k)
      BY <2>1 DEF RelayInv, PopupsOK, EndsLater, At
    <3> QED BY <3>1 DEF EndsCleared
  <2>2. CASE k # l
    BY <2>2 DEF RelayInv, TypesOK, LayerOK, EndsCleared, alive
  <2> QED BY <2>1, <2>2
<1> QED BY <1>1, <1>2, <1>3, <1>4, QuietStep DEF FrameOK

LEMMA CloseStep ==
  ASSUME RelayInv, NEW l \in Layers, close(l)
  PROVE  RelayInv'
<1> USE DEF close, room, relay, mainThread, history
<1>1. TypesOK' /\ ThreadOK'
  BY DEF RelayInv, TypesOK, ThreadOK, mainIsFree, alive
<1>2. PopupsOK'
  BY DEF RelayInv, TypesOK, PopupsOK
<1>3. AnnouncedOK' /\ CrashesOnlyWhen'
  BY DEF RelayInv, AnnouncedOK, CrashesOnlyWhen
<1>4. ASSUME NEW k \in Layers
      PROVE  EndsCleared(k)'
  BY DEF RelayInv, TypesOK, LayerOK, EndsCleared, alive
<1> QED BY <1>1, <1>2, <1>3, <1>4, QuietStep DEF FrameOK

LEMMA DisconnectStep ==
  ASSUME RelayInv, NEW l \in Layers, onDisconnect(l)
  PROVE  RelayInv'
<1> USE DEF onDisconnect, popups, history
<1>1. TypesOK' /\ ThreadOK'
  BY DEF RelayInv, TypesOK, ThreadOK, mainIsFree, alive
<1>2. PopupsOK'
  BY DEF RelayInv, PopupsOK
<1>3. AnnouncedOK' /\ CrashesOnlyWhen'
  BY DEF RelayInv, AnnouncedOK, CrashesOnlyWhen
<1>4. \A k \in Layers : EndsCleared(k)'
  BY DEF EndsCleared
<1> QED BY <1>1, <1>2, <1>3, <1>4, QuietStep DEF FrameOK

LEMMA CloseSocketStep ==
  ASSUME RelayInv, closeControlSocket
  PROVE  RelayInv'
<1> USE DEF closeControlSocket, popups, room, history
<1>1. TypesOK' /\ ThreadOK'
  BY DEF RelayInv, TypesOK, ThreadOK, alive
<1>2. PopupsOK'
  BY DEF RelayInv, PopupsOK
<1>3. AnnouncedOK' /\ CrashesOnlyWhen'
  BY DEF RelayInv, AnnouncedOK, CrashesOnlyWhen
<1>4. \A k \in Layers : EndsCleared(k)'
  BY DEF EndsCleared
<1> QED BY <1>1, <1>2, <1>3, <1>4, QuietStep DEF FrameOK

LEMMA EnterLoopStep ==
  ASSUME RelayInv, enterLoop
  PROVE  RelayInv'
<1> USE DEF enterLoop, untouched, popups, room, mainThread, history
<1>1. TypesOK' /\ ThreadOK'
  BY DEF RelayInv, TypesOK, ThreadOK, alive
<1>2. PopupsOK'
  BY DEF RelayInv, PopupsOK
<1>3. AnnouncedOK' /\ CrashesOnlyWhen'
  BY DEF RelayInv, AnnouncedOK, CrashesOnlyWhen
<1>4. \A k \in Layers : EndsCleared(k)'
  BY DEF EndsCleared
<1> QED BY <1>1, <1>2, <1>3, <1>4, QuietStep DEF FrameOK

LEMMA NewConnectionStep ==
  ASSUME RelayInv, NEW b \in Bridges, newConnection(b)
  PROVE  RelayInv'
<1> USE DEF newConnection, popups, room, mainThread, history
<1>1. TypesOK' /\ ThreadOK'
  BY DEF RelayInv, TypesOK, ThreadOK, alive
<1>2. PopupsOK'
  BY DEF RelayInv, PopupsOK
<1>3. AnnouncedOK' /\ CrashesOnlyWhen'
  BY DEF RelayInv, AnnouncedOK, CrashesOnlyWhen
<1>4. \A k \in Layers : EndsCleared(k)'
  BY DEF EndsCleared
<1> QED BY <1>1, <1>2, <1>3, <1>4, QuietStep DEF FrameOK

LEMMA RunQueueStep ==
  ASSUME RelayInv, runQueue
  PROVE  RelayInv'
<1> USE DEF runQueue, popups, room, relay, history
<1>0. Len(queue) \in Nat /\ DOMAIN queue = 1..Len(queue)
  BY DEF RelayInv, TypesOK
<1>1. TypesOK' /\ ThreadOK'
  BY <1>0 DEF RelayInv, TypesOK, ThreadOK, mainIsFree, alive
<1>2. PopupsOK'
  BY DEF RelayInv, PopupsOK
<1>3. AnnouncedOK' /\ CrashesOnlyWhen'
  BY DEF RelayInv, AnnouncedOK, CrashesOnlyWhen
<1>4. \A k \in Layers : EndsCleared(k)'
  BY <1>0 DEF EndsCleared, EndsLater
<1> QED BY <1>1, <1>2, <1>3, <1>4, QuietStep DEF FrameOK

LEMMA SessionLostStep ==
  ASSUME RelayInv, sessionLost
  PROVE  RelayInv'
<1> USE DEF sessionLost, popups, relay, mainThread, history
<1>1. TypesOK' /\ ThreadOK'
  BY DEF RelayInv, TypesOK, ThreadOK, mainIsFree, alive
<1>2. PopupsOK'
  BY DEF RelayInv, PopupsOK
<1>3. AnnouncedOK' /\ CrashesOnlyWhen'
  BY DEF RelayInv, AnnouncedOK, CrashesOnlyWhen, mainIsFree, alive
<1>4. \A k \in Layers : EndsCleared(k)'
  BY ClearedSame
<1> QED BY <1>1, <1>2, <1>3, <1>4, QuietStep DEF FrameOK

\* What becomes of a connection is no concern of the popups.
LEMMA BridgeStep ==
  ASSUME RelayInv, NEW b \in Bridges,
         bridgeConnection(b) \/ boreToLocal(b) \/ localToBore(b)
  PROVE  RelayInv'
<1>1. /\ UNCHANGED <<popups, room, relay, mainThread, queue, fetching, hosts, died, history>>
      /\ bridges' \in [Bridges -> [at : {"none", "accepting", "open", "halfShut", "closed"},
                                   to : 0..hosts]]
  <2>1. bridges \in [Bridges -> [at : {"none", "accepting", "open", "halfShut", "closed"},
                                 to : 0..hosts]] /\ session \in 0..hosts /\ hosts \in Nat
    BY RelayAssumption DEF RelayInv, TypesOK
  <2>2. bridges[b].to \in 0..hosts /\ 0 \in 0..hosts
    BY <2>1
  <2>3. PICK at \in {"open", "halfShut", "closed"}, to \in 0..hosts : moved(b, at, to)
    BY <2>1, <2>2 DEF bridgeConnection, boreToLocal, localToBore
  <2> QED BY <2>1, <2>3 DEF moved
<1> USE DEF popups, room, relay, mainThread, history
<1>2. TypesOK' /\ ThreadOK'
  BY <1>1 DEF RelayInv, TypesOK, ThreadOK, alive
<1>3. PopupsOK' /\ AnnouncedOK' /\ CrashesOnlyWhen'
  BY <1>1 DEF RelayInv, PopupsOK, AnnouncedOK, CrashesOnlyWhen
<1>4. \A k \in Layers : EndsCleared(k)'
  BY <1>1, ClearedSame
<1> QED BY <1>1, <1>2, <1>3, <1>4, QuietStep DEF FrameOK

-----------------------------------------------------------------------------
(***************************************************************************)
(* Host and the end of Stop.                                               *)
(***************************************************************************)

LEMMA StartHostFrame ==
  ASSUME RelayInv, NEW l \in Layers, onStartHost(l)
  PROVE  FrameOK'
<1> USE DEF onStartHost, mainThread, mainIsFree, alive
<1>1. hosts \in Nat /\ hosts' = hosts + 1 /\ hosts' \in 0..MaxHosts
      /\ session' \in 0..hosts' /\ 0..hosts \subseteq 0..hosts'
  BY RelayAssumption DEF RelayInv, TypesOK
<1>2. TypesOK'
  <2>1. announcer' \in [on : BOOLEAN, key : 0..hosts']
    BY <1>1 DEF announce
  <2>2. bridges' \in [Bridges -> [at : {"none", "accepting", "open", "halfShut", "closed"},
                                  to : 0..hosts']]
    <3>1. bridges' = bridges
      OBVIOUS
    <3>2. [at : {"none", "accepting", "open", "halfShut", "closed"}, to : 0..hosts]
            \subseteq [at : {"none", "accepting", "open", "halfShut", "closed"}, to : 0..hosts']
      BY <1>1
    <3> QED BY <3>1, <3>2 DEF RelayInv, TypesOK
  <2>3. early' \subseteq Layers /\ misled' \subseteq Layers
    BY DEF RelayInv, TypesOK
  <2>4. /\ running' \in BOOLEAN /\ sock' \in {"invalid", "live"} /\ joinable' \in BOOLEAN
        /\ thread' \in {"none", "connecting", "hello", "serving", "receiving", "ended"}
        /\ owner' \in Layers \cup {NoLayer}
        /\ died' \in {"no", "terminate", "lateStop", "freed"}
    BY DEF RelayInv, TypesOK, start, relay
  <2>5. /\ retains' \in [Layers -> Int] /\ addr' \in [Layers -> BOOLEAN]
        /\ where' \in [Layers -> {"unopened", "shown", "closed"}]
    BY DEF RelayInv, TypesOK
  <2> QED BY <1>1, <2>1, <2>2, <2>3, <2>4, <2>5 DEF RelayInv, TypesOK
<1>3. ThreadOK'
  <2> USE DEF RelayInv, ThreadOK
  <2>1. CASE running /\ UNCHANGED <<relay, died>>
    BY <2>1, <1>1 DEF relay
  <2>2. CASE ~running /\ joinable /\ died' = "terminate"
             /\ UNCHANGED <<sock, joinable, thread, owner>>
    BY <2>2, <1>1
  <2>3. CASE ~running /\ ~joinable /\ running' = TRUE /\ joinable' = TRUE /\ thread' = "connecting"
             /\ owner' = l
    <3>1. session' # 0 /\ main' = "idle" /\ where' = where
      BY <1>1
    <3>2. joinable' = (thread' # "none")
      BY <2>3
    <3> QED BY <2>3, <3>1, <3>2
  <2> QED BY <2>1, <2>2, <2>3 DEF start, TypesOK
<1>4. PopupsOK'
  BY DEF RelayInv, PopupsOK, start, relay
<1>5. AnnouncedOK'
  BY DEF announce, AnnouncedOK
<1>6. CrashesOnlyWhen'
  BY DEF RelayInv, ThreadOK, CrashesOnlyWhen, start, relay
<1> QED BY <1>2, <1>3, <1>4, <1>5, <1>6 DEF FrameOK

\* The popup whose Host was pressed, where a tunnel begins.
LEMMA StartHostBegins ==
  ASSUME RelayInv, FrameOK', NEW l \in Layers, onStartHost(l), ~running, ~joinable
  PROVE  LayerOK(l)'
<1> USE DEF onStartHost, mainThread, mainIsFree, alive
<1>1. /\ queue' = queue /\ due' = due /\ due = 0 /\ main = "idle" /\ where[l] = "shown"
      /\ fetching' = fetching /\ misled' = misled /\ died' = died /\ died = "no"
      /\ hosts' = hosts + 1 /\ thread = "none" /\ thread' = "connecting" /\ owner' = l
      /\ early' = (IF waiting("onReady", l) THEN early \cup {l} ELSE early)
  BY DEF RelayInv, ThreadOK, start, relay
<1>2. retains'[l] = retains[l] + 1 /\ addr'[l] = FALSE
  BY DEF RelayInv, TypesOK
<1>n. /\ retains[l] \in Int /\ fetching[l] \in Nat /\ hosts \in Nat
      /\ \A fns : Count(queue, fns, l) \in Nat
  BY Numbers DEF RelayInv
<1>3. ~begins(l) /\ ~serves(l) /\ begins(l)' /\ ~serves(l)'
  BY <1>1 DEF begins, serves
<1>4. Outstanding(l)' = Outstanding(l) + 1 /\ Outstanding(l) \in Int
  BY <1>1, <1>3, <1>n, OutstandingIs
<1>5. waiting("onReady", l) <=> Waits(queue, "onReady", l)
  <2>1. \A i \in DOMAIN queue : queue[i] = [fn |-> "onReady", to |-> l] <=> At(queue, i, "onReady", l)
    <3>1. \A i \in DOMAIN queue : queue[i] \in Entries
      BY DEF RelayInv, TypesOK
    <3> QED BY <3>1 DEF At, Entries
  <2> QED BY <2>1 DEF waiting, Waits
<1>6. Unheard(l)' => Unheard(l)
  <2>1. Unheard(l)' => EndsFirst(queue, l)
    BY <1>1, <1>3 DEF Unheard
  <2>2. EndsFirst(queue, l) => EndsLater(queue, due, l)
    <3>1. \A i \in DOMAIN queue : i > 0
      BY DEF RelayInv, TypesOK
    <3> QED BY <1>1, <3>1 DEF EndsFirst, EndsLater
  <2>3. EndsLater(queue, due, l) => ~addr[l]
    BY <1>1 DEF RelayInv, LayerOK, EndsCleared
  <2> QED BY <2>1, <2>2, <2>3 DEF Unheard
<1>7. TunnelsApart(l)'
  BY <1>1, <1>3 DEF RelayInv, LayerOK, TunnelsApart
<1>8. EndsCleared(l)'
  BY <1>1 DEF EndsCleared
<1>9. Enough(l)'
  BY <1>1, <1>2, <1>4, <1>6, <1>n DEF RelayInv, LayerOK, Enough
<1>10. Exact(l)'
  <2> SUFFICES ASSUME l \notin early' \cup misled'
               PROVE  /\ retains'[l] = Outstanding(l)' /\ ~Unheard(l)'
                      /\ ~addr'[l] /\ ~Waits(queue', "onReady", l) /\ FailsFirst(queue', l)
    BY <1>1 DEF Exact
  <2>1. l \notin early \cup misled /\ ~Waits(queue, "onReady", l)
    BY <1>1, <1>5
  <2>2. retains[l] = Outstanding(l) /\ ~Unheard(l) /\ FailsFirst(queue, l)
    BY <2>1, <1>1 DEF RelayInv, LayerOK, Exact
  <2> QED BY <2>1, <2>2, <1>1, <1>2, <1>4, <1>6
<1>11. Bounded(l)'
  BY <1>1, <1>2, <1>3, <1>n DEF RelayInv, LayerOK, Bounded
<1> QED BY <1>7, <1>8, <1>9, <1>10, <1>11 DEF LayerOK

\* The popup whose Host was pressed, where the relay runs or the process ends.
LEMMA StartHostRetains ==
  ASSUME RelayInv, FrameOK', NEW l \in Layers, onStartHost(l), running \/ joinable
  PROVE  LayerOK(l)'
<1> USE DEF onStartHost, mainThread, mainIsFree
<1>1. /\ queue' = queue /\ fetching' = fetching /\ misled' = misled /\ hosts' = hosts + 1
      /\ thread' = thread /\ owner' = owner /\ alive
      /\ alive' => running /\ l \in early' /\ thread # "none"
  BY DEF RelayInv, ThreadOK, start, relay, alive
<1>2. retains'[l] = retains[l] + 1 /\ addr'[l] = FALSE
  BY DEF RelayInv, TypesOK
<1>n. /\ retains[l] \in Int /\ fetching[l] \in Nat /\ hosts \in Nat
      /\ \A fns : Count(queue, fns, l) \in Nat
  BY Numbers DEF RelayInv
<1>3. begins(l)' = begins(l) /\ serves(l)' = serves(l)
  BY <1>1 DEF begins, serves
<1>4. Outstanding(l)' = Outstanding(l) /\ Outstanding(l) \in Int
  BY <1>1, <1>3, <1>n, OutstandingIs
<1>7. TunnelsApart(l)'
  BY <1>1, <1>3 DEF RelayInv, LayerOK, TunnelsApart
<1>8. EndsCleared(l)'
  BY <1>1 DEF EndsCleared
<1>9. Enough(l)'
  BY <1>1, <1>2, <1>4, <1>n DEF RelayInv, LayerOK, Enough
<1>10. Exact(l)'
  BY <1>1 DEF Exact
<1>11. Bounded(l)'
  BY <1>1, <1>2, <1>3, <1>n DEF RelayInv, LayerOK, Bounded
<1> QED BY <1>7, <1>8, <1>9, <1>10, <1>11 DEF LayerOK

LEMMA StartHostStep ==
  ASSUME RelayInv, NEW l \in Layers, onStartHost(l)
  PROVE  RelayInv'
<1>1. FrameOK'
  BY StartHostFrame
<1>2. LayerOK(l)'
  BY <1>1, StartHostBegins, StartHostRetains
<1>3. ASSUME NEW k \in Layers, k # l
      PROVE  LayerOK(k)'
  <2> USE DEF onStartHost, mainThread, mainIsFree
  <2>1. /\ begins(k)' <=> begins(k)
        /\ serves(k)' <=> serves(k)
    BY <1>3 DEF begins, serves, start, relay, RelayInv, ThreadOK
  <2>2. retains'[k] = retains[k] /\ addr'[k] = addr[k] /\ hosts' >= hosts
    BY <1>3, RelayAssumption DEF RelayInv, TypesOK
  <2>3. Untouched(k)
    BY <2>1, <2>2 DEF Untouched, alive
  <2>4. EndsCleared(k)'
    BY <1>3 DEF EndsCleared, RelayInv, PopupsOK
  <2> QED BY <2>3, <2>4, <1>1, LayerSame DEF RelayInv, FrameOK
<1> QED BY <1>1, <1>2, <1>3 DEF RelayInv, FrameOK

LEMMA JoinedStep ==
  ASSUME RelayInv, joined
  PROVE  RelayInv'
<1> USE DEF joined
<1>0. stopper \in Layers /\ where[stopper] = "shown" /\ due = 0 /\ alive /\ alive'
      /\ addr' = [addr EXCEPT ![stopper] = FALSE] /\ queue' = queue
  BY DEF RelayInv, ThreadOK, alive
<1>1. FrameOK'
  <2>1. misled' \subseteq Layers
    BY <1>0 DEF RelayInv, TypesOK
  <2>a. session' \in 0..hosts /\ lastEnd' \in {"never", "stopped", "alone"}
    BY RelayAssumption DEF RelayInv, TypesOK
  <2>b. addr' \in [Layers -> BOOLEAN]
    BY <1>0 DEF RelayInv, TypesOK
  <2>2. TypesOK'
    BY <1>0, <2>1, <2>a, <2>b DEF RelayInv, TypesOK
  <2>3. ThreadOK'
    BY <1>0 DEF RelayInv, ThreadOK, alive
  <2>4. PopupsOK' /\ AnnouncedOK'
    BY DEF RelayInv, PopupsOK, AnnouncedOK
  <2>5. CrashesOnlyWhen'
    BY DEF RelayInv, CrashesOnlyWhen, alive
  <2> QED BY <2>2, <2>3, <2>4, <2>5 DEF FrameOK
<1>2. \A k \in Layers : ~begins(k) /\ ~begins(k)' /\ ~serves(k) /\ ~serves(k)'
  BY DEF begins, serves
<1>3. \A k \in Layers : Outstanding(k)' = Outstanding(k)
  BY <1>0, <1>2, OutstandingIs
<1>4. ASSUME NEW k \in Layers
      PROVE  EndsCleared(k)'
  BY <1>0 DEF EndsCleared, RelayInv, PopupsOK, TypesOK
<1>5. ASSUME NEW k \in Layers, k # stopper
      PROVE  LayerOK(k)'
  <2>1. addr'[k] = addr[k] /\ hosts' >= hosts
    BY <1>0, <1>5, RelayAssumption DEF RelayInv, TypesOK
  <2>2. Untouched(k)
    BY <2>1, <1>0, <1>2 DEF Untouched
  <2> QED BY <2>2, <1>1, <1>0, <1>4, LayerSame DEF RelayInv, FrameOK
<1>6. ASSUME NEW l \in Layers, l = stopper
      PROVE  LayerOK(l)'
  <2>1. addr'[l] = FALSE /\ retains' = retains /\ fetching' = fetching /\ hosts' = hosts
        /\ early' = early /\ misled \subseteq misled'
    BY <1>0, <1>6 DEF RelayInv, TypesOK
  <2>2. ASSUME l \notin misled'
        PROVE  Unheard(l)' => Unheard(l)
    <3>1. ~(addr[l] /\ waiting("onStop", l))
      BY <2>2, <1>6 DEF misleads
    <3>2. Waits(queue, "onStop", l) => waiting("onStop", l)
      <4>1. \A i \in DOMAIN queue : queue[i] \in Entries
        BY DEF RelayInv, TypesOK
      <4>2. \A i \in DOMAIN queue : At(queue, i, "onStop", l) => queue[i] = [fn |-> "onStop", to |-> l]
        BY <4>1 DEF At, Entries
      <4> QED BY <4>2 DEF Waits, waiting
    <3>3. EndsFirst(queue, l) => Waits(queue, "onStop", l)
      BY DEF EndsFirst, Waits
    <3>4. Unheard(l)' => EndsFirst(queue, l)
      BY <1>0, <1>2 DEF Unheard
    <3>5. EndsFirst(queue, l) /\ ~addr[l] => Unheard(l)
      BY DEF Unheard
    <3>6. addr[l] \in BOOLEAN
      BY Numbers DEF RelayInv
    <3> QED BY <3>1, <3>2, <3>3, <3>4, <3>5, <3>6
  <2>3. LayerOK(l)
    BY DEF RelayInv
  <2>4. TunnelsApart(l)' /\ Bounded(l)'
    BY <2>1, <2>3, <1>0, <1>2 DEF LayerOK, TunnelsApart, Bounded
  <2>5. Enough(l)'
    <3>1. Outstanding(l) \in Int /\ retains[l] \in Int
      BY OutstandingIs, Numbers DEF RelayInv
    <3> QED BY <2>1, <2>2, <2>3, <3>1, <1>0, <1>3 DEF LayerOK, Enough
  <2>6. Exact(l)'
    BY <2>1, <2>2, <2>3, <1>0, <1>2, <1>3 DEF LayerOK, Exact
  <2> QED BY <2>4, <2>5, <2>6, <1>4 DEF LayerOK
<1> QED BY <1>1, <1>5, <1>6 DEF RelayInv, FrameOK

-----------------------------------------------------------------------------
(***************************************************************************)
(* The reports of the control thread.                                      *)
(***************************************************************************)

\* A thread that reports: the queue it leaves, and the popups it does not
\* report to.
LEMMA ReportFrame ==
  ASSUME RelayInv, untouched, alive, NEW f \in Reports, thread # "none",
         queue' = Posted(queue, f, owner), sock' \in {"invalid", "live"},
         \/ thread' = "ended" /\ running' = FALSE
         \/ thread' = "serving" /\ thread \in {"connecting", "hello"} /\ running' = running
  PROVE  FrameOK' /\ \A k \in Layers : EndsCleared(k)' /\ (k # owner => LayerOK(k)')
<1> USE DEF untouched, popups, room, mainThread, history
<1>0. owner \in Layers /\ queue \in Seq(Entries) /\ running' \in BOOLEAN
  BY DEF RelayInv, ThreadOK, TypesOK
<1>1. /\ queue' \in Seq(Entries) /\ Len(queue') = Len(queue) + 1 /\ Len(queue) \in Nat
      /\ \A i \in DOMAIN queue' : queue'[i].to = owner
                                  \/ (i \in DOMAIN queue /\ queue'[i] = queue[i])
  BY <1>0, AppendedAt
<1>2. TypesOK'
  <2>1. due' \in 0..Len(queue')
    BY <1>1 DEF RelayInv, TypesOK
  <2> QED BY <2>1, <1>0, <1>1 DEF RelayInv, TypesOK
<1>3. ThreadOK'
  BY DEF RelayInv, ThreadOK, alive
<1>4. PopupsOK'
  BY <1>1 DEF RelayInv, PopupsOK
<1>5. AnnouncedOK' /\ CrashesOnlyWhen'
  BY DEF RelayInv, AnnouncedOK, CrashesOnlyWhen
<1>6. FrameOK'
  BY <1>2, <1>3, <1>4, <1>5 DEF FrameOK
<1>7. ASSUME NEW k \in Layers
      PROVE  EndsCleared(k)'
  BY DEF EndsCleared
<1>8. ASSUME NEW k \in Layers, k # owner
      PROVE  LayerOK(k)'
  <2>1. ~begins(k) /\ ~serves(k) /\ ~begins(k)' /\ ~serves(k)' /\ hosts' >= hosts
    BY <1>8, RelayAssumption DEF begins, serves, RelayInv, TypesOK
  <2>2. Untouched(k)
    BY <2>1 DEF Untouched, alive
  <2> QED BY <2>2, <1>0, <1>2, <1>7, <1>8, LayerOther DEF RelayInv
<1> QED BY <1>6, <1>7, <1>8

\* What the report adds to the counts of its popup.
LEMMA ReportCounts ==
  ASSUME TypesOK, NEW f \in Reports, NEW l \in Layers, queue' = Posted(queue, f, l)
  PROVE  /\ Count(queue', Releasing, l) =
              Count(queue, Releasing, l) + (IF f \in Releasing THEN 1 ELSE 0)
         /\ Count(queue', Reports, l) = Count(queue, Reports, l) + 1
         /\ Count(queue', {"onFail", "onStop"}, l) =
              Count(queue, {"onFail", "onStop"}, l) + (IF f \in {"onFail", "onStop"} THEN 1 ELSE 0)
<1>0. queue \in Seq(Entries)
  BY DEF TypesOK
<1>1. \A fns : Count(queue', fns, l) =
                 Count(queue, fns, l) + (IF f \in fns /\ l = l THEN 1 ELSE 0)
  BY <1>0, AppendCount
<1> QED BY <1>1

LEMMA FailStep ==
  ASSUME RelayInv, untouched, alive, thread \in {"connecting", "hello"}, fail,
         sock' \in {"invalid", "live"}
  PROVE  RelayInv'
<1> USE DEF untouched, popups, room, mainThread, history
<1>0. /\ queue' = Posted(queue, "onFail", owner) /\ queue \in Seq(Entries) /\ owner \in Layers
      /\ thread' = "ended" /\ running' = FALSE /\ owner' = owner
  BY DEF fail, queued, Posted, RelayInv, TypesOK, ThreadOK
<1>1. FrameOK' /\ \A k \in Layers : EndsCleared(k)' /\ (k # owner => LayerOK(k)')
  BY <1>0, ReportFrame DEF Reports
<1>2. ASSUME NEW l \in Layers, l = owner
      PROVE  LayerOK(l)'
  <2>1. begins(l) /\ ~serves(l) /\ ~begins(l)' /\ ~serves(l)'
    BY <1>0, <1>2 DEF begins, serves
  <2>2. /\ retains[l] \in Int /\ fetching[l] \in Nat /\ hosts \in Nat
        /\ \A fns : Count(queue, fns, l) \in Nat
    BY Numbers DEF RelayInv
  <2>3. /\ Count(queue', Releasing, l) = Count(queue, Releasing, l) + 1
        /\ Count(queue', Reports, l) = Count(queue, Reports, l) + 1
        /\ Count(queue', {"onFail", "onStop"}, l) = Count(queue, {"onFail", "onStop"}, l) + 1
    BY <1>0, <1>2, ReportCounts DEF RelayInv, Releasing, Reports
  <2>4. Outstanding(l)' = Outstanding(l) /\ Outstanding(l) \in Int
    BY <2>1, <2>2, <2>3, OutstandingIs
  <2>5. /\ EndsApart(queue, l) => EndsApart(queue', l)
        /\ EndsFirst(queue', l) => EndsFirst(queue, l)
        /\ FailsFirst(queue, l) /\ ~Waits(queue, "onReady", l) => FailsFirst(queue', l)
    BY <1>0, <1>2, AppendOrder DEF Reports
  <2>6. Unheard(l)' => Unheard(l)
    BY <2>1, <2>5 DEF Unheard
  <2>7. LayerOK(l)
    BY DEF RelayInv
  <2>8. TunnelsApart(l)'
    BY <2>1, <2>5, <2>7 DEF LayerOK, TunnelsApart
  <2>9. Enough(l)'
    BY <2>2, <2>4, <2>6, <2>7 DEF LayerOK, Enough, alive
  <2>10. Exact(l)'
    BY <2>1, <2>4, <2>5, <2>6, <2>7 DEF LayerOK, Exact, alive
  <2>11. Bounded(l)'
    BY <2>1, <2>2, <2>3, <2>7 DEF LayerOK, Bounded
  <2> QED BY <1>1, <2>8, <2>9, <2>10, <2>11 DEF LayerOK
<1> QED BY <1>1, <1>2 DEF FrameOK, RelayInv

LEMMA ConnectStep ==
  ASSUME RelayInv, connectToBore
  PROVE  RelayInv'
<1>1. CASE sock' = "live" /\ thread' = "hello" /\ UNCHANGED <<running, queue>>
  <2> USE <1>1 DEF connectToBore, untouched, popups, room, mainThread, history
  <2>1. TypesOK' /\ ThreadOK'
    BY DEF RelayInv, TypesOK, ThreadOK, alive
  <2>2. PopupsOK' /\ AnnouncedOK' /\ CrashesOnlyWhen'
    BY DEF RelayInv, PopupsOK, AnnouncedOK, CrashesOnlyWhen
  <2>3. \A k \in Layers : EndsCleared(k)'
    BY DEF EndsCleared
  <2> QED BY <2>1, <2>2, <2>3, QuietStep DEF FrameOK
<1>2. CASE sock' = "invalid" /\ fail
  BY <1>2, FailStep DEF connectToBore
<1> QED BY <1>1, <1>2 DEF connectToBore

\* The relay answered: the tunnel's beginning is reported.
LEMMA HandshakeStep ==
  ASSUME RelayInv, handshake
  PROVE  RelayInv'
<1> USE DEF untouched, popups, room, mainThread, history
<1>1. CASE thread' = "serving" /\ queue' = queued("onReady", owner) /\ UNCHANGED running
  <2>0. /\ queue' = Posted(queue, "onReady", owner) /\ queue \in Seq(Entries) /\ owner \in Layers
        /\ thread' = "serving" /\ running' = running /\ owner' = owner /\ thread = "hello"
        /\ sock' \in {"invalid", "live"} /\ alive /\ untouched
    BY <1>1 DEF handshake, queued, Posted, RelayInv, TypesOK, ThreadOK
  <2>1. FrameOK' /\ \A k \in Layers : EndsCleared(k)' /\ (k # owner => LayerOK(k)')
    BY <2>0, ReportFrame DEF Reports
  <2>2. ASSUME NEW l \in Layers, l = owner
        PROVE  LayerOK(l)'
    <3>1. begins(l) /\ ~serves(l) /\ ~begins(l)' /\ serves(l)'
      BY <2>0, <2>2 DEF begins, serves
    <3>2. /\ retains[l] \in Int /\ fetching[l] \in Nat /\ hosts \in Nat
          /\ \A fns : Count(queue, fns, l) \in Nat
      BY Numbers DEF RelayInv
    <3>3. /\ Count(queue', Releasing, l) = Count(queue, Releasing, l) + 1
          /\ Count(queue', Reports, l) = Count(queue, Reports, l) + 1
          /\ Count(queue', {"onFail", "onStop"}, l) = Count(queue, {"onFail", "onStop"}, l)
      BY <2>0, <2>2, <3>2, ReportCounts DEF RelayInv, Releasing, Reports
    <3>4. fetching' = fetching /\ retains' = retains /\ addr' = addr /\ hosts' = hosts
          /\ early' = early /\ misled' = misled /\ died' = died
      BY <2>0
    <3>5. Outstanding(l)' = Outstanding(l) /\ Outstanding(l) \in Int
      BY <3>1, <3>2, <3>3, <3>4, OutstandingIs
    <3>6. /\ EndsApart(queue, l) => EndsApart(queue', l)
          /\ BegunSince(queue', l)
          /\ EndsFirst(queue', l) => EndsFirst(queue, l)
          /\ FailsFirst(queue, l) => FailsFirst(queue', l)
      BY <2>0, <2>2, AppendOrder DEF Reports
    <3>7. /\ Waits(queue', "onReady", l)
          /\ Waits(queue', "onFail", l) => Waits(queue, "onFail", l)
      BY <2>0, <2>2, AppendWaits DEF Reports
    <3>8. Unheard(l)' => Unheard(l)
      BY <3>4, <3>6, <3>7 DEF Unheard
    <3>9. LayerOK(l)
      BY DEF RelayInv
    <3>10. TunnelsApart(l)'
      BY <3>6, <3>9 DEF LayerOK, TunnelsApart
    <3>11. Enough(l)'
      BY <3>2, <3>4, <3>5, <3>8, <3>9 DEF LayerOK, Enough, alive
    <3>12. Exact(l)'
      BY <3>1, <3>4, <3>5, <3>6, <3>7, <3>8, <3>9 DEF LayerOK, Exact, alive
    <3>13. Bounded(l)'
      BY <3>1, <3>2, <3>3, <3>4, <3>9 DEF LayerOK, Bounded
    <3> QED BY <2>1, <3>10, <3>11, <3>12, <3>13 DEF LayerOK
  <2> QED BY <2>1, <2>2 DEF FrameOK, RelayInv
<1>2. CASE fail
  <2>1. sock' \in {"invalid", "live"} /\ alive /\ thread = "hello" /\ untouched
    BY DEF handshake, RelayInv, TypesOK
  <2> QED BY <1>2, <2>1, FailStep
<1> QED BY <1>1, <1>2 DEF handshake

\* The tunnel ended: its end is reported.
LEMMA LeaveLoopStep ==
  ASSUME RelayInv, endLoop \/ relayDrops
  PROVE  RelayInv'
<1> USE DEF untouched, popups, room, mainThread, history
<1>0. /\ queue' = Posted(queue, "onStop", owner) /\ queue \in Seq(Entries) /\ owner \in Layers
      /\ thread \in {"serving", "receiving"} /\ thread' = "ended" /\ running' = FALSE
      /\ owner' = owner /\ sock' = "invalid" /\ alive /\ untouched
  BY DEF endLoop, relayDrops, leaveLoop, queued, Posted, RelayInv, TypesOK, ThreadOK
<1>1. FrameOK' /\ \A k \in Layers : EndsCleared(k)' /\ (k # owner => LayerOK(k)')
  BY <1>0, ReportFrame DEF Reports
<1>2. ASSUME NEW l \in Layers, l = owner
      PROVE  LayerOK(l)'
  <2>1. ~begins(l) /\ serves(l) /\ ~begins(l)' /\ ~serves(l)'
    BY <1>0, <1>2 DEF begins, serves
  <2>2. /\ retains[l] \in Int /\ fetching[l] \in Nat /\ hosts \in Nat
        /\ \A fns : Count(queue, fns, l) \in Nat
    BY Numbers DEF RelayInv
  <2>3. /\ Count(queue', Releasing, l) = Count(queue, Releasing, l)
        /\ Count(queue', Reports, l) = Count(queue, Reports, l) + 1
        /\ Count(queue', {"onFail", "onStop"}, l) = Count(queue, {"onFail", "onStop"}, l) + 1
    BY <1>0, <1>2, <2>2, ReportCounts DEF RelayInv, Releasing, Reports
  <2>4. fetching' = fetching /\ retains' = retains /\ addr' = addr /\ hosts' = hosts
        /\ early' = early /\ misled' = misled /\ died' = died
    BY <1>0
  <2>5. Outstanding(l)' = Outstanding(l) /\ Outstanding(l) \in Int
    BY <2>1, <2>2, <2>3, <2>4, OutstandingIs
  <2>6. /\ EndsApart(queue, l) /\ BegunSince(queue, l) => EndsApart(queue', l)
        /\ EndsFirst(queue', l) => EndsFirst(queue, l) \/ ~Waits(queue, "onReady", l)
        /\ FailsFirst(queue, l) => FailsFirst(queue', l)
    BY <1>0, <1>2, AppendOrder DEF Reports
  <2>7. Waits(queue', "onFail", l) => Waits(queue, "onFail", l)
    BY <1>0, <1>2, AppendWaits DEF Reports
  <2>8. Unheard(l)' => Unheard(l)
    BY <2>1, <2>4, <2>6 DEF Unheard
  <2>9. LayerOK(l)
    BY DEF RelayInv
  <2>10. TunnelsApart(l)'
    BY <2>1, <2>6, <2>9 DEF LayerOK, TunnelsApart
  <2>11. Enough(l)'
    BY <2>2, <2>4, <2>5, <2>8, <2>9 DEF LayerOK, Enough, alive
  <2>12. Exact(l)'
    BY <2>1, <2>4, <2>5, <2>6, <2>7, <2>8, <2>9 DEF LayerOK, Exact, alive
  <2>13. Bounded(l)'
    BY <2>1, <2>2, <2>3, <2>4, <2>9 DEF LayerOK, Bounded
  <2> QED BY <1>1, <2>10, <2>11, <2>12, <2>13 DEF LayerOK
<1> QED BY <1>1, <1>2 DEF FrameOK, RelayInv

-----------------------------------------------------------------------------
(***************************************************************************)
(* The callbacks and the look-up of the public address.                    *)
(***************************************************************************)

\* The queue before and after a call, as the lemmas above see it.
LEMMA CallReports ==
  ASSUME RelayInv, NEW fn \in Reports, NEW l \in Layers, call(fn, l), NEW k
  PROVE  /\ EndsApart(queue, k) => EndsApart(queue', k)
         /\ BegunSince(queue, k) => BegunSince(queue', k)
         /\ FailsFirst(queue, k) => FailsFirst(queue', k)
         /\ EndsFirst(queue', k) /\ ~(fn = "onReady" /\ l = k) => EndsFirst(queue, k)
         /\ EndsLater(queue', due', k) => EndsLater(queue, due, k)
         /\ \A g : Waits(queue, g, k) <=> (Waits(queue', g, k) \/ (fn = g /\ l = k))
         /\ \A fns : Count(queue, fns, k) =
                       Count(queue', fns, k) + (IF fn \in fns /\ l = k THEN 1 ELSE 0)
<1>1. /\ queue \in Seq(Entries) /\ queue # <<>> /\ queue' = Tail(queue) /\ due' = due - 1
      /\ due \in Nat
  BY DEF call, RelayInv, TypesOK
<1>2. Head(queue).fn = fn /\ Head(queue).to = l
  BY DEF call
<1>3. \A g : Waits(queue, g, k) <=> (Waits(queue', g, k) \/ (fn = g /\ l = k))
  BY <1>1, <1>2, CalledWaits
<1>4. \A fns : Count(queue, fns, k) =
                 Count(queue', fns, k) + (IF fn \in fns /\ l = k THEN 1 ELSE 0)
  <2> TAKE fns
  <2>1. Count(queue, fns, k) =
          Count(queue', fns, k) + (IF Head(queue).fn \in fns /\ Head(queue).to = k THEN 1 ELSE 0)
    <3>1. Count(queue, fns, k) =
            Count(Tail(queue), fns, k) + (IF Head(queue).fn \in fns /\ Head(queue).to = k THEN 1 ELSE 0)
      BY <1>1, CalledCount
    <3> QED BY <3>1, <1>1
  <2> QED BY <2>1, <1>2
<1>5. /\ EndsApart(queue, k) => EndsApart(queue', k)
      /\ BegunSince(queue, k) => BegunSince(queue', k)
      /\ FailsFirst(queue, k) => FailsFirst(queue', k)
      /\ EndsFirst(queue', k) /\ ~(fn = "onReady" /\ l = k) => EndsFirst(queue, k)
      /\ EndsLater(queue', due - 1, k) => EndsLater(queue, due, k)
  BY <1>1, <1>2, CalledOrder
<1> QED BY <1>1, <1>3, <1>4, <1>5

LEMMA CallFrame ==
  ASSUME RelayInv, NEW fn \in Reports, NEW l \in Layers, call(fn, l)
  PROVE  FrameOK' /\ \A k \in Layers : TunnelsApart(k)' /\ EndsCleared(k)'
<1> USE DEF room, relay, history
<1>1. /\ queue' = Tail(queue) /\ due' = due - 1 /\ due > 0 /\ queue # <<>> /\ main = "idle"
      /\ Head(queue) = [fn |-> fn, to |-> l] /\ alive /\ where' = where /\ main' = main
      /\ UNCHANGED <<room, relay, stopper, bridges, hosts, history>>
  BY DEF call, RelayInv, TypesOK, ThreadOK
<1>2. /\ queue' \in Seq(Entries) /\ Len(queue') = Len(queue) - 1 /\ Len(queue) \in Nat
      /\ \A i \in DOMAIN queue' : i + 1 \in DOMAIN queue /\ queue'[i] = queue[i + 1]
  BY <1>1, Called DEF RelayInv, TypesOK
<1>3. TypesOK'
  <2>1. due' \in 0..Len(queue')
    BY <1>1, <1>2 DEF RelayInv, TypesOK
  <2>2. /\ addr' \in [Layers -> BOOLEAN] /\ retains' \in [Layers -> Int]
        /\ fetching' \in [Layers -> Nat] /\ died' \in {"no", "terminate", "lateStop", "freed"}
    <3>1. CASE isFreed(l)
      BY <3>1 DEF call, RelayInv, TypesOK
    <3>2. CASE ~isFreed(l)
      <4>1. (onReady(l) \/ onFetched(l) \/ onStop(l)) /\ died' = died
        BY <3>2 DEF call
      <4>2. addr' \in [Layers -> BOOLEAN] /\ retains' \in [Layers -> Int]
            /\ fetching' \in [Layers -> Nat]
        <5>1. /\ addr \in [Layers -> BOOLEAN] /\ retains \in [Layers -> Int]
              /\ fetching \in [Layers -> Nat] /\ retains[l] - 1 \in Int /\ fetching[l] + 1 \in Nat
          BY DEF RelayInv, TypesOK
        <5>2. CASE onReady(l)
          BY <5>1, <5>2 DEF onReady
        <5>3. CASE onFetched(l)
          BY <5>1, <5>3 DEF onFetched
        <5>4. CASE onStop(l)
          BY <5>1, <5>4 DEF onStop
        <5> QED BY <4>1, <5>2, <5>3, <5>4
      <4> QED BY <4>1, <4>2 DEF RelayInv, TypesOK
    <3> QED BY <3>1, <3>2
  <2> QED BY <1>1, <1>2, <2>1, <2>2 DEF RelayInv, TypesOK
<1>4. ThreadOK'
  BY <1>1 DEF RelayInv, ThreadOK, alive
<1>5. PopupsOK'
  <2>1. \E i \in DOMAIN queue : queue[i].to = l
    BY <1>1, Called DEF RelayInv, TypesOK
  <2>2. where[l] # "unopened"
    BY <2>1 DEF RelayInv, PopupsOK
  <2>3. \A k \in Layers : k # l => fetching'[k] = fetching[k]
    BY DEF call, onReady, onFetched, onStop, RelayInv, TypesOK
  <2> QED BY <1>1, <1>2, <2>2, <2>3 DEF RelayInv, PopupsOK
<1>6. AnnouncedOK'
  BY <1>1 DEF RelayInv, AnnouncedOK
<1>7. CrashesOnlyWhen'
  <2>1. ASSUME died' = "freed"
        PROVE  misled # {}
    <3>1. isFreed(l) /\ fn # "onStop"
      BY <2>1, <1>1 DEF call, alive
    <3>2. Waits(queue, fn, l)
      BY CallReports
    <3>3. Count(queue, Releasing, l) >= 1
      BY <3>1, <3>2, WaitsCount DEF Reports, Releasing, RelayInv, TypesOK
    <3>4. Outstanding(l) >= 1 /\ Outstanding(l) \in Int /\ retains[l] \in Int
      BY <3>3, OutstandingIs, Numbers DEF RelayInv
    <3>5. retains[l] <= 0 /\ Enough(l)
      BY <3>1 DEF isFreed, RelayInv, LayerOK
    <3> QED BY <3>4, <3>5, <1>1 DEF Enough
  <2>2. died' # "terminate"
    BY <1>1 DEF call, alive
  <2> QED BY <1>1, <2>1, <2>2 DEF CrashesOnlyWhen
<1>8. ASSUME NEW k \in Layers
      PROVE  TunnelsApart(k)' /\ EndsCleared(k)'
  <2>1. TunnelsApart(k) /\ EndsCleared(k)
    BY DEF RelayInv, LayerOK
  <2>2. TunnelsApart(k)'
    BY <2>1, <1>1, CallReports DEF TunnelsApart, serves
  <2>3. EndsLater(queue', due', k) => EndsLater(queue, due, k)
    BY CallReports
  <2>4. EndsCleared(k)'
    BY <2>1, <2>3, <1>1 DEF EndsCleared, alive, RelayInv, TypesOK
  <2> QED BY <2>2, <2>4
<1> QED BY <1>3, <1>4, <1>5, <1>6, <1>7, <1>8 DEF FrameOK

\* Where the popup was freed the process ends.
LEMMA CallFreed ==
  ASSUME RelayInv, NEW fn \in Reports, NEW l \in Layers, call(fn, l), isFreed(l)
  PROVE  RelayInv'
<1>1. FrameOK' /\ \A k \in Layers : TunnelsApart(k)' /\ EndsCleared(k)'
  BY CallFrame
<1>2. ~alive' /\ UNCHANGED <<retains, fetching, hosts, thread, owner>>
  BY DEF call, alive, relay
<1>3. ASSUME NEW k \in Layers
      PROVE  Bounded(k)'
  <2>1. /\ retains[k] \in Int /\ fetching[k] \in Nat /\ hosts \in Nat
        /\ \A fns : Count(queue, fns, k) \in Nat
        /\ \A fns : Count(queue', fns, k) \in Nat
    BY <1>1, Numbers, NumbersNext DEF RelayInv, FrameOK
  <2>2. /\ Count(queue', Reports, k) <= Count(queue, Reports, k)
        /\ Count(queue', {"onFail", "onStop"}, k) <= Count(queue, {"onFail", "onStop"}, k)
    <3>1. ASSUME NEW fns
          PROVE  Count(queue', fns, k) <= Count(queue, fns, k)
      <4>1. Count(queue, fns, k) = Count(queue', fns, k) + (IF fn \in fns /\ l = k THEN 1 ELSE 0)
        BY CallReports
      <4> QED BY <4>1, <2>1
    <3> QED BY <3>1
  <2>3. Bounded(k)
    BY DEF RelayInv, LayerOK
  <2> QED BY <1>2, <2>1, <2>2, <2>3 DEF Bounded, begins, serves
<1>4. \A k \in Layers : Enough(k)' /\ Exact(k)'
  BY <1>2 DEF Enough, Exact
<1> QED BY <1>1, <1>3, <1>4 DEF RelayInv, FrameOK, LayerOK

\* A popup whose callback it is not.
LEMMA CallOther ==
  ASSUME RelayInv, NEW fn \in Reports, NEW l \in Layers, call(fn, l), ~isFreed(l),
         NEW k \in Layers, k # l
  PROVE  LayerOK(k)'
<1>1. FrameOK' /\ TunnelsApart(k)' /\ EndsCleared(k)'
  BY CallFrame
<1>2. /\ retains'[k] = retains[k] /\ fetching'[k] = fetching[k] /\ addr'[k] = addr[k]
      /\ UNCHANGED <<hosts, thread, owner, early, misled, died>>
  BY DEF call, onReady, onFetched, onStop, relay, history, RelayInv, TypesOK
<1>3. /\ retains[k] \in Int /\ fetching[k] \in Nat /\ hosts \in Nat
      /\ \A fns : Count(queue, fns, k) \in Nat
      /\ \A fns : Count(queue', fns, k) \in Nat
  BY <1>1, Numbers, NumbersNext DEF RelayInv, FrameOK
<1>4. \A fns : Count(queue', fns, k) = Count(queue, fns, k)
  <2> TAKE fns
  <2>1. Count(queue, fns, k) = Count(queue', fns, k) + (IF fn \in fns /\ l = k THEN 1 ELSE 0)
    BY CallReports
  <2> QED BY <2>1, <1>3
<1>5. /\ \A g : Waits(queue, g, k) <=> Waits(queue', g, k)
      /\ FailsFirst(queue, k) => FailsFirst(queue', k)
      /\ EndsFirst(queue', k) => EndsFirst(queue, k)
  BY CallReports
<1>6. Unheard(k)' => Unheard(k)
  BY <1>2, <1>5 DEF Unheard, serves
<1>7. (begins(k)' <=> begins(k)) /\ (serves(k)' <=> serves(k))
  BY <1>2 DEF begins, serves
<1>8. Outstanding(k)' = Outstanding(k) /\ Outstanding(k) \in Int
  BY <1>2, <1>3, <1>4, <1>7, OutstandingIs
<1>9. LayerOK(k)
  BY DEF RelayInv
<1>10. Enough(k)'
  BY <1>2, <1>3, <1>6, <1>8, <1>9 DEF LayerOK, Enough, alive
<1>11. Exact(k)'
  BY <1>2, <1>5, <1>6, <1>7, <1>8, <1>9 DEF LayerOK, Exact, alive
<1>12. Bounded(k)'
  BY <1>2, <1>4, <1>7, <1>9 DEF LayerOK, Bounded
<1> QED BY <1>1, <1>10, <1>11, <1>12 DEF LayerOK

\* What the call takes from the counts of its popup.
LEMMA CallCounts ==
  ASSUME RelayInv, NEW fn \in Reports, NEW l \in Layers, call(fn, l)
  PROVE  /\ retains[l] \in Int /\ fetching[l] \in Nat /\ hosts \in Nat /\ addr[l] \in BOOLEAN
         /\ \A fns : Count(queue, fns, l) \in Nat /\ Count(queue', fns, l) \in Nat
         /\ Count(queue, Releasing, l) =
              Count(queue', Releasing, l) + (IF fn \in Releasing THEN 1 ELSE 0)
         /\ Count(queue, Reports, l) = Count(queue', Reports, l) + 1
         /\ Count(queue, {"onFail", "onStop"}, l) =
              Count(queue', {"onFail", "onStop"}, l) + (IF fn \in {"onFail", "onStop"} THEN 1 ELSE 0)
<1>1. \A fns : Count(queue, fns, l) = Count(queue', fns, l) + (IF fn \in fns /\ l = l THEN 1 ELSE 0)
  BY CallReports
<1>2. FrameOK'
  BY CallFrame
<1>3. \A fns : Count(queue, fns, l) \in Nat /\ Count(queue', fns, l) \in Nat
  BY <1>2, Numbers, NumbersNext DEF RelayInv, FrameOK
<1>4. retains[l] \in Int /\ fetching[l] \in Nat /\ hosts \in Nat /\ addr[l] \in BOOLEAN
  BY Numbers DEF RelayInv
<1> QED BY <1>1, <1>3, <1>4

\* What a call leaves as it is.
CallKeeps(l) ==
  /\ UNCHANGED <<hosts, thread, owner, early, misled, died>>
  /\ begins(l)' <=> begins(l)
  /\ serves(l)' <=> serves(l)
  /\ TunnelsApart(l)' /\ EndsCleared(l)' /\ LayerOK(l)

LEMMA CallKept ==
  ASSUME RelayInv, NEW fn \in Reports, NEW l \in Layers, call(fn, l), ~isFreed(l)
  PROVE  CallKeeps(l)
<1>1. UNCHANGED <<hosts, thread, owner, early, misled, died>>
  BY DEF call, relay, history
<1> QED BY <1>1, CallFrame DEF CallKeeps, begins, serves, RelayInv

LEMMA CallReady ==
  ASSUME RelayInv, NEW l \in Layers, call("onReady", l), ~isFreed(l)
  PROVE  LayerOK(l)'
<1> DEFINE fn == "onReady"
<1>1. CallKeeps(l)
  BY CallKept DEF Reports
<1> USE DEF CallKeeps
<1>2. retains'[l] = retains[l] - 1 /\ fetching'[l] = fetching[l] /\ addr'[l] = TRUE
  BY DEF call, onReady, RelayInv, TypesOK
<1>3. /\ retains[l] \in Int /\ fetching[l] \in Nat /\ hosts \in Nat
      /\ \A fns : Count(queue, fns, l) \in Nat /\ Count(queue', fns, l) \in Nat
      /\ Count(queue, Releasing, l) = Count(queue', Releasing, l) + 1
      /\ Count(queue, Reports, l) = Count(queue', Reports, l) + 1
      /\ Count(queue, {"onFail", "onStop"}, l) = Count(queue', {"onFail", "onStop"}, l)
  BY CallCounts DEF Reports, Releasing
<1>4. Outstanding(l)' = Outstanding(l) - 1 /\ Outstanding(l) \in Int
  BY <1>1, <1>2, <1>3, OutstandingIs
<1>5. ~Unheard(l)'
  BY <1>2 DEF Unheard
<1>6. Waits(queue, "onReady", l)
  BY CallReports DEF Reports
<1>7. FailsFirst(queue, l) => FailsFirst(queue', l) /\ ~Waits(queue', "onFail", l)
  <2>1. queue \in Seq(Entries) /\ queue # <<>> /\ queue' = Tail(queue)
        /\ Head(queue).fn = "onReady" /\ Head(queue).to = l
    BY DEF call, RelayInv, TypesOK
  <2> QED BY <2>1, CalledBeginning, CallReports DEF Reports
<1>8. Enough(l)'
  BY <1>1, <1>2, <1>3, <1>4, <1>5 DEF LayerOK, Enough, alive
<1>9. Exact(l)'
  BY <1>1, <1>2, <1>3, <1>4, <1>5, <1>6, <1>7 DEF LayerOK, Exact, alive
<1>10. Bounded(l)'
  BY <1>1, <1>2, <1>3 DEF LayerOK, Bounded
<1> QED BY <1>1, <1>8, <1>9, <1>10 DEF LayerOK

LEMMA CallFetched ==
  ASSUME RelayInv, NEW l \in Layers, call("onFetched", l), ~isFreed(l)
  PROVE  LayerOK(l)'
<1>1. CallKeeps(l)
  BY CallKept DEF Reports
<1> USE DEF CallKeeps
<1>2. retains'[l] = retains[l] - 1 /\ fetching'[l] = fetching[l] /\ addr'[l] = addr[l]
  BY DEF call, onFetched, RelayInv, TypesOK
<1>3. /\ retains[l] \in Int /\ fetching[l] \in Nat /\ hosts \in Nat
      /\ \A fns : Count(queue, fns, l) \in Nat /\ Count(queue', fns, l) \in Nat
      /\ Count(queue, Releasing, l) = Count(queue', Releasing, l) + 1
      /\ Count(queue, Reports, l) = Count(queue', Reports, l) + 1
      /\ Count(queue, {"onFail", "onStop"}, l) = Count(queue', {"onFail", "onStop"}, l)
  BY CallCounts DEF Reports, Releasing
<1>4. Outstanding(l)' = Outstanding(l) - 1 /\ Outstanding(l) \in Int
  BY <1>1, <1>2, <1>3, OutstandingIs
<1>5. /\ EndsFirst(queue', l) => EndsFirst(queue, l)
      /\ \A g : g # "onFetched" => (Waits(queue, g, l) <=> Waits(queue', g, l))
      /\ FailsFirst(queue, l) => FailsFirst(queue', l)
  BY CallReports DEF Reports
<1>6. Unheard(l)' => Unheard(l)
  BY <1>1, <1>2, <1>5 DEF Unheard
<1>8. Enough(l)'
  BY <1>1, <1>2, <1>3, <1>4, <1>6 DEF LayerOK, Enough, alive
<1>9. Exact(l)'
  BY <1>1, <1>2, <1>3, <1>4, <1>5, <1>6 DEF LayerOK, Exact, alive
<1>10. Bounded(l)'
  BY <1>1, <1>2, <1>3 DEF LayerOK, Bounded
<1> QED BY <1>1, <1>8, <1>9, <1>10 DEF LayerOK

\* A failure: the popup, whose tunnel never began, has no address.
LEMMA CallFail ==
  ASSUME RelayInv, NEW l \in Layers, call("onFail", l), ~isFreed(l)
  PROVE  LayerOK(l)'
<1>1. CallKeeps(l)
  BY CallKept DEF Reports
<1> USE DEF CallKeeps
<1>2. /\ retains'[l] = retains[l] /\ addr'[l] = addr[l]
      /\ fetching'[l] = IF addr[l] THEN fetching[l] ELSE fetching[l] + 1
  BY DEF call, onStop, RelayInv, TypesOK
<1>3. /\ retains[l] \in Int /\ fetching[l] \in Nat /\ hosts \in Nat
      /\ \A fns : Count(queue, fns, l) \in Nat /\ Count(queue', fns, l) \in Nat
      /\ Count(queue, Releasing, l) = Count(queue', Releasing, l) + 1
      /\ Count(queue, Reports, l) = Count(queue', Reports, l) + 1
      /\ Count(queue, {"onFail", "onStop"}, l) = Count(queue', {"onFail", "onStop"}, l) + 1
  BY CallCounts DEF Reports, Releasing
<1>4. /\ Outstanding(l)' = IF addr[l] THEN Outstanding(l) - 1 ELSE Outstanding(l)
      /\ Outstanding(l) \in Int
  BY <1>1, <1>2, <1>3, OutstandingIs
<1>5. /\ EndsFirst(queue', l) => EndsFirst(queue, l)
      /\ \A g : g # "onFail" => (Waits(queue, g, l) <=> Waits(queue', g, l))
      /\ Waits(queue, "onFail", l)
      /\ FailsFirst(queue, l) => FailsFirst(queue', l)
  BY CallReports DEF Reports
<1>6. Unheard(l)' => Unheard(l)
  BY <1>1, <1>2, <1>5 DEF Unheard
<1>8. Enough(l)'
  BY <1>1, <1>2, <1>3, <1>4, <1>6 DEF LayerOK, Enough, alive
<1>9. Exact(l)'
  BY <1>1, <1>2, <1>3, <1>4, <1>5, <1>6 DEF LayerOK, Exact, alive
<1>10. Bounded(l)'
  BY <1>1, <1>2, <1>3 DEF LayerOK, Bounded
<1> QED BY <1>1, <1>8, <1>9, <1>10 DEF LayerOK

\* The end of a tunnel: the look-up it starts, without an address, has the
\* reference that Enough put aside for it.
LEMMA CallEnd ==
  ASSUME RelayInv, NEW l \in Layers, call("onStop", l), ~isFreed(l)
  PROVE  LayerOK(l)'
<1>1. CallKeeps(l)
  BY CallKept DEF Reports
<1> USE DEF CallKeeps
<1>2. /\ retains'[l] = retains[l] /\ addr'[l] = addr[l]
      /\ fetching'[l] = IF addr[l] THEN fetching[l] ELSE fetching[l] + 1
  BY DEF call, onStop, RelayInv, TypesOK
<1>3. /\ retains[l] \in Int /\ fetching[l] \in Nat /\ hosts \in Nat /\ addr[l] \in BOOLEAN
      /\ \A fns : Count(queue, fns, l) \in Nat /\ Count(queue', fns, l) \in Nat
      /\ Count(queue, Releasing, l) = Count(queue', Releasing, l)
      /\ Count(queue, Reports, l) = Count(queue', Reports, l) + 1
      /\ Count(queue, {"onFail", "onStop"}, l) = Count(queue', {"onFail", "onStop"}, l) + 1
  BY CallCounts DEF Reports, Releasing
<1>4. /\ Outstanding(l)' = IF addr[l] THEN Outstanding(l) ELSE Outstanding(l) + 1
      /\ Outstanding(l) \in Int
  BY <1>1, <1>2, <1>3, OutstandingIs
<1>5. /\ \A g : g # "onStop" => (Waits(queue, g, l) <=> Waits(queue', g, l))
      /\ FailsFirst(queue, l) => FailsFirst(queue', l)
  BY CallReports DEF Reports
<1>6. /\ EndsFirst(queue, l)
      /\ EndsApart(queue, l) => ~EndsFirst(queue', l)
      /\ BegunSince(queue, l) => Waits(queue', "onReady", l)
  <2>1. queue \in Seq(Entries) /\ queue # <<>> /\ queue' = Tail(queue)
        /\ Head(queue).fn = "onStop" /\ Head(queue).to = l
    BY DEF call, RelayInv, TypesOK
  <2> QED BY <2>1, CalledEnd
<1>7. ~Unheard(l)'
  BY <1>1, <1>6 DEF Unheard, LayerOK, TunnelsApart
<1>8. Unheard(l) <=> ~addr[l]
  BY <1>6 DEF Unheard
<1>9. Enough(l)'
  BY <1>1, <1>2, <1>3, <1>4, <1>7, <1>8 DEF LayerOK, Enough, alive
<1>10. Exact(l)'
  BY <1>1, <1>2, <1>3, <1>4, <1>5, <1>7, <1>8 DEF LayerOK, Exact, alive
<1>11. Bounded(l)'
  BY <1>1, <1>2, <1>3 DEF LayerOK, Bounded
<1> QED BY <1>1, <1>9, <1>10, <1>11 DEF LayerOK

LEMMA CallStep ==
  ASSUME RelayInv, callNext
  PROVE  RelayInv'
<1>1. PICK fn \in Reports, l \in Layers : call(fn, l)
  BY DEF callNext, Reports
<1>2. CASE ~isFreed(l)
  <2>1. LayerOK(l)'
    BY <1>1, <1>2, CallReady, CallFail, CallEnd, CallFetched DEF Reports
  <2>2. \A k \in Layers : k # l => LayerOK(k)'
    BY <1>1, <1>2, CallOther
  <2>3. FrameOK'
    BY <1>1, CallFrame
  <2> QED BY <2>1, <2>2, <2>3 DEF FrameOK, RelayInv
<1> QED BY <1>1, <1>2, CallFreed

\* The public address is there: the popup's reference goes from the look-up to
\* the report.
LEMMA FetchStep ==
  ASSUME RelayInv, NEW l \in Layers, fetchPublicIP(l)
  PROVE  RelayInv'
<1> USE DEF fetchPublicIP, popups, room, relay, mainThread, history
<1>0. /\ queue' = Posted(queue, "onFetched", l) /\ queue \in Seq(Entries) /\ alive
      /\ "onFetched" \in Reports
  BY DEF queued, Posted, RelayInv, TypesOK, Reports
<1>1. /\ queue' \in Seq(Entries) /\ Len(queue') = Len(queue) + 1 /\ Len(queue) \in Nat
      /\ \A i \in DOMAIN queue' : queue'[i].to = l
                                  \/ (i \in DOMAIN queue /\ queue'[i] = queue[i])
  BY <1>0, AppendedAt
<1>2. /\ fetching \in [Layers -> Nat] /\ fetching[l] > 0
      /\ fetching' = [fetching EXCEPT ![l] = fetching[l] - 1] /\ fetching[l] - 1 \in Nat
  BY DEF RelayInv, TypesOK
<1>3. FrameOK'
  <2>1. due' \in 0..Len(queue')
    BY <1>1 DEF RelayInv, TypesOK
  <2>2. fetching' \in [Layers -> Nat]
    BY <1>2
  <2>3. TypesOK'
    BY <2>1, <2>2, <1>1 DEF RelayInv, TypesOK
  <2>4. ThreadOK' /\ AnnouncedOK' /\ CrashesOnlyWhen'
    BY DEF RelayInv, ThreadOK, AnnouncedOK, CrashesOnlyWhen, alive
  <2>5. PopupsOK'
    BY <1>1, <1>2 DEF RelayInv, PopupsOK
  <2> QED BY <2>3, <2>4, <2>5 DEF FrameOK
<1>4. \A k \in Layers : /\ begins(k)' <=> begins(k)
                        /\ serves(k)' <=> serves(k)
  BY DEF begins, serves
<1>5. ASSUME NEW k \in Layers
      PROVE  EndsCleared(k)'
  <2>1. EndsLater(queue', due, k) => EndsLater(queue, due, k)
    <3>1. /\ \A i \in DOMAIN queue' : i \in DOMAIN queue \/ i = Len(queue) + 1
          /\ \A i \in DOMAIN queue : At(queue', i, "onStop", k) <=> At(queue, i, "onStop", k)
          /\ ~At(queue', Len(queue) + 1, "onStop", k)
      BY <1>0, AppendedAt DEF At
    <3> QED BY <3>1 DEF EndsLater
  <2> QED BY <2>1 DEF RelayInv, LayerOK, EndsCleared, alive
<1>6. ASSUME NEW k \in Layers, k # l
      PROVE  LayerOK(k)'
  <2>1. fetching'[k] = fetching[k] /\ hosts' >= hosts
    BY <1>2, <1>6, RelayAssumption DEF RelayInv, TypesOK
  <2>2. Untouched(k)
    BY <2>1, <1>4 DEF Untouched, alive
  <2> QED BY <2>2, <1>0, <1>3, <1>5, <1>6, LayerOther DEF RelayInv, FrameOK
<1>7. LayerOK(l)'
  <2>1. /\ retains[l] \in Int /\ fetching[l] \in Nat /\ hosts \in Nat
        /\ \A fns : Count(queue, fns, l) \in Nat
    BY Numbers DEF RelayInv
  <2>2. /\ Count(queue', Releasing, l) = Count(queue, Releasing, l) + 1
        /\ Count(queue', Reports, l) = Count(queue, Reports, l) + 1
        /\ Count(queue', {"onFail", "onStop"}, l) = Count(queue, {"onFail", "onStop"}, l)
    BY <1>0, <2>1, ReportCounts DEF RelayInv, Releasing
  <2>3. fetching'[l] = fetching[l] - 1 /\ retains' = retains /\ addr' = addr /\ hosts' = hosts
        /\ early' = early /\ misled' = misled /\ died' = died
    BY <1>2
  <2>4. Outstanding(l)' = Outstanding(l) /\ Outstanding(l) \in Int
    BY <1>4, <2>1, <2>2, <2>3, OutstandingIs
  <2>5. /\ EndsApart(queue, l) => EndsApart(queue', l)
        /\ BegunSince(queue, l) => BegunSince(queue', l)
        /\ EndsFirst(queue', l) => EndsFirst(queue, l)
        /\ FailsFirst(queue, l) => FailsFirst(queue', l)
    BY <1>0, AppendOrder
  <2>6. \A g : g # "onFetched" => (Waits(queue', g, l) <=> Waits(queue, g, l))
    BY <1>0, AppendWaits
  <2>7. Unheard(l)' => Unheard(l)
    BY <1>4, <2>3, <2>5, <2>6 DEF Unheard
  <2>8. LayerOK(l)
    BY DEF RelayInv
  <2>9. TunnelsApart(l)'
    BY <1>4, <2>5, <2>8 DEF LayerOK, TunnelsApart
  <2>10. Enough(l)'
    BY <2>1, <2>3, <2>4, <2>7, <2>8 DEF LayerOK, Enough, alive
  <2>11. Exact(l)'
    BY <1>4, <2>3, <2>4, <2>5, <2>6, <2>7, <2>8 DEF LayerOK, Exact, alive
  <2>12. Bounded(l)'
    BY <1>4, <2>1, <2>2, <2>3, <2>8 DEF LayerOK, Bounded
  <2> QED BY <1>5, <2>9, <2>10, <2>11, <2>12 DEF LayerOK
<1> QED BY <1>3, <1>6, <1>7 DEF FrameOK, RelayInv

-----------------------------------------------------------------------------
(***************************************************************************)
(* The invariant holds, and what follows from it.                          *)
(***************************************************************************)

LEMMA RelayInit == Init => RelayInv
<1> SUFFICES ASSUME Init
             PROVE  RelayInv
  OBVIOUS
<1> USE DEF Init
<1>0. queue \in Seq(Entries) /\ Len(queue) = 0 /\ DOMAIN queue = {}
  OBVIOUS
<1>1. TypesOK
  <2>1. bridges \in [Bridges -> [at : {"none", "accepting", "open", "halfShut", "closed"},
                                 to : 0..hosts]]
    BY DEF NoBridge
  <2>2. announcer \in [on : BOOLEAN, key : 0..hosts]
    OBVIOUS
  <2>3. where \in [Layers -> {"unopened", "shown", "closed"}] /\ retains \in [Layers -> Int]
        /\ addr \in [Layers -> BOOLEAN] /\ fetching \in [Layers -> Nat]
    OBVIOUS
  <2>4. hosts \in 0..MaxHosts /\ session \in 0..hosts /\ due \in 0..Len(queue)
    BY <1>0, RelayAssumption
  <2> QED BY <1>0, <2>1, <2>2, <2>3, <2>4 DEF TypesOK
<1>2. ThreadOK /\ PopupsOK /\ AnnouncedOK /\ CrashesOnlyWhen
  <2>1. ThreadOK
    BY DEF ThreadOK
  <2>2. PopupsOK
    BY <1>0, RelayAssumption DEF PopupsOK
  <2>3. AnnouncedOK /\ CrashesOnlyWhen
    BY DEF AnnouncedOK, CrashesOnlyWhen
  <2> QED BY <2>1, <2>2, <2>3
<1>3. ASSUME NEW l \in Layers
      PROVE  LayerOK(l)
  <2>1. \A fns : Count(queue, fns, l) = 0
    <3> TAKE fns
    <3>1. Matching(queue, fns, l) = {}
      BY <1>0 DEF Matching
    <3>2. Count(queue, fns, l) = Cardinality(Matching(queue, fns, l))
      BY <1>0, CountIsNat
    <3> QED BY <3>1, <3>2, FS_EmptySet
  <2>2. ~begins(l) /\ ~serves(l)
    BY DEF begins, serves
  <2>3. /\ EndsApart(queue, l) /\ ~EndsFirst(queue, l) /\ FailsFirst(queue, l)
        /\ ~EndsLater(queue, due, l) /\ \A g : ~Waits(queue, g, l)
    BY <1>0 DEF EndsApart, EndsFirst, FailsFirst, EndsLater, Waits
  <2>4. Outstanding(l) = 0 /\ ~Unheard(l) /\ retains[l] = 0 /\ fetching[l] = 0 /\ hosts = 0
    BY <2>1, <2>2, <2>3, OutstandingIs DEF Unheard
  <2>5. TunnelsApart(l) /\ EndsCleared(l)
    BY <2>2, <2>3 DEF TunnelsApart, EndsCleared
  <2>6. Enough(l) /\ Exact(l)
    BY <2>2, <2>3, <2>4 DEF Enough, Exact
  <2>7. Bounded(l)
    BY <2>1, <2>2, <2>4 DEF Bounded
  <2> QED BY <2>5, <2>6, <2>7 DEF LayerOK
<1> QED BY <1>1, <1>2, <1>3 DEF RelayInv

LEMMA RelayStutter ==
  ASSUME RelayInv, UNCHANGED vars
  PROVE  RelayInv'
<1> USE DEF vars, popups, room, relay, mainThread, history
<1>1. FrameOK'
  BY DEF RelayInv, FrameOK, TypesOK, ThreadOK, PopupsOK, AnnouncedOK, CrashesOnlyWhen, alive
<1>2. \A k \in Layers : EndsCleared(k)'
  BY ClearedSame
<1> QED BY <1>1, <1>2, QuietStep

LEMMA RelayNext == RelayInv /\ [Next]_vars => RelayInv'
<1> SUFFICES ASSUME RelayInv, [Next]_vars
             PROVE  RelayInv'
  OBVIOUS
<1>1. CASE \E l \in Layers : open(l) \/ close(l) \/ onStartHost(l) \/ onDisconnect(l)
  BY <1>1, OpenStep, CloseStep, StartHostStep, DisconnectStep
<1>2. CASE closeControlSocket \/ joined
  BY <1>2, CloseSocketStep, JoinedStep
<1>3. CASE connectToBore \/ handshake \/ enterLoop \/ endLoop \/ relayDrops
  BY <1>3, ConnectStep, HandshakeStep, EnterLoopStep, LeaveLoopStep
<1>4. CASE runQueue \/ callNext
  BY <1>4, RunQueueStep, CallStep
<1>5. CASE \E l \in Layers : fetchPublicIP(l)
  BY <1>5, FetchStep
<1>6. CASE sessionLost
  BY <1>6, SessionLostStep
<1>7. CASE \E b \in Bridges : newConnection(b) \/ bridgeConnection(b) \/ boreToLocal(b)
                              \/ localToBore(b)
  BY <1>7, NewConnectionStep, BridgeStep
<1>8. CASE UNCHANGED vars
  BY <1>8, RelayStutter
<1> QED BY <1>1, <1>2, <1>3, <1>4, <1>5, <1>6, <1>7, <1>8 DEF Next

\* The counts that the code keeps stay within the presses of Host there were.
LEMMA RelayInvTypes == RelayInv => TypeOK
<1> SUFFICES ASSUME RelayInv
             PROVE  TypeOK
  OBVIOUS
<1>1. TypesOK /\ ThreadOK
  BY DEF RelayInv
<1>2. ASSUME NEW l \in Layers
      PROVE  retains[l] \in -MaxHosts..MaxHosts /\ fetching[l] \in 0..MaxHosts
  <2>1. /\ retains[l] \in Int /\ fetching[l] \in Nat
        /\ \A fns : Count(queue, fns, l) \in Nat
    BY <1>1, Numbers
  <2>2. hosts \in Nat /\ hosts <= MaxHosts /\ MaxHosts \in Nat
    BY <1>1, RelayAssumption DEF TypesOK
  <2>3. Bounded(l)
    BY DEF RelayInv, LayerOK
  <2>4. retains[l] <= MaxHosts /\ retains[l] + MaxHosts >= 0
    BY <2>1, <2>2, <2>3 DEF Bounded
  <2>5. fetching[l] <= MaxHosts
    BY <2>1, <2>2, <2>3 DEF Bounded
  <2> QED BY <2>1, <2>2, <2>4, <2>5
<1>3. retains \in [Layers -> -MaxHosts..MaxHosts]
  BY <1>1, <1>2 DEF TypesOK
<1>4. fetching \in [Layers -> 0..MaxHosts]
  BY <1>1, <1>2 DEF TypesOK
<1>5. \A i \in DOMAIN queue : /\ queue[i].fn \in {"onReady", "onFail", "onStop", "onFetched"}
                              /\ queue[i].to \in Layers
  <2>1. \A i \in DOMAIN queue : queue[i] \in Entries
    BY <1>1 DEF TypesOK
  <2> QED BY <2>1 DEF Entries, Reports
<1> QED BY <1>1, <1>3, <1>4, <1>5 DEF TypeOK, TypesOK, ThreadOK

\* The counts, the threads, the queue and the history of Relay have their
\* types in every reachable state; no popup is retained or released more often
\* than Host was pressed.
THEOREM RelayTypes == Spec => []TypeOK
<1>1. RelayInv => TypeOK
  BY RelayInvTypes
<1> QED BY <1>1, RelayInit, RelayNext, PTL DEF Spec

\* HostLayer's retain and release match: however the buttons, the control
\* thread, the look-ups and the queue interleave, a popup is retained as often
\* as a callback will still release it, unless its Host was pressed early or
\* its Stop cleared a live tunnel's address.
THEOREM RetainsAreMatched == Spec => []RetainsMatch
<1>1. RelayInv => RetainsMatch
  BY DEF RelayInv, LayerOK, Exact, RetainsMatch
<1> QED BY <1>1, RelayInit, RelayNext, PTL DEF Spec

\* Host ends the process by assigning over an unjoined thread only after a
\* session that was lost, and a callback of a beginning, a failure or a look-up
\* meets a freed popup only after a Stop that cleared a live tunnel's address.
THEOREM CrashesAreExplained == Spec => []CrashesOnlyWhen
<1>1. RelayInv => CrashesOnlyWhen
  BY DEF RelayInv
<1> QED BY <1>1, RelayInit, RelayNext, PTL DEF Spec

\* While the host's main thread is outside Stop, the broadcaster announces the
\* key of the session there is.
THEOREM SessionIsAnnounced == Spec => []AnnouncesThisSession
<1>1. ASSUME RelayInv, mainIsFree, session # 0
      PROVE  announcer = [on |-> TRUE, key |-> session]
  <2>1. announcer \in [on : BOOLEAN, key : 0..hosts] /\ announcer.on /\ announcer.key = session
    BY <1>1 DEF RelayInv, TypesOK, AnnouncedOK, mainIsFree
  <2> QED BY <2>1
<1>2. RelayInv => AnnouncesThisSession
  BY <1>1 DEF AnnouncesThisSession
<1> QED BY <1>2, RelayInit, RelayNext, PTL DEF Spec

=============================================================================
