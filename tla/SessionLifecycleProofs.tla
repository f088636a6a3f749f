----------------------- MODULE SessionLifecycleProofs -----------------------
(***************************************************************************)
(* Theorems about SessionLifecycle for any number of peers, connections,   *)
(* sessions and faults, from the inductive invariant SessionInv: one lemma *)
(* per action that the action preserves it.                                *)
(***************************************************************************)
EXTENDS SessionLifecycle, FiniteSetTheorems, TLAPS

-----------------------------------------------------------------------------
(* The invariant.                                                          *)

\* What an event queue q of program c may hold: events of c's own
\* connections, none of a session that has not begun (n sessions have),
\* earlier sessions first; the adoption of a connection, at the host only, is
\* the only event of that connection.
Orderly(q, c, jn, er, n) ==
  /\ q \in Seq(Events(Connections))
  /\ \A i \in 1..Len(q) : /\ jn[q[i].conn] # Host /\ (c = Host \/ jn[q[i].conn] = c)
                          /\ er[q[i].conn][Side(c)] <= n
                          /\ q[i].type = "adopt" => c = Host
  /\ \A i, j \in 1..Len(q) : i < j => er[q[i].conn][Side(c)] <= er[q[j].conn][Side(c)]
  /\ \A i, j \in 1..Len(q) : i # j /\ q[i].conn = q[j].conn => q[i].type # "adopt"

QueuesOK == \A c \in Clients : Orderly(queue[c], c, joiner, era, sessions[c])

\* Connections are numbered in the order they are made.
Numbered == Made = 1..Cardinality(Made)

\* A connection that was not made has no ends.
UnmadeOK == \A k \in Connections : joiner[k] = Host => \A s \in Sides : end[k][s] = "none"

\* A session's transport is its own; without a session there is none.
TransportsOK ==
  \A c \in Clients : transport[c] # NoTransport =>
    /\ state[c] # "Idle"
    /\ joiner[transport[c]] # Host /\ (c = Host \/ joiner[transport[c]] = c)
    /\ era[transport[c]][Side(c)] = sessions[c]
    /\ end[transport[c]][Side(c)] \notin {"none", "open"}

InQueue(e, q) == \E i \in 1..Len(q) : q[i] = e

\* A connection that waits for accept() waits once, nothing has happened on
\* it, and until its adoption its socket is open and unread.
WaitingOK ==
  /\ \A k \in Connections : InQueue(k, backlog) =>
       /\ joiner[k] # Host /\ end[k]["host"] = "open"
       /\ \A e \in Events(Connections) : InQueue(e, queue[Host]) => e.conn # k
  /\ \A i, j \in 1..Len(backlog) : backlog[i] = backlog[j] => i = j
  /\ \A k \in Connections : InQueue(Adopt(k), queue[Host]) => end[k]["host"] = "open"

\* NoForgottenSocket, with the sequences' elements by InQueue.
SocketsOK ==
  \A k \in Connections : joiner[k] # Host =>
    /\ end[k]["host"] # "closed" =>
         transport[Host] = k \/ InQueue(k, backlog) \/ InQueue(Adopt(k), queue[Host])
    /\ end[k]["peer"] # "closed" => transport[joiner[k]] = k

SessionInv ==
  TypeOK /\ Numbered /\ UnmadeOK /\ QueuesOK /\ TransportsOK /\ WaitingOK /\ SocketsOK
-----------------------------------------------------------------------------
(* Sequences of events.                                                    *)

\* The queue without its first event.
LEMMA TailFacts ==
  ASSUME NEW T, NEW q \in Seq(T), q # <<>>
  PROVE  /\ Head(q) \in T /\ Head(q) = q[1] /\ Tail(q) \in Seq(T) /\ 1 \in 1..Len(q)
         /\ Len(Tail(q)) = Len(q) - 1
         /\ \A i \in 1..Len(Tail(q)) : i + 1 \in 1..Len(q) /\ Tail(q)[i] = q[i + 1]
         /\ \A i \in 1..Len(q) : i = 1 \/ (i - 1 \in 1..Len(Tail(q)) /\ q[i] = Tail(q)[i - 1])
BY SMT

\* The queue with one event more.
LEMMA AppendFacts ==
  ASSUME NEW T, NEW q \in Seq(T), NEW e \in T
  PROVE  /\ Append(q, e) \in Seq(T) /\ Len(Append(q, e)) = Len(q) + 1
         /\ \A i \in 1..Len(q) : Append(q, e)[i] = q[i]
         /\ Append(q, e)[Len(q) + 1] = e
BY SMT

\* What a stopped receive thread still posts is nothing or one event.
LEMMA WordsFacts ==
  ASSUME NEW T, NEW q \in Seq(T), NEW e \in T
  PROVE  q \o <<>> = q /\ q \o <<e>> = Append(q, e)
BY SMT

\* What is left of an orderly queue is orderly.
LEMMA TailOrderly ==
  ASSUME NEW c \in Clients, NEW jn, NEW er, NEW n, NEW q, Orderly(q, c, jn, er, n), q # <<>>
  PROVE  /\ Orderly(Tail(q), c, jn, er, n)
         /\ \A e : InQueue(e, q) <=> e = Head(q) \/ InQueue(e, Tail(q))
<1>1. q \in Seq(Events(Connections))
  BY DEF Orderly
<1>2. /\ Head(q) = q[1] /\ Tail(q) \in Seq(Events(Connections)) /\ 1 \in 1..Len(q)
      /\ Len(Tail(q)) = Len(q) - 1
      /\ \A i \in 1..Len(Tail(q)) : i + 1 \in 1..Len(q) /\ Tail(q)[i] = q[i + 1]
      /\ \A i \in 1..Len(q) : i = 1 \/ (i - 1 \in 1..Len(Tail(q)) /\ q[i] = Tail(q)[i - 1])
  BY <1>1, TailFacts
<1>3. Orderly(Tail(q), c, jn, er, n)
  BY <1>2 DEF Orderly
<1>4. \A e : InQueue(e, q) <=> e = Head(q) \/ InQueue(e, Tail(q))
  BY <1>2 DEF InQueue
<1> QED
  BY <1>3, <1>4

\* An orderly queue stays so with an event of the current session.
LEMMA AppendOrderly ==
  ASSUME NEW c \in Clients, NEW jn, NEW er \in [Connections -> [Sides -> Nat]], NEW n \in Nat,
         NEW q, Orderly(q, c, jn, er, n),
         NEW e \in Events(Connections),
         jn[e.conn] # Host, c = Host \/ jn[e.conn] = c, er[e.conn][Side(c)] = n,
         e.type = "adopt" => c = Host,
         \A i \in 1..Len(q) : q[i].conn = e.conn => q[i].type # "adopt" /\ e.type # "adopt"
  PROVE  /\ Orderly(Append(q, e), c, jn, er, n)
         /\ \A f : InQueue(f, Append(q, e)) <=> f = e \/ InQueue(f, q)
<1>1. q \in Seq(Events(Connections))
  BY DEF Orderly
<1> DEFINE r == Append(q, e)
<1>2. /\ r \in Seq(Events(Connections)) /\ Len(r) = Len(q) + 1 /\ Len(q) \in Nat
      /\ \A i \in 1..Len(q) : r[i] = q[i]
      /\ r[Len(q) + 1] = e
  BY <1>1, AppendFacts
<1> HIDE DEF r
<1>3. \A i \in 1..Len(r) : (i \in 1..Len(q) /\ r[i] = q[i]) \/ (i = Len(q) + 1 /\ r[i] = e)
  BY <1>2
<1>4. Orderly(r, c, jn, er, n)
  <2>1. \A i \in 1..Len(r) : /\ jn[r[i].conn] # Host /\ (c = Host \/ jn[r[i].conn] = c)
                             /\ er[r[i].conn][Side(c)] <= n
                             /\ r[i].type = "adopt" => c = Host
    BY <1>3 DEF Orderly
  <2>2. ASSUME NEW i \in 1..Len(r), NEW j \in 1..Len(r), i < j
        PROVE  er[r[i].conn][Side(c)] <= er[r[j].conn][Side(c)]
    <3>1. i \in 1..Len(q) /\ r[i] = q[i]
      BY <1>2, <1>3, <2>2
    <3>2. CASE j \in 1..Len(q) /\ r[j] = q[j]
      BY <2>2, <3>1, <3>2 DEF Orderly
    <3>3. CASE r[j] = e
      BY <3>1, <3>3 DEF Orderly
    <3> QED
      BY <1>3, <3>2, <3>3
  <2>3. ASSUME NEW i \in 1..Len(r), NEW j \in 1..Len(r), i # j, r[i].conn = r[j].conn
        PROVE  r[i].type # "adopt"
    <3>1. CASE i \in 1..Len(q) /\ r[i] = q[i] /\ j \in 1..Len(q) /\ r[j] = q[j]
      BY <2>3, <3>1 DEF Orderly
    <3>2. CASE i \in 1..Len(q) /\ r[i] = q[i] /\ r[j] = e
      BY <2>3, <3>2
    <3>3. CASE r[i] = e /\ j \in 1..Len(q) /\ r[j] = q[j]
      BY <2>3, <3>3
    <3> QED
      BY <1>2, <1>3, <2>3, <3>1, <3>2, <3>3
  <2> QED
    BY <1>2, <2>1, <2>2, <2>3 DEF Orderly
<1>5. \A f : InQueue(f, r) <=> f = e \/ InQueue(f, q)
  BY <1>2, <1>3 DEF InQueue
<1> QED
  BY <1>4, <1>5 DEF r

\* Orderly depends on the connections of its events only.
LEMMA FrameOrderly ==
  ASSUME NEW c \in Clients, NEW q,
         NEW jn, NEW er \in [Connections -> [Sides -> Nat]], NEW n \in Nat,
         Orderly(q, c, jn, er, n),
         NEW jn2, NEW er2 \in [Connections -> [Sides -> Nat]], NEW n2 \in Nat, n <= n2,
         \A i \in 1..Len(q) : /\ jn2[q[i].conn] = jn[q[i].conn]
                              /\ er2[q[i].conn][Side(c)] = er[q[i].conn][Side(c)]
  PROVE  Orderly(q, c, jn2, er2, n2)
<1>1. \A i \in 1..Len(q) : er[q[i].conn][Side(c)] \in Nat
  BY DEF Orderly, Events, Side, Sides
<1>2. \A i \in 1..Len(q) : /\ jn2[q[i].conn] # Host /\ (c = Host \/ jn2[q[i].conn] = c)
                           /\ er2[q[i].conn][Side(c)] <= n2
                           /\ q[i].type = "adopt" => c = Host
  BY <1>1 DEF Orderly
<1>3. \A i, j \in 1..Len(q) : i < j => er2[q[i].conn][Side(c)] <= er2[q[j].conn][Side(c)]
  BY DEF Orderly
<1> QED
  BY <1>2, <1>3 DEF Orderly

\* The states of an end.
EndStates == {"none", "open", "reading", "cut", "ended", "posted", "closed"}

\* stop() changes one side of the connections it is for.
LEMMA StoppedFacts ==
  ASSUME NEW T, NEW f \in [Connections -> [Sides -> T]], NEW S, NEW s \in Sides, NEW v \in T
  PROVE  /\ Stopped(f, S, s, v) \in [Connections -> [Sides -> T]]
         /\ \A k \in Connections, r \in Sides :
              Stopped(f, S, s, v)[k][r] = IF k \in S /\ r = s THEN v ELSE f[k][r]
BY DEF Stopped
-----------------------------------------------------------------------------
(* What the invariant says of the actions' ingredients.                    *)

\* Programs, sides and connections.
LEMMA Constants ==
  /\ Host \in Clients /\ Peers \subseteq Clients /\ \A c \in Clients : c # Host <=> c \in Peers
  /\ Side(Host) = "host" /\ \A c \in Peers : Side(c) = "peer"
  /\ \A c \in Clients : Side(c) \in Sides
  /\ "host" \in Sides /\ "peer" \in Sides /\ Sides = {"host", "peer"}
  /\ Connections \subseteq Nat /\ NoTransport \notin Connections
  /\ MaxSessions[Host] \in Nat /\ \A c \in Clients : MaxSessions[c] \in Nat
  /\ \A s \in Sides : Other(s) \in Sides
BY LifecycleAssumption DEF Clients, Side, Sides, Connections, NoTransport, Other

\* The kinds of events.
LEMMA EventFacts ==
  /\ \A e \in Events(Connections) : e.conn \in Connections
  /\ \A k \in Connections : /\ Adopt(k) \in Events(Connections) /\ Eof(k) \in Events(Connections)
                            /\ Adopt(k).conn = k /\ Adopt(k).type = "adopt"
                            /\ Eof(k).conn = k /\ Eof(k).type = "eof"
                            /\ \A m \in Messages : /\ Data(k, m) \in Events(Connections)
                                                   /\ Data(k, m).conn = k /\ Data(k, m).type = "data"
  /\ \A e \in Events(Connections) : e.type = "adopt" => e = Adopt(e.conn)
BY DEF Events, Adopt, Eof, Data

\* An end whose receive thread runs, or has run and was not stopped, belongs
\* to the current transport of the program on that side.
LEMMA ActiveIsCurrent ==
  ASSUME SessionInv, NEW k \in Connections, NEW s \in Sides,
         end[k][s] \in {"reading", "cut", "ended", "posted"}
  PROVE  LET c == IF s = "host" THEN Host ELSE joiner[k] IN
         /\ c \in Clients /\ Side(c) = s /\ joiner[k] # Host /\ transport[c] = k
<1>1. joiner[k] # Host
  BY DEF SessionInv, UnmadeOK
<1>2. joiner[k] \in Peers
  BY <1>1, Constants DEF SessionInv, TypeOK
<1>3. CASE s = "host"
  <2>1. ~InQueue(Adopt(k), queue[Host])
    BY <1>3 DEF SessionInv, WaitingOK
  <2>2. ~InQueue(k, backlog)
    BY <1>3 DEF SessionInv, WaitingOK, InQueue
  <2> QED
    BY <1>1, <1>3, <2>1, <2>2, Constants DEF SessionInv, SocketsOK
<1>4. CASE s = "peer"
  BY <1>1, <1>2, <1>4, Constants DEF SessionInv, SocketsOK
<1> QED
  BY <1>3, <1>4, Constants

\* The next connection's number is the first that was not used.
LEMMA NextConnection ==
  ASSUME SessionInv, Cardinality(Made) < MaxConnections
  PROVE  /\ Cardinality(Made) \in Nat
         /\ Cardinality(Made) + 1 \in Connections
         /\ joiner[Cardinality(Made) + 1] = Host
<1>1. Made \subseteq 1..MaxConnections /\ MaxConnections \in Nat
  BY LifecycleAssumption DEF Made, Connections
<1>2. Cardinality(Made) \in Nat
  <2>1. IsFiniteSet(1..MaxConnections)
    BY <1>1, FS_Interval
  <2>2. IsFiniteSet(Made)
    BY <1>1, <2>1, FS_Subset
  <2> QED
    BY <2>2, FS_CardinalityType
<1>3. Cardinality(Made) + 1 \in Connections
  BY <1>1, <1>2 DEF Connections
<1>4. Cardinality(Made) + 1 \notin Made
  BY <1>2 DEF SessionInv, Numbered
<1> QED
  BY <1>2, <1>3, <1>4 DEF Made

\* The words of a thread that is being stopped.
LEMMA LastWordsFacts ==
  ASSUME SessionInv, NEW c \in Clients, NEW words \in LastWords(transport[c], Side(c)),
         NEW q, Orderly(q, c, joiner, era, sessions[c]),
         \A e : InQueue(e, q) => InQueue(e, queue[c])
  PROVE  /\ Orderly(q \o words, c, joiner, era, sessions[c])
         /\ \A e : InQueue(e, q) => InQueue(e, q \o words)
         /\ \A e : InQueue(e, q \o words) =>
              InQueue(e, q) \/ (transport[c] # NoTransport /\ e = Eof(transport[c]))
<1>1. q \in Seq(Events(Connections))
  BY DEF Orderly
<1>2. CASE words = <<>>
  BY <1>1, <1>2, WordsFacts
<1>3. CASE words = <<Eof(transport[c])>> /\ transport[c] # NoTransport
  <2> DEFINE k == transport[c]
  <2>1. k \in Connections
    BY <1>3 DEF SessionInv, TypeOK
  <2>2. Eof(k) \in Events(Connections) /\ Eof(k).conn = k /\ Eof(k).type = "eof"
    BY <2>1, EventFacts
  <2>3. \A i \in 1..Len(q) : q[i].conn = k => q[i].type # "adopt"
    <3> SUFFICES ASSUME NEW i \in 1..Len(q), q[i].conn = k, q[i].type = "adopt"
                 PROVE  FALSE
      OBVIOUS
    <3>1. q[i] = Adopt(k)
      BY <1>1, EventFacts
    <3>2. InQueue(Adopt(k), queue[c]) /\ c = Host
      BY <3>1 DEF InQueue, Orderly
    <3>3. end[k]["host"] = "open"
      BY <2>1, <3>2 DEF SessionInv, WaitingOK
    <3> QED
      BY <1>3, <3>2, <3>3, Constants DEF SessionInv, TransportsOK
  <2>4. joiner[k] # Host /\ (c = Host \/ joiner[k] = c) /\ era[k][Side(c)] = sessions[c]
    BY <1>3 DEF SessionInv, TransportsOK
  <2>5. /\ Orderly(Append(q, Eof(k)), c, joiner, era, sessions[c])
        /\ \A f : InQueue(f, Append(q, Eof(k))) <=> f = Eof(k) \/ InQueue(f, q)
    <3>1. era \in [Connections -> [Sides -> Nat]] /\ sessions[c] \in Nat
      BY DEF SessionInv, TypeOK
    <3> DEFINE e == Eof(k)
    <3>2. /\ e \in Events(Connections) /\ joiner[e.conn] # Host
          /\ c = Host \/ joiner[e.conn] = c
          /\ era[e.conn][Side(c)] = sessions[c] /\ e.type # "adopt"
          /\ \A i \in 1..Len(q) : q[i].conn = e.conn => q[i].type # "adopt"
      BY <2>2, <2>3, <2>4
    <3> HIDE DEF e
    <3>3. /\ Orderly(Append(q, e), c, joiner, era, sessions[c])
          /\ \A f : InQueue(f, Append(q, e)) <=> f = e \/ InQueue(f, q)
      BY <3>1, <3>2, AppendOrderly
    <3> QED
      BY <3>3 DEF e
  <2>6. q \o words = Append(q, Eof(k))
    BY <1>1, <1>3, <2>2, WordsFacts
  <2> QED
    BY <1>3, <2>5, <2>6
<1> QED
  BY <1>2, <1>3 DEF LastWords

\* The first event of a queue and what is behind it.
LEMMA DropFacts ==
  ASSUME SessionInv, NEW c \in Clients, queue[c] # <<>>
  PROVE  /\ Head(queue[c]) \in Events(Connections) /\ InQueue(Head(queue[c]), queue[c])
         /\ Orderly(Rest(c), c, joiner, era, sessions[c])
         /\ Rest(c) \in Seq(Events(Connections))
         /\ \A e : InQueue(e, queue[c]) <=> e = Head(queue[c]) \/ InQueue(e, Rest(c))
         /\ joiner[Head(queue[c]).conn] # Host
         /\ c = Host \/ joiner[Head(queue[c]).conn] = c
         /\ Head(queue[c]).type = "adopt" =>
              \A i \in 1..Len(Rest(c)) : Rest(c)[i].conn # Head(queue[c]).conn
<1> DEFINE q == queue[c]
<1>1. Orderly(q, c, joiner, era, sessions[c]) /\ q # <<>>
  BY DEF SessionInv, QueuesOK
<1> HIDE DEF q
<1>2. q \in Seq(Events(Connections))
  BY <1>1 DEF Orderly
<1>3. /\ Head(q) \in Events(Connections) /\ Head(q) = q[1] /\ 1 \in 1..Len(q)
      /\ \A i \in 1..Len(Tail(q)) : i + 1 \in 1..Len(q) /\ Tail(q)[i] = q[i + 1] /\ i + 1 # 1
      /\ Tail(q) \in Seq(Events(Connections))
  BY <1>1, <1>2, TailFacts
<1>4. /\ Orderly(Tail(q), c, joiner, era, sessions[c])
      /\ \A e : InQueue(e, q) <=> e = Head(q) \/ InQueue(e, Tail(q))
  BY <1>1, TailOrderly
<1>5. InQueue(Head(q), q)
  BY <1>3 DEF InQueue
<1>6. joiner[Head(q).conn] # Host /\ (c = Host \/ joiner[Head(q).conn] = c)
  BY <1>1, <1>3 DEF Orderly
<1>7. Head(q).type = "adopt" => \A i \in 1..Len(Tail(q)) : Tail(q)[i].conn # Head(q).conn
  BY <1>1, <1>3 DEF Orderly
<1> QED
  BY <1>3, <1>4, <1>5, <1>6, <1>7 DEF q, Rest

\* The connections disconnect() closes with the listener.
LEMMA InBacklog ==
  ASSUME SessionInv, NEW k
  PROVE  /\ k \in {backlog[i] : i \in DOMAIN backlog} <=> InQueue(k, backlog)
         /\ InQueue(k, backlog) => k \in Connections
BY DEF SessionInv, TypeOK, InQueue

\* The ends after stop() on side s of the connections in S.
LEMMA StoppedEnds ==
  ASSUME SessionInv, NEW S, NEW s \in Sides
  PROVE  /\ Stopped(end, S, s, "closed") \in [Connections -> [Sides -> EndStates]]
         /\ \A k \in Connections, r \in Sides :
              Stopped(end, S, s, "closed")[k][r] = IF k \in S /\ r = s THEN "closed" ELSE end[k][r]
<1>1. end \in [Connections -> [Sides -> EndStates]]
  BY DEF SessionInv, TypeOK, EndStates
<1>2. "closed" \in EndStates
  BY DEF EndStates
<1>3. Stopped(end, S, s, "closed") \in [Connections -> [Sides -> EndStates]]
  BY <1>1, <1>2, StoppedFacts
<1>4. \A k \in Connections, r \in Sides :
        Stopped(end, S, s, "closed")[k][r] = IF k \in S /\ r = s THEN "closed" ELSE end[k][r]
  BY <1>1, <1>2 DEF Stopped
<1> QED
  BY <1>3, <1>4

\* ... and the messages on their way, of which none was read.
LEMMA StoppedWires ==
  ASSUME NEW w \in [Connections -> [Sides -> Seq(Messages)]], NEW S, NEW s \in Sides
  PROVE  Stopped(w, S, s, <<>>) \in [Connections -> [Sides -> Seq(Messages)]]
<1>1. <<>> \in Seq(Messages)
  OBVIOUS
<1> QED
  BY <1>1, StoppedFacts

-----------------------------------------------------------------------------
(* The actions.                                                            *)

\* disconnect() and what ends in it.
LEMMA DisconnectedStep ==
  ASSUME SessionInv, NEW c \in Clients, NEW rest, Disconnected(c, rest),
         Orderly(rest, c, joiner, era, sessions[c]),
         \A e : InQueue(e, rest) => InQueue(e, queue[c]),
         \A k \in Connections : InQueue(Adopt(k), queue[c]) => InQueue(Adopt(k), rest)
  PROVE  SessionInv'
<1> DEFINE k == transport[c]
           closing == {k} \cup IF c = Host THEN {backlog[i] : i \in DOMAIN backlog} ELSE {}
<1>1. PICK words \in LastWords(k, Side(c)) :
        /\ state' = [state EXCEPT ![c] = "Idle"]
        /\ transport' = [transport EXCEPT ![c] = NoTransport]
        /\ queue' = [queue EXCEPT ![c] = rest \o words]
        /\ acceptor' = IF c = Host THEN "closed" ELSE acceptor
        /\ backlog' = IF c = Host THEN <<>> ELSE backlog
        /\ end' = Stopped(end, closing, Side(c), "closed")
        /\ wire' = Stopped(wire, closing, Side(c), <<>>)
        /\ records' = IF c = Host THEN <<>> ELSE records
        /\ lost' = IF c = Host THEN lost \cup Unnoticed(k, words) ELSE lost
        /\ UNCHANGED <<joiner, key, reset, sessions, era, faults>>
  BY DEF Disconnected
<1>2. /\ Orderly(rest \o words, c, joiner, era, sessions[c])
      /\ \A e : InQueue(e, rest) => InQueue(e, rest \o words)
      /\ \A e : InQueue(e, rest \o words) =>
           InQueue(e, rest) \/ (k # NoTransport /\ e = Eof(k))
  BY LastWordsFacts
<1>3. rest \o words \in Seq(Events(Connections))
  BY <1>2 DEF Orderly
<1>4. \A j \in Connections : j \in closing <=> j = k \/ (c = Host /\ InQueue(j, backlog))
  BY InBacklog
<1> HIDE DEF closing
<1>5. /\ end' \in [Connections -> [Sides -> EndStates]]
      /\ \A j \in Connections, s \in Sides :
           end'[j][s] = IF j \in closing /\ s = Side(c) THEN "closed" ELSE end[j][s]
  <2>1. Side(c) \in Sides /\ end' = Stopped(end, closing, Side(c), "closed")
    BY <1>1, Constants
  <2> QED
    BY <2>1, StoppedEnds
<1>6. wire' \in [Connections -> [Sides -> Seq(Messages)]]
  <2>1. wire \in [Connections -> [Sides -> Seq(Messages)]] /\ Side(c) \in Sides
    BY Constants DEF SessionInv, TypeOK
  <2> QED
    BY <1>1, <2>1, StoppedWires
<1>7. /\ state'[c] = "Idle" /\ transport'[c] = NoTransport /\ queue'[c] = rest \o words
      /\ \A d \in Clients : d # c => /\ state'[d] = state[d] /\ transport'[d] = transport[d]
                                     /\ queue'[d] = queue[d]
  BY <1>1 DEF SessionInv, TypeOK
<1>8. TypeOK'
  <2>1. k \in Connections \cup {NoTransport}
    BY DEF SessionInv, TypeOK
  <2>2. lost' \subseteq Connections
    BY <1>1, <2>1 DEF SessionInv, TypeOK, Unnoticed
  <2>3. backlog' \in Seq(Connections) /\ Len(backlog') <= Backlog
    BY <1>1, LifecycleAssumption DEF SessionInv, TypeOK
  <2>4. records' \in Seq(Peers) /\ acceptor' \in {"closed", "accepting", "failed"}
    BY <1>1 DEF SessionInv, TypeOK
  <2>5. queue' \in [Clients -> Seq(Events(Connections))]
    BY <1>1, <1>3 DEF SessionInv, TypeOK
  <2>6. /\ state' \in [Clients -> {"Idle", "Hosting", "Joining", "Connected"}]
        /\ state'[Host] # "Joining" /\ \A p \in Peers : state'[p] # "Hosting"
        /\ transport' \in [Clients -> Connections \cup {NoTransport}]
    BY <1>1, Constants DEF SessionInv, TypeOK
  <2> QED
    BY <1>1, <1>5, <1>6, <2>2, <2>3, <2>4, <2>5, <2>6 DEF SessionInv, TypeOK, EndStates
<1>9. Numbered'
  BY <1>1 DEF SessionInv, Numbered, Made
<1>10. UnmadeOK'
  <2>1. \A j \in Connections : joiner[j] = Host => j \notin closing
    BY <1>4, Constants DEF SessionInv, TransportsOK, WaitingOK
  <2>2. \A j \in Connections : joiner[j] = Host => \A s \in Sides : end'[j][s] = "none"
    BY <1>5, <2>1 DEF SessionInv, UnmadeOK
  <2> QED
    BY <1>1, <2>2 DEF UnmadeOK
<1>11. QueuesOK'
  BY <1>1, <1>2, <1>7 DEF SessionInv, QueuesOK
<1>12. TransportsOK'
  <2> SUFFICES ASSUME NEW d \in Clients, transport'[d] # NoTransport
               PROVE  /\ state'[d] # "Idle"
                      /\ joiner[transport'[d]] # Host
                      /\ d = Host \/ joiner[transport'[d]] = d
                      /\ era[transport'[d]][Side(d)] = sessions[d]
                      /\ end'[transport'[d]][Side(d)] \notin {"none", "open"}
    BY <1>1 DEF TransportsOK
  <2>1. d # c /\ transport'[d] = transport[d] /\ state'[d] = state[d]
    BY <1>7
  <2>2. transport[d] \in Connections
    BY <2>1 DEF SessionInv, TypeOK
  <2> QED
    BY <1>5, <2>1, <2>2, Constants DEF SessionInv, TransportsOK
<1>13. WaitingOK'
  <2>1. CASE c = Host
    <3>1. \A j : ~InQueue(j, backlog')
      BY <1>1, <2>1 DEF InQueue
    <3>2. ASSUME NEW j \in Connections, InQueue(Adopt(j), queue'[Host])
          PROVE  end'[j]["host"] = "open"
      <4>1. InQueue(Adopt(j), queue[Host])
        BY <1>2, <1>7, <2>1, <3>2 DEF Adopt, Eof
      <4>2. end[j]["host"] = "open"
        BY <4>1 DEF SessionInv, WaitingOK
      <4>3. ~InQueue(j, backlog)
        BY <4>1, EventFacts DEF SessionInv, WaitingOK
      <4>4. j # k
        BY <2>1, <4>2, Constants DEF SessionInv, TransportsOK
      <4> QED
        BY <1>4, <1>5, <4>2, <4>3, <4>4, Constants
    <3> QED
      BY <1>1, <2>1, <3>1, <3>2 DEF WaitingOK
  <2>2. CASE c # Host
    <3>1. backlog' = backlog /\ queue'[Host] = queue[Host]
      BY <1>1, <1>7, <2>2, Constants
    <3>2. \A j \in Connections : end'[j]["host"] = end[j]["host"]
      BY <1>5, <2>2, Constants
    <3> QED
      BY <1>1, <3>1, <3>2 DEF SessionInv, WaitingOK
  <2> QED
    BY <2>1, <2>2
<1>14. SocketsOK'
  <2> SUFFICES ASSUME NEW j \in Connections, joiner[j] # Host
               PROVE  /\ end'[j]["host"] # "closed" =>
                           \/ transport'[Host] = j \/ InQueue(j, backlog')
                           \/ InQueue(Adopt(j), queue'[Host])
                      /\ end'[j]["peer"] # "closed" => transport'[joiner[j]] = j
    BY <1>1 DEF SocketsOK
  <2>1. joiner[j] \in Peers
    BY Constants DEF SessionInv, TypeOK
  <2>2. CASE c = Host
    BY <1>1, <1>2, <1>4, <1>5, <1>7, <2>1, <2>2, Constants DEF SessionInv, SocketsOK
  <2>3. CASE c # Host
    BY <1>1, <1>4, <1>5, <1>7, <2>1, <2>3, Constants DEF SessionInv, SocketsOK
  <2> QED
    BY <2>2, <2>3
<1> QED
  BY <1>8, <1>9, <1>10, <1>11, <1>12, <1>13, <1>14 DEF SessionInv

\* The user or the timeout ends the session.
LEMMA disconnectStep ==
  ASSUME SessionInv, NEW c \in Clients, disconnect(c) \/ heartbeatTimeout(c)
  PROVE  SessionInv'
<1>1. Disconnected(c, queue[c])
  BY DEF disconnect, heartbeatTimeout
<1>2. Orderly(queue[c], c, joiner, era, sessions[c])
  BY DEF SessionInv, QueuesOK
<1> QED
  BY <1>1, <1>2, DisconnectedStep

\* The end of a connection, or a rejection, ends the session.
LEMMA handleEndStep ==
  ASSUME SessionInv, NEW c \in Clients,
         handleTransportDisconnect(c) \/ (c \in Peers /\ joinRejected(c))
  PROVE  SessionInv'
<1>1. /\ Disconnected(c, Rest(c)) /\ queue[c] # <<>>
      /\ Head(queue[c]).type \in {"data", "eof"}
  BY DEF handleTransportDisconnect, joinRejected, First
<1>2. /\ Orderly(Rest(c), c, joiner, era, sessions[c])
      /\ \A e : InQueue(e, queue[c]) <=> e = Head(queue[c]) \/ InQueue(e, Rest(c))
  BY <1>1, DropFacts
<1>3. \A k \in Connections : InQueue(Adopt(k), queue[c]) => InQueue(Adopt(k), Rest(c))
  BY <1>1, <1>2, EventFacts
<1> QED
  BY <1>1, <1>2, <1>3, DisconnectedStep

\* Steps that make, adopt and close no connection: an end whose thread was
\* running may still change among the states of such an end.
Running == {"reading", "cut", "ended", "posted"}

LEMMA QuietStep ==
  ASSUME SessionInv, TypeOK', UNCHANGED <<transport, backlog, joiner, era, sessions>>,
         \A c \in Clients : Orderly(queue'[c], c, joiner, era, sessions[c]),
         \A k \in Connections : InQueue(Adopt(k), queue'[Host]) <=> InQueue(Adopt(k), queue[Host]),
         \A e \in Events(Connections) : InQueue(e, queue'[Host]) =>
           InQueue(e, queue[Host]) \/ ~InQueue(e.conn, backlog),
         \A c \in Clients : transport[c] # NoTransport => state'[c] # "Idle",
         \A k \in Connections, s \in Sides :
           end'[k][s] = end[k][s] \/ (end[k][s] \in Running /\ end'[k][s] \in Running)
  PROVE  SessionInv'
<1>1. Numbered'
  BY DEF SessionInv, Numbered, Made
<1>2. UnmadeOK'
  BY DEF SessionInv, UnmadeOK, Running
<1>3. QueuesOK'
  BY DEF QueuesOK
<1>4. TransportsOK'
  <2> SUFFICES ASSUME NEW c \in Clients, transport[c] # NoTransport
               PROVE  /\ state'[c] # "Idle"
                      /\ joiner[transport[c]] # Host
                      /\ c = Host \/ joiner[transport[c]] = c
                      /\ era[transport[c]][Side(c)] = sessions[c]
                      /\ end'[transport[c]][Side(c)] \notin {"none", "open"}
    BY DEF TransportsOK
  <2>1. transport[c] \in Connections /\ Side(c) \in Sides
    BY Constants DEF SessionInv, TypeOK
  <2> QED
    BY <2>1 DEF SessionInv, TransportsOK, Running
<1>5. \A k \in Connections : end[k]["host"] = "open" => end'[k]["host"] = "open"
  BY Constants DEF Running
<1>6. WaitingOK'
  BY <1>5 DEF SessionInv, WaitingOK
<1>7. \A k \in Connections, s \in Sides : end'[k][s] # "closed" => end[k][s] # "closed"
  BY DEF Running
<1>8. SocketsOK'
  BY <1>7, Constants DEF SessionInv, SocketsOK
<1> QED
  BY <1>1, <1>2, <1>3, <1>4, <1>6, <1>8 DEF SessionInv

\* A quiet step that runs the first event of a queue.
LEMMA QuietDrop ==
  ASSUME SessionInv, TypeOK', UNCHANGED <<transport, backlog, end, joiner, era, sessions>>,
         NEW c \in Clients, queue[c] # <<>>, Head(queue[c]).type # "adopt", Dropped(c),
         \A d \in Clients : transport[d] # NoTransport => state'[d] # "Idle"
  PROVE  SessionInv'
<1>1. /\ Orderly(Rest(c), c, joiner, era, sessions[c])
      /\ \A e : InQueue(e, queue[c]) <=> e = Head(queue[c]) \/ InQueue(e, Rest(c))
  BY DropFacts
<1>2. queue'[c] = Rest(c) /\ \A d \in Clients : d # c => queue'[d] = queue[d]
  BY DEF Dropped, SessionInv, TypeOK
<1>3. \A d \in Clients : Orderly(queue'[d], d, joiner, era, sessions[d])
  BY <1>1, <1>2 DEF SessionInv, QueuesOK
<1>4. \A k \in Connections : InQueue(Adopt(k), queue'[Host]) <=> InQueue(Adopt(k), queue[Host])
  <2> SUFFICES ASSUME NEW k \in Connections
               PROVE  InQueue(Adopt(k), queue'[Host]) <=> InQueue(Adopt(k), queue[Host])
    OBVIOUS
  <2>1. Adopt(k) # Head(queue[c])
    BY EventFacts
  <2> QED
    BY <1>1, <1>2, <2>1, Constants
<1>5. \A e : InQueue(e, queue'[Host]) => InQueue(e, queue[Host])
  BY <1>1, <1>2, Constants
<1> QED
  BY <1>3, <1>4, <1>5, QuietStep

\* The hello was accepted, or the event is for a session that is over.
LEMMA joinedStep ==
  ASSUME SessionInv, NEW c \in Clients, ignoreEvent(c) \/ (c \in Peers /\ joined(c))
  PROVE  SessionInv'
<1>1. /\ queue[c] # <<>> /\ Head(queue[c]).type # "adopt" /\ Dropped(c)
      /\ UNCHANGED <<transport, acceptor, backlog, end, wire, joiner, key, reset, records,
                     sessions, era, lost, faults>>
      /\ state' = state \/ (c \in Peers /\ state' = [state EXCEPT ![c] = "Connected"])
  BY DEF ignoreEvent, joined, First
<1>2. Rest(c) \in Seq(Events(Connections))
  BY <1>1, DropFacts
<1>3. TypeOK'
  BY <1>1, <1>2, Constants DEF SessionInv, TypeOK, Dropped
<1>4. \A d \in Clients : transport[d] # NoTransport => state'[d] # "Idle"
  BY <1>1 DEF SessionInv, TransportsOK, TypeOK
<1> QED
  BY <1>1, <1>3, <1>4, QuietDrop

\* What send() leaves on the wire.
LEMMA SentFacts ==
  ASSUME SessionInv, NEW c \in Clients, NEW m \in Messages
  PROVE  Sent(wire, c, m) \in [Connections -> [Sides -> Seq(Messages)]]
<1>1. wire \in [Connections -> [Sides -> Seq(Messages)]]
  BY DEF SessionInv, TypeOK
<1>2. CASE Sent(wire, c, m) = wire
  BY <1>1, <1>2
<1> DEFINE k == transport[c]
           s == Other(Side(c))
<1>3. CASE /\ isConnected(c)
           /\ Sent(wire, c, m) = [wire EXCEPT ![k][s] = Append(@, m)]
  <2>1. k \in Connections /\ s \in Sides
    BY <1>3, Constants DEF isConnected, SessionInv, TypeOK
  <2>2. wire[k][s] \in Seq(Messages)
    BY <1>1, <2>1
  <2>3. Append(wire[k][s], m) \in Seq(Messages)
    BY <2>2
  <2> HIDE DEF k, s
  <2> QED
    BY <1>1, <1>3, <2>1, <2>3
<1> QED
  BY <1>2, <1>3 DEF Sent

\* The host accepts a hello.
LEMMA handleHostHelloStep ==
  ASSUME SessionInv, NEW k \in Connections, handleHostHello(k)
  PROVE  SessionInv'
<1>1. /\ queue[Host] # <<>> /\ Head(queue[Host]) = Data(k, Hello)
      /\ Head(queue[Host]).type # "adopt" /\ Dropped(Host)
      /\ wire' = Sent(wire, Host, Accepted)
      /\ records' = Append(records, joiner[k])
      /\ state' = [state EXCEPT ![Host] = "Connected"]
      /\ UNCHANGED <<transport, acceptor, backlog, end, joiner, key, reset, sessions, era,
                     lost, faults>>
  BY DEF handleHostHello, HelloFrom, First
<1>2. /\ Rest(Host) \in Seq(Events(Connections))
      /\ joiner[Head(queue[Host]).conn] # Host
  BY <1>1, Constants, DropFacts
<1>3. joiner[k] \in Peers
  BY <1>1, <1>2, Constants DEF Data, SessionInv, TypeOK
<1>4. wire' \in [Connections -> [Sides -> Seq(Messages)]]
  BY <1>1, Constants, SentFacts DEF Messages
<1>5. records' \in Seq(Peers)
  BY <1>1, <1>3 DEF SessionInv, TypeOK
<1>6. TypeOK'
  BY <1>1, <1>2, <1>4, <1>5, Constants DEF SessionInv, TypeOK, Dropped
<1>7. \A d \in Clients : transport[d] # NoTransport => state'[d] # "Idle"
  BY <1>1 DEF SessionInv, TransportsOK, TypeOK
<1> QED
  BY <1>1, <1>6, <1>7, Constants, QuietDrop

\* A quiet step in which the running receive thread of an end posts an event.
LEMMA QuietPost ==
  ASSUME SessionInv, TypeOK', UNCHANGED <<state, transport, backlog, joiner, era, sessions>>,
         NEW k \in Connections, NEW s \in Sides, end[k][s] \in Running,
         NEW e \in Events(Connections), e.conn = k, e.type # "adopt",
         LET c == IF s = "host" THEN Host ELSE joiner[k] IN
           queue' = [queue EXCEPT ![c] = Append(@, e)],
         \A j \in Connections, r \in Sides :
           end'[j][r] = end[j][r] \/ (end[j][r] \in Running /\ end'[j][r] \in Running)
  PROVE  SessionInv'
<1> DEFINE c == IF s = "host" THEN Host ELSE joiner[k]
<1>1. /\ c \in Clients /\ Side(c) = s /\ joiner[k] # Host /\ transport[c] = k
      /\ s = "host" => c = Host
      /\ queue' = [queue EXCEPT ![c] = Append(@, e)]
  BY ActiveIsCurrent DEF Running
<1> HIDE DEF c
<1>2. /\ Orderly(queue[c], c, joiner, era, sessions[c])
      /\ era \in [Connections -> [Sides -> Nat]] /\ sessions[c] \in Nat
  BY <1>1 DEF SessionInv, QueuesOK, TypeOK
<1>3. /\ joiner[e.conn] # Host /\ (c = Host \/ joiner[e.conn] = c)
      /\ era[e.conn][Side(c)] = sessions[c]
  BY <1>1, LifecycleAssumption DEF SessionInv, TransportsOK, Connections, NoTransport
<1>4. \A i \in 1..Len(queue[c]) : queue[c][i].conn = e.conn => queue[c][i].type # "adopt"
  <2> SUFFICES ASSUME NEW i \in 1..Len(queue[c]), queue[c][i].conn = k, queue[c][i].type = "adopt"
               PROVE  FALSE
    OBVIOUS
  <2>1. c = Host /\ queue[c][i] \in Events(Connections)
    BY <1>2 DEF Orderly
  <2>2. InQueue(Adopt(k), queue[Host])
    BY <2>1, EventFacts DEF InQueue
  <2>3. end[k]["host"] = "open"
    BY <2>2 DEF SessionInv, WaitingOK
  <2> QED
    BY <1>1, <2>1, <2>3, Constants DEF Running
<1>5. /\ Orderly(Append(queue[c], e), c, joiner, era, sessions[c])
      /\ \A f : InQueue(f, Append(queue[c], e)) <=> f = e \/ InQueue(f, queue[c])
  <2>1. SUFFICES ASSUME NEW d \in Clients, d = c
                 PROVE  /\ Orderly(Append(queue[d], e), d, joiner, era, sessions[d])
                        /\ \A f : InQueue(f, Append(queue[d], e)) <=> f = e \/ InQueue(f, queue[d])
    BY <1>1
  <2>2. /\ Orderly(queue[d], d, joiner, era, sessions[d])
        /\ era \in [Connections -> [Sides -> Nat]] /\ sessions[d] \in Nat
        /\ joiner[e.conn] # Host /\ (d = Host \/ joiner[e.conn] = d)
        /\ era[e.conn][Side(d)] = sessions[d] /\ e.type # "adopt"
        /\ \A i \in 1..Len(queue[d]) : queue[d][i].conn = e.conn => queue[d][i].type # "adopt"
    BY <1>2, <1>3, <1>4, <2>1
  <2> QED
    BY <2>2, AppendOrderly
<1>6. queue'[c] = Append(queue[c], e) /\ \A d \in Clients : d # c => queue'[d] = queue[d]
  BY <1>1 DEF SessionInv, TypeOK
<1>7. \A d \in Clients : Orderly(queue'[d], d, joiner, era, sessions[d])
  BY <1>5, <1>6 DEF SessionInv, QueuesOK
<1>8. \A j \in Connections : InQueue(Adopt(j), queue'[Host]) <=> InQueue(Adopt(j), queue[Host])
  BY <1>5, <1>6, EventFacts, Constants
<1>9. ASSUME NEW f \in Events(Connections), InQueue(f, queue'[Host])
      PROVE  InQueue(f, queue[Host]) \/ ~InQueue(f.conn, backlog)
  <2>1. CASE InQueue(f, queue[Host])
    BY <2>1
  <2>2. CASE f = e /\ c = Host
    BY <1>1, <2>2, Constants DEF SessionInv, WaitingOK, Running
  <2> QED
    BY <1>5, <1>6, <1>9, <2>1, <2>2, Constants
<1>10. \A d \in Clients : transport[d] # NoTransport => state'[d] # "Idle"
  BY DEF SessionInv, TransportsOK
<1> QED
  BY <1>7, <1>8, <1>9, <1>10, QuietStep

\* A receive thread posts a frame.
LEMMA recvFrameStep ==
  ASSUME SessionInv, NEW k \in Connections, NEW s \in Sides, recvFrame(k, s)
  PROVE  SessionInv'
<1> DEFINE e == Data(k, Head(wire[k][s]))
           c == IF s = "host" THEN Host ELSE joiner[k]
<1>1. /\ end[k][s] \in Running /\ wire[k][s] # <<>>
      /\ queue' = [queue EXCEPT ![c] = Append(@, e)]
      /\ wire' = [wire EXCEPT ![k][s] = Tail(@)]
      /\ UNCHANGED <<state, transport, acceptor, backlog, end, joiner, key, reset, records,
                     sessions, era, lost, faults>>
  BY DEF recvFrame, Running
<1>2. wire[k][s] \in Seq(Messages)
  BY DEF SessionInv, TypeOK
<1>3. Head(wire[k][s]) \in Messages /\ Tail(wire[k][s]) \in Seq(Messages)
  BY <1>1, <1>2
<1>4. e \in Events(Connections) /\ e.conn = k /\ e.type = "data"
  BY <1>3, EventFacts
<1>5. c \in Clients
  BY Constants DEF SessionInv, TypeOK
<1> HIDE DEF e, c
<1>6. queue' \in [Clients -> Seq(Events(Connections))]
  BY <1>1, <1>4, <1>5 DEF SessionInv, TypeOK
<1>7. wire' \in [Connections -> [Sides -> Seq(Messages)]]
  BY <1>1, <1>3 DEF SessionInv, TypeOK
<1>8. TypeOK'
  BY <1>1, <1>6, <1>7 DEF SessionInv, TypeOK
<1>9. \A j \in Connections, r \in Sides :
        end'[j][r] = end[j][r] \/ (end[j][r] \in Running /\ end'[j][r] \in Running)
  BY <1>1
<1> QED
  BY <1>1, <1>4, <1>8, <1>9, QuietPost DEF c

\* A receive thread posts the end of its connection.
LEMMA postDisconnectedStep ==
  ASSUME SessionInv, NEW k \in Connections, NEW s \in Sides, postDisconnected(k, s)
  PROVE  SessionInv'
<1> DEFINE e == Eof(k)
           c == IF s = "host" THEN Host ELSE joiner[k]
<1>1. /\ end[k][s] \in Running
      /\ queue' = [queue EXCEPT ![c] = Append(@, e)]
      /\ end' = [end EXCEPT ![k][s] = "posted"]
      /\ UNCHANGED <<state, transport, acceptor, backlog, wire, joiner, key, reset, records,
                     sessions, era, lost, faults>>
  BY DEF postDisconnected, Running
<1>2. e \in Events(Connections) /\ e.conn = k /\ e.type = "eof"
  BY EventFacts
<1>3. c \in Clients
  BY Constants DEF SessionInv, TypeOK
<1> HIDE DEF e, c
<1>4. queue' \in [Clients -> Seq(Events(Connections))]
  BY <1>1, <1>2, <1>3 DEF SessionInv, TypeOK
<1>5. TypeOK'
  BY <1>1, <1>4 DEF SessionInv, TypeOK
<1>6. \A j \in Connections, r \in Sides :
        end'[j][r] = end[j][r] \/ (end[j][r] \in Running /\ end'[j][r] \in Running)
  BY <1>1 DEF SessionInv, TypeOK, Running
<1> QED
  BY <1>1, <1>2, <1>5, <1>6, QuietPost DEF c

\* A quiet step that posts nothing.
LEMMA QuietQueues ==
  ASSUME SessionInv, TypeOK', UNCHANGED <<state, queue, transport, backlog, joiner, era, sessions>>,
         \A j \in Connections, r \in Sides :
           end'[j][r] = end[j][r] \/ (end[j][r] \in Running /\ end'[j][r] \in Running)
  PROVE  SessionInv'
<1>1. \A c \in Clients : Orderly(queue'[c], c, joiner, era, sessions[c])
  BY DEF SessionInv, QueuesOK
<1>2. \A c \in Clients : transport[c] # NoTransport => state'[c] # "Idle"
  BY DEF SessionInv, TransportsOK
<1>3. \A e \in Events(Connections) : InQueue(e, queue'[Host]) =>
        InQueue(e, queue[Host]) \/ ~InQueue(e.conn, backlog)
  OBVIOUS
<1>4. \A k \in Connections : InQueue(Adopt(k), queue'[Host]) <=> InQueue(Adopt(k), queue[Host])
  OBVIOUS
<1> QED
  BY <1>1, <1>2, <1>3, <1>4, QuietStep

\* A receive thread leaves its loop.
LEMMA recvFailsStep ==
  ASSUME SessionInv, NEW k \in Connections, NEW s \in Sides, recvFails(k, s)
  PROVE  SessionInv'
<1>1. /\ end[k][s] \in Running /\ end' = [end EXCEPT ![k][s] = "ended"]
      /\ wire' = [wire EXCEPT ![k][s] = <<>>]
      /\ UNCHANGED <<state, transport, queue, acceptor, backlog, joiner, key, reset, records,
                     sessions, era, lost, faults>>
  BY DEF recvFails, Running
<1>2. wire' \in [Connections -> [Sides -> Seq(Messages)]]
  BY <1>1 DEF SessionInv, TypeOK
<1>3. TypeOK'
  BY <1>1, <1>2 DEF SessionInv, TypeOK
<1>4. \A j \in Connections, r \in Sides :
        end'[j][r] = end[j][r] \/ (end[j][r] \in Running /\ end'[j][r] \in Running)
  BY <1>1 DEF SessionInv, TypeOK, Running
<1> QED
  BY <1>1, <1>3, <1>4, QuietQueues

\* A send finds the connection dead.
LEMMA sendFailsStep ==
  ASSUME SessionInv, NEW c \in Clients, sendFails(c)
  PROVE  SessionInv'
<1> DEFINE k == transport[c]
           s == Side(c)
<1>1. /\ k # NoTransport /\ end[k][s] = "reading" /\ end' = [end EXCEPT ![k][s] = "cut"]
      /\ UNCHANGED <<state, transport, queue, acceptor, backlog, wire, joiner, key, reset,
                     records, sessions, era, lost, faults>>
  BY DEF sendFails, isConnected
<1>2. k \in Connections /\ s \in Sides
  BY <1>1, Constants DEF SessionInv, TypeOK
<1> HIDE DEF k, s
<1>3. TypeOK'
  BY <1>1, <1>2 DEF SessionInv, TypeOK
<1>4. \A j \in Connections, r \in Sides :
        end'[j][r] = end[j][r] \/ (end[j][r] \in Running /\ end'[j][r] \in Running)
  BY <1>1, <1>2 DEF SessionInv, TypeOK, Running
<1> QED
  BY <1>1, <1>3, <1>4, QuietQueues

\* accept() fails, or the network resets a connection.
LEMMA faultsStep ==
  ASSUME SessionInv, acceptFails \/ \E k \in Connections : connectionReset(k)
  PROVE  SessionInv'
<1>1. /\ UNCHANGED <<state, transport, queue, backlog, end, joiner, key, records, sessions, era,
                     lost>>
      /\ faults < MaxFaults /\ faults' = faults + 1
      /\ acceptor' \in {acceptor, "failed"} /\ reset' \subseteq reset \cup Connections
  BY DEF acceptFails, connectionReset, Fault, Made
<1>2. wire' \in [Connections -> [Sides -> Seq(Messages)]]
  <2>1. wire \in [Connections -> [Sides -> Seq(Messages)]]
    BY DEF SessionInv, TypeOK
  <2>2. CASE acceptFails
    BY <2>1, <2>2 DEF acceptFails
  <2>3. ASSUME NEW k \in Connections, connectionReset(k)
        PROVE  wire' \in [Connections -> [Sides -> Seq(Messages)]]
    <3>1. [s \in Sides |-> <<>>] \in [Sides -> Seq(Messages)]
      OBVIOUS
    <3>2. wire' = [wire EXCEPT ![k] = [s \in Sides |-> <<>>]]
      BY <2>3 DEF connectionReset
    <3> DEFINE none == [s \in Sides |-> <<>>]
    <3> HIDE DEF none
    <3>3. [wire EXCEPT ![k] = none] \in [Connections -> [Sides -> Seq(Messages)]]
      BY <2>1, <3>1 DEF none
    <3> QED
      BY <3>2, <3>3 DEF none
  <2> QED
    BY <2>2, <2>3
<1>3. faults' \in 0..MaxFaults
  BY <1>1, LifecycleAssumption DEF SessionInv, TypeOK
<1>4. TypeOK'
  BY <1>1, <1>2, <1>3 DEF SessionInv, TypeOK
<1> QED
  BY <1>1, <1>4, QuietQueues

\* The host opens a session.
LEMMA startHostStep ==
  ASSUME SessionInv, startHost
  PROVE  SessionInv'
<1>1. /\ state[Host] = "Idle" /\ sessions[Host] < MaxSessions[Host]
      /\ state' = [state EXCEPT ![Host] = "Hosting"]
      /\ sessions' = [sessions EXCEPT ![Host] = @ + 1]
      /\ acceptor' = "accepting"
      /\ UNCHANGED <<transport, queue, backlog, end, wire, joiner, key, reset, records, era,
                     lost, faults>>
  BY DEF startHost
<1>2. /\ sessions'[Host] = sessions[Host] + 1 /\ sessions' \in [Clients -> Nat]
      /\ \A c \in Clients : c # Host => sessions'[c] = sessions[c] /\ state'[c] = state[c]
      /\ \A c \in Clients : sessions'[c] <= MaxSessions[c] /\ sessions[c] <= sessions'[c]
  BY <1>1, Constants DEF SessionInv, TypeOK
<1>3. TypeOK'
  BY <1>1, <1>2, Constants DEF SessionInv, TypeOK
<1>4. QueuesOK'
  <2> SUFFICES ASSUME NEW c \in Clients
               PROVE  Orderly(queue[c], c, joiner, era, sessions'[c])
    BY <1>1 DEF QueuesOK
  <2>1. /\ Orderly(queue[c], c, joiner, era, sessions[c])
        /\ era \in [Connections -> [Sides -> Nat]]
        /\ sessions[c] \in Nat /\ sessions'[c] \in Nat /\ sessions[c] <= sessions'[c]
    BY <1>2 DEF SessionInv, QueuesOK, TypeOK
  <2> QED
    BY <2>1, FrameOrderly
<1>5. transport[Host] = NoTransport
  BY <1>1, Constants DEF SessionInv, TransportsOK
<1>6. TransportsOK'
  BY <1>1, <1>2, <1>5 DEF SessionInv, TransportsOK
<1>7. Numbered' /\ UnmadeOK' /\ WaitingOK' /\ SocketsOK'
  BY <1>1 DEF SessionInv, Numbered, Made, UnmadeOK, WaitingOK, SocketsOK
<1> QED
  BY <1>3, <1>4, <1>6, <1>7 DEF SessionInv

\* The host closes a socket nobody wants.
LEMMA refuseSocketStep ==
  ASSUME SessionInv, refuseSocket
  PROVE  SessionInv'
<1> DEFINE k == Head(queue[Host]).conn
<1>1. /\ queue[Host] # <<>> /\ Head(queue[Host]).type = "adopt" /\ Dropped(Host)
      /\ end' = Stopped(end, {k}, "host", "closed")
      /\ wire' = Stopped(wire, {k}, "host", <<>>)
      /\ UNCHANGED <<state, transport, acceptor, backlog, joiner, key, reset, records,
                     sessions, era, lost, faults>>
  BY DEF refuseSocket, First
<1>2. /\ Orderly(Rest(Host), Host, joiner, era, sessions[Host])
      /\ Rest(Host) \in Seq(Events(Connections))
      /\ \A e : InQueue(e, queue[Host]) <=> e = Head(queue[Host]) \/ InQueue(e, Rest(Host))
      /\ joiner[k] # Host /\ k \in Connections /\ Head(queue[Host]) = Adopt(k)
      /\ \A i \in 1..Len(Rest(Host)) : Rest(Host)[i].conn # k
  BY <1>1, Constants, DropFacts, EventFacts
<1> HIDE DEF k
<1>3. /\ queue'[Host] = Rest(Host) /\ \A d \in Clients : d # Host => queue'[d] = queue[d]
      /\ queue' \in [Clients -> Seq(Events(Connections))]
  BY <1>1, <1>2, Constants DEF Dropped, SessionInv, TypeOK
<1>4. /\ end' \in [Connections -> [Sides -> EndStates]]
      /\ \A j \in Connections, s \in Sides :
           end'[j][s] = IF j = k /\ s = "host" THEN "closed" ELSE end[j][s]
  <2>1. "host" \in Sides
    BY Constants
  <2> QED
    BY <1>1, <2>1, StoppedEnds
<1>5. wire' \in [Connections -> [Sides -> Seq(Messages)]]
  <2>1. wire \in [Connections -> [Sides -> Seq(Messages)]] /\ "host" \in Sides
    BY Constants DEF SessionInv, TypeOK
  <2> QED
    BY <1>1, <2>1, StoppedWires
<1>6. TypeOK'
  BY <1>1, <1>3, <1>4, <1>5 DEF SessionInv, TypeOK, EndStates
<1>7. Numbered'
  BY <1>1 DEF SessionInv, Numbered, Made
<1>8. UnmadeOK'
  <2>1. \A j \in Connections : joiner[j] = Host => \A s \in Sides : end'[j][s] = "none"
    BY <1>2, <1>4 DEF SessionInv, UnmadeOK
  <2> QED
    BY <1>1, <2>1 DEF UnmadeOK
<1>9. QueuesOK'
  BY <1>1, <1>2, <1>3 DEF SessionInv, QueuesOK
<1>10. TransportsOK'
  <2>1. \A c \in Clients : transport[c] # NoTransport =>
          transport[c] \in Connections /\ Side(c) \in Sides
    BY Constants DEF SessionInv, TypeOK
  <2>2. \A c \in Clients : transport[c] # NoTransport =>
          end'[transport[c]][Side(c)] \notin {"none", "open"}
    BY <1>4, <2>1 DEF SessionInv, TransportsOK
  <2> QED
    BY <1>1, <2>2 DEF SessionInv, TransportsOK
<1>11. \A j \in Connections : InQueue(Adopt(j), Rest(Host)) => j # k
  BY EventFacts, <1>2 DEF InQueue
<1>12. \A j \in Connections : InQueue(j, backlog) => j # k
  BY <1>1, <1>2, EventFacts DEF SessionInv, WaitingOK
<1>13. WaitingOK'
  <2>1. ASSUME NEW j \in Connections, InQueue(j, backlog)
        PROVE  /\ joiner[j] # Host /\ end'[j]["host"] = "open"
               /\ \A e \in Events(Connections) : InQueue(e, queue'[Host]) => e.conn # j
    BY <1>2, <1>3, <1>4, <1>12, <2>1, Constants DEF SessionInv, WaitingOK
  <2>2. ASSUME NEW j \in Connections, InQueue(Adopt(j), queue'[Host])
        PROVE  end'[j]["host"] = "open"
    BY <1>2, <1>3, <1>4, <1>11, <2>2, Constants DEF SessionInv, WaitingOK
  <2> QED
    BY <1>1, <2>1, <2>2 DEF SessionInv, WaitingOK
<1>14. SocketsOK'
  <2>1. \A j \in Connections : Adopt(j) = Adopt(k) => j = k
    BY <1>2, EventFacts
  <2> SUFFICES ASSUME NEW j \in Connections, joiner[j] # Host
               PROVE  /\ end'[j]["host"] # "closed" =>
                           \/ transport[Host] = j \/ InQueue(j, backlog)
                           \/ InQueue(Adopt(j), queue'[Host])
                      /\ end'[j]["peer"] # "closed" => transport[joiner[j]] = j
    BY <1>1 DEF SocketsOK
  <2>2. CASE j = k
    BY <1>4, <2>2, Constants DEF SessionInv, SocketsOK
  <2>3. CASE j # k
    BY <1>2, <1>3, <1>4, <2>1, <2>3, Constants DEF SessionInv, SocketsOK
  <2> QED
    BY <2>2, <2>3
<1> QED
  BY <1>6, <1>7, <1>8, <1>9, <1>10, <1>13, <1>14 DEF SessionInv

\* The host takes a socket for its transport and stops the old one.
LEMMA adoptAcceptedSocketStep ==
  ASSUME SessionInv, adoptAcceptedSocket
  PROVE  SessionInv'
<1> DEFINE k == Head(queue[Host]).conn
           old == transport[Host]
           stopped == Stopped(end, {old}, "host", "closed")
<1>1. PICK words \in LastWords(old, "host") :
        /\ transport' = [transport EXCEPT ![Host] = k]
        /\ end' = [stopped EXCEPT ![k]["host"] = "reading"]
        /\ wire' = Stopped(wire, {old}, "host", <<>>)
        /\ queue' = [queue EXCEPT ![Host] = Rest(Host) \o words]
        /\ lost' = lost \cup Unnoticed(old, words)
        /\ era' = [era EXCEPT ![k]["host"] = sessions[Host]]
        /\ UNCHANGED <<state, acceptor, backlog, joiner, key, reset, records, sessions, faults>>
  BY DEF adoptAcceptedSocket
<1>2. queue[Host] # <<>> /\ Head(queue[Host]).type = "adopt" /\ state[Host] # "Idle"
  BY DEF adoptAcceptedSocket, First
<1>3. /\ Orderly(Rest(Host), Host, joiner, era, sessions[Host])
      /\ Rest(Host) \in Seq(Events(Connections))
      /\ \A e : InQueue(e, queue[Host]) <=> e = Head(queue[Host]) \/ InQueue(e, Rest(Host))
      /\ joiner[k] # Host /\ k \in Connections /\ Head(queue[Host]) = Adopt(k)
      /\ \A i \in 1..Len(Rest(Host)) : Rest(Host)[i].conn # k
  BY <1>2, Constants, DropFacts, EventFacts
<1> DEFINE q == Rest(Host) \o words
<1>4. /\ Orderly(q, Host, joiner, era, sessions[Host])
      /\ \A e : InQueue(e, Rest(Host)) => InQueue(e, q)
      /\ \A e : InQueue(e, q) =>
           InQueue(e, Rest(Host)) \/ (old # NoTransport /\ e = Eof(old))
  BY <1>3, Constants, LastWordsFacts
<1>5. q \in Seq(Events(Connections))
  BY <1>4 DEF Orderly
<1>6. stopped \in [Connections -> [Sides -> EndStates]]
      /\ \A j \in Connections, s \in Sides :
           stopped[j][s] = IF j = old /\ s = "host" THEN "closed" ELSE end[j][s]
  <2>1. "host" \in Sides
    BY Constants
  <2> QED
    BY <2>1, StoppedEnds
<1> HIDE DEF k, old, stopped, q
<1>7. /\ end' \in [Connections -> [Sides -> EndStates]]
      /\ \A j \in Connections, s \in Sides :
           end'[j][s] = IF j = k /\ s = "host" THEN "reading"
                        ELSE IF j = old /\ s = "host" THEN "closed" ELSE end[j][s]
  BY <1>1, <1>3, <1>6, Constants DEF EndStates
<1>8. /\ queue'[Host] = q /\ \A d \in Clients : d # Host => queue'[d] = queue[d]
      /\ queue' \in [Clients -> Seq(Events(Connections))]
      /\ transport'[Host] = k /\ \A d \in Clients : d # Host => transport'[d] = transport[d]
      /\ transport' \in [Clients -> Connections \cup {NoTransport}]
  BY <1>1, <1>3, <1>5, Constants DEF q, SessionInv, TypeOK
<1>9. /\ era' \in [Connections -> [Sides -> Nat]] /\ era \in [Connections -> [Sides -> Nat]]
      /\ \A j \in Connections, s \in Sides :
           era'[j][s] = IF j = k /\ s = "host" THEN sessions[Host] ELSE era[j][s]
  BY <1>1, <1>3, Constants DEF SessionInv, TypeOK
<1>10. end[k]["host"] = "open"
  BY <1>2, <1>3 DEF SessionInv, WaitingOK
<1>11. old # NoTransport => old \in Connections /\ end[old]["host"] \notin {"none", "open"}
  BY Constants DEF old, SessionInv, TypeOK, TransportsOK
<1>12. TypeOK'
  <2>1. wire' \in [Connections -> [Sides -> Seq(Messages)]]
    <3>1. wire \in [Connections -> [Sides -> Seq(Messages)]] /\ "host" \in Sides
      BY Constants DEF SessionInv, TypeOK
    <3> QED
      BY <1>1, <3>1, StoppedWires
  <2>2. lost' \subseteq Connections
    BY <1>1, <1>11 DEF SessionInv, TypeOK, Unnoticed
  <2> QED
    BY <1>1, <1>7, <1>8, <1>9, <2>1, <2>2 DEF SessionInv, TypeOK, EndStates
<1>13. Numbered'
  BY <1>1 DEF SessionInv, Numbered, Made
<1>14. UnmadeOK'
  <2>1. \A j \in Connections : joiner[j] = Host => j # k /\ j # old
    BY <1>3, Constants DEF old, SessionInv, TransportsOK
  <2>2. \A j \in Connections : joiner[j] = Host => \A s \in Sides : end'[j][s] = "none"
    BY <1>7, <2>1 DEF SessionInv, UnmadeOK
  <2> QED
    BY <1>1, <2>2 DEF UnmadeOK
<1>15. QueuesOK'
  <2> SUFFICES ASSUME NEW c \in Clients
               PROVE  Orderly(queue'[c], c, joiner, era', sessions[c])
    BY <1>1 DEF QueuesOK
  <2>1. sessions[c] \in Nat
    BY DEF SessionInv, TypeOK
  <2>2. CASE c = Host
    <3>1. \A i \in 1..Len(q) : q[i].conn \in Connections /\ q[i].conn # k
      <4> SUFFICES ASSUME NEW i \in 1..Len(q)
                   PROVE  q[i].conn \in Connections /\ q[i].conn # k
        OBVIOUS
      <4>1. InQueue(q[i], q) /\ q[i] \in Events(Connections)
        BY <1>5 DEF InQueue
      <4>2. CASE InQueue(q[i], Rest(Host))
        BY <1>3, <4>1, <4>2, EventFacts DEF InQueue
      <4>3. CASE old # NoTransport /\ q[i] = Eof(old)
        BY <1>10, <1>11, <4>1, <4>3, EventFacts
      <4> QED
        BY <1>4, <4>1, <4>2, <4>3
    <3>2. \A i \in 1..Len(q) : era'[q[i].conn][Side(c)] = era[q[i].conn][Side(c)]
      BY <1>9, <3>1, Constants
    <3>3. Orderly(q, c, joiner, era, sessions[c])
      BY <1>4, <2>2
    <3>4. Orderly(q, c, joiner, era', sessions[c])
      BY <3>2, <3>3 DEF Orderly
    <3> QED
      BY <1>8, <2>2, <3>4
  <2>3. CASE c # Host
    <3>1. Orderly(queue[c], c, joiner, era, sessions[c])
      BY DEF SessionInv, QueuesOK
    <3>2. \A i \in 1..Len(queue[c]) : queue[c][i].conn \in Connections
      BY <3>1, EventFacts DEF Orderly
    <3>3. \A i \in 1..Len(queue[c]) :
            era'[queue[c][i].conn][Side(c)] = era[queue[c][i].conn][Side(c)]
      BY <1>9, <2>3, <3>2, Constants
    <3>4. Orderly(queue[c], c, joiner, era', sessions[c])
      BY <3>1, <3>3 DEF Orderly
    <3> QED
      BY <1>8, <2>3, <3>4
  <2> QED
    BY <2>2, <2>3
<1>16. TransportsOK'
  <2> SUFFICES ASSUME NEW c \in Clients, transport'[c] # NoTransport
               PROVE  /\ state[c] # "Idle"
                      /\ joiner[transport'[c]] # Host
                      /\ c = Host \/ joiner[transport'[c]] = c
                      /\ era'[transport'[c]][Side(c)] = sessions[c]
                      /\ end'[transport'[c]][Side(c)] \notin {"none", "open"}
    BY <1>1 DEF TransportsOK
  <2>1. CASE c = Host
    BY <1>2, <1>3, <1>7, <1>8, <1>9, <2>1, Constants
  <2>2. CASE c # Host
    <3>1. /\ transport'[c] = transport[c] /\ transport[c] \in Connections
          /\ Side(c) = "peer" /\ Side(c) \in Sides
      BY <1>8, <2>2, Constants DEF SessionInv, TypeOK
    <3> QED
      BY <1>7, <1>9, <3>1 DEF SessionInv, TransportsOK
  <2> QED
    BY <2>1, <2>2
<1>17. \A j \in Connections : InQueue(Adopt(j), q) => InQueue(Adopt(j), Rest(Host)) /\ j # k
  <2> SUFFICES ASSUME NEW j \in Connections, InQueue(Adopt(j), q)
               PROVE  InQueue(Adopt(j), Rest(Host)) /\ j # k
    OBVIOUS
  <2>1. InQueue(Adopt(j), Rest(Host))
    BY <1>4 DEF Adopt, Eof
  <2> QED
    BY <1>3, <2>1, EventFacts DEF InQueue
<1>18. WaitingOK'
  <2>1. ASSUME NEW j \in Connections, InQueue(j, backlog)
        PROVE  /\ joiner[j] # Host /\ end'[j]["host"] = "open"
               /\ \A e \in Events(Connections) : InQueue(e, queue'[Host]) => e.conn # j
    <3>1. /\ joiner[j] # Host /\ end[j]["host"] = "open"
          /\ \A e \in Events(Connections) : InQueue(e, queue[Host]) => e.conn # j
      BY <2>1 DEF SessionInv, WaitingOK
    <3>2. j # k
      BY <1>3, <3>1, EventFacts
    <3>3. old # NoTransport => j # old
      BY <1>11, <3>1
    <3>4. end'[j]["host"] = "open"
      BY <1>7, <3>1, <3>2, <3>3, Constants
    <3>5. ASSUME NEW e \in Events(Connections), InQueue(e, queue'[Host])
          PROVE  e.conn # j
      BY <1>3, <1>4, <1>8, <1>11, <3>1, <3>3, <3>5, EventFacts
    <3> QED
      BY <3>1, <3>4, <3>5
  <2>2. ASSUME NEW j \in Connections, InQueue(Adopt(j), queue'[Host])
        PROVE  end'[j]["host"] = "open"
    <3>1. InQueue(Adopt(j), queue[Host]) /\ j # k
      BY <1>3, <1>8, <1>17, <2>2
    <3>2. end[j]["host"] = "open"
      BY <3>1 DEF SessionInv, WaitingOK
    <3> QED
      BY <1>7, <1>11, <3>1, <3>2, Constants
  <2> QED
    BY <1>1, <2>1, <2>2 DEF SessionInv, WaitingOK
<1>19. SocketsOK'
  <2> SUFFICES ASSUME NEW j \in Connections, joiner[j] # Host
               PROVE  /\ end'[j]["host"] # "closed" =>
                           \/ transport'[Host] = j \/ InQueue(j, backlog)
                           \/ InQueue(Adopt(j), queue'[Host])
                      /\ end'[j]["peer"] # "closed" => transport'[joiner[j]] = j
    BY <1>1 DEF SocketsOK
  <2>1. joiner[j] \in Clients
    BY DEF SessionInv, TypeOK
  <2>2. end'[j]["peer"] # "closed" => transport'[joiner[j]] = j
    BY <1>7, <1>8, <2>1, Constants DEF SessionInv, SocketsOK
  <2>3. CASE j = k
    BY <1>8, <2>2, <2>3
  <2>4. CASE j # k /\ end'[j]["host"] # "closed"
    <3>1. j # old /\ end[j]["host"] # "closed"
      BY <1>7, <2>4, Constants
    <3>2. InQueue(j, backlog) \/ InQueue(Adopt(j), queue[Host])
      BY <3>1 DEF old, SessionInv, SocketsOK
    <3>3. Adopt(j) # Adopt(k)
      BY <1>3, <2>4, EventFacts
    <3> QED
      BY <1>3, <1>4, <1>8, <2>2, <3>2, <3>3
  <2> QED
    BY <2>2, <2>3, <2>4
<1> QED
  BY <1>12, <1>13, <1>14, <1>15, <1>16, <1>18, <1>19 DEF SessionInv

\* The host rejects a hello and stops its transport.
LEMMA rejectHelloStep ==
  ASSUME SessionInv, NEW h \in Connections, rejectHello(h)
  PROVE  SessionInv'
<1> DEFINE k == transport[Host]
           sent == Sent(wire, Host, Rejected)
<1>1. PICK words \in LastWords(k, "host") :
        /\ transport' = [transport EXCEPT ![Host] = NoTransport]
        /\ end' = Stopped(end, {k}, "host", "closed")
        /\ wire' = Stopped(sent, {k}, "host", <<>>)
        /\ queue' = [queue EXCEPT ![Host] = Rest(Host) \o words]
        /\ lost' = lost \cup Unnoticed(k, words)
        /\ UNCHANGED <<state, acceptor, backlog, joiner, key, reset, records, sessions, era, faults>>
  BY DEF rejectHello
<1>2. queue[Host] # <<>> /\ Head(queue[Host]).type = "data"
  BY DEF rejectHello, HelloFrom, First, Data
<1>3. /\ Orderly(Rest(Host), Host, joiner, era, sessions[Host])
      /\ \A e : InQueue(e, queue[Host]) <=> e = Head(queue[Host]) \/ InQueue(e, Rest(Host))
  BY <1>2, Constants, DropFacts
<1> DEFINE q == Rest(Host) \o words
<1>4. /\ Orderly(q, Host, joiner, era, sessions[Host])
      /\ \A e : InQueue(e, Rest(Host)) => InQueue(e, q)
      /\ \A e : InQueue(e, q) => InQueue(e, Rest(Host)) \/ (k # NoTransport /\ e = Eof(k))
  BY <1>3, Constants, LastWordsFacts
<1>5. q \in Seq(Events(Connections))
  BY <1>4 DEF Orderly
<1>6. wire' \in [Connections -> [Sides -> Seq(Messages)]]
  <2>1. sent \in [Connections -> [Sides -> Seq(Messages)]] /\ "host" \in Sides
    BY Constants, SentFacts DEF Messages
  <2> QED
    BY <1>1, <2>1, StoppedWires
<1>7. /\ end' \in [Connections -> [Sides -> EndStates]]
      /\ \A j \in Connections, s \in Sides :
           end'[j][s] = IF j = k /\ s = "host" THEN "closed" ELSE end[j][s]
  <2>1. "host" \in Sides
    BY Constants
  <2> QED
    BY <1>1, <2>1, StoppedEnds
<1> HIDE DEF k, sent, q
<1>8. /\ queue'[Host] = q /\ \A d \in Clients : d # Host => queue'[d] = queue[d]
      /\ queue' \in [Clients -> Seq(Events(Connections))]
      /\ transport'[Host] = NoTransport
      /\ \A d \in Clients : d # Host => transport'[d] = transport[d]
      /\ transport' \in [Clients -> Connections \cup {NoTransport}]
  BY <1>1, <1>5, Constants DEF q, SessionInv, TypeOK
<1>9. k # NoTransport => k \in Connections /\ end[k]["host"] \notin {"none", "open"}
  BY Constants DEF k, SessionInv, TypeOK, TransportsOK
<1>10. TypeOK'
  <2>1. lost' \subseteq Connections
    BY <1>1, <1>9 DEF SessionInv, TypeOK, Unnoticed
  <2> QED
    BY <1>1, <1>6, <1>7, <1>8, <2>1 DEF SessionInv, TypeOK, EndStates
<1>11. Numbered'
  BY <1>1 DEF SessionInv, Numbered, Made
<1>12. UnmadeOK'
  <2>1. \A j \in Connections : joiner[j] = Host => j # k
    BY Constants DEF k, SessionInv, TransportsOK
  <2>2. \A j \in Connections : joiner[j] = Host => \A s \in Sides : end'[j][s] = "none"
    BY <1>7, <2>1 DEF SessionInv, UnmadeOK
  <2> QED
    BY <1>1, <2>2 DEF UnmadeOK
<1>13. QueuesOK'
  BY <1>1, <1>4, <1>8 DEF SessionInv, QueuesOK
<1>14. TransportsOK'
  <2> SUFFICES ASSUME NEW c \in Clients, transport'[c] # NoTransport
               PROVE  /\ state[c] # "Idle"
                      /\ joiner[transport'[c]] # Host
                      /\ c = Host \/ joiner[transport'[c]] = c
                      /\ era[transport'[c]][Side(c)] = sessions[c]
                      /\ end'[transport'[c]][Side(c)] \notin {"none", "open"}
    BY <1>1 DEF TransportsOK
  <2>1. /\ transport'[c] = transport[c] /\ transport[c] \in Connections /\ Side(c) \in Sides
    BY <1>8, Constants DEF SessionInv, TypeOK
  <2> QED
    BY <1>7, <2>1 DEF SessionInv, TransportsOK
<1>15. WaitingOK'
  <2>1. ASSUME NEW j \in Connections, InQueue(j, backlog)
        PROVE  /\ joiner[j] # Host /\ end'[j]["host"] = "open"
               /\ \A e \in Events(Connections) : InQueue(e, queue'[Host]) => e.conn # j
    <3>1. /\ joiner[j] # Host /\ end[j]["host"] = "open"
          /\ \A e \in Events(Connections) : InQueue(e, queue[Host]) => e.conn # j
      BY <2>1 DEF SessionInv, WaitingOK
    <3>2. k # NoTransport => j # k
      BY <1>9, <3>1
    <3>3. end'[j]["host"] = "open"
      BY <1>7, <3>1, <3>2, Constants
    <3>4. ASSUME NEW e \in Events(Connections), InQueue(e, queue'[Host])
          PROVE  e.conn # j
      BY <1>3, <1>4, <1>8, <1>9, <3>1, <3>2, <3>4, EventFacts
    <3> QED
      BY <3>1, <3>3, <3>4
  <2>2. ASSUME NEW j \in Connections, InQueue(Adopt(j), queue'[Host])
        PROVE  end'[j]["host"] = "open"
    <3>1. InQueue(Adopt(j), Rest(Host))
      BY <1>4, <1>8, <2>2 DEF Adopt, Eof
    <3>2. end[j]["host"] = "open"
      BY <1>3, <3>1 DEF SessionInv, WaitingOK
    <3> QED
      BY <1>7, <1>9, <3>2, Constants
  <2> QED
    BY <1>1, <2>1, <2>2 DEF SessionInv, WaitingOK
<1>16. SocketsOK'
  <2> SUFFICES ASSUME NEW j \in Connections, joiner[j] # Host
               PROVE  /\ end'[j]["host"] # "closed" =>
                           \/ transport'[Host] = j \/ InQueue(j, backlog)
                           \/ InQueue(Adopt(j), queue'[Host])
                      /\ end'[j]["peer"] # "closed" => transport'[joiner[j]] = j
    BY <1>1 DEF SocketsOK
  <2>1. joiner[j] \in Clients
    BY DEF SessionInv, TypeOK
  <2>2. end'[j]["peer"] # "closed" => transport'[joiner[j]] = j
    BY <1>7, <1>8, <2>1, Constants DEF SessionInv, SocketsOK
  <2>3. CASE end'[j]["host"] # "closed"
    <3>1. j # k /\ end[j]["host"] # "closed"
      BY <1>7, <2>3, Constants
    <3>2. InQueue(j, backlog) \/ InQueue(Adopt(j), queue[Host])
      BY <3>1 DEF k, SessionInv, SocketsOK
    <3>3. Adopt(j) # Head(queue[Host])
      BY <1>2, EventFacts
    <3> QED
      BY <1>3, <1>4, <1>8, <2>2, <3>2, <3>3
  <2> QED
    BY <2>2, <2>3
<1> QED
  BY <1>10, <1>11, <1>12, <1>13, <1>14, <1>15, <1>16 DEF SessionInv

\* A program crashes.
LEMMA crashStep ==
  ASSUME SessionInv, NEW c \in Clients, crash(c)
  PROVE  SessionInv'
<1> DEFINE mine == {k \in Made : c \in {Host, joiner[k]}}
<1>1. /\ end' = Stopped(end, mine, Side(c), "closed")
      /\ wire' = Stopped(wire, mine, Side(c), <<>>)
      /\ lost' \subseteq lost \cup mine
      /\ faults < MaxFaults /\ faults' = faults + 1
      /\ state' = [state EXCEPT ![c] = "Idle"]
      /\ transport' = [transport EXCEPT ![c] = NoTransport]
      /\ queue' = [queue EXCEPT ![c] = <<>>]
      /\ acceptor' \in {acceptor, "closed"}
      /\ backlog' = IF c = Host THEN <<>> ELSE backlog
      /\ records' = IF c = Host THEN <<>> ELSE records
      /\ UNCHANGED <<joiner, key, reset, sessions, era>>
  BY DEF crash, Fault
<1>2. /\ mine \subseteq Connections
      /\ \A j \in Connections : j \in mine <=> joiner[j] # Host /\ (c = Host \/ joiner[j] = c)
  BY DEF Made
<1> HIDE DEF mine
<1>3. /\ end' \in [Connections -> [Sides -> EndStates]]
      /\ \A j \in Connections, s \in Sides :
           end'[j][s] = IF j \in mine /\ s = Side(c) THEN "closed" ELSE end[j][s]
  <2>1. Side(c) \in Sides
    BY Constants
  <2> QED
    BY <1>1, <2>1, StoppedEnds
<1>4. wire' \in [Connections -> [Sides -> Seq(Messages)]]
  <2>1. wire \in [Connections -> [Sides -> Seq(Messages)]] /\ Side(c) \in Sides
    BY Constants DEF SessionInv, TypeOK
  <2> QED
    BY <1>1, <2>1, StoppedWires
<1>5. /\ state'[c] = "Idle" /\ transport'[c] = NoTransport /\ queue'[c] = <<>>
      /\ \A d \in Clients : d # c => /\ state'[d] = state[d] /\ transport'[d] = transport[d]
                                     /\ queue'[d] = queue[d]
  BY <1>1 DEF SessionInv, TypeOK
<1>6. TypeOK'
  <2>1. lost' \subseteq Connections /\ faults' \in 0..MaxFaults
    BY <1>1, <1>2, LifecycleAssumption DEF SessionInv, TypeOK
  <2>2. backlog' \in Seq(Connections) /\ Len(backlog') <= Backlog
    BY <1>1, LifecycleAssumption DEF SessionInv, TypeOK
  <2>3. records' \in Seq(Peers) /\ acceptor' \in {"closed", "accepting", "failed"}
    BY <1>1 DEF SessionInv, TypeOK
  <2>4. queue' \in [Clients -> Seq(Events(Connections))]
    BY <1>1 DEF SessionInv, TypeOK
  <2>5. /\ state' \in [Clients -> {"Idle", "Hosting", "Joining", "Connected"}]
        /\ state'[Host] # "Joining" /\ \A p \in Peers : state'[p] # "Hosting"
        /\ transport' \in [Clients -> Connections \cup {NoTransport}]
    BY <1>1, Constants DEF SessionInv, TypeOK
  <2> QED
    BY <1>1, <1>3, <1>4, <2>1, <2>2, <2>3, <2>4, <2>5 DEF SessionInv, TypeOK, EndStates
<1>7. Numbered'
  BY <1>1 DEF SessionInv, Numbered, Made
<1>8. UnmadeOK'
  <2>1. \A j \in Connections : joiner[j] = Host => \A s \in Sides : end'[j][s] = "none"
    BY <1>2, <1>3 DEF SessionInv, UnmadeOK
  <2> QED
    BY <1>1, <2>1 DEF UnmadeOK
<1>9. QueuesOK'
  <2>1. ASSUME NEW n PROVE Orderly(<<>>, c, joiner, era, n)
    BY DEF Orderly
  <2> QED
    BY <1>1, <1>5, <2>1 DEF SessionInv, QueuesOK
<1>10. TransportsOK'
  <2> SUFFICES ASSUME NEW d \in Clients, transport'[d] # NoTransport
               PROVE  /\ state'[d] # "Idle"
                      /\ joiner[transport'[d]] # Host
                      /\ d = Host \/ joiner[transport'[d]] = d
                      /\ era[transport'[d]][Side(d)] = sessions[d]
                      /\ end'[transport'[d]][Side(d)] \notin {"none", "open"}
    BY <1>1 DEF TransportsOK
  <2>1. /\ transport'[d] = transport[d] /\ state'[d] = state[d]
        /\ transport[d] \in Connections /\ Side(d) \in Sides
    BY <1>5, Constants DEF SessionInv, TypeOK
  <2> QED
    BY <1>3, <2>1 DEF SessionInv, TransportsOK
<1>11. WaitingOK'
  <2>1. CASE c = Host
    BY <1>1, <1>5, <2>1 DEF WaitingOK, InQueue
  <2>2. CASE c # Host
    <3>1. backlog' = backlog /\ queue'[Host] = queue[Host]
      BY <1>1, <1>5, <2>2, Constants
    <3>2. \A j \in Connections : end'[j]["host"] = end[j]["host"]
      BY <1>3, <2>2, Constants
    <3> QED
      BY <1>1, <3>1, <3>2 DEF SessionInv, WaitingOK
  <2> QED
    BY <2>1, <2>2
<1>12. SocketsOK'
  <2> SUFFICES ASSUME NEW j \in Connections, joiner[j] # Host
               PROVE  /\ end'[j]["host"] # "closed" =>
                           \/ transport'[Host] = j \/ InQueue(j, backlog')
                           \/ InQueue(Adopt(j), queue'[Host])
                      /\ end'[j]["peer"] # "closed" => transport'[joiner[j]] = j
    BY <1>1 DEF SocketsOK
  <2>1. joiner[j] \in Clients /\ joiner[j] \in Peers
    BY Constants DEF SessionInv, TypeOK
  <2>2. CASE c = Host
    BY <1>2, <1>3, <1>5, <2>1, <2>2, Constants DEF SessionInv, SocketsOK
  <2>3. CASE c # Host
    BY <1>1, <1>2, <1>3, <1>5, <2>1, <2>3, Constants DEF SessionInv, SocketsOK
  <2> QED
    BY <2>2, <2>3
<1> QED
  BY <1>6, <1>7, <1>8, <1>9, <1>10, <1>11, <1>12 DEF SessionInv

\* A peer connects.
LEMMA joinAsPeerStep ==
  ASSUME SessionInv, NEW p \in Peers, joinAsPeer(p)
  PROVE  SessionInv'
<1> DEFINE k == Cardinality(Made) + 1
           ends == [host |-> "open", peer |-> "reading"]
<1>1. PICK typed \in {0, sessions[Host]} :
        /\ transport' = [transport EXCEPT ![p] = k]
        /\ end' = [end EXCEPT ![k] = ends]
        /\ wire' = [wire EXCEPT ![k]["host"] = <<Hello>>]
        /\ joiner' = [joiner EXCEPT ![k] = p]
        /\ key' = [key EXCEPT ![k] = typed]
        /\ backlog' = Append(backlog, k)
        /\ era' = [era EXCEPT ![k]["peer"] = sessions[p] + 1]
        /\ state' = [state EXCEPT ![p] = "Joining"]
        /\ sessions' = [sessions EXCEPT ![p] = @ + 1]
        /\ UNCHANGED <<queue, acceptor, reset, records, lost, faults>>
  BY DEF joinAsPeer
<1>2. /\ state[p] = "Idle" /\ sessions[p] < MaxSessions[p] /\ Len(backlog) < Backlog
      /\ Cardinality(Made) < MaxConnections
  BY DEF joinAsPeer
<1>3. k \in Connections /\ joiner[k] = Host /\ Cardinality(Made) \in Nat
  BY <1>2, NextConnection
<1>4. Made = 1..(k - 1) /\ k - 1 = Cardinality(Made)
  BY <1>3 DEF SessionInv, Numbered
<1>6. ends \in [Sides -> EndStates] /\ ends["host"] = "open" /\ ends["peer"] = "reading"
  BY DEF Sides, EndStates
<1> HIDE DEF k, ends
<1>7. /\ end' \in [Connections -> [Sides -> EndStates]] /\ end'[k] = ends
      /\ \A j \in Connections : j # k => end'[j] = end[j]
  BY <1>1, <1>3, <1>6 DEF SessionInv, TypeOK, EndStates
<1>8. /\ joiner' \in [Connections -> Clients] /\ joiner'[k] = p
      /\ \A j \in Connections : j # k => joiner'[j] = joiner[j]
      /\ era' \in [Connections -> [Sides -> Nat]] /\ era'[k]["peer"] = sessions[p] + 1
      /\ \A j \in Connections, s \in Sides : j # k => era'[j][s] = era[j][s]
      /\ sessions' \in [Clients -> Nat] /\ sessions'[p] = sessions[p] + 1
      /\ \A c \in Clients : c # p => sessions'[c] = sessions[c]
      /\ transport'[p] = k /\ \A c \in Clients : c # p => transport'[c] = transport[c]
      /\ state'[p] = "Joining" /\ \A c \in Clients : c # p => state'[c] = state[c]
  <2>1. p \in Clients /\ "peer" \in Sides
    BY Constants
  <2>2. joiner \in [Connections -> Clients] /\ era \in [Connections -> [Sides -> Nat]]
    BY DEF SessionInv, TypeOK
  <2>3. /\ sessions \in [Clients -> Nat] /\ transport \in [Clients -> Connections \cup {NoTransport}]
        /\ state \in [Clients -> {"Idle", "Hosting", "Joining", "Connected"}]
    BY DEF SessionInv, TypeOK
  <2>4. /\ joiner' \in [Connections -> Clients] /\ joiner'[k] = p
        /\ \A j \in Connections : j # k => joiner'[j] = joiner[j]
    BY <1>1, <1>3, <2>1, <2>2
  <2>5. sessions[p] + 1 \in Nat
    BY <2>1, <2>3
  <2>6. /\ era' \in [Connections -> [Sides -> Nat]] /\ era'[k]["peer"] = sessions[p] + 1
        /\ \A j \in Connections, s \in Sides : j # k => era'[j][s] = era[j][s]
    BY <1>1, <1>3, <2>1, <2>2, <2>5
  <2>7. /\ sessions' \in [Clients -> Nat] /\ sessions'[p] = sessions[p] + 1
        /\ \A c \in Clients : c # p => sessions'[c] = sessions[c]
    BY <1>1, <2>1, <2>3, <2>5
  <2>8. /\ transport'[p] = k /\ \A c \in Clients : c # p => transport'[c] = transport[c]
        /\ state'[p] = "Joining" /\ \A c \in Clients : c # p => state'[c] = state[c]
    BY <1>1, <2>1, <2>3
  <2> QED
    BY <2>4, <2>6, <2>7, <2>8
<1>9. /\ backlog' \in Seq(Connections) /\ Len(backlog') = Len(backlog) + 1
      /\ backlog \in Seq(Connections) /\ Len(backlog) \in Nat
      /\ \A i \in 1..Len(backlog) : backlog'[i] = backlog[i]
      /\ backlog'[Len(backlog) + 1] = k
  BY <1>1, <1>3, AppendFacts DEF SessionInv, TypeOK
<1>10. \A j : InQueue(j, backlog') <=> j = k \/ InQueue(j, backlog)
  BY <1>9 DEF InQueue
<1>11. \A c \in Clients : \A i \in 1..Len(queue[c]) :
         queue[c][i].conn \in Connections /\ queue[c][i].conn # k
  BY <1>3, EventFacts DEF SessionInv, QueuesOK, Orderly
<1>12. TypeOK'
  <2>1. wire' \in [Connections -> [Sides -> Seq(Messages)]]
    <3>1. <<Hello>> \in Seq(Messages)
      BY DEF Messages
    <3>2. wire \in [Connections -> [Sides -> Seq(Messages)]]
      BY DEF SessionInv, TypeOK
    <3> QED
      BY <1>1, <3>1, <3>2
  <2>2. key' \in [Connections -> 0..MaxSessions[Host]]
    <3>1. typed \in 0..MaxSessions[Host]
      BY Constants DEF SessionInv, TypeOK
    <3>2. key \in [Connections -> 0..MaxSessions[Host]]
      BY DEF SessionInv, TypeOK
    <3> QED
      BY <1>1, <1>3, <3>1, <3>2
  <2>3. transport' \in [Clients -> Connections \cup {NoTransport}]
    BY <1>1, <1>3 DEF SessionInv, TypeOK
  <2>4. /\ state' \in [Clients -> {"Idle", "Hosting", "Joining", "Connected"}]
        /\ state'[Host] # "Joining" /\ \A q \in Peers : state'[q] # "Hosting"
    BY <1>1, Constants DEF SessionInv, TypeOK
  <2>5. Len(backlog') <= Backlog
    BY <1>2, <1>9, LifecycleAssumption
  <2>6. \A c \in Clients : sessions'[c] <= MaxSessions[c]
    <3>1. \A c \in Clients : sessions[c] \in Nat /\ sessions[c] <= MaxSessions[c]
      BY DEF SessionInv, TypeOK
    <3>2. p \in Clients /\ MaxSessions[p] \in Nat /\ sessions[p] + 1 <= MaxSessions[p]
      BY <1>2, <3>1, Constants
    <3> QED
      BY <1>8, <3>1, <3>2
  <2> QED
    BY <1>1, <1>7, <1>8, <1>9, <2>1, <2>2, <2>3, <2>4, <2>5, <2>6
       DEF SessionInv, TypeOK, EndStates
<1>13. UnmadeOK'
  BY <1>7, <1>8, Constants DEF SessionInv, UnmadeOK
<1>14. QueuesOK'
  <2> SUFFICES ASSUME NEW c \in Clients
               PROVE  Orderly(queue[c], c, joiner', era', sessions'[c])
    BY <1>1 DEF QueuesOK
  <2>1. Orderly(queue[c], c, joiner, era, sessions[c]) /\ Side(c) \in Sides
    BY Constants DEF SessionInv, QueuesOK
  <2>2. \A i \in 1..Len(queue[c]) :
          /\ joiner'[queue[c][i].conn] = joiner[queue[c][i].conn]
          /\ era'[queue[c][i].conn][Side(c)] = era[queue[c][i].conn][Side(c)]
    BY <1>8, <1>11, <2>1
  <2>3. Orderly(queue[c], c, joiner', era', sessions[c])
    BY <2>1, <2>2 DEF Orderly
  <2>4. sessions[c] \in Nat /\ sessions'[c] \in Nat /\ sessions[c] <= sessions'[c]
    <3>1. sessions[c] \in Nat /\ sessions'[c] \in Nat
      BY <1>8 DEF SessionInv, TypeOK
    <3>2. sessions'[c] = sessions[c] \/ sessions'[c] = sessions[c] + 1
      BY <1>8
    <3> QED
      BY <3>1, <3>2
  <2> QED
    BY <1>8, <2>3, <2>4, FrameOrderly
<1>15. \A c \in Clients : c # p /\ transport[c] # NoTransport =>
         transport[c] \in Connections /\ transport[c] # k
  BY <1>3 DEF SessionInv, TypeOK, TransportsOK
<1>16. TransportsOK'
  <2> SUFFICES ASSUME NEW c \in Clients, transport'[c] # NoTransport
               PROVE  /\ state'[c] # "Idle"
                      /\ joiner'[transport'[c]] # Host
                      /\ c = Host \/ joiner'[transport'[c]] = c
                      /\ era'[transport'[c]][Side(c)] = sessions'[c]
                      /\ end'[transport'[c]][Side(c)] \notin {"none", "open"}
    BY DEF TransportsOK
  <2>1. CASE c = p
    BY <1>6, <1>7, <1>8, <2>1, Constants
  <2>2. CASE c # p
    <3>1. /\ transport'[c] = transport[c] /\ transport[c] \in Connections /\ transport[c] # k
          /\ Side(c) \in Sides
      BY <1>8, <1>15, <2>2, Constants
    <3> QED
      BY <1>7, <1>8, <2>2, <3>1 DEF SessionInv, TransportsOK
  <2> QED
    BY <2>1, <2>2
<1>17. \A e \in Events(Connections) : InQueue(e, queue[Host]) => e.conn # k
  BY <1>11, Constants DEF InQueue
<1>18. WaitingOK'
  <2>1. ASSUME NEW j \in Connections, InQueue(j, backlog')
        PROVE  /\ joiner'[j] # Host /\ end'[j]["host"] = "open"
               /\ \A e \in Events(Connections) : InQueue(e, queue[Host]) => e.conn # j
    <3>1. CASE j = k
      BY <1>6, <1>7, <1>8, <1>17, <3>1, Constants
    <3>2. CASE j # k
      <4>1. /\ joiner[j] # Host /\ end[j]["host"] = "open"
            /\ \A e \in Events(Connections) : InQueue(e, queue[Host]) => e.conn # j
        BY <1>10, <2>1, <3>2 DEF SessionInv, WaitingOK
      <4>2. joiner'[j] = joiner[j] /\ end'[j] = end[j]
        BY <1>7, <1>8, <3>2
      <4> QED
        BY <4>1, <4>2
    <3> QED
      BY <3>1, <3>2
  <2>2. ~InQueue(k, backlog)
    BY <1>3 DEF SessionInv, WaitingOK
  <2>3. ASSUME NEW i \in 1..Len(backlog'), NEW j \in 1..Len(backlog'), backlog'[i] = backlog'[j]
        PROVE  i = j
    <3>1. CASE i \in 1..Len(backlog) /\ j \in 1..Len(backlog)
      BY <1>9, <2>3, <3>1 DEF SessionInv, WaitingOK
    <3>2. CASE ~(i \in 1..Len(backlog) /\ j \in 1..Len(backlog))
      BY <1>9, <2>2, <2>3, <3>2 DEF InQueue
    <3> QED
      BY <3>1, <3>2
  <2>4. ASSUME NEW j \in Connections, InQueue(Adopt(j), queue[Host])
        PROVE  end'[j]["host"] = "open"
    <3>1. j # k
      BY <1>17, <2>4, EventFacts
    <3> QED
      BY <1>7, <2>4, <3>1 DEF SessionInv, WaitingOK
  <2> QED
    BY <1>1, <2>1, <2>3, <2>4 DEF WaitingOK
<1>19. SocketsOK'
  <2> SUFFICES ASSUME NEW j \in Connections, joiner'[j] # Host
               PROVE  /\ end'[j]["host"] # "closed" =>
                           \/ transport'[Host] = j \/ InQueue(j, backlog')
                           \/ InQueue(Adopt(j), queue[Host])
                      /\ end'[j]["peer"] # "closed" => transport'[joiner'[j]] = j
    BY <1>1 DEF SocketsOK
  <2>1. CASE j = k
    BY <1>8, <1>10, <2>1
  <2>2. CASE j # k
    <3>1. joiner'[j] = joiner[j] /\ joiner[j] \in Clients /\ end'[j] = end[j]
      BY <1>7, <1>8, <2>2 DEF SessionInv, TypeOK
    <3>2. joiner[j] = p => transport[p] # j
      BY <1>2, Constants DEF SessionInv, TransportsOK, NoTransport
    <3>3. end[j]["peer"] # "closed" => transport[joiner[j]] = j
      BY <3>1 DEF SessionInv, SocketsOK
    <3>4. end[j]["host"] # "closed" =>
            transport[Host] = j \/ InQueue(j, backlog) \/ InQueue(Adopt(j), queue[Host])
      BY <3>1 DEF SessionInv, SocketsOK
    <3> QED
      BY <1>8, <1>10, <3>1, <3>2, <3>3, <3>4, Constants
  <2> QED
    BY <2>1, <2>2
<1>20. Numbered'
  <2>1. \A j \in Connections : joiner'[j] # Host <=> j = k \/ joiner[j] # Host
    BY <1>3, <1>8, Constants
  <2>2. \A j : j \in Made' <=> j \in Made \cup {k}
    BY <1>3, <2>1 DEF Made
  <2>3. \A j : j \in Made \cup {k} <=> j \in 1..k
    BY <1>3, <1>4, Constants
  <2>4. Made' = 1..k /\ k \in Nat
    BY <1>3, <2>2, <2>3, Constants
  <2>5. Cardinality(1..k) = k
    BY <1>3, <2>4, FS_Interval, Constants DEF Connections
  <2> QED
    BY <2>4, <2>5 DEF Numbered
<1> QED
  BY <1>12, <1>13, <1>14, <1>16, <1>18, <1>19, <1>20 DEF SessionInv

\* The accept thread posts a socket.
LEMMA acceptLoopStep ==
  ASSUME SessionInv, acceptLoop
  PROVE  SessionInv'
<1> DEFINE k == Head(backlog)
           e == Adopt(k)
<1>1. /\ backlog # <<>>
      /\ queue' = [queue EXCEPT ![Host] = Append(@, e)]
      /\ backlog' = Tail(backlog)
      /\ era' = [era EXCEPT ![k]["host"] = sessions[Host]]
      /\ UNCHANGED <<state, transport, acceptor, end, wire, joiner, key, reset, records,
                     sessions, lost, faults>>
  BY DEF acceptLoop
<1>2. backlog \in Seq(Connections)
  BY DEF SessionInv, TypeOK
<1>3. /\ k \in Connections /\ k = backlog[1] /\ 1 \in 1..Len(backlog)
      /\ backlog' \in Seq(Connections) /\ Len(backlog') = Len(backlog) - 1
      /\ Len(backlog) \in Nat
      /\ \A i \in 1..Len(backlog') :
           i + 1 \in 1..Len(backlog) /\ backlog'[i] = backlog[i + 1] /\ i + 1 # 1
      /\ \A i \in 1..Len(backlog) :
           i = 1 \/ (i - 1 \in 1..Len(backlog') /\ backlog[i] = backlog'[i - 1])
  BY <1>1, <1>2, TailFacts
<1>4. InQueue(k, backlog) /\ \A j : InQueue(j, backlog) => j = k \/ InQueue(j, backlog')
  BY <1>3 DEF InQueue
<1>5. \A j : InQueue(j, backlog') => InQueue(j, backlog) /\ j # k
  BY <1>3 DEF InQueue, SessionInv, WaitingOK
<1>6. /\ joiner[k] # Host /\ end[k]["host"] = "open"
      /\ \A f \in Events(Connections) : InQueue(f, queue[Host]) => f.conn # k
  BY <1>3, <1>4 DEF SessionInv, WaitingOK
<1>7. e \in Events(Connections) /\ e.conn = k /\ e.type = "adopt" /\ e = Adopt(k)
  BY <1>3, EventFacts
<1> HIDE DEF k, e
<1>8. /\ era' \in [Connections -> [Sides -> Nat]] /\ era'[k]["host"] = sessions[Host]
      /\ \A j \in Connections : j # k => era'[j] = era[j]
      /\ \A j \in Connections : era'[j]["peer"] = era[j]["peer"]
  <2>1. /\ era \in [Connections -> [Sides -> Nat]] /\ sessions[Host] \in Nat
        /\ "host" \in Sides /\ "peer" \in Sides
    BY Constants DEF SessionInv, TypeOK
  <2> QED
    BY <1>1, <1>3, <2>1
<1>9. Orderly(queue[Host], Host, joiner, era', sessions[Host])
  <2>1. Orderly(queue[Host], Host, joiner, era, sessions[Host])
    BY Constants DEF SessionInv, QueuesOK
  <2>2. \A i \in 1..Len(queue[Host]) : queue[Host][i].conn \in Connections /\ queue[Host][i].conn # k
    BY <1>6, <2>1, EventFacts DEF InQueue, Orderly
  <2> QED
    BY <1>8, <2>1, <2>2 DEF Orderly
<1>10. /\ Orderly(Append(queue[Host], e), Host, joiner, era', sessions[Host])
       /\ \A f : InQueue(f, Append(queue[Host], e)) <=> f = e \/ InQueue(f, queue[Host])
  <2> DEFINE er == era'
  <2>1. queue[Host] \in Seq(Events(Connections))
    BY <1>9 DEF Orderly
  <2>2. \A i \in 1..Len(queue[Host]) : queue[Host][i].conn # e.conn
    BY <1>6, <1>7, <2>1 DEF InQueue
  <2>3. /\ er \in [Connections -> [Sides -> Nat]] /\ sessions[Host] \in Nat
        /\ Orderly(queue[Host], Host, joiner, er, sessions[Host])
        /\ joiner[e.conn] # Host /\ Host \in Clients
        /\ er[e.conn][Side(Host)] = sessions[Host]
    BY <1>6, <1>7, <1>8, <1>9, Constants DEF SessionInv, TypeOK
  <2> HIDE DEF er
  <2>4. /\ Orderly(Append(queue[Host], e), Host, joiner, er, sessions[Host])
        /\ \A f : InQueue(f, Append(queue[Host], e)) <=> f = e \/ InQueue(f, queue[Host])
    BY <1>7, <2>2, <2>3, AppendOrderly
  <2> QED
    BY <2>4 DEF er
<1>11. /\ queue'[Host] = Append(queue[Host], e)
       /\ \A c \in Clients : c # Host => queue'[c] = queue[c]
       /\ queue' \in [Clients -> Seq(Events(Connections))]
  <2>1. Append(queue[Host], e) \in Seq(Events(Connections))
    BY <1>10 DEF Orderly
  <2> QED
    BY <1>1, <2>1, Constants DEF SessionInv, TypeOK
<1>12. TypeOK'
  <2>1. Len(backlog') <= Backlog
    BY <1>3, LifecycleAssumption DEF SessionInv, TypeOK
  <2> QED
    BY <1>1, <1>3, <1>8, <1>11, <2>1 DEF SessionInv, TypeOK
<1>13. Numbered' /\ UnmadeOK'
  BY <1>1 DEF SessionInv, Numbered, Made, UnmadeOK
<1>14. QueuesOK'
  <2> SUFFICES ASSUME NEW c \in Clients
               PROVE  Orderly(queue'[c], c, joiner, era', sessions[c])
    BY <1>1 DEF QueuesOK
  <2>1. CASE c = Host
    BY <1>10, <1>11, <2>1
  <2>2. CASE c # Host
    <3>1. Orderly(queue[c], c, joiner, era, sessions[c])
      BY DEF SessionInv, QueuesOK
    <3>2. \A i \in 1..Len(queue[c]) : queue[c][i].conn \in Connections
      BY <3>1, EventFacts DEF Orderly
    <3>3. Orderly(queue[c], c, joiner, era', sessions[c])
      BY <1>8, <2>2, <3>1, <3>2, Constants DEF Orderly
    <3> QED
      BY <1>11, <2>2, <3>3
  <2> QED
    BY <2>1, <2>2
<1>15. TransportsOK'
  <2> SUFFICES ASSUME NEW c \in Clients, transport[c] # NoTransport
               PROVE  era'[transport[c]][Side(c)] = sessions[c]
    BY <1>1 DEF SessionInv, TransportsOK
  <2>1. /\ transport[c] \in Connections /\ era[transport[c]][Side(c)] = sessions[c]
        /\ end[transport[c]][Side(c)] # "open"
    BY DEF SessionInv, TypeOK, TransportsOK
  <2>2. c = Host => transport[c] # k
    BY <1>6, <2>1, Constants
  <2> QED
    BY <1>8, <2>1, <2>2, Constants
<1>16. WaitingOK'
  <2>1. ASSUME NEW j \in Connections, InQueue(j, backlog')
        PROVE  /\ joiner[j] # Host /\ end[j]["host"] = "open"
               /\ \A f \in Events(Connections) : InQueue(f, queue'[Host]) => f.conn # j
    BY <1>5, <1>7, <1>10, <1>11, <2>1 DEF SessionInv, WaitingOK
  <2>2. \A i, j \in 1..Len(backlog') : backlog'[i] = backlog'[j] => i = j
    BY <1>3 DEF SessionInv, WaitingOK
  <2>3. ASSUME NEW j \in Connections, InQueue(Adopt(j), queue'[Host])
        PROVE  end[j]["host"] = "open"
    <3>1. CASE InQueue(Adopt(j), queue[Host])
      BY <3>1 DEF SessionInv, WaitingOK
    <3>2. CASE Adopt(j) = e
      BY <1>6, <1>7, <3>2, EventFacts
    <3> QED
      BY <1>10, <1>11, <2>3, <3>1, <3>2
  <2> QED
    BY <1>1, <2>1, <2>2, <2>3 DEF WaitingOK
<1>17. SocketsOK'
  <2> SUFFICES ASSUME NEW j \in Connections, joiner[j] # Host
               PROVE  end[j]["host"] # "closed" =>
                        \/ transport[Host] = j \/ InQueue(j, backlog')
                        \/ InQueue(Adopt(j), queue'[Host])
    BY <1>1 DEF SessionInv, SocketsOK
  <2> QED
    BY <1>4, <1>7, <1>10, <1>11 DEF SessionInv, SocketsOK
<1> QED
  BY <1>12, <1>13, <1>14, <1>15, <1>16, <1>17 DEF SessionInv

-----------------------------------------------------------------------------
(* The theorems.                                                           *)

\* The invariant holds at the start ...
LEMMA InitSessionInv == Init => SessionInv
<1> SUFFICES ASSUME Init PROVE SessionInv
  OBVIOUS
<1>1. TypeOK
  BY Constants, LifecycleAssumption DEF Init, TypeOK, Clients
<1>2. Numbered
  <2>1. Made = {}
    BY DEF Init, Made
  <2> QED
    BY <2>1, FS_EmptySet DEF Numbered
<1>3. UnmadeOK /\ TransportsOK
  BY DEF Init, UnmadeOK, TransportsOK
<1>4. QueuesOK
  BY DEF Init, QueuesOK, Orderly
<1>5. WaitingOK
  BY Constants DEF Init, WaitingOK, InQueue
<1>6. SocketsOK
  BY DEF Init, SocketsOK
<1> QED
  BY <1>1, <1>2, <1>3, <1>4, <1>5, <1>6 DEF SessionInv

\* ... every step preserves it ...
LEMMA NextSessionInv == SessionInv /\ [Next]_vars => SessionInv'
<1> SUFFICES ASSUME SessionInv, [Next]_vars PROVE SessionInv'
  OBVIOUS
<1>1. ASSUME NEW c \in Clients, User(c)
      PROVE  SessionInv'
  BY <1>1, disconnectStep, startHostStep, joinAsPeerStep DEF User
<1>2. ASSUME NEW c \in Clients, Drain(c)
      PROVE  SessionInv'
  BY <1>2, joinedStep, handleEndStep, refuseSocketStep, adoptAcceptedSocketStep,
     handleHostHelloStep, rejectHelloStep DEF Drain
<1>3. ASSUME NEW c \in Clients, heartbeatTimeout(c) \/ sendFails(c) \/ crash(c)
      PROVE  SessionInv'
  BY <1>3, disconnectStep, sendFailsStep, crashStep
<1>4. ASSUME NEW k \in Connections, NEW s \in Sides, Receive(k, s)
      PROVE  SessionInv'
  BY <1>4, recvFrameStep, recvFailsStep, postDisconnectedStep DEF Receive
<1>5. ASSUME NEW k \in Connections, connectionReset(k)
      PROVE  SessionInv'
  BY <1>5, faultsStep
<1>6. CASE acceptLoop \/ acceptFails
  BY <1>6, acceptLoopStep, faultsStep
<1>7. CASE UNCHANGED vars
  BY <1>7 DEF vars, SessionInv, TypeOK, Numbered, Made, UnmadeOK, QueuesOK, TransportsOK,
              WaitingOK, SocketsOK
<1> QED
  BY <1>1, <1>2, <1>3, <1>4, <1>5, <1>6, <1>7 DEF Next

\* ... and so it always holds.
LEMMA SessionInvariant == Spec => []SessionInv
BY InitSessionInv, NextSessionInv, PTL DEF Spec

\* Every variable keeps its type: a program's state is one its role has, no
\* queue holds anything but events of made connections' numbers, m_peers holds
\* peers, and no bound of the model is passed.
THEOREM LifecycleTypes == Spec => []TypeOK
<1>1. SessionInv => TypeOK
  BY DEF SessionInv
<1> QED
  BY <1>1, SessionInvariant, PTL

\* However many peers come and go, an event of an earlier session is never
\* behind one of a later session in a program's queue: disconnect() joins the
\* threads before it returns.
THEOREM LifecycleOrder == Spec => []EventsInSessionOrder
<1>1. SessionInv => EventsInSessionOrder
  BY DEF SessionInv, QueuesOK, Orderly, EventsInSessionOrder
<1> QED
  BY <1>1, SessionInvariant, PTL

\* Every socket has an owner that will close it, with any number of
\* connections, sessions, crashes and failures of accept().
THEOREM LifecycleSockets == Spec => []NoForgottenSocket
<1>1. SessionInv => NoForgottenSocket
  <2> SUFFICES ASSUME SessionInv, NEW k \in Connections, joiner[k] # Host
               PROVE  /\ end[k]["host"] # "closed" =>
                           \/ transport[Host] = k
                           \/ \E i \in DOMAIN backlog : backlog[i] = k
                           \/ \E i \in DOMAIN queue[Host] : queue[Host][i] = Adopt(k)
                      /\ end[k]["peer"] # "closed" => transport[joiner[k]] = k
    BY DEF NoForgottenSocket, Made
  <2>1. backlog \in Seq(Connections) /\ queue[Host] \in Seq(Events(Connections))
    BY Constants DEF SessionInv, TypeOK
  <2>2. DOMAIN backlog = 1..Len(backlog) /\ DOMAIN queue[Host] = 1..Len(queue[Host])
    BY <2>1
  <2> QED
    BY <2>2 DEF SessionInv, SocketsOK, InQueue
<1> QED
  BY <1>1, SessionInvariant, PTL

-----------------------------------------------------------------------------
(* Where the answer to a hello goes: what the host's queue says of the     *)
(* ends of its connections.                                                *)

\* Nothing follows the end of a connection.
QuietAfterEnd(q) ==
  \A i, j \in 1..Len(q) : i < j /\ q[i].type = "eof" => q[j].conn # q[i].conn

\* A frame that is still queued is of the transport tr, or the end of its
\* connection is queued too, or was lost (is in ls).
FramesTold(q, tr, ls) ==
  \A k \in Connections, m \in Messages :
    InQueue(Data(k, m), q) => tr = k \/ k \in ls \/ InQueue(Eof(k), q)
\* What the ends of the host's connections have to do with its queue.
EndsOK ==
  /\ \A k \in Connections : /\ end[k]["host"] = "posted" => InQueue(Eof(k), queue[Host])
                            /\ InQueue(Eof(k), queue[Host]) => end[k]["host"] \in {"posted", "closed"}
  /\ QuietAfterEnd(queue[Host])
  /\ FramesTold(queue[Host], transport[Host], lost)
  /\ transport[Host] # NoTransport => end[transport[Host]]["host"] \in Running

\* Running the first event of the host's queue.
LEMMA TailTold ==
  ASSUME NEW q \in Seq(Events(Connections)), q # <<>>, NEW tr, NEW ls,
         QuietAfterEnd(q), FramesTold(q, tr, ls)
  PROVE  /\ QuietAfterEnd(Tail(q)) /\ FramesTold(Tail(q), tr, ls)
         /\ \A e : InQueue(e, q) <=> e = Head(q) \/ InQueue(e, Tail(q))
         /\ Head(q).type = "eof" => \A e : InQueue(e, Tail(q)) => e.conn # Head(q).conn
<1>1. /\ Head(q) = q[1] /\ 1 \in 1..Len(q) /\ Head(q) \in Events(Connections)
      /\ \A i \in 1..Len(Tail(q)) : i + 1 \in 1..Len(q) /\ Tail(q)[i] = q[i + 1] /\ 1 < i + 1
      /\ \A i \in 1..Len(q) : i = 1 \/ (i - 1 \in 1..Len(Tail(q)) /\ q[i] = Tail(q)[i - 1])
  BY TailFacts
<1>2. QuietAfterEnd(Tail(q))
  BY <1>1 DEF QuietAfterEnd
<1>3. \A e : InQueue(e, q) <=> e = Head(q) \/ InQueue(e, Tail(q))
  BY <1>1 DEF InQueue
<1>4. Head(q).type = "eof" => \A e : InQueue(e, Tail(q)) => e.conn # Head(q).conn
  BY <1>1 DEF QuietAfterEnd, InQueue
<1>5. FramesTold(Tail(q), tr, ls)
  <2> SUFFICES ASSUME NEW k \in Connections, NEW m \in Messages, InQueue(Data(k, m), Tail(q))
               PROVE  tr = k \/ k \in ls \/ InQueue(Eof(k), Tail(q))
    BY DEF FramesTold
  <2>1. tr = k \/ k \in ls \/ InQueue(Eof(k), q)
    BY <1>3 DEF FramesTold
  <2>2. Head(q) # Eof(k)
    BY <1>4, EventFacts
  <2> QED
    BY <1>3, <2>1, <2>2
<1> QED
  BY <1>2, <1>3, <1>4, <1>5

\* Posting an event of a connection whose end is not queued.
LEMMA AppendTold ==
  ASSUME NEW q \in Seq(Events(Connections)), NEW e \in Events(Connections),
         QuietAfterEnd(q), ~InQueue(Eof(e.conn), q)
  PROVE  /\ QuietAfterEnd(Append(q, e))
         /\ \A f : InQueue(f, Append(q, e)) <=> f = e \/ InQueue(f, q)
<1> DEFINE r == Append(q, e)
<1>1. /\ Len(r) = Len(q) + 1 /\ Len(q) \in Nat
      /\ \A i \in 1..Len(q) : r[i] = q[i]
      /\ r[Len(q) + 1] = e
  BY AppendFacts
<1> HIDE DEF r
<1>2. \A i \in 1..Len(r) : (i \in 1..Len(q) /\ r[i] = q[i]) \/ (i = Len(q) + 1 /\ r[i] = e)
  BY <1>1
<1>3. \A f : InQueue(f, r) <=> f = e \/ InQueue(f, q)
  BY <1>1, <1>2 DEF InQueue
<1>4. \A i \in 1..Len(q) : q[i].type = "eof" => q[i].conn # e.conn
  <2> SUFFICES ASSUME NEW i \in 1..Len(q), q[i].type = "eof", q[i].conn = e.conn
               PROVE  FALSE
    OBVIOUS
  <2>1. q[i] = Eof(e.conn)
    <3>1. q[i] \in Events(Connections)
      OBVIOUS
    <3> QED
      BY <3>1 DEF Events, Eof
  <2> QED
    BY <2>1 DEF InQueue
<1>5. QuietAfterEnd(r)
  <2> SUFFICES ASSUME NEW i \in 1..Len(r), NEW j \in 1..Len(r), i < j, r[i].type = "eof"
               PROVE  r[j].conn # r[i].conn
    BY DEF QuietAfterEnd
  <2>1. i \in 1..Len(q) /\ r[i] = q[i]
    BY <1>1, <1>2
  <2>2. CASE j \in 1..Len(q) /\ r[j] = q[j]
    BY <2>1, <2>2 DEF QuietAfterEnd
  <2>3. CASE r[j] = e
    BY <1>4, <2>1, <2>3
  <2> QED
    BY <1>2, <2>2, <2>3
<1> QED
  BY <1>3, <1>5 DEF r

\* Steps that leave the host's queue and transport alone.
LEMMA EndsFrame ==
  ASSUME EndsOK, queue'[Host] = queue[Host], transport'[Host] = transport[Host], lost' = lost,
         \A k \in Connections :
           \/ end'[k]["host"] = end[k]["host"]
           \/ /\ {end[k]["host"], end'[k]["host"]} \cap {"posted", "closed"} = {}
              /\ transport[Host] = k => end'[k]["host"] \in Running,
         transport[Host] \in Connections \cup {NoTransport}
  PROVE  EndsOK'
<1>1. \A k \in Connections :
        /\ end'[k]["host"] = "posted" => InQueue(Eof(k), queue'[Host])
        /\ InQueue(Eof(k), queue'[Host]) => end'[k]["host"] \in {"posted", "closed"}
  BY DEF EndsOK
<1>2. QuietAfterEnd(queue'[Host]) /\ FramesTold(queue'[Host], transport'[Host], lost')
  BY DEF EndsOK
<1>3. transport'[Host] # NoTransport => end'[transport'[Host]]["host"] \in Running
  BY DEF EndsOK
<1> QED
  BY <1>1, <1>2, <1>3 DEF EndsOK

\* The host runs an event and stops no transport.
LEMMA EndsDrop ==
  ASSUME SessionInv, EndsOK, queue[Host] # <<>>, Dropped(Host), UNCHANGED <<transport, lost>>,
         Head(queue[Host]).type # "eof" \/ state[Host] = "Idle",
         \A k \in Connections : \/ end'[k]["host"] = end[k]["host"]
                                \/ end[k]["host"] = "open" /\ end'[k]["host"] = "closed"
  PROVE  EndsOK'
<1> DEFINE q == queue[Host]
<1>1. q \in Seq(Events(Connections)) /\ queue'[Host] = Tail(q)
  BY Constants DEF SessionInv, TypeOK, Dropped, Rest
<1>2. q # <<>> /\ QuietAfterEnd(q) /\ FramesTold(q, transport[Host], lost)
  BY DEF EndsOK
<1> HIDE DEF q
<1>3. /\ QuietAfterEnd(Tail(q)) /\ FramesTold(Tail(q), transport[Host], lost)
      /\ \A e : InQueue(e, q) <=> e = Head(q) \/ InQueue(e, Tail(q))
  BY <1>1, <1>2, TailTold
<1>4. ASSUME NEW k \in Connections, end'[k]["host"] = "posted"
      PROVE  InQueue(Eof(k), Tail(q))
  <2>1. end[k]["host"] = "posted"
    BY <1>4
  <2>2. InQueue(Eof(k), q)
    BY <2>1 DEF EndsOK, q
  <2>3. transport[Host] = k
    BY <2>1, Constants, ActiveIsCurrent
  <2>4. state[Host] # "Idle"
    BY <2>3, Constants DEF SessionInv, TransportsOK
  <2>5. Head(q) # Eof(k)
    BY <2>4, EventFacts DEF q
  <2> QED
    BY <1>3, <2>2, <2>5
<1>5. ASSUME NEW k \in Connections, InQueue(Eof(k), Tail(q))
      PROVE  end'[k]["host"] \in {"posted", "closed"}
  BY <1>3, <1>5 DEF EndsOK, q
<1>6. transport[Host] # NoTransport =>
        transport[Host] \in Connections /\ end[transport[Host]]["host"] \in Running
  BY Constants DEF SessionInv, TypeOK, EndsOK
<1>7. transport'[Host] # NoTransport => end'[transport'[Host]]["host"] \in Running
  BY <1>6 DEF Running
<1> QED
  BY <1>1, <1>3, <1>4, <1>5, <1>7 DEF EndsOK

\* The host stops its transport: what its receive thread had not told is
\* told by its last words or lost.
LEMMA EndsStop ==
  ASSUME SessionInv, EndsOK,
         NEW rest \in Seq(Events(Connections)), NEW words \in LastWords(transport[Host], "host"),
         QuietAfterEnd(rest), FramesTold(rest, transport[Host], lost),
         \A k \in Connections : InQueue(Eof(k), rest) => InQueue(Eof(k), queue[Host]),
         InQueue(Eof(transport[Host]), queue[Host]) =>
           \/ InQueue(Eof(transport[Host]), rest)
           \/ \A m \in Messages : ~InQueue(Data(transport[Host], m), rest),
         queue'[Host] = rest \o words,
         lost' = lost \cup Unnoticed(transport[Host], words),
         \A k \in Connections :
           IF k = transport[Host] THEN end'[k]["host"] = "closed"
           ELSE \/ end'[k]["host"] = end[k]["host"]
                \/ end[k]["host"] = "open" /\ end'[k]["host"] \in {"closed", "reading"},
         transport'[Host] # NoTransport => end'[transport'[Host]]["host"] = "reading"
  PROVE  EndsOK'
<1> DEFINE old == transport[Host]
           q == rest \o words
<1>1. CASE words = <<>>
  <2>1. q = rest
    BY <1>1
  <2> HIDE DEF q
  <2>2. \A k \in Connections :
          /\ end'[k]["host"] = "posted" => InQueue(Eof(k), q)
          /\ InQueue(Eof(k), q) => end'[k]["host"] \in {"posted", "closed"}
    <3> SUFFICES ASSUME NEW k \in Connections
                 PROVE  /\ end'[k]["host"] # "posted"
                        /\ InQueue(Eof(k), q) => end'[k]["host"] \in {"posted", "closed"}
      OBVIOUS
    <3>1. end'[k]["host"] # "posted"
      BY Constants, ActiveIsCurrent
    <3> QED
      BY <2>1, <3>1 DEF EndsOK
  <2>3. FramesTold(q, transport'[Host], lost')
    <3> SUFFICES ASSUME NEW k \in Connections, NEW m \in Messages, InQueue(Data(k, m), rest)
                 PROVE  k \in lost' \/ InQueue(Eof(k), rest)
      BY <2>1 DEF FramesTold
    <3>1. CASE k # old
      BY <3>1 DEF FramesTold
    <3>2. CASE k = old
      <4>1. k # NoTransport
        BY Constants
      <4>2. CASE end[k]["host"] = "posted"
        BY <3>2, <4>2 DEF EndsOK
      <4>3. CASE end[k]["host"] # "posted"
        BY <1>1, <3>2, <4>1, <4>3 DEF Unnoticed
      <4> QED
        BY <4>2, <4>3
    <3> QED
      BY <3>1, <3>2
  <2> QED
    BY <2>1, <2>2, <2>3 DEF EndsOK, Running, q
<1>2. CASE old # NoTransport /\ end[old]["host"] # "posted" /\ words = <<Eof(old)>>
  <2> DEFINE e == Eof(old)
  <2>1. old \in Connections /\ e \in Events(Connections) /\ e.conn = old
    <3>1. old \in Connections
      BY <1>2, Constants DEF SessionInv, TypeOK
    <3> HIDE DEF old
    <3> QED
      BY <3>1, EventFacts
  <2>2. ~InQueue(e, rest)
    BY <1>2, <2>1 DEF EndsOK, Running
  <2>3. q = Append(rest, e)
    BY <1>2, <2>1, WordsFacts
  <2> HIDE DEF q, e
  <2>4. QuietAfterEnd(q) /\ \A f : InQueue(f, q) <=> f = e \/ InQueue(f, rest)
    <3>1. ~InQueue(Eof(e.conn), rest)
      BY <2>1, <2>2 DEF e
    <3> QED
      BY <2>1, <2>3, <3>1, AppendTold
  <2>5. \A k \in Connections :
          /\ end'[k]["host"] = "posted" => InQueue(Eof(k), q)
          /\ InQueue(Eof(k), q) => end'[k]["host"] \in {"posted", "closed"}
    <3> SUFFICES ASSUME NEW k \in Connections
                 PROVE  /\ end'[k]["host"] # "posted"
                        /\ InQueue(Eof(k), q) => end'[k]["host"] \in {"posted", "closed"}
      OBVIOUS
    <3>1. end'[k]["host"] # "posted"
      BY Constants, ActiveIsCurrent
    <3>2. CASE k = old
      BY <3>2
    <3>3. CASE k # old
      <4>1. Eof(k) # e
        BY <2>1, <3>3, EventFacts
      <4>2. InQueue(Eof(k), q) => InQueue(Eof(k), queue[Host])
        BY <2>4, <4>1
      <4>3. InQueue(Eof(k), q) => end[k]["host"] \in {"posted", "closed"}
        BY <4>2 DEF EndsOK
      <4>4. \/ end'[k]["host"] = end[k]["host"]
            \/ end[k]["host"] = "open" /\ end'[k]["host"] \in {"closed", "reading"}
        BY <3>3
      <4> QED
        BY <3>1, <4>3, <4>4
    <3> QED
      BY <3>1, <3>2, <3>3
  <2>6. FramesTold(q, transport'[Host], lost')
    <3> SUFFICES ASSUME NEW k \in Connections, NEW m \in Messages, InQueue(Data(k, m), q)
                 PROVE  k \in lost' \/ InQueue(Eof(k), q)
      BY DEF FramesTold
    <3>1. InQueue(Data(k, m), rest)
      BY <2>4 DEF e, Data, Eof
    <3>2. CASE k # old
      BY <2>4, <3>1, <3>2 DEF FramesTold
    <3>3. CASE k = old
      BY <2>4, <3>3 DEF e
    <3> QED
      BY <3>2, <3>3
  <2> QED
    BY <2>4, <2>5, <2>6 DEF EndsOK, Running, q
<1> QED
  BY <1>1, <1>2 DEF LastWords

\* The host's queue as the lemmas on queues need it.
LEMMA HostQueue ==
  ASSUME SessionInv, EndsOK
  PROVE  /\ queue[Host] \in Seq(Events(Connections))
         /\ transport[Host] \in Connections \cup {NoTransport}
         /\ QuietAfterEnd(queue[Host]) /\ FramesTold(queue[Host], transport[Host], lost)
         /\ queue[Host] # <<>> =>
              /\ Rest(Host) \in Seq(Events(Connections))
              /\ QuietAfterEnd(Rest(Host)) /\ FramesTold(Rest(Host), transport[Host], lost)
              /\ \A e : InQueue(e, queue[Host]) <=> e = Head(queue[Host]) \/ InQueue(e, Rest(Host))
              /\ Head(queue[Host]).type = "eof" =>
                   \A e : InQueue(e, Rest(Host)) => e.conn # Head(queue[Host]).conn
<1> DEFINE q == queue[Host]
<1>1. /\ q \in Seq(Events(Connections)) /\ transport[Host] \in Connections \cup {NoTransport}
      /\ QuietAfterEnd(q) /\ FramesTold(q, transport[Host], lost)
  BY Constants DEF SessionInv, TypeOK, EndsOK
<1> HIDE DEF q
<1>2. q # <<>> => Tail(q) \in Seq(Events(Connections))
  BY <1>1, TailFacts
<1>3. q # <<>> =>
        /\ QuietAfterEnd(Tail(q)) /\ FramesTold(Tail(q), transport[Host], lost)
        /\ \A e : InQueue(e, q) <=> e = Head(q) \/ InQueue(e, Tail(q))
        /\ Head(q).type = "eof" => \A e : InQueue(e, Tail(q)) => e.conn # Head(q).conn
  BY <1>1, TailTold
<1> QED
  BY <1>1, <1>2, <1>3 DEF q, Rest

\* disconnect() at either side.
LEMMA EndsDisconnected ==
  ASSUME SessionInv, EndsOK, NEW c \in Clients, NEW rest, Disconnected(c, rest),
         c = Host =>
           /\ rest \in Seq(Events(Connections))
           /\ QuietAfterEnd(rest) /\ FramesTold(rest, transport[Host], lost)
           /\ \A k \in Connections : InQueue(Eof(k), rest) => InQueue(Eof(k), queue[Host])
           /\ InQueue(Eof(transport[Host]), queue[Host]) =>
                \/ InQueue(Eof(transport[Host]), rest)
                \/ \A m \in Messages : ~InQueue(Data(transport[Host], m), rest)
  PROVE  EndsOK'
<1> DEFINE k == transport[c]
           closing == {k} \cup IF c = Host THEN {backlog[i] : i \in DOMAIN backlog} ELSE {}
<1>1. PICK words \in LastWords(k, Side(c)) :
        /\ transport' = [transport EXCEPT ![c] = NoTransport]
        /\ queue' = [queue EXCEPT ![c] = rest \o words]
        /\ end' = Stopped(end, closing, Side(c), "closed")
        /\ lost' = IF c = Host THEN lost \cup Unnoticed(k, words) ELSE lost
  BY DEF Disconnected
<1>2. \A j \in Connections : j \in closing <=> j = k \/ (c = Host /\ InQueue(j, backlog))
  BY InBacklog
<1> HIDE DEF closing
<1>3. \A j \in Connections, s \in Sides :
        end'[j][s] = IF j \in closing /\ s = Side(c) THEN "closed" ELSE end[j][s]
  <2>1. Side(c) \in Sides
    BY Constants
  <2> QED
    BY <1>1, <2>1, StoppedEnds
<1>4. CASE c # Host
  <2>1. /\ queue'[Host] = queue[Host] /\ transport'[Host] = transport[Host] /\ lost' = lost
        /\ \A j \in Connections : end'[j]["host"] = end[j]["host"]
        /\ transport[Host] \in Connections \cup {NoTransport}
    BY <1>1, <1>3, <1>4, Constants DEF SessionInv, TypeOK
  <2> QED
    BY <2>1, EndsFrame
<1>5. CASE c = Host
  <2>1. /\ queue'[Host] = rest \o words /\ transport'[Host] = NoTransport
        /\ lost' = lost \cup Unnoticed(transport[Host], words)
        /\ words \in LastWords(transport[Host], "host")
    BY <1>1, <1>5, Constants DEF SessionInv, TypeOK
  <2>2. \A j \in Connections :
          IF j = transport[Host] THEN end'[j]["host"] = "closed"
          ELSE \/ end'[j]["host"] = end[j]["host"]
               \/ end[j]["host"] = "open" /\ end'[j]["host"] \in {"closed", "reading"}
    BY <1>2, <1>3, <1>5, Constants DEF SessionInv, WaitingOK
  <2> QED
    BY <1>5, <2>1, <2>2, EndsStop
<1> QED
  BY <1>4, <1>5

\* What users and the timeout do.
LEMMA EndsUser ==
  ASSUME SessionInv, EndsOK, NEW c \in Clients, User(c) \/ heartbeatTimeout(c)
  PROVE  EndsOK'
<1>1. CASE disconnect(c) \/ heartbeatTimeout(c)
  <2>1. Disconnected(c, queue[c])
    BY <1>1 DEF disconnect, heartbeatTimeout
  <2> QED
    BY <2>1, HostQueue, EndsDisconnected
<1>2. CASE c = Host /\ startHost
  <2>1. UNCHANGED <<queue, transport, lost, end>>
    BY <1>2 DEF startHost
  <2> QED
    BY <2>1, HostQueue, EndsFrame
<1>3. CASE c \in Peers /\ joinAsPeer(c)
  <2> DEFINE k == Cardinality(Made) + 1
             ends == [host |-> "open", peer |-> "reading"]
  <2>1. /\ transport' = [transport EXCEPT ![c] = k]
        /\ end' = [end EXCEPT ![k] = ends]
        /\ queue' = queue /\ lost' = lost /\ Cardinality(Made) < MaxConnections
    BY <1>3 DEF joinAsPeer
  <2>2. k \in Connections /\ joiner[k] = Host
    BY <2>1, NextConnection
  <2>3. ends["host"] = "open"
    OBVIOUS
  <2> HIDE DEF k, ends
  <2>4. transport'[Host] = transport[Host] /\ queue'[Host] = queue[Host]
    BY <1>3, <2>1, Constants DEF SessionInv, TypeOK
  <2>5. /\ end'[k]["host"] = "open" /\ end[k]["host"] = "none" /\ transport[Host] # k
        /\ \A j \in Connections : j # k => end'[j] = end[j]
    BY <2>1, <2>2, <2>3, Constants
       DEF SessionInv, TypeOK, UnmadeOK, TransportsOK, NoTransport
  <2>6. transport[Host] \in Connections \cup {NoTransport}
    BY HostQueue
  <2>7. \A j \in Connections :
          \/ end'[j]["host"] = end[j]["host"]
          \/ /\ {end[j]["host"], end'[j]["host"]} \cap {"posted", "closed"} = {}
             /\ transport[Host] = j => end'[j]["host"] \in Running
    BY <2>5
  <2> QED
    BY <2>1, <2>4, <2>6, <2>7, EndsFrame
<1> QED
  BY <1>1, <1>2, <1>3 DEF User

\* What the main thread does with the first event.
LEMMA EndsDrain ==
  ASSUME SessionInv, EndsOK, NEW c \in Clients, Drain(c)
  PROVE  EndsOK'
<1>1. CASE c # Host /\ (ignoreEvent(c) \/ joined(c))
  <2>1. UNCHANGED <<transport, lost, end>> /\ queue'[Host] = queue[Host]
    BY <1>1, Constants DEF ignoreEvent, joined, Dropped, SessionInv, TypeOK
  <2> QED
    BY <2>1, HostQueue, EndsFrame
<1>2. CASE c = Host /\ ignoreEvent(c)
  <2>1. /\ UNCHANGED <<transport, lost, end>> /\ queue[Host] # <<>> /\ Dropped(Host)
        /\ state[Host] = "Idle"
    BY <1>2 DEF ignoreEvent, First
  <2>2. \A k \in Connections : end'[k]["host"] = end[k]["host"]
    BY <2>1
  <2> QED
    BY <2>1, <2>2, EndsDrop
<1>3. CASE c = Host /\ \E h \in Connections : handleHostHello(h)
  <2>1. /\ UNCHANGED <<transport, lost, end>> /\ queue[Host] # <<>> /\ Dropped(Host)
        /\ Head(queue[Host]).type = "data"
    BY <1>3 DEF handleHostHello, HelloFrom, First
  <2>2. \A k \in Connections : end'[k]["host"] = end[k]["host"]
    BY <2>1
  <2>3. Head(queue[Host]).type # "eof"
    BY <2>1
  <2> QED
    BY <2>1, <2>2, <2>3, EndsDrop
<1>4. CASE c = Host /\ refuseSocket
  <2> DEFINE k == Head(queue[Host]).conn
  <2>1. /\ queue[Host] # <<>> /\ Head(queue[Host]).type = "adopt" /\ Dropped(Host)
        /\ end' = Stopped(end, {k}, "host", "closed") /\ UNCHANGED <<transport, lost>>
    BY <1>4 DEF refuseSocket, First
  <2>2. k \in Connections /\ InQueue(Adopt(k), queue[Host])
    BY <2>1, Constants, DropFacts, EventFacts
  <2> HIDE DEF k
  <2>3. end[k]["host"] = "open"
    BY <2>2 DEF SessionInv, WaitingOK
  <2>4. \A j \in Connections : end'[j]["host"] = IF j = k THEN "closed" ELSE end[j]["host"]
    <3>1. "host" \in Sides
      BY Constants
    <3> QED
      BY <2>1, <3>1, StoppedEnds
  <2>5. \A j \in Connections : \/ end'[j]["host"] = end[j]["host"]
                               \/ end[j]["host"] = "open" /\ end'[j]["host"] = "closed"
    BY <2>3, <2>4
  <2>6. Head(queue[Host]).type # "eof"
    BY <2>1
  <2> QED
    BY <2>1, <2>5, <2>6, EndsDrop
<1>5. CASE c = Host /\ adoptAcceptedSocket
  <2> DEFINE k == Head(queue[Host]).conn
             old == transport[Host]
             stopped == Stopped(end, {old}, "host", "closed")
  <2>1. PICK words \in LastWords(old, "host") :
          /\ transport' = [transport EXCEPT ![Host] = k]
          /\ end' = [stopped EXCEPT ![k]["host"] = "reading"]
          /\ queue' = [queue EXCEPT ![Host] = Rest(Host) \o words]
          /\ lost' = lost \cup Unnoticed(old, words)
    BY <1>5 DEF adoptAcceptedSocket
  <2>2. /\ queue[Host] # <<>> /\ k \in Connections /\ Head(queue[Host]) = Adopt(k)
        /\ InQueue(Adopt(k), queue[Host])
    BY <1>5, Constants, DropFacts, EventFacts DEF adoptAcceptedSocket, First
  <2>3. end[k]["host"] = "open"
    BY <2>2 DEF SessionInv, WaitingOK
  <2>4. k # old
    BY <2>2, <2>3, Constants DEF SessionInv, TransportsOK
  <2>5. stopped \in [Connections -> [Sides -> EndStates]]
        /\ \A j \in Connections :
             stopped[j]["host"] = IF j = old THEN "closed" ELSE end[j]["host"]
    <3>1. "host" \in Sides
      BY Constants
    <3> QED
      BY <3>1, StoppedEnds
  <2> HIDE DEF k, stopped
  <2>6. \A j \in Connections :
          end'[j]["host"] = IF j = k THEN "reading" ELSE IF j = old THEN "closed"
                            ELSE end[j]["host"]
    BY <2>1, <2>2, <2>5, Constants
  <2>7. /\ queue'[Host] = Rest(Host) \o words /\ transport'[Host] = k
    BY <2>1, Constants DEF SessionInv, TypeOK
  <2>8. \A j \in Connections :
          IF j = old THEN end'[j]["host"] = "closed"
          ELSE \/ end'[j]["host"] = end[j]["host"]
               \/ end[j]["host"] = "open" /\ end'[j]["host"] \in {"closed", "reading"}
    BY <2>3, <2>4, <2>6
  <2>9. /\ Rest(Host) \in Seq(Events(Connections))
        /\ QuietAfterEnd(Rest(Host)) /\ FramesTold(Rest(Host), old, lost)
        /\ \A e : InQueue(e, queue[Host]) <=> e = Head(queue[Host]) \/ InQueue(e, Rest(Host))
    BY <2>2, HostQueue
  <2>10. InQueue(Eof(old), queue[Host]) => InQueue(Eof(old), Rest(Host))
    BY <2>2, <2>9 DEF Adopt, Eof
  <2>11. end'[transport'[Host]]["host"] = "reading"
    BY <2>2, <2>6, <2>7
  <2> QED
    BY <2>1, <2>7, <2>8, <2>9, <2>10, <2>11, EndsStop
<1>6. CASE c = Host /\ \E h \in Connections : rejectHello(h)
  <2> DEFINE old == transport[Host]
  <2>1. PICK words \in LastWords(old, "host") :
          /\ transport' = [transport EXCEPT ![Host] = NoTransport]
          /\ end' = Stopped(end, {old}, "host", "closed")
          /\ queue' = [queue EXCEPT ![Host] = Rest(Host) \o words]
          /\ lost' = lost \cup Unnoticed(old, words)
    BY <1>6 DEF rejectHello
  <2>2. queue[Host] # <<>> /\ Head(queue[Host]).type = "data"
    BY <1>6 DEF rejectHello, HelloFrom, First, Data
  <2>3. \A j \in Connections : end'[j]["host"] = IF j = old THEN "closed" ELSE end[j]["host"]
    <3>1. "host" \in Sides
      BY Constants
    <3> QED
      BY <2>1, <3>1, StoppedEnds
  <2>4. /\ queue'[Host] = Rest(Host) \o words /\ transport'[Host] = NoTransport
    BY <2>1, Constants DEF SessionInv, TypeOK
  <2>5. /\ Rest(Host) \in Seq(Events(Connections))
        /\ QuietAfterEnd(Rest(Host)) /\ FramesTold(Rest(Host), old, lost)
        /\ \A e : InQueue(e, queue[Host]) <=> e = Head(queue[Host]) \/ InQueue(e, Rest(Host))
    BY <2>2, HostQueue
  <2>6. InQueue(Eof(old), queue[Host]) => InQueue(Eof(old), Rest(Host))
    BY <2>2, <2>5 DEF Eof
  <2> QED
    BY <2>1, <2>3, <2>4, <2>5, <2>6, EndsStop
<1>7. CASE handleTransportDisconnect(c) \/ (c \in Peers /\ joinRejected(c))
  <2>1. /\ Disconnected(c, Rest(c)) /\ queue[c] # <<>>
        /\ c = Host => Head(queue[Host]).type = "eof"
    BY <1>7, Constants DEF handleTransportDisconnect, joinRejected, First
  <2>2. CASE c = Host
    <3>1. /\ Rest(Host) \in Seq(Events(Connections))
          /\ QuietAfterEnd(Rest(Host)) /\ FramesTold(Rest(Host), transport[Host], lost)
          /\ \A e : InQueue(e, queue[Host]) <=> e = Head(queue[Host]) \/ InQueue(e, Rest(Host))
          /\ \A e : InQueue(e, Rest(Host)) => e.conn # Head(queue[Host]).conn
      BY <2>1, <2>2, HostQueue
    <3>2. \/ InQueue(Eof(transport[Host]), queue[Host]) => InQueue(Eof(transport[Host]), Rest(Host))
          \/ \A m \in Messages : ~InQueue(Data(transport[Host], m), Rest(Host))
      <4>1. CASE Head(queue[Host]) = Eof(transport[Host])
        BY <3>1, <4>1 DEF Eof, Data
      <4>2. CASE Head(queue[Host]) # Eof(transport[Host])
        BY <3>1, <4>2
      <4> QED
        BY <4>1, <4>2
    <3> QED
      BY <2>1, <2>2, <3>1, <3>2, EndsDisconnected
  <2>3. CASE c # Host
    BY <2>1, <2>3, EndsDisconnected
  <2> QED
    BY <2>2, <2>3
<1> QED
  BY <1>1, <1>2, <1>3, <1>4, <1>5, <1>6, <1>7, Constants DEF Drain

\* A crash empties the host's queue, or leaves it alone.
LEMMA EndsCrash ==
  ASSUME SessionInv, EndsOK, NEW c \in Clients, crash(c)
  PROVE  EndsOK'
<1> DEFINE mine == {k \in Made : c \in {Host, joiner[k]}}
<1>1. /\ end' = Stopped(end, mine, Side(c), "closed")
      /\ transport' = [transport EXCEPT ![c] = NoTransport]
      /\ queue' = [queue EXCEPT ![c] = <<>>]
      /\ c # Host => lost' = lost
  BY DEF crash
<1>2. \A j \in Connections : c = Host => (j \in mine <=> joiner[j] # Host)
  BY DEF Made
<1> HIDE DEF mine
<1>3. \A j \in Connections, s \in Sides :
        end'[j][s] = IF j \in mine /\ s = Side(c) THEN "closed" ELSE end[j][s]
  <2>1. Side(c) \in Sides
    BY Constants
  <2> QED
    BY <1>1, <2>1, StoppedEnds
<1>4. CASE c # Host
  <2>1. /\ queue'[Host] = queue[Host] /\ transport'[Host] = transport[Host] /\ lost' = lost
        /\ \A j \in Connections : end'[j]["host"] = end[j]["host"]
        /\ transport[Host] \in Connections \cup {NoTransport}
    BY <1>1, <1>3, <1>4, Constants DEF SessionInv, TypeOK
  <2> QED
    BY <2>1, EndsFrame
<1>5. CASE c = Host
  <2>1. queue'[Host] = <<>> /\ transport'[Host] = NoTransport
    BY <1>1, <1>5 DEF SessionInv, TypeOK
  <2>2. \A j \in Connections : end'[j]["host"] # "posted"
    BY <1>2, <1>3, <1>5, Constants DEF SessionInv, UnmadeOK
  <2>3. \A e : ~InQueue(e, queue'[Host])
    BY <2>1 DEF InQueue
  <2> QED
    BY <2>1, <2>2, <2>3 DEF EndsOK, QuietAfterEnd, FramesTold
<1> QED
  BY <1>4, <1>5

\* The receive thread of the host's transport, or another thread of the host,
\* posts an event.
LEMMA EndsPost ==
  ASSUME SessionInv, EndsOK, NEW e \in Events(Connections),
         queue' = [queue EXCEPT ![Host] = Append(@, e)], UNCHANGED <<transport, lost>>,
         end[e.conn]["host"] \notin {"posted", "closed"},
         e.type = "data" => transport[Host] = e.conn,
         e.type = "eof" => end'[e.conn]["host"] = "posted",
         \A k \in Connections :
           \/ end'[k]["host"] = end[k]["host"]
           \/ e = Eof(k) /\ end'[k]["host"] = "posted"
  PROVE  EndsOK'
<1> DEFINE q == queue[Host]
           r == Append(q, e)
<1>1. q \in Seq(Events(Connections)) /\ QuietAfterEnd(q) /\ FramesTold(q, transport[Host], lost)
  BY HostQueue
<1>2. e.conn \in Connections /\ ~InQueue(Eof(e.conn), q)
  BY EventFacts DEF EndsOK
<1>3. queue'[Host] = r
  BY Constants DEF SessionInv, TypeOK
<1> HIDE DEF q
<1>4. QuietAfterEnd(r) /\ \A f : InQueue(f, r) <=> f = e \/ InQueue(f, q)
  BY <1>1, <1>2, AppendTold
<1> HIDE DEF r
<1>5. ASSUME NEW k \in Connections
      PROVE  /\ end'[k]["host"] = "posted" => InQueue(Eof(k), r)
             /\ InQueue(Eof(k), r) => end'[k]["host"] \in {"posted", "closed"}
  <2>1. CASE e = Eof(k)
    <3>1. e.type = "eof" /\ e.conn = k
      BY <2>1, EventFacts
    <3> QED
      BY <1>4, <2>1, <3>1
  <2>2. CASE e # Eof(k)
    <3>1. end'[k]["host"] = end[k]["host"]
      BY <2>2
    <3> QED
      BY <1>4, <2>2, <3>1 DEF EndsOK, q
  <2> QED
    BY <2>1, <2>2
<1>6. FramesTold(r, transport[Host], lost)
  <2> SUFFICES ASSUME NEW k \in Connections, NEW m \in Messages, InQueue(Data(k, m), r)
               PROVE  transport[Host] = k \/ k \in lost \/ InQueue(Eof(k), r)
    BY DEF FramesTold
  <2>1. CASE Data(k, m) = e
    BY <2>1, EventFacts
  <2>2. CASE InQueue(Data(k, m), q)
    BY <1>1, <1>4, <2>2 DEF FramesTold
  <2> QED
    BY <1>4, <2>1, <2>2
<1>7. transport'[Host] # NoTransport => end'[transport'[Host]]["host"] \in Running
  <2>1. transport[Host] \in Connections \cup {NoTransport}
    BY HostQueue
  <2> QED
    BY <2>1 DEF EndsOK, Running
<1> QED
  BY <1>3, <1>4, <1>5, <1>6, <1>7 DEF EndsOK

\* What the receive threads do.
LEMMA EndsReceive ==
  ASSUME SessionInv, EndsOK, NEW k \in Connections, NEW s \in Sides, Receive(k, s)
  PROVE  EndsOK'
<1>1. end[k][s] \in {"reading", "cut", "ended"} /\ UNCHANGED <<transport, lost>>
  BY DEF Receive, recvFrame, recvFails, postDisconnected
<1>2. /\ (s = "host" => transport[Host] = k)
      /\ (s # "host" => joiner[k] # Host /\ joiner[k] \in Clients)
      /\ transport[Host] \in Connections \cup {NoTransport}
  BY <1>1, ActiveIsCurrent, HostQueue
<1>3. CASE s # "host"
  <2>1. queue'[Host] = queue[Host]
    BY <1>2, <1>3, Constants DEF Receive, recvFrame, recvFails, postDisconnected, SessionInv, TypeOK
  <2>2. \A j \in Connections : end'[j]["host"] = end[j]["host"]
    <3>1. end' = end \/ \E v \in EndStates : end' = [end EXCEPT ![k][s] = v]
      BY DEF Receive, recvFrame, recvFails, postDisconnected, EndStates
    <3>2. CASE end' = end
      BY <3>2
    <3>3. ASSUME NEW v, end' = [end EXCEPT ![k][s] = v], NEW j \in Connections
          PROVE  end'[j]["host"] = end[j]["host"]
      BY <1>3, <3>3, Constants DEF SessionInv, TypeOK
    <3> QED
      BY <3>1, <3>2, <3>3
  <2> QED
    BY <1>1, <1>2, <2>1, <2>2, EndsFrame
<1>4. CASE s = "host" /\ recvFrame(k, s)
  <2> DEFINE e == Data(k, Head(wire[k][s]))
  <2>1. /\ queue' = [queue EXCEPT ![Host] = Append(@, e)] /\ end' = end
        /\ wire[k][s] # <<>>
    BY <1>4 DEF recvFrame
  <2>2. wire[k][s] \in Seq(Messages)
    BY DEF SessionInv, TypeOK
  <2>3. Head(wire[k][s]) \in Messages
    BY <2>1, <2>2
  <2>4. e \in Events(Connections) /\ e.conn = k /\ e.type = "data"
    BY <2>3, EventFacts
  <2> HIDE DEF e
  <2>5. /\ end[e.conn]["host"] \notin {"posted", "closed"} /\ transport[Host] = e.conn
        /\ \A j \in Connections : end'[j]["host"] = end[j]["host"]
    BY <1>1, <1>2, <1>4, <2>1, <2>4
  <2> QED
    BY <1>1, <2>1, <2>4, <2>5, EndsPost
<1>5. CASE s = "host" /\ recvFails(k, s)
  <2>1. /\ queue'[Host] = queue[Host] /\ end[k]["host"] \in {"reading", "cut"}
        /\ end' = [end EXCEPT ![k]["host"] = "ended"]
    BY <1>5 DEF recvFails
  <2>2. end'[k]["host"] = "ended" /\ \A j \in Connections : j # k => end'[j] = end[j]
    BY <2>1, Constants DEF SessionInv, TypeOK
  <2>3. \A j \in Connections :
          \/ end'[j]["host"] = end[j]["host"]
          \/ /\ {end[j]["host"], end'[j]["host"]} \cap {"posted", "closed"} = {}
             /\ transport[Host] = j => end'[j]["host"] \in Running
    BY <2>1, <2>2 DEF Running
  <2> QED
    BY <1>1, <1>2, <2>1, <2>3, EndsFrame
<1>6. CASE s = "host" /\ postDisconnected(k, s)
  <2> DEFINE e == Eof(k)
  <2>1. /\ queue' = [queue EXCEPT ![Host] = Append(@, e)] /\ end[k]["host"] = "ended"
        /\ end' = [end EXCEPT ![k]["host"] = "posted"]
    BY <1>6 DEF postDisconnected
  <2>2. end'[k]["host"] = "posted" /\ \A j \in Connections : j # k => end'[j] = end[j]
    BY <2>1, Constants DEF SessionInv, TypeOK
  <2>3. e \in Events(Connections) /\ e.conn = k /\ e.type = "eof" /\ e = Eof(k)
    BY EventFacts
  <2> HIDE DEF e
  <2>4. \A j \in Connections : \/ end'[j]["host"] = end[j]["host"]
                               \/ e = Eof(j) /\ end'[j]["host"] = "posted"
    BY <2>2, <2>3
  <2>5. end[e.conn]["host"] \notin {"posted", "closed"} /\ end'[e.conn]["host"] = "posted"
    BY <2>1, <2>2, <2>3
  <2> QED
    BY <1>1, <2>1, <2>3, <2>4, <2>5, EndsPost
<1> QED
  BY <1>3, <1>4, <1>5, <1>6 DEF Receive

\* The other steps.
LEMMA EndsOthers ==
  ASSUME SessionInv, EndsOK,
         \/ \E c \in Clients : sendFails(c)
         \/ \E k \in Connections : connectionReset(k)
         \/ acceptLoop \/ acceptFails
  PROVE  EndsOK'
<1>1. ASSUME NEW c \in Clients, sendFails(c)
      PROVE  EndsOK'
  <2> DEFINE k == transport[c]
             s == Side(c)
  <2>1. /\ k # NoTransport /\ end[k][s] = "reading" /\ end' = [end EXCEPT ![k][s] = "cut"]
        /\ UNCHANGED <<queue, transport, lost>>
    BY <1>1 DEF sendFails, isConnected
  <2>2. k \in Connections /\ s \in Sides
    BY <2>1, Constants DEF SessionInv, TypeOK
  <2> HIDE DEF k, s
  <2>3. \A j \in Connections :
          \/ end'[j]["host"] = end[j]["host"]
          \/ end[j]["host"] = "reading" /\ end'[j]["host"] = "cut"
    BY <2>1, <2>2, Constants DEF SessionInv, TypeOK
  <2>4. \A j \in Connections :
          \/ end'[j]["host"] = end[j]["host"]
          \/ /\ {end[j]["host"], end'[j]["host"]} \cap {"posted", "closed"} = {}
             /\ transport[Host] = j => end'[j]["host"] \in Running
    BY <2>3 DEF Running
  <2> QED
    BY <2>1, <2>4, HostQueue, EndsFrame
<1>2. CASE acceptFails \/ \E k \in Connections : connectionReset(k)
  <2>1. UNCHANGED <<queue, transport, lost, end>>
    BY <1>2 DEF acceptFails, connectionReset
  <2> QED
    BY <2>1, HostQueue, EndsFrame
<1>3. CASE acceptLoop
  <2> DEFINE k == Head(backlog)
             e == Adopt(k)
  <2>1. /\ queue' = [queue EXCEPT ![Host] = Append(@, e)] /\ UNCHANGED <<transport, lost, end>>
        /\ backlog # <<>>
    BY <1>3 DEF acceptLoop
  <2>2. backlog \in Seq(Connections)
    BY DEF SessionInv, TypeOK
  <2>3. k \in Connections /\ InQueue(k, backlog)
    BY <2>1, <2>2, TailFacts DEF InQueue
  <2>4. end[k]["host"] = "open"
    BY <2>3 DEF SessionInv, WaitingOK
  <2>5. e \in Events(Connections) /\ e.conn = k /\ e.type = "adopt"
    BY <2>3, EventFacts
  <2> HIDE DEF k, e
  <2>6. \A j \in Connections : end'[j]["host"] = end[j]["host"]
    BY <2>1
  <2>7. end[e.conn]["host"] \notin {"posted", "closed"} /\ e.type # "data" /\ e.type # "eof"
    BY <2>4, <2>5
  <2> QED
    BY <2>1, <2>5, <2>6, <2>7, EndsPost
<1> QED
  BY <1>1, <1>2, <1>3

\* EndsOK always holds.
LEMMA EndsInvariant == Spec => []EndsOK
<1>1. Init => EndsOK
  <2> SUFFICES ASSUME Init PROVE EndsOK
    OBVIOUS
  <2>1. queue[Host] = <<>> /\ transport[Host] = NoTransport
    BY Constants DEF Init
  <2>2. \A e : ~InQueue(e, queue[Host])
    BY <2>1 DEF InQueue
  <2>3. \A k \in Connections : end[k]["host"] = "none"
    BY Constants DEF Init
  <2> QED
    BY <2>1, <2>2, <2>3 DEF EndsOK, QuietAfterEnd, FramesTold
<1>2. SessionInv /\ EndsOK /\ [Next]_vars => EndsOK'
  <2> SUFFICES ASSUME SessionInv, EndsOK, [Next]_vars PROVE EndsOK'
    OBVIOUS
  <2>1. ASSUME NEW c \in Clients, User(c) \/ Drain(c) \/ heartbeatTimeout(c) \/ crash(c)
        PROVE  EndsOK'
    BY <2>1, EndsUser, EndsDrain, EndsCrash
  <2>2. ASSUME NEW k \in Connections, NEW s \in Sides, Receive(k, s)
        PROVE  EndsOK'
    BY <2>2, EndsReceive
  <2>3. CASE UNCHANGED vars
    BY <2>3 DEF vars, EndsOK
  <2> QED
    BY <2>1, <2>2, <2>3, EndsOthers DEF Next
<1> QED
  BY <1>1, <1>2, SessionInvariant, PTL DEF Spec

\* The host answers a hello on another connection than the hello's only when
\* the end of that connection is queued behind it or was lost when its
\* transport was replaced.
THEOREM LifecycleAnswers == Spec => AnswerGoesToAsker
<1>1. SessionInv /\ EndsOK =>
        [\A k \in Connections : handleHostHello(k) =>
           \/ transport[Host] = k
           \/ k \in lost
           \/ \E i \in DOMAIN queue[Host] : queue[Host][i] = Eof(k)]_vars
  <2> SUFFICES ASSUME EndsOK, SessionInv, NEW k \in Connections, handleHostHello(k)
               PROVE  \/ transport[Host] = k
                      \/ k \in lost
                      \/ \E i \in DOMAIN queue[Host] : queue[Host][i] = Eof(k)
    OBVIOUS
  <2>1. queue[Host] # <<>> /\ Head(queue[Host]) = Data(k, Hello) /\ Hello \in Messages
    BY DEF handleHostHello, HelloFrom, First, Messages
  <2>2. InQueue(Data(k, Hello), queue[Host])
    BY <2>1, Constants, DropFacts
  <2>3. transport[Host] = k \/ k \in lost \/ InQueue(Eof(k), queue[Host])
    BY <2>1, <2>2 DEF EndsOK, FramesTold
  <2>4. queue[Host] \in Seq(Events(Connections))
    BY HostQueue
  <2>5. DOMAIN queue[Host] = 1..Len(queue[Host])
    BY <2>4
  <2> QED
    BY <2>3, <2>5 DEF InQueue
<1> QED
  BY <1>1, SessionInvariant, EndsInvariant, PTL DEF AnswerGoesToAsker

-----------------------------------------------------------------------------
(***************************************************************************)
(* m_peers gets a second record only after an end that nobody was told:    *)
(* the theorem of SecondRecordNeedsLostEnd for any number of peers,        *)
(* connections, sessions and faults.  RecordsInv, added to the invariants  *)
(* above, says why: a connection says hello once, and while no end was     *)
(* lost, whatever another connection says comes after the end of the one   *)
(* that is on record, which ends the session first.                        *)
(***************************************************************************)

(* The invariant.                                                          *)

\* Nobody types the key of a session that has not begun: an event is of a
\* connection that was accepted in the session of its key, or later.
Keyed(q, ky, er) == \A i \in 1..Len(q) : ky[q[i].conn] <= er[q[i].conn]["host"]

\* A connection has said one thing at most.
Once(q) ==
  \A i, j \in 1..Len(q) :
    q[i].type = "data" /\ q[j].type = "data" /\ q[i].conn = q[j].conn => i = j

\* Between what two connections say, the first one with the key of session n,
\* the first one ended.
Apart(q, ky, n) ==
  \A i, j \in 1..Len(q) :
    /\ i < j /\ q[i].type = "data" /\ q[j].type = "data" /\ q[i].conn # q[j].conn
    /\ ky[q[i].conn] = n
    => \E m \in 1..Len(q) : i < m /\ m < j /\ q[m] = Eof(q[i].conn)

\* Everything that is still said comes after the end of k.
Behind(q, k) ==
  \A i \in 1..Len(q) : q[i].type = "data" =>
    \E m \in 1..Len(q) : m < i /\ q[m] = Eof(k)

KeysOK ==
  (\A k \in Connections : key[k] <= sessions[Host]) /\ Keyed(queue[Host], key, era)

\* A hello is on its way or queued, not both.
Unsaid(k) ==
  \/ wire[k]["host"] = <<>>
  \/ /\ wire[k]["host"] = <<Hello>>
     /\ \A i \in 1..Len(queue[Host]) :
          queue[Host][i].type = "data" => queue[Host][i].conn # k

HellosOK == Once(queue[Host]) /\ \A k \in Connections : Unsaid(k)

LostClosed == \A k \in lost : k \in Connections /\ end[k]["host"] = "closed"

\* An end of a connection of the current session was lost.
LostEnd == \E k \in lost : era[k]["host"] = sessions[Host]

\* The connection whose peer is on record: it has nothing more to say, and is
\* the transport, or its end is queued before anything that is still said.
OnRecord(k) ==
  /\ wire[k]["host"] = <<>>
  /\ transport[Host] = k \/ InQueue(Eof(k), queue[Host])
  /\ Behind(queue[Host], k)

RecordsOK ==
  /\ state[Host] = "Idle" => records = <<>>
  /\ state[Host] # "Idle" /\ ~LostEnd =>
       /\ Apart(queue[Host], key, sessions[Host])
       /\ records = <<>> \/ (Len(records) = 1 /\ \E k \in Connections : OnRecord(k))

RecordsInv == KeysOK /\ HellosOK /\ LostClosed /\ RecordsOK

-----------------------------------------------------------------------------
(* Queues.                                                                 *)

\* What is left of a queue keeps these orders.
LEMMA TailRecords ==
  ASSUME NEW q \in Seq(Events(Connections)), q # <<>>, NEW ky, NEW er, NEW n
  PROVE  /\ Keyed(q, ky, er) => Keyed(Tail(q), ky, er)
         /\ Once(q) => Once(Tail(q))
         /\ Apart(q, ky, n) => Apart(Tail(q), ky, n)
         /\ \A k : Behind(q, k) /\ Head(q) # Eof(k) => Behind(Tail(q), k)
         /\ \A k : Behind(q, k) => Head(q).type # "data"
         /\ Once(q) /\ Apart(q, ky, n) /\ Head(q).type = "data" /\ ky[Head(q).conn] = n
              => Behind(Tail(q), Head(q).conn)
<1> DEFINE r == Tail(q)
           h == Head(q)
<1>1. /\ h = q[1] /\ 1 \in 1..Len(q) /\ Len(q) \in Nat /\ Len(r) \in Nat
      /\ \A i \in 1..Len(r) : i + 1 \in 1..Len(q) /\ r[i] = q[i + 1] /\ i \in Nat /\ i >= 1
      /\ \A i \in 1..Len(q) : i = 1 \/ (i - 1 \in 1..Len(r) /\ q[i] = r[i - 1])
  BY TailFacts
<1> HIDE DEF r, h
<1>2. Keyed(q, ky, er) => Keyed(r, ky, er)
  BY <1>1 DEF Keyed
<1>3. Once(q) => Once(r)
  <2> SUFFICES ASSUME Once(q), NEW i \in 1..Len(r), NEW j \in 1..Len(r),
                      r[i].type = "data", r[j].type = "data", r[i].conn = r[j].conn
               PROVE  i = j
    BY DEF Once
  <2>1. /\ i + 1 \in 1..Len(q) /\ j + 1 \in 1..Len(q) /\ i \in Nat /\ j \in Nat
        /\ q[i + 1] = r[i] /\ q[j + 1] = r[j]
    BY <1>1
  <2>2. i + 1 = j + 1
    BY <2>1 DEF Once
  <2> QED BY <2>1, <2>2
<1>4. Apart(q, ky, n) => Apart(r, ky, n)
  <2> SUFFICES ASSUME Apart(q, ky, n), NEW i \in 1..Len(r), NEW j \in 1..Len(r), i < j,
                      r[i].type = "data", r[j].type = "data", r[i].conn # r[j].conn,
                      ky[r[i].conn] = n
               PROVE  \E m \in 1..Len(r) : i < m /\ m < j /\ r[m] = Eof(r[i].conn)
    BY DEF Apart
  <2>1. /\ i + 1 \in 1..Len(q) /\ j + 1 \in 1..Len(q) /\ i + 1 < j + 1
        /\ q[i + 1] = r[i] /\ q[j + 1] = r[j]
    BY <1>1
  <2>2. PICK m \in 1..Len(q) : i + 1 < m /\ m < j + 1 /\ q[m] = Eof(r[i].conn)
    BY <2>1 DEF Apart
  <2>3. m # 1 /\ m - 1 \in 1..Len(r) /\ r[m - 1] = q[m] /\ i < m - 1 /\ m - 1 < j
    BY <2>2, <1>1
  <2> QED BY <2>2, <2>3
<1>5. ASSUME NEW k, Behind(q, k), h # Eof(k)
      PROVE  Behind(r, k)
  <2> SUFFICES ASSUME NEW i \in 1..Len(r), r[i].type = "data"
               PROVE  \E m \in 1..Len(r) : m < i /\ r[m] = Eof(k)
    BY DEF Behind
  <2>1. PICK m \in 1..Len(q) : m < i + 1 /\ q[m] = Eof(k)
    BY <1>1, <1>5 DEF Behind
  <2>2. m # 1 /\ m - 1 \in 1..Len(r) /\ r[m - 1] = q[m] /\ m - 1 < i
    BY <2>1, <1>1, <1>5
  <2> QED BY <2>1, <2>2
<1>6. ASSUME NEW k, Behind(q, k)
      PROVE  h.type # "data"
  BY <1>1, <1>6 DEF Behind
<1>7. ASSUME Once(q), Apart(q, ky, n), h.type = "data", ky[h.conn] = n
      PROVE  Behind(r, h.conn)
  <2> SUFFICES ASSUME NEW i \in 1..Len(r), r[i].type = "data"
               PROVE  \E m \in 1..Len(r) : m < i /\ r[m] = Eof(h.conn)
    BY DEF Behind
  <2>1. i + 1 \in 1..Len(q) /\ q[i + 1] = r[i] /\ 1 < i + 1
    BY <1>1
  <2>2. q[1].conn # q[i + 1].conn
    <3>1. q[1].conn = q[i + 1].conn => 1 = i + 1
      BY <1>1, <1>7, <2>1 DEF Once
    <3> QED BY <3>1, <2>1
  <2>3. PICK m \in 1..Len(q) : 1 < m /\ m < i + 1 /\ q[m] = Eof(q[1].conn)
    BY <1>1, <1>7, <2>1, <2>2 DEF Apart
  <2>4. m # 1 /\ m - 1 \in 1..Len(r) /\ r[m - 1] = q[m] /\ m - 1 < i
    BY <2>3, <1>1
  <2> QED BY <2>3, <2>4, <1>1
<1> QED BY <1>2, <1>3, <1>4, <1>5, <1>6, <1>7 DEF r, h

\* An event posted: what it says must not have been said, and what others said
\* with the key of session n must have ended.
LEMMA AppendRecords ==
  ASSUME NEW q \in Seq(Events(Connections)), NEW e \in Events(Connections),
         NEW ky, NEW er, NEW n, QuietAfterEnd(q)
  PROVE  LET said == e.type = "data" IN
         /\ Keyed(q, ky, er) /\ ky[e.conn] <= er[e.conn]["host"] => Keyed(Append(q, e), ky, er)
         /\ Once(q) /\ (said => \A i \in 1..Len(q) : q[i].type = "data" => q[i].conn # e.conn)
              => Once(Append(q, e))
         /\ Apart(q, ky, n)
            /\ (said => \A i \in 1..Len(q) :
                          q[i].type = "data" /\ q[i].conn # e.conn /\ ky[q[i].conn] = n =>
                            InQueue(Eof(q[i].conn), q))
              => Apart(Append(q, e), ky, n)
         /\ \A k : Behind(q, k) /\ (said => InQueue(Eof(k), q)) => Behind(Append(q, e), k)
         /\ \A f : InQueue(f, Append(q, e)) <=> (f = e \/ InQueue(f, q))
<1> DEFINE r == Append(q, e)
           last == Len(q) + 1
<1>1. /\ \A i \in 1..Len(q) : i \in 1..Len(r) /\ r[i] = q[i] /\ i < last /\ i \in Nat
      /\ last \in 1..Len(r) /\ r[last] = e
      /\ \A i \in 1..Len(r) : i \in 1..Len(q) \/ i = last
  BY AppendFacts
<1> HIDE DEF r, last
<1>2. ASSUME Keyed(q, ky, er), ky[e.conn] <= er[e.conn]["host"]
      PROVE  Keyed(r, ky, er)
  BY <1>1, <1>2 DEF Keyed
<1>3. ASSUME Once(q),
             e.type = "data" => \A i \in 1..Len(q) : q[i].type = "data" => q[i].conn # e.conn
      PROVE  Once(r)
  <2> SUFFICES ASSUME NEW i \in 1..Len(r), NEW j \in 1..Len(r), i # j,
                      r[i].type = "data", r[j].type = "data", r[i].conn = r[j].conn
               PROVE  FALSE
    BY DEF Once
  <2>1. CASE i \in 1..Len(q) /\ j \in 1..Len(q)
    BY <2>1, <1>1, <1>3 DEF Once
  <2>2. CASE i = last \/ j = last
    BY <2>2, <1>1, <1>3
  <2> QED BY <2>1, <2>2, <1>1
<1>4. ASSUME Apart(q, ky, n),
             e.type = "data" => \A i \in 1..Len(q) :
               q[i].type = "data" /\ q[i].conn # e.conn /\ ky[q[i].conn] = n =>
                 InQueue(Eof(q[i].conn), q)
      PROVE  Apart(r, ky, n)
  <2> SUFFICES ASSUME NEW i \in 1..Len(r), NEW j \in 1..Len(r), i < j,
                      r[i].type = "data", r[j].type = "data", r[i].conn # r[j].conn,
                      ky[r[i].conn] = n
               PROVE  \E m \in 1..Len(r) : i < m /\ m < j /\ r[m] = Eof(r[i].conn)
    BY DEF Apart
  <2>1. i \in 1..Len(q) /\ r[i] = q[i]
    BY <1>1
  <2>2. CASE j \in 1..Len(q)
    <3>1. \E m \in 1..Len(q) : i < m /\ m < j /\ q[m] = Eof(q[i].conn)
      BY <2>1, <2>2, <1>1, <1>4 DEF Apart
    <3> QED BY <3>1, <2>1, <1>1
  <2>3. CASE j = last
    <3>1. PICK m \in 1..Len(q) : q[m] = Eof(q[i].conn)
      BY <2>1, <2>3, <1>1, <1>4 DEF InQueue
    <3>2. q[m].type = "eof" /\ q[m].conn = q[i].conn
      BY <3>1, <2>1, EventFacts
    <3>3. ~(m < i)
      BY <3>2, <2>1 DEF QuietAfterEnd
    <3>4. m # i
      BY <3>2, <2>1
    <3>5. i < m /\ m < last
      BY <3>3, <3>4, <2>1, <1>1
    <3> QED BY <3>1, <3>5, <2>1, <2>3, <1>1
  <2> QED BY <2>2, <2>3, <1>1
<1>5. ASSUME NEW k, Behind(q, k), e.type = "data" => InQueue(Eof(k), q)
      PROVE  Behind(r, k)
  <2> SUFFICES ASSUME NEW i \in 1..Len(r), r[i].type = "data"
               PROVE  \E m \in 1..Len(r) : m < i /\ r[m] = Eof(k)
    BY DEF Behind
  <2>1. CASE i \in 1..Len(q)
    BY <2>1, <1>1, <1>5 DEF Behind
  <2>2. CASE i = last
    BY <2>2, <1>1, <1>5 DEF InQueue
  <2> QED BY <2>1, <2>2, <1>1
<1>6. \A f : InQueue(f, r) <=> (f = e \/ InQueue(f, q))
  BY <1>1 DEF InQueue
<1> QED BY <1>2, <1>3, <1>4, <1>5, <1>6 DEF r

-----------------------------------------------------------------------------
(* What the steps have in common.                                          *)

\* A step inside a session, as far as connections are concerned: no key is
\* typed, and what an end of the host has not read, and the session it is
\* counted in, change only by a stop or an adoption.
Kept ==
  /\ key' = key /\ sessions'[Host] = sessions[Host] /\ lost \subseteq lost'
  /\ \A k \in Connections :
       /\ era'[k]["host"] \in {era[k]["host"], sessions[Host]}
       /\ end[k]["host"] = "closed" => end'[k]["host"] = "closed"
       /\ wire'[k]["host"] \in {wire[k]["host"], <<>>}

\* Such a step, when the queue gets no new word, keeps all but RecordsOK.
LEMMA KeptParts ==
  ASSUME SessionInv, RecordsInv, Kept, queue'[Host] \in Seq(Events(Connections)),
         Keyed(queue'[Host], key, era), Once(queue'[Host]),
         \A e : InQueue(e, queue'[Host]) /\ e.type = "data" => InQueue(e, queue[Host]),
         \A k \in lost' : k \in lost \/ (k \in Connections /\ end'[k]["host"] = "closed")
  PROVE  /\ KeysOK' /\ HellosOK' /\ LostClosed'
         /\ ~LostEnd' => ~LostEnd
<1> DEFINE r == queue'[Host]
<1>1. /\ r \in Seq(Events(Connections)) /\ Keyed(r, key, era) /\ Once(r)
      /\ \A i \in 1..Len(r) : r[i].conn \in Connections /\ InQueue(r[i], r)
      /\ \A i \in 1..Len(r) : r[i].type = "data" => InQueue(r[i], queue[Host])
  <2>1. r \in Seq(Events(Connections)) /\ Keyed(r, key, era) /\ Once(r)
    OBVIOUS
  <2>2. \A i \in 1..Len(r) : InQueue(r[i], r)
    BY DEF InQueue
  <2> HIDE DEF r
  <2>3. \A i \in 1..Len(r) : r[i].conn \in Connections
    BY <2>1, EventFacts
  <2> QED BY <2>1, <2>2, <2>3 DEF r
<1> HIDE DEF r
<1>2. \A k \in Connections : key[k] <= sessions[Host]
  BY DEF RecordsInv, KeysOK
<1>3. \A k \in Connections : era'[k]["host"] \in {era[k]["host"], sessions[Host]}
  BY DEF Kept
<1>4. KeysOK'
  <2>1. \A i \in 1..Len(r) : key[r[i].conn] <= era'[r[i].conn]["host"]
    <3> TAKE i \in 1..Len(r)
    <3>1. r[i].conn \in Connections /\ key[r[i].conn] <= era[r[i].conn]["host"]
      BY <1>1 DEF Keyed
    <3> QED BY <3>1, <1>2, <1>3
  <2>2. Keyed(r, key, era')
    BY <2>1 DEF Keyed
  <2> QED BY <2>2, <1>2 DEF KeysOK, Kept, r
<1>5. HellosOK'
  <2>1. ASSUME NEW k \in Connections PROVE Unsaid(k)'
    <3>1. Unsaid(k) /\ wire'[k]["host"] \in {wire[k]["host"], <<>>}
      BY DEF RecordsInv, HellosOK, Kept
    <3>2. CASE wire[k]["host"] = <<>> \/ wire'[k]["host"] = <<>>
      BY <3>1, <3>2 DEF Unsaid
    <3>3. CASE wire[k]["host"] # <<>> /\ wire'[k]["host"] = wire[k]["host"]
      <4>1. \A i \in 1..Len(queue[Host]) :
              queue[Host][i].type = "data" => queue[Host][i].conn # k
        BY <3>1, <3>3 DEF Unsaid
      <4>2. ASSUME NEW i \in 1..Len(r), r[i].type = "data" PROVE r[i].conn # k
        <5>1. InQueue(r[i], queue[Host])
          BY <1>1, <4>2
        <5>2. PICK j \in 1..Len(queue[Host]) : queue[Host][j] = r[i]
          BY <5>1 DEF InQueue
        <5> QED BY <4>1, <4>2, <5>2
      <4> QED BY <3>1, <3>3, <4>2 DEF Unsaid, r
    <3> QED BY <3>1, <3>2, <3>3
  <2> QED BY <2>1, <1>1 DEF HellosOK, r
<1>6. LostClosed'
  BY DEF RecordsInv, LostClosed, Kept
<1>7. ASSUME LostEnd PROVE LostEnd'
  <2>1. PICK k \in lost : era[k]["host"] = sessions[Host]
    BY <1>7 DEF LostEnd
  <2>2. k \in Connections /\ k \in lost'
    BY <2>1 DEF RecordsInv, LostClosed, Kept
  <2>3. era'[k]["host"] = sessions'[Host]
    BY <2>1, <2>2 DEF Kept
  <2> QED BY <2>2, <2>3 DEF LostEnd
<1> QED BY <1>4, <1>5, <1>6, <1>7

\* The host's session is over.
LEMMA RecordsOver ==
  ASSUME SessionInv, RecordsInv, Kept, queue'[Host] \in Seq(Events(Connections)),
         Keyed(queue'[Host], key, era), Once(queue'[Host]),
         \A e : InQueue(e, queue'[Host]) /\ e.type = "data" => InQueue(e, queue[Host]),
         \A k \in lost' : k \in lost \/ (k \in Connections /\ end'[k]["host"] = "closed"),
         state'[Host] = "Idle", records' = <<>>
  PROVE  RecordsInv'
<1>1. KeysOK' /\ HellosOK' /\ LostClosed'
  BY KeptParts
<1> QED BY <1>1 DEF RecordsInv, RecordsOK

\* A session in which no end was lost, as the next lemmas need it.
LEMMA RecordsFacts ==
  ASSUME SessionInv, RecordsInv, ~LostEnd, state[Host] # "Idle"
  PROVE  /\ Apart(queue[Host], key, sessions[Host])
         /\ records = <<>> \/ (Len(records) = 1 /\ \E k \in Connections : OnRecord(k))
BY DEF RecordsInv, RecordsOK

\* Steps that leave the host's queue and transport alone.
LEMMA RecordsFrame ==
  ASSUME SessionInv, RecordsInv, Kept, queue'[Host] = queue[Host],
         transport'[Host] = transport[Host], lost' = lost, records' = records,
         state'[Host] = "Idle" <=> state[Host] = "Idle"
  PROVE  RecordsInv'
<1>1. queue[Host] \in Seq(Events(Connections))
  BY Constants DEF SessionInv, TypeOK
<1>2. KeysOK' /\ HellosOK' /\ LostClosed' /\ (~LostEnd' => ~LostEnd)
  BY <1>1, KeptParts DEF RecordsInv, KeysOK, HellosOK
<1>3. state'[Host] = "Idle" => records' = <<>>
  BY DEF RecordsInv, RecordsOK
<1>4. ASSUME state'[Host] # "Idle", ~LostEnd'
      PROVE  /\ Apart(queue'[Host], key', sessions'[Host])
             /\ records' = <<>> \/ (Len(records') = 1 /\ \E k \in Connections : OnRecord(k)')
  <2>1. /\ Apart(queue[Host], key, sessions[Host])
        /\ records = <<>> \/ (Len(records) = 1 /\ \E k \in Connections : OnRecord(k))
    BY <1>2, <1>4, RecordsFacts
  <2>2. ASSUME NEW k \in Connections, OnRecord(k) PROVE OnRecord(k)'
    <3>1. wire[k]["host"] = <<>> /\ wire'[k]["host"] = <<>>
      BY <2>2 DEF OnRecord, Kept
    <3> QED BY <2>2, <3>1 DEF OnRecord
  <2>3. Apart(queue'[Host], key', sessions'[Host])
    BY <2>1 DEF Kept
  <2> QED BY <2>1, <2>2, <2>3
<1> QED BY <1>2, <1>3, <1>4 DEF RecordsInv, RecordsOK

\* What is still said with the key of this session was said on its transport,
\* or the end of its connection is queued too.
LEMMA SaidTold ==
  ASSUME SessionInv, EndsOK, RecordsInv, ~LostEnd, NEW i \in 1..Len(queue[Host]),
         queue[Host][i].type = "data", key[queue[Host][i].conn] = sessions[Host]
  PROVE  LET k == queue[Host][i].conn IN
         k \in Connections /\ (transport[Host] = k \/ InQueue(Eof(k), queue[Host]))
<1> DEFINE q == queue[Host]
           e == q[i]
           k == e.conn
<1>1. q \in Seq(Events(Connections)) /\ FramesTold(q, transport[Host], lost)
  BY HostQueue
<1>2. e \in Events(Connections) /\ InQueue(e, q) /\ e.type = "data"
  BY <1>1 DEF InQueue
<1>3. Keyed(q, key, era) /\ Orderly(q, Host, joiner, era, sessions[Host])
  BY Constants DEF RecordsInv, KeysOK, SessionInv, QueuesOK
<1>4. k \in Connections /\ \E m \in Messages : e = Data(k, m)
  <2> HIDE DEF e
  <2> QED BY <1>2 DEF Events, Data
<1>5. key[k] <= era[k]["host"] /\ era[k]["host"] <= sessions[Host] /\ key[k] = sessions[Host]
  BY <1>3, Constants DEF Keyed, Orderly
<1>6. era[k]["host"] \in Nat /\ sessions[Host] \in Nat
  <2> HIDE DEF k
  <2> QED BY <1>4, Constants DEF SessionInv, TypeOK
<1>7. era[k]["host"] = sessions[Host]
  <2> HIDE DEF k
  <2> QED BY <1>5, <1>6
<1>8. k \notin lost
  BY <1>7 DEF LostEnd
<1>9. transport[Host] = k \/ k \in lost \/ InQueue(Eof(k), q)
  <2> HIDE DEF k, e, q
  <2> QED BY <1>1, <1>2, <1>4 DEF FramesTold
<1> QED BY <1>4, <1>8, <1>9

\* A wire with a hello is not empty.
LEMMA HelloIsSaid == <<Hello>> # <<>>
  OBVIOUS

\* A thread of the host posts an event: the adoption or the end of a
\* connection, or the hello of the transport.
LEMMA RecordsPost ==
  ASSUME SessionInv, EndsOK, RecordsInv, Kept, NEW e \in Events(Connections),
         queue'[Host] = Append(queue[Host], e), transport'[Host] = transport[Host],
         lost' = lost, records' = records, state'[Host] = "Idle" <=> state[Host] = "Idle",
         key[e.conn] <= era'[e.conn]["host"],
         e.type = "data" => /\ transport[Host] = e.conn
                            /\ wire[e.conn]["host"] = <<Hello>> /\ wire'[e.conn]["host"] = <<>>
  PROVE  RecordsInv'
<1> DEFINE q == queue[Host]
           r == Append(q, e)
           n == sessions[Host]
<1>1. /\ q \in Seq(Events(Connections)) /\ QuietAfterEnd(q) /\ e.conn \in Connections
      /\ Keyed(q, key, era) /\ Once(q)
  BY HostQueue, EventFacts DEF RecordsInv, KeysOK, HellosOK
<1>2. r \in Seq(Events(Connections)) /\ queue'[Host] = r
  BY <1>1, AppendFacts
<1>3. ASSUME e.type = "data", NEW i \in 1..Len(q), q[i].type = "data"
      PROVE  q[i].conn # e.conn
  <2>1. Unsaid(e.conn) /\ wire[e.conn]["host"] # <<>>
    BY <1>1, <1>3, HelloIsSaid DEF RecordsInv, HellosOK
  <2> QED BY <2>1, <1>3 DEF Unsaid
<1>4. Keyed(q, key, era')
  <2>1. ASSUME NEW i \in 1..Len(q) PROVE key[q[i].conn] <= era'[q[i].conn]["host"]
    <3>1. q[i].conn \in Connections /\ key[q[i].conn] <= era[q[i].conn]["host"]
      BY <1>1, EventFacts DEF Keyed
    <3>2. /\ era'[q[i].conn]["host"] \in {era[q[i].conn]["host"], sessions[Host]}
          /\ key[q[i].conn] <= sessions[Host]
      BY <3>1 DEF Kept, RecordsInv, KeysOK
    <3> QED BY <3>1, <3>2
  <2> QED BY <2>1 DEF Keyed
<1> HIDE DEF q, r, n
<1>5. /\ Keyed(q, key, era') /\ key[e.conn] <= era'[e.conn]["host"] => Keyed(r, key, era')
      /\ Once(q) /\ (e.type = "data" => \A i \in 1..Len(q) : q[i].type = "data" => q[i].conn # e.conn)
           => Once(r)
      /\ Apart(q, key, n)
         /\ (e.type = "data" => \A i \in 1..Len(q) :
               q[i].type = "data" /\ q[i].conn # e.conn /\ key[q[i].conn] = n =>
                 InQueue(Eof(q[i].conn), q))
           => Apart(r, key, n)
      /\ \A k : Behind(q, k) /\ (e.type = "data" => InQueue(Eof(k), q)) => Behind(r, k)
      /\ \A f : InQueue(f, r) <=> (f = e \/ InQueue(f, q))
  BY <1>1, AppendRecords DEF r
<1>6. Keyed(r, key, era') /\ Once(r)
  BY <1>1, <1>3, <1>4, <1>5
<1>7. KeysOK'
  <2>1. \A k \in Connections : key[k] <= sessions[Host]
    BY DEF RecordsInv, KeysOK
  <2> QED BY <1>2, <1>6, <2>1 DEF KeysOK, Kept
<1>8. HellosOK'
  <2>1. ASSUME NEW k \in Connections PROVE Unsaid(k)'
    <3>1. Unsaid(k) /\ wire'[k]["host"] \in {wire[k]["host"], <<>>}
      BY DEF RecordsInv, HellosOK, Kept
    <3>2. CASE wire[k]["host"] = <<>> \/ wire'[k]["host"] = <<>>
      BY <3>1, <3>2 DEF Unsaid
    <3>3. CASE wire[k]["host"] # <<>> /\ wire'[k]["host"] = wire[k]["host"] /\ wire'[k]["host"] # <<>>
      <4>1. \A i \in 1..Len(q) : q[i].type = "data" => q[i].conn # k
        BY <3>1, <3>3 DEF Unsaid, q
      <4>2. ASSUME NEW i \in 1..Len(r), r[i].type = "data" PROVE r[i].conn # k
        <5>1. InQueue(r[i], r)
          BY <4>2 DEF InQueue
        <5>2. r[i] = e \/ InQueue(r[i], q)
          BY <5>1, <1>5
        <5>3. CASE r[i] = e
          BY <3>3, <4>2, <5>3
        <5>4. CASE InQueue(r[i], q)
          <6>1. PICK j \in 1..Len(q) : q[j] = r[i]
            BY <5>4 DEF InQueue
          <6> QED BY <6>1, <4>1, <4>2
        <5> QED BY <5>2, <5>3, <5>4
      <4> QED BY <3>1, <3>3, <4>2, <1>2 DEF Unsaid
    <3> QED BY <3>1, <3>2, <3>3
  <2> QED BY <2>1, <1>2, <1>6 DEF HellosOK
<1>9. LostClosed'
  BY DEF RecordsInv, LostClosed, Kept
<1>10. LostEnd => LostEnd'
  <2>1. \A k \in lost : era[k]["host"] = sessions[Host] => era'[k]["host"] = sessions'[Host]
    BY DEF RecordsInv, LostClosed, Kept
  <2> QED BY <2>1 DEF LostEnd
<1>11. ASSUME state'[Host] # "Idle", ~LostEnd'
       PROVE  /\ Apart(queue'[Host], key', sessions'[Host])
              /\ records' = <<>> \/ (Len(records') = 1 /\ \E k \in Connections : OnRecord(k)')
  <2>1. /\ Apart(q, key, n) /\ ~LostEnd
        /\ records = <<>> \/ (Len(records) = 1 /\ \E k \in Connections : OnRecord(k))
    BY <1>10, <1>11, RecordsFacts DEF q, n
  <2>2. ASSUME e.type = "data", NEW i \in 1..Len(q), q[i].type = "data", q[i].conn # e.conn,
               key[q[i].conn] = n
        PROVE  InQueue(Eof(q[i].conn), q)
    BY <2>1, <2>2, SaidTold DEF q, n
  <2>3. Apart(r, key, n)
    BY <1>5, <2>1, <2>2
  <2>4. ASSUME NEW k \in Connections, OnRecord(k) PROVE OnRecord(k)'
    <3>1. wire[k]["host"] = <<>> /\ wire'[k]["host"] = <<>>
      BY <2>4 DEF OnRecord, Kept
    <3>2. /\ transport[Host] = k \/ InQueue(Eof(k), q)
          /\ Behind(q, k)
      BY <2>4 DEF OnRecord, q
    <3>3. e.type = "data" => InQueue(Eof(k), q)
      BY <3>1, <3>2, HelloIsSaid
    <3>4. Behind(r, k) /\ (InQueue(Eof(k), q) => InQueue(Eof(k), r))
      BY <1>5, <3>2, <3>3
    <3> QED BY <1>2, <3>1, <3>2, <3>4 DEF OnRecord
  <2>5. key' = key /\ sessions'[Host] = n
    BY DEF Kept, n
  <2> QED BY <1>2, <2>1, <2>3, <2>4, <2>5
<1>12. state'[Host] = "Idle" => records' = <<>>
  BY DEF RecordsInv, RecordsOK
<1> QED BY <1>7, <1>8, <1>9, <1>11, <1>12 DEF RecordsInv, RecordsOK

\* The host runs an event that is not an end, or has no session, and stops no
\* transport.
LEMMA RecordsDrop ==
  ASSUME SessionInv, RecordsInv, Kept, queue[Host] # <<>>,
         queue'[Host] = Rest(Host), transport'[Host] = transport[Host],
         lost' = lost, records' = records, state'[Host] = state[Host],
         Head(queue[Host]).type # "eof" \/ state[Host] = "Idle"
  PROVE  RecordsInv'
<1> DEFINE q == queue[Host]
           r == Tail(q)
           n == sessions[Host]
<1>1. q \in Seq(Events(Connections)) /\ q # <<>> /\ Keyed(q, key, era) /\ Once(q)
  BY Constants DEF RecordsInv, KeysOK, HellosOK, SessionInv, TypeOK
<1>2. queue'[Host] = r
  BY DEF Rest
<1> HIDE DEF q, n
<1>3. /\ Keyed(r, key, era) /\ Once(r) /\ r \in Seq(Events(Connections))
      /\ Apart(q, key, n) => Apart(r, key, n)
      /\ \A k : Behind(q, k) /\ Head(q) # Eof(k) => Behind(r, k)
  BY <1>1, TailRecords, TailFacts
<1>4. \A f : InQueue(f, q) <=> f = Head(q) \/ InQueue(f, r)
  BY Constants, DropFacts DEF Rest, q
<1> HIDE DEF r
<1>5. KeysOK' /\ HellosOK' /\ LostClosed' /\ (~LostEnd' => ~LostEnd)
  <2>1. \A k \in lost' : k \in lost
    OBVIOUS
  <2>2. \A f : InQueue(f, queue'[Host]) => InQueue(f, queue[Host])
    BY <1>2, <1>4 DEF q
  <2> QED BY <1>2, <1>3, <2>1, <2>2, KeptParts
<1>6. state'[Host] = "Idle" => records' = <<>>
  BY DEF RecordsInv, RecordsOK
<1>7. ASSUME state'[Host] # "Idle", ~LostEnd'
      PROVE  /\ Apart(queue'[Host], key', sessions'[Host])
             /\ records' = <<>> \/ (Len(records') = 1 /\ \E k \in Connections : OnRecord(k)')
  <2>1. /\ Apart(q, key, n)
        /\ records = <<>> \/ (Len(records) = 1 /\ \E k \in Connections : OnRecord(k))
    BY <1>5, <1>7, RecordsFacts DEF q, n
  <2>2. ASSUME NEW k \in Connections, OnRecord(k) PROVE OnRecord(k)'
    <3>1. wire[k]["host"] = <<>> /\ wire'[k]["host"] = <<>>
      BY <2>2 DEF OnRecord, Kept
    <3>2. /\ transport[Host] = k \/ InQueue(Eof(k), q)
          /\ Behind(q, k)
      BY <2>2 DEF OnRecord, q
    <3>3. Head(q) # Eof(k)
      BY <1>7, EventFacts DEF q
    <3> QED BY <1>2, <1>3, <1>4, <3>1, <3>2, <3>3 DEF OnRecord
  <2>3. key' = key /\ sessions'[Host] = n
    BY DEF Kept, n
  <2> QED BY <1>2, <1>3, <2>1, <2>2, <2>3
<1> QED BY <1>5, <1>6, <1>7 DEF RecordsInv, RecordsOK

\* The host runs an event that is not an end, and stops its transport: the
\* thread that is joined posts the end, has posted it, or the end is lost.
LEMMA RecordsStop ==
  ASSUME SessionInv, EndsOK, RecordsInv, Kept, queue[Host] # <<>>,
         NEW words \in LastWords(transport[Host], "host"),
         queue'[Host] = Rest(Host) \o words,
         lost' = lost \cup Unnoticed(transport[Host], words),
         transport[Host] # NoTransport => end'[transport[Host]]["host"] = "closed",
         records' = records, state' = state,
         Head(queue[Host]).type # "eof"
  PROVE  RecordsInv'
<1> DEFINE q == queue[Host]
           r == Tail(q)
           old == transport[Host]
           n == sessions[Host]
<1>1. /\ q \in Seq(Events(Connections)) /\ q # <<>> /\ Keyed(q, key, era) /\ Once(q)
      /\ old \in Connections \cup {NoTransport} /\ QuietAfterEnd(r)
  BY HostQueue DEF RecordsInv, KeysOK, HellosOK, Rest
<1>2. queue'[Host] = r \o words
  BY DEF Rest
<1>3. old # NoTransport => era[old]["host"] = n
  BY Constants DEF SessionInv, TransportsOK
<1>4. old # NoTransport /\ end[old]["host"] = "posted" => InQueue(Eof(old), q)
  BY <1>1 DEF EndsOK
<1>5. /\ words = <<>> \/ (old # NoTransport /\ words = <<Eof(old)>>)
      /\ words = <<>> /\ old # NoTransport => end[old]["host"] = "posted" \/ old \in lost'
      /\ \A k \in lost' : k \in lost \/ (k \in Connections /\ end'[k]["host"] = "closed")
  <2>1. words = <<>> \/ (old # NoTransport /\ words = <<Eof(old)>>)
    BY DEF LastWords
  <2>2. words = <<>> /\ old # NoTransport => end[old]["host"] = "posted" \/ old \in lost'
    BY DEF Unnoticed
  <2>3. \A k \in Unnoticed(old, words) : k = old /\ old # NoTransport
    BY DEF Unnoticed
  <2>4. \A k \in lost' : k \in lost \/ (k \in Connections /\ end'[k]["host"] = "closed")
    BY <1>1, <2>3
  <2> QED BY <2>1, <2>2, <2>4
<1> HIDE DEF q, n, old
<1>6. /\ Keyed(r, key, era) /\ Once(r) /\ r \in Seq(Events(Connections))
      /\ Apart(q, key, n) => Apart(r, key, n)
      /\ \A k : Behind(q, k) /\ Head(q) # Eof(k) => Behind(r, k)
  BY <1>1, TailRecords, TailFacts
<1>7. \A f : InQueue(f, q) <=> f = Head(q) \/ InQueue(f, r)
  BY Constants, DropFacts DEF Rest, q
<1> HIDE DEF r
<1> DEFINE w == r \o words
<1>8. /\ Keyed(w, key, era) /\ Once(w) /\ w \in Seq(Events(Connections))
      /\ Apart(r, key, n) => Apart(w, key, n)
      /\ \A k : Behind(r, k) => Behind(w, k)
      /\ \A f : InQueue(f, r) => InQueue(f, w)
      /\ \A f : InQueue(f, w) /\ f.type = "data" => InQueue(f, r)
      /\ words # <<>> => InQueue(Eof(old), w)
  <2>1. CASE words = <<>>
    BY <1>6, <2>1, WordsFacts
  <2>2. CASE old # NoTransport /\ words = <<Eof(old)>>
    <3> DEFINE e == Eof(old)
    <3>1. e \in Events(Connections) /\ e.type = "eof" /\ e.conn = old /\ old \in Connections
      BY <1>1, <2>2, EventFacts
    <3> HIDE DEF e
    <3>2. w = Append(r, e)
      BY <1>6, <2>2, <3>1, WordsFacts DEF e
    <3>3. e.type # "data" /\ key[e.conn] <= era[e.conn]["host"]
      BY <1>3, <3>1, <2>2 DEF RecordsInv, KeysOK, n
    <3> HIDE DEF w
    <3>4. /\ Keyed(w, key, era) /\ Once(w)
          /\ Apart(r, key, n) => Apart(w, key, n)
          /\ \A k : Behind(r, k) => Behind(w, k)
          /\ \A f : InQueue(f, w) <=> (f = e \/ InQueue(f, r))
      BY <1>1, <1>6, <3>1, <3>2, <3>3, AppendRecords
    <3>5. w \in Seq(Events(Connections))
      BY <1>6, <3>1, <3>2, AppendFacts
    <3> QED BY <3>3, <3>4, <3>5 DEF e
  <2> QED BY <1>5, <2>1, <2>2
<1> HIDE DEF w
<1>9. queue'[Host] = w
  BY <1>2 DEF w
<1>10. KeysOK' /\ HellosOK' /\ LostClosed' /\ (~LostEnd' => ~LostEnd)
  <2>1. \A f : InQueue(f, queue'[Host]) /\ f.type = "data" => InQueue(f, queue[Host])
    BY <1>7, <1>8, <1>9 DEF q
  <2> QED BY <1>5, <1>8, <1>9, <2>1, KeptParts
<1>11. state'[Host] = "Idle" => records' = <<>>
  BY DEF RecordsInv, RecordsOK
<1>12. ASSUME state'[Host] # "Idle", ~LostEnd'
       PROVE  /\ Apart(queue'[Host], key', sessions'[Host])
              /\ records' = <<>> \/ (Len(records') = 1 /\ \E k \in Connections : OnRecord(k)')
  <2>1. /\ Apart(q, key, n)
        /\ records = <<>> \/ (Len(records) = 1 /\ \E k \in Connections : OnRecord(k))
    BY <1>10, <1>12, RecordsFacts DEF q, n
  <2>2. ASSUME old # NoTransport PROVE InQueue(Eof(old), w)
    <3>1. CASE words # <<>>
      BY <1>8, <3>1
    <3>2. CASE words = <<>> /\ old \in lost'
      <4>1. era'[old]["host"] = sessions'[Host]
        BY <1>1, <1>3, <2>2 DEF Kept, n
      <4> QED BY <1>12, <3>2, <4>1 DEF LostEnd
    <3>3. CASE end[old]["host"] = "posted"
      <4>1. Head(q) # Eof(old)
        BY <1>1, <2>2, EventFacts DEF q
      <4> QED BY <1>4, <1>7, <1>8, <2>2, <3>3, <4>1
    <3> QED BY <1>5, <2>2, <3>1, <3>2, <3>3
  <2>3. ASSUME NEW k \in Connections, OnRecord(k) PROVE OnRecord(k)'
    <3>1. wire[k]["host"] = <<>> /\ wire'[k]["host"] = <<>>
      BY <2>3 DEF OnRecord, Kept
    <3>2. /\ old = k \/ InQueue(Eof(k), q)
          /\ Behind(q, k)
      BY <2>3 DEF OnRecord, q, old
    <3>3. Head(q) # Eof(k) /\ k # NoTransport
      BY EventFacts, Constants DEF q
    <3>4. InQueue(Eof(k), w)
      BY <1>7, <1>8, <2>2, <3>2, <3>3
    <3>5. Behind(w, k)
      BY <1>6, <1>8, <3>2, <3>3
    <3> QED BY <1>9, <3>1, <3>4, <3>5 DEF OnRecord
  <2>4. key' = key /\ sessions'[Host] = n
    BY DEF Kept, n
  <2> QED BY <1>6, <1>8, <1>9, <2>1, <2>3, <2>4
<1> QED BY <1>10, <1>11, <1>12 DEF RecordsInv, RecordsOK

-----------------------------------------------------------------------------
(* The actions.                                                            *)

\* What a stop, an answer or a reset leave of the host's ends and of what they
\* have not read.
LEMMA HostEnds ==
  ASSUME SessionInv, NEW S, NEW s \in Sides
  PROVE  \A j \in Connections :
           /\ Stopped(end, S, s, "closed")[j]["host"] \in {end[j]["host"], "closed"}
           /\ Stopped(wire, S, s, <<>>)[j]["host"] \in {wire[j]["host"], <<>>}
           /\ \A m \in Messages :
                /\ Sent(wire, Host, m)[j]["host"] = wire[j]["host"]
                /\ Stopped(Sent(wire, Host, m), S, s, <<>>)[j]["host"] \in {wire[j]["host"], <<>>}
<1> TAKE j \in Connections
<1>1. wire \in [Connections -> [Sides -> Seq(Messages)]] /\ <<>> \in Seq(Messages)
  BY DEF SessionInv, TypeOK
<1>2. "host" \in Sides /\ "peer" \in Sides /\ Side(Host) = "host"
  BY Constants
<1>3. Stopped(end, S, s, "closed")[j]["host"] \in {end[j]["host"], "closed"}
  BY <1>2, StoppedEnds
<1>4. ASSUME NEW f \in [Connections -> [Sides -> Seq(Messages)]]
      PROVE  Stopped(f, S, s, <<>>)[j]["host"] \in {f[j]["host"], <<>>}
  <2>1. f[j] \in [Sides -> Seq(Messages)]
    BY <1>4
  <2>2. Stopped(f, S, s, <<>>)[j] = IF j \in S THEN [f[j] EXCEPT ![s] = <<>>] ELSE f[j]
    BY DEF Stopped
  <2> QED BY <2>1, <2>2, <1>2
<1>5. ASSUME NEW m \in Messages
      PROVE  Sent(wire, Host, m)[j]["host"] = wire[j]["host"]
  <2>1. CASE Sent(wire, Host, m) = wire
    BY <2>1
  <2>2. CASE Sent(wire, Host, m) = [wire EXCEPT ![transport[Host]]["peer"] = Append(@, m)]
    BY <1>1, <1>2, <2>2
  <2> QED BY <2>1, <2>2, <1>2 DEF Sent, Other
<1>6. \A m \in Messages : Sent(wire, Host, m) \in [Connections -> [Sides -> Seq(Messages)]]
  BY Constants, SentFacts
<1> QED BY <1>1, <1>3, <1>4, <1>5, <1>6

\* disconnect() at either side.
LEMMA RecordsDisconnected ==
  ASSUME SessionInv, EndsOK, RecordsInv, NEW c \in Clients,
         Disconnected(c, queue[c]) \/ (queue[c] # <<>> /\ Disconnected(c, Rest(c)))
  PROVE  RecordsInv'
<1>1. PICK rest \in {queue[c], Tail(queue[c])} :
        Disconnected(c, rest) /\ (rest = queue[c] \/ queue[c] # <<>>)
  BY DEF Rest
<1> DEFINE k == transport[c]
           closing == {k} \cup IF c = Host THEN {backlog[i] : i \in DOMAIN backlog} ELSE {}
<1>2. PICK words \in LastWords(k, Side(c)) :
        /\ state' = [state EXCEPT ![c] = "Idle"]
        /\ transport' = [transport EXCEPT ![c] = NoTransport]
        /\ queue' = [queue EXCEPT ![c] = rest \o words]
        /\ end' = Stopped(end, closing, Side(c), "closed")
        /\ wire' = Stopped(wire, closing, Side(c), <<>>)
        /\ records' = IF c = Host THEN <<>> ELSE records
        /\ lost' = IF c = Host THEN lost \cup Unnoticed(k, words) ELSE lost
        /\ UNCHANGED <<key, sessions, era>>
  BY <1>1 DEF Disconnected
<1>3. Side(c) \in Sides /\ Side(Host) = "host" /\ "host" \in Sides /\ k \in closing
  BY Constants
<1>4. c = Host /\ k # NoTransport => k \in Connections /\ end'[k]["host"] = "closed"
  <2>1. k # NoTransport => k \in Connections
    BY DEF SessionInv, TypeOK
  <2> QED BY <1>2, <1>3, <2>1, StoppedEnds
<1> HIDE DEF closing
<1>5. Kept
  <2>1. \A j \in Connections :
          /\ end'[j]["host"] \in {end[j]["host"], "closed"}
          /\ wire'[j]["host"] \in {wire[j]["host"], <<>>}
    BY <1>2, <1>3, HostEnds
  <2>2. lost \subseteq lost'
    BY <1>2
  <2> QED BY <1>2, <2>1, <2>2 DEF Kept
<1>6. CASE c # Host
  <2>1. /\ queue'[Host] = queue[Host] /\ transport'[Host] = transport[Host]
        /\ state'[Host] = state[Host] /\ lost' = lost /\ records' = records
    BY <1>2, <1>6, Constants DEF SessionInv, TypeOK
  <2> QED BY <1>5, <2>1, RecordsFrame
<1>7. CASE c = Host
  <2> DEFINE w == rest \o words
  <2>1. /\ state'[Host] = "Idle" /\ records' = <<>> /\ queue'[Host] = w
        /\ lost' = lost \cup Unnoticed(k, words)
    BY <1>2, <1>7, Constants DEF SessionInv, TypeOK
  <2>2. \A j \in lost' : j \in lost \/ (j \in Connections /\ end'[j]["host"] = "closed")
    BY <1>4, <1>7, <2>1 DEF Unnoticed
  <2>3. /\ Keyed(rest, key, era) /\ Once(rest) /\ rest \in Seq(Events(Connections))
        /\ QuietAfterEnd(rest) /\ \A f : InQueue(f, rest) => InQueue(f, queue[Host])
    <3> DEFINE q == queue[Host]
    <3>1. /\ q \in Seq(Events(Connections)) /\ Keyed(q, key, era) /\ Once(q) /\ QuietAfterEnd(q)
          /\ q # <<>> => /\ QuietAfterEnd(Tail(q)) /\ Tail(q) \in Seq(Events(Connections))
                         /\ \A f : InQueue(f, Tail(q)) => InQueue(f, q)
      BY HostQueue DEF RecordsInv, KeysOK, HellosOK, Rest
    <3> HIDE DEF q
    <3>2. q # <<>> => Keyed(Tail(q), key, era) /\ Once(Tail(q))
      BY <3>1, TailRecords
    <3> QED BY <1>1, <1>7, <3>1, <3>2 DEF q
  <2>4. words = <<>> \/ (k # NoTransport /\ words = <<Eof(k)>>)
    BY DEF LastWords
  <2>5. /\ Keyed(w, key, era) /\ Once(w) /\ w \in Seq(Events(Connections))
        /\ \A f : InQueue(f, w) /\ f.type = "data" => InQueue(f, queue[Host])
    <3>1. CASE words = <<>>
      BY <2>3, <3>1, WordsFacts
    <3>2. CASE k # NoTransport /\ words = <<Eof(k)>>
      <4> DEFINE e == Eof(k)
      <4>1. k \in Connections
        BY <1>4, <1>7, <3>2
      <4>2. era[k]["host"] = sessions[Host]
        BY <1>7, <3>2, Constants DEF SessionInv, TransportsOK
      <4> HIDE DEF k
      <4>3. e \in Events(Connections) /\ e.type = "eof" /\ e.conn = k
        BY <4>1, EventFacts
      <4>4. key[e.conn] <= era[e.conn]["host"]
        BY <4>1, <4>2, <4>3 DEF RecordsInv, KeysOK
      <4> HIDE DEF e
      <4>5. w = Append(rest, e)
        BY <2>3, <3>2, <4>3, WordsFacts DEF e
      <4> HIDE DEF w
      <4>6. /\ Keyed(w, key, era) /\ Once(w)
            /\ \A f : InQueue(f, w) <=> (f = e \/ InQueue(f, rest))
        BY <2>3, <4>3, <4>4, <4>5, AppendRecords
      <4>7. w \in Seq(Events(Connections))
        BY <2>3, <4>3, <4>5, AppendFacts
      <4> QED BY <2>3, <4>3, <4>6, <4>7
    <3> QED BY <2>4, <3>1, <3>2
  <2> HIDE DEF w
  <2> QED BY <1>5, <2>1, <2>2, <2>5, RecordsOver
<1> QED BY <1>6, <1>7

\* The host accepts a hello: nobody is on record, since a peer's record and
\* what is still said would have an end between them.
LEMMA RecordsHello ==
  ASSUME SessionInv, EndsOK, RecordsInv, NEW k \in Connections, handleHostHello(k)
  PROVE  RecordsInv'
<1> DEFINE q == queue[Host]
           r == Tail(q)
           h == Data(k, Hello)
           n == sessions[Host]
<1>1. /\ q # <<>> /\ Head(q) = h /\ state[Host] # "Idle" /\ key[k] = n
      /\ wire' = Sent(wire, Host, Accepted) /\ records' = Append(records, joiner[k])
      /\ queue' = [queue EXCEPT ![Host] = Rest(Host)]
      /\ state' = [state EXCEPT ![Host] = "Connected"]
      /\ UNCHANGED <<transport, end, key, sessions, era, lost>>
  BY DEF handleHostHello, HelloFrom, First, Dropped
<1>2. /\ q \in Seq(Events(Connections)) /\ Keyed(q, key, era) /\ Once(q)
      /\ queue'[Host] = r /\ state'[Host] = "Connected"
  BY <1>1, HostQueue, Constants DEF RecordsInv, KeysOK, HellosOK, Rest, SessionInv, TypeOK
<1>3. h.type = "data" /\ h.conn = k
  BY EventFacts DEF Messages
<1>4. 1 \in 1..Len(q) /\ q[1] = h
  BY <1>1, <1>2, TailFacts
<1>5. \A j \in Connections : wire'[j]["host"] = wire[j]["host"]
  BY <1>1, HostEnds, Constants DEF Messages
<1>6. Kept
  BY <1>1, <1>5 DEF Kept
<1> HIDE DEF q, h, n
<1>7. /\ Keyed(r, key, era) /\ Once(r) /\ r \in Seq(Events(Connections))
      /\ Apart(q, key, n) => Apart(r, key, n)
      /\ \A j : Behind(q, j) => Head(q).type # "data"
      /\ Once(q) /\ Apart(q, key, n) /\ Head(q).type = "data" /\ key[Head(q).conn] = n
           => Behind(r, Head(q).conn)
  BY <1>1, <1>2, TailRecords, TailFacts
<1>8. \A f : InQueue(f, q) <=> f = h \/ InQueue(f, r)
  BY <1>1, Constants, DropFacts DEF Rest, q
<1> HIDE DEF r
<1>9. KeysOK' /\ HellosOK' /\ LostClosed' /\ (~LostEnd' => ~LostEnd)
  <2>1. \A f : InQueue(f, queue'[Host]) => InQueue(f, queue[Host])
    BY <1>2, <1>8 DEF q
  <2> QED BY <1>1, <1>2, <1>6, <1>7, <2>1, KeptParts
<1>10. ASSUME ~LostEnd'
       PROVE  /\ Apart(queue'[Host], key', sessions'[Host])
              /\ Len(records') = 1 /\ OnRecord(k)'
  <2>1. /\ Apart(q, key, n) /\ ~LostEnd
        /\ records = <<>> \/ (Len(records) = 1 /\ \E j \in Connections : OnRecord(j))
    BY <1>1, <1>9, <1>10, RecordsFacts DEF q, n
  <2>2. \A j \in Connections : ~OnRecord(j)
    BY <1>1, <1>3, <1>7 DEF OnRecord, q
  <2>3. Len(records') = 1
    BY <1>1, <2>1, <2>2
  <2>4. wire'[k]["host"] = <<>>
    BY <1>3, <1>4, <1>5 DEF RecordsInv, HellosOK, Unsaid, q
  <2>5. transport'[Host] = k \/ InQueue(Eof(k), r)
    <3>1. transport[Host] = k \/ InQueue(Eof(k), q)
      BY <1>1, <1>3, <1>4, <2>1, SaidTold DEF q, n
    <3>2. Eof(k) # h
      BY <1>3, EventFacts
    <3> QED BY <1>1, <1>8, <3>1, <3>2
  <2>6. Behind(r, k)
    BY <1>1, <1>2, <1>3, <1>7, <2>1
  <2>7. key' = key /\ sessions'[Host] = n
    BY <1>1 DEF n
  <2> QED BY <1>2, <1>7, <2>1, <2>3, <2>4, <2>5, <2>6, <2>7 DEF OnRecord
<1> QED BY <1>2, <1>9, <1>10 DEF RecordsInv, RecordsOK

\* A session of the host begins: no key is its key yet, and nobody on record.
LEMMA RecordsBegin ==
  ASSUME SessionInv, RecordsInv, startHost
  PROVE  RecordsInv'
<1>1. /\ state[Host] = "Idle" /\ sessions' = [sessions EXCEPT ![Host] = @ + 1]
      /\ UNCHANGED <<transport, queue, end, wire, key, records, era, lost>>
  BY DEF startHost
<1>2. sessions[Host] \in Nat /\ sessions'[Host] = sessions[Host] + 1
  BY <1>1, Constants DEF SessionInv, TypeOK
<1>3. \A k \in Connections : key[k] \in Nat /\ key[k] <= sessions[Host]
  BY Constants DEF RecordsInv, KeysOK, SessionInv, TypeOK
<1>4. KeysOK'
  <2>1. \A k \in Connections : key'[k] <= sessions'[Host]
    BY <1>1, <1>2, <1>3
  <2> QED BY <1>1, <2>1 DEF RecordsInv, KeysOK
<1>5. HellosOK' /\ LostClosed'
  BY <1>1 DEF RecordsInv, HellosOK, Unsaid, LostClosed
<1>6. Apart(queue[Host], key, sessions'[Host])
  <2>1. queue[Host] \in Seq(Events(Connections))
    BY Constants DEF SessionInv, TypeOK
  <2>2. \A i \in 1..Len(queue[Host]) : queue[Host][i].conn \in Connections
    BY <2>1, EventFacts
  <2>3. \A k \in Connections : key[k] # sessions'[Host]
    BY <1>2, <1>3
  <2> QED BY <2>2, <2>3 DEF Apart
<1>7. records' = <<>>
  BY <1>1 DEF RecordsInv, RecordsOK
<1> QED BY <1>1, <1>4, <1>5, <1>6, <1>7 DEF RecordsInv, RecordsOK

\* A peer connects and says hello: its connection is new to the host.
LEMMA RecordsJoin ==
  ASSUME SessionInv, RecordsInv, NEW p \in Peers, joinAsPeer(p)
  PROVE  RecordsInv'
<1> DEFINE ends == [host |-> "open", peer |-> "reading"]
<1>0. PICK k : k = Cardinality(Made) + 1
  OBVIOUS
<1>1. PICK typed \in {0, sessions[Host]} :
        /\ transport' = [transport EXCEPT ![p] = k]
        /\ end' = [end EXCEPT ![k] = ends]
        /\ wire' = [wire EXCEPT ![k]["host"] = <<Hello>>]
        /\ key' = [key EXCEPT ![k] = typed]
        /\ era' = [era EXCEPT ![k]["peer"] = sessions[p] + 1]
        /\ state' = [state EXCEPT ![p] = "Joining"]
        /\ sessions' = [sessions EXCEPT ![p] = @ + 1]
        /\ UNCHANGED <<queue, records, lost>>
  BY <1>0 DEF joinAsPeer
<1>2. k \in Connections /\ joiner[k] = Host
  BY <1>0, NextConnection DEF joinAsPeer
<1> DEFINE q == queue[Host]
           n == sessions[Host]
<1>3. /\ transport'[Host] = transport[Host] /\ state'[Host] = state[Host]
      /\ sessions'[Host] = n /\ n \in Nat /\ queue' = queue
  BY <1>1, Constants DEF SessionInv, TypeOK
<1>4. /\ key'[k] \in {0, n} /\ wire'[k]["host"] = <<Hello>>
      /\ \A j \in Connections : j # k => /\ key'[j] = key[j] /\ wire'[j]["host"] = wire[j]["host"]
                                         /\ end'[j] = end[j]
      /\ \A j \in Connections : era'[j]["host"] = era[j]["host"]
  <2>1. key \in [Connections -> 0..MaxSessions[Host]] /\ end \in [Connections -> [Sides -> EndStates]]
    BY DEF SessionInv, TypeOK, EndStates
  <2>2. /\ wire \in [Connections -> [Sides -> Seq(Messages)]]
        /\ era \in [Connections -> [Sides -> Nat]]
    BY DEF SessionInv, TypeOK
  <2> QED BY <1>1, <1>2, <2>1, <2>2, Constants
<1>5. \A e : InQueue(e, q) => e.conn \in Connections /\ e.conn # k
  <2>1. Orderly(q, Host, joiner, era, n)
    BY Constants DEF SessionInv, QueuesOK
  <2>2. q \in Seq(Events(Connections)) /\ \A i \in 1..Len(q) : joiner[q[i].conn] # Host
    BY <2>1 DEF Orderly
  <2> HIDE DEF q
  <2> QED BY <1>2, <2>2, EventFacts DEF InQueue
<1>6. \A i \in 1..Len(q) : q[i].conn \in Connections /\ q[i].conn # k
  BY <1>5 DEF InQueue
<1>7. k \notin lost /\ transport[Host] # k
  <2>1. end[k]["host"] = "none"
    BY <1>2, Constants DEF SessionInv, UnmadeOK
  <2>2. transport[Host] # k
    BY <1>2, Constants DEF SessionInv, TransportsOK
  <2> QED BY <2>1, <2>2 DEF RecordsInv, LostClosed
<1> HIDE DEF q, n
<1>8. KeysOK'
  <2>1. \A j \in Connections : key'[j] <= n
    BY <1>3, <1>4 DEF RecordsInv, KeysOK, n
  <2>2. Keyed(q, key', era')
    BY <1>4, <1>6 DEF RecordsInv, KeysOK, Keyed, q
  <2> QED BY <1>3, <2>1, <2>2 DEF KeysOK, q, n
<1>9. HellosOK'
  <2>1. Unsaid(k)'
    <3>1. queue'[Host] = q
      BY <1>3 DEF q
    <3>2. \A i \in 1..Len(queue'[Host]) : queue'[Host][i].conn # k
      BY <1>6, <3>1
    <3> QED BY <1>4, <3>2 DEF Unsaid
  <2>2. ASSUME NEW j \in Connections, j # k PROVE Unsaid(j)'
    <3>1. Unsaid(j)
      BY DEF RecordsInv, HellosOK
    <3>2. wire'[j]["host"] = wire[j]["host"]
      BY <1>4, <2>2
    <3> QED BY <1>3, <3>1, <3>2 DEF Unsaid
  <2> QED BY <1>3, <2>1, <2>2 DEF RecordsInv, HellosOK
<1>10. LostClosed' /\ (LostEnd => LostEnd')
  <2>1. LostClosed'
    BY <1>1, <1>4, <1>7 DEF RecordsInv, LostClosed
  <2>2. LostEnd => LostEnd'
    BY <1>1, <1>3, <1>4 DEF RecordsInv, LostClosed, LostEnd, n
  <2> QED BY <2>1, <2>2
<1>11. ASSUME state'[Host] # "Idle", ~LostEnd'
       PROVE  /\ Apart(queue'[Host], key', sessions'[Host])
              /\ records' = <<>> \/ (Len(records') = 1 /\ \E j \in Connections : OnRecord(j)')
  <2>1. /\ Apart(q, key, n)
        /\ records = <<>> \/ (Len(records) = 1 /\ \E j \in Connections : OnRecord(j))
    BY <1>3, <1>10, <1>11, RecordsFacts DEF q, n
  <2>2. Apart(q, key', n)
    BY <1>4, <1>6, <2>1 DEF Apart
  <2>3. ASSUME NEW j \in Connections, OnRecord(j) PROVE OnRecord(j)'
    <3>1. j # k
      BY <1>5, <1>7, <2>3, EventFacts DEF OnRecord, q
    <3> QED BY <1>3, <1>4, <2>3, <3>1 DEF OnRecord
  <2> QED BY <1>1, <1>3, <2>1, <2>2, <2>3 DEF q
<1>12. state'[Host] = "Idle" => records' = <<>>
  BY <1>1, <1>3 DEF RecordsInv, RecordsOK
<1> QED BY <1>8, <1>9, <1>10, <1>11, <1>12 DEF RecordsInv, RecordsOK

\* A crash: the host's session is over, or a peer's.
LEMMA RecordsCrash ==
  ASSUME SessionInv, EndsOK, RecordsInv, NEW c \in Clients, crash(c)
  PROVE  RecordsInv'
<1> DEFINE mine == {k \in Made : c \in {Host, joiner[k]}}
<1>1. /\ end' = Stopped(end, mine, Side(c), "closed")
      /\ wire' = Stopped(wire, mine, Side(c), <<>>)
      /\ lost' = IF c = Host THEN lost \cup {k \in mine : end[k]["host"] # "closed"} ELSE lost
      /\ state' = [state EXCEPT ![c] = "Idle"]
      /\ transport' = [transport EXCEPT ![c] = NoTransport]
      /\ queue' = [queue EXCEPT ![c] = <<>>]
      /\ records' = IF c = Host THEN <<>> ELSE records
      /\ UNCHANGED <<key, sessions, era>>
  BY DEF crash
<1>2. mine \subseteq Connections
  BY DEF Made
<1> HIDE DEF mine
<1>3. Side(c) \in Sides /\ Side(Host) = "host" /\ "host" \in Sides
  BY Constants
<1>4. \A j \in Connections :
        /\ end'[j]["host"] \in {end[j]["host"], "closed"}
        /\ wire'[j]["host"] \in {wire[j]["host"], <<>>}
  BY <1>1, <1>3, HostEnds
<1>5. Kept
  BY <1>1, <1>4 DEF Kept
<1>6. CASE c # Host
  <2>1. /\ queue'[Host] = queue[Host] /\ transport'[Host] = transport[Host]
        /\ state'[Host] = state[Host] /\ lost' = lost /\ records' = records
    BY <1>1, <1>6, Constants DEF SessionInv, TypeOK
  <2> QED BY <1>5, <2>1, RecordsFrame
<1>7. CASE c = Host
  <2>1. queue'[Host] = <<>> /\ state'[Host] = "Idle" /\ records' = <<>>
    BY <1>1, <1>7, Constants DEF SessionInv, TypeOK
  <2>2. \A j \in mine : end'[j]["host"] = "closed"
    BY <1>1, <1>2, <1>3, <1>7, StoppedEnds
  <2>3. \A j \in lost' : j \in lost \/ (j \in Connections /\ end'[j]["host"] = "closed")
    BY <1>1, <1>2, <1>7, <2>2
  <2>4. /\ queue'[Host] \in Seq(Events(Connections))
        /\ Keyed(queue'[Host], key, era) /\ Once(queue'[Host])
        /\ \A e : ~InQueue(e, queue'[Host])
    BY <2>1 DEF Keyed, Once, InQueue
  <2> QED BY <1>5, <2>1, <2>3, <2>4, RecordsOver
<1> QED BY <1>6, <1>7

\* What the receive threads do.
LEMMA RecordsReceive ==
  ASSUME SessionInv, EndsOK, RecordsInv, NEW k \in Connections, NEW s \in Sides, Receive(k, s)
  PROVE  RecordsInv'
<1>1. /\ end[k][s] \in {"reading", "cut", "ended"}
      /\ UNCHANGED <<state, transport, lost, key, records, sessions, era>>
  BY DEF Receive, recvFrame, recvFails, postDisconnected
<1>2. /\ (s = "host" => transport[Host] = k)
      /\ (s # "host" => joiner[k] # Host /\ joiner[k] \in Clients)
  BY <1>1, ActiveIsCurrent
<1>3. /\ wire \in [Connections -> [Sides -> Seq(Messages)]]
      /\ end \in [Connections -> [Sides -> EndStates]]
      /\ "host" \in Sides
  BY Constants DEF SessionInv, TypeOK, EndStates
<1>4. CASE s # "host"
  <2>1. queue'[Host] = queue[Host]
    BY <1>2, <1>4, Constants DEF Receive, recvFrame, recvFails, postDisconnected, SessionInv, TypeOK
  <2>2. \A j \in Connections : end'[j]["host"] = end[j]["host"] /\ wire'[j]["host"] = wire[j]["host"]
    <3>1. /\ end' = end \/ \E v : end' = [end EXCEPT ![k][s] = v]
          /\ wire' = wire \/ \E v : wire' = [wire EXCEPT ![k][s] = v]
      BY DEF Receive, recvFrame, recvFails, postDisconnected
    <3>2. ASSUME NEW v, end' = [end EXCEPT ![k][s] = v], NEW j \in Connections
          PROVE  end'[j]["host"] = end[j]["host"]
      BY <1>3, <1>4, <3>2
    <3>3. ASSUME NEW v, wire' = [wire EXCEPT ![k][s] = v], NEW j \in Connections
          PROVE  wire'[j]["host"] = wire[j]["host"]
      BY <1>3, <1>4, <3>3
    <3> QED BY <3>1, <3>2, <3>3
  <2>3. Kept
    BY <1>1, <2>2 DEF Kept
  <2> QED BY <1>1, <2>1, <2>3, RecordsFrame
<1>5. CASE s = "host" /\ recvFrame(k, s)
  <2> DEFINE e == Data(k, Head(wire[k][s]))
  <2>1. /\ wire[k]["host"] # <<>> /\ end' = end
        /\ queue' = [queue EXCEPT ![Host] = Append(@, e)]
        /\ wire' = [wire EXCEPT ![k]["host"] = Tail(@)]
    BY <1>5 DEF recvFrame
  <2>2. wire[k]["host"] = <<Hello>>
    BY <2>1 DEF RecordsInv, HellosOK, Unsaid
  <2>3. e = Data(k, Hello) /\ Tail(wire[k]["host"]) = <<>>
    BY <1>5, <2>2
  <2>4. e \in Events(Connections) /\ e.conn = k
    BY <2>3, EventFacts DEF Messages
  <2> HIDE DEF e
  <2>5. /\ wire'[k]["host"] = <<>>
        /\ \A j \in Connections : wire'[j]["host"] \in {wire[j]["host"], <<>>}
    BY <1>3, <2>1, <2>3
  <2>6. Kept
    BY <1>1, <2>1, <2>5 DEF Kept
  <2>7. queue'[Host] = Append(queue[Host], e)
    BY <2>1, Constants DEF SessionInv, TypeOK
  <2>8. key[k] <= era'[k]["host"]
    <3>1. transport[Host] = k /\ era[k]["host"] = sessions[Host]
      BY <1>2, <1>5, Constants DEF SessionInv, TransportsOK
    <3> QED BY <1>1, <3>1 DEF RecordsInv, KeysOK
  <2> QED BY <1>1, <1>2, <1>5, <2>2, <2>4, <2>5, <2>6, <2>7, <2>8, RecordsPost
<1>6. CASE s = "host" /\ recvFails(k, s)
  <2>1. /\ queue' = queue /\ end[k]["host"] \in {"reading", "cut"}
        /\ end' = [end EXCEPT ![k]["host"] = "ended"]
        /\ wire' = [wire EXCEPT ![k]["host"] = <<>>]
    BY <1>6 DEF recvFails
  <2>2. \A j \in Connections : /\ end[j]["host"] = "closed" => end'[j]["host"] = "closed"
                               /\ wire'[j]["host"] \in {wire[j]["host"], <<>>}
    BY <1>3, <2>1
  <2>3. Kept
    BY <1>1, <2>2 DEF Kept
  <2> QED BY <1>1, <2>1, <2>3, RecordsFrame
<1>7. CASE s = "host" /\ postDisconnected(k, s)
  <2> DEFINE e == Eof(k)
  <2>1. /\ queue' = [queue EXCEPT ![Host] = Append(@, e)] /\ end[k]["host"] = "ended"
        /\ end' = [end EXCEPT ![k]["host"] = "posted"] /\ wire' = wire
    BY <1>7 DEF postDisconnected
  <2>2. \A j \in Connections : end[j]["host"] = "closed" => end'[j]["host"] = "closed"
    BY <1>3, <2>1
  <2>3. Kept
    BY <1>1, <2>1, <2>2 DEF Kept
  <2>4. e \in Events(Connections) /\ e.conn = k /\ e.type # "data"
    BY EventFacts
  <2> HIDE DEF e
  <2>5. queue'[Host] = Append(queue[Host], e)
    BY <2>1, Constants DEF SessionInv, TypeOK
  <2>6. key[k] <= era'[k]["host"]
    <3>1. transport[Host] = k /\ era[k]["host"] = sessions[Host]
      BY <1>2, <1>7, Constants DEF SessionInv, TransportsOK
    <3> QED BY <1>1, <3>1 DEF RecordsInv, KeysOK
  <2> QED BY <1>1, <2>3, <2>4, <2>5, <2>6, RecordsPost
<1> QED BY <1>4, <1>5, <1>6, <1>7 DEF Receive

\* The other threads of the host and the environment.
LEMMA RecordsOthers ==
  ASSUME SessionInv, EndsOK, RecordsInv,
         \/ \E c \in Clients : sendFails(c)
         \/ \E k \in Connections : connectionReset(k)
         \/ acceptLoop \/ acceptFails
  PROVE  RecordsInv'
<1>1. ASSUME NEW c \in Clients, sendFails(c) PROVE RecordsInv'
  <2> DEFINE k == transport[c]
             s == Side(c)
  <2>1. /\ k # NoTransport /\ end[k][s] = "reading" /\ end' = [end EXCEPT ![k][s] = "cut"]
        /\ UNCHANGED <<state, queue, transport, lost, wire, key, records, sessions, era>>
    BY <1>1 DEF sendFails, isConnected
  <2>2. k \in Connections /\ s \in Sides /\ end \in [Connections -> [Sides -> EndStates]]
    BY <2>1, Constants DEF SessionInv, TypeOK, EndStates
  <2> HIDE DEF k, s
  <2>3. \A j \in Connections : end[j]["host"] = "closed" => end'[j]["host"] = "closed"
    BY <2>1, <2>2, Constants
  <2>4. Kept
    BY <2>1, <2>3 DEF Kept
  <2> QED BY <2>1, <2>4, RecordsFrame
<1>2. ASSUME NEW k \in Connections, connectionReset(k) PROVE RecordsInv'
  <2>1. /\ wire' = [wire EXCEPT ![k] = [s \in Sides |-> <<>>]]
        /\ UNCHANGED <<state, queue, transport, lost, end, key, records, sessions, era>>
    BY <1>2 DEF connectionReset
  <2>2. wire \in [Connections -> [Sides -> Seq(Messages)]] /\ "host" \in Sides
    BY Constants DEF SessionInv, TypeOK
  <2>3. \A j \in Connections : wire'[j]["host"] \in {wire[j]["host"], <<>>}
    BY <2>1, <2>2
  <2>4. Kept
    BY <2>1, <2>3 DEF Kept
  <2> QED BY <2>1, <2>4, RecordsFrame
<1>3. CASE acceptFails
  <2>1. UNCHANGED <<state, queue, transport, lost, end, wire, key, records, sessions, era>>
    BY <1>3 DEF acceptFails
  <2>2. Kept
    BY <2>1 DEF Kept
  <2> QED BY <2>1, <2>2, RecordsFrame
<1>4. CASE acceptLoop
  <2> DEFINE k == Head(backlog)
             e == Adopt(k)
  <2>1. /\ queue' = [queue EXCEPT ![Host] = Append(@, e)] /\ backlog # <<>>
        /\ era' = [era EXCEPT ![k]["host"] = sessions[Host]]
        /\ UNCHANGED <<state, transport, lost, end, wire, key, records, sessions>>
    BY <1>4 DEF acceptLoop
  <2>2. k \in Connections
    <3>1. backlog \in Seq(Connections)
      BY DEF SessionInv, TypeOK
    <3> QED BY <2>1, <3>1, TailFacts
  <2>3. e \in Events(Connections) /\ e.conn = k /\ e.type # "data"
    BY <2>2, EventFacts
  <2> HIDE DEF k, e
  <2>4. era \in [Connections -> [Sides -> Nat]] /\ "host" \in Sides
    BY Constants DEF SessionInv, TypeOK
  <2>5. /\ era'[k]["host"] = sessions[Host]
        /\ \A j \in Connections : era'[j]["host"] \in {era[j]["host"], sessions[Host]}
    BY <2>1, <2>2, <2>4
  <2>6. Kept
    BY <2>1, <2>5 DEF Kept
  <2>7. queue'[Host] = Append(queue[Host], e)
    BY <2>1, Constants DEF SessionInv, TypeOK
  <2>8. key[k] <= era'[k]["host"]
    BY <2>2, <2>5 DEF RecordsInv, KeysOK
  <2> QED BY <2>1, <2>3, <2>6, <2>7, <2>8, RecordsPost
<1> QED BY <1>1, <1>2, <1>3, <1>4

\* The host runs the arrival of a socket: it closes it, or its transport.
LEMMA RecordsSocket ==
  ASSUME SessionInv, EndsOK, RecordsInv, refuseSocket \/ adoptAcceptedSocket
  PROVE  RecordsInv'
<1> DEFINE k == Head(queue[Host]).conn
           old == transport[Host]
<1>1. /\ queue[Host] # <<>> /\ Head(queue[Host]) = Adopt(k) /\ k \in Connections
      /\ Head(queue[Host]).type = "adopt" /\ InQueue(Adopt(k), queue[Host])
  BY Constants, DropFacts, EventFacts DEF refuseSocket, adoptAcceptedSocket, First
<1>2. /\ end[k]["host"] = "open" /\ k # old /\ "host" \in Sides
  BY <1>1, Constants DEF SessionInv, WaitingOK, TransportsOK
<1>3. CASE refuseSocket
  <2>1. /\ queue' = [queue EXCEPT ![Host] = Rest(Host)]
        /\ end' = Stopped(end, {k}, "host", "closed") /\ wire' = Stopped(wire, {k}, "host", <<>>)
        /\ UNCHANGED <<state, transport, lost, key, records, sessions, era>>
    BY <1>3 DEF refuseSocket, Dropped
  <2> HIDE DEF k
  <2>2. \A j \in Connections : /\ end'[j]["host"] \in {end[j]["host"], "closed"}
                               /\ wire'[j]["host"] \in {wire[j]["host"], <<>>}
    BY <1>2, <2>1, HostEnds
  <2>3. Kept
    BY <2>1, <2>2 DEF Kept
  <2>4. queue'[Host] = Rest(Host)
    BY <2>1, Constants DEF SessionInv, TypeOK
  <2> QED BY <1>1, <2>1, <2>3, <2>4, RecordsDrop
<1>4. CASE adoptAcceptedSocket
  <2> DEFINE stopped == Stopped(end, {old}, "host", "closed")
  <2>1. PICK words \in LastWords(old, "host") :
          /\ end' = [stopped EXCEPT ![k]["host"] = "reading"]
          /\ wire' = Stopped(wire, {old}, "host", <<>>)
          /\ queue' = [queue EXCEPT ![Host] = Rest(Host) \o words]
          /\ lost' = lost \cup Unnoticed(old, words)
          /\ era' = [era EXCEPT ![k]["host"] = sessions[Host]]
          /\ UNCHANGED <<state, key, records, sessions>>
    BY <1>4 DEF adoptAcceptedSocket
  <2> HIDE DEF k
  <2>2. /\ stopped \in [Connections -> [Sides -> EndStates]]
        /\ \A j \in Connections :
             stopped[j]["host"] = IF j = old THEN "closed" ELSE end[j]["host"]
    BY <1>2, StoppedEnds
  <2> HIDE DEF stopped
  <2>3. \A j \in Connections :
          end'[j]["host"] = IF j = k THEN "reading" ELSE IF j = old THEN "closed"
                            ELSE end[j]["host"]
    BY <1>1, <1>2, <2>1, <2>2
  <2>4. \A j \in Connections : /\ wire'[j]["host"] \in {wire[j]["host"], <<>>}
                               /\ era'[j]["host"] \in {era[j]["host"], sessions[Host]}
    <3>1. era \in [Connections -> [Sides -> Nat]]
      BY DEF SessionInv, TypeOK
    <3> QED BY <1>1, <1>2, <2>1, <3>1, HostEnds
  <2>5. \A j \in Connections : end[j]["host"] = "closed" => end'[j]["host"] = "closed"
    BY <1>2, <2>3
  <2>6. Kept
    BY <2>1, <2>4, <2>5 DEF Kept
  <2>7. queue'[Host] = Rest(Host) \o words
    BY <2>1, Constants DEF SessionInv, TypeOK
  <2>8. old # NoTransport => end'[old]["host"] = "closed"
    <3>1. old # NoTransport => old \in Connections
      BY Constants DEF SessionInv, TypeOK
    <3> QED BY <1>2, <2>3, <3>1
  <2> QED BY <1>1, <2>1, <2>6, <2>7, <2>8, RecordsStop
<1> QED BY <1>3, <1>4

\* The host rejects a hello: it stops its transport.
LEMMA RecordsReject ==
  ASSUME SessionInv, EndsOK, RecordsInv, NEW k \in Connections, rejectHello(k)
  PROVE  RecordsInv'
<1> DEFINE old == transport[Host]
<1>1. PICK words \in LastWords(old, "host") :
        /\ end' = Stopped(end, {old}, "host", "closed")
        /\ wire' = Stopped(Sent(wire, Host, Rejected), {old}, "host", <<>>)
        /\ queue' = [queue EXCEPT ![Host] = Rest(Host) \o words]
        /\ lost' = lost \cup Unnoticed(old, words)
        /\ UNCHANGED <<state, key, records, sessions, era>>
  BY DEF rejectHello
<1>2. /\ queue[Host] # <<>> /\ Head(queue[Host]).type # "eof" /\ "host" \in Sides
  BY Constants DEF rejectHello, HelloFrom, First
<1>3. \A j \in Connections : /\ end'[j]["host"] \in {end[j]["host"], "closed"}
                             /\ wire'[j]["host"] \in {wire[j]["host"], <<>>}
  <2>1. Rejected \in Messages
    BY DEF Messages
  <2> QED BY <1>1, <1>2, <2>1, HostEnds
<1>4. Kept
  BY <1>1, <1>3 DEF Kept
<1>5. queue'[Host] = Rest(Host) \o words
  BY <1>1, Constants DEF SessionInv, TypeOK
<1>6. old # NoTransport => end'[old]["host"] = "closed"
  <2>1. old # NoTransport => old \in Connections
    BY Constants DEF SessionInv, TypeOK
  <2> QED BY <1>1, <1>2, <2>1, StoppedEnds
<1> QED BY <1>1, <1>2, <1>4, <1>5, <1>6, RecordsStop

\* What the main thread does with the first event.
LEMMA RecordsDrain ==
  ASSUME SessionInv, EndsOK, RecordsInv, NEW c \in Clients, Drain(c)
  PROVE  RecordsInv'
<1>1. CASE ignoreEvent(c) \/ (c \in Peers /\ joined(c))
  <2>1. /\ queue[c] # <<>> /\ queue' = [queue EXCEPT ![c] = Rest(c)]
        /\ UNCHANGED <<transport, end, wire, key, records, sessions, era, lost>>
        /\ state' = state \/ (c \in Peers /\ state' = [state EXCEPT ![c] = "Connected"])
        /\ c = Host => state[Host] = "Idle"
    BY <1>1, Constants DEF ignoreEvent, joined, First, Dropped
  <2>2. Kept
    BY <2>1 DEF Kept
  <2>3. state'[Host] = state[Host]
    BY <2>1, Constants DEF SessionInv, TypeOK
  <2>4. CASE c = Host
    <3>1. queue'[Host] = Rest(Host)
      BY <2>1, <2>4, Constants DEF SessionInv, TypeOK
    <3> QED BY <2>1, <2>2, <2>3, <2>4, <3>1, RecordsDrop
  <2>5. CASE c # Host
    <3>1. queue'[Host] = queue[Host]
      BY <2>1, <2>5, Constants DEF SessionInv, TypeOK
    <3> QED BY <2>1, <2>2, <2>3, <3>1, RecordsFrame
  <2> QED BY <2>4, <2>5
<1>2. CASE handleTransportDisconnect(c) \/ (c \in Peers /\ joinRejected(c))
  <2>1. queue[c] # <<>> /\ Disconnected(c, Rest(c))
    BY <1>2 DEF handleTransportDisconnect, joinRejected, First
  <2> QED BY <2>1, RecordsDisconnected
<1>3. CASE refuseSocket \/ adoptAcceptedSocket
  BY <1>3, RecordsSocket
<1>4. CASE \E k \in Connections : handleHostHello(k) \/ rejectHello(k)
  BY <1>4, RecordsHello, RecordsReject
<1> QED BY <1>1, <1>2, <1>3, <1>4 DEF Drain

\* What the users and the timeout do.
LEMMA RecordsUser ==
  ASSUME SessionInv, EndsOK, RecordsInv, NEW c \in Clients, User(c) \/ heartbeatTimeout(c)
  PROVE  RecordsInv'
<1>1. CASE disconnect(c) \/ heartbeatTimeout(c)
  BY <1>1, RecordsDisconnected DEF disconnect, heartbeatTimeout
<1>2. CASE c = Host /\ startHost
  BY <1>2, RecordsBegin
<1>3. CASE c \in Peers /\ joinAsPeer(c)
  BY <1>3, RecordsJoin
<1> QED BY <1>1, <1>2, <1>3 DEF User

\* RecordsInv always holds.
LEMMA RecordsInvariant == Spec => []RecordsInv
<1>1. Init => RecordsInv
  <2> SUFFICES ASSUME Init PROVE RecordsInv
    OBVIOUS
  <2>1. /\ queue[Host] = <<>> /\ sessions[Host] = 0 /\ records = <<>> /\ lost = {}
        /\ state[Host] = "Idle"
    BY Constants DEF Init
  <2>2. \A k \in Connections : key[k] = 0 /\ wire[k]["host"] = <<>>
    BY Constants DEF Init
  <2> QED BY <2>1, <2>2 DEF RecordsInv, KeysOK, Keyed, HellosOK, Once, Unsaid, LostClosed,
                            RecordsOK
<1>2. SessionInv /\ EndsOK /\ RecordsInv /\ [Next]_vars => RecordsInv'
  <2> SUFFICES ASSUME SessionInv, EndsOK, RecordsInv, [Next]_vars PROVE RecordsInv'
    OBVIOUS
  <2>1. ASSUME NEW c \in Clients, User(c) \/ Drain(c) \/ heartbeatTimeout(c) \/ crash(c)
        PROVE  RecordsInv'
    BY <2>1, RecordsUser, RecordsDrain, RecordsCrash
  <2>2. ASSUME NEW k \in Connections, NEW s \in Sides, Receive(k, s)
        PROVE  RecordsInv'
    BY <2>2, RecordsReceive
  <2>3. CASE UNCHANGED vars
    <3>1. Kept
      BY <2>3 DEF vars, Kept
    <3> QED BY <2>3, <3>1, RecordsFrame DEF vars
  <2> QED BY <2>1, <2>2, <2>3, RecordsOthers DEF Next
<1> QED BY <1>1, <1>2, SessionInvariant, EndsInvariant, PTL DEF Spec

\* A second record in m_peers (handleHostHello adds one for every accepted
\* hello) means that in this session the end of a connection was lost: its
\* transport was replaced or stopped, and its receive thread told nobody.
THEOREM RecordsNeedLostEnd == Spec => []SecondRecordNeedsLostEnd
<1>1. SessionInv /\ RecordsInv => SecondRecordNeedsLostEnd
  <2> SUFFICES ASSUME SessionInv, RecordsInv, Len(records) > 1
               PROVE  \E k \in lost : era[k]["host"] = sessions[Host] /\ end[k]["host"] = "closed"
    BY DEF SecondRecordNeedsLostEnd
  <2>1. state[Host] # "Idle"
    BY DEF RecordsInv, RecordsOK
  <2>2. LostEnd
    <3>1. records # <<>> /\ Len(records) # 1
      OBVIOUS
    <3> QED BY <2>1, <3>1 DEF RecordsInv, RecordsOK
  <2> QED BY <2>2 DEF LostEnd, RecordsInv, LostClosed
<1> QED BY <1>1, SessionInvariant, RecordsInvariant, PTL
=============================================================================
