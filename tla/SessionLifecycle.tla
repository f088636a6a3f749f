-------------------------- MODULE SessionLifecycle --------------------------
(***************************************************************************)
(* How sessions begin and end: SessionManager's lifecycle on top of        *)
(* WinTcpTransport.  The host's program and those of the peers that try to *)
(* join it each have a main thread, a receive thread per transport and, on *)
(* the host, an accept thread.  The threads only post events; the main     *)
(* thread runs them in tick(), one action per event: another thread may    *)
(* post, and the user may click, between any two of them.                  *)
(*                                                                         *)
(* A connection has two ends, the host's and the peer's.  An end is        *)
(*   "none"     not made yet,                                              *)
(*   "open"     a socket without a transport (backlog, adoption pending),  *)
(*   "reading"  a transport whose receive thread runs (m_connected),       *)
(*   "cut"      the same, after send() failed (m_connected is false),      *)
(*   "ended"    recvLoop left its loop and has not called back yet,        *)
(*   "posted"   the end of the connection is in the event queue,           *)
(*   "closed"   stop() ran, the receive thread is joined.                  *)
(***************************************************************************)
EXTENDS Naturals, Sequences, FiniteSets

CONSTANTS
  Host, Peers,     \* the programs
  Backlog,         \* connections the listening socket holds for accept()
  MaxConnections,  \* bound: connections ever made
  MaxSessions,     \* bound: client -> the sessions its user starts
  MaxFaults        \* bound: crashes, resets and failed calls of accept()

ASSUME LifecycleAssumption ==
  /\ Host \notin Peers
  /\ {Backlog, MaxConnections} \subseteq Nat \ {0}
  /\ MaxSessions \in [{Host} \cup Peers -> Nat] /\ MaxFaults \in Nat

Clients == {Host} \cup Peers
Connections == 1..MaxConnections
Sides == {"host", "peer"}
NoTransport == 0

VARIABLES
  state,      \* client -> SessionState, Idle when there is no m_session
  transport,  \* client -> m_controlTransport: a connection or NoTransport
  queue,      \* client -> m_queue, the events posted to its main thread
  acceptor,   \* the host's listener: "closed", "accepting" or "failed"
  backlog,    \* connections that wait for accept()
  end,        \* connection -> side -> the state of that end
  wire,       \* connection -> side -> the messages on their way to that side
  joiner,     \* connection -> the peer that made it, Host before
  key,        \* connection -> the session whose key was typed, 0 for none
  reset,      \* the connections the network or a crash has torn down
  records,    \* m_peers of the host's session: the peers' display names
  sessions,   \* history: client -> the sessions it has started
  era,        \* history: connection -> side -> the session it was made in
  lost,       \* history: connections whose host end closed without an event
  faults      \* the number of faults so far

vars == <<state, transport, queue, acceptor, backlog, end, wire, joiner, key, reset,
          records, sessions, era, lost, faults>>

Hello == "hello"
Accepted == "accepted"      \* HelloAck, accepted
Rejected == "rejected"      \* HelloAck with a reject reason
Messages == {Hello, Accepted, Rejected}

Adopt(k) == [type |-> "adopt", conn |-> k]
Data(k, m) == [type |-> "data", conn |-> k, msg |-> m]
Eof(k) == [type |-> "eof", conn |-> k]
Events(S) ==
  [type : {"adopt", "eof"}, conn : S] \cup [type : {"data"}, conn : S, msg : Messages]

Side(c) == IF c = Host THEN "host" ELSE "peer"
Other(s) == IF s = "host" THEN "peer" ELSE "host"
Made == {k \in Connections : joiner[k] # Host}

Fault == faults < MaxFaults /\ faults' = faults + 1

Init ==
  /\ state = [c \in Clients |-> "Idle"]
  /\ transport = [c \in Clients |-> NoTransport]
  /\ queue = [c \in Clients |-> <<>>]
  /\ acceptor = "closed" /\ backlog = <<>>
  /\ end = [k \in Connections |-> [s \in Sides |-> "none"]]
  /\ wire = [k \in Connections |-> [s \in Sides |-> <<>>]]
  /\ joiner = [k \in Connections |-> Host]
  /\ key = [k \in Connections |-> 0]
  /\ reset = {} /\ records = <<>>
  /\ sessions = [c \in Clients |-> 0]
  /\ era = [k \in Connections |-> [s \in Sides |-> 0]]
  /\ lost = {} /\ faults = 0

-----------------------------------------------------------------------------
(* WinTcpTransport.                                                        *)

\* isConnected() of a client's transport.
isConnected(c) ==
  transport[c] # NoTransport /\ end[transport[c]][Side(c)] = "reading"

\* What the receive thread posts while stop() waits for it: recvLoop tests
\* m_sock, which stop() has set or is about to set to INVALID_SOCKET on
\* another thread, so a thread that has not called back yet may or may not.
LastWords(k, s) ==
  IF k = NoTransport \/ end[k][s] = "posted" THEN {<<>>} ELSE {<<>>, <<Eof(k)>>}

\* The end of k on side s after stop(): the socket is closed.  What had
\* not been read is gone.
Stopped(f, S, s, value) ==
  [k \in Connections |-> IF k \in S THEN [f[k] EXCEPT ![s] = value] ELSE f[k]]

\* The host's ends whose event will never come.
Unnoticed(k, words) ==
  IF k # NoTransport /\ end[k]["host"] # "posted" /\ words = <<>> THEN {k} ELSE {}

\* send(): TCP takes the bytes even when nobody will read them.
Sent(w, c, m) ==
  IF /\ isConnected(c) /\ transport[c] \notin reset
     /\ end[transport[c]][Other(Side(c))] # "closed"
  THEN [w EXCEPT ![transport[c]][Other(Side(c))] = Append(@, m)]
  ELSE w

\* The receive thread reads one frame and posts it.
recvFrame(k, s) ==
  LET c == IF s = "host" THEN Host ELSE joiner[k] IN
  /\ end[k][s] \in {"reading", "cut"} /\ wire[k][s] # <<>>
  /\ queue' = [queue EXCEPT ![c] = Append(@, Data(k, Head(wire[k][s])))]
  /\ wire' = [wire EXCEPT ![k][s] = Tail(@)]
  /\ UNCHANGED <<state, transport, acceptor, backlog, end, joiner, key, reset, records,
                 sessions, era, lost, faults>>

\* recv() fails: the other side closed the connection, or it was reset.  A
\* reset may overtake frames that were not read yet.
recvFails(k, s) ==
  /\ end[k][s] \in {"reading", "cut"}
  /\ k \in reset \/ end[k][Other(s)] = "closed"
  /\ end' = [end EXCEPT ![k][s] = "ended"]
  /\ wire' = [wire EXCEPT ![k][s] = <<>>]
  /\ UNCHANGED <<state, transport, queue, acceptor, backlog, joiner, key, reset, records,
                 sessions, era, lost, faults>>

\* ... and the thread calls onDisconnected.
postDisconnected(k, s) ==
  LET c == IF s = "host" THEN Host ELSE joiner[k] IN
  /\ end[k][s] = "ended"
  /\ end' = [end EXCEPT ![k][s] = "posted"]
  /\ queue' = [queue EXCEPT ![c] = Append(@, Eof(k))]
  /\ UNCHANGED <<state, transport, acceptor, backlog, wire, joiner, key, reset, records,
                 sessions, era, lost, faults>>

\* A heartbeat or an edit is sent into a dead connection.
sendFails(c) ==
  /\ state[c] = "Connected" /\ isConnected(c)
  /\ transport[c] \in reset \/ end[transport[c]][Other(Side(c))] = "closed"
  /\ end' = [end EXCEPT ![transport[c]][Side(c)] = "cut"]
  /\ UNCHANGED <<state, transport, queue, acceptor, backlog, wire, joiner, key, reset,
                 records, sessions, era, lost, faults>>

-----------------------------------------------------------------------------
(* disconnect(): the listener and its backlog are closed and the accept    *)
(* thread joined; then the transport is stopped and its thread joined.     *)
(* rest is what the queue still holds.                                     *)
Disconnected(c, rest) ==
  LET k == transport[c]
      atHost == c = Host
  IN \E words \in LastWords(k, Side(c)) :
       /\ state' = [state EXCEPT ![c] = "Idle"]
       /\ transport' = [transport EXCEPT ![c] = NoTransport]
       /\ queue' = [queue EXCEPT ![c] = rest \o words]
       /\ acceptor' = IF atHost THEN "closed" ELSE acceptor
       /\ backlog' = IF atHost THEN <<>> ELSE backlog
       /\ LET closing == {k} \cup IF atHost THEN {backlog[i] : i \in DOMAIN backlog} ELSE {}
          IN /\ end' = Stopped(end, closing, Side(c), "closed")
             /\ wire' = Stopped(wire, closing, Side(c), <<>>)
       /\ records' = IF atHost THEN <<>> ELSE records
       /\ lost' = IF atHost THEN lost \cup Unnoticed(k, words) ELSE lost
       /\ UNCHANGED <<joiner, key, reset, sessions, era, faults>>

\* Mutant of disconnect: the pointer is dropped, the thread runs on.
detached(c) ==
  /\ state[c] # "Idle"
  /\ state' = [state EXCEPT ![c] = "Idle"]
  /\ transport' = [transport EXCEPT ![c] = NoTransport]
  /\ acceptor' = IF c = Host THEN "closed" ELSE acceptor
  /\ records' = IF c = Host THEN <<>> ELSE records
  /\ UNCHANGED <<queue, backlog, end, wire, joiner, key, reset, sessions, era, lost,
                 faults>>

startHost ==
  /\ state[Host] = "Idle" /\ sessions[Host] < MaxSessions[Host]
  /\ state' = [state EXCEPT ![Host] = "Hosting"]
  /\ sessions' = [sessions EXCEPT ![Host] = @ + 1]
  /\ acceptor' = "accepting"
  /\ UNCHANGED <<transport, queue, backlog, end, wire, joiner, key, reset, records, era, lost, faults>>

\* The constructor connects, start() begins to read and the hello goes out.
\* The user has this room's code, or mistyped it.  (A join that cannot connect leaves everything as it was.)
joinAsPeer(p) ==
  /\ state[p] = "Idle" /\ sessions[p] < MaxSessions[p]
  /\ acceptor # "closed" /\ Len(backlog) < Backlog
  /\ Cardinality(Made) < MaxConnections
  /\ LET k == Cardinality(Made) + 1 IN
       /\ transport' = [transport EXCEPT ![p] = k]
       /\ end' = [end EXCEPT ![k] = [host |-> "open", peer |-> "reading"]]
       /\ wire' = [wire EXCEPT ![k]["host"] = <<Hello>>]
       /\ joiner' = [joiner EXCEPT ![k] = p]
       /\ \E typed \in {0, sessions[Host]} : key' = [key EXCEPT ![k] = typed]
       /\ backlog' = Append(backlog, k)
       /\ era' = [era EXCEPT ![k]["peer"] = sessions[p] + 1]
  /\ state' = [state EXCEPT ![p] = "Joining"]
  /\ sessions' = [sessions EXCEPT ![p] = @ + 1]
  /\ UNCHANGED <<queue, acceptor, reset, records, lost, faults>>

\* The user stops the session.
disconnect(c) == state[c] # "Idle" /\ Disconnected(c, queue[c])

\* tick() finds no heartbeat for HEARTBEAT_TIMEOUT_MS.  Time is not modelled
\* here: a program that was suspended, or whose clock was set, does this too.
heartbeatTimeout(c) == state[c] = "Connected" /\ Disconnected(c, queue[c])

-----------------------------------------------------------------------------
(* The accept thread.                                                      *)

acceptLoop ==
  /\ acceptor = "accepting" /\ backlog # <<>>
  /\ queue' = [queue EXCEPT ![Host] = Append(@, Adopt(Head(backlog)))]
  /\ backlog' = Tail(backlog)
  /\ era' = [era EXCEPT ![Head(backlog)]["host"] = sessions[Host]]
  /\ UNCHANGED <<state, transport, acceptor, end, wire, joiner, key, reset, records,
                 sessions, lost, faults>>

\* accept() fails and the thread returns.  The socket still listens.
acceptFails ==
  /\ acceptor = "accepting" /\ acceptor' = "failed"
  /\ Fault
  /\ UNCHANGED <<state, transport, queue, backlog, end, wire, joiner, key, reset, records,
                 sessions, era, lost>>

-----------------------------------------------------------------------------
(* The main thread runs the first event of its queue.                      *)

First(c, type) == queue[c] # <<>> /\ Head(queue[c]).type = type
Rest(c) == Tail(queue[c])
Dropped(c) == queue' = [queue EXCEPT ![c] = Rest(c)]

\* Mutant of refuseSocket: the socket is not closed.
forgetsSocket ==
  /\ First(Host, "adopt")
  /\ state[Host] = "Idle" \/ isConnected(Host)
  /\ Dropped(Host)
  /\ UNCHANGED <<state, transport, acceptor, backlog, end, wire, joiner, key, reset,
                 records, sessions, era, lost, faults>>

\* A socket nobody wants: no session any more, or a peer is connected.
refuseSocket ==
  /\ First(Host, "adopt")
  /\ state[Host] = "Idle" \/ isConnected(Host)
  /\ LET k == Head(queue[Host]).conn IN
       /\ end' = Stopped(end, {k}, "host", "closed")
       /\ wire' = Stopped(wire, {k}, "host", <<>>)
  /\ Dropped(Host)
  /\ UNCHANGED <<state, transport, acceptor, backlog, joiner, key, reset, records,
                 sessions, era, lost, faults>>

\* Mutant of adoptAcceptedSocket: the old transport is not stopped.
adoptsBeside ==
  /\ First(Host, "adopt")
  /\ state[Host] # "Idle" /\ ~isConnected(Host)
  /\ LET k == Head(queue[Host]).conn IN
       /\ transport' = [transport EXCEPT ![Host] = k]
       /\ end' = [end EXCEPT ![k]["host"] = "reading"]
       /\ era' = [era EXCEPT ![k]["host"] = sessions[Host]]
  /\ Dropped(Host)
  /\ UNCHANGED <<state, acceptor, backlog, wire, joiner, key, reset, records, sessions,
                 lost, faults>>

\* The new transport takes the place of one whose connection has ended; the
\* old one is stopped, and may post its last words only now.
adoptAcceptedSocket ==
  /\ First(Host, "adopt")
  /\ state[Host] # "Idle" /\ ~isConnected(Host)
  /\ LET k == Head(queue[Host]).conn
         old == transport[Host]
     IN \E words \in LastWords(old, "host") :
          /\ transport' = [transport EXCEPT ![Host] = k]
          /\ end' = [Stopped(end, {old}, "host", "closed") EXCEPT ![k]["host"] = "reading"]
          /\ wire' = Stopped(wire, {old}, "host", <<>>)
          /\ queue' = [queue EXCEPT ![Host] = Rest(Host) \o words]
          /\ lost' = lost \cup Unnoticed(old, words)
          /\ era' = [era EXCEPT ![k]["host"] = sessions[Host]]
  /\ UNCHANGED <<state, acceptor, backlog, joiner, key, reset, records, sessions, faults>>

HelloFrom(k) == First(Host, "data") /\ Head(queue[Host]) = Data(k, Hello)

\* The answer goes to the transport of this moment, and the record is added
\* whether or not it could be sent.
handleHostHello(k) ==
  /\ HelloFrom(k) /\ state[Host] # "Idle"
  /\ key[k] = sessions[Host]
  /\ wire' = Sent(wire, Host, Accepted)
  /\ records' = Append(records, joiner[k])
  /\ state' = [state EXCEPT ![Host] = "Connected"]
  /\ Dropped(Host)
  /\ UNCHANGED <<transport, acceptor, backlog, end, joiner, key, reset, sessions, era, lost, faults>>

\* Mutant of rejectHello: the peer is neither answered nor cut off.
rejectsSilently(k) ==
  /\ HelloFrom(k) /\ state[Host] # "Idle"
  /\ key[k] # sessions[Host]
  /\ Dropped(Host)
  /\ UNCHANGED <<state, transport, acceptor, backlog, end, wire, joiner, key, reset,
                 records, sessions, era, lost, faults>>

\* The session stays as it is; the transport of this moment is stopped.
rejectHello(k) ==
  /\ HelloFrom(k) /\ state[Host] # "Idle"
  /\ key[k] # sessions[Host]
  /\ LET current == transport[Host] IN
     \E words \in LastWords(current, "host") :
       /\ transport' = [transport EXCEPT ![Host] = NoTransport]
       /\ end' = Stopped(end, {current}, "host", "closed")
       /\ wire' = Stopped(Sent(wire, Host, Rejected), {current}, "host", <<>>)
       /\ queue' = [queue EXCEPT ![Host] = Rest(Host) \o words]
       /\ lost' = lost \cup Unnoticed(current, words)
  /\ UNCHANGED <<state, acceptor, backlog, joiner, key, reset, records, sessions, era, faults>>

\* Mutant of joined: the session takes the host's state.
joinsAsHost(p) ==
  /\ First(p, "data") /\ Head(queue[p]).msg = Accepted /\ state[p] # "Idle"
  /\ state' = [state EXCEPT ![p] = "Hosting"]
  /\ Dropped(p)
  /\ UNCHANGED <<transport, acceptor, backlog, end, wire, joiner, key, reset, records,
                 sessions, era, lost, faults>>

\* handlePeerHelloAck.
joined(p) ==
  /\ First(p, "data") /\ Head(queue[p]).msg = Accepted /\ state[p] # "Idle"
  /\ state' = [state EXCEPT ![p] = "Connected"]
  /\ Dropped(p)
  /\ UNCHANGED <<transport, acceptor, backlog, end, wire, joiner, key, reset, records,
                 sessions, era, lost, faults>>

joinRejected(p) ==
  /\ First(p, "data") /\ Head(queue[p]).msg = Rejected /\ state[p] # "Idle"
  /\ Disconnected(p, Rest(p))

\* Events for a session that is over.
ignoreEvent(c) ==
  /\ First(c, "data") \/ First(c, "eof")
  /\ state[c] = "Idle"
  /\ Dropped(c)
  /\ UNCHANGED <<state, transport, acceptor, backlog, end, wire, joiner, key, reset, records,
                 sessions, era, lost, faults>>

\* Mutants of handleTransportDisconnect: the end of a replaced connection is
\* ignored; the end of a connection is ignored before the session is Connected.
endsOfCurrentOnly(c) ==
  /\ First(c, "eof") /\ state[c] # "Idle"
  /\ \/ Head(queue[c]).conn = transport[c] /\ Disconnected(c, Rest(c))
     \/ /\ Head(queue[c]).conn # transport[c]
        /\ Dropped(c)
        /\ UNCHANGED <<state, transport, acceptor, backlog, end, wire, joiner, key, reset,
                       records, sessions, era, lost, faults>>
endsOfConnectedOnly(c) ==
  /\ First(c, "eof") /\ state[c] # "Idle"
  /\ \/ state[c] = "Connected" /\ Disconnected(c, Rest(c))
     \/ /\ state[c] # "Connected"
        /\ Dropped(c)
        /\ UNCHANGED <<state, transport, acceptor, backlog, end, wire, joiner, key, reset,
                       records, sessions, era, lost, faults>>

\* Any end of a connection ends the session, whichever connection it was.
handleTransportDisconnect(c) ==
  First(c, "eof") /\ state[c] # "Idle" /\ Disconnected(c, Rest(c))

-----------------------------------------------------------------------------
(* The environment.                                                        *)

\* The network drops a connection: both sides get a reset.
connectionReset(k) ==
  /\ k \in Made \ reset /\ Fault
  /\ \E s \in Sides : end[k][s] \in {"reading", "cut"}
  /\ reset' = reset \cup {k}
  /\ wire' = [wire EXCEPT ![k] = [s \in Sides |-> <<>>]]
  /\ UNCHANGED <<state, transport, queue, acceptor, backlog, end, joiner, key, records,
                 sessions, era, lost>>

\* The game crashes: no destructor runs, the operating system closes the
\* sockets, also those of connections that were never adopted.
crash(c) ==
  /\ state[c] # "Idle" \/ queue[c] # <<>>
  /\ Fault
  /\ LET mine == {k \in Made : c \in {Host, joiner[k]}} IN
       /\ end' = Stopped(end, mine, Side(c), "closed")
       /\ wire' = Stopped(wire, mine, Side(c), <<>>)
       /\ lost' = IF c = Host THEN lost \cup {k \in mine : end[k]["host"] # "closed"}
                              ELSE lost
  /\ state' = [state EXCEPT ![c] = "Idle"]
  /\ transport' = [transport EXCEPT ![c] = NoTransport]
  /\ queue' = [queue EXCEPT ![c] = <<>>]
  /\ acceptor' = IF c = Host THEN "closed" ELSE acceptor
  /\ backlog' = IF c = Host THEN <<>> ELSE backlog
  /\ records' = IF c = Host THEN <<>> ELSE records
  /\ UNCHANGED <<joiner, key, reset, sessions, era>>

-----------------------------------------------------------------------------
User(c) == disconnect(c) \/ (c = Host /\ startHost) \/ (c \in Peers /\ joinAsPeer(c))

\* drainQueue(), an event at a time.
Drain(c) ==
  \/ ignoreEvent(c)
  \/ handleTransportDisconnect(c)
  \/ c = Host /\ (refuseSocket \/ adoptAcceptedSocket)
  \/ c = Host /\ \E k \in Connections : handleHostHello(k) \/ rejectHello(k)
  \/ c \in Peers /\ (joined(c) \/ joinRejected(c))

Receive(k, s) == recvFrame(k, s) \/ recvFails(k, s) \/ postDisconnected(k, s)

Next ==
  \/ \E c \in Clients :
       User(c) \/ Drain(c) \/ heartbeatTimeout(c) \/ sendFails(c) \/ crash(c)
  \/ \E k \in Connections, s \in Sides : Receive(k, s)
  \/ \E k \in Connections : connectionReset(k)
  \/ acceptLoop \/ acceptFails

Spec == Init /\ [][Next]_vars

-----------------------------------------------------------------------------
(* Fairness: every thread runs while it has something to do; the main      *)
(* thread's queue is drained only while the editor or a popup calls        *)
(* tick().  Users owe nothing, and neither does the timeout, whose time is *)
(* not modelled here (Heartbeats does): what follows is owed to the        *)
(* receive threads and their events alone.                                 *)

Fairness ==
  /\ \A c \in Clients : WF_vars(Drain(c))
  /\ \A k \in Connections, s \in Sides : WF_vars(Receive(k, s))
  /\ WF_vars(acceptLoop)

LiveSpec == Spec /\ Fairness

-----------------------------------------------------------------------------
(* Properties.                                                             *)

TypeOK ==
  /\ state \in [Clients -> {"Idle", "Hosting", "Joining", "Connected"}]
  /\ state[Host] # "Joining" /\ \A p \in Peers : state[p] # "Hosting"
  /\ transport \in [Clients -> Connections \cup {NoTransport}]
  /\ queue \in [Clients -> Seq(Events(Connections))]
  /\ acceptor \in {"closed", "accepting", "failed"}
  /\ backlog \in Seq(Connections) /\ Len(backlog) <= Backlog
  /\ end \in [Connections -> [Sides ->
       {"none", "open", "reading", "cut", "ended", "posted", "closed"}]]
  /\ wire \in [Connections -> [Sides -> Seq(Messages)]]
  /\ joiner \in [Connections -> Clients]
  /\ key \in [Connections -> 0..MaxSessions[Host]]
  /\ faults \in 0..MaxFaults /\ reset \subseteq Connections /\ lost \subseteq Connections
  /\ records \in Seq(Peers)
  /\ sessions \in [Clients -> Nat] /\ \A c \in Clients : sessions[c] <= MaxSessions[c]
  /\ era \in [Connections -> [Sides -> Nat]]

\* disconnect() joins the accept thread and the receive thread before it
\* returns, so nothing an old session's threads post comes after an event of
\* the next session: what is left of an old session is at the front of the
\* queue, where one tick() between two sessions would have dropped it.
EventsInSessionOrder ==
  \A c \in Clients : \A i, j \in 1..Len(queue[c]) :
    i < j => era[queue[c][i].conn][Side(c)] <= era[queue[c][j].conn][Side(c)]

\* No socket is forgotten: the host's end of a connection that is not closed
\* waits for accept(), is in the event queue, or is the current transport;
\* a peer's end is its current transport.
NoForgottenSocket ==
  \A k \in Made :
    /\ end[k]["host"] # "closed" =>
         \/ transport[Host] = k
         \/ \E i \in DOMAIN backlog : backlog[i] = k
         \/ \E i \in DOMAIN queue[Host] : queue[Host][i] = Adopt(k)
    /\ end[k]["peer"] # "closed" => transport[joiner[k]] = k

\* Session.hpp's "V1: at most 1 entry": m_peers gets a second record for
\* player 1 only when the transport of the first was replaced and its
\* receive thread found m_sock already invalid, so that nobody was told.
SecondRecordNeedsLostEnd ==
  Len(records) > 1 =>
    \E k \in lost : era[k]["host"] = sessions[Host] /\ end[k]["host"] = "closed"

\* A hello is answered on the connection it came from, except when that
\* connection was replaced while the hello was queued; then its end is
\* queued behind it and will end the session, or was lost.
AnswerGoesToAsker ==
  [][\A k \in Connections : handleHostHello(k) =>
       \/ transport[Host] = k
       \/ k \in lost
       \/ \E i \in DOMAIN queue[Host] : queue[Host][i] = Eof(k)]_vars

\* A join does not hang: it is answered, refused or cut off, unless the
\* accept thread is gone (then the listening socket still takes the
\* connection and nobody will ever pick it up).
JoinAnswered ==
  \A p \in Peers : state[p] = "Joining" ~> (state[p] # "Joining" \/ acceptor = "failed")

\* c's connection leads to a program that is in the same session.
Answered(c) ==
  LET k == transport[c]
      partner == IF c = Host THEN joiner[k] ELSE Host
  IN /\ isConnected(c) /\ k \notin reset
     /\ transport[partner] = k /\ isConnected(partner) /\ state[partner] = "Connected"

\* No thread is left to post for c: the end of the connection of the player
\* the host let in was told to nobody, and a later connection was rejected;
\* or a peer entered with the answer to an earlier join of his, and nobody
\* will ever accept the connection of this one.
LeftToTimeout(c) ==
  LET k == transport[c] IN
  \/ /\ c = Host /\ k = NoTransport
     /\ \E n \in lost : era[n]["host"] = sessions[Host] /\ key[n] = sessions[Host]
  \/ /\ c # Host /\ k # NoTransport
     /\ acceptor = "failed" /\ end[k]["host"] = "open"

\* Nobody stays in a session alone, and the events of the connections are
\* enough for it but in the two cases above: a connected program whose
\* partner has left, crashed or was replaced gets it back or leaves too.
NobodyStaysAlone ==
  \A c \in Clients :
    (state[c] = "Connected" /\ ~Answered(c)) ~>
      (state[c] # "Connected" \/ Answered(c) \/ LeftToTimeout(c))

\* The room's one place is not held by a connection whose peer has gone, also
\* when the peer went before it said hello.
PlaceIsFreed ==
  \A k \in Connections :
    (transport[Host] = k /\ end[k]["peer"] = "closed") ~> (transport[Host] # k)
=============================================================================
