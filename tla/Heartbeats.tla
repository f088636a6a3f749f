----------------------------- MODULE Heartbeats -----------------------------
(***************************************************************************)
(* How two connected clients know of each other's silence: the timed part  *)
(* of SessionManager::tick.  The ping's timer counts the frames' own times *)
(* and so stands still where no frame is drawn; the timeout is read from   *)
(* the wall clock, which the user or the system may set.  A client's       *)
(* frames may stall, its user may leave the editor (no tick, session       *)
(* kept), and the network may be cut without either side being told.       *)
(***************************************************************************)
EXTENDS Integers, Sequences, FiniteSetsExt

CONSTANTS
  Host, Peer,
  Interval,    \* HEARTBEAT_INTERVAL_MS
  Timeout,     \* HEARTBEAT_TIMEOUT_MS
  Delay,       \* how long a message travels at most
  Gap,         \* [Clients -> Nat]: how long a client's frames stall at most
  MaxSkew,     \* how far a clock is set, at most once
  Leavers,     \* bound: the clients whose user may leave the editor
  Setters      \* bound: the clients whose clock may be set

Clients == {Host, Peer}
other(c) == IF c = Host THEN Peer ELSE Host

ASSUME TimesAssumption ==
  /\ Host # Peer
  /\ Interval \in Nat \ {0} /\ {Timeout, Delay, MaxSkew} \subseteq Nat /\ Gap \in [Clients -> Nat]

VARIABLES
  state,      \* [Clients -> {"joining", "connected", "off"}]
  editing,    \* [Clients -> BOOLEAN]: the level editor is open and draws frames
  left,       \* history: [Clients -> BOOLEAN], it was closed during the session
  sinceFrame, \* [Clients -> Nat]: time since the last frame
  accum,      \* [Clients -> Nat]: m_heartbeatAccum
  beaten,     \* [Clients -> BOOLEAN]: m_lastHeartbeatMs is not 0
  quiet,      \* [Clients -> Nat]: time since m_lastHeartbeatMs was set
  shift,      \* [Clients -> Int]: how far the clock was set since
  clockSet,   \* a clock was set
  wire,       \* [Clients -> Seq]: what travels to a client, [what, age]
  inbox,      \* [Clients -> ...]: what its m_queue holds, see NoMail
  cut,        \* nothing arrives any more
  cutFor      \* how long, at most CutBound

vars == <<state, editing, left, sinceFrame, accum, beaten, quiet, shift, clockSet, wire, inbox,
          cut, cutFor>>

\* A queue is emptied at once, and among heartbeats the order has no effect: it
\* is how many pings there are to answer, whether there is a pong, and whether
\* hello_ack came before them and the end of the stream after them.
NoMail == [ack |-> FALSE, pings |-> 0, pong |-> FALSE, eof |-> FALSE]

\* Bounds: ages are not told apart beyond these.
QuietBound == Timeout + MaxSkew + 1
CutBound == Timeout + MaxSkew + 2 * Max({Gap[Host], Gap[Peer]}) + 1

TypeOK ==
  /\ state \in [Clients -> {"joining", "connected", "off"}]
  /\ editing \in [Clients -> BOOLEAN] /\ left \in [Clients -> BOOLEAN]
  /\ \A c \in Clients : /\ sinceFrame[c] \in 0..Gap[c]
                        /\ accum[c] \in 0..(Interval - 1)
                        /\ shift[c] \in -MaxSkew..MaxSkew
                        /\ state[c] = "connected" => beaten[c]
                        /\ \A i \in DOMAIN wire[c] : wire[c][i].age \in 0..Delay
  /\ inbox \in [Clients -> [ack : BOOLEAN, pings : Nat, pong : BOOLEAN, eof : BOOLEAN]]
  /\ beaten \in [Clients -> BOOLEAN] /\ quiet \in [Clients -> 0..QuietBound]
  /\ clockSet \in BOOLEAN /\ cut \in BOOLEAN /\ cutFor \in 0..CutBound

\* The host has handled the peer's hello, its answer is on the way.
Init ==
  /\ state = [c \in Clients |-> IF c = Host THEN "connected" ELSE "joining"]
  /\ editing = [c \in Clients |-> TRUE] /\ left = [c \in Clients |-> FALSE]
  /\ sinceFrame = [c \in Clients |-> 0] /\ accum = [c \in Clients |-> 0]
  /\ beaten = [c \in Clients |-> c = Host]
  /\ quiet = [c \in Clients |-> 0] /\ shift = [c \in Clients |-> 0] /\ clockSet = FALSE
  /\ wire = [c \in Clients |-> IF c = Host THEN <<>> ELSE <<[what |-> "ack", age |-> 0]>>]
  /\ inbox = [c \in Clients |-> NoMail]
  /\ cut = FALSE /\ cutFor = 0

-----------------------------------------------------------------------------
(* A tick, as a function of the client's record                            *)
(* k = [state, accum, beaten, quiet, shift, out].                          *)

beat(k) == [k EXCEPT !.beaten = TRUE, !.quiet = 0, !.shift = 0]
sent(k, what) == [k EXCEPT !.out = Append(@, what)]

\* disconnect(): the partner's receive thread will read the end of the stream.
disconnect(k) ==
  [k EXCEPT !.state = "off", !.beaten = FALSE, !.quiet = 0, !.shift = 0, !.accum = 0,
            !.out = Append(@, "eof")]

\* Mutant of connect: m_lastHeartbeatMs stays 0.
connectsUnbeaten(k) == [k EXCEPT !.state = "connected", !.accum = 0]

\* handlePeerHelloAck.
connect(k) == [beat(k) EXCEPT !.state = "connected", !.accum = 0]

\* handleHeartbeat, for all of them: each ping is answered, both kinds count.
handleHeartbeats(k, mail) ==
  IF k.state = "connected" /\ (mail.pings > 0 \/ mail.pong)
  THEN [beat(k) EXCEPT !.out = [i \in 1..mail.pings |-> "pong"]]
  ELSE k

\* drainQueue.
drained(k, mail) ==
  LET answered == IF mail.ack /\ k.state = "joining" THEN connect(k) ELSE k
      heard == handleHeartbeats(answered, mail)
  IN IF mail.eof THEN disconnect(heard) ELSE heard

\* Clock::elapsed(m_lastHeartbeatMs).
elapsed(k) == Max({0, k.quiet + k.shift})

sendPings(k, dt) ==
  IF k.accum + dt >= Interval THEN sent([k EXCEPT !.accum = 0], "ping")
  ELSE [k EXCEPT !.accum = @ + dt]

checkTimeout(k) ==
  IF k.beaten /\ elapsed(k) > Timeout THEN disconnect(k) ELSE k

\* Mutant of ticked: the timeout is tested before the queue is drained.
testsFirst(k, mail, dt) ==
  LET tested == IF k.state = "connected" THEN checkTimeout(k) ELSE k
      now == drained(tested, mail)
  IN IF now.state = "connected" THEN sendPings(now, dt) ELSE now

\* SessionManager::tick(dt).
ticked(k, mail, dt) ==
  LET now == drained(k, mail)
  IN IF now.state = "connected" THEN checkTimeout(sendPings(now, dt)) ELSE now

tick(c, dt) ==
  LET k == ticked([state |-> state[c], accum |-> accum[c], beaten |-> beaten[c],
                   quiet |-> quiet[c], shift |-> shift[c], out |-> <<>>], inbox[c], dt)
  IN /\ state' = [state EXCEPT ![c] = k.state]
     /\ accum' = [accum EXCEPT ![c] = k.accum]
     /\ beaten' = [beaten EXCEPT ![c] = k.beaten]
     /\ quiet' = [quiet EXCEPT ![c] = k.quiet]
     /\ shift' = [shift EXCEPT ![c] = k.shift]
     /\ inbox' = [inbox EXCEPT ![c] = NoMail]
     /\ wire' = [d \in Clients |->
          IF cut \/ state'[d] = "off" THEN <<>>
          ELSE IF d = c THEN wire[d]
          ELSE wire[d] \o [i \in DOMAIN k.out |-> [what |-> k.out[i], age |-> 0]]]
     /\ UNCHANGED <<editing, left, clockSet, cut, cutFor>>

\* smTick: a frame of the editor.
frame(c) ==
  /\ editing[c] /\ state[c] # "off" /\ sinceFrame[c] > 0
  /\ sinceFrame' = [sinceFrame EXCEPT ![c] = 0]
  /\ tick(c, sinceFrame[c])

\* statusTick of a popup: a tick without time.
statusTick(c) ==
  /\ editing[c] /\ state[c] # "off"
  /\ UNCHANGED sinceFrame
  /\ tick(c, 0)

posted(mail, what) ==
  CASE what = "ack" -> [mail EXCEPT !.ack = TRUE]
    [] what = "ping" -> [mail EXCEPT !.pings = @ + 1]
    [] what = "pong" -> [mail EXCEPT !.pong = TRUE]
    [] what = "eof" -> [mail EXCEPT !.eof = TRUE]

\* The receive thread posts.
receive(c) ==
  /\ wire[c] # <<>> /\ ~cut
  /\ wire' = [wire EXCEPT ![c] = Tail(@)]
  /\ inbox' = [inbox EXCEPT ![c] = posted(@, Head(wire[c]).what)]
  /\ UNCHANGED <<state, editing, left, sinceFrame, accum, beaten, quiet, shift, clockSet, cut,
                 cutFor>>

leaveEditor(c) ==
  /\ c \in Leavers /\ editing[c] /\ state[c] # "off"
  /\ editing' = [editing EXCEPT ![c] = FALSE] /\ left' = [left EXCEPT ![c] = TRUE]
  /\ UNCHANGED <<state, sinceFrame, accum, beaten, quiet, shift, clockSet, wire, inbox, cut,
                 cutFor>>

enterEditor(c) ==
  /\ ~editing[c]
  /\ editing' = [editing EXCEPT ![c] = TRUE]
  /\ sinceFrame' = [sinceFrame EXCEPT ![c] = 0]
  /\ UNCHANGED <<state, left, accum, beaten, quiet, shift, clockSet, wire, inbox, cut, cutFor>>

setClock(c, by) ==
  /\ c \in Setters /\ state[c] = "connected" /\ ~clockSet
  /\ clockSet' = TRUE /\ shift' = [shift EXCEPT ![c] = by]
  /\ UNCHANGED <<state, editing, left, sinceFrame, accum, beaten, quiet, wire, inbox, cut, cutFor>>

cutNetwork ==
  /\ ~cut /\ cut' = TRUE /\ wire' = [c \in Clients |-> <<>>]
  /\ UNCHANGED <<state, editing, left, sinceFrame, accum, beaten, quiet, shift, clockSet, inbox,
                 cutFor>>

\* Time passes, but not past a message's delay or a frame's gap.
pass ==
  /\ \A c \in Clients :
       /\ editing[c] /\ state[c] # "off" => sinceFrame[c] < Gap[c]
       /\ \A i \in DOMAIN wire[c] : wire[c][i].age < Delay
  /\ wire' = [c \in Clients |-> [i \in DOMAIN wire[c] |->
                [wire[c][i] EXCEPT !.age = @ + 1]]]
  /\ sinceFrame' = [c \in Clients |->
       IF editing[c] /\ state[c] # "off" THEN sinceFrame[c] + 1 ELSE sinceFrame[c]]
  /\ quiet' = [c \in Clients |->
       IF state[c] = "connected" THEN Min({quiet[c] + 1, QuietBound}) ELSE quiet[c]]
  /\ cutFor' = IF cut THEN Min({cutFor + 1, CutBound}) ELSE cutFor
  /\ UNCHANGED <<state, editing, left, accum, beaten, shift, clockSet, inbox, cut>>

Next ==
  \/ \E c \in Clients : \/ frame(c) \/ statusTick(c) \/ receive(c)
                        \/ leaveEditor(c) \/ enterEditor(c)
                        \/ \E by \in {-MaxSkew, MaxSkew} : setClock(c, by)
  \/ cutNetwork
  \/ pass

Spec == Init /\ [][Next]_vars

-----------------------------------------------------------------------------
(* Properties.                                                             *)

\* The host counts from its answer to the hello on, which has to travel before
\* the peer's first interval begins.
firstWait(c) == IF c = Host THEN Delay ELSE 0

\* The partner's ping is due and handled before the timeout.
Fits(c) == firstWait(c) + Interval + Gap[other(c)] + Delay + MaxSkew <= Timeout

timesOut(c) ==
  /\ state[c] = "connected" /\ state'[c] = "off" /\ ~inbox[c].eof

\* A client never drops a partner that is in its editor and reachable, whatever
\* its own frames do: only the partner's stalls, the delay and the clock count
\* against the timeout.
NoFalseTimeout ==
  [][\A c \in Clients : Fits(c) /\ timesOut(c) => cut \/ left[other(c)]]_vars

\* A client that stays in its editor gives up on a cut connection in time,
\* from whatever point of the session on the network is cut.
SilenceIsNoticed ==
  \A c \in Clients :
    state[c] = "connected" /\ ~left[c] => cutFor <= Timeout + MaxSkew + 2 * Gap[c]
=============================================================================
