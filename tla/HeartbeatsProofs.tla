-------------------------- MODULE HeartbeatsProofs --------------------------
(***************************************************************************)
(* Theorems about Heartbeats for every interval, timeout, delay, stall and *)
(* skew, from the inductive invariant TimedInv: what one tick does to a    *)
(* client is stated once (Ticked), then one lemma per action that the      *)
(* action preserves each part of the invariant.                            *)
(***************************************************************************)
EXTENDS Heartbeats, TLAPS, SequenceTheorems

Words == {"ack", "ping", "pong", "eof"}
Travelling == [what : Words, age : 0..Delay]
Mails == [ack : BOOLEAN, pings : Nat, pong : BOOLEAN, eof : BOOLEAN]

TypesOK ==
  /\ state \in [Clients -> {"joining", "connected", "off"}]
  /\ editing \in [Clients -> BOOLEAN] /\ left \in [Clients -> BOOLEAN]
  /\ sinceFrame \in [Clients -> Nat] /\ accum \in [Clients -> 0..(Interval - 1)]
  /\ beaten \in [Clients -> BOOLEAN] /\ quiet \in [Clients -> 0..QuietBound]
  /\ shift \in [Clients -> -MaxSkew..MaxSkew] /\ clockSet \in BOOLEAN
  /\ wire \in [Clients -> Seq(Travelling)] /\ inbox \in [Clients -> Mails]
  /\ cut \in BOOLEAN /\ cutFor \in 0..CutBound
  /\ \A c \in Clients : sinceFrame[c] <= Gap[c]

\* A connected client has a last heartbeat, only who left is not in the editor,
\* and a cut network carries nothing.
PlainOK ==
  /\ \A c \in Clients : /\ state[c] = "connected" => beaten[c]
                        /\ left[c] \/ editing[c]
                        /\ cut => wire[c] = <<>>
  /\ cut \/ cutFor = 0

\* The answer to the hello is the first message to the peer, and it is under
\* way, or at the peer, as long as the peer is joining and the network works.
AckOK ==
  /\ state[Host] # "joining"
  /\ \A c \in Clients : inbox[c].ack => c = Peer
  /\ \A c \in Clients : \A i \in DOMAIN wire[c] :
       wire[c][i].what = "ack" => i = 1 /\ c = Peer /\ state[c] = "joining" /\ ~inbox[c].ack
  /\ state[Peer] = "joining" /\ ~cut /\ ~inbox[Peer].ack =>
       wire[Peer] # <<>> /\ wire[Peer][1].what = "ack"

\* A client whose partner is gone will read the end of the stream.
EndOK ==
  \A c \in Clients : state[c] # "off" /\ state[other(c)] = "off" /\ ~cut =>
    inbox[c].eof \/ \E i \in DOMAIN wire[c] : wire[c][i].what = "eof"

\* Nothing is heard since the last tick that would reset the timeout or end the
\* session.
Unheard(c) == inbox[c].pings = 0 /\ ~inbox[c].pong /\ ~inbox[c].eof

\* How long a connected client can have heard nothing when its partner, which is
\* in its editor, sends.
Silence(c) == firstWait(c) + (Interval - 1) + Gap[other(c)]

\* The silence of a connected client c is explained: by a message on its way,
\* by what the partner counts since its last ping, or by the answer to the
\* hello that the partner waits for.
HeardOK(c) ==
  state[c] = "connected" /\ ~cut /\ ~left[other(c)] /\ Unheard(c) =>
    /\ wire[c] # <<>> => quiet[c] <= Silence(c) + wire[c][1].age
    /\ wire[c] = <<>> =>
         /\ state[other(c)] = "connected" =>
              quiet[c] <= firstWait(c) + accum[other(c)] + sinceFrame[other(c)]
         /\ state[other(c)] = "joining" =>
              IF inbox[other(c)].ack
              THEN quiet[c] <= firstWait(c) + sinceFrame[other(c)]
              ELSE quiet[c] <= wire[other(c)][1].age

\* What a client that stays in its editor makes of a cut network: mail is
\* handled in the next frame, from then on the silence counts, and no frame
\* passes that does not compare it with the timeout.
CutOK(c) ==
  cut /\ ~left[c] /\ state[c] # "off" =>
    /\ inbox[c] # NoMail => cutFor <= sinceFrame[c]
    /\ state[c] = "connected" =>
         /\ quiet[c] = QuietBound \/ cutFor <= quiet[c] + Gap[c]
         /\ cutFor <= Timeout + MaxSkew + Gap[c] + sinceFrame[c]

\* The inductive invariant.
TimedInv ==
  TypesOK /\ PlainOK /\ AckOK /\ EndOK /\ \A c \in Clients : HeardOK(c) /\ CutOK(c)
-----------------------------------------------------------------------------
(***************************************************************************)
(* Numbers.                                                                *)
(***************************************************************************)

\* The larger and the smaller of two integers.
LEMMA MaxOfTwo ==
  ASSUME NEW a \in Int, NEW b \in Int
  PROVE  Max({a, b}) = IF a >= b THEN a ELSE b
<1>1. \E x \in {a, b} : \A y \in {a, b} : x >= y
  OBVIOUS
<1>2. Max({a, b}) \in {a, b} /\ \A y \in {a, b} : Max({a, b}) >= y
  BY <1>1, Zenon DEF Max
<1> QED BY <1>2

LEMMA MinOfTwo ==
  ASSUME NEW a \in Int, NEW b \in Int
  PROVE  Min({a, b}) = IF a <= b THEN a ELSE b
<1>1. \E x \in {a, b} : \A y \in {a, b} : x =< y
  OBVIOUS
<1>2. Min({a, b}) \in {a, b} /\ \A y \in {a, b} : Min({a, b}) =< y
  BY <1>1, Zenon DEF Min
<1> QED BY <1>2

LEMMA ClientsFacts ==
  /\ Host \in Clients /\ Peer \in Clients /\ Host # Peer
  /\ \A c \in Clients : /\ c = Host \/ c = Peer
                        /\ other(c) \in Clients /\ other(c) # c /\ other(other(c)) = c
  /\ other(Host) = Peer /\ other(Peer) = Host
  /\ \A c, d \in Clients : d = c \/ d = other(c)
  BY TimesAssumption DEF Clients, other

LEMMA BoundsFacts ==
  /\ Interval \in Nat /\ Interval > 0 /\ Timeout \in Nat /\ Delay \in Nat /\ MaxSkew \in Nat
  /\ \A c \in Clients : /\ Gap[c] \in Nat /\ firstWait(c) \in 0..Delay
                        /\ Silence(c) \in Nat
                        /\ Silence(c) >= firstWait(c) + Gap[other(c)]
                        /\ Silence(c) = firstWait(c) + (Interval - 1) + Gap[other(c)]
  /\ QuietBound \in Nat /\ QuietBound = Timeout + MaxSkew + 1
  /\ CutBound \in Nat
<1>1. /\ Interval \in Nat /\ Interval > 0 /\ Timeout \in Nat /\ Delay \in Nat
      /\ MaxSkew \in Nat /\ Gap \in [Clients -> Nat]
  BY TimesAssumption
<1>2. ASSUME NEW c \in Clients
      PROVE  /\ Gap[c] \in Nat /\ firstWait(c) \in 0..Delay
             /\ Silence(c) \in Nat
             /\ Silence(c) >= firstWait(c) + Gap[other(c)]
  BY <1>1, ClientsFacts DEF firstWait, Silence
<1>3. Gap[Host] \in Nat /\ Gap[Peer] \in Nat
  BY <1>1, ClientsFacts
<1>4. Max({Gap[Host], Gap[Peer]}) \in Nat
  BY <1>3, MaxOfTwo
<1> QED BY <1>1, <1>2, <1>4 DEF QuietBound, CutBound, Silence

-----------------------------------------------------------------------------
(***************************************************************************)
(* One tick of one client.                                                 *)
(***************************************************************************)

Tallies ==
  [state : {"joining", "connected", "off"}, accum : 0..(Interval - 1), beaten : BOOLEAN,
   quiet : 0..QuietBound, shift : -MaxSkew..MaxSkew, out : Seq({"ping", "pong", "eof"})]

\* The values a tick resets to are in range.
LEMMA ZeroFits ==
  0 \in 0..(Interval - 1) /\ 0 \in 0..QuietBound /\ 0 \in -MaxSkew..MaxSkew
  BY BoundsFacts

LEMMA BeatTally ==
  ASSUME NEW k \in Tallies, NEW r, r = beat(k)
  PROVE  /\ r \in Tallies
         /\ r.state = k.state /\ r.accum = k.accum /\ r.beaten /\ r.quiet = 0 /\ r.shift = 0
         /\ r.out = k.out
  BY ZeroFits DEF beat, Tallies

LEMMA ConnectTally ==
  ASSUME NEW k \in Tallies, NEW r, r = connect(k)
  PROVE  /\ r \in Tallies
         /\ r.state = "connected" /\ r.accum = 0 /\ r.beaten /\ r.quiet = 0 /\ r.shift = 0
         /\ r.out = k.out
<1> DEFINE b == beat(k)
<1>1. b \in Tallies /\ b.beaten /\ b.quiet = 0 /\ b.shift = 0 /\ b.out = k.out
  BY BeatTally
<1>2. r = [b EXCEPT !.state = "connected", !.accum = 0]
  BY DEF connect
<1> HIDE DEF b
<1> QED BY <1>1, <1>2, ZeroFits DEF Tallies

LEMMA DisconnectTally ==
  ASSUME NEW k \in Tallies, NEW r, r = disconnect(k)
  PROVE  /\ r \in Tallies /\ r.state = "off"
         /\ \E i \in DOMAIN r.out : r.out[i] = "eof"
<1>1. Append(k.out, "eof") \in Seq({"ping", "pong", "eof"})
  BY DEF Tallies
<1>2. r \in Tallies /\ r.state = "off" /\ r.out = Append(k.out, "eof")
  BY <1>1, ZeroFits DEF disconnect, Tallies
<1>3. /\ Len(k.out) + 1 \in DOMAIN Append(k.out, "eof")
      /\ Append(k.out, "eof")[Len(k.out) + 1] = "eof"
  BY DEF Tallies
<1> QED BY <1>2, <1>3

\* What handling the mail makes of a client: k before, r after.
LEMMA Drained ==
  ASSUME NEW k \in Tallies, k.out = <<>>, k.state # "off",
         k.state = "connected" => k.beaten, NEW mail \in Mails, NEW r, r = drained(k, mail)
  PROVE  /\ r \in Tallies
         /\ r.state = "connected" =>
              /\ r.beaten /\ ~mail.eof
              /\ \/ /\ r.quiet = 0 /\ r.shift = 0
                    /\ mail.ack \/ mail.pings # 0 \/ mail.pong
                 \/ /\ k.state = "connected" /\ mail.pings = 0 /\ ~mail.pong
                    /\ r.quiet = k.quiet /\ r.shift = k.shift
              /\ r.accum = IF k.state = "connected" THEN k.accum ELSE 0
              /\ k.state = "connected" \/ mail.ack
         /\ r.state = "joining" => k.state = "joining" /\ ~mail.ack /\ r.out = <<>> /\ ~mail.eof
         /\ r.state = "off" => mail.eof /\ \E i \in DOMAIN r.out : r.out[i] = "eof"
<1> DEFINE a == IF mail.ack /\ k.state = "joining" THEN connect(k) ELSE k
           h == handleHeartbeats(a, mail)
<1>1. /\ a \in Tallies /\ a.out = <<>>
      /\ a.state = "connected" => a.beaten
      /\ a.state # "off"
      /\ a.state = "connected" =>
           \/ k.state = "connected" /\ a = k
           \/ /\ mail.ack /\ k.state = "joining" /\ a.quiet = 0 /\ a.shift = 0 /\ a.accum = 0
      /\ a.state = "joining" => k.state = "joining" /\ ~mail.ack
  <2>1. CASE mail.ack /\ k.state = "joining"
    BY <2>1, ConnectTally
  <2>2. CASE ~(mail.ack /\ k.state = "joining")
    <3>1. a = k
      BY <2>2
    <3> HIDE DEF a
    <3> QED BY <2>2, <3>1
  <2> QED BY <2>1, <2>2
<1> HIDE DEF a
<1>2. [i \in 1..mail.pings |-> "pong"] \in Seq({"ping", "pong", "eof"})
  BY DEF Mails
<1>3. /\ h \in Tallies /\ h.state = a.state /\ h.accum = a.accum
      /\ a.state = "connected" => h.beaten
      /\ a.state = "connected" =>
           \/ h.quiet = 0 /\ h.shift = 0 /\ (mail.pings # 0 \/ mail.pong)
           \/ mail.pings = 0 /\ ~mail.pong /\ h = a
      /\ a.state = "joining" => h = a
  <2>1. CASE a.state = "connected" /\ (mail.pings > 0 \/ mail.pong)
    <3>1. h = [beat(a) EXCEPT !.out = [i \in 1..mail.pings |-> "pong"]]
      BY <2>1 DEF handleHeartbeats
    <3>2. a \in Tallies /\ a.state = "connected"
      BY <1>1, <2>1
    <3> DEFINE b == beat(a)
    <3>3. b \in Tallies /\ b.state = a.state /\ b.accum = a.accum /\ b.beaten /\ b.quiet = 0
          /\ b.shift = 0
      BY <3>2, BeatTally
    <3> HIDE DEF b, h
    <3>4. h = [b EXCEPT !.out = [i \in 1..mail.pings |-> "pong"]]
      BY <3>1 DEF b
    <3>5. /\ h \in Tallies /\ h.state = a.state /\ h.accum = a.accum /\ h.beaten
          /\ h.quiet = 0 /\ h.shift = 0
      BY <1>2, <3>3, <3>4 DEF Tallies
    <3>6. mail.pings # 0 \/ mail.pong
      BY <2>1 DEF Mails
    <3> QED BY <3>2, <3>5, <3>6
  <2>2. CASE ~(a.state = "connected" /\ (mail.pings > 0 \/ mail.pong))
    <3>1. h = a
      BY <2>2 DEF handleHeartbeats
    <3>2. a.state = "connected" => mail.pings = 0 /\ ~mail.pong
      BY <2>2 DEF Mails
    <3> HIDE DEF h
    <3>3. a.state = "connected" => a.beaten
      BY <1>1
    <3>4. a \in Tallies
      BY <1>1
    <3> QED BY <3>1, <3>2, <3>3, <3>4, Zenon
  <2> QED BY <2>1, <2>2
<1>4. r = IF mail.eof THEN disconnect(h) ELSE h
  BY DEF drained, a
<1> HIDE DEF h
<1>5. CASE mail.eof
  <2>2. r = disconnect(h) /\ h \in Tallies
    BY <1>3, <1>4, <1>5
  <2>4. r \in Tallies /\ r.state = "off" /\ \E i \in DOMAIN r.out : r.out[i] = "eof"
    BY <2>2, DisconnectTally
  <2> QED BY <1>5, <2>4
<1>6. CASE ~mail.eof
  <2>1. r = h
    BY <1>4, <1>6
  <2>2. r.state # "off"
    BY <1>1, <1>3, <2>1
  <2>3. CASE a.state = "connected"
    <3>1. /\ r.state = "connected" /\ r.beaten /\ r.accum = a.accum
          /\ \/ r.quiet = 0 /\ r.shift = 0 /\ (mail.pings # 0 \/ mail.pong)
             \/ mail.pings = 0 /\ ~mail.pong /\ r = a
      BY <1>3, <2>1, <2>3
    <3>2. a.accum = IF k.state = "connected" THEN k.accum ELSE 0
      BY <1>1, <2>3
    <3>3. \/ r.quiet = 0 /\ r.shift = 0 /\ (mail.ack \/ mail.pings # 0 \/ mail.pong)
          \/ /\ k.state = "connected" /\ mail.pings = 0 /\ ~mail.pong
             /\ r.quiet = k.quiet /\ r.shift = k.shift
      BY <1>1, <2>3, <3>1
    <3>4. k.state = "connected" \/ mail.ack
      BY <1>1, <2>3
    <3> QED BY <1>3, <1>6, <2>1, <3>1, <3>2, <3>3, <3>4
  <2>4. CASE a.state # "connected"
    <3>1. a.state = "joining" /\ r = a
      BY <1>1, <1>3, <2>1, <2>4 DEF Tallies
    <3>2. k.state = "joining" /\ ~mail.ack /\ a \in Tallies /\ a.out = <<>>
      BY <1>1, <3>1
    <3> QED BY <1>6, <3>1, <3>2
  <2> QED BY <2>3, <2>4
<1> QED BY <1>5, <1>6 DEF Mails
\* What a tick makes of a client.
LEMMA Ticked ==
  ASSUME NEW k \in Tallies, k.out = <<>>, k.state # "off",
         k.state = "connected" => k.beaten, NEW mail \in Mails, NEW dt \in Nat,
         NEW r, r = ticked(k, mail, dt)
  PROVE  /\ r \in Tallies
         /\ r.state = "connected" =>
              /\ r.beaten /\ ~mail.eof
              /\ r.quiet + r.shift <= Timeout
              /\ \/ r.quiet = 0 /\ (mail.ack \/ mail.pings # 0 \/ mail.pong)
                 \/ /\ k.state = "connected" /\ mail.pings = 0 /\ ~mail.pong
                    /\ r.quiet = k.quiet
              /\ k.state = "connected" \/ mail.ack
              /\ r.out = <<>> =>
                   r.accum = IF k.state = "connected" THEN k.accum + dt ELSE dt
         /\ r.state = "joining" => k.state = "joining" /\ ~mail.ack /\ r.out = <<>> /\ ~mail.eof
         /\ r.state = "off" =>
              /\ \E i \in DOMAIN r.out : r.out[i] = "eof"
              /\ \/ mail.eof
                 \/ /\ k.state = "connected" /\ mail.pings = 0 /\ ~mail.pong
                    /\ k.quiet + k.shift > Timeout
<1> DEFINE d == drained(k, mail)
           p == sendPings(d, dt)
<1>1. /\ d \in Tallies
      /\ d.state = "connected" =>
           /\ d.beaten /\ ~mail.eof
           /\ \/ /\ d.quiet = 0 /\ d.shift = 0
                 /\ mail.ack \/ mail.pings # 0 \/ mail.pong
              \/ /\ k.state = "connected" /\ mail.pings = 0 /\ ~mail.pong
                 /\ d.quiet = k.quiet /\ d.shift = k.shift
           /\ d.accum = IF k.state = "connected" THEN k.accum ELSE 0
           /\ k.state = "connected" \/ mail.ack
      /\ d.state = "joining" => k.state = "joining" /\ ~mail.ack /\ d.out = <<>> /\ ~mail.eof
      /\ d.state = "off" => mail.eof /\ \E i \in DOMAIN d.out : d.out[i] = "eof"
  BY Drained
<1>2. r = IF d.state = "connected" THEN checkTimeout(p) ELSE d
  BY DEF ticked
<1> HIDE DEF d
<1>3. CASE d.state # "connected"
  <2>1. r = d
    BY <1>2, <1>3
  <2> QED BY <1>1, <1>3, <2>1 DEF Tallies
<1>4. CASE d.state = "connected"
  <2>1. /\ p \in Tallies /\ p.state = "connected" /\ p.beaten
        /\ p.quiet = d.quiet /\ p.shift = d.shift
        /\ p.out = <<>> => p.accum = d.accum + dt
    <3>1. CASE d.accum + dt >= Interval
      <4>1. p = [[d EXCEPT !.accum = 0] EXCEPT !.out = Append([d EXCEPT !.accum = 0].out, "ping")]
        BY <3>1 DEF sendPings, sent
      <4> DEFINE e == [d EXCEPT !.accum = 0]
      <4>2. e \in Tallies /\ e.state = "connected" /\ e.beaten /\ e.quiet = d.quiet
            /\ e.shift = d.shift
        BY <1>1, <1>4, ZeroFits DEF Tallies
      <4>3. p = [e EXCEPT !.out = Append(e.out, "ping")]
        BY <4>1
      <4> HIDE DEF e
      <4>4. Append(e.out, "ping") \in Seq({"ping", "pong", "eof"}) /\ Append(e.out, "ping") # <<>>
        BY <4>2 DEF Tallies
      <4> HIDE DEF p
      <4> QED BY <4>2, <4>3, <4>4 DEF Tallies
    <3>2. CASE ~(d.accum + dt >= Interval)
      <4>1. p = [d EXCEPT !.accum = d.accum + dt]
        BY <3>2 DEF sendPings
      <4>2. d.accum + dt \in 0..(Interval - 1)
        BY <1>1, <3>2, BoundsFacts DEF Tallies
      <4> HIDE DEF p
      <4> QED BY <1>1, <1>4, <4>1, <4>2 DEF Tallies
    <3> QED BY <3>1, <3>2
  <2> HIDE DEF p
  <2>2. elapsed(p) = IF p.quiet + p.shift >= 0 THEN p.quiet + p.shift ELSE 0
    <3>1. p.quiet + p.shift \in Int
      BY <2>1, BoundsFacts DEF Tallies
    <3>2. Max({0, p.quiet + p.shift}) = IF 0 >= p.quiet + p.shift THEN 0 ELSE p.quiet + p.shift
      BY <3>1, MaxOfTwo
    <3> QED BY <3>1, <3>2 DEF elapsed
  <2>3. p.quiet + p.shift \in Int /\ k.quiet \in Int /\ k.shift \in Int
    BY <2>1, BoundsFacts DEF Tallies
  <2>4. CASE elapsed(p) > Timeout
    <3>1. r = disconnect(p)
      BY <1>2, <1>4, <2>1, <2>4 DEF checkTimeout
    <3>2. r \in Tallies /\ r.state = "off" /\ \E i \in DOMAIN r.out : r.out[i] = "eof"
      BY <2>1, <3>1, DisconnectTally
    <3>4. p.quiet + p.shift > Timeout
      BY <2>2, <2>3, <2>4, BoundsFacts
    <3>5. ~(d.quiet = 0 /\ d.shift = 0)
      BY <2>1, <3>4, BoundsFacts
    <3>6. /\ k.state = "connected" /\ mail.pings = 0 /\ ~mail.pong
          /\ d.quiet = k.quiet /\ d.shift = k.shift
      BY <1>1, <1>4, <3>5
    <3>7. k.quiet + k.shift > Timeout
      BY <2>1, <3>4, <3>6
    <3> QED BY <3>2, <3>6, <3>7
  <2>5. CASE ~(elapsed(p) > Timeout)
    <3>1. r = p
      BY <1>2, <1>4, <2>5 DEF checkTimeout
    <3>2. p.quiet + p.shift <= Timeout
      BY <2>2, <2>3, <2>5, BoundsFacts
    <3>3. /\ r \in Tallies /\ r.state = "connected" /\ r.beaten
          /\ r.quiet = d.quiet /\ r.quiet + r.shift <= Timeout
          /\ r.out = <<>> => r.accum = d.accum + dt
      BY <2>1, <3>1, <3>2
    <3>4. /\ ~mail.eof
          /\ \/ d.quiet = 0 /\ (mail.ack \/ mail.pings # 0 \/ mail.pong)
             \/ /\ k.state = "connected" /\ mail.pings = 0 /\ ~mail.pong
                /\ d.quiet = k.quiet
          /\ d.accum = IF k.state = "connected" THEN k.accum ELSE 0
          /\ k.state = "connected" \/ mail.ack
      BY <1>1, <1>4
    <3>5. r.out = <<>> => r.accum = IF k.state = "connected" THEN k.accum + dt ELSE dt
      BY <3>3, <3>4
    <3> QED BY <3>3, <3>4, <3>5
  <2> QED BY <2>4, <2>5
<1> QED BY <1>3, <1>4
-----------------------------------------------------------------------------
(***************************************************************************)
(* What travels.                                                           *)
(***************************************************************************)

\* The message at the head.
LEMMA HeadTravels ==
  ASSUME NEW w \in Seq(Travelling), w # <<>>
  PROVE  w[1] \in Travelling /\ w[1].age \in 0..Delay /\ w[1].age \in Nat /\ w[1].age <= Delay
<1>1. 1 \in 1..Len(w)
  OBVIOUS
<1>2. w[1] \in Travelling
  BY <1>1
<1> QED BY <1>2, BoundsFacts DEF Travelling

\* What a client sends, as it sets out.
Addressed(out) == [i \in DOMAIN out |-> [what |-> out[i], age |-> 0]]

\* What a client sent is behind what was under way: v is w and then out.
Follows(v, w, out) ==
  /\ v \in Seq(Travelling)
  /\ \A i \in DOMAIN w : i \in DOMAIN v /\ v[i] = w[i]
  /\ \A i \in DOMAIN v : i \in DOMAIN w \/ v[i].what # "ack"
  /\ \A i \in DOMAIN out : \E j \in DOMAIN v : v[j].what = out[i]
  /\ w # <<>> => v # <<>> /\ v[1] = w[1]
  /\ w = <<>> /\ out # <<>> => v # <<>> /\ v[1].age = 0
  /\ w = <<>> /\ out = <<>> => v = <<>>

LEMMA Carried ==
  ASSUME NEW w \in Seq(Travelling), NEW out \in Seq({"ping", "pong", "eof"})
  PROVE  Follows(w \o Addressed(out), w, out)
<1> DEFINE v == w \o Addressed(out)
<1> DEFINE t == [i \in DOMAIN out |-> [what |-> out[i], age |-> 0]]
<1>1. DOMAIN out = 1..Len(out) /\ Len(out) \in Nat
      /\ \A i \in 1..Len(out) : out[i] \in {"ping", "pong", "eof"}
  OBVIOUS
<1>2. \A i \in 1..Len(out) :
        t[i] \in Travelling /\ t[i].what = out[i] /\ t[i].what # "ack" /\ t[i].age = 0
  BY <1>1, BoundsFacts DEF Travelling, Words
<1>3. t \in Seq(Travelling) /\ Len(t) = Len(out)
  <2>1. t \in [1..Len(out) -> Travelling]
    BY <1>1, <1>2
  <2> HIDE DEF t
  <2> QED BY <1>1, <2>1
<1> HIDE DEF t
<1>4. v = w \o t
  BY DEF t, Addressed
<1> HIDE DEF v
<1>5. /\ v \in Seq(Travelling) /\ Len(v) = Len(w) + Len(out)
      /\ \A i \in 1..Len(v) : v[i] = IF i <= Len(w) THEN w[i] ELSE t[i - Len(w)]
  <2>1. /\ w \o t \in Seq(Travelling) /\ Len(w \o t) = Len(w) + Len(t)
        /\ \A i \in 1..Len(w) + Len(t) :
             (w \o t)[i] = IF i <= Len(w) THEN w[i] ELSE t[i - Len(w)]
    BY <1>3, ConcatProperties, Zenon
  <2> QED BY <1>3, <1>4, <2>1, Zenon
<1>6. DOMAIN w = 1..Len(w) /\ DOMAIN v = 1..Len(v) /\ Len(w) \in Nat /\ Len(v) \in Nat
  BY <1>5
<1>7. \A i \in DOMAIN w : i \in DOMAIN v /\ v[i] = w[i]
  BY <1>1, <1>5, <1>6
<1>8. \A i \in DOMAIN v : i \in DOMAIN w \/ v[i].what # "ack"
  <2> SUFFICES ASSUME NEW i \in DOMAIN v, i \notin DOMAIN w PROVE v[i].what # "ack"
    OBVIOUS
  <2>1. i - Len(w) \in 1..Len(out) /\ v[i] = t[i - Len(w)]
    BY <1>1, <1>5, <1>6
  <2> QED BY <1>1, <1>2, <2>1
<1>9. \A i \in DOMAIN out : \E j \in DOMAIN v : v[j].what = out[i]
  <2> SUFFICES ASSUME NEW i \in DOMAIN out PROVE v[Len(w) + i].what = out[i] /\ Len(w) + i \in DOMAIN v
    OBVIOUS
  <2> DEFINE j == Len(w) + i
  <2>0. j \in 1..Len(v) /\ ~(j <= Len(w)) /\ j - Len(w) = i
    BY <1>1, <1>5, <1>6
  <2>1. j \in 1..Len(v) /\ v[j] = t[i]
    BY <1>5, <2>0
  <2> QED BY <1>1, <1>2, <1>6, <2>1
<1>10. w # <<>> => v # <<>> /\ v[1] = w[1]
  BY <1>1, <1>5, <1>6
<1>11. w = <<>> /\ out # <<>> => v # <<>> /\ v[1].age = 0
  <2> SUFFICES ASSUME w = <<>>, out # <<>> PROVE v # <<>> /\ v[1].age = 0
    OBVIOUS
  <2>1. Len(out) > 0 /\ Len(w) = 0
    BY <1>1
  <2>2. v[1] = t[1] /\ v # <<>>
    BY <1>1, <1>5, <2>1
  <2> QED BY <1>1, <1>2, <2>1, <2>2
<1>12. w = <<>> /\ out = <<>> => v = <<>>
  BY <1>5
<1>13. Follows(v, w, out)
  BY <1>5, <1>7, <1>8, <1>9, <1>10, <1>11, <1>12 DEF Follows
<1> QED BY <1>13 DEF v

-----------------------------------------------------------------------------
(***************************************************************************)
(* A frame and a popup's tick preserve the invariant.  Of a client c and   *)
(* its partner o, c ticks.                                                 *)
(***************************************************************************)

\* What a tick of c changes: r is what becomes of c.
TickOf(c, dt, r) ==
  /\ r \in Tallies
  /\ state' = [state EXCEPT ![c] = r.state] /\ accum' = [accum EXCEPT ![c] = r.accum]
  /\ beaten' = [beaten EXCEPT ![c] = r.beaten] /\ quiet' = [quiet EXCEPT ![c] = r.quiet]
  /\ shift' = [shift EXCEPT ![c] = r.shift] /\ inbox' = [inbox EXCEPT ![c] = NoMail]
  /\ \A d \in Clients :
       wire'[d] = IF cut \/ state'[d] = "off" THEN <<>>
                  ELSE IF d = c THEN wire[d]
                  ELSE wire[d] \o [i \in DOMAIN r.out |-> [what |-> r.out[i], age |-> 0]]
  /\ r.state = "connected" =>
       /\ r.beaten /\ ~inbox[c].eof
       /\ r.quiet + r.shift <= Timeout
       /\ \/ r.quiet = 0 /\ (inbox[c].ack \/ inbox[c].pings # 0 \/ inbox[c].pong)
          \/ /\ state[c] = "connected" /\ inbox[c].pings = 0 /\ ~inbox[c].pong
             /\ r.quiet = quiet[c]
       /\ state[c] = "connected" \/ inbox[c].ack
       /\ r.out = <<>> =>
            r.accum = IF state[c] = "connected" THEN accum[c] + dt ELSE dt
  /\ r.state = "joining" => state[c] = "joining" /\ ~inbox[c].ack /\ r.out = <<>> /\ ~inbox[c].eof
  /\ r.state = "off" =>
       /\ \E i \in DOMAIN r.out : r.out[i] = "eof"
       /\ \/ inbox[c].eof
          \/ /\ state[c] = "connected" /\ inbox[c].pings = 0 /\ ~inbox[c].pong
             /\ quiet[c] + shift[c] > Timeout

LEMMA TickChanges ==
  ASSUME TypesOK, PlainOK, NEW c \in Clients, state[c] # "off", NEW dt \in Nat, tick(c, dt)
  PROVE  /\ \E r : TickOf(c, dt, r)
         /\ wire' = [d \in Clients |-> wire'[d]]
         /\ UNCHANGED <<editing, left, clockSet, cut, cutFor>>
<1> DEFINE k == [state |-> state[c], accum |-> accum[c], beaten |-> beaten[c],
                 quiet |-> quiet[c], shift |-> shift[c], out |-> <<>>]
           r == ticked(k, inbox[c], dt)
<1>1. k \in Tallies /\ inbox[c] \in Mails
  BY DEF TypesOK, Tallies
<1>2. /\ k.out = <<>> /\ k.state = state[c] /\ k.accum = accum[c] /\ k.beaten = beaten[c]
      /\ k.quiet = quiet[c] /\ k.shift = shift[c]
  OBVIOUS
<1>3. k.state = "connected" => k.beaten
  BY <1>2 DEF PlainOK
<1>4. /\ state' = [state EXCEPT ![c] = r.state] /\ accum' = [accum EXCEPT ![c] = r.accum]
      /\ beaten' = [beaten EXCEPT ![c] = r.beaten] /\ quiet' = [quiet EXCEPT ![c] = r.quiet]
      /\ shift' = [shift EXCEPT ![c] = r.shift] /\ inbox' = [inbox EXCEPT ![c] = NoMail]
      /\ wire' = [d \in Clients |->
           IF cut \/ state'[d] = "off" THEN <<>>
           ELSE IF d = c THEN wire[d]
           ELSE wire[d] \o [i \in DOMAIN r.out |-> [what |-> r.out[i], age |-> 0]]]
      /\ UNCHANGED <<editing, left, clockSet, cut, cutFor>>
  BY DEF tick
<1> HIDE DEF k
<1>5. /\ r \in Tallies
      /\ r.state = "connected" =>
           /\ r.beaten /\ ~inbox[c].eof
           /\ r.quiet + r.shift <= Timeout
           /\ \/ r.quiet = 0 /\ (inbox[c].ack \/ inbox[c].pings # 0 \/ inbox[c].pong)
              \/ /\ k.state = "connected" /\ inbox[c].pings = 0 /\ ~inbox[c].pong
                 /\ r.quiet = k.quiet
           /\ k.state = "connected" \/ inbox[c].ack
           /\ r.out = <<>> =>
                r.accum = IF k.state = "connected" THEN k.accum + dt ELSE dt
      /\ r.state = "joining" => k.state = "joining" /\ ~inbox[c].ack /\ r.out = <<>> /\ ~inbox[c].eof
      /\ r.state = "off" =>
           /\ \E i \in DOMAIN r.out : r.out[i] = "eof"
           /\ \/ inbox[c].eof
              \/ /\ k.state = "connected" /\ inbox[c].pings = 0 /\ ~inbox[c].pong
                 /\ k.quiet + k.shift > Timeout
  BY <1>1, <1>2, <1>3, Ticked
<1> HIDE DEF r
<1>6. \A d \in Clients :
        wire'[d] = IF cut \/ state'[d] = "off" THEN <<>>
                   ELSE IF d = c THEN wire[d]
                   ELSE wire[d] \o [i \in DOMAIN r.out |-> [what |-> r.out[i], age |-> 0]]
  BY <1>4
<1>7. TickOf(c, dt, r)
  BY <1>2, <1>4, <1>5, <1>6, Zenon DEF TickOf
<1>8. wire' = [d \in Clients |-> wire'[d]]
  BY <1>4
<1> QED BY <1>4, <1>7, <1>8
LEMMA TickInv ==
  ASSUME TimedInv, NEW c \in Clients, state[c] # "off", NEW dt \in Nat, NEW r, TickOf(c, dt, r),
         wire' = [d \in Clients |-> wire'[d]],
         UNCHANGED <<editing, left, clockSet, cut, cutFor>>,
         NEW since \in Nat, sinceFrame' = [sinceFrame EXCEPT ![c] = since],
         dt + since = sinceFrame[c]
  PROVE  TimedInv'
<1> DEFINE o == other(c)
<1>1. o \in Clients /\ o # c /\ other(o) = c /\ \A d \in Clients : d = c \/ d = o
  BY ClientsFacts
<1>2. TypesOK /\ PlainOK /\ AckOK /\ EndOK /\ HeardOK(c) /\ HeardOK(o) /\ CutOK(c) /\ CutOK(o)
  BY <1>1 DEF TimedInv
<1> HIDE DEF o
<1>3. /\ r \in Tallies
      /\ state'[c] = r.state /\ state'[o] = state[o]
      /\ accum'[c] = r.accum /\ accum'[o] = accum[o]
      /\ beaten'[c] = r.beaten /\ beaten'[o] = beaten[o]
      /\ quiet'[c] = r.quiet /\ quiet'[o] = quiet[o]
      /\ shift'[c] = r.shift /\ shift'[o] = shift[o]
      /\ inbox'[c] = NoMail /\ inbox'[o] = inbox[o]
      /\ sinceFrame'[c] = since /\ sinceFrame'[o] = sinceFrame[o]
      /\ left' = left /\ editing' = editing /\ cut' = cut /\ cutFor' = cutFor
  BY <1>1, <1>2 DEF TickOf, TypesOK
<1>4. /\ wire[c] \in Seq(Travelling) /\ wire[o] \in Seq(Travelling)
      /\ r.out \in Seq({"ping", "pong", "eof"})
  BY <1>1, <1>2, <1>3 DEF TypesOK, Tallies
<1>5. /\ wire'[c] = IF cut \/ r.state = "off" THEN <<>> ELSE wire[c]
      /\ cut \/ state[o] = "off" => wire'[o] = <<>>
      /\ ~cut /\ state[o] # "off" =>
           wire'[o] = wire[o] \o Addressed(r.out)
  BY <1>1, <1>3 DEF TickOf, Addressed
<1>6. ~cut /\ state[o] # "off" =>
        /\ wire'[o] \in Seq(Travelling)
        /\ \A i \in DOMAIN wire[o] : i \in DOMAIN wire'[o] /\ wire'[o][i] = wire[o][i]
        /\ \A i \in DOMAIN wire'[o] : i \in DOMAIN wire[o] \/ wire'[o][i].what # "ack"
        /\ \A i \in DOMAIN r.out : \E j \in DOMAIN wire'[o] : wire'[o][j].what = r.out[i]
        /\ wire[o] # <<>> => wire'[o] # <<>> /\ wire'[o][1] = wire[o][1]
        /\ wire[o] = <<>> /\ r.out # <<>> => wire'[o] # <<>> /\ wire'[o][1].age = 0
        /\ wire[o] = <<>> /\ r.out = <<>> => wire'[o] = <<>>
  <2> SUFFICES ASSUME ~cut, state[o] # "off" PROVE Follows(wire'[o], wire[o], r.out)
    BY DEF Follows
  <2>1. wire'[o] = wire[o] \o Addressed(r.out)
    BY <1>5
  <2>2. Follows(wire[o] \o Addressed(r.out), wire[o], r.out)
    BY <1>4, Carried
  <2> QED BY <2>1, <2>2
<1>7. /\ r.state \in {"joining", "connected", "off"} /\ r.accum \in 0..(Interval - 1)
      /\ r.beaten \in BOOLEAN /\ r.quiet \in 0..QuietBound /\ r.shift \in -MaxSkew..MaxSkew
  BY <1>3 DEF Tallies
<1>8. /\ sinceFrame[c] \in Nat /\ sinceFrame[c] <= Gap[c] /\ since <= sinceFrame[c]
      /\ Gap[c] \in Nat /\ quiet[c] \in 0..QuietBound /\ quiet[o] \in 0..QuietBound
      /\ accum[c] \in 0..(Interval - 1) /\ accum[o] \in 0..(Interval - 1)
      /\ sinceFrame[o] \in Nat /\ cutFor \in Nat
  <2>1. sinceFrame[c] \in Nat /\ sinceFrame[c] <= Gap[c] /\ sinceFrame[o] \in Nat
    BY <1>1, <1>2 DEF TypesOK
  <2>2. since <= sinceFrame[c] /\ Gap[c] \in Nat
    BY <2>1, BoundsFacts
  <2>3. /\ quiet[c] \in 0..QuietBound /\ quiet[o] \in 0..QuietBound
        /\ accum[c] \in 0..(Interval - 1) /\ accum[o] \in 0..(Interval - 1)
    BY <1>1, <1>2 DEF TypesOK
  <2>4. cutFor \in Nat
    BY <1>2, BoundsFacts DEF TypesOK
  <2> QED BY <2>1, <2>2, <2>3, <2>4
<1>9. r.state = "connected" =>
       /\ r.beaten /\ ~inbox[c].eof
       /\ r.quiet + r.shift <= Timeout
       /\ \/ r.quiet = 0 /\ (inbox[c].ack \/ inbox[c].pings # 0 \/ inbox[c].pong)
          \/ /\ state[c] = "connected" /\ inbox[c].pings = 0 /\ ~inbox[c].pong
             /\ r.quiet = quiet[c]
       /\ state[c] = "connected" \/ inbox[c].ack
       /\ r.out = <<>> =>
            r.accum = IF state[c] = "connected" THEN accum[c] + dt ELSE dt
  BY DEF TickOf
<1>10. /\ r.state = "joining" => state[c] = "joining" /\ ~inbox[c].ack /\ r.out = <<>> /\ ~inbox[c].eof
       /\ r.state = "off" => \E i \in DOMAIN r.out : r.out[i] = "eof"
  BY DEF TickOf
<1>11. inbox[c] \in Mails /\ inbox[o] \in Mails /\ NoMail \in Mails
  BY <1>1, <1>2 DEF TypesOK, Mails, NoMail
<1>12. TypesOK'
  <2>1. /\ state' \in [Clients -> {"joining", "connected", "off"}]
        /\ accum' \in [Clients -> 0..(Interval - 1)] /\ beaten' \in [Clients -> BOOLEAN]
        /\ quiet' \in [Clients -> 0..QuietBound] /\ shift' \in [Clients -> -MaxSkew..MaxSkew]
        /\ inbox' \in [Clients -> Mails] /\ sinceFrame' \in [Clients -> Nat]
    BY <1>2, <1>7, <1>11 DEF TickOf, TypesOK
  <2>2. wire'[c] \in Seq(Travelling) /\ wire'[o] \in Seq(Travelling)
    <3>1. <<>> \in Seq(Travelling)
      OBVIOUS
    <3>2. wire'[c] \in Seq(Travelling)
      BY <1>4, <1>5, <3>1
    <3>3. wire'[o] \in Seq(Travelling)
      BY <1>5, <1>6, <3>1
    <3> QED BY <3>2, <3>3
  <2>3. wire' \in [Clients -> Seq(Travelling)]
    <3>1. \A d \in Clients : wire'[d] \in Seq(Travelling)
      BY <1>1, <2>2
    <3> QED BY <3>1
  <2>4. \A d \in Clients : sinceFrame'[d] <= Gap[d]
    <3>1. since <= Gap[c] /\ sinceFrame[o] <= Gap[o]
      BY <1>1, <1>2, <1>8 DEF TypesOK
    <3> QED BY <1>1, <1>3, <3>1
  <2>5. /\ editing' \in [Clients -> BOOLEAN] /\ left' \in [Clients -> BOOLEAN]
        /\ clockSet' \in BOOLEAN /\ cut' \in BOOLEAN /\ cutFor' \in 0..CutBound
    BY <1>2 DEF TypesOK
  <2> QED BY <2>1, <2>3, <2>4, <2>5 DEF TypesOK, QuietBound, CutBound
<1>13. PlainOK'
  BY <1>1, <1>2, <1>3, <1>5, <1>9 DEF PlainOK
<1>14. AckOK'
  <2>1. state'[Host] # "joining"
    BY <1>1, <1>2, <1>3, <1>10, ClientsFacts DEF AckOK
  <2>2. \A d \in Clients : inbox'[d].ack => d = Peer
    BY <1>1, <1>2, <1>3 DEF AckOK, NoMail
  <2>3. \A i \in DOMAIN wire'[c] : wire'[c][i].what = "ack" =>
          i = 1 /\ c = Peer /\ state'[c] = "joining" /\ ~inbox'[c].ack
    <3> SUFFICES ASSUME NEW i \in DOMAIN wire'[c], wire'[c][i].what = "ack"
                 PROVE  i = 1 /\ c = Peer /\ state'[c] = "joining" /\ ~inbox'[c].ack
      OBVIOUS
    <3>1. r.state # "off" /\ wire'[c] = wire[c]
      BY <1>5
    <3>2. i = 1 /\ c = Peer /\ state[c] = "joining" /\ ~inbox[c].ack
      BY <1>2, <3>1 DEF AckOK
    <3> QED BY <1>3, <1>7, <1>9, <3>1, <3>2 DEF NoMail
  <2>4. \A i \in DOMAIN wire'[o] : wire'[o][i].what = "ack" =>
          i = 1 /\ o = Peer /\ state'[o] = "joining" /\ ~inbox'[o].ack
    <3> SUFFICES ASSUME NEW i \in DOMAIN wire'[o], wire'[o][i].what = "ack"
                 PROVE  i = 1 /\ o = Peer /\ state'[o] = "joining" /\ ~inbox'[o].ack
      OBVIOUS
    <3>1. ~cut /\ state[o] # "off"
      BY <1>5
    <3>2. i \in DOMAIN wire[o] /\ wire'[o][i] = wire[o][i]
      BY <1>6, <3>1
    <3> QED BY <1>1, <1>2, <1>3, <3>2 DEF AckOK
  <2>5. state'[Peer] = "joining" /\ ~cut' /\ ~inbox'[Peer].ack =>
          wire'[Peer] # <<>> /\ wire'[Peer][1].what = "ack"
    <3> SUFFICES ASSUME state'[Peer] = "joining", ~cut', ~inbox'[Peer].ack
                 PROVE  wire'[Peer] # <<>> /\ wire'[Peer][1].what = "ack"
      OBVIOUS
    <3>1. CASE c = Peer
      BY <1>2, <1>3, <1>5, <1>10, <3>1 DEF AckOK
    <3>2. CASE o = Peer
      BY <1>2, <1>3, <1>6, <3>2 DEF AckOK
    <3> QED BY <1>1, <3>1, <3>2, ClientsFacts
  <2>6. \A d \in Clients : \A i \in DOMAIN wire'[d] :
          wire'[d][i].what = "ack" => i = 1 /\ d = Peer /\ state'[d] = "joining" /\ ~inbox'[d].ack
    BY <1>1, <2>3, <2>4
  <2> QED BY <2>1, <2>2, <2>5, <2>6 DEF AckOK
<1>15. EndOK'
  <2>1. state'[c] # "off" /\ state'[o] = "off" /\ ~cut' =>
          inbox'[c].eof \/ \E i \in DOMAIN wire'[c] : wire'[c][i].what = "eof"
    <3> SUFFICES ASSUME state'[c] # "off", state'[o] = "off", ~cut'
                 PROVE  \E i \in DOMAIN wire'[c] : wire'[c][i].what = "eof"
      OBVIOUS
    <3>1. ~inbox[c].eof
      BY <1>3, <1>7, <1>9, <1>10
    <3> QED BY <1>1, <1>2, <1>3, <1>5, <3>1 DEF EndOK, o
  <2>2. state'[o] # "off" /\ state'[c] = "off" /\ ~cut' =>
          inbox'[o].eof \/ \E i \in DOMAIN wire'[o] : wire'[o][i].what = "eof"
    BY <1>3, <1>6, <1>10
  <2> QED BY <1>1, <2>1, <2>2 DEF EndOK, o
<1>16. HeardOK(c)'
  <2> SUFFICES ASSUME state'[c] = "connected", ~cut', ~left'[o]
               PROVE  /\ wire'[c] # <<>> => quiet'[c] <= Silence(c) + wire'[c][1].age
                      /\ wire'[c] = <<>> =>
                           /\ state'[o] = "connected" =>
                                quiet'[c] <= firstWait(c) + accum'[o] + sinceFrame'[o]
                           /\ state'[o] = "joining" =>
                                IF inbox'[o].ack
                                THEN quiet'[c] <= firstWait(c) + sinceFrame'[o]
                                ELSE quiet'[c] <= wire'[o][1].age
    BY DEF HeardOK, Silence, firstWait, o
  <2>1. wire'[c] = wire[c] /\ r.state = "connected" /\ ~cut /\ ~left[o]
    BY <1>3, <1>5
  <2>2. Silence(c) \in Nat /\ firstWait(c) \in Nat
    BY BoundsFacts
  <2>3. wire[c] # <<>> => wire[c][1].age \in Nat
    BY <1>4, HeadTravels
  <2>4. state[o] = "joining" /\ ~inbox[o].ack =>
          wire[o] # <<>> /\ wire'[o][1] = wire[o][1] /\ wire[o][1].age \in Nat
    <3> SUFFICES ASSUME state[o] = "joining", ~inbox[o].ack
                 PROVE  wire[o] # <<>> /\ wire'[o][1] = wire[o][1] /\ wire[o][1].age \in Nat
      OBVIOUS
    <3>1. o = Peer
      BY <1>1, <1>2, ClientsFacts DEF AckOK
    <3>2. wire[o] # <<>>
      BY <1>2, <2>1, <3>1 DEF AckOK
    <3>3. wire[o][1].age \in Nat
      BY <1>4, <3>2, HeadTravels
    <3> QED BY <1>6, <2>1, <3>2, <3>3
  <2>5. CASE r.quiet = 0
    <3>1. wire[c] # <<>> => 0 <= Silence(c) + wire[c][1].age
      BY <2>2, <2>3
    <3>2. 0 <= firstWait(c) + accum[o] + sinceFrame[o] /\ 0 <= firstWait(c) + sinceFrame[o]
      BY <1>8, <2>2
    <3>3. state[o] = "joining" /\ ~inbox[o].ack => 0 <= wire'[o][1].age
      BY <2>4
    <3>4. quiet'[c] = 0
      BY <1>3, <2>5
    <3> QED BY <1>3, <2>1, <3>1, <3>2, <3>3, <3>4
  <2>6. CASE r.quiet # 0
    <3>1. /\ state[c] = "connected" /\ Unheard(c) /\ r.quiet = quiet[c]
      BY <1>9, <2>1, <2>6 DEF Unheard
    <3>2. /\ wire[c] # <<>> => quiet[c] <= Silence(c) + wire[c][1].age
          /\ wire[c] = <<>> =>
               /\ state[o] = "connected" => quiet[c] <= firstWait(c) + accum[o] + sinceFrame[o]
               /\ state[o] = "joining" =>
                    IF inbox[o].ack THEN quiet[c] <= firstWait(c) + sinceFrame[o]
                                    ELSE quiet[c] <= wire[o][1].age
      BY <1>2, <2>1, <3>1 DEF HeardOK, o
    <3> QED BY <1>3, <2>1, <2>4, <3>1, <3>2
  <2> QED BY <2>5, <2>6
<1>17. HeardOK(o)'
  <2> SUFFICES ASSUME state'[o] = "connected", ~cut', ~left'[c], Unheard(o)'
               PROVE  /\ wire'[o] # <<>> => quiet'[o] <= Silence(o) + wire'[o][1].age
                      /\ wire'[o] = <<>> =>
                           /\ state'[c] = "connected" =>
                                quiet'[o] <= firstWait(o) + accum'[c] + sinceFrame'[c]
                           /\ state'[c] = "joining" =>
                                IF inbox'[c].ack
                                THEN quiet'[o] <= firstWait(o) + sinceFrame'[c]
                                ELSE quiet'[o] <= wire'[c][1].age
    BY <1>1 DEF HeardOK, Silence, firstWait
  <2>1. state[o] = "connected" /\ ~cut /\ ~left[c] /\ Unheard(o)
    BY <1>3 DEF Unheard
  <2>2. Silence(o) \in Nat /\ firstWait(o) \in 0..Delay
        /\ Silence(o) = firstWait(o) + (Interval - 1) + Gap[c]
        /\ Interval \in Nat /\ Interval > 0 /\ Delay \in Nat
    BY <1>1, BoundsFacts
  <2>3. /\ wire[o] # <<>> => quiet[o] <= Silence(o) + wire[o][1].age
        /\ wire[o] = <<>> =>
             /\ state[c] = "connected" => quiet[o] <= firstWait(o) + accum[c] + sinceFrame[c]
             /\ state[c] = "joining" =>
                  IF inbox[c].ack THEN quiet[o] <= firstWait(o) + sinceFrame[c]
                                  ELSE quiet[o] <= wire[c][1].age
    BY <1>1, <1>2, <2>1 DEF HeardOK
  <2>4. CASE wire[o] # <<>>
    BY <1>3, <1>6, <2>1, <2>3, <2>4
  <2>5. CASE wire[o] = <<>>
    <3>1. state[c] = "joining" => firstWait(o) = Delay
      BY <1>1, <1>2, ClientsFacts DEF AckOK, firstWait
    <3>2. state[c] = "joining" /\ ~inbox[c].ack => wire[c][1].age \in 0..Delay
      <4> SUFFICES ASSUME state[c] = "joining", ~inbox[c].ack PROVE wire[c][1].age \in 0..Delay
        OBVIOUS
      <4>1. wire[c] # <<>>
        BY <1>1, <1>2, <2>1, ClientsFacts DEF AckOK
      <4> QED BY <1>4, <4>1, HeadTravels
    <3>3. state[c] = "connected" \/ state[c] = "joining"
      BY <1>2 DEF TypesOK
    <3>4. quiet[o] <= Silence(o)
      <4>1. state[c] = "connected" => quiet[o] <= firstWait(o) + accum[c] + sinceFrame[c]
        BY <2>3, <2>5
      <4>2. state[c] = "joining" /\ inbox[c].ack => quiet[o] <= firstWait(o) + sinceFrame[c]
        BY <2>3, <2>5
      <4>3. state[c] = "joining" /\ ~inbox[c].ack => quiet[o] <= wire[c][1].age
        BY <2>3, <2>5
      <4>4. /\ quiet[o] \in Nat /\ accum[c] \in Nat /\ accum[c] <= Interval - 1
            /\ sinceFrame[c] \in Nat /\ sinceFrame[c] <= Gap[c] /\ Gap[c] \in Nat
        BY <1>8, <2>2
      <4>5. CASE state[c] = "connected"
        BY <2>2, <4>1, <4>4, <4>5
      <4>6. CASE state[c] = "joining" /\ inbox[c].ack
        BY <2>2, <4>2, <4>4, <4>6
      <4>7. CASE state[c] = "joining" /\ ~inbox[c].ack
        BY <2>2, <3>1, <3>2, <4>3, <4>4, <4>7
      <4> QED BY <3>3, <4>5, <4>6, <4>7
    <3>5. CASE r.out # <<>>
      BY <1>3, <1>6, <2>1, <2>2, <2>5, <3>4, <3>5
    <3>6. CASE r.out = <<>>
      <4>1. wire'[o] = <<>> /\ r.state # "off"
        BY <1>6, <1>10, <2>1, <2>5, <3>6
      <4>2. CASE r.state = "connected"
        <5>1. r.accum + since >= IF state[c] = "connected" THEN accum[c] + sinceFrame[c]
                                                           ELSE sinceFrame[c]
          BY <1>7, <1>8, <1>9, <3>6, <4>2
        <5>2. state[c] = "connected" \/ (state[c] = "joining" /\ inbox[c].ack)
          BY <1>9, <3>3, <4>2
        <5>3. quiet[o] <= firstWait(o) + r.accum + since
          <6>1. /\ quiet[o] \in Nat /\ accum[c] \in Nat /\ sinceFrame[c] \in Nat
                /\ r.accum \in Nat /\ since \in Nat /\ firstWait(o) \in Nat
            BY <1>7, <1>8, <2>2
          <6>2. CASE state[c] = "connected"
            <7>1. quiet[o] <= firstWait(o) + accum[c] + sinceFrame[c]
              BY <2>3, <2>5, <6>2
            <7>2. r.accum + since >= accum[c] + sinceFrame[c]
              BY <5>1, <6>2
            <7> QED BY <6>1, <7>1, <7>2
          <6>3. CASE state[c] = "joining" /\ inbox[c].ack
            <7>1. quiet[o] <= firstWait(o) + sinceFrame[c]
              BY <2>3, <2>5, <6>3
            <7>2. r.accum + since >= sinceFrame[c]
              BY <5>1, <6>3
            <7> QED BY <6>1, <7>1, <7>2
          <6> QED BY <5>2, <6>2, <6>3
        <5> QED BY <1>3, <4>1, <4>2, <5>3
      <4>3. CASE r.state = "joining"
        <5>1. state[c] = "joining" /\ ~inbox[c].ack /\ wire'[c] = wire[c]
          BY <1>5, <1>10, <2>1, <4>3
        <5> QED BY <1>3, <2>3, <2>5, <4>1, <4>3, <5>1 DEF NoMail
      <4> QED BY <1>7, <4>1, <4>2, <4>3
    <3> QED BY <3>5, <3>6
  <2> QED BY <2>4, <2>5
<1>18. CutOK(c)'
  <2> SUFFICES ASSUME cut', ~left'[c], state'[c] = "connected"
               PROVE  /\ quiet'[c] = QuietBound \/ cutFor' <= quiet'[c] + Gap[c]
                      /\ cutFor' <= Timeout + MaxSkew + Gap[c] + sinceFrame'[c]
    BY <1>3 DEF CutOK, QuietBound
  <2>1. cut /\ ~left[c] /\ r.state = "connected"
    BY <1>3
  <2>2. r.quiet = QuietBound \/ cutFor <= r.quiet + Gap[c]
    <3>1. CASE inbox[c] # NoMail
      <4>1. cutFor <= sinceFrame[c]
        BY <1>2, <2>1, <3>1 DEF CutOK
      <4> QED BY <1>7, <1>8, <4>1
    <3>2. CASE inbox[c] = NoMail
      <4>1. state[c] = "connected" /\ r.quiet = quiet[c]
        BY <1>9, <2>1, <3>2 DEF NoMail
      <4> QED BY <1>2, <2>1, <4>1 DEF CutOK
    <3> QED BY <3>1, <3>2
  <2>3. r.quiet <= Timeout + MaxSkew
    <3>1. r.quiet + r.shift <= Timeout
      BY <1>9, <2>1
    <3>2. Timeout \in Nat /\ MaxSkew \in Nat
      BY BoundsFacts
    <3> QED BY <1>7, <3>1, <3>2
  <2>4. cutFor <= Timeout + MaxSkew + Gap[c]
    BY <1>7, <1>8, <2>2, <2>3, BoundsFacts
  <2> QED BY <1>3, <1>8, <2>2, <2>4, BoundsFacts
<1>19. CutOK(o)'
  BY <1>1, <1>2, <1>3 DEF CutOK, QuietBound
<1> QED BY <1>1, <1>12, <1>13, <1>14, <1>15, <1>16, <1>17, <1>18, <1>19 DEF TimedInv
LEMMA FrameInv ==
  ASSUME TimedInv, NEW c \in Clients, frame(c) \/ statusTick(c)
  PROVE  TimedInv'
<1>1. TypesOK /\ PlainOK /\ sinceFrame[c] \in Nat
  BY DEF TimedInv, TypesOK
<1>2. state[c] # "off"
  BY DEF frame, statusTick
<1>3. CASE frame(c)
  <2>1. tick(c, sinceFrame[c]) /\ sinceFrame' = [sinceFrame EXCEPT ![c] = 0]
    BY <1>3 DEF frame
  <2>2. PICK r : TickOf(c, sinceFrame[c], r)
    BY <1>1, <1>2, <2>1, TickChanges
  <2>3. /\ wire' = [d \in Clients |-> wire'[d]]
        /\ UNCHANGED <<editing, left, clockSet, cut, cutFor>>
    BY <1>1, <1>2, <2>1, TickChanges
  <2>4. 0 \in Nat /\ sinceFrame[c] + 0 = sinceFrame[c]
    BY <1>1
  <2> QED BY <1>1, <1>2, <2>1, <2>2, <2>3, <2>4, TickInv
<1>4. CASE statusTick(c)
  <2>1. tick(c, 0) /\ sinceFrame' = sinceFrame
    BY <1>4 DEF statusTick
  <2>2. PICK r : TickOf(c, 0, r)
    BY <1>1, <1>2, <2>1, TickChanges
  <2>3. /\ wire' = [d \in Clients |-> wire'[d]]
        /\ UNCHANGED <<editing, left, clockSet, cut, cutFor>>
    BY <1>1, <1>2, <2>1, TickChanges
  <2>4. 0 \in Nat /\ 0 + sinceFrame[c] = sinceFrame[c]
    BY <1>1
  <2>5. sinceFrame' = [sinceFrame EXCEPT ![c] = sinceFrame[c]]
    BY <1>1, <2>1 DEF TypesOK
  <2> QED BY <1>1, <1>2, <2>2, <2>3, <2>4, <2>5, TickInv
<1> QED BY <1>3, <1>4

-----------------------------------------------------------------------------
(***************************************************************************)
(* The other actions.                                                      *)
(***************************************************************************)

LEMMA Posted ==
  ASSUME NEW mail \in Mails, NEW what \in Words, NEW m, m = posted(mail, what)
  PROVE  /\ m \in Mails
         /\ m.ack <=> mail.ack \/ what = "ack"
         /\ m.eof <=> mail.eof \/ what = "eof"
         /\ m.pings = 0 /\ ~m.pong /\ ~m.eof => what = "ack"
<1>1. CASE what = "ack"
  BY <1>1 DEF posted, Mails
<1>2. CASE what = "ping"
  BY <1>2 DEF posted, Mails
<1>3. CASE what = "pong"
  BY <1>3 DEF posted, Mails
<1>4. CASE what = "eof"
  BY <1>4 DEF posted, Mails
<1> QED BY <1>1, <1>2, <1>3, <1>4 DEF Words

LEMMA TailOf ==
  ASSUME NEW w \in Seq(Travelling), w # <<>>
  PROVE  /\ Tail(w) \in Seq(Travelling) /\ Head(w) = w[1]
         /\ \A i \in DOMAIN Tail(w) : i \in Nat /\ i >= 1 /\ i + 1 \in DOMAIN w /\ Tail(w)[i] = w[i + 1]
         /\ \A i \in DOMAIN w : i # 1 => i - 1 \in DOMAIN Tail(w) /\ Tail(w)[i - 1] = w[i]
  OBVIOUS

LEMMA ReceiveInv ==
  ASSUME TimedInv, NEW c \in Clients, receive(c)
  PROVE  TimedInv'
<1> DEFINE o == other(c)
           what == wire[c][1].what
           m == posted(inbox[c], what)
<1>1. o \in Clients /\ o # c /\ other(o) = c /\ \A d \in Clients : d = c \/ d = o
  BY ClientsFacts
<1>2. TypesOK /\ PlainOK /\ AckOK /\ EndOK /\ HeardOK(c) /\ HeardOK(o) /\ CutOK(c) /\ CutOK(o)
  BY <1>1 DEF TimedInv
<1>3. /\ wire[c] \in Seq(Travelling) /\ wire[c] # <<>> /\ ~cut /\ Head(wire[c]) = wire[c][1]
      /\ wire[c][1].age \in 0..Delay /\ 1 \in DOMAIN wire[c]
      /\ wire' = [wire EXCEPT ![c] = Tail(wire[c])]
      /\ inbox' = [inbox EXCEPT ![c] = m]
      /\ UNCHANGED <<state, editing, left, sinceFrame, accum, beaten, quiet, shift, clockSet, cut,
                     cutFor>>
  <2>1. wire[c] \in Seq(Travelling) /\ wire[c] # <<>>
    BY <1>2 DEF receive, TypesOK
  <2>2. Head(wire[c]) = wire[c][1] /\ 1 \in DOMAIN wire[c] /\ wire[c][1].age \in 0..Delay
    BY <2>1, HeadTravels
  <2> QED BY <1>2, <2>1, <2>2 DEF receive, TypesOK
<1>4. what \in Words /\ inbox[c] \in Mails
  <2>1. wire[c][1] \in Travelling
    BY <1>3, HeadTravels
  <2> QED BY <1>2, <2>1 DEF TypesOK, Travelling
<1>5. /\ m \in Mails
      /\ m.ack <=> inbox[c].ack \/ what = "ack"
      /\ m.eof <=> inbox[c].eof \/ what = "eof"
      /\ m.pings = 0 /\ ~m.pong /\ ~m.eof => what = "ack"
  BY <1>4, Posted
<1>6. what = "ack" => c = Peer /\ state[c] = "joining"
  BY <1>2, <1>3 DEF AckOK
<1> HIDE DEF o, m
<1>7. /\ wire'[c] = Tail(wire[c]) /\ wire'[o] = wire[o]
      /\ inbox'[c] = m /\ inbox'[o] = inbox[o]
  BY <1>1, <1>2, <1>3 DEF TypesOK
<1>8. /\ wire'[c] \in Seq(Travelling)
      /\ \A i \in DOMAIN wire'[c] :
           i \in Nat /\ i >= 1 /\ i + 1 \in DOMAIN wire[c] /\ wire'[c][i] = wire[c][i + 1]
      /\ \A i \in DOMAIN wire[c] : i # 1 => i - 1 \in DOMAIN wire'[c] /\ wire'[c][i - 1] = wire[c][i]
  BY <1>3, <1>7, TailOf
<1>9. TypesOK'
  <2>1. wire' \in [Clients -> Seq(Travelling)] /\ inbox' \in [Clients -> Mails]
    BY <1>2, <1>3, <1>5, <1>7, <1>8 DEF TypesOK
  <2> QED BY <1>2, <1>3, <2>1 DEF TypesOK, QuietBound, CutBound
<1>10. PlainOK'
  BY <1>2, <1>3 DEF PlainOK
<1>11. AckOK'
  <2>1. \A d \in Clients : inbox'[d].ack => d = Peer
    BY <1>1, <1>2, <1>5, <1>6, <1>7 DEF AckOK
  <2>2. \A i \in DOMAIN wire'[c] : wire'[c][i].what # "ack"
    <3> SUFFICES ASSUME NEW i \in DOMAIN wire'[c], wire'[c][i].what = "ack" PROVE FALSE
      OBVIOUS
    <3>1. i + 1 \in DOMAIN wire[c] /\ wire[c][i + 1].what = "ack" /\ i \in Nat /\ i >= 1
      BY <1>8
    <3>2. i + 1 = 1
      BY <1>2, <3>1 DEF AckOK
    <3> QED BY <3>1, <3>2
  <2>3. \A d \in Clients : \A i \in DOMAIN wire'[d] :
          wire'[d][i].what = "ack" => i = 1 /\ d = Peer /\ state'[d] = "joining" /\ ~inbox'[d].ack
    BY <1>1, <1>2, <1>3, <1>7, <2>2 DEF AckOK
  <2>4. state'[Peer] = "joining" /\ ~cut' /\ ~inbox'[Peer].ack =>
          wire'[Peer] # <<>> /\ wire'[Peer][1].what = "ack"
    <3> SUFFICES ASSUME state[Peer] = "joining", ~inbox'[Peer].ack
                 PROVE  wire'[Peer] # <<>> /\ wire'[Peer][1].what = "ack"
      BY <1>3
    <3>1. CASE c = Peer
      BY <1>2, <1>3, <1>5, <1>7, <3>1 DEF AckOK
    <3>2. CASE o = Peer
      BY <1>2, <1>3, <1>7, <3>2 DEF AckOK
    <3> QED BY <1>1, <3>1, <3>2, ClientsFacts
  <2>5. state'[Host] # "joining"
    BY <1>2, <1>3 DEF AckOK
  <2> QED BY <2>1, <2>3, <2>4, <2>5 DEF AckOK
<1>12. EndOK'
  <2>1. state[c] # "off" /\ state[o] = "off" =>
          inbox'[c].eof \/ \E i \in DOMAIN wire'[c] : wire'[c][i].what = "eof"
    <3> SUFFICES ASSUME state[c] # "off", state[o] = "off", ~inbox'[c].eof
                 PROVE  \E i \in DOMAIN wire'[c] : wire'[c][i].what = "eof"
      OBVIOUS
    <3>1. ~inbox[c].eof /\ what # "eof"
      BY <1>5, <1>7
    <3>2. PICK i \in DOMAIN wire[c] : wire[c][i].what = "eof"
      BY <1>2, <1>3, <3>1 DEF EndOK, o
    <3> QED BY <1>8, <3>1, <3>2
  <2>2. state[o] # "off" /\ state[c] = "off" =>
          inbox'[o].eof \/ \E i \in DOMAIN wire'[o] : wire'[o][i].what = "eof"
    BY <1>1, <1>2, <1>3, <1>7 DEF EndOK
  <2> QED BY <1>1, <1>3, <2>1, <2>2 DEF EndOK, o
<1>13. HeardOK(c)'
  BY <1>3, <1>5, <1>6, <1>7 DEF HeardOK, Unheard
<1>14. HeardOK(o)'
  <2> SUFFICES ASSUME state[o] = "connected", ~left[c], Unheard(o)', wire[o] = <<>>,
                      state[c] = "joining"
               PROVE  IF inbox'[c].ack
                      THEN quiet[o] <= firstWait(o) + sinceFrame[c]
                      ELSE quiet[o] <= wire'[c][1].age
    BY <1>1, <1>2, <1>3, <1>7 DEF HeardOK, Unheard, Silence, firstWait
  <2>1. IF inbox[c].ack THEN quiet[o] <= firstWait(o) + sinceFrame[c]
                        ELSE quiet[o] <= wire[c][1].age
    BY <1>1, <1>2, <1>3, <1>7 DEF HeardOK, Unheard
  <2>2. inbox[c].ack \/ what = "ack"
    BY <1>1, <1>2, <1>3, ClientsFacts DEF AckOK
  <2>3. CASE inbox[c].ack
    BY <1>5, <1>7, <2>1, <2>3
  <2>4. CASE ~inbox[c].ack
    <3>1. o = Host
      BY <1>1, <1>6, <2>2, <2>4, ClientsFacts
    <3>2. firstWait(o) = Delay
      BY <3>1 DEF firstWait
    <3>3. quiet[o] \in Int /\ sinceFrame[c] \in Nat /\ Delay \in Nat
      BY <1>1, <1>2, BoundsFacts DEF TypesOK
    <3> QED BY <1>3, <1>5, <1>7, <2>1, <2>2, <2>4, <3>2, <3>3
  <2> QED BY <2>3, <2>4
<1>15. CutOK(c)' /\ CutOK(o)'
  BY <1>3 DEF CutOK
<1> QED BY <1>1, <1>9, <1>10, <1>11, <1>12, <1>13, <1>14, <1>15 DEF TimedInv
LEMMA LeaveEditorInv ==
  ASSUME TimedInv, NEW c \in Clients, leaveEditor(c)
  PROVE  TimedInv'
<1>1. TypesOK' /\ PlainOK'
  BY DEF TimedInv, TypesOK, PlainOK, leaveEditor, QuietBound, CutBound
<1>2. AckOK' /\ EndOK'
  BY DEF TimedInv, AckOK, EndOK, leaveEditor
<1>3. \A d \in Clients : left'[d] = FALSE => left[d] = FALSE
  BY DEF TimedInv, TypesOK, leaveEditor
<1>4. ASSUME NEW d \in Clients
      PROVE  HeardOK(d)' /\ CutOK(d)'
  <2>1. HeardOK(d) /\ CutOK(d) /\ other(d) \in Clients
    BY ClientsFacts DEF TimedInv
  <2>2. left' \in [Clients -> BOOLEAN]
    BY <1>1 DEF TypesOK
  <2>3. HeardOK(d)'
    BY <1>3, <2>1, <2>2 DEF HeardOK, Unheard, Silence, firstWait, leaveEditor
  <2>4. CutOK(d)'
    BY <1>3, <2>1, <2>2 DEF CutOK, QuietBound, leaveEditor
  <2> QED BY <2>3, <2>4
<1> QED BY <1>1, <1>2, <1>4 DEF TimedInv

LEMMA EnterEditorInv ==
  ASSUME TimedInv, NEW c \in Clients, enterEditor(c)
  PROVE  TimedInv'
<1>1. TypesOK /\ PlainOK /\ left[c]
  BY DEF TimedInv, PlainOK, enterEditor
<1>2. \A d \in Clients : d # c => sinceFrame'[d] = sinceFrame[d]
  BY <1>1 DEF TypesOK, enterEditor
<1>3. TypesOK'
  <2>1. sinceFrame' \in [Clients -> Nat] /\ sinceFrame'[c] = 0
    BY <1>1 DEF TypesOK, enterEditor
  <2>2. \A d \in Clients : sinceFrame'[d] <= Gap[d]
    <3>1. Gap[c] \in Nat /\ \A d \in Clients : sinceFrame[d] <= Gap[d]
      BY <1>1, BoundsFacts DEF TypesOK
    <3> QED BY <1>2, <2>1, <3>1
  <2> QED BY <1>1, <2>1, <2>2 DEF TypesOK, enterEditor, QuietBound, CutBound
<1>4. PlainOK' /\ AckOK' /\ EndOK'
  BY <1>1 DEF TimedInv, TypesOK, PlainOK, AckOK, EndOK, enterEditor
<1>5. ASSUME NEW d \in Clients
      PROVE  HeardOK(d)' /\ CutOK(d)'
  <2>1. HeardOK(d) /\ CutOK(d) /\ other(d) \in Clients
    BY ClientsFacts DEF TimedInv
  <2>2. ~left'[other(d)] => sinceFrame'[other(d)] = sinceFrame[other(d)] /\ ~left[other(d)]
    BY <1>1, <1>2, <2>1 DEF enterEditor
  <2>3. ~left'[d] => sinceFrame'[d] = sinceFrame[d] /\ ~left[d]
    BY <1>1, <1>2, <2>1 DEF enterEditor
  <2>4. HeardOK(d)'
    BY <2>1, <2>2 DEF HeardOK, Unheard, Silence, firstWait, enterEditor
  <2>5. CutOK(d)'
    BY <2>1, <2>3 DEF CutOK, QuietBound, enterEditor
  <2> QED BY <2>4, <2>5
<1> QED BY <1>3, <1>4, <1>5 DEF TimedInv

LEMMA SetClockInv ==
  ASSUME TimedInv, NEW c \in Clients, NEW by \in {-MaxSkew, MaxSkew}, setClock(c, by)
  PROVE  TimedInv'
<1>1. by \in -MaxSkew..MaxSkew
  BY BoundsFacts
<1>2. TypesOK'
  BY <1>1 DEF TimedInv, TypesOK, setClock, QuietBound, CutBound
<1>3. PlainOK' /\ AckOK' /\ EndOK'
  BY DEF TimedInv, PlainOK, AckOK, EndOK, setClock
<1>4. ASSUME NEW d \in Clients
      PROVE  HeardOK(d)' /\ CutOK(d)'
  BY <1>4 DEF TimedInv, HeardOK, CutOK, Unheard, Silence, firstWait, QuietBound, setClock
<1> QED BY <1>2, <1>3, <1>4 DEF TimedInv

LEMMA CutNetworkInv ==
  ASSUME TimedInv, cutNetwork
  PROVE  TimedInv'
<1>1. /\ TypesOK /\ PlainOK /\ AckOK /\ ~cut /\ cut' /\ cutFor = 0
      /\ wire' = [c \in Clients |-> <<>>]
      /\ UNCHANGED <<state, editing, left, sinceFrame, accum, beaten, quiet, shift, clockSet, inbox,
                     cutFor>>
  BY DEF TimedInv, PlainOK, cutNetwork
<1>2. TypesOK'
  <2>1. wire' \in [Clients -> Seq(Travelling)] /\ cut' \in BOOLEAN
    BY <1>1 DEF cutNetwork
  <2> QED BY <1>1, <2>1 DEF TypesOK, QuietBound, CutBound
<1>3. PlainOK'
  BY <1>1 DEF PlainOK
<1>4. AckOK' /\ EndOK'
  BY <1>1 DEF AckOK, EndOK
<1>5. ASSUME NEW d \in Clients
      PROVE  HeardOK(d)' /\ CutOK(d)'
  <2>1. /\ quiet[d] \in Nat /\ sinceFrame[d] \in Nat /\ Gap[d] \in Nat /\ Timeout \in Nat
        /\ MaxSkew \in Nat
    BY <1>1, BoundsFacts DEF TypesOK
  <2>2. HeardOK(d)'
    BY <1>1 DEF HeardOK
  <2>3. CutOK(d)'
    BY <1>1, <2>1 DEF CutOK, QuietBound
  <2> QED BY <2>2, <2>3
<1> QED BY <1>2, <1>3, <1>4, <1>5 DEF TimedInv

\* Messages grow older together.
LEMMA Aged ==
  ASSUME NEW w \in Seq(Travelling), \A i \in DOMAIN w : w[i].age < Delay, NEW v,
         v = [i \in DOMAIN w |-> [w[i] EXCEPT !.age = @ + 1]]
  PROVE  /\ v \in Seq(Travelling) /\ DOMAIN v = DOMAIN w /\ (v = <<>> <=> w = <<>>)
         /\ \A i \in DOMAIN w : v[i].what = w[i].what /\ v[i].age = w[i].age + 1
<1>1. Len(w) \in Nat /\ DOMAIN w = 1..Len(w)
  OBVIOUS
<1>2. ASSUME NEW i \in 1..Len(w)
      PROVE  v[i] \in Travelling /\ v[i].what = w[i].what /\ v[i].age = w[i].age + 1
  <2>1. w[i] \in Travelling /\ w[i].age < Delay
    BY <1>1
  <2>2. v[i] = [w[i] EXCEPT !.age = w[i].age + 1]
    BY <1>1
  <2>3. w[i].age + 1 \in 0..Delay
    BY <2>1, BoundsFacts DEF Travelling
  <2> QED BY <2>1, <2>2, <2>3 DEF Travelling
<1>3. v \in [1..Len(w) -> Travelling]
  BY <1>1, <1>2
<1>4. v \in Seq(Travelling) /\ DOMAIN v = 1..Len(w) /\ Len(v) = Len(w)
  BY <1>1, <1>3
<1> QED BY <1>1, <1>2, <1>4
LEMMA PassInv ==
  ASSUME TimedInv, pass
  PROVE  TimedInv'
<1>1. TypesOK /\ PlainOK /\ AckOK /\ EndOK
  BY DEF TimedInv
<1>2. UNCHANGED <<state, editing, left, accum, beaten, shift, clockSet, inbox, cut>>
  BY DEF pass
<1>3. /\ QuietBound \in Nat /\ CutBound \in Nat /\ cutFor \in 0..CutBound /\ Timeout \in Nat
      /\ MaxSkew \in Nat
  BY <1>1, BoundsFacts DEF TypesOK
<1>4. /\ cutFor' \in 0..CutBound /\ cutFor' <= cutFor + 1
      /\ ~cut => cutFor' = cutFor
  <2>1. Min({cutFor + 1, CutBound}) = IF cutFor + 1 <= CutBound THEN cutFor + 1 ELSE CutBound
    BY <1>3, MinOfTwo
  <2>2. cutFor' = IF cut THEN Min({cutFor + 1, CutBound}) ELSE cutFor
    BY DEF pass
  <2> QED BY <1>3, <2>1, <2>2
<1>5. ASSUME NEW c \in Clients
      PROVE  /\ wire'[c] \in Seq(Travelling) /\ DOMAIN wire'[c] = DOMAIN wire[c]
             /\ (wire'[c] = <<>> <=> wire[c] = <<>>)
             /\ \A i \in DOMAIN wire[c] :
                  wire'[c][i].what = wire[c][i].what /\ wire'[c][i].age = wire[c][i].age + 1
  <2>1. /\ wire[c] \in Seq(Travelling) /\ \A i \in DOMAIN wire[c] : wire[c][i].age < Delay
        /\ wire'[c] = [i \in DOMAIN wire[c] |-> [wire[c][i] EXCEPT !.age = @ + 1]]
    BY <1>1 DEF TypesOK, pass
  <2> QED BY <2>1, Aged
<1>6. ASSUME NEW c \in Clients
      PROVE  /\ sinceFrame[c] \in Nat /\ quiet[c] \in 0..QuietBound /\ accum[c] \in Nat
             /\ firstWait(c) \in Nat /\ Silence(c) \in Nat /\ Gap[c] \in Nat
             /\ sinceFrame'[c] \in Nat /\ sinceFrame'[c] <= Gap[c]
             /\ sinceFrame'[c] >= sinceFrame[c]
             /\ ~left[c] /\ state[c] # "off" => sinceFrame'[c] = sinceFrame[c] + 1
             /\ quiet'[c] \in 0..QuietBound /\ quiet'[c] <= quiet[c] + 1
             /\ state[c] = "connected" =>
                  quiet'[c] = IF quiet[c] + 1 <= QuietBound THEN quiet[c] + 1 ELSE QuietBound
  <2>1. /\ sinceFrame[c] \in Nat /\ quiet[c] \in 0..QuietBound /\ accum[c] \in Nat
        /\ sinceFrame[c] <= Gap[c]
        /\ left[c] \/ editing[c]
    BY <1>1, BoundsFacts DEF TypesOK, PlainOK
  <2>2. firstWait(c) \in Nat /\ Silence(c) \in Nat /\ Gap[c] \in Nat
    BY BoundsFacts
  <2>3. /\ editing[c] /\ state[c] # "off" => sinceFrame[c] < Gap[c]
        /\ sinceFrame'[c] = IF editing[c] /\ state[c] # "off" THEN sinceFrame[c] + 1 ELSE sinceFrame[c]
        /\ quiet'[c] = IF state[c] = "connected" THEN Min({quiet[c] + 1, QuietBound}) ELSE quiet[c]
    BY DEF pass
  <2>4. Min({quiet[c] + 1, QuietBound}) = IF quiet[c] + 1 <= QuietBound THEN quiet[c] + 1 ELSE QuietBound
    BY <1>3, <2>1, MinOfTwo
  <2>5. sinceFrame'[c] \in Nat /\ sinceFrame'[c] <= Gap[c] /\ sinceFrame'[c] >= sinceFrame[c]
    <3>1. CASE editing[c] /\ state[c] # "off"
      <4>1. sinceFrame[c] < Gap[c] /\ sinceFrame'[c] = sinceFrame[c] + 1
        BY <2>3, <3>1
      <4> QED BY <2>1, <2>2, <4>1
    <3>2. CASE ~(editing[c] /\ state[c] # "off")
      <4>1. sinceFrame'[c] = sinceFrame[c]
        BY <2>3, <3>2
      <4> QED BY <2>1, <2>2, <4>1
    <3> QED BY <3>1, <3>2
  <2>7. ~left[c] /\ state[c] # "off" => sinceFrame'[c] = sinceFrame[c] + 1
    BY <2>1, <2>3
  <2>6. quiet'[c] \in 0..QuietBound /\ quiet'[c] <= quiet[c] + 1
    BY <1>3, <2>1, <2>3, <2>4
  <2> QED BY <2>1, <2>2, <2>3, <2>4, <2>5, <2>6, <2>7
<1>7. TypesOK'
  <2>1. wire' \in [Clients -> Seq(Travelling)]
    BY <1>5 DEF pass
  <2>2. sinceFrame' \in [Clients -> Nat] /\ \A c \in Clients : sinceFrame'[c] <= Gap[c]
    BY <1>6 DEF pass
  <2>3. quiet' \in [Clients -> 0..QuietBound]
    BY <1>6 DEF pass
  <2>4. (state \in [Clients -> {"joining", "connected", "off"}])'
    BY <1>1, <1>2 DEF TypesOK
  <2>5. (editing \in [Clients -> BOOLEAN] /\ left \in [Clients -> BOOLEAN])'
    BY <1>1, <1>2 DEF TypesOK
  <2>6. (accum \in [Clients -> 0..(Interval - 1)] /\ beaten \in [Clients -> BOOLEAN])'
    BY <1>1, <1>2 DEF TypesOK
  <2>7. (shift \in [Clients -> -MaxSkew..MaxSkew] /\ clockSet \in BOOLEAN)'
    BY <1>1, <1>2 DEF TypesOK
  <2>8. (inbox \in [Clients -> Mails] /\ cut \in BOOLEAN)'
    BY <1>1, <1>2 DEF TypesOK
  <2>9. (quiet \in [Clients -> 0..QuietBound])' /\ (cutFor \in 0..CutBound)'
    BY <1>4, <2>3 DEF QuietBound, CutBound
  <2>10. (\A c \in Clients : sinceFrame[c] <= Gap[c])'
    BY <2>2
  <2> QED BY <2>1, <2>2, <2>4, <2>5, <2>6, <2>7, <2>8, <2>9, <2>10 DEF TypesOK
<1>8. PlainOK'
  <2>1. (\A c \in Clients : state[c] = "connected" => beaten[c])'
    BY <1>1, <1>2 DEF PlainOK
  <2>2. (\A c \in Clients : left[c] \/ editing[c])'
    BY <1>1, <1>2 DEF PlainOK
  <2>3. (\A c \in Clients : cut => wire[c] = <<>>)'
    BY <1>1, <1>2, <1>5 DEF PlainOK
  <2>4. (cut \/ cutFor = 0)'
    BY <1>1, <1>2, <1>4 DEF PlainOK
  <2> QED BY <2>1, <2>2, <2>3, <2>4 DEF PlainOK
<1>9. AckOK'
  <2>1. \A c \in Clients : \A i \in DOMAIN wire'[c] :
          wire'[c][i].what = "ack" => i = 1 /\ c = Peer /\ state[c] = "joining" /\ ~inbox[c].ack
    BY <1>1, <1>5 DEF AckOK
  <2>2. state[Peer] = "joining" /\ ~cut /\ ~inbox[Peer].ack =>
          wire'[Peer] # <<>> /\ wire'[Peer][1].what = "ack"
    <3> SUFFICES ASSUME state[Peer] = "joining", ~cut, ~inbox[Peer].ack
                 PROVE  wire'[Peer] # <<>> /\ wire'[Peer][1].what = "ack"
      OBVIOUS
    <3>1. wire[Peer] # <<>> /\ wire[Peer][1].what = "ack" /\ wire[Peer] \in Seq(Travelling)
      BY <1>1, ClientsFacts DEF AckOK, TypesOK
    <3>2. 1 \in DOMAIN wire[Peer]
      BY <3>1
    <3> QED BY <1>5, <3>1, <3>2, ClientsFacts
  <2> QED BY <1>1, <1>2, <2>1, <2>2 DEF AckOK
<1>10. EndOK'
  BY <1>1, <1>2, <1>5 DEF EndOK
<1>11. ASSUME NEW c \in Clients
       PROVE  HeardOK(c)'
  <2> DEFINE o == other(c)
  <2>1. o \in Clients /\ HeardOK(c) /\ wire[c] \in Seq(Travelling) /\ wire[o] \in Seq(Travelling)
    BY <1>1, ClientsFacts DEF TimedInv, TypesOK
  <2> SUFFICES ASSUME state[c] = "connected", ~cut, ~left[o], Unheard(c)
               PROVE  /\ wire'[c] # <<>> => quiet'[c] <= Silence(c) + wire'[c][1].age
                      /\ wire'[c] = <<>> =>
                           /\ state[o] = "connected" =>
                                quiet'[c] <= firstWait(c) + accum[o] + sinceFrame'[o]
                           /\ state[o] = "joining" =>
                                IF inbox[o].ack
                                THEN quiet'[c] <= firstWait(c) + sinceFrame'[o]
                                ELSE quiet'[c] <= wire'[o][1].age
    BY <1>2 DEF HeardOK, Unheard, Silence, firstWait
  <2>2. /\ wire[c] # <<>> => quiet[c] <= Silence(c) + wire[c][1].age
        /\ wire[c] = <<>> =>
             /\ state[o] = "connected" => quiet[c] <= firstWait(c) + accum[o] + sinceFrame[o]
             /\ state[o] = "joining" =>
                  IF inbox[o].ack THEN quiet[c] <= firstWait(c) + sinceFrame[o]
                                  ELSE quiet[c] <= wire[o][1].age
    BY <2>1 DEF HeardOK
  <2>3. quiet'[c] <= quiet[c] + 1 /\ quiet[c] \in Nat /\ quiet'[c] \in Nat /\ Silence(c) \in Nat
        /\ firstWait(c) \in Nat
    BY <1>3, <1>6
  <2>4. /\ state[o] # "off" => sinceFrame'[o] = sinceFrame[o] + 1
        /\ sinceFrame[o] \in Nat /\ accum[o] \in Nat
    BY <1>6, <2>1
  <2>5. ASSUME NEW d \in Clients, wire[d] # <<>>
        PROVE  wire'[d][1].age = wire[d][1].age + 1 /\ wire[d][1].age \in Nat
    <3>1. wire[d] \in Seq(Travelling)
      BY <1>1 DEF TypesOK
    <3>2. wire[d][1].age \in Nat /\ 1 \in DOMAIN wire[d]
      BY <2>5, <3>1, HeadTravels
    <3> QED BY <1>5, <3>2
  <2> HIDE DEF o
  <2>6. CASE wire[c] # <<>>
    <3>1. quiet[c] <= Silence(c) + wire[c][1].age
      BY <2>2, <2>6
    <3>2. wire'[c][1].age = wire[c][1].age + 1 /\ wire[c][1].age \in Nat
      BY <2>5, <2>6
    <3>3. quiet'[c] <= Silence(c) + wire'[c][1].age
      BY <2>3, <3>1, <3>2
    <3> QED BY <1>5, <2>6, <3>3
  <2>7. CASE wire[c] = <<>>
    <3>1. state[o] = "connected" => quiet'[c] <= firstWait(c) + accum[o] + sinceFrame'[o]
      BY <2>2, <2>3, <2>4, <2>7
    <3>2. state[o] = "joining" /\ inbox[o].ack => quiet'[c] <= firstWait(c) + sinceFrame'[o]
      BY <2>2, <2>3, <2>4, <2>7
    <3>3. state[o] = "joining" /\ ~inbox[o].ack => quiet'[c] <= wire'[o][1].age
      <4> SUFFICES ASSUME state[o] = "joining", ~inbox[o].ack
                   PROVE  quiet'[c] <= wire'[o][1].age
        OBVIOUS
      <4>1. o = Peer
        BY <1>1, <2>1, ClientsFacts DEF AckOK
      <4>2. wire[o] # <<>>
        BY <1>1, <4>1 DEF AckOK
      <4> QED BY <2>1, <2>2, <2>3, <2>5, <2>7, <4>2
    <3> QED BY <1>5, <2>7, <3>1, <3>2, <3>3
  <2> QED BY <2>6, <2>7
<1>12. ASSUME NEW c \in Clients
       PROVE  CutOK(c)'
  <2> SUFFICES ASSUME cut, ~left[c], state[c] # "off"
               PROVE  /\ inbox[c] # NoMail => cutFor' <= sinceFrame'[c]
                      /\ state[c] = "connected" =>
                           /\ quiet'[c] = QuietBound \/ cutFor' <= quiet'[c] + Gap[c]
                           /\ cutFor' <= Timeout + MaxSkew + Gap[c] + sinceFrame'[c]
    BY <1>2 DEF CutOK, QuietBound
  <2>1. /\ inbox[c] # NoMail => cutFor <= sinceFrame[c]
        /\ state[c] = "connected" =>
             /\ quiet[c] = QuietBound \/ cutFor <= quiet[c] + Gap[c]
             /\ cutFor <= Timeout + MaxSkew + Gap[c] + sinceFrame[c]
    BY DEF TimedInv, CutOK
  <2>2. /\ sinceFrame'[c] = sinceFrame[c] + 1 /\ sinceFrame[c] \in Nat /\ Gap[c] \in Nat
        /\ quiet[c] \in 0..QuietBound
        /\ state[c] = "connected" =>
             quiet'[c] = IF quiet[c] + 1 <= QuietBound THEN quiet[c] + 1 ELSE QuietBound
    BY <1>6
  <2>3. cutFor \in Nat /\ cutFor' \in Nat /\ cutFor' <= cutFor + 1
    BY <1>3, <1>4
  <2>4. inbox[c] # NoMail => cutFor' <= sinceFrame'[c]
    BY <2>1, <2>2, <2>3
  <2>5. state[c] = "connected" => cutFor' <= Timeout + MaxSkew + Gap[c] + sinceFrame'[c]
    BY <1>3, <2>1, <2>2, <2>3
  <2>6. state[c] = "connected" => quiet'[c] = QuietBound \/ cutFor' <= quiet'[c] + Gap[c]
    BY <1>3, <2>1, <2>2, <2>3
  <2> QED BY <2>4, <2>5, <2>6
<1> QED BY <1>7, <1>8, <1>9, <1>10, <1>11, <1>12 DEF TimedInv

-----------------------------------------------------------------------------
LEMMA InitInv == Init => TimedInv
<1> SUFFICES ASSUME Init PROVE TimedInv
  OBVIOUS
<1> USE DEF Init
<1>1. TypesOK
  <2>1. <<>> \in Seq(Travelling) /\ <<[what |-> "ack", age |-> 0]>> \in Seq(Travelling)
    BY BoundsFacts DEF Travelling, Words
  <2>2. wire \in [Clients -> Seq(Travelling)]
    BY <2>1
  <2>3. inbox \in [Clients -> Mails]
    BY DEF NoMail, Mails
  <2>4. cutFor \in 0..CutBound /\ quiet \in [Clients -> 0..QuietBound]
        /\ accum \in [Clients -> 0..(Interval - 1)] /\ shift \in [Clients -> -MaxSkew..MaxSkew]
    BY BoundsFacts
  <2>5. \A c \in Clients : sinceFrame[c] <= Gap[c]
    BY BoundsFacts
  <2> QED BY <2>2, <2>3, <2>4, <2>5 DEF TypesOK
<1>2. PlainOK
  BY ClientsFacts DEF PlainOK
<1>3. AckOK
  BY ClientsFacts DEF AckOK, NoMail
<1>4. EndOK
  BY ClientsFacts DEF EndOK
<1>5. ASSUME NEW c \in Clients
      PROVE  HeardOK(c) /\ CutOK(c)
  <2>1. wire[Peer] = <<[what |-> "ack", age |-> 0]>> /\ wire[Peer][1].age = 0
    BY ClientsFacts
  <2>2. HeardOK(c)
    BY <2>1, ClientsFacts, BoundsFacts DEF HeardOK, NoMail
  <2>3. CutOK(c)
    BY DEF CutOK
  <2> QED BY <2>2, <2>3
<1> QED BY <1>1, <1>2, <1>3, <1>4, <1>5 DEF TimedInv

LEMMA NextInv == TimedInv /\ [Next]_vars => TimedInv'
<1> SUFFICES ASSUME TimedInv, [Next]_vars PROVE TimedInv'
  OBVIOUS
<1>1. ASSUME NEW c \in Clients, frame(c) \/ statusTick(c) PROVE TimedInv'
  BY <1>1, FrameInv
<1>2. ASSUME NEW c \in Clients, receive(c) PROVE TimedInv'
  BY <1>2, ReceiveInv
<1>3. ASSUME NEW c \in Clients, leaveEditor(c) PROVE TimedInv'
  BY <1>3, LeaveEditorInv
<1>4. ASSUME NEW c \in Clients, enterEditor(c) PROVE TimedInv'
  BY <1>4, EnterEditorInv
<1>5. ASSUME NEW c \in Clients, NEW by \in {-MaxSkew, MaxSkew}, setClock(c, by) PROVE TimedInv'
  BY <1>5, SetClockInv
<1>6. CASE cutNetwork
  BY <1>6, CutNetworkInv
<1>7. CASE pass
  BY <1>7, PassInv
<1>8. CASE UNCHANGED vars
  BY <1>8 DEF vars, TimedInv, TypesOK, PlainOK, AckOK, EndOK, HeardOK, CutOK, Unheard, Silence,
              firstWait, QuietBound, CutBound
<1> QED BY <1>1, <1>2, <1>3, <1>4, <1>5, <1>6, <1>7, <1>8 DEF Next

LEMMA Invariant == Spec => []TimedInv
  BY InitInv, NextInv, PTL DEF Spec

-----------------------------------------------------------------------------
(***************************************************************************)
(* The theorems.                                                           *)
(***************************************************************************)

\* Every time, counter and queue keeps its range: a frame is never late, the
\* ping's timer stays below the interval, a connected client has a heartbeat.
THEOREM TimedTypes == Spec => []TypeOK
<1>1. TimedInv => TypeOK
  <2> SUFFICES ASSUME TimedInv PROVE TypeOK
    OBVIOUS
  <2>1. TypesOK /\ PlainOK
    BY DEF TimedInv
  <2>2. ASSUME NEW c \in Clients
        PROVE  /\ sinceFrame[c] \in 0..Gap[c] /\ accum[c] \in 0..(Interval - 1)
               /\ shift[c] \in -MaxSkew..MaxSkew
               /\ state[c] = "connected" => beaten[c]
               /\ \A i \in DOMAIN wire[c] : wire[c][i].age \in 0..Delay
    <3>1. wire[c] \in Seq(Travelling)
      BY <2>1 DEF TypesOK
    <3>2. ASSUME NEW i \in DOMAIN wire[c] PROVE wire[c][i].age \in 0..Delay
      <4>1. wire[c][i] \in Travelling
        BY <3>1
      <4> QED BY <4>1 DEF Travelling
    <3>3. sinceFrame[c] \in 0..Gap[c]
      BY <2>1, BoundsFacts DEF TypesOK
    <3> QED BY <2>1, <3>2, <3>3 DEF TypesOK, PlainOK
  <2> QED BY <2>1, <2>2 DEF TypeOK, TypesOK, Mails
<1> QED BY <1>1, Invariant, PTL

\* A client that stays in its editor notices a cut connection within the
\* timeout, the clock's shift and two stalls: one until the mail of before the
\* cut is handled, one until the frame that finds the silence too long.
THEOREM SilenceEnds == Spec => []SilenceIsNoticed
<1>1. TimedInv => SilenceIsNoticed
  <2> SUFFICES ASSUME TimedInv, NEW c \in Clients, state[c] = "connected", ~left[c]
               PROVE  cutFor <= Timeout + MaxSkew + 2 * Gap[c]
    BY DEF SilenceIsNoticed
  <2>1. /\ sinceFrame[c] \in Nat /\ sinceFrame[c] <= Gap[c] /\ Gap[c] \in Nat /\ cutFor \in Nat
        /\ Timeout \in Nat /\ MaxSkew \in Nat
    BY BoundsFacts DEF TimedInv, TypesOK
  <2>2. CASE ~cut
    BY <2>1, <2>2 DEF TimedInv, PlainOK
  <2>3. CASE cut
    <3>1. cutFor <= Timeout + MaxSkew + Gap[c] + sinceFrame[c]
      BY <2>3 DEF TimedInv, CutOK
    <3> QED BY <2>1, <3>1
  <2> QED BY <2>2, <2>3
<1> QED BY <1>1, Invariant, PTL

\* How long a connected client can be without a heartbeat of a partner in its
\* editor, when it ticks.
LEMMA SilenceIsShort ==
  ASSUME TimedInv, NEW c \in Clients, state[c] = "connected", ~cut, ~left[other(c)], Unheard(c)
  PROVE  quiet[c] <= Silence(c) + Delay
<1> DEFINE o == other(c)
<1>1. /\ TypesOK /\ AckOK /\ EndOK /\ HeardOK(c) /\ o \in Clients /\ other(o) = c
      /\ o = Host \/ o = Peer
  BY ClientsFacts DEF TimedInv
<1>2. /\ wire[c] # <<>> => quiet[c] <= Silence(c) + wire[c][1].age
      /\ wire[c] = <<>> =>
           /\ state[o] = "connected" => quiet[c] <= firstWait(c) + accum[o] + sinceFrame[o]
           /\ state[o] = "joining" =>
                IF inbox[o].ack THEN quiet[c] <= firstWait(c) + sinceFrame[o]
                                ELSE quiet[c] <= wire[o][1].age
  BY DEF TimedInv, HeardOK
<1>3. /\ Silence(c) = firstWait(c) + (Interval - 1) + Gap[o] /\ firstWait(c) \in Nat
      /\ Interval \in Nat /\ Interval > 0 /\ Gap[o] \in Nat /\ Delay \in Nat
      /\ Silence(c) \in Nat
  BY BoundsFacts, ClientsFacts
<1>4. /\ quiet[c] \in Nat /\ accum[o] \in Nat /\ accum[o] <= Interval - 1
      /\ sinceFrame[o] \in Nat /\ sinceFrame[o] <= Gap[o]
  BY <1>1, BoundsFacts DEF TypesOK
<1>5. \A d \in Clients : wire[d] # <<>> => wire[d][1].age \in Nat /\ wire[d][1].age <= Delay
  BY <1>1, HeadTravels DEF TypesOK
<1>6. CASE wire[c] # <<>>
  <2>1. wire[c][1].age \in Nat /\ wire[c][1].age <= Delay
    BY <1>5, <1>6
  <2>2. quiet[c] <= Silence(c) + wire[c][1].age
    BY <1>2, <1>6
  <2> QED BY <1>3, <1>4, <2>1, <2>2
<1>7. CASE wire[c] = <<>>
  <2>1. state[o] # "off"
    BY <1>1, <1>7 DEF EndOK, Unheard
  <2>2. CASE state[o] = "connected"
    <3>1. quiet[c] <= firstWait(c) + accum[o] + sinceFrame[o]
      BY <1>2, <1>7, <2>2
    <3> QED BY <1>3, <1>4, <3>1
  <2>3. CASE state[o] = "joining" /\ inbox[o].ack
    <3>1. quiet[c] <= firstWait(c) + sinceFrame[o]
      BY <1>2, <1>7, <2>3
    <3> QED BY <1>3, <1>4, <3>1
  <2>4. CASE state[o] = "joining" /\ ~inbox[o].ack
    <3>1. o = Peer
      BY <1>1, <2>4 DEF AckOK
    <3>2. wire[o] # <<>>
      BY <1>1, <2>4, <3>1 DEF AckOK
    <3>3. wire[o][1].age \in Nat /\ wire[o][1].age <= Delay /\ quiet[c] <= wire[o][1].age
      BY <1>1, <1>2, <1>5, <1>7, <2>4, <3>2
    <3> QED BY <1>3, <1>4, <3>3
  <2> QED BY <1>1, <2>1, <2>2, <2>3, <2>4 DEF TypesOK
<1> QED BY <1>6, <1>7

\* A client only ticks in a frame or for a popup.
LEMMA OnlyTicksEnd ==
  ASSUME TypesOK, NEW c \in Clients, [Next]_vars, state'[c] # state[c]
  PROVE  state[c] # "off" /\ \E dt \in Nat : tick(c, dt)
<1>1. ASSUME NEW d \in Clients, frame(d)
      PROVE  state[d] # "off" /\ tick(d, sinceFrame[d]) /\ sinceFrame[d] \in Nat
  BY <1>1 DEF frame, TypesOK
<1>2. ASSUME NEW d \in Clients, statusTick(d)
      PROVE  state[d] # "off" /\ tick(d, 0) /\ 0 \in Nat
  BY <1>2 DEF statusTick
<1>3. ASSUME NEW d \in Clients, NEW dt \in Nat, tick(d, dt), d # c
      PROVE  state'[c] = state[c]
  BY <1>3 DEF tick, TypesOK
<1>4. PICK d \in Clients : frame(d) \/ statusTick(d)
  BY DEF Next, vars, receive, leaveEditor, enterEditor, setClock, cutNetwork, pass
<1> QED BY <1>1, <1>2, <1>3, <1>4

\* No client drops a partner that is in its editor and reachable, however its
\* own frames stall, if the interval, the partner's stall, the ways of a message
\* and the clock's shift fit into the timeout.
THEOREM TimeoutIsTrue == Spec => NoFalseTimeout
<1>1. TimedInv /\ [Next]_vars =>
        [\A c \in Clients : Fits(c) /\ timesOut(c) => cut \/ left[other(c)]]_vars
  <2> SUFFICES ASSUME TimedInv, [Next]_vars, NEW c \in Clients, Fits(c), timesOut(c),
                      ~cut, ~left[other(c)]
               PROVE  FALSE
    OBVIOUS
  <2>1. state[c] = "connected" /\ state'[c] = "off" /\ ~inbox[c].eof
    BY DEF timesOut
  <2>2. TypesOK /\ PlainOK
    BY DEF TimedInv
  <2>3. PICK dt \in Nat : tick(c, dt)
    BY <2>1, <2>2, OnlyTicksEnd
  <2>4. PICK r : TickOf(c, dt, r)
    BY <2>1, <2>2, <2>3, TickChanges
  <2>5. r.state = "off"
    BY <2>1, <2>2, <2>4 DEF TickOf, TypesOK
  <2>6. inbox[c].pings = 0 /\ ~inbox[c].pong /\ quiet[c] + shift[c] > Timeout
    BY <2>1, <2>4, <2>5 DEF TickOf
  <2>7. quiet[c] <= Silence(c) + Delay
    BY <2>1, <2>6, SilenceIsShort DEF Unheard
  <2>8. /\ Silence(c) = firstWait(c) + (Interval - 1) + Gap[other(c)] /\ firstWait(c) \in Nat
        /\ Interval \in Nat /\ Gap[other(c)] \in Nat /\ Delay \in Nat /\ MaxSkew \in Nat
        /\ Timeout \in Nat
    BY BoundsFacts, ClientsFacts
  <2>9. quiet[c] \in Nat /\ shift[c] \in Int /\ shift[c] <= MaxSkew
    BY <2>2, <2>8, BoundsFacts DEF TypesOK
  <2> QED BY <2>6, <2>7, <2>8, <2>9 DEF Fits
<1> QED BY <1>1, Invariant, PTL DEF Spec, NoFalseTimeout
=============================================================================
