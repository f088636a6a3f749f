-------------------------------- MODULE Wire --------------------------------
(***************************************************************************)
(* From the host's room to the peer's handlers: the peer is told where the *)
(* room is, connects, and one side's messages cross a TCP stream that      *)
(* delivers its bytes in pieces of any size (a relay cuts them again).     *)
(* Two readers follow the stream: the transport's receive thread, whose    *)
(* whole frames go to SessionManager, and MessageCodec's parser, which is  *)
(* given the same bytes in pieces of its own.                              *)
(***************************************************************************)
EXTENDS Invitation
LOCAL INSTANCE SequencesExt
LOCAL INSTANCE FiniteSetsExt

CONSTANTS
  Rooms,       \* [name, endpoint, lan, key]: the host's name, the address in its
               \* code, its address on the local network, its session key
  Scripts,     \* what is written to the stream, see bytesOf
  Shares,      \* how the invitation reaches the peer, see told(s)
  Hearings     \* sequences of "room", "before", "other": datagrams heard

VARIABLES
  room,      \* the host's room
  found,     \* the JoinCode the peer ended up with
  script,    \* what is still to be sent
  sent,      \* what was sent
  stream,    \* all the bytes sent so far
  rpos,      \* how many of them recvLoop has read
  frame,     \* the cells of the frame recvLoop is reading
  open,      \* recvLoop runs
  control,   \* SessionManager's m_controlCodec
  handled,   \* the messages handleMessage was called with
  fpos,      \* how many bytes the incremental parser was given
  codec,     \* its state
  emitted    \* the messages it called back with

vars == <<room, found, script, sent, stream, rpos, frame, open, control, handled,
          fpos, codec, emitted>>
reading == <<rpos, frame, open, control, handled>>
parsing == <<fpos, codec, emitted>>

\* What another program may write to the socket: bytes in which no frame
\* begins, the header of a frame that is too large, a frame without a message.
Foreign(item) == item.type \in {"noise", "oversized", "odd"}

Init ==
  /\ room \in Rooms /\ script \in Scripts
  /\ found = NoCode /\ sent = <<>> /\ stream = <<>>
  /\ rpos = 0 /\ frame = <<>> /\ open = TRUE /\ control = EmptyCodec /\ handled = <<>>
  /\ fpos = 0 /\ codec = EmptyCodec /\ emitted = <<>>

-----------------------------------------------------------------------------
(* The invitation.                                                         *)

roomName(name) == name \o <<39, 115>>      \* "'s", for "'s Room"

Code == [endpoint |-> room.endpoint, key |-> room.key]
LanCode == [endpoint |-> room.lan, key |-> room.key]

\* What the peer types: the code as shown, with blanks around it or with its
\* prefix in small letters; the address and key in plain, or in small
\* letters; the key alone.
told(share) ==
  CASE share = "compact" -> formatCompact(Code)
    [] share = "blanks" -> <<Blank>> \o formatCompact(Code) \o <<Blank>>
    [] share = "small" -> toLower(SubSeq(Prefix, 1, 4)) \o from(formatCompact(Code), 5)
    [] share = "plain" -> format(Code)
    [] share = "plainSmall" -> endpointText(Code.endpoint) \o <<Hash>> \o toLower(Code.key)
    [] share = "key" -> toLower(Code.key)

\* The datagrams on the network: this room's, the one of the session its host
\* ran before, one of another host.
datagram(which) ==
  LET info(name, key, port) ==
        encodeDiscoveryPayload([room |-> roomName(name), name |-> name, key |-> key,
                                endpoint |-> [host |-> <<>>, port |-> port], version |-> 1])
      otherKey == [room.key EXCEPT ![1] = 90]
  IN CASE which = "room" -> [raw |-> info(room.name, room.key, room.lan.port),
                             sender |-> room.lan.host]
       [] which = "before" -> [raw |-> info(room.name, otherKey, room.lan.port),
                               sender |-> room.lan.host]
       [] which = "other" -> [raw |-> info(<<79>>, otherKey, room.lan.port),
                              sender |-> Append(room.lan.host, 50)]

\* JoinLayer::onJoin, then connectWith.
followInvitation(share, heard) ==
  /\ found = NoCode
  /\ found' = onJoin(told(share), [i \in DOMAIN heard |-> datagram(heard[i])])
  /\ found' # NoCode
  /\ UNCHANGED <<room, script, sent, stream, reading, parsing>>

-----------------------------------------------------------------------------
(* The stream.                                                             *)

HostId == 0

bytesOf(item, seq) == IF Foreign(item) THEN item.bytes ELSE encode(HostId, seq, item)

\* sendMessage: m_controlSequence counts from 1.
send ==
  /\ found # NoCode /\ script # <<>>
  /\ stream' = stream \o bytesOf(Head(script), Len(sent) + 1)
  /\ sent' = Append(sent, Head(script))
  /\ script' = Tail(script)
  /\ UNCHANGED <<room, found, reading, parsing>>

\* handleTcpBytes: the frame itself, or what the control codec makes of it.
handleTcpBytes(bytes) ==
  LET direct == decodeCompleteFrame(bytes)
      fed == feed(control, bytes)
  IN IF direct # <<>>
     THEN handled' = handled \o direct /\ UNCHANGED control
     ELSE handled' = handled \o fed.out /\ control' = fed.codec

\* How many cells recvExact still waits for: the header, then the payload.
wanted ==
  (IF Len(frame) < HeaderSize THEN HeaderSize ELSE HeaderSize + frame[3]) - Len(frame)

\* Mutant of recv: a short read is taken for a whole one.
recvOnce(n) ==
  /\ open /\ n <= Len(stream) - rpos /\ n <= wanted
  /\ rpos' = rpos + n
  /\ LET read == frame \o SubSeq(stream, rpos + 1, rpos + n) IN
       \/ /\ Len(frame) < HeaderSize
          /\ frame' = read
          /\ UNCHANGED <<open, control, handled>>
       \/ /\ Len(frame) >= HeaderSize
          /\ frame' = <<>> /\ handleTcpBytes(read) /\ UNCHANGED open
  /\ UNCHANGED <<room, found, script, sent, stream, parsing>>

\* recv() returns n cells, and with the last one recvExact returns.  A bad or
\* oversized header ends the loop; a whole frame is posted.
recv(n) ==
  /\ open /\ n <= Len(stream) - rpos /\ n <= wanted
  /\ rpos' = rpos + n
  /\ LET read == frame \o SubSeq(stream, rpos + 1, rpos + n)
         bad == Len(read) = HeaderSize /\ (read[1] # Magic \/ read[3] > MaxPayload)
         whole == Len(read) > HeaderSize /\ n = wanted
     IN /\ open' = ~bad
        /\ frame' = IF bad \/ whole THEN <<>> ELSE read
        /\ IF whole THEN handleTcpBytes(read) ELSE UNCHANGED <<control, handled>>
  /\ UNCHANGED <<room, found, script, sent, stream, parsing>>

\* feed() with the next n bytes.
feedMore(n) ==
  /\ found # NoCode /\ n <= Len(stream) - fpos
  /\ LET after == feed(codec, SubSeq(stream, fpos + 1, fpos + n)) IN
       codec' = after.codec /\ emitted' = emitted \o after.out
  /\ fpos' = fpos + n
  /\ UNCHANGED <<room, found, script, sent, stream, reading>>

Next ==
  \/ \E share \in Shares, heard \in Hearings : followInvitation(share, heard)
  \/ send
  \/ \E n \in 1..wanted : recv(n)
  \/ \E n \in 1..Len(stream) : feedMore(n)

Spec == Init /\ [][Next]_vars

-----------------------------------------------------------------------------
(* Properties.                                                             *)

TypeOK ==
  /\ room \in Rooms /\ found \in {NoCode, Code, LanCode}
  /\ rpos \in 0..Len(stream) /\ fpos \in 0..Len(stream)
  /\ Len(frame) <= HeaderSize + MaxPayload
  /\ open \in BOOLEAN
  /\ \/ codec.waiting = "magic" /\ Len(codec.buf) < HeaderSize
     \/ codec.waiting = "payload" /\ Len(codec.buf) < codec.len
  /\ \A i \in DOMAIN handled : handled[i].type \in {Types[t] : t \in DOMAIN Types}
  /\ \A i \in DOMAIN emitted : emitted[i].type \in {Types[t] : t \in DOMAIN Types}

\* The first number of items of the script that end within n cells.
Within(n) ==
  LET length(k) == Len(FlattenSeq([i \in 1..k |-> bytesOf(sent[i], i)]))
  IN Max({k \in 0..Len(sent) : length(k) <= n})

\* The messages among the first k items as a handler gets them.  Every frame
\* of the program has three fields or more, so that none is swallowed.
Messages(k) ==
  LET wrapped == [i \in 1..k |->
        IF Foreign(sent[i]) THEN <<>>
        ELSE unwrapped(typeCode(sent[i].type), from(bytesOf(sent[i], i), HeaderSize + 1))]
  IN FlattenSeq(wrapped)

\* recvLoop gives up at these.
FirstBad == Min({Len(sent) + 1} \cup
                {i \in DOMAIN sent : sent[i].type \in {"noise", "oversized"}})

\* However TCP cuts the stream, recvLoop and decodeCompleteFrame hand over
\* each message once, in the order of sending and as soon as its last byte
\* is read, up to the first bytes that are no frame.
HandledAsSent ==
  handled = Messages(Min({Within(rpos), FirstBad - 1}))

\* The incremental parser hands over the same messages however it is fed, and
\* finds the next frame after bytes in which no frame begins.  (A frame that
\* is too large costs it what came in the same piece.)
EmittedAsSent ==
  (\A i \in DOMAIN sent : sent[i].type # "oversized")
    => emitted = Messages(Within(fpos))

\* Which contents survive: a name with a '|' does not survive hello and
\* hello_ack, an empty one or one that ends in '|' not a presence update, a
\* save string that ends in '|' not a placement, and no objects not a chunk.
Survives(m) ==
  CASE m.type \in {"Hello", "HelloAck"} -> At(m.name, Pipe) = {}
    [] m.type = "PresenceUpdate" -> m.name # <<>> /\ Last(m.name) # Pipe
    [] m.type = "PlaceObject" -> m.save = <<>> \/ Last(m.save) # Pipe
    [] m.type = "StateSnapshot" -> m.objects # <<>>
    [] OTHER -> TRUE

\* What the handler decodes from a message is what its sender put in, exactly
\* when the contents survive the delimiters.
ArrivesIntact ==
  \A i \in DOMAIN handled :
    LET m == sent[handled[i].sequence]
    IN (decodePayload(handled[i].type, handled[i].payload) = m) <=> Survives(m)

\* Every way of telling the peer leads to the room, except that the LAN scan
\* misses a host whose name holds a '|' and a room whose host was heard with
\* the key of its session before (an endpoint is reported once).
InvitationLeads ==
  found = NoCode =>
    \A share \in Shares, heard \in Hearings :
      LET firstOfHost == Min({Len(heard) + 1} \cup
                             {i \in DOMAIN heard : heard[i] \in {"room", "before"}})
          scanFinds == /\ firstOfHost <= Len(heard) /\ heard[firstOfHost] = "room"
                       /\ At(room.name, Pipe) = {}
      IN onJoin(told(share), [i \in DOMAIN heard |-> datagram(heard[i])])
           = IF share # "key" THEN Code ELSE IF scanFinds THEN LanCode ELSE NoCode
=============================================================================
