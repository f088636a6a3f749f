------------------------------- MODULE MCWire -------------------------------
(* Rooms, messages and scripts for TLC.  Texts are written as codes.        *)
EXTENDS Wire, TLC

a == 97
Key == <<65, 66, 67, 68, 45, 50, 51, 52, 53>>           \* "ABCD-2345"
Names == {<<>>, <<a>>, <<Pipe>>, <<a, Pipe>>, <<Pipe, a>>, <<a, Pipe, 49>>}
Lan == [host |-> <<49, 46, 50>>, port |-> 43720]        \* "1.2:43720"
Relay == [host |-> <<a, 46, a>>, port |-> 1]            \* "a.a:1"
Ipv6 == [host |-> <<50, 58, 58, 49>>, port |-> 43720]   \* "2::1:43720"

PlainRoom == [name |-> <<a>>, endpoint |-> Relay, lan |-> Lan, key |-> Key]
AllRooms == {PlainRoom, [PlainRoom EXCEPT !.name = <<a, Pipe>>],
             [PlainRoom EXCEPT !.endpoint = Lan], [PlainRoom EXCEPT !.endpoint = Ipv6]}

hello(name) == [type |-> "Hello", version |-> 1, key |-> <<a>>, name |-> name, role |-> 1]
ack(name) == [type |-> "HelloAck", accepted |-> 1, peer |-> 1, role |-> 1,
              reason |-> <<>>, name |-> name, room |-> roomName(name)]
refusal == [ack(<<a>>) EXCEPT !.accepted = 0, !.reason = <<a>>]
place(save) == [type |-> "PlaceObject", numbers |-> <<12, 1, 0, 30, 0, 1, 1>>, save |-> save]
presence(name) == [type |-> "PresenceUpdate", x |-> 1, y |-> 2, color |-> 3, name |-> name]
chunk(objects) == [type |-> "StateSnapshot", index |-> 0, total |-> 1, objects |-> objects]
entry(id, save) == [id |-> id, save |-> save]
ping == [type |-> "Heartbeat", word |-> <<a>>]

noise == [type |-> "noise", bytes |-> <<7, 7>>]
oversized == [type |-> "oversized", bytes |-> <<Magic, 6, MaxPayload + 1>>]
odd == [type |-> "odd", bytes |-> <<Magic, 6, 4, 48, Pipe, 49, Pipe>>]

Singles == {<<m>> : m \in
  {hello(n) : n \in Names} \cup {ack(n) : n \in Names} \cup {refusal}
  \cup {place(s) : s \in Names} \cup {presence(n) : n \in Names}
  \cup {chunk(o) : o \in {<<>>, <<entry(12, <<>>)>>, <<entry(12, <<a, Pipe>>), entry(3, <<a>>)>>}}}

Mixed == {<<ping, odd, ping>>, <<ping, noise, ping>>, <<noise, noise, ping>>,
          <<ping, oversized, ping>>, <<place(<<a>>), ping>>}

AllScripts == Singles \cup Mixed
Pieces == {<<>>} \cup {<<w>> : w \in {"room", "before", "other"}}
          \cup {<<v, w>> : v, w \in {"room", "before", "other"}}
=============================================================================
