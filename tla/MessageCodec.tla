---------------------------- MODULE MessageCodec ----------------------------
(***************************************************************************)
(* The bytes of the protocol.  A text is a sequence of character codes.  A *)
(* frame is a header of three cells (magic, type, length; ten bytes in the *)
(* code) and the body "sender|sequence|payload".  The payloads whose text  *)
(* decides what arrives are modelled: hello, hello_ack, place_object,      *)
(* presence_update, state_snapshot; any other payload is one fixed word.   *)
(***************************************************************************)
EXTENDS Integers, Sequences, FiniteSets
LOCAL INSTANCE SequencesExt
LOCAL INSTANCE FiniteSetsExt

CONSTANT MaxPayload     \* MAX_FRAME_PAYLOAD

Pipe == 124     \* '|', between fields
RecordSep == 30 \* SNAPSHOT_RECORD_SEP
Magic == 1000   \* FRAME_MAGIC: never a character
HeaderSize == 3 \* cells of a FrameHeader

Invalid == [error |-> TRUE]

-----------------------------------------------------------------------------
(* StringUtil.                                                             *)

from(s, i) == SubSeq(s, i, Len(s))

tokens(s, delim) ==
  FoldLeft(LAMBDA done, c : IF c = delim THEN Append(done, <<>>)
                            ELSE Append(Front(done), Append(Last(done), c)),
           <<<<>>>>, s)

\* Mutant of split: a last empty token is a token.
splitsAll(s, delim) == tokens(s, delim)

\* getline yields no token after a delimiter at the very end.
split(s, delim) ==
  LET all == tokens(s, delim)
  IN IF Last(all) = <<>> THEN Front(all) ELSE all

join(parts, delim) ==
  FoldLeft(LAMBDA text, i : text \o (IF i = 1 THEN <<>> ELSE <<delim>>) \o parts[i],
           <<>>, [i \in DOMAIN parts |-> i])

Digit(c) == c \in 48..57

\* stoi on a text without blanks or signs (none of the fields has any).
isInt(s) == s # <<>> /\ \A i \in DOMAIN s : Digit(s[i])
parseInt(s) == FoldLeft(LAMBDA v, c : v * 10 + (c - 48), 0, s)

toString[n \in Nat] ==
  IF n < 10 THEN <<48 + n>> ELSE Append(toString[n \div 10], 48 + (n % 10))

-----------------------------------------------------------------------------
(* Payloads.                                                               *)

bar(parts) == join(parts, Pipe)

encodePayload(m) ==
  CASE m.type = "Hello" ->
         bar(<<toString[m.version], m.key, m.name, toString[m.role]>>)
    [] m.type = "HelloAck" ->
         bar(<<toString[m.accepted], toString[m.peer], toString[m.role], m.reason, m.name,
               m.room>>)
    [] m.type = "PlaceObject" ->
         bar([i \in 1..7 |-> toString[m.numbers[i]]] \o <<m.save>>)
    [] m.type = "PresenceUpdate" ->
         bar(<<toString[m.x], toString[m.y], toString[m.color], m.name>>)
    [] m.type = "StateSnapshot" ->
         bar(<<toString[m.index], toString[m.total],
               FlattenSeq([i \in DOMAIN m.objects |->
                 toString[m.objects[i].id] \o <<Pipe>> \o m.objects[i].save
                   \o <<RecordSep>>])>>)
    [] OTHER -> m.word

decodeHello(p) ==
  LET parts == split(p, Pipe) IN
  IF Len(parts) < 4 \/ ~isInt(parts[1]) \/ ~isInt(parts[4]) THEN Invalid
  ELSE [type |-> "Hello", version |-> parseInt(parts[1]), key |-> parts[2],
        name |-> parts[3], role |-> parseInt(parts[4])]

decodeHelloAck(p) ==
  LET parts == split(p, Pipe) IN
  IF Len(parts) < 6 \/ ~isInt(parts[2]) \/ ~isInt(parts[3]) THEN Invalid
  ELSE [type |-> "HelloAck", accepted |-> IF parts[1] = toString[1] THEN 1 ELSE 0,
        peer |-> parseInt(parts[2]), role |-> parseInt(parts[3]), reason |-> parts[4],
        name |-> parts[5], room |-> parts[6]]

\* Mutant of decodePlaceObject: the save string is the eighth field alone.
savesOneField(p) ==
  LET parts == split(p, Pipe) IN
  IF \/ Len(parts) < 7 \/ \E i \in 1..7 : ~isInt(parts[i])
     \/ parseInt(parts[2]) > 65535
  THEN Invalid
  ELSE [type |-> "PlaceObject", numbers |-> [i \in 1..7 |-> parseInt(parts[i])],
        save |-> IF Len(parts) = 7 THEN <<>> ELSE parts[8]]

decodePlaceObject(p) ==
  LET parts == split(p, Pipe) IN
  IF \/ Len(parts) < 7 \/ \E i \in 1..7 : ~isInt(parts[i])
     \/ parseInt(parts[2]) > 65535
  THEN Invalid
  ELSE [type |-> "PlaceObject", numbers |-> [i \in 1..7 |-> parseInt(parts[i])],
        save |-> bar(from(parts, 8))]

decodePresence(p) ==
  LET parts == split(p, Pipe) IN
  IF Len(parts) < 4 \/ \E i \in 1..3 : ~isInt(parts[i]) THEN Invalid
  ELSE [type |-> "PresenceUpdate", x |-> parseInt(parts[1]), y |-> parseInt(parts[2]),
        color |-> parseInt(parts[3]), name |-> bar(from(parts, 4))]

\* The positions of the delimiter in s; find() is the first of them.
At(s, delim) == {i \in DOMAIN s : s[i] = delim}

\* Records end with the separator: what follows the last one is no record,
\* and a record without an id is skipped.
decodeSnapshotChunk(p) ==
  LET pipes == At(p, Pipe)
      first == Min(pipes)
      second == Min(pipes \ {first})
      records == split(SubSeq(p, second + 1, Max({second} \cup At(p, RecordSep))), RecordSep)
      entry(r) ==
        LET cut == Min(At(r, Pipe)) IN
        [id |-> parseInt(SubSeq(r, 1, cut - 1)), save |-> from(r, cut + 1)]
      good(r) == /\ At(r, Pipe) # {} /\ isInt(SubSeq(r, 1, Min(At(r, Pipe)) - 1))
                 /\ entry(r).id > 0
      goodOnes == SelectSeq(records, good)
  IN IF \/ Cardinality(pipes) < 2
        \/ ~isInt(SubSeq(p, 1, first - 1)) \/ ~isInt(SubSeq(p, first + 1, second - 1))
        \/ parseInt(SubSeq(p, first + 1, second - 1)) = 0
     THEN Invalid
     ELSE [type |-> "StateSnapshot", index |-> parseInt(SubSeq(p, 1, first - 1)),
           total |-> parseInt(SubSeq(p, first + 1, second - 1)),
           objects |-> [i \in DOMAIN goodOnes |-> entry(goodOnes[i])]]

decodePayload(type, p) ==
  CASE type = "Hello" -> decodeHello(p)
    [] type = "HelloAck" -> decodeHelloAck(p)
    [] type = "PlaceObject" -> decodePlaceObject(p)
    [] type = "PresenceUpdate" -> decodePresence(p)
    [] type = "StateSnapshot" -> decodeSnapshotChunk(p)
    [] OTHER -> [type |-> type, word |-> p]

-----------------------------------------------------------------------------
(* Frames.                                                                 *)

Types == <<"Hello", "HelloAck", "PlaceObject", "PresenceUpdate", "StateSnapshot",
           "Heartbeat">>
typeCode(type) == CHOOSE i \in DOMAIN Types : Types[i] = type

\* Mutant of encode: the length of the payload instead of the body's.
countsPayload(sender, seq, m) ==
  LET body == bar(<<toString[sender], toString[seq], encodePayload(m)>>)
  IN <<Magic, typeCode(m.type), Len(encodePayload(m))>> \o body

encode(sender, seq, m) ==
  LET body == bar(<<toString[sender], toString[seq], encodePayload(m)>>)
  IN <<Magic, typeCode(m.type), Len(body)>> \o body

\* What both decoders make of a complete frame's body: no message, or one.
unwrapped(type, body) ==
  LET parts == split(body, Pipe) IN
  IF Len(parts) < 3 \/ ~isInt(parts[1]) \/ ~isInt(parts[2]) THEN <<>>
  ELSE <<[type |-> Types[type], sender |-> parseInt(parts[1]),
          sequence |-> parseInt(parts[2]), payload |-> bar(from(parts, 3))]>>

decodeCompleteFrame(bytes) ==
  IF \/ Len(bytes) < HeaderSize \/ bytes[1] # Magic \/ bytes[3] > MaxPayload
     \/ Len(bytes) # HeaderSize + bytes[3]
  THEN <<>>
  ELSE unwrapped(bytes[2], from(bytes, HeaderSize + 1))

\* The incremental parser: m_buf, m_parseState and the pending header.
EmptyCodec == [buf |-> <<>>, waiting |-> "magic", type |-> 0, len |-> 0]

\* Mutant of parsed: the parser waits for more than the payload.
RECURSIVE parsedLate(_, _)
parsedLate(c, out) ==
  CASE c.waiting = "magic" /\ Len(c.buf) < HeaderSize -> [codec |-> c, out |-> out]
    [] c.waiting = "magic" /\ Len(c.buf) >= HeaderSize /\ c.buf[1] # Magic ->
         parsedLate([c EXCEPT !.buf = Tail(@)], out)
    [] c.waiting = "payload" /\ Len(c.buf) <= c.len -> [codec |-> c, out |-> out]
    [] c.waiting = "payload" /\ Len(c.buf) > c.len ->
         parsedLate([c EXCEPT !.buf = from(@, c.len + 1), !.waiting = "magic"],
                    out \o unwrapped(c.type, SubSeq(c.buf, 1, c.len)))
    [] OTHER ->
         parsedLate([buf |-> from(c.buf, HeaderSize + 1), waiting |-> "payload",
                     type |-> c.buf[2], len |-> c.buf[3]], out)

\* The loop of feed: one byte is dropped where no frame begins, everything
\* where a frame is too large.
RECURSIVE parsed(_, _)
parsed(c, out) ==
  CASE c.waiting = "magic" /\ Len(c.buf) < HeaderSize -> [codec |-> c, out |-> out]
    [] c.waiting = "magic" /\ Len(c.buf) >= HeaderSize /\ c.buf[1] # Magic ->
         parsed([c EXCEPT !.buf = Tail(@)], out)
    [] c.waiting = "magic" /\ Len(c.buf) >= HeaderSize /\ c.buf[1] = Magic ->
         IF c.buf[3] > MaxPayload THEN [codec |-> EmptyCodec, out |-> out]
         ELSE parsed([buf |-> from(c.buf, HeaderSize + 1), waiting |-> "payload",
                      type |-> c.buf[2], len |-> c.buf[3]], out)
    [] c.waiting = "payload" /\ Len(c.buf) < c.len -> [codec |-> c, out |-> out]
    [] c.waiting = "payload" /\ Len(c.buf) >= c.len ->
         parsed([c EXCEPT !.buf = from(@, c.len + 1), !.waiting = "magic"],
                out \o unwrapped(c.type, SubSeq(c.buf, 1, c.len)))

feed(c, data) == parsed([c EXCEPT !.buf = @ \o data], <<>>)
=============================================================================
