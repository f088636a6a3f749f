----------------------------- MODULE Invitation -----------------------------
(***************************************************************************)
(* How a peer learns where the room is: the join code the host shows and   *)
(* the peer pastes (JoinCode, Endpoint), or the bare key, looked for among *)
(* the datagrams hosts broadcast on the local network (Discovery).         *)
(***************************************************************************)
EXTENDS MessageCodec
LOCAL INSTANCE SequencesExt
LOCAL INSTANCE FiniteSetsExt

Colon == 58
Hash == 35
Dash == 45
Blank == 32
Nowhere == [host |-> <<>>, port |-> 0]      \* an empty Endpoint
NoCode == [endpoint |-> Nowhere, key |-> <<>>]

Lower(c) == c \in 97..122
toUpper(s) == [i \in DOMAIN s |-> IF Lower(s[i]) THEN s[i] - 32 ELSE s[i]]
toLower(s) == [i \in DOMAIN s |-> IF s[i] \in 65..90 THEN s[i] + 32 ELSE s[i]]
isAlnum(c) == Digit(c) \/ Lower(c) \/ c \in 65..90

trim(s) ==
  LET ink == {i \in DOMAIN s : s[i] # Blank} IN
  IF ink = {} THEN <<>> ELSE SubSeq(s, Min(ink), Max(ink))

-----------------------------------------------------------------------------
(* base64url.  The 64 letters are the codes 200..263 here, so that a text  *)
(* of them is told from a plain one; the alphabet is not modelled further. *)

Letter(v) == 200 + v
isLetter(c) == c \in 200..263

\* The accumulator is an int that overflows; only its 14 low bits are read.
Low(v) == v % 2^14

\* One byte in, one or two letters out.
encodeByte(acc, c) ==
  LET val == Low(acc.val * 256 + c)
      once == Append(acc.out, Letter((val \div 2^(acc.bits + 2)) % 64))
  IN IF acc.bits = 4
     THEN [out |-> Append(once, Letter(val % 64)), val |-> val, bits |-> 0]
     ELSE [out |-> once, val |-> val, bits |-> acc.bits + 2]

\* Mutant of base64UrlEncode: the bits left over are not written.
encodesWholeLetters(s) == FoldLeft(encodeByte, [out |-> <<>>, val |-> 0, bits |-> 0], s).out

base64UrlEncode(s) ==
  LET acc == FoldLeft(encodeByte, [out |-> <<>>, val |-> 0, bits |-> 0], s)
  IN IF acc.bits = 0 THEN acc.out
     ELSE Append(acc.out, Letter((acc.val * 2^(6 - acc.bits)) % 64))

\* One letter in, at most one byte out.
decodeLetter(acc, c) ==
  LET val == Low(acc.val * 64 + (c - 200)) IN
  IF acc.bits + 6 >= 8
  THEN [out |-> Append(acc.out, (val \div 2^(acc.bits - 2)) % 256), val |-> val,
        bits |-> acc.bits - 2]
  ELSE [out |-> acc.out, val |-> val, bits |-> acc.bits + 6]

base64UrlDecode(s) == FoldLeft(decodeLetter, [out |-> <<>>, val |-> 0, bits |-> 0], s).out

-----------------------------------------------------------------------------
(* Endpoint and JoinCode.                                                  *)

endpointText(ep) == ep.host \o <<Colon>> \o toString[ep.port]

\* Mutant of endpointOf: the first colon instead of the last one.
splitsAtFirstColon(s) ==
  LET colons == At(s, Colon)
      host == trim(SubSeq(s, 1, Min(colons) - 1))
      port == trim(from(s, Min(colons) + 1))
  IN IF colons = {} \/ host = <<>> \/ ~isInt(port) \/ parseInt(port) \notin 1..65535
     THEN Nowhere
     ELSE [host |-> host, port |-> parseInt(port)]

\* Endpoint::fromString.
endpointOf(s) ==
  LET colons == At(s, Colon)
      host == trim(SubSeq(s, 1, Max(colons) - 1))
      port == trim(from(s, Max(colons) + 1))
  IN IF colons = {} \/ host = <<>> \/ ~isInt(port) \/ parseInt(port) \notin 1..65535
     THEN Nowhere
     ELSE [host |-> host, port |-> parseInt(port)]

format(code) == endpointText(code.endpoint) \o <<Hash>> \o code.key

Prefix == <<66, 84, 49, Dash>>      \* "BT1-"
formatCompact(code) == Prefix \o base64UrlEncode(format(code))

startsWithCompactPrefix(s) == Len(s) > 4 /\ toUpper(SubSeq(s, 1, 4)) = Prefix

isKey(k) == Len(k) = 9 /\ k[5] = Dash /\ \A i \in 1..9 : i = 5 \/ isAlnum(k[i])

parsePlain(s) ==
  LET hash == Min(At(s, Hash))
      ep == endpointOf(SubSeq(s, 1, hash - 1))
      key == from(s, hash + 1)
  IN IF At(s, Hash) = {} \/ ep = Nowhere \/ ~isKey(key) THEN NoCode
     ELSE [endpoint |-> ep, key |-> toUpper(key)]

\* JoinCode::parse.  (It also unpacks a code within a code, which no host
\* makes.)
parse(raw) ==
  LET text == trim(raw)
      letters == from(text, 5)
  IN IF ~startsWithCompactPrefix(text) THEN parsePlain(text)
     ELSE IF \E i \in DOMAIN letters : ~isLetter(letters[i]) THEN NoCode
          ELSE parsePlain(trim(base64UrlDecode(letters)))

-----------------------------------------------------------------------------
(* Discovery.                                                              *)

Tag == <<69, 68, 67, 79, Pipe>>     \* "EDCO|"

encodeDiscoveryPayload(info) ==
  Tag \o bar(<<info.room, info.name, info.key, toString[info.endpoint.port],
               toString[info.version]>>)

\* The address is the sender's, not one the datagram names.
decodeDiscoveryPayload(raw, sender) ==
  LET parts == split(from(raw, 6), Pipe) IN
  IF \/ SubSeq(raw, 1, 5) # Tag \/ Len(parts) < 5
     \/ ~isInt(parts[4]) \/ parseInt(parts[4]) \notin 1..65535
     \/ ~isInt(parts[5]) \/ parseInt(parts[5]) > 65535
  THEN NoCode
  ELSE [endpoint |-> [host |-> sender, port |-> parseInt(parts[4])], key |-> parts[3]]

\* LanScanner::scan with onJoin's callback: an endpoint is reported once, by
\* the first datagram that names it; the first report with the key is taken.
scanned(datagrams, key) ==
  LET infos == [i \in DOMAIN datagrams |->
                  decodeDiscoveryPayload(datagrams[i].raw, datagrams[i].sender)]
      reported == {i \in DOMAIN infos :
                     /\ infos[i] # NoCode
                     /\ \A j \in 1..(i - 1) : infos[j].endpoint # infos[i].endpoint}
      matching == {i \in reported : infos[i].key = key}
  IN IF matching = {} THEN NoCode ELSE infos[Min(matching)]

\* onJoin: a code is followed directly, a bare key is looked for.
onJoin(raw, datagrams) ==
  LET key == toUpper(raw) IN
  IF parse(raw) # NoCode THEN parse(raw)
  ELSE IF Len(key) = 9 /\ key[5] = Dash THEN scanned(datagrams, key)
       ELSE NoCode
=============================================================================
