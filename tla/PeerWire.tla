------------------------------- MODULE PeerWire --------------------------------
(***************************************************************************)
(* The messages between BitTorrent peers (proto.rs of magnetite-common) as *)
(* bytes: the handshake, and the messages after it, each a length and a    *)
(* command byte before its fields.                                         *)
(*                                                                         *)
(* A message is its kind, its numbers and its data. A parser returns a     *)
(* record: is "ok" with what it read and how many bytes it used,           *)
(* "incomplete" with how many more it needs, "error", or "panic".          *)
(***************************************************************************)
EXTENDS BigEndian, SequencesExt

Message(kind, args, data) == [kind |-> kind, args |-> args, data |-> data]

CommandByte ==
  [choke |-> 0, unchoke |-> 1, interested |-> 2, uninterested |-> 3, have |-> 4,
   bitfield |-> 5, request |-> 6, piece |-> 7, cancel |-> 8, port |-> 9]

\* The sizes that size_check insists on; the other kinds have any.
FixedSize ==
  [choke |-> 1, unchoke |-> 1, interested |-> 1, uninterested |-> 1, have |-> 5,
   request |-> 13, cancel |-> 13, port |-> 3]

\* How many numbers a kind has.
ArgCount ==
  [choke |-> 0, unchoke |-> 0, interested |-> 0, uninterested |-> 0, have |-> 1,
   bitfield |-> 0, request |-> 3, piece |-> 2, cancel |-> 3, port |-> 1]

ArgWidth(kind) == IF kind = "port" THEN 2 ELSE 4

-------------------------------------------------------------------------------
(* serialize *)

Fields(msg) ==
  IF msg.kind = "port" THEN WriteU16(msg.args[1])
  ELSE FlattenSeq([i \in DOMAIN msg.args |-> WriteU32(msg.args[i])])

\* The size that is written: for Have it leaves out the piece number.
SizeField(msg) ==
  IF msg.kind = "have" THEN 1 ELSE 1 + Len(Fields(msg)) + Len(msg.data)

Serialize(msg) ==
  IF msg.kind = "keepalive" THEN WriteU32(0)
  ELSE WriteU32(SizeField(msg)) \o <<CommandByte[msg.kind]>> \o Fields(msg) \o msg.data

-------------------------------------------------------------------------------
(* deserialize_peek *)

Incomplete(n) == [is |-> "incomplete", need |-> n]

Failed == [is |-> "error"]

Parsed(n, value) == [is |-> "ok", used |-> n, value |-> value]

\* The arms of the match on the command byte, for a message of that size.
DeserializeBody(from, size) ==
  LET kinds == {k \in DOMAIN CommandByte : CommandByte[k] = from[5]}
      kind == CHOOSE k \in kinds : TRUE
      w == ArgWidth(kind)
      fields == w * ArgCount[kind]
      args == [i \in 1..ArgCount[kind] |-> ReadUint(from, 6 + w * (i - 1), w)]
  IN  IF kinds = {} THEN Failed
      ELSE IF kind \in DOMAIN FixedSize /\ size # FixedSize[kind] THEN Failed
      ELSE IF size < 1 + fields THEN [is |-> "panic"]
      ELSE Parsed(size + 4, Message(kind, args, SubSeq(from, 6 + fields, size + 4)))

\* Mutant of DeserializePeek: what is there already is asked for again.
DeserializePeekWhole(from) ==
  LET size == ReadUint(from, 1, 4)
  IN  IF Len(from) < 4 THEN Incomplete(4 - Len(from))
      ELSE IF Len(from) < size + 4 THEN Incomplete(size + 4)
      ELSE IF size = 0 THEN Parsed(4, Message("keepalive", <<>>, <<>>))
      ELSE DeserializeBody(from, size)

DeserializePeek(from) ==
  LET size == ReadUint(from, 1, 4)
  IN  IF Len(from) < 4 THEN Incomplete(4 - Len(from))
      ELSE IF Len(from) < size + 4 THEN Incomplete(size + 4 - Len(from))
      ELSE IF size = 0 THEN Parsed(4, Message("keepalive", <<>>, <<>>))
      ELSE DeserializeBody(from, size)

\* deserialize_pop: the message, and what is left of the buffer.
DeserializePop(from) ==
  LET r == DeserializePeek(from)
  IN  IF r.is # "ok" THEN [result |-> r, rest |-> from]
      ELSE [result |-> r, rest |-> SubSeq(from, r.used + 1, Len(from))]

-------------------------------------------------------------------------------
(* Handshake *)

\* A length of 19, and "BitTorrent protocol".
HandshakePrefix ==
  <<19, 66, 105, 116, 84, 111, 114, 114, 101, 110, 116, 32,
    112, 114, 111, 116, 111, 99, 111, 108>>

IdLength == 20

HandshakeSize == Len(HandshakePrefix) + 8 + IdLength + IdLength

SerializeHandshake(hs) ==
  HandshakePrefix \o [i \in 1..8 |-> 0] \o hs.info_hash \o hs.peer_id

ParseHandshake(data) ==
  IF Len(data) < HandshakeSize THEN Incomplete(HandshakeSize - Len(data))
  ELSE IF ~IsPrefix(HandshakePrefix, data) THEN Failed
  ELSE Parsed(HandshakeSize,
              [kind |-> "handshake", reserved |-> SubSeq(data, 21, 28),
               info_hash |-> SubSeq(data, 29, 48), peer_id |-> SubSeq(data, 49, 68)])

-------------------------------------------------------------------------------
(* PieceRequestMessage, which the web server sends to the piece server *)

PacketSize == 2 * IdLength + 8 + 4 * 4

\* 0x500e1857
RequestToken == <<80, 14, 24, 87>>

ToBufWithHeader(prm) ==
  RequestToken \o WriteU32(PacketSize) \o prm.content_key \o prm.piece_sha
    \o WriteU32(0) \o WriteU32(prm.content_total_length)
    \o WriteU32(prm.piece_length_shift) \o WriteU32(prm.piece_index)
    \o WriteU32(prm.piece_fetch_offset) \o WriteU32(prm.piece_fetch_length)

\* from_buf, on what follows the header; the upper half of the u64 is left out.
FromBuf(buf) ==
  LET shift == ReadUint(buf, 49, 4)
  IN  IF Len(buf) < PacketSize \/ shift > 255 THEN Failed
      ELSE Parsed(PacketSize,
                  [content_key |-> SubSeq(buf, 1, 20), piece_sha |-> SubSeq(buf, 21, 40),
                   content_total_length |-> ReadUint(buf, 45, 4), piece_length_shift |-> shift,
                   piece_index |-> ReadUint(buf, 53, 4),
                   piece_fetch_offset |-> ReadUint(buf, 57, 4),
                   piece_fetch_length |-> ReadUint(buf, 61, 4)])

===============================================================================
