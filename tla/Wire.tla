--------------------------------- MODULE Wire ----------------------------------
(***************************************************************************)
(* What one side encodes is what the other side reads. A stream is written *)
(* with the encoder of its codec and read with the decoder. The codecs     *)
(* "peer", "tokens" and "hello" are read as the bytes come, in pieces of   *)
(* any size: the reader keeps what it cannot use yet, as the code does.    *)
(* The others are read as a whole.                                         *)
(***************************************************************************)
EXTENDS Integers, Sequences, SequencesExt

CONSTANT Streams      \* the streams: [codec, items]

VARIABLES
  stream,             \* the stream that is sent
  pending,            \* what of it has not arrived
  reader,             \* what the reader keeps: bytes, or the tokenizer
  out,                \* what it has read
  need,               \* how many more bytes it asked for; 0 if it did not
  status              \* "reading", "done", or how the reading failed

wireVars == <<stream, pending, reader, out, need, status>>

Peer == INSTANCE PeerWire

Ben == INSTANCE Bencode

Hello == INSTANCE ClientHello

Advert == INSTANCE RouterAdvert

Torrent == INSTANCE TorrentInfo

Id == INSTANCE Ksuid WITH IdLen <- 20, Base62Len <- 27

ShortId == INSTANCE Ksuid WITH IdLen <- 2, Base62Len <- 3

-------------------------------------------------------------------------------
(* What is sent. The hello, the advertisement and the torrent file come from *)
(* other programs.                                                           *)

Vector(w, data) ==
  (CASE w = 1 -> <<Len(data)>>
     [] w = 2 -> Peer!WriteU16(Len(data))
     [] w = 3 -> Peer!WriteU24(Len(data))) \o data

EncodeExtension(ext) ==
  ext.id \o Vector(2, IF ext.id \notin {Hello!ServerNameExtension, Hello!AlpnExtension}
                      THEN ext.value
                      ELSE Vector(2, FlattenSeq(
                             [i \in DOMAIN ext.value |->
                                IF ext.id = Hello!AlpnExtension THEN Vector(1, ext.value[i])
                                ELSE <<0>> \o Vector(2, ext.value[i])])))

\* The message in records of at most "size" bytes, and a record of another kind
\* behind each.
RECURSIVE Framed(_, _)
Framed(size, data) ==
  LET n == IF Len(data) < size THEN Len(data) ELSE size
  IN  IF data = <<>> THEN <<>>
      ELSE <<Hello!HandshakeContent, 3, 1>> \o Vector(2, SubSeq(data, 1, n))
             \o <<20, 3, 3, 0, 1, 1>> \o Framed(size, SubSeq(data, n + 1, Len(data)))

EncodeHello(hello) ==
  Framed(hello.record,
    Hello!ClientHelloType \o Vector(3,
      <<3, 3>> \o [i \in 1..32 |-> 7] \o Vector(1, <<>>) \o Vector(2, <<19, 1>>)
        \o Vector(1, <<0>>)
        \o Vector(2, FlattenSeq([i \in DOMAIN hello.extensions |->
                                   EncodeExtension(hello.extensions[i])]))))

EncodeOption(opt) ==
  <<Advert!OptionType[opt[1]]>> \o
    (CASE opt[1] = "prefix" ->
            <<4, opt[2].prefix_length, opt[2].flags1>>
              \o Peer!WriteU32(opt[2].valid_lifetime)
              \o Peer!WriteU32(opt[2].preferred_lifetime)
              \o Peer!WriteU32(0) \o opt[2].prefix
       [] opt[1] = "mtu" -> <<1, 0, 0>> \o Peer!WriteU32(opt[2])
       [] OTHER -> <<1>> \o opt[2])

EncodeAdvert(advert) ==
  <<advert.type, 0, 0, 0, 64, advert.flags1>> \o Peer!WriteU16(advert.router_lifetime)
    \o Peer!WriteU32(0) \o Peer!WriteU32(0)
    \o FlattenSeq([i \in DOMAIN advert.options |-> EncodeOption(advert.options[i])])

EncodeInfo(info) ==
  <<IF info.files = <<>> THEN <<"length", info.length>>
    ELSE <<"files", [i \in DOMAIN info.files |->
                       [length |-> info.files[i].length, path |-> info.files[i].path]]>>,
    <<"name", <<"other">> >>, <<"name.utf-8", info.name>>,
    <<"piece length", 2 ^ info.piece_length_shift>>, <<"pieces", FlattenSeq(info.pieces)>> >>
    \o SetToSeq({<<"private", p>> : p \in info.private})

\* The encoding of the i-th item of a stream.
Encoded(s, i) ==
  LET item == s.items[i]
  IN  CASE s.codec = "peer" -> IF i = 1 THEN Peer!SerializeHandshake(item)
                               ELSE Peer!Serialize(item)
        [] s.codec \in {"tokens", "value"} -> Ben!ToBytes(item.value)
        [] s.codec = "hello" -> EncodeHello(item)
        [] s.codec = "piece" -> Peer!ToBufWithHeader(item)
        [] s.codec = "torrent" -> EncodeInfo(item)
        [] s.codec = "torrent_id" -> Torrent!TorrentIdHex(item)
        [] s.codec = "advert" -> EncodeAdvert(item)
        [] s.codec = "ksuid" -> Id!ToBase62(item)
        [] s.codec = "short_ksuid" -> ShortId!ToBase62(item)
        [] s.codec = "ksuid_hex" -> Id!ToHex(item)

Streaming(s) == s.codec \in {"peer", "tokens", "hello"}

\* The bytes of a stream that is read as it comes; the encoded items of another.
Written(s) ==
  IF Streaming(s) THEN FlattenSeq([i \in DOMAIN s.items |-> Encoded(s, i)])
  ELSE [i \in DOMAIN s.items |-> Encoded(s, i)]

-------------------------------------------------------------------------------
(* How it is read. A reading is what the reader keeps, what it has read, how *)
(* many bytes it needs and its status.                                       *)

Reading(r, o, n, st) == [reader |-> r, out |-> o, need |-> n, status |-> st]

\* The handshake, and then the messages that are complete.
RECURSIVE ReadPeer(_, _)
ReadPeer(buf, o) ==
  LET r == IF o = <<>> THEN Peer!ParseHandshake(buf) ELSE Peer!DeserializePop(buf).result
      rest == IF o = <<>> THEN SubSeq(buf, r.used + 1, Len(buf))
              ELSE Peer!DeserializePop(buf).rest
  IN  IF r.is = "ok" THEN ReadPeer(rest, Append(o, r.value))
      ELSE IF r.is = "incomplete" THEN Reading(buf, o, r.need, "reading")
      ELSE Reading(buf, o, 0, r.is)

RECURSIVE ReadTokens(_, _)
ReadTokens(tz, o) ==
  LET r == Ben!NextToken(tz)
  IN  IF r.result.is = "ok" THEN ReadTokens(r.tz, Append(o, r.result.node))
      ELSE IF r.result.is = "incomplete" THEN Reading(r.tz, o, r.result.need, "reading")
      ELSE Reading(r.tz, o, 0, r.result.is)

ReadHello(buf, eof) ==
  LET r == Hello!DetectSniName(buf, eof)
  IN  CASE r.is = "name" -> Reading(buf, <<r.name>>, 0, "done")
        [] r.is = "more" -> Reading(buf, <<>>, 0, "reading")
        [] OTHER -> Reading(buf, <<>>, 0, r.alert)

\* The reader, after these bytes.
Receive(bytes) ==
  CASE stream.codec = "peer" -> ReadPeer(reader \o bytes, out)
    [] stream.codec = "tokens" -> ReadTokens(Ben!AddData(reader, bytes), out)
    [] stream.codec = "hello" -> ReadHello(reader \o bytes, FALSE)

\* The reader, when there are no more.
AtEof ==
  CASE stream.codec = "peer" ->
         Reading(reader, out, 0, IF reader = <<>> THEN "done" ELSE "truncated")
    [] stream.codec = "tokens" ->
         Reading(reader, out, 0,
                 IF reader.data = <<>> /\ reader.scratch_offset = Len(reader.scratch)
                 THEN "done" ELSE "truncated")
    [] stream.codec = "hello" -> ReadHello(reader, TRUE)

\* One encoded item, read as a whole: <<what it is>>, or <<>>.
Whole(i) ==
  LET data == pending[i]
      item == stream.items[i]
      ok(r, v) == IF r.is = "ok" THEN <<v>> ELSE <<>>
  IN  CASE stream.codec = "value" ->
             LET r == Ben!FromBytes(item.shape, data) IN ok(r, [item EXCEPT !.value = r.value])
        [] stream.codec = "piece" ->
             LET r == Peer!FromBuf(SubSeq(data, 9, Len(data))) IN ok(r, r.value)
        [] stream.codec = "torrent" -> LET r == Torrent!DecodeInfo(data) IN ok(r, r.info)
        [] stream.codec = "torrent_id" ->
             LET r == Torrent!TorrentIdFromStr(data) IN ok(r, r.id)
        [] stream.codec = "advert" -> LET r == Advert!DecodeAdvert(data) IN ok(r, r.advert)
        [] stream.codec = "ksuid" -> LET r == Id!FromBase62(data) IN ok(r, r.digits)
        [] stream.codec = "short_ksuid" -> LET r == ShortId!FromBase62(data) IN ok(r, r.digits)
        [] stream.codec = "ksuid_hex" -> LET r == Id!FromHex(data) IN ok(r, r.digits)

-------------------------------------------------------------------------------
(* The steps *)

WireInit ==
  /\ stream \in Streams
  /\ pending = Written(stream)
  /\ reader = IF stream.codec = "tokens" THEN Ben!NewTokenizer(<<>>) ELSE <<>>
  /\ out = <<>>
  /\ need = 0
  /\ status = "reading"

Becomes(r) ==
  /\ reader' = r.reader
  /\ out' = r.out
  /\ need' = r.need
  /\ status' = r.status

\* Some of the bytes arrive, and the reader takes what it can from them.
Arrive ==
  /\ status = "reading"
  /\ Streaming(stream)
  /\ \E n \in 1..Len(pending) :
       /\ Becomes(Receive(SubSeq(pending, 1, n)))
       /\ pending' = SubSeq(pending, n + 1, Len(pending))
  /\ UNCHANGED stream

\* The stream ends.
Eof ==
  /\ status = "reading"
  /\ Streaming(stream)
  /\ pending = <<>>
  /\ Becomes(AtEof)
  /\ UNCHANGED <<stream, pending>>

\* The items of a stream that is not read as it comes are decoded.
ReadWhole ==
  /\ status = "reading"
  /\ ~Streaming(stream)
  /\ out' = FlattenSeq([i \in DOMAIN pending |-> Whole(i)])
  /\ status' = "done"
  /\ UNCHANGED <<stream, pending, reader, need>>

WireNext == Arrive \/ Eof \/ ReadWhole

WireSpec == WireInit /\ [][WireNext]_wireVars

-------------------------------------------------------------------------------
(* Properties *)

\* The nodes of a bencoded value, written down without bytes.
RECURSIVE Nodes(_)
Nodes(v) ==
  LET entry(e) == <<Ben!Node("bytes", e[1])>> \o Nodes(e[2])
      end == <<Ben!Node("end", <<>>)>>
  IN  CASE v.is = "int" -> <<Ben!Node("integer", Ben!Decimal(v.n))>>
        [] v.is = "bytes" -> <<Ben!Node("bytes", v.bytes)>>
        [] v.is = "array" ->
             <<Ben!Node("array", <<>>)>> \o FlattenSeq([i \in DOMAIN v.items |-> Nodes(v.items[i])])
               \o end
        [] v.is = "dict" ->
             <<Ben!Node("dictionary", <<>>)>>
               \o FlattenSeq([i \in DOMAIN v.entries |-> entry(v.entries[i])]) \o end

\* What the reader of a stream should come to have read.
Meant(s) ==
  CASE s.codec = "tokens" -> Nodes(s.items[1].value)
    [] s.codec = "hello" ->
         LET sni == SelectSeq(s.items[1].extensions,
                              LAMBDA e : e.id = Hello!ServerNameExtension)
         IN  Head(sni).value
    [] OTHER -> s.items

\* Safety: the reader never has anything but a beginning of what was sent,
\* whatever the pieces it came in, and has all of it at the end: no piece
\* boundary makes it lose, repeat or misread a byte, and nothing that the
\* encoder writes is refused. For "tokens" this is the move of half a token to
\* the scratch buffer and its compaction, for "hello" a handshake that is spread
\* over records.
ReadsWhatWasSent ==
  /\ IsPrefix(out, Meant(stream))
  /\ status \in {"reading", "done"}
  /\ status = "done" => out = Meant(stream)

\* Safety: the number of bytes that the peer protocol's parser asks for is what
\* the message it is in still lacks, or the length before it: a reader that
\* waits for that many neither waits for bytes that never come nor takes some
\* of the message after it.
AsksWithinMessage ==
  stream.codec = "peer" /\ need > 0 /\ Len(out) < Len(stream.items) =>
    Len(reader) + need <= Len(Encoded(stream, Len(out) + 1))

\* Safety: identifiers in base 62 sort as the identifiers do, so that the texts
\* keep the order of the times ("The lexicographic ordering of both the binary
\* and string representations preserves the chronological ordering").
TextOrderIsIdOrder ==
  stream.codec \in {"ksuid", "short_ksuid"} =>
    \A i, j \in DOMAIN stream.items :
      Id!Before(stream.items[i], stream.items[j]) => Id!Before(pending[i], pending[j])

===============================================================================
