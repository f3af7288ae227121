-------------------------------- MODULE MCWire ---------------------------------
(***************************************************************************)
(* Small instances of Wire and of BodyStream. A behaviour is one stream    *)
(* that is sent and read, or one request that is answered with a body; the *)
(* other component stands still.                                           *)
(***************************************************************************)
EXTENDS Wire, BodyStream

VARIABLE part

Fill(n, b) == [i \in 1..n |-> b]

-------------------------------------------------------------------------------
(* Peers *)

MCHandshake ==
  [kind |-> "handshake", reserved |-> Fill(8, 0), info_hash |-> Fill(20, 3),
   peer_id |-> Fill(20, 19)]

Msg(kind, args, data) == [kind |-> kind, args |-> args, data |-> data]

PeerStream(messages) == [codec |-> "peer", items |-> <<MCHandshake>> \o messages]

\* Every kind of message but Have, and lengths that look like commands.
PeerStreams ==
  {PeerStream(<<Msg("bitfield", <<>>, <<0, 0, 0, 1, 2>>), Msg("unchoke", <<>>, <<>>),
                Msg("interested", <<>>, <<>>), Msg("keepalive", <<>>, <<>>),
                Msg("request", <<1, 0, 16384>>, <<>>),
                Msg("piece", <<1, 256>>, <<0, 0, 0, 0, 9>>)>>),
   PeerStream(<<Msg("keepalive", <<>>, <<>>), Msg("choke", <<>>, <<>>),
                Msg("uninterested", <<>>, <<>>), Msg("cancel", <<65536, 5, 1>>, <<>>),
                Msg("port", <<6881>>, <<>>), Msg("piece", <<0, 0>>, <<>>),
                Msg("bitfield", <<>>, <<>>)>>)}

HaveStreams == {PeerStream(<<Msg("unchoke", <<>>, <<>>), Msg("have", <<7>>, <<>>)>>)}

-------------------------------------------------------------------------------
(* Bencode: the values hold the bytes that the format uses for itself. *)

AnyShape == [is |-> "any"]

Str(bytes) == Ben!ByteString(bytes)

NestedValue ==
  Ben!Dict(<< <<(<<100>>), Ben!Array(<<Ben!Number(0), Str(<<105, 101>>)>>)>>,
              <<(<<100, 58>>), Ben!Dict(<<>>)>>,
              <<(<<101>>), Ben!Number(1203)>> >>)

LongBytes == Ben!Array(<<Str(<<49, 58, 101, 108, 100, 58, 49, 48, 101, 45, 101>>), Str(<<>>),
                         Ben!Number(10)>>)

Flat == Ben!Array(<<Ben!Number(7), Ben!Number(8), Str(<<101>>), Ben!Number(90)>>)

TokenStreams ==
  {[codec |-> "tokens", items |-> <<[value |-> v]>>] : v \in {NestedValue, LongBytes, Flat}}

IntShape == [is |-> "int"]

PairShape == [is |-> "struct", fields |-> (<<97>> :> IntShape) @@ (<<98>> :> IntShape)]

PairEntries == << <<(<<97>>), Ben!Number(1)>>, <<(<<98>>), Ben!Number(2)>> >>

Pair == Ben!Dict(PairEntries)

\* An enumeration with a variant of each kind, as in the crate's tests.
EnumShape ==
  [is |-> "enum",
   variants |-> (<<66, 97, 114>> :> [is |-> "array", of |-> IntShape]) @@ (<<66>> :> [PairShape EXCEPT !.is = "fields"])]

ValueStreams ==
  {[codec |-> "value", items |-> <<[shape |-> sv[1], value |-> sv[2]]>>] :
     sv \in {<<AnyShape, NestedValue>>, <<AnyShape, LongBytes>>, <<AnyShape, Ben!Number(0)>>,
             <<AnyShape, Ben!Dict(<<>>)>>,
             <<IntShape, Ben!Number(2147483647)>>, <<[is |-> "bool"], Ben!Bool(TRUE)>>,
             <<[is |-> "bool"], Ben!Bool(FALSE)>>,
             <<[is |-> "bytes"], Str(<<58, 58>>)>>, <<PairShape, Pair>>,
             <<[is |-> "array", of |-> IntShape], Ben!Array(<<Ben!Number(4), Ben!Number(44)>>)>>,
             <<EnumShape, Ben!UnitVariant(<<70, 111, 111>>)>>,
             <<EnumShape, Ben!Variant(<<66, 97, 114>>, Ben!Array(<<Ben!Number(1)>>))>>,
             <<EnumShape, Ben!Variant(<<66>>, Ben!Fields(PairEntries))>>,
             <<[is |-> "array", of |-> EnumShape],
               Ben!Array(<<Ben!Variant(<<66>>, Ben!Fields(PairEntries)), Ben!UnitVariant(<<101>>)>>)>>}}

-------------------------------------------------------------------------------
(* The other codecs *)

HelloItem(record, extensions) == [record |-> record, extensions |-> extensions]

Sni(names) == [id |-> <<0, 0>>, value |-> names]

Alpn == [id |-> <<0, 16>>, value |-> <<(<<104, 50>>), (<<104>>)>>]

HelloStreams ==
  {[codec |-> "hello", items |-> <<HelloItem(r, e)>>] :
     r \in {9, 40, 200},
     e \in {<<Sni(<<(<<97, 46, 98>>)>>)>>,
            <<[id |-> <<255, 1>>, value |-> <<0>>], Alpn, Sni(<<(<<99>>)>>)>>}}

TwoPieces == <<Fill(20, 1), Fill(20, 2)>>

Info(files, length, private) ==
  [piece_length_shift |-> 14, pieces |-> TwoPieces, name |-> <<"n">>, files |-> files,
   length |-> length, private |-> private]

InfoFile(path, length, offset) == [path |-> path, length |-> length, global_offset |-> offset]

OtherStreams ==
  {[codec |-> "piece",
    items |-> <<[content_key |-> Fill(20, 200), piece_sha |-> Fill(20, 0),
                 content_total_length |-> 70000, piece_length_shift |-> 15, piece_index |-> 2,
                 piece_fetch_offset |-> 16384, piece_fetch_length |-> 16384]>>],
   [codec |-> "torrent",
    items |-> <<Info(<<>>, 20000, {}), Info(<<>>, 0, {TRUE}),
                Info(<<InfoFile(<<"a">>, 5, 0), InfoFile(<<"b", "c">>, 0, 5),
                       InfoFile(<<"b", "d">>, 20000, 5)>>, 20005, {FALSE})>>],
   [codec |-> "torrent_id",
    items |-> <<Fill(20, 0), Fill(20, 171), [i \in 1..20 |-> 12 * i]>>],
   [codec |-> "advert",
    items |-> <<[type |-> 134, flags1 |-> 192, router_lifetime |-> 1800,
                 options |-> << <<"prefix", [prefix_length |-> 64, flags1 |-> 224,
                                             valid_lifetime |-> 300, preferred_lifetime |-> 180,
                                             prefix |-> [i \in 1..16 |-> i]]>>,
                                <<"source", Fill(6, 80)>>, <<"mtu", 1480>> >>]>>],
   [codec |-> "ksuid_hex", items |-> <<Fill(20, 255), [i \in 1..20 |-> 12 * i]>>],
   [codec |-> "ksuid",
    items |-> <<Fill(20, 0), Fill(19, 0) \o <<61>>, Fill(19, 0) \o <<62>>,
                <<0, 0, 0, 1>> \o Fill(16, 255), <<0, 0, 0, 2>> \o Fill(16, 0),
                <<5, 169, 94, 33>> \o Fill(16, 77), Fill(20, 255)>>]}

\* Identifiers of two bytes, around the places where a digit of the text carries.
ShortStreams ==
  {[codec |-> "short_ksuid",
    items |-> <<(<<0, 0>>), (<<0, 9>>), (<<0, 10>>), (<<0, 35>>), (<<0, 36>>), (<<0, 61>>),
                (<<0, 62>>), (<<14, 255>>), (<<15, 4>>), (<<15, 5>>), (<<255, 255>>)>>]}

MCStreams ==
  UNION {PeerStreams, TokenStreams, ValueStreams, HelloStreams, OtherStreams, ShortStreams}

-------------------------------------------------------------------------------
(* Bodies: a torrent of 22 bytes in pieces of 8 and blocks of 4, with files   *)
(* that begin and end inside pieces and blocks.                               *)

MCRequests ==
  {[offset |-> f[1], length |-> f[2], ranges |-> r] :
     f \in {<<0, 3>>, <<3, 0>>, <<3, 14>>, <<17, 5>>},
     r \in {<<>>, << <<0, -1>> >>, << <<1, 2>> >>, << <<2, -1>>, <<0, 1>> >>,
            << <<1, 1>> >>}}

-------------------------------------------------------------------------------
(* One of the two at a time *)

Resting ==
  /\ part = "wire" => request = CHOOSE r \in Requests : TRUE
  /\ part = "body" => stream = CHOOSE s \in Streams : TRUE

MCInit == part \in {"wire", "body"} /\ WireInit /\ BodyInit /\ Resting

MCNext ==
  \/ part = "wire" /\ WireNext /\ UNCHANGED <<part, bodyVars>>
  \/ part = "body" /\ BodyNext /\ UNCHANGED <<part, wireVars>>

MCVars == <<part, wireVars, bodyVars>>

MCSpec ==
  /\ MCInit
  /\ [][MCNext]_MCVars
  /\ WF_MCVars(part = "body" /\ BodyStep /\ UNCHANGED <<part, wireVars>>)
  /\ WF_MCVars(part = "body" /\ Deliver /\ UNCHANGED <<part, wireVars>>)

===============================================================================
