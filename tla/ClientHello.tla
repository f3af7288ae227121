------------------------------ MODULE ClientHello ------------------------------
(***************************************************************************)
(* What the SNI multiplexor reads from a TLS client (parsing/tls): records *)
(* that hold, among others, a ClientHello. Reading a field either takes it *)
(* and leaves the rest, or fails: "truncated" if the bytes end too early,  *)
(* "violation" if they cannot be a hello, "other" for another message.     *)
(***************************************************************************)
EXTENDS BigEndian, SequencesExt

Failure(kind) == [is |-> kind, head |-> <<>>, rest |-> <<>>]

\* iter_skip, of a field that is n bytes long
Take(n, data) ==
  IF Len(data) < n THEN Failure("truncated")
  ELSE [is |-> "ok", head |-> SubSeq(data, 1, n), rest |-> SubSeq(data, n + 1, Len(data))]

\* A reading, and what is read after it; the first that fails is the result.
Then(r, Next(_)) == IF r.is # "ok" THEN r ELSE Next(r)

\* A field with its length in the w bytes before it.
TakeVector(w, data) ==
  Then(Take(w, data), LAMBDA length : Take(ReadUint(length.head, 1, w), length.rest))

\* The entries of a list, each h bytes and a vector with a w byte length: they
\* are counted first (size_extensions, size_server_name, size_alpn), which
\* finds a list that ends too early.
RECURSIVE Entries(_, _, _)
Entries(h, w, data) ==
  IF data = <<>> THEN [is |-> "ok", entries |-> <<>>]
  ELSE Then(Take(h, data), LAMBDA tag :
       Then(TakeVector(w, tag.rest), LAMBDA body :
       Then(Entries(h, w, body.rest), LAMBDA others :
         [is |-> "ok",
          entries |-> <<[tag |-> tag.head, body |-> body.head]>> \o others.entries])))

-------------------------------------------------------------------------------
(* extract_record and decode_client_hello *)

HandshakeContent == 22

\* The records of the data, of which the last may not be cut.
RECURSIVE Records(_)
Records(data) ==
  IF data = <<>> THEN [is |-> "ok", records |-> <<>>]
  ELSE Then(Take(3, data), LAMBDA prefix :
       Then(TakeVector(2, prefix.rest), LAMBDA body :
       Then(Records(body.rest), LAMBDA others :
         [is |-> "ok",
          records |-> <<[content |-> prefix.head[1], data |-> body.head]>> \o others.records])))

\* The handshake data that the records carry.
Unframed(records) ==
  FlattenSeq([i \in DOMAIN records |->
                IF records[i].content = HandshakeContent THEN records[i].data ELSE <<>>])

Utf8(bytes) == \A i \in DOMAIN bytes : bytes[i] < 128

ServerNameExtension == <<0, 0>>

AlpnExtension == <<0, 16>>

\* A list of entries in an extension, each h bytes and a vector with a w byte
\* length.
DecodeList(h, w, data) ==
  Then(TakeVector(2, data), LAMBDA list : Entries(h, w, list.head))

\* The names in a list, of which none may be bad.
NamesOf(entries, bad) ==
  IF bad # {} THEN Failure("violation")
  ELSE [is |-> "ok", names |-> [i \in DOMAIN entries |-> entries[i].body]]

\* A name is a host name.
ServerNameEntry(e) == e.tag = <<0>> /\ Utf8(e.body)

AlpnEntry(e) == Utf8(e.body)

DecodeServerName(data) ==
  Then(DecodeList(1, 2, data), LAMBDA list :
    NamesOf(list.entries, {i \in DOMAIN list.entries : ~ServerNameEntry(list.entries[i])}))

DecodeAlpn(data) ==
  Then(DecodeList(0, 1, data), LAMBDA list :
    NamesOf(list.entries, {i \in DOMAIN list.entries : ~AlpnEntry(list.entries[i])}))

DecodeExtension(ext) ==
  LET named(r) == [is |-> "ok", id |-> ext.tag, value |-> r.names]
  IN  CASE ext.tag = ServerNameExtension -> Then(DecodeServerName(ext.body), named)
        [] ext.tag = AlpnExtension -> Then(DecodeAlpn(ext.body), named)
        [] OTHER -> [is |-> "ok", id |-> ext.tag, value |-> ext.body]

SessionID(data) ==
  IF data # <<>> /\ data[1] > 32 THEN Failure("violation") ELSE TakeVector(1, data)

\* The suites are two bytes each.
CipherSuites(data) ==
  IF Len(data) >= 2 /\ data[2] % 2 = 1 THEN Failure("violation") ELSE TakeVector(2, data)

\* Only the null method is known, and the methods are looked at one by one.
CompressionMethods(data) ==
  IF \E i \in 2..Len(data) : i <= data[1] + 1 /\ data[i] # 0
  THEN Failure("violation") ELSE TakeVector(1, data)

\* All that were read, or the first that failed.
AllRead(readings) ==
  LET failed == SelectInSeq(readings, LAMBDA r : r.is # "ok")
  IN  IF failed = 0 THEN [is |-> "ok", list |-> readings] ELSE readings[failed]

\* The extensions, which are decoded one after the other.
Extensions(data) ==
  Then(TakeVector(2, data), LAMBDA list :
  Then(Entries(2, 2, list.head), LAMBDA found :
    AllRead([i \in DOMAIN found.entries |-> DecodeExtension(found.entries[i])])))

\* The body of a hello.
DecodeBody(data) ==
  Then(Take(2, data), LAMBDA version :
  Then(Take(32, version.rest), LAMBDA random :
  Then(SessionID(random.rest), LAMBDA session :
  Then(CipherSuites(session.rest), LAMBDA suites :
  Then(CompressionMethods(suites.rest), LAMBDA methods :
  Then(Extensions(methods.rest), LAMBDA extensions :
    [is |-> "ok", hello |-> [session_id |-> session.head, cipher_suites |-> suites.head,
                             extensions |-> extensions.list]]))))))

ClientHelloType == <<1>>

\* decode_client_hello
DecodeClientHello(data) ==
  Then(Records(data), LAMBDA found :
  Then(Take(1, Unframed(found.records)), LAMBDA type :
  Then(TakeVector(3, type.rest), LAMBDA message :
    IF type.head # ClientHelloType THEN Failure("other") ELSE DecodeBody(message.head))))

\* get_server_names and the rest of detect_sni_name: exactly one name is wanted.
ServerName(sni) ==
  IF sni = <<>> THEN [is |-> "alert", alert |-> "unrecognized_name"]
  ELSE IF Len(Head(sni).value) # 1 THEN [is |-> "alert", alert |-> "internal_error"]
  ELSE [is |-> "name", name |-> Head(sni).value[1]]

SniOf(r, eof) ==
  IF r.is = "truncated" /\ ~eof THEN [is |-> "more"]
  ELSE IF r.is # "ok" THEN [is |-> "alert", alert |-> "internal_error"]
  ELSE ServerName(SelectSeq(r.hello.extensions, LAMBDA e : e.id = ServerNameExtension))

DetectSniName(data, eof) == SniOf(DecodeClientHello(data), eof)

===============================================================================
