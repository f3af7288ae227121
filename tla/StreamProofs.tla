----------------------------- MODULE StreamProofs ------------------------------
(***************************************************************************)
(* For any streams, header lengths and windows, and any cuts into reads    *)
(* and writes: both directions of a proxied connection implement           *)
(* ByteStream. For any torrent and any request: the body that the web      *)
(* server sends is made of the spans that were asked for.                  *)
(***************************************************************************)
EXTENDS ProxyCopy, BodyStream, WellFoundedInduction, TLAPS

\* What the task owes the backend for what it has read from the client.
ForBackend == Prologue \o SubSeq(ClientData, HeaderLen + 1, client_read)

\* What was read and not yet written is in one place, and the backend has the
\* rest: the buffer before the copy loop, backend_to_write in it.
ClientBytes ==
  /\ pc \in {"header", "hello", "dial"} =>
       backend_got = <<>> /\ backend_fin = FALSE
  /\ pc = "header" => backend_write_buf = SubSeq(ClientData, 1, client_read)
  /\ pc \in {"hello", "dial", "copy"} => HeaderLen <= client_read
  /\ pc = "hello" =>
       backend_write_buf = SubSeq(ClientData, HeaderLen + 1, client_read)
  /\ pc = "dial" => backend_write_buf = ForBackend
  /\ pc = "copy" => backend_got \o backend_to_write = ForBackend

\* The same for the other direction, which has no prologue.
BackendBytes ==
  client_got \o client_to_write = SubSeq(BackendData, 1, backend_read)

\* A half that was shut down gets nothing more.
Finished ==
  /\ backend_fin = TRUE => backend_to_write = <<>> /\ client_read_open = FALSE
  /\ client_fin = TRUE => client_to_write = <<>> /\ backend_read_open = FALSE

TypeInv ==
  /\ pc \in {"header", "hello", "dial", "copy", "done", "failed"}
  /\ client_sent \in 0 .. Len(ClientData) /\ client_read \in 0 .. client_sent
  /\ backend_sent \in 0 .. Len(BackendData) /\ backend_read \in 0 .. backend_sent
  /\ {backend_write_buf, backend_to_write, client_to_write, backend_got,
      client_got} \subseteq Seq(Token)
  /\ {client_eof, backend_eof, client_read_open, backend_read_open, backend_fin,
      client_fin} \subseteq BOOLEAN

\* The inductive invariant.
StreamInv == TypeInv /\ ClientBytes /\ BackendBytes /\ Finished

-------------------------------------------------------------------------------
(* Sequences *)

LEMMA TokensAre ==
  ASSUME NEW s \in Seq(Token)
  PROVE  Len(s) \in Nat /\ DOMAIN s = 1 .. Len(s) /\ \A x \in 1 .. Len(s) : s[x] \in Token
OBVIOUS

LEMMA NoTokens ==
  /\ <<>> \in Seq(Token) /\ Len(<<>>) = 0
  /\ \A s \in Seq(Token) : s # <<>> => Len(s) \in Nat \ {0}
OBVIOUS

LEMMA Joined ==
  ASSUME NEW s \in Seq(Token), NEW t \in Seq(Token)
  PROVE  /\ s \o t \in Seq(Token) /\ Len(s \o t) = Len(s) + Len(t)
         /\ \A x \in 1 .. Len(s) : (s \o t)[x] = s[x]
         /\ \A x \in Len(s) + 1 .. Len(s) + Len(t) : (s \o t)[x] = t[x - Len(s)]
OBVIOUS

LEMMA JoinedEmpty ==
  ASSUME NEW s \in Seq(Token)
  PROVE  s \o <<>> = s /\ <<>> \o s = s
OBVIOUS

\* Concatenation is associative.
LEMMA Regroups ==
  ASSUME NEW a \in Seq(Token), NEW b \in Seq(Token), NEW c \in Seq(Token)
  PROVE  (a \o b) \o c = a \o (b \o c)
OBVIOUS

\* Sequences with the same elements are the same.
LEMMA Alike ==
  ASSUME NEW s \in Seq(Token), NEW t \in Seq(Token), Len(s) = Len(t),
         \A x \in 1 .. Len(s) : s[x] = t[x]
  PROVE  s = t
OBVIOUS

\* A part of a stream.
LEMMA PartIs ==
  ASSUME NEW s \in Seq(Token), NEW i \in Nat, NEW j \in Nat, i <= j, j <= Len(s)
  PROVE  /\ SubSeq(s, i + 1, j) \in Seq(Token) /\ Len(SubSeq(s, i + 1, j)) = j - i
         /\ \A x \in 1 .. j - i : SubSeq(s, i + 1, j)[x] = s[i + x]
OBVIOUS

LEMMA Whole ==
  ASSUME NEW s \in Seq(Token)
  PROVE  SubSeq(s, 1, Len(s)) = s
OBVIOUS

\* A part of a stream and the part that follows it.
LEMMA Follows ==
  ASSUME NEW s \in Seq(Token), NEW i \in Nat, NEW j \in Nat, NEW k \in Nat,
         i <= j, j <= k, k <= Len(s)
  PROVE  /\ SubSeq(s, i + 1, j) \in Seq(Token)
         /\ Len(SubSeq(s, i + 1, j)) = j - i
         /\ SubSeq(s, i + 1, j) \o SubSeq(s, j + 1, k) = SubSeq(s, i + 1, k)
<1> DEFINE a == SubSeq(s, i + 1, j)
           b == SubSeq(s, j + 1, k)
           c == SubSeq(s, i + 1, k)
<1>1. Len(s) \in Nat
  BY TokensAre
<1>2. a \in Seq(Token) /\ Len(a) = j - i /\ \A x \in 1 .. j - i : a[x] = s[i + x]
  BY <1>1, PartIs
<1>3. b \in Seq(Token) /\ Len(b) = k - j /\ \A x \in 1 .. k - j : b[x] = s[j + x]
  BY <1>1, PartIs
<1>4. c \in Seq(Token) /\ Len(c) = k - i /\ \A x \in 1 .. k - i : c[x] = s[i + x]
  BY <1>1, PartIs
<1> HIDE DEF a, b, c
<1>5. a \o b = c
  <2>1. a \o b \in Seq(Token) /\ Len(a \o b) = k - i
    <3>1. a \o b \in Seq(Token) /\ Len(a \o b) = Len(a) + Len(b)
      BY <1>2, <1>3, Joined
    <3> QED BY <1>2, <1>3, <3>1
  <2>2. ASSUME NEW x \in 1 .. k - i PROVE (a \o b)[x] = c[x]
    <3>1. CASE x <= j - i
      <4>1. x \in 1 .. Len(a) /\ a[x] = s[i + x] /\ c[x] = s[i + x]
        BY <1>2, <1>4, <3>1
      <4> QED BY <1>2, <1>3, <4>1, Joined
    <3>2. CASE ~(x <= j - i)
      <4> DEFINE y == x - (j - i)
      <4>1. y \in 1 .. k - j /\ x \in Len(a) + 1 .. Len(a) + Len(b) /\ y = x - Len(a) /\ j + y = i + x
        BY <1>2, <1>3, <3>2
      <4>2. b[y] = s[i + x] /\ c[x] = s[i + x]
        BY <1>3, <1>4, <4>1
      <4> QED BY <1>2, <1>3, <4>1, <4>2, Joined
    <3> QED BY <3>1, <3>2
  <2> QED BY <1>4, <2>1, <2>2, Alike
<1> QED BY <1>2, <1>5 DEF a, b, c

\* What follows after the first part was taken away.
LEMMA Drops ==
  ASSUME NEW s \in Seq(Token), NEW i \in Nat, NEW j \in Nat, i <= j, j <= Len(s)
  PROVE  SubSeq(SubSeq(s, 1, j), i + 1, j) = SubSeq(s, i + 1, j)
<1> DEFINE a == SubSeq(s, 1, i)
           b == SubSeq(s, i + 1, j)
<1>1. a \in Seq(Token) /\ Len(a) = i /\ a \o b = SubSeq(s, 1, j)
  BY Follows, 0 + 1 = 1
<1>2. b \in Seq(Token) /\ Len(b) = j - i
  BY Follows
<1> HIDE DEF a, b
<1>3. SubSeq(a \o b, i + 1, j) = b
  <2>1. a \o b \in Seq(Token) /\ Len(a \o b) = j /\ \A x \in i + 1 .. j : (a \o b)[x] = b[x - i]
    <3>1. /\ a \o b \in Seq(Token) /\ Len(a \o b) = Len(a) + Len(b)
          /\ \A x \in Len(a) + 1 .. Len(a) + Len(b) : (a \o b)[x] = b[x - Len(a)]
      BY <1>1, <1>2, Joined
    <3>2. Len(a) + Len(b) = j
      BY <1>1, <1>2
    <3> QED BY <1>1, <3>1, <3>2
  <2> DEFINE d == a \o b
             c == SubSeq(d, i + 1, j)
  <2> HIDE DEF d
  <2>2. c \in Seq(Token) /\ Len(c) = j - i /\ \A x \in 1 .. j - i : c[x] = d[i + x]
    <3>1. d \in Seq(Token) /\ j <= Len(d)
      BY <2>1 DEF d
    <3> QED BY <3>1, PartIs
  <2>3. ASSUME NEW x \in 1 .. j - i PROVE c[x] = b[x]
    <3>1. i + x \in i + 1 .. j /\ (i + x) - i = x
      OBVIOUS
    <3> QED BY <2>1, <2>2, <3>1 DEF d
  <2> HIDE DEF c
  <2>4. c = b
    BY <1>2, <2>2, <2>3, Alike
  <2> QED BY <2>4 DEF c, d
<1> QED BY <1>1, <1>3 DEF b

\* What comes behind a sequence does not change how it begins.
LEMMA Begins ==
  ASSUME NEW p \in Seq(Token), NEW q \in Seq(Token), NEW k \in 0 .. Len(p)
  PROVE  SubSeq(p \o q, 1, k) = SubSeq(p, 1, k)
<1>1. /\ p \o q \in Seq(Token) /\ Len(p \o q) = Len(p) + Len(q)
      /\ \A x \in 1 .. Len(p) : (p \o q)[x] = p[x]
  BY Joined, TokensAre
<1>2. 0 \in Nat /\ k \in Nat /\ 0 <= k /\ k <= Len(p) /\ k <= Len(p \o q) /\ 0 + 1 = 1 /\ k - 0 = k
  BY <1>1, TokensAre
<1> DEFINE a == SubSeq(p \o q, 1, k)
           b == SubSeq(p, 1, k)
<1>3. /\ a \in Seq(Token) /\ Len(a) = k
      /\ \A x \in 1 .. k : a[x] = (p \o q)[x]
  BY <1>1, <1>2, PartIs
<1>4. b \in Seq(Token) /\ Len(b) = k /\ \A x \in 1 .. k : b[x] = p[x]
  BY <1>1, <1>2, PartIs
<1>5. \A x \in 1 .. k : a[x] = b[x]
  BY <1>1, <1>3, <1>4, TokensAre
<1> HIDE DEF a, b
<1> QED BY <1>3, <1>4, <1>5, Alike DEF a, b

\* A write moves the head of what is to be written behind what was.
LEMMA Moves ==
  ASSUME NEW g \in Seq(Token), NEW w \in Seq(Token), NEW n \in 1 .. Len(w)
  PROVE  /\ SubSeq(w, n + 1, Len(w)) \in Seq(Token)
         /\ g \o SubSeq(w, 1, n) \in Seq(Token)
         /\ (g \o SubSeq(w, 1, n)) \o SubSeq(w, n + 1, Len(w)) = g \o w
         /\ g \o SubSeq(w, 1, n) = SubSeq(g \o w, 1, Len(g) + n)
<1> DEFINE h == SubSeq(w, 1, n)
           t == SubSeq(w, n + 1, Len(w))
<1>1. Len(w) \in Nat /\ Len(g) \in Nat
  BY TokensAre
<1>2. h \in Seq(Token) /\ Len(h) = n /\ h \o t = SubSeq(w, 1, Len(w))
  BY <1>1, Follows, 0 + 1 = 1
<1>3. t \in Seq(Token)
  BY <1>1, Follows
<1>4. SubSeq(w, 1, Len(w)) = w
  BY Whole
<1> HIDE DEF h, t
<1>5. g \o h \in Seq(Token) /\ Len(g \o h) = Len(g) + n
  BY <1>2, Joined
<1>6. (g \o h) \o t = g \o w
  <2>1. h \in Seq(Token) /\ t \in Seq(Token)
    BY <1>2, <1>3
  <2>2. (g \o h) \o t = g \o (h \o t)
    BY <2>1, Regroups
  <2> QED BY <1>2, <1>4, <2>2
<1>7. SubSeq(g \o w, 1, Len(g) + n) = SubSeq(g \o h, 1, Len(g) + n)
  BY <1>1, <1>3, <1>5, <1>6, Begins
<1>8. SubSeq(g \o h, 1, Len(g) + n) = g \o h
  BY <1>5, Whole
<1> QED BY <1>3, <1>5, <1>6, <1>7, <1>8 DEF h, t

\* With h instead of g, more of what may arrive has arrived.
Arrives(all, g, h) == \E m \in Len(g) + 1 .. Len(all) : h = SubSeq(all, 1, m)

\* Such a write delivers a longer beginning of all that may have arrived.
LEMMA Delivers ==
  ASSUME NEW p \in Seq(Token), NEW d \in Seq(Token),
         NEW i \in Nat, NEW r \in Nat, NEW s \in Nat,
         i <= r, r <= s, s <= Len(d),
         NEW g \in Seq(Token), NEW w \in Seq(Token), NEW n \in 1 .. Len(w)
  PROVE  g \o w = p \o SubSeq(d, i + 1, r)
           => Arrives(p \o SubSeq(d, i + 1, s), g, g \o SubSeq(w, 1, n))
<1> DEFINE a == SubSeq(d, i + 1, r)
           b == SubSeq(d, r + 1, s)
           all == p \o SubSeq(d, i + 1, s)
           m == Len(g) + n
<1>1. a \in Seq(Token) /\ a \o b = SubSeq(d, i + 1, s)
  BY Follows
<1>2. b \in Seq(Token)
  BY TokensAre, Follows
<1> HIDE DEF a, b
<1>3. p \o a \in Seq(Token) /\ all = (p \o a) \o b
  <2>1. a \in Seq(Token) /\ b \in Seq(Token)
    BY <1>1, <1>2
  <2>2. (p \o a) \o b = p \o (a \o b)
    BY <2>1, Regroups, ZenonT(40)
  <2>3. p \o a \in Seq(Token)
    BY <2>1, Joined
  <2> QED BY <1>1, <2>2, <2>3
<1>4. g \o w \in Seq(Token) /\ Len(g \o w) = Len(g) + Len(w)
  BY Joined
<1>5. SUFFICES ASSUME g \o w = p \o a
               PROVE  Arrives(all, g, g \o SubSeq(w, 1, n))
  BY DEF a
<1> HIDE DEF all
<1>6. Len(all) = Len(g \o w) + Len(b)
  <2>1. Len((p \o a) \o b) = Len(p \o a) + Len(b)
    BY <1>2, <1>3, Joined, Zenon
  <2> QED BY <1>3, <1>5, <2>1
<1>7. Len(g) \in Nat /\ Len(w) \in Nat /\ Len(b) \in Nat
  BY <1>2, TokensAre
<1>8. m \in 0 .. Len(g \o w) /\ m \in Len(g) + 1 .. Len(all)
  BY <1>4, <1>6, <1>7
<1>9. SubSeq(all, 1, m) = SubSeq(g \o w, 1, m)
  <2>1. all = (g \o w) \o b
    BY <1>3, <1>5
  <2> HIDE DEF m
  <2> QED BY <1>2, <1>4, <1>8, <2>1, Begins, Zenon
<1>10. g \o SubSeq(w, 1, n) = SubSeq(g \o w, 1, m)
  BY Moves, Zenon
<1> QED BY <1>8, <1>9, <1>10 DEF Arrives

-------------------------------------------------------------------------------
(* The inductive invariant *)

LEMMA DataLengths ==
  /\ {ClientData, BackendData, Prologue} \subseteq Seq(Token)
  /\ Len(ClientData) \in Nat /\ Len(BackendData) \in Nat /\ Len(Prologue) \in Nat
  /\ Sizes \subseteq Nat \ {0}
BY CopyAssumption, TokensAre DEF Sizes

LEMMA InitInv == Init => StreamInv
<1> SUFFICES ASSUME Init PROVE StreamInv
  OBVIOUS
<1>1. TypeInv
  <2>1. <<>> \in Seq(Token)
    BY NoTokens
  <2>2. {client_eof, backend_eof, client_read_open, backend_read_open,
         backend_fin, client_fin} \subseteq BOOLEAN
    BY DEF Init
  <2> QED BY <2>1, <2>2, DataLengths DEF Init, TypeInv
<1>2. SubSeq(ClientData, 1, 0) = <<>> /\ SubSeq(BackendData, 1, 0) = <<>>
  OBVIOUS
<1>3. ClientBytes
  BY <1>2, CopyAssumption DEF Init, ClientBytes
<1>4. BackendBytes
  BY <1>2, NoTokens, JoinedEmpty DEF Init, BackendBytes
<1>5. Finished
  BY DEF Init, Finished
<1> QED BY <1>1, <1>3, <1>4, <1>5 DEF StreamInv

\* Whatever the peers do, and however the task ends.
LEMMA PeersInv == StreamInv /\ (Peers \/ EarlyEof \/ Done \/ Fail) => StreamInv'
<1> SUFFICES ASSUME StreamInv, Peers \/ EarlyEof \/ Done \/ Fail PROVE StreamInv'
  OBVIOUS
<1> USE DEF client, backend, reads, writes, opens, sinks, fins, stats
<1>1. /\ UNCHANGED <<client_read, backend_read, backend_write_buf,
                     backend_to_write, client_to_write, client_read_open,
                     backend_read_open, backend_got, client_got, backend_fin,
                     client_fin>>
      /\ pc' = pc \/ pc' \in {"done", "failed"}
  BY DEF Peers, ClientSend, BackendSend, ClientClose, BackendClose, PeerReads,
         EarlyEof, Done, Fail
<1>2. client_sent' \in client_sent .. Len(ClientData)
  <2>1. client_sent \in 0 .. Len(ClientData)
    BY DEF StreamInv, TypeInv
  <2>2. ASSUME NEW n \in Sizes, ClientSend(n)
        PROVE  client_sent' \in client_sent .. Len(ClientData)
    BY <2>1, <2>2, DataLengths DEF ClientSend
  <2>3. (\E n \in Sizes : ClientSend(n)) \/ client_sent' = client_sent
    BY DEF Peers, BackendSend, ClientClose, BackendClose, PeerReads, EarlyEof, Done, Fail
  <2> QED BY <2>1, <2>2, <2>3, DataLengths
<1>3. backend_sent' \in backend_sent .. Len(BackendData)
  <2>1. backend_sent \in 0 .. Len(BackendData)
    BY DEF StreamInv, TypeInv
  <2>2. ASSUME NEW n \in Sizes, BackendSend(n)
        PROVE  backend_sent' \in backend_sent .. Len(BackendData)
    BY <2>1, <2>2, DataLengths DEF BackendSend
  <2>3. (\E n \in Sizes : BackendSend(n)) \/ backend_sent' = backend_sent
    BY DEF Peers, ClientSend, ClientClose, BackendClose, PeerReads, EarlyEof, Done, Fail
  <2> QED BY <2>1, <2>2, <2>3, DataLengths
<1>4. client_eof' \in {client_eof, TRUE} /\ backend_eof' \in {backend_eof, TRUE}
  BY DEF Peers, ClientSend, BackendSend, ClientClose, BackendClose, PeerReads,
         EarlyEof, Done, Fail
<1>5. TypeInv'
  <2>1. pc' \in {"header", "hello", "dial", "copy", "done", "failed"}
    BY <1>1 DEF StreamInv, TypeInv
  <2>2. client_sent' \in 0 .. Len(ClientData) /\ client_read' \in 0 .. client_sent'
    BY <1>1, <1>2, DataLengths DEF StreamInv, TypeInv
  <2>3. backend_sent' \in 0 .. Len(BackendData)
        /\ backend_read' \in 0 .. backend_sent'
    BY <1>1, <1>3, DataLengths DEF StreamInv, TypeInv
  <2>4. ({backend_write_buf, backend_to_write, client_to_write, backend_got,
          client_got} \subseteq Seq(Token))'
    BY <1>1 DEF StreamInv, TypeInv
  <2>5. ({client_eof, backend_eof, client_read_open, backend_read_open,
          backend_fin, client_fin} \subseteq BOOLEAN)'
    BY <1>1, <1>4 DEF StreamInv, TypeInv
  <2> QED BY <2>1, <2>2, <2>3, <2>4, <2>5 DEF TypeInv
<1>6. ClientBytes'
  BY <1>1 DEF StreamInv, ClientBytes, ForBackend
<1>7. BackendBytes'
  BY <1>1 DEF StreamInv, BackendBytes
<1>8. Finished'
  BY <1>1 DEF StreamInv, Finished
<1> QED BY <1>5, <1>6, <1>7, <1>8 DEF StreamInv

\* The types of what a step of the task may change.
LEMMA TaskTypes ==
  ASSUME StreamInv,
         UNCHANGED <<client_sent, client_eof, backend_sent, backend_eof>>,
         pc' \in {"header", "hello", "dial", "copy"},
         client_read' \in 0 .. client_sent, backend_read' \in 0 .. backend_sent,
         backend_write_buf' \in Seq(Token), backend_to_write' \in Seq(Token),
         client_to_write' \in Seq(Token), backend_got' \in Seq(Token),
         client_got' \in Seq(Token),
         client_read_open' \in {client_read_open, FALSE},
         backend_read_open' \in {backend_read_open, FALSE},
         backend_fin' \in {backend_fin, TRUE}, client_fin' \in {client_fin, TRUE}
  PROVE  TypeInv'
<1>1. ({client_eof, backend_eof, client_read_open, backend_read_open, backend_fin,
        client_fin} \subseteq BOOLEAN)'
  BY DEF StreamInv, TypeInv
<1> QED BY <1>1 DEF StreamInv, TypeInv

\* Up to the copy loop.
LEMMA ReadMoreInv ==
  ASSUME StreamInv, NEW n \in Sizes, ReadMore(n)
  PROVE  StreamInv'
<1> USE DEF client, backend, reads, writes, opens, sinks, fins, stats
<1> DEFINE r == client_read + n
<1>1. /\ UNCHANGED <<pc, client_sent, client_eof, backend_sent, backend_eof,
                     backend_read, backend_to_write, client_to_write,
                     client_read_open, backend_read_open, backend_got,
                     client_got, backend_fin, client_fin>>
      /\ pc \in {"header", "hello"} /\ client_read' = r /\ r <= client_sent
      /\ backend_write_buf' =
           backend_write_buf \o SubSeq(ClientData, client_read + 1, r)
  BY DEF ReadMore, Incomplete, FromClient
<1>2. /\ client_read \in Nat /\ r \in Nat /\ client_read <= r
      /\ r <= Len(ClientData) /\ client_sent \in 0 .. Len(ClientData)
  BY <1>1, DataLengths DEF StreamInv, TypeInv
<1>3. /\ backend_write_buf \in Seq(Token)
      /\ SubSeq(ClientData, client_read + 1, r) \in Seq(Token)
  BY <1>2, Follows, DataLengths DEF StreamInv, TypeInv
<1>4. backend_write_buf' \in Seq(Token)
  BY <1>1, <1>3, Joined
<1>5. TypeInv'
  BY <1>1, <1>2, <1>4, TaskTypes DEF StreamInv, TypeInv
<1> HIDE DEF r
<1>6. ClientBytes'
  <2>1. CASE pc = "header"
    <3>1. SubSeq(ClientData, 1, client_read) \o SubSeq(ClientData, client_read + 1, r)
            = SubSeq(ClientData, 1, r)
      BY <1>2, Follows, DataLengths, 0 + 1 = 1
    <3>2. backend_write_buf = SubSeq(ClientData, 1, client_read)
      BY <2>1 DEF StreamInv, ClientBytes
    <3>3. backend_got = <<>> /\ backend_fin = FALSE
      BY <2>1 DEF StreamInv, ClientBytes
    <3> QED BY <1>1, <2>1, <3>1, <3>2, <3>3 DEF ClientBytes
  <2>2. CASE pc = "hello"
    <3>1. HeaderLen \in Nat /\ HeaderLen <= client_read /\ HeaderLen <= r
      BY <1>2, <2>2, CopyAssumption DEF StreamInv, ClientBytes
    <3>2. SubSeq(ClientData, HeaderLen + 1, client_read)
            \o SubSeq(ClientData, client_read + 1, r)
            = SubSeq(ClientData, HeaderLen + 1, r)
      BY <1>2, <3>1, Follows, DataLengths
    <3>3. backend_write_buf = SubSeq(ClientData, HeaderLen + 1, client_read)
      BY <2>2 DEF StreamInv, ClientBytes
    <3>4. backend_got = <<>> /\ backend_fin = FALSE
      BY <2>2 DEF StreamInv, ClientBytes
    <3> QED BY <1>1, <2>2, <3>1, <3>2, <3>3, <3>4 DEF ClientBytes
  <2> QED BY <1>1, <2>1, <2>2
<1>7. BackendBytes' /\ Finished'
  BY <1>1 DEF StreamInv, BackendBytes, Finished
<1> QED BY <1>5, <1>6, <1>7 DEF StreamInv

LEMMA BeforeCopyInv == StreamInv /\ (HeaderDone \/ HelloDone \/ Dialed) => StreamInv'
<1> SUFFICES ASSUME StreamInv, HeaderDone \/ HelloDone \/ Dialed PROVE StreamInv'
  OBVIOUS
<1> USE DEF client, backend, reads, writes, opens, sinks, fins, stats
<1>1. UNCHANGED <<client_sent, client_eof, backend_sent, backend_eof, client_read,
                  backend_read, client_to_write, client_read_open,
                  backend_read_open, backend_got, client_got, backend_fin,
                  client_fin>>
  BY DEF HeaderDone, HelloDone, Dialed
<1>2. BackendBytes'
  BY <1>1 DEF StreamInv, BackendBytes
<1>3. /\ client_read \in 0 .. client_sent /\ backend_read \in 0 .. backend_sent
      /\ client_sent \in 0 .. Len(ClientData) /\ client_read \in Nat
      /\ client_read <= Len(ClientData) /\ HeaderLen \in Nat
      /\ ClientData \in Seq(Token) /\ Prologue \in Seq(Token)
  BY DataLengths, CopyAssumption DEF StreamInv, TypeInv
<1>4. {backend_write_buf, backend_to_write, client_to_write, backend_got, client_got}
        \subseteq Seq(Token)
  BY DEF StreamInv, TypeInv
<1> DEFINE hello == SubSeq(ClientData, HeaderLen + 1, client_read)
<1>5. HeaderLen <= client_read => hello \in Seq(Token)
  BY <1>3, Follows
<1>6. CASE HeaderDone
  <2>1. /\ pc = "header" /\ pc' = "hello" /\ backend_to_write' = backend_to_write
        /\ Len(backend_write_buf) >= HeaderLen
        /\ backend_write_buf' =
             SubSeq(backend_write_buf, HeaderLen + 1, Len(backend_write_buf))
    BY <1>6 DEF HeaderDone
  <2>2. /\ backend_write_buf = SubSeq(ClientData, 1, client_read)
        /\ backend_got = <<>> /\ backend_fin = FALSE
    BY <2>1 DEF StreamInv, ClientBytes
  <2>3. Len(SubSeq(ClientData, 1, client_read)) = client_read
    BY <1>3, Follows, 0 + 1 = 1
  <2>4. HeaderLen <= client_read
    BY <1>3, <2>1, <2>2, <2>3
  <2>5. backend_write_buf' = hello
    BY <1>3, <2>1, <2>2, <2>3, <2>4, Drops
  <2>6. TypeInv'
    BY <1>1, <1>3, <1>4, <1>5, <2>1, <2>4, <2>5, TaskTypes
  <2>7. ClientBytes'
    BY <1>1, <2>1, <2>2, <2>4, <2>5 DEF ClientBytes
  <2>8. Finished'
    BY <1>1, <2>1 DEF StreamInv, Finished
  <2> QED BY <1>2, <2>6, <2>7, <2>8 DEF StreamInv
<1>7. CASE HelloDone
  <2>1. /\ pc = "hello" /\ pc' = "dial" /\ backend_to_write' = backend_to_write
        /\ backend_write_buf' = Prologue \o backend_write_buf
    BY <1>7 DEF HelloDone
  <2>2. /\ backend_write_buf = hello /\ HeaderLen <= client_read
        /\ backend_got = <<>> /\ backend_fin = FALSE
    BY <2>1 DEF StreamInv, ClientBytes
  <2>3. backend_write_buf' \in Seq(Token)
    BY <1>3, <1>4, <2>1, Joined
  <2>4. TypeInv'
    BY <1>1, <1>3, <1>4, <2>1, <2>3, TaskTypes
  <2>5. ClientBytes'
    BY <1>1, <2>1, <2>2 DEF ClientBytes, ForBackend
  <2>6. Finished'
    BY <1>1, <2>1 DEF StreamInv, Finished
  <2> QED BY <1>2, <2>4, <2>5, <2>6 DEF StreamInv
<1>8. CASE Dialed
  <2>1. /\ pc = "dial" /\ pc' = "copy" /\ backend_to_write' = backend_write_buf
        /\ backend_write_buf' = <<>>
    BY <1>8 DEF Dialed
  <2>2. /\ backend_write_buf = ForBackend /\ HeaderLen <= client_read
        /\ backend_got = <<>> /\ backend_fin = FALSE
    BY <2>1 DEF StreamInv, ClientBytes
  <2>3. TypeInv'
    BY <1>1, <1>3, <1>4, <2>1, TaskTypes, NoTokens
  <2>4. backend_got \o backend_write_buf = backend_write_buf
    BY <1>4, <2>2, JoinedEmpty
  <2>5. ClientBytes'
    BY <1>1, <2>1, <2>2, <2>4 DEF ClientBytes, ForBackend
  <2>6. Finished'
    BY <1>1, <2>1, <2>2 DEF StreamInv, Finished
  <2> QED BY <1>2, <2>3, <2>5, <2>6 DEF StreamInv
<1> QED BY <1>6, <1>7, <1>8

\* The writes of the copy loop.
LEMMA WriteInv ==
  ASSUME StreamInv, NEW n \in Sizes, WriteBackend(n) \/ WriteClient(n)
  PROVE  StreamInv'
<1> USE DEF client, backend, reads, writes, opens, sinks, fins, stats
<1>1. /\ UNCHANGED <<pc, client_sent, client_eof, backend_sent, backend_eof,
                     client_read, backend_read, backend_write_buf,
                     client_read_open, backend_read_open, backend_fin, client_fin>>
      /\ pc = "copy"
  BY DEF WriteBackend, WriteClient
<1>2. /\ client_read \in 0 .. client_sent /\ backend_read \in 0 .. backend_sent
      /\ backend_write_buf \in Seq(Token)
      /\ backend_to_write \in Seq(Token) /\ client_to_write \in Seq(Token)
      /\ backend_got \in Seq(Token) /\ client_got \in Seq(Token)
  BY DEF StreamInv, TypeInv
<1>3. CASE WriteBackend(n)
  <2>1. /\ n \in 1 .. Len(backend_to_write)
        /\ backend_got' = backend_got \o SubSeq(backend_to_write, 1, n)
        /\ backend_to_write' =
             SubSeq(backend_to_write, n + 1, Len(backend_to_write))
        /\ UNCHANGED <<client_to_write, client_got>>
    BY <1>2, <1>3, DataLengths, TokensAre DEF WriteBackend
  <2>2. /\ backend_got' \in Seq(Token) /\ backend_to_write' \in Seq(Token)
        /\ backend_got' \o backend_to_write' = backend_got \o backend_to_write
    BY <1>2, <2>1, Moves
  <2>3. TypeInv'
    BY <1>1, <1>2, <2>1, <2>2, TaskTypes
  <2>4. ClientBytes'
    BY <1>1, <2>2 DEF StreamInv, ClientBytes, ForBackend
  <2>5. BackendBytes'
    BY <1>1, <2>1 DEF StreamInv, BackendBytes
  <2>6. backend_to_write # <<>>
    BY <2>1, NoTokens
  <2>7. Finished'
    BY <1>1, <2>1, <2>6 DEF StreamInv, Finished
  <2> QED BY <2>3, <2>4, <2>5, <2>7 DEF StreamInv
<1>4. CASE WriteClient(n)
  <2>1. /\ n \in 1 .. Len(client_to_write)
        /\ client_got' = client_got \o SubSeq(client_to_write, 1, n)
        /\ client_to_write' = SubSeq(client_to_write, n + 1, Len(client_to_write))
        /\ UNCHANGED <<backend_to_write, backend_got>>
    BY <1>2, <1>4, DataLengths, TokensAre DEF WriteClient
  <2>2. /\ client_got' \in Seq(Token) /\ client_to_write' \in Seq(Token)
        /\ client_got' \o client_to_write' = client_got \o client_to_write
    BY <1>2, <2>1, Moves
  <2>3. TypeInv'
    BY <1>1, <1>2, <2>1, <2>2, TaskTypes
  <2>4. ClientBytes'
    BY <1>1, <2>1 DEF StreamInv, ClientBytes, ForBackend
  <2>5. BackendBytes'
    BY <1>1, <2>2 DEF StreamInv, BackendBytes
  <2>6. client_to_write # <<>>
    BY <2>1, NoTokens
  <2>7. Finished'
    BY <1>1, <2>1, <2>6 DEF StreamInv, Finished
  <2> QED BY <2>3, <2>4, <2>5, <2>7 DEF StreamInv
<1> QED BY <1>3, <1>4

\* Its reads.
LEMMA ReadInv ==
  ASSUME StreamInv, NEW n \in Sizes, ReadBackend(n) \/ ReadClient(n)
  PROVE  StreamInv'
<1> USE DEF client, backend, reads, writes, opens, sinks, fins, stats
<1>1. /\ UNCHANGED <<pc, client_sent, client_eof, backend_sent, backend_eof,
                     backend_write_buf, client_read_open, backend_read_open,
                     backend_got, client_got, backend_fin, client_fin>>
      /\ pc = "copy" /\ backend_to_write = <<>> /\ client_to_write = <<>>
  BY DEF ReadBackend, ReadClient, MayRead
<1>2. /\ client_read \in 0 .. client_sent /\ backend_read \in 0 .. backend_sent
      /\ client_sent \in 0 .. Len(ClientData)
      /\ backend_sent \in 0 .. Len(BackendData)
      /\ backend_write_buf \in Seq(Token)
      /\ backend_to_write \in Seq(Token) /\ client_to_write \in Seq(Token)
      /\ backend_got \in Seq(Token) /\ client_got \in Seq(Token)
  BY DEF StreamInv, TypeInv
<1>3. /\ backend_got \o <<>> = backend_got /\ client_got \o <<>> = client_got
  BY <1>2, JoinedEmpty
<1>4. CASE ReadBackend(n)
  <2> DEFINE r == backend_read + n
  <2>1. /\ backend_read' = r /\ r <= backend_sent /\ backend_read_open = TRUE
        /\ client_to_write' = SubSeq(BackendData, backend_read + 1, r)
        /\ UNCHANGED <<client_read, backend_to_write>>
    BY <1>4 DEF ReadBackend, StreamInv, TypeInv
  <2>2. /\ backend_read \in Nat /\ r \in Nat /\ backend_read <= r
        /\ r <= Len(BackendData) /\ r \in 0 .. backend_sent
        /\ BackendData \in Seq(Token)
    BY <1>2, <2>1, DataLengths
  <2> HIDE DEF r
  <2>3. /\ client_to_write' \in Seq(Token)
        /\ SubSeq(BackendData, 1, backend_read) \o client_to_write'
             = SubSeq(BackendData, 1, r)
    <3>1. client_to_write' \in Seq(Token)
      BY <2>1, <2>2, Follows
    <3>2. SubSeq(BackendData, 1, backend_read)
            \o SubSeq(BackendData, backend_read + 1, r) = SubSeq(BackendData, 1, r)
      BY <2>2, Follows, 0 + 1 = 1
    <3> QED BY <2>1, <3>1, <3>2
  <2>4. client_got = SubSeq(BackendData, 1, backend_read)
    BY <1>1, <1>3 DEF StreamInv, BackendBytes
  <2>5. TypeInv'
    BY <1>1, <1>2, <2>1, <2>2, <2>3, TaskTypes
  <2>6. ClientBytes'
    BY <1>1, <2>1 DEF StreamInv, ClientBytes, ForBackend
  <2>7. BackendBytes'
    BY <1>1, <2>1, <2>3, <2>4 DEF BackendBytes
  <2>8. Finished'
    BY <1>1, <2>1 DEF StreamInv, Finished
  <2> QED BY <2>5, <2>6, <2>7, <2>8 DEF StreamInv
<1>5. CASE ReadClient(n)
  <2> DEFINE r == client_read + n
             hello == SubSeq(ClientData, HeaderLen + 1, client_read)
  <2>1. /\ client_read' = r /\ r <= client_sent /\ client_read_open = TRUE
        /\ backend_to_write' = SubSeq(ClientData, client_read + 1, r)
        /\ UNCHANGED <<backend_read, client_to_write>>
    BY <1>5 DEF ReadClient, FromClient, StreamInv, TypeInv
  <2>2. /\ client_read \in Nat /\ r \in Nat /\ client_read <= r
        /\ r <= Len(ClientData) /\ r \in 0 .. client_sent
        /\ ClientData \in Seq(Token) /\ Prologue \in Seq(Token)
        /\ HeaderLen \in Nat /\ HeaderLen <= client_read /\ HeaderLen <= r
    BY <1>1, <1>2, <2>1, DataLengths, CopyAssumption DEF StreamInv, ClientBytes
  <2> HIDE DEF r
  <2>3. backend_to_write' \in Seq(Token)
    BY <2>1, <2>2, Follows
  <2>4. /\ hello \in Seq(Token)
        /\ hello \o backend_to_write' = SubSeq(ClientData, HeaderLen + 1, r)
    BY <2>1, <2>2, Follows
  <2>5. backend_got = Prologue \o hello
    BY <1>1, <1>3 DEF StreamInv, ClientBytes, ForBackend
  <2>6. TypeInv'
    BY <1>1, <1>2, <2>1, <2>2, <2>3, TaskTypes
  <2>7. ClientBytes'
    <3> HIDE DEF hello
    <3>1. (Prologue \o hello) \o backend_to_write'
            = Prologue \o (hello \o backend_to_write')
      BY <2>2, <2>3, <2>4, Regroups, Zenon
    <3> QED BY <1>1, <2>1, <2>2, <2>4, <2>5, <3>1
            DEF StreamInv, ClientBytes, ForBackend
  <2>8. BackendBytes'
    BY <1>1, <2>1 DEF StreamInv, BackendBytes
  <2>9. Finished'
    BY <1>1, <2>1 DEF StreamInv, Finished
  <2> QED BY <2>6, <2>7, <2>8, <2>9 DEF StreamInv
<1> QED BY <1>4, <1>5

\* The ends of the streams.
LEMMA EofInv == StreamInv /\ (BackendEof \/ ClientEof) => StreamInv'
<1> SUFFICES ASSUME StreamInv, BackendEof \/ ClientEof PROVE StreamInv'
  OBVIOUS
<1> USE DEF client, backend, reads, writes, opens, sinks, fins, stats
<1>1. /\ UNCHANGED <<pc, client_sent, client_eof, backend_sent, backend_eof,
                     client_read, backend_read, backend_write_buf,
                     backend_to_write, client_to_write, backend_got, client_got>>
      /\ pc = "copy" /\ backend_to_write = <<>> /\ client_to_write = <<>>
  BY DEF BackendEof, ClientEof, MayRead
<1>2. \/ /\ client_read_open' = FALSE /\ backend_fin' = TRUE
         /\ UNCHANGED <<backend_read_open, client_fin>>
      \/ /\ backend_read_open' = FALSE /\ client_fin' = TRUE
         /\ UNCHANGED <<client_read_open, backend_fin>>
  BY DEF BackendEof, ClientEof
<1>3. TypeInv'
  BY <1>1, <1>2, TaskTypes DEF StreamInv, TypeInv
<1>4. ClientBytes'
  BY <1>1 DEF StreamInv, ClientBytes, ForBackend
<1>5. BackendBytes'
  BY <1>1 DEF StreamInv, BackendBytes
<1>6. Finished'
  BY <1>1, <1>2 DEF StreamInv, Finished
<1> QED BY <1>3, <1>4, <1>5, <1>6 DEF StreamInv

LEMMA StepInv == StreamInv /\ [Next]_vars => StreamInv'
<1> SUFFICES ASSUME StreamInv, [Next]_vars PROVE StreamInv'
  OBVIOUS
<1>1. CASE Peers \/ EarlyEof \/ Done \/ Fail
  BY <1>1, PeersInv
<1>2. ASSUME NEW n \in Sizes, ReadMore(n) PROVE StreamInv'
  BY <1>2, ReadMoreInv
<1>3. CASE HeaderDone \/ HelloDone \/ Dialed
  BY <1>3, BeforeCopyInv
<1>4. ASSUME NEW n \in Sizes, WriteBackend(n) \/ WriteClient(n) PROVE StreamInv'
  BY <1>4, WriteInv
<1>5. ASSUME NEW n \in Sizes, ReadBackend(n) \/ ReadClient(n) PROVE StreamInv'
  BY <1>5, ReadInv
<1>6. CASE BackendEof \/ ClientEof
  BY <1>6, EofInv
<1>7. CASE UNCHANGED vars
  BY <1>7 DEF vars, client, backend, reads, writes, opens, sinks, fins, StreamInv,
              TypeInv, ClientBytes, ForBackend, BackendBytes, Finished
<1> QED BY <1>1, <1>2, <1>3, <1>4, <1>5, <1>6, <1>7 DEF Next, Task

-------------------------------------------------------------------------------
(* The refinement of ByteStream *)

\* What each direction does in a step.
LEMMA ToBackendStep ==
  ASSUME StreamInv, [Next]_vars
  PROVE  [ToBackend!Next]_(ToBackend!vars)
<1> USE DEF client, backend, reads, writes, opens, sinks, fins, stats
<1> DEFINE Same == UNCHANGED <<client_sent, client_eof, backend_got, backend_fin>>
<1>1. ASSUME NEW n \in Sizes, ClientSend(n) PROVE ToBackend!Send
  <2>1. client_sent \in Nat /\ n \in Nat \ {0}
    BY DataLengths DEF StreamInv, TypeInv
  <2> QED BY <1>1, <2>1, DataLengths DEF ClientSend, ToBackend!Send
<1>2. ASSUME ClientClose PROVE ToBackend!Close
  BY <1>2 DEF ClientClose, ToBackend!Close
<1>3. ASSUME NEW n \in Sizes, WriteBackend(n) PROVE ToBackend!Deliver
  <2>1. /\ pc = "copy" /\ n \in 1 .. Len(backend_to_write)
        /\ backend_got' = backend_got \o SubSeq(backend_to_write, 1, n)
        /\ UNCHANGED <<client_sent, client_eof, backend_fin>>
    BY <1>3, DataLengths, TokensAre DEF WriteBackend, StreamInv, TypeInv
  <2>2. /\ backend_got \in Seq(Token) /\ backend_to_write \in Seq(Token)
        /\ ClientData \in Seq(Token) /\ Prologue \in Seq(Token)
        /\ HeaderLen \in Nat /\ client_read \in Nat /\ client_sent \in Nat
        /\ HeaderLen <= client_read /\ client_read <= client_sent
        /\ client_sent <= Len(ClientData)
        /\ backend_got \o backend_to_write
             = Prologue \o SubSeq(ClientData, HeaderLen + 1, client_read)
    <3>1. backend_got \in Seq(Token) /\ backend_to_write \in Seq(Token)
      BY DEF StreamInv, TypeInv
    <3>2. /\ client_read \in Nat /\ client_sent \in Nat
          /\ client_read <= client_sent /\ client_sent <= Len(ClientData)
      BY DataLengths DEF StreamInv, TypeInv
    <3>3. /\ HeaderLen <= client_read
          /\ backend_got \o backend_to_write = ForBackend
      BY <2>1 DEF StreamInv, ClientBytes
    <3> QED BY <3>1, <3>2, <3>3, CopyAssumption, DataLengths DEF ForBackend
  <2>3. Arrives(ToBackend!Expected, backend_got, backend_got')
    <3>1. Arrives(Prologue \o SubSeq(ClientData, HeaderLen + 1, client_sent),
                  backend_got, backend_got \o SubSeq(backend_to_write, 1, n))
      BY <2>1, <2>2, Delivers
    <3> QED BY <2>1, <3>1 DEF ToBackend!Expected
  <2>4. backend_to_write # <<>>
    BY <2>1, NoTokens
  <2>5. ~backend_fin
    BY <2>4 DEF StreamInv, TypeInv, Finished
  <2> QED BY <2>1, <2>3, <2>5 DEF ToBackend!Deliver, Arrives
<1>4. ASSUME ClientEof PROVE ToBackend!Finish
  <2>1. /\ pc = "copy" /\ backend_to_write = <<>> /\ client_eof
        /\ client_read = client_sent /\ backend_fin' = TRUE
        /\ UNCHANGED <<client_sent, client_eof, backend_got>>
    BY <1>4 DEF ClientEof, MayRead
  <2>2. backend_got \o <<>> = backend_got
    BY JoinedEmpty DEF StreamInv, TypeInv
  <2>3. backend_got = ToBackend!Expected
    BY <2>1, <2>2 DEF StreamInv, ClientBytes, ForBackend, ToBackend!Expected
  <2> QED BY <2>1, <2>3 DEF ToBackend!Finish
<1>5. ASSUME NEW n \in Sizes,
             \/ BackendSend(n) \/ ReadMore(n) \/ WriteClient(n)
             \/ ReadBackend(n) \/ ReadClient(n)
      PROVE  Same
  BY <1>5 DEF BackendSend, ReadMore, WriteClient, ReadBackend, ReadClient
<1>6. CASE \/ BackendClose \/ PeerReads \/ EarlyEof \/ HeaderDone \/ HelloDone
           \/ Dialed \/ BackendEof \/ Done \/ Fail \/ UNCHANGED vars
  <2>1. Same
    BY <1>6 DEF BackendClose, PeerReads, EarlyEof, HeaderDone, HelloDone, Dialed,
                BackendEof, Done, Fail, vars
  <2> QED BY <2>1 DEF ToBackend!vars
<1> QED BY <1>1, <1>2, <1>3, <1>4, <1>5, <1>6
        DEF Next, Peers, Task, ToBackend!Next, ToBackend!vars

LEMMA ToClientStep ==
  ASSUME StreamInv, [Next]_vars
  PROVE  [ToClient!Next]_(ToClient!vars)
<1> USE DEF client, backend, reads, writes, opens, sinks, fins, stats
<1> DEFINE Same == UNCHANGED <<backend_sent, backend_eof, client_got, client_fin>>
<1>1. ASSUME NEW n \in Sizes, BackendSend(n) PROVE ToClient!Send
  <2>1. backend_sent \in Nat /\ n \in Nat \ {0}
    BY DataLengths DEF StreamInv, TypeInv
  <2> QED BY <1>1, <2>1, DataLengths DEF BackendSend, ToClient!Send
<1>2. ASSUME BackendClose PROVE ToClient!Close
  BY <1>2 DEF BackendClose, ToClient!Close
<1>3. /\ client_got \in Seq(Token) /\ client_to_write \in Seq(Token)
      /\ BackendData \in Seq(Token) /\ <<>> \in Seq(Token)
      /\ backend_read \in Nat /\ backend_sent \in Nat
      /\ backend_read <= backend_sent /\ backend_sent <= Len(BackendData)
  BY DataLengths, NoTokens DEF StreamInv, TypeInv
<1>4. client_got \o client_to_write
        = <<>> \o SubSeq(BackendData, 0 + 1, backend_read)
  <2>1. SubSeq(BackendData, 0 + 1, backend_read) \in Seq(Token)
    BY <1>3, Follows
  <2>2. <<>> \o SubSeq(BackendData, 0 + 1, backend_read)
          = SubSeq(BackendData, 0 + 1, backend_read)
    BY <2>1, JoinedEmpty
  <2> QED BY <2>2, 0 + 1 = 1 DEF StreamInv, BackendBytes
<1>5. ASSUME NEW n \in Sizes, WriteClient(n) PROVE ToClient!Deliver
  <2>1. /\ n \in 1 .. Len(client_to_write)
        /\ client_got' = client_got \o SubSeq(client_to_write, 1, n)
        /\ UNCHANGED <<backend_sent, backend_eof, client_fin>>
    BY <1>3, <1>5, DataLengths, TokensAre DEF WriteClient
  <2>2. Arrives(ToClient!Expected, client_got, client_got')
    <3> DEFINE none == <<>>
               first == 0
    <3>1. /\ none \in Seq(Token) /\ first \in Nat /\ first <= backend_read
          /\ client_got \o client_to_write
               = none \o SubSeq(BackendData, first + 1, backend_read)
      BY <1>3, <1>4
    <3> HIDE DEF none, first
    <3>2. Arrives(none \o SubSeq(BackendData, first + 1, backend_sent),
                  client_got, client_got \o SubSeq(client_to_write, 1, n))
      BY <1>3, <2>1, <3>1, Delivers
    <3> QED BY <2>1, <3>2 DEF ToClient!Expected, none, first
  <2>3. client_to_write # <<>>
    BY <2>1, NoTokens
  <2>4. ~client_fin
    BY <2>3 DEF StreamInv, TypeInv, Finished
  <2> QED BY <2>1, <2>2, <2>4 DEF ToClient!Deliver, Arrives
<1>6. ASSUME BackendEof PROVE ToClient!Finish
  <2>1. /\ client_to_write = <<>> /\ backend_eof /\ backend_read = backend_sent
        /\ client_fin' = TRUE /\ UNCHANGED <<backend_sent, backend_eof, client_got>>
    BY <1>6 DEF BackendEof, MayRead
  <2>2. client_got \o <<>> = client_got
    BY <1>3, JoinedEmpty
  <2>3. client_got = ToClient!Expected
    BY <1>4, <2>1, <2>2 DEF ToClient!Expected
  <2> QED BY <2>1, <2>3 DEF ToClient!Finish
<1>7. ASSUME NEW n \in Sizes,
             \/ ClientSend(n) \/ ReadMore(n) \/ WriteBackend(n)
             \/ ReadBackend(n) \/ ReadClient(n)
      PROVE  Same
  BY <1>7 DEF ClientSend, ReadMore, WriteBackend, ReadBackend, ReadClient
<1>8. CASE \/ ClientClose \/ PeerReads \/ EarlyEof \/ HeaderDone \/ HelloDone
           \/ Dialed \/ ClientEof \/ Done \/ Fail \/ UNCHANGED vars
  <2>1. Same
    BY <1>8 DEF ClientClose, PeerReads, EarlyEof, HeaderDone, HelloDone, Dialed,
                ClientEof, Done, Fail, vars
  <2> QED BY <2>1 DEF ToClient!vars
<1> QED BY <1>1, <1>2, <1>5, <1>6, <1>7, <1>8
        DEF Next, Peers, Task, ToClient!Next, ToClient!vars

\* Both directions are byte streams, whatever is sent and however it is cut: the
\* bytes read along with the header and the hello reach the backend before
\* those of the copy loop, and a half is shut down only when all that was sent
\* before has been written.
THEOREM CopiesAreStreams == Spec => BothAreStreams
<1>1. Init => ToBackend!Init /\ ToClient!Init
  BY DEF Init, ToBackend!Init, ToClient!Init
<1>2. StreamInv /\ [Next]_vars => /\ [ToBackend!Next]_(ToBackend!vars)
                                 /\ [ToClient!Next]_(ToClient!vars)
  BY ToBackendStep, ToClientStep
<1> QED BY <1>1, <1>2, InitInv, StepInv, PTL
        DEF Spec, BothAreStreams, ToBackend!Spec, ToClient!Spec

-------------------------------------------------------------------------------
(* The body of a response *)

\* What a body is made of.
Elem == Int \cup {Boundary}

Part == Seq(Elem)

\* Induction on the numbers up to n, for a set.
LEMMA UpTo ==
  ASSUME NEW n \in Nat, NEW S, 0 \in S,
         \A m \in 0..n : m \in S /\ m < n => m + 1 \in S
  PROVE  n \in S
PROOF
  <1> DEFINE Left == {m \in 0..n : m \notin S}
  <1> SUFFICES ASSUME Left # {} PROVE FALSE
    OBVIOUS
  <1>1. PICK m \in Left : ~ \E k \in Left : <<k, m>> \in OpToRel(<, Nat)
    <2>1. IsWellFoundedOn(OpToRel(<, Nat), Nat)
      BY NatLessThanWellFounded
    <2>2. Left \subseteq Nat
      OBVIOUS
    <2> HIDE DEF Left
    <2> QED BY <2>1, <2>2, WFMin, Zenon
  <1>2. m # 0 /\ m - 1 \in 0..n /\ m - 1 < n /\ m = (m - 1) + 1
    OBVIOUS
  <1>3. <<m - 1, m>> \in OpToRel(<, Nat)
    BY <1>2 DEF OpToRel
  <1>4. m - 1 \in S
    BY <1>1, <1>2, <1>3
  <1> QED BY <1>2, <1>4

\* A recursive definition that appends from the end has a solution.
LEMMA ConcatFrom ==
  ASSUME NEW n \in Nat, NEW pre \in [1..n -> Seq(Elem)], NEW last \in Seq(Elem)
  PROVE  \E f \in [1 .. n + 1 -> Seq(Elem)] :
           f[n + 1] = last /\ \A i \in 1..n : f[i] = pre[i] \o f[i + 1]
PROOF
  <1> DEFINE Solves(f, k) ==
               f[n + 1] = last /\ \A i \in k..n : f[i] = pre[i] \o f[i + 1]
             Solved == {m \in 0..n : \E f \in [1 .. n + 1 -> Seq(Elem)] : Solves(f, n + 1 - m)}
  <1>1. 0 \in Solved
    <2> DEFINE f0 == [i \in 1 .. n + 1 |-> last]
    <2>1. f0 \in [1 .. n + 1 -> Seq(Elem)] /\ f0[n + 1] = last
      OBVIOUS
    <2>2. (n + 1 - 0)..n = {}
      OBVIOUS
    <2>3. Solves(f0, n + 1 - 0)
      BY <2>1, <2>2
    <2> HIDE DEF f0, Solves
    <2> QED BY <2>1, <2>3
  <1>2. \A m \in 0..n : m \in Solved /\ m < n => m + 1 \in Solved
    <2> SUFFICES ASSUME NEW m \in 0..n, m \in Solved, m < n
                 PROVE  m + 1 \in Solved
      OBVIOUS
    <2>1. PICK f \in [1 .. n + 1 -> Seq(Elem)] : Solves(f, n + 1 - m)
      OBVIOUS
    <2> DEFINE k == n - m
               g == [f EXCEPT ![k] = pre[k] \o f[k + 1]]
    <2>2. k \in 1..n /\ n + 1 - (m + 1) = k /\ n + 1 - m = k + 1
      OBVIOUS
    <2>3. pre[k] \o f[k + 1] \in Seq(Elem)
      <3> HIDE DEF k
      <3>1. pre[k] \in Seq(Elem) /\ f[k + 1] \in Seq(Elem)
        BY <2>2
      <3> QED BY <3>1
    <2>4. g \in [1 .. n + 1 -> Seq(Elem)]
      BY <2>2, <2>3
    <2>5. Solves(g, k)
      <3>1. g[n + 1] = last
        <4>1. n + 1 # k /\ n + 1 \in 1 .. n + 1
          BY <2>2
        <4> HIDE DEF k
        <4> QED BY <2>1, <4>1
      <3>2. ASSUME NEW i \in k..n PROVE g[i] = pre[i] \o g[i + 1]
        <4>1. CASE i = k
          <5>1. k + 1 # k /\ k + 1 \in 1 .. n + 1 /\ k \in 1 .. n + 1
            BY <2>2
          <5> HIDE DEF k
          <5>2. g[k] = pre[k] \o f[k + 1] /\ g[k + 1] = f[k + 1]
            BY <5>1
          <5> QED BY <4>1, <5>2
        <4>2. CASE i # k
          <5>1. i \in (n + 1 - m)..n /\ i # k /\ i + 1 # k /\ i \in 1 .. n + 1 /\ i + 1 \in 1 .. n + 1
            BY <2>2, <4>2
          <5>2. f[i] = pre[i] \o f[i + 1]
            BY <2>1, <5>1
          <5>3. g[i] = f[i] /\ g[i + 1] = f[i + 1]
            BY <5>1
          <5> QED BY <5>2, <5>3
        <4> QED BY <4>1, <4>2
      <3> QED BY <3>1, <3>2
    <2> HIDE DEF g, Solves
    <2> QED BY <2>2, <2>4, <2>5
  <1> HIDE DEF Solved
  <1>3. n \in Solved
    BY <1>1, <1>2, UpTo
  <1>4. \E f \in [1 .. n + 1 -> Seq(Elem)] : Solves(f, n + 1 - n)
    BY <1>3 DEF Solved
  <1>5. n + 1 - n = 1
    OBVIOUS
  <1> QED BY <1>4, <1>5

-------------------------------------------------------------------------------
(* The invariant *)

N(req) == Len(Spans(req))

\* The spans lie in the torrent. Of a whole file this is so; of the end of a range
\* get_ranges does not ask it.
InTorrent ==
  \A i \in 1..N(request) :
    LET sp == Spans(request)[i] IN request.offset + sp.start + sp.length <= TotalLength

TaskType ==
  [pc : {"none", "boundary", "fetch", "blocks", "closing", "done", "returned"},
   span : Nat, piece : Nat, skip : Nat, to_send : Nat]

BodyType ==
  /\ request \in Requests
  /\ task \in TaskType
  /\ piece_data \in Seq(Int)
  /\ tmp_data \in [1..BlockSize -> Int]
  /\ chan \in Seq(Part)
  /\ Len(chan) <= 2
  /\ body \in Seq(Elem)
  /\ response = "none" => task.pc = "none"
  /\ response = "ended" => chan = <<>> /\ task.pc \in {"done", "returned"}

\* Where task t is in the torrent, and what it has still to send of its span.
Pos(t) == t.piece * PieceSize + t.skip

Remaining(t) == [i \in 1..t.to_send |-> Pos(t) + i - 1]

\* The place and what is left are those of the span.
SpanOk(req, t) ==
  /\ t.pc # "none" => RangeError(req) = "none"
  /\ t.pc \in {"boundary", "fetch", "blocks"} =>
       LET sp == Spans(req)[t.span]
       IN  /\ t.span \in 1..N(req)
           /\ t.skip < PieceSize
           /\ Pos(t) + t.to_send = req.offset + sp.start + sp.length
           /\ t.pc = "boundary" => Multipart(req) /\ t.to_send = sp.length
           /\ t.pc = "blocks" => t.to_send # 0
  /\ t.pc = "closing" => Multipart(req)

\* What a task that goes on will send.
Owes(req, t, rest) ==
  /\ t.pc = "none" => rest = ExpectedFrom(req)[1]
  /\ t.pc = "boundary" => rest = ExpectedFrom(req)[t.span]
  /\ t.pc \in {"fetch", "blocks"} => rest = Remaining(t) \o ExpectedFrom(req)[t.span + 1]
  /\ t.pc = "closing" => rest = <<Boundary>>
  /\ t.pc = "done" => rest = <<>>

\* The blocks of a piece are at their places, as far as the torrent goes.
BlocksOk ==
  task.pc = "blocks" =>
    /\ \E k \in 0..BlocksPerPiece : Len(piece_data) = k * BlockSize
    /\ \A j \in 1..Len(piece_data) :
         task.piece * PieceSize + j - 1 < TotalLength =>
           piece_data[j] = task.piece * PieceSize + j - 1

\* What is in the channel.
Pending(c) == IF c = <<>> THEN <<>> ELSE IF Len(c) = 1 THEN c[1] ELSE c[1] \o c[2]

\* What has arrived, what is on its way and what is owed are what was asked for.
Conserved ==
  \E rest \in Seq(Elem) : (body \o Pending(chan)) \o rest = Expected /\ Owes(request, task, rest)

BodyInv == InTorrent => BodyType /\ SpanOk(request, task) /\ BlocksOk /\ Conserved

-------------------------------------------------------------------------------
(* Requests and what is expected *)

LEMMA BodySizes ==
  /\ PieceSize \in Nat \ {0}
  /\ BlockSize \in Nat \ {0}
  /\ BlocksPerPiece \in Nat \ {0}
  /\ TotalLength \in Nat
PROOF BY BodyAssumption DEF PieceSize

LEMMA SpansAre ==
  ASSUME NEW req \in Requests
  PROVE  /\ N(req) \in Nat \ {0}
         /\ Spans(req) \in [1..N(req) -> [start : Nat, length : Int]]
         /\ RangeError(req) = "none" => \A i \in 1..N(req) : Spans(req)[i].length \in Nat
PROOF
  <1> DEFINE r == req
             n == Len(r.ranges)
  <1>1. r.length \in Nat /\ r.ranges \in Seq(Nat \X Int)
    BY BodyAssumption
  <1>2. CASE r.ranges = <<>>
    <2>1. Spans(req) = <<Span(0, r.length)>>
      BY <1>2 DEF Spans
    <2>2. N(req) = 1
      BY <2>1 DEF N
    <2> QED BY <1>1, <2>1, <2>2 DEF Span
  <1>3. CASE r.ranges # <<>>
    <2>1. n \in Nat \ {0} /\ DOMAIN r.ranges = 1..n /\ \A i \in 1..n : r.ranges[i] \in Nat \X Int
      BY <1>1, <1>3
    <2> DEFINE E(i) == Span(r.ranges[i][1], RangeEnd(r.ranges[i], r.length) - r.ranges[i][1] + 1)
    <2>2. Spans(req) = [i \in 1..n |-> E(i)]
      BY <1>3, <2>1 DEF Spans, GetRanges
    <2>3. ASSUME NEW i \in 1..n
          PROVE  /\ E(i) \in [start : Nat, length : Int]
                 /\ ~OutOfRange(r.ranges[i], r.length) => E(i).length \in Nat
      <3>1. r.ranges[i][1] \in Nat /\ r.ranges[i][2] \in Int
        BY <2>1
      <3> DEFINE a == r.ranges[i][1]
                 e == RangeEnd(r.ranges[i], r.length)
      <3>2. e \in Int
        BY <1>1, <3>1 DEF RangeEnd
      <3>3. ~OutOfRange(r.ranges[i], r.length) => e > a
        BY <1>1, <3>1, <3>2 DEF OutOfRange
      <3> HIDE DEF e
      <3>4. E(i) = [start |-> a, length |-> e - a + 1]
        BY DEF e, Span
      <3> HIDE DEF E, r, a
      <3>5. a \in Nat
        BY <3>1 DEF a
      <3> QED BY <3>2, <3>3, <3>4, <3>5
    <2>4. RangeError(req) = "none" => \A i \in 1..n : ~OutOfRange(r.ranges[i], r.length)
      BY <2>1 DEF RangeError
    <2> HIDE DEF E, n, r
    <2>5. N(req) = n
      BY <2>1, <2>2 DEF N
    <2> QED BY <2>1, <2>2, <2>3, <2>4, <2>5
  <1> QED BY <1>2, <1>3

LEMMA BytesAre ==
  ASSUME NEW sp \in [start : Nat, length : Int], NEW req \in Requests
  PROVE  Bytes(req, sp) \in Seq(Elem)
PROOF
  <1>1. req.offset \in Nat
    BY BodyAssumption
  <1>2. CASE sp.length \in Nat
    BY <1>1, <1>2 DEF Bytes, Elem
  <1>3. CASE sp.length \notin Nat
    <2>1. 1..sp.length = 1..0
      BY <1>3
    <2> QED BY <1>1, <2>1 DEF Bytes, Elem
  <1> QED BY <1>2, <1>3

\* The recursion of ExpectedFrom defines it.
LEMMA ExpectedIs ==
  ASSUME NEW req \in Requests
  PROVE  LET boundary == IF Multipart(req) THEN <<Boundary>> ELSE <<>>
         IN  /\ \A i \in 1 .. N(req) + 1 : ExpectedFrom(req)[i] \in Seq(Elem)
             /\ ExpectedFrom(req)[N(req) + 1] = boundary
             /\ \A i \in 1..N(req) :
                  ExpectedFrom(req)[i] = boundary \o Bytes(req, Spans(req)[i]) \o ExpectedFrom(req)[i + 1]
PROOF
  <1> DEFINE boundary == IF Multipart(req) THEN <<Boundary>> ELSE <<>>
             pre == [i \in 1..N(req) |-> boundary \o Bytes(req, Spans(req)[i])]
             Body(f) == [i \in 1 .. N(req) + 1 |->
                           IF i > N(req) THEN boundary
                           ELSE boundary \o Bytes(req, Spans(req)[i]) \o f[i + 1]]
  <1>1. N(req) \in Nat /\ boundary \in Seq(Elem)
    <2>1. <<Boundary>> \in Seq(Elem) /\ <<>> \in Seq(Elem)
      BY DEF Elem
    <2> QED BY <2>1, SpansAre
  <1>2. pre \in [1..N(req) -> Seq(Elem)]
    <2> SUFFICES ASSUME NEW i \in 1..N(req)
                 PROVE  boundary \o Bytes(req, Spans(req)[i]) \in Seq(Elem)
      OBVIOUS
    <2>1. Bytes(req, Spans(req)[i]) \in Seq(Elem)
      BY SpansAre, BytesAre
    <2> HIDE DEF boundary
    <2> QED BY <1>1, <2>1
  <1> HIDE DEF boundary
  <1>3. PICK f \in [1 .. N(req) + 1 -> Seq(Elem)] :
          f[N(req) + 1] = boundary /\ \A i \in 1..N(req) : f[i] = pre[i] \o f[i + 1]
    <2> HIDE DEF pre
    <2> QED BY <1>1, <1>2, ConcatFrom
  <1>4. f = Body(f)
    <2> SUFFICES ASSUME NEW i \in 1 .. N(req) + 1 PROVE f[i] = Body(f)[i]
      BY <1>3
    <2>1. CASE i > N(req)
      BY <1>1, <1>3, <2>1
    <2>2. CASE ~(i > N(req))
      <3>1. i \in 1..N(req)
        BY <1>1, <2>2
      <3> QED BY <1>3, <2>2, <3>1
    <2> QED BY <2>1, <2>2
  <1>5. ExpectedFrom(req) = CHOOSE g : g = Body(g)
    BY DEF ExpectedFrom, boundary, N
  <1> HIDE DEF Body
  <1>6. ExpectedFrom(req) = Body(ExpectedFrom(req))
    BY <1>4, <1>5
  <1> DEFINE g == ExpectedFrom(req)
  <1> HIDE DEF g
  <1>7. g = Body(g)
    BY <1>6 DEF g
  <1> USE DEF Body
  <1>8. \A m \in 0..N(req) : g[N(req) + 1 - m] \in Seq(Elem)
    <2> DEFINE Good == {m \in 0..N(req) : g[N(req) + 1 - m] \in Seq(Elem)}
    <2>1. 0 \in Good
      BY <1>1, <1>7
    <2>2. ASSUME NEW m \in 0..N(req), m \in Good, m < N(req) PROVE m + 1 \in Good
      <3> DEFINE i == N(req) - m
      <3>1. i \in 1..N(req) /\ i \in 1 .. N(req) + 1 /\ ~(i > N(req)) /\ N(req) + 1 - (m + 1) = i /\ N(req) + 1 - m = i + 1
            /\ m + 1 \in 0..N(req)
        BY <1>1, <2>2
      <3> HIDE DEF i
      <3>2. g[i] = pre[i] \o g[i + 1]
        BY <1>7, <3>1
      <3>3. pre[i] \in Seq(Elem) /\ g[i + 1] \in Seq(Elem)
        BY <1>2, <2>2, <3>1
      <3> HIDE DEF pre
      <3>4. g[i] \in Seq(Elem)
        BY <3>2, <3>3
      <3> QED BY <3>1, <3>4
    <2> QED
      <3> SUFFICES ASSUME NEW m \in 0..N(req) PROVE m \in Good
        OBVIOUS
      <3> HIDE DEF Good
      <3> QED BY <1>1, <2>1, <2>2, UpTo
  <1>9. \A i \in 1 .. N(req) + 1 : g[i] \in Seq(Elem)
    <2> SUFFICES ASSUME NEW i \in 1 .. N(req) + 1 PROVE g[i] \in Seq(Elem)
      OBVIOUS
    <2>1. N(req) + 1 - i \in 0..N(req) /\ N(req) + 1 - (N(req) + 1 - i) = i
      BY <1>1
    <2> QED BY <1>8, <2>1
  <1>10. g[N(req) + 1] = boundary
    <2>1. N(req) + 1 \in 1 .. N(req) + 1 /\ N(req) + 1 > N(req)
      BY <1>1
    <2> QED BY <1>7, <2>1
  <1>11. ASSUME NEW i \in 1..N(req)
         PROVE  g[i] = boundary \o Bytes(req, Spans(req)[i]) \o g[i + 1]
    <2>1. i \in 1 .. N(req) + 1 /\ ~(i > N(req))
      BY <1>1
    <2> QED BY <1>7, <2>1
  <1> QED BY <1>9, <1>10, <1>11 DEF g, boundary

-------------------------------------------------------------------------------
(* Sequences *)

LEMMA Assoc ==
  ASSUME NEW a \in Seq(Elem), NEW b \in Seq(Elem), NEW c \in Seq(Elem)
  PROVE  (a \o b) \o c = a \o (b \o c)
PROOF OBVIOUS

LEMMA ConcatIn ==
  ASSUME NEW a \in Seq(Elem), NEW b \in Seq(Elem)
  PROVE  a \o b \in Seq(Elem)
PROOF OBVIOUS

LEMMA EmptyConcat ==
  ASSUME NEW a \in Seq(Elem)
  PROVE  a \o <<>> = a /\ <<>> \o a = a
PROOF OBVIOUS

LEMMA ChanLen ==
  ASSUME NEW c \in Seq(Part)
  PROVE  Len(c) \in Nat /\ (c = <<>> <=> Len(c) = 0) /\ \A i \in 1..Len(c) : c[i] \in Seq(Elem)
PROOF BY DEF Part

LEMMA ChanCases ==
  ASSUME NEW c \in Seq(Part), Len(c) <= 2
  PROVE  c = <<>> \/ Len(c) = 1 \/ Len(c) = 2
PROOF
  <1> DEFINE n == Len(c)
  <1>1. n \in Nat /\ n <= 2 /\ (c = <<>> <=> n = 0)
    BY ChanLen
  <1> HIDE DEF n
  <1>2. n = 0 \/ n = 1 \/ n = 2
    BY <1>1
  <1> QED BY <1>1, <1>2 DEF n

LEMMA PendingIs ==
  ASSUME NEW c \in Seq(Part), Len(c) <= 2
  PROVE  Pending(c) \in Seq(Elem)
PROOF
  <1>1. CASE c = <<>>
    BY <1>1 DEF Pending
  <1>2. CASE Len(c) = 1
    <2>1. c # <<>> /\ c[1] \in Seq(Elem)
      BY <1>2, ChanLen
    <2> QED BY <1>2, <2>1 DEF Pending
  <1>3. CASE Len(c) = 2
    <2>1. c # <<>> /\ c[1] \in Seq(Elem) /\ c[2] \in Seq(Elem)
      BY <1>3, ChanLen
    <2>2. Pending(c) = c[1] \o c[2]
      BY <1>3, <2>1 DEF Pending
    <2> QED BY <2>1, <2>2, ConcatIn
  <1>4. c = <<>> \/ Len(c) = 1 \/ Len(c) = 2
    BY ChanCases
  <1> QED BY <1>1, <1>2, <1>3, <1>4

\* What is put into the channel comes after what is in it.
LEMMA PendingAppend ==
  ASSUME NEW c \in Seq(Part), Len(c) < 2, NEW part \in Seq(Elem)
  PROVE  /\ Append(c, part) \in Seq(Part) /\ Len(Append(c, part)) <= 2
         /\ Pending(Append(c, part)) = Pending(c) \o part
PROOF
  <1> DEFINE d == Append(c, part)
  <1>1. d \in Seq(Part) /\ Len(d) = Len(c) + 1 /\ d[Len(c) + 1] = part
        /\ \A i \in 1..Len(c) : d[i] = c[i]
    <2>1. part \in Part
      BY DEF Part
    <2> QED BY <2>1
  <1> HIDE DEF d
  <1>2. CASE c = <<>>
    <2>0. Len(c) = 0
      BY <1>2
    <2>1. d # <<>> /\ Len(d) = 1 /\ d[1] = part
      <3>1. Len(d) = 1 /\ d[1] = part
        BY <1>1, <2>0
      <3>2. d = <<>> <=> Len(d) = 0
        BY <1>1, ChanLen
      <3> QED BY <3>1, <3>2
    <2>2. Pending(d) = part /\ Pending(c) = <<>>
      BY <1>2, <2>1 DEF Pending
    <2> QED BY <1>1, <1>2, <2>1, <2>2, EmptyConcat DEF d
  <1>3. CASE Len(c) = 1
    <2>1. c # <<>> /\ d # <<>> /\ Len(d) = 2 /\ d[1] = c[1] /\ d[2] = part
      <3>1. Len(d) = 2 /\ d[2] = part /\ d[1] = c[1]
        BY <1>1, <1>3
      <3>2. (d = <<>> <=> Len(d) = 0) /\ (c = <<>> <=> Len(c) = 0)
        BY <1>1, ChanLen
      <3> QED BY <1>3, <3>1, <3>2
    <2>2. Pending(d) = c[1] \o part /\ Pending(c) = c[1]
      BY <1>3, <2>1 DEF Pending
    <2> QED BY <1>1, <1>3, <2>2 DEF d
  <1>4. c = <<>> \/ Len(c) = 1
    <2> DEFINE n == Len(c)
    <2>1. n \in Nat /\ n < 2
      BY ChanLen
    <2> HIDE DEF n
    <2>2. n <= 2 /\ n # 2
      BY <2>1
    <2> QED BY <2>2, ChanCases DEF n
  <1> QED BY <1>2, <1>3, <1>4

\* What is taken from it is its first part.
LEMMA PendingTail ==
  ASSUME NEW c \in Seq(Part), Len(c) <= 2, c # <<>>
  PROVE  /\ Tail(c) \in Seq(Part) /\ Len(Tail(c)) <= 2
         /\ Head(c) \in Seq(Elem)
         /\ Pending(c) = Head(c) \o Pending(Tail(c))
PROOF
  <1> DEFINE d == Tail(c)
  <1>1. d \in Seq(Part) /\ Len(d) = Len(c) - 1 /\ Head(c) = c[1] /\ c[1] \in Seq(Elem)
        /\ \A i \in 1..Len(d) : d[i] = c[i + 1]
    <2>1. Len(c) \in Nat \ {0}
      BY ChanLen
    <2>2. c[1] \in Seq(Elem)
      BY <2>1, ChanLen
    <2> QED BY <2>1, <2>2
  <1> HIDE DEF d
  <1>2. CASE Len(c) = 1
    <2>1. d = <<>>
      BY <1>1, <1>2, ChanLen
    <2>2. Pending(c) = c[1] /\ Pending(d) = <<>>
      BY <1>2, <2>1 DEF Pending
    <2>3. Tail(c) = d
      BY DEF d
    <2>4. c[1] \o <<>> = c[1]
      BY <1>1, EmptyConcat
    <2>5. Len(d) <= 2
      BY <1>1, <1>2
    <2> QED BY <1>1, <2>2, <2>3, <2>4, <2>5
  <1>3. CASE Len(c) = 2
    <2>1. d # <<>> /\ Len(d) = 1 /\ d[1] = c[2]
      BY <1>1, <1>3, ChanLen
    <2>2. Pending(c) = c[1] \o c[2] /\ Pending(d) = c[2]
      BY <1>3, <2>1 DEF Pending
    <2>3. Tail(c) = d
      BY DEF d
    <2>4. Len(d) <= 2
      BY <1>1, <1>3
    <2> QED BY <1>1, <2>2, <2>3, <2>4
  <1>4. Len(c) = 1 \/ Len(c) = 2
    BY ChanCases
  <1> QED BY <1>2, <1>3, <1>4

-------------------------------------------------------------------------------
(* The task between spans *)

LEMMA DivMod ==
  ASSUME NEW a \in Nat, NEW b \in Nat \ {0}
  PROVE  /\ a \div b \in Nat /\ a % b \in Nat /\ a % b < b
         /\ (a \div b) * b + (a % b) = a
PROOF OBVIOUS

LEMMA AtSpanOk ==
  ASSUME NEW req \in Requests, RangeError(req) = "none", NEW i \in 1..N(req),
         req = request, NEW t, t = AtSpan(i)
  PROVE  t \in TaskType /\ SpanOk(req, t) /\ Owes(req, t, ExpectedFrom(req)[i])
PROOF
  <1> DEFINE sp == Spans(req)[i]
             start == req.offset + sp.start
  <1>1. sp.start \in Nat /\ sp.length \in Nat /\ req.offset \in Nat /\ start \in Nat
    BY SpansAre, BodyAssumption
  <1>2. t = [pc |-> IF Multipart(req) THEN "boundary" ELSE "fetch", span |-> i,
             piece |-> start \div PieceSize, skip |-> start % PieceSize,
             to_send |-> sp.length]
    BY DEF AtSpan
  <1> HIDE DEF start
  <1>3. t.piece \in Nat /\ t.skip \in Nat /\ t.skip < PieceSize /\ Pos(t) = start
    <2>1. t.piece = start \div PieceSize /\ t.skip = start % PieceSize
      BY <1>2
    <2> DEFINE z == PieceSize
    <2>2. z \in Nat \ {0}
      BY BodySizes
    <2> HIDE DEF z
    <2>3. start \div z \in Nat /\ start % z \in Nat /\ start % z < z
          /\ (start \div z) * z + (start % z) = start
      BY <1>1, <2>2, DivMod
    <2> QED BY <2>1, <2>3 DEF Pos, z
  <1>4. t \in TaskType
    BY <1>1, <1>2, <1>3, SpansAre DEF TaskType
  <1>5. t.span = i /\ t.to_send = sp.length
        /\ t.pc = IF Multipart(req) THEN "boundary" ELSE "fetch"
    BY <1>2
  <1>6. Pos(t) + t.to_send = req.offset + sp.start + sp.length
    BY <1>1, <1>3, <1>5 DEF start
  <1>7. SpanOk(req, t)
    BY <1>3, <1>5, <1>6 DEF SpanOk
  <1>8. Owes(req, t, ExpectedFrom(req)[i])
    <2>1. CASE Multipart(req)
      BY <1>5, <2>1 DEF Owes
    <2>2. CASE ~Multipart(req)
      <3>1. Remaining(t) = Bytes(req, sp)
        BY <1>1, <1>3, <1>5 DEF Remaining, Bytes, start
      <3>2. ExpectedFrom(req)[i] = <<>> \o Bytes(req, sp) \o ExpectedFrom(req)[i + 1]
        BY <2>2, ExpectedIs
      <3>3. Bytes(req, sp) \in Seq(Elem)
        BY SpansAre, BytesAre
      <3>4. ExpectedFrom(req)[i] = Remaining(t) \o ExpectedFrom(req)[t.span + 1]
        BY <1>5, <3>1, <3>2, <3>3, EmptyConcat
      <3> QED BY <1>5, <2>2, <3>4 DEF Owes
    <2> QED BY <2>1, <2>2
  <1> QED BY <1>4, <1>7, <1>8

LEMMA AfterSpanOk ==
  ASSUME NEW req \in Requests, RangeError(req) = "none", NEW i \in 1..N(req),
         req = request, NEW t, t = AfterSpan(i)
  PROVE  t \in TaskType /\ SpanOk(req, t) /\ Owes(req, t, ExpectedFrom(req)[i + 1])
PROOF
  <1>1. N(req) \in Nat
    BY SpansAre
  <1>2. CASE i < N(req)
    <2>1. t = AtSpan(i + 1) /\ i + 1 \in 1..N(req)
      BY <1>1, <1>2 DEF AfterSpan, N
    <2> QED BY <2>1, AtSpanOk
  <1>3. CASE ~(i < N(req))
    <2>1. i + 1 = N(req) + 1
      BY <1>1, <1>3
    <2>2. ExpectedFrom(req)[i + 1] = IF Multipart(req) THEN <<Boundary>> ELSE <<>>
      BY <2>1, ExpectedIs
    <2>3. t = IF Multipart(req) THEN TaskAt("closing") ELSE TaskAt("done")
      BY <1>3 DEF AfterSpan, N
    <2>4. CASE Multipart(req)
      <3>1. t.pc = "closing" /\ t \in TaskType
        BY <2>3, <2>4 DEF TaskAt, TaskType
      <3> QED BY <2>2, <2>4, <3>1 DEF SpanOk, Owes
    <2>5. CASE ~Multipart(req)
      <3>1. t.pc = "done" /\ t \in TaskType
        BY <2>3, <2>5 DEF TaskAt, TaskType
      <3> QED BY <2>2, <2>5, <3>1 DEF SpanOk, Owes
    <2> QED BY <2>4, <2>5
  <1> QED BY <1>2, <1>3

-------------------------------------------------------------------------------
(* The steps *)

\* What a step sends moves from what is owed to the channel.
LEMMA Sends ==
  ASSUME chan \in Seq(Part), Len(chan) < 2, body \in Seq(Elem),
         NEW part \in Seq(Elem), NEW rest \in Seq(Elem),
         (body \o Pending(chan)) \o (part \o rest) = Expected,
         chan' = Append(chan, part)
  PROVE  /\ chan' \in Seq(Part) /\ Len(chan') <= 2
         /\ (body \o Pending(chan')) \o rest = Expected
PROOF
  <1>1. chan' \in Seq(Part) /\ Len(chan') <= 2 /\ Pending(chan') = Pending(chan) \o part
    BY PendingAppend
  <1>2. Pending(chan) \in Seq(Elem)
    <2>1. Len(chan) <= 2
      BY ChanLen
    <2> QED BY <2>1, PendingIs
  <1> DEFINE p == Pending(chan)
  <1> HIDE DEF p
  <1>3. p \in Seq(Elem) /\ Pending(chan') = p \o part
    BY <1>1, <1>2 DEF p
  <1>4. (body \o p) \o part = body \o (p \o part) /\ body \o p \in Seq(Elem)
    <2>1. (body \o p) \o part = body \o (p \o part)
      BY <1>3, Assoc, Zenon
    <2>2. body \o p \in Seq(Elem)
      BY <1>3, ConcatIn, Zenon
    <2> QED BY <2>1, <2>2
  <1>5. ((body \o p) \o part) \o rest = (body \o p) \o (part \o rest)
    BY <1>4, Assoc, Zenon
  <1>6. (body \o p) \o (part \o rest) = Expected
    BY DEF p
  <1> QED BY <1>1, <1>3, <1>4, <1>5, <1>6, Zenon

LEMMA BodyInitInv ==
  BodyInit => BodyInv
PROOF
  <1> SUFFICES ASSUME BodyInit PROVE BodyInv
    OBVIOUS
  <1>1. BodyType
    <2>1. FreshBuffer \in [1..BlockSize -> Int]
      BY DEF FreshBuffer, Stale
    <2>2. NoTask \in TaskType /\ NoTask.pc = "none"
      BY DEF NoTask, TaskAt, TaskType
    <2> QED BY <2>1, <2>2 DEF BodyInit, BodyType
  <1>2. task.pc = "none"
    BY DEF BodyInit, NoTask, TaskAt
  <1>3. SpanOk(request, task) /\ BlocksOk
    BY <1>2 DEF SpanOk, BlocksOk
  <1>4. Conserved
    <2>1. Expected \in Seq(Elem)
      <3>1. N(request) \in Nat \ {0} /\ \A i \in 1 .. N(request) + 1 : ExpectedFrom(request)[i] \in Seq(Elem)
        BY SpansAre, ExpectedIs DEF BodyInit
      <3> QED BY <3>1 DEF Expected
    <2>2. Pending(chan) = <<>> /\ body = <<>>
      BY DEF BodyInit, Pending
    <2>3. (body \o Pending(chan)) \o Expected = Expected
      BY <2>1, <2>2, EmptyConcat
    <2> QED BY <1>2, <2>1, <2>3 DEF Conserved, Owes, Expected
  <1> QED BY <1>1, <1>3, <1>4 DEF BodyInv

\* The first part is delivered.
LEMMA DeliversPart ==
  ASSUME chan \in Seq(Part), Len(chan) <= 2, chan # <<>>, body \in Seq(Elem)
  PROVE  (body \o Head(chan)) \o Pending(Tail(chan)) = body \o Pending(chan)
PROOF
  <1>1. /\ Tail(chan) \in Seq(Part) /\ Len(Tail(chan)) <= 2
        /\ Head(chan) \in Seq(Elem)
        /\ Pending(chan) = Head(chan) \o Pending(Tail(chan))
    BY PendingTail
  <1>2. Pending(Tail(chan)) \in Seq(Elem)
    BY <1>1, PendingIs
  <1>3. (body \o Head(chan)) \o Pending(Tail(chan)) = body \o (Head(chan) \o Pending(Tail(chan)))
    BY <1>1, <1>2, Assoc, Zenon
  <1> QED BY <1>1, <1>3, Zenon

\* One block is appended to the piece.
LEMMA ReadBlockOk ==
  ASSUME task \in TaskType, piece_data \in Seq(Int), tmp_data \in [1..BlockSize -> Int],
         BlocksOk, ReadBlock
  PROVE  BlocksOk' /\ piece_data' \in Seq(Int) /\ tmp_data' \in [1..BlockSize -> Int]
PROOF
  <1> DEFINE base == task.piece * PieceSize
             len == Len(piece_data)
  <1>1. /\ task' = task /\ task.pc = "blocks"
        /\ len < PieceSize
        /\ piece_data' = piece_data \o tmp_data'
        /\ tmp_data' = [i \in 1..BlockSize |->
                          IF i <= BlockLength THEN BlockStart + i - 1 ELSE tmp_data[i]]
    BY DEF ReadBlock
  <1>2. task.piece \in Nat /\ base \in Nat /\ len \in Nat /\ BlockStart = base + len
    <2>1. task.piece \in Nat /\ len \in Nat
      BY DEF TaskType
    <2> QED BY <2>1, BodySizes DEF BlockStart
  <1> HIDE DEF base, len
  <1>3. /\ BlockLength \in 0..BlockSize
        /\ BlockLength = BlockSize \/ BlockStart + BlockLength >= TotalLength
        /\ BlockLength = 0 \/ BlockStart + BlockLength <= TotalLength
    <2> DEFINE P(n) == /\ n = BlockSize \/ BlockStart + n >= TotalLength
                       /\ n = 0 \/ BlockStart + n <= TotalLength
    <2>1. \E n \in 0..BlockSize : P(n)
      <3>1. CASE BlockStart >= TotalLength
        <4>1. 0 \in 0..BlockSize /\ P(0)
          BY <1>2, <3>1, BodySizes
        <4> QED BY <4>1
      <3>2. CASE BlockStart < TotalLength /\ BlockStart + BlockSize <= TotalLength
        <4>1. BlockSize \in 0..BlockSize /\ P(BlockSize)
          BY <1>2, <3>2, BodySizes
        <4> QED BY <4>1
      <3>3. CASE BlockStart < TotalLength /\ BlockStart + BlockSize > TotalLength
        <4>1. TotalLength - BlockStart \in 0..BlockSize /\ P(TotalLength - BlockStart)
          BY <1>2, <3>3, BodySizes
        <4> QED BY <4>1
      <3> QED BY <1>2, <3>1, <3>2, <3>3, BodySizes
    <2>2. BlockLength = CHOOSE n \in 0..BlockSize : P(n)
      BY DEF BlockLength
    <2> HIDE DEF P
    <2>3. BlockLength \in 0..BlockSize /\ P(BlockLength)
      BY <2>1, <2>2
    <2> QED BY <2>3 DEF P
  <1>4. tmp_data' \in [1..BlockSize -> Int] /\ Len(tmp_data') = BlockSize
    <2>1. BlockStart \in Nat
      BY <1>2
    <2> QED BY <1>1, <1>3, <2>1, BodySizes
  <1>5. piece_data' \in Seq(Int) /\ Len(piece_data') = len + BlockSize
        /\ (\A j \in 1..len : piece_data'[j] = piece_data[j])
        /\ (\A j \in 1..BlockSize : piece_data'[len + j] = tmp_data'[j])
    BY <1>1, <1>4, BodySizes DEF len
  <1>6. \E k \in 0..BlocksPerPiece : Len(piece_data') = k * BlockSize
    <2>1. PICK k \in 0..BlocksPerPiece : len = k * BlockSize
      BY <1>1 DEF BlocksOk, len
    <2>2. k < BlocksPerPiece
      BY <1>1, <2>1, BodySizes DEF PieceSize
    <2>3. k + 1 \in 0..BlocksPerPiece /\ len + BlockSize = (k + 1) * BlockSize
      BY <2>1, <2>2, BodySizes
    <2> QED BY <1>5, <2>3
  <1>7. ASSUME NEW j \in 1..Len(piece_data'), base + j - 1 < TotalLength
        PROVE  piece_data'[j] = base + j - 1
    <2>1. CASE j <= len
      <3>1. j \in 1..len
        BY <1>2, <2>1
      <3> QED BY <1>1, <1>5, <1>7, <3>1 DEF BlocksOk, base, len
    <2>2. CASE ~(j <= len)
      <3> DEFINE i == j - len
      <3>1. i \in 1..BlockSize /\ j = len + i
        BY <1>2, <1>5, <2>2, BodySizes
      <3> HIDE DEF i
      <3>2. BlockStart + i - 1 < TotalLength
        BY <1>2, <1>7, <3>1
      <3>3. i <= BlockLength
        BY <1>2, <1>3, <3>1, <3>2, BodySizes
      <3>4. tmp_data'[i] = BlockStart + i - 1
        BY <1>1, <3>1, <3>3
      <3> QED BY <1>2, <1>5, <3>1, <3>4
    <2> QED BY <2>1, <2>2
  <1> QED BY <1>1, <1>4, <1>5, <1>6, <1>7 DEF BlocksOk, base

\* A run of bytes, and its first part and the rest.
Run(p, m) == [i \in 1..m |-> p + i - 1]

LEMMA RunIs ==
  ASSUME NEW p \in Nat, NEW m \in Nat
  PROVE  Run(p, m) \in Seq(Elem) /\ Len(Run(p, m)) = m
PROOF BY DEF Run, Elem

LEMMA RunSplit ==
  ASSUME NEW p \in Nat, NEW m \in Nat, NEW l \in 0..m
  PROVE  Run(p, m) = Run(p, l) \o Run(p + l, m - l)
PROOF BY DEF Run

\* What SendPiece sends is the run of bytes at the task's place.
LEMMA SendPieceIs ==
  ASSUME request \in Requests, task \in TaskType, piece_data \in Seq(Int),
         SpanOk(request, task), InTorrent, BlocksOk, SendPiece
  PROVE  LET l == IF task.to_send < PieceSize - task.skip THEN task.to_send
                  ELSE PieceSize - task.skip
         IN  /\ l \in 1..task.to_send
             /\ Pos(task) \in Nat
             /\ chan' = Append(chan, Run(Pos(task), l))
             /\ task' = IF task.to_send = l THEN AfterSpan(task.span)
                        ELSE Advanced(l)
PROOF
  <1> DEFINE l == IF task.to_send < PieceSize - task.skip THEN task.to_send
                  ELSE PieceSize - task.skip
             rest == SubSeq(piece_data, task.skip + 1, PieceSize)
             part == IF task.to_send < Len(rest) THEN SubSeq(rest, 1, task.to_send) ELSE rest
  <1>1. /\ task.pc = "blocks" /\ Len(piece_data) = PieceSize
        /\ chan' = Append(chan, part)
        /\ task' = IF task.to_send = Len(part) THEN AfterSpan(task.span)
                   ELSE Advanced(Len(part))
    BY DEF SendPiece
  <1>2. /\ task.skip \in Nat /\ task.to_send \in Nat \ {0} /\ task.piece \in Nat
        /\ task.skip < PieceSize /\ task.span \in 1..N(request)
    BY <1>1 DEF SpanOk, TaskType
  <1>3. Pos(task) \in Nat /\ Pos(task) + task.to_send <= TotalLength
    <2> DEFINE sp == Spans(request)[task.span]
    <2>1. Pos(task) + task.to_send = request.offset + sp.start + sp.length
      BY <1>1 DEF SpanOk
    <2>2. request.offset + sp.start + sp.length <= TotalLength
      BY <1>2 DEF InTorrent
    <2>3. Pos(task) \in Nat
      <3>1. task.piece * PieceSize \in Nat
        BY <1>2, BodySizes
      <3> QED BY <1>2, <3>1 DEF Pos
    <2> QED BY <2>1, <2>2, <2>3
  <1>4. l \in 1..task.to_send /\ l <= PieceSize - task.skip /\ l \in Nat
    BY <1>2, BodySizes
  <1>5. /\ rest \in Seq(Int) /\ Len(rest) = PieceSize - task.skip
        /\ \A j \in 1..(PieceSize - task.skip) : rest[j] = piece_data[task.skip + j]
    <2> DEFINE k == task.skip
               n == PieceSize
    <2>1. k \in Nat /\ n \in Nat /\ k < n /\ Len(piece_data) = n
      BY <1>1, <1>2, BodySizes
    <2> HIDE DEF k, n
    <2>2. /\ SubSeq(piece_data, k + 1, n) \in Seq(Int)
          /\ Len(SubSeq(piece_data, k + 1, n)) = n - k
          /\ \A j \in 1..(n - k) : SubSeq(piece_data, k + 1, n)[j] = piece_data[k + j]
      <3>1. /\ SubSeq(piece_data, k + 1, n) \in Seq(Int)
            /\ Len(SubSeq(piece_data, k + 1, n)) = n - k
        BY <2>1
      <3>2. ASSUME NEW j \in 1..(n - k)
            PROVE  SubSeq(piece_data, k + 1, n)[j] = piece_data[k + j]
        <4>1. (k + 1) + j - 1 = k + j /\ j \in 1 .. n - (k + 1) + 1
          BY <2>1
        <4> QED BY <2>1, <4>1
      <3> QED BY <3>1, <3>2
    <2> QED BY <2>2 DEF k, n
  <1> HIDE DEF rest
  <1>6. /\ part \in Seq(Int) /\ Len(part) = l
        /\ \A j \in 1..l : part[j] = rest[j]
    <2> DEFINE n == PieceSize - task.skip
               m == task.to_send
    <2>1. n \in Nat /\ m \in Nat /\ rest \in Seq(Int) /\ Len(rest) = n
          /\ l = IF m < n THEN m ELSE n
      <3>1. n \in Nat /\ m \in Nat
        BY <1>2, BodySizes
      <3>2. l = IF m < n THEN m ELSE n
        OBVIOUS
      <3> QED BY <1>5, <3>1, <3>2
    <2>2. part = IF m < n THEN SubSeq(rest, 1, m) ELSE rest
      BY <2>1
    <2> HIDE DEF n, m, part, l
    <2> QED BY <2>1, <2>2
  <1> HIDE DEF part, l
  <1>7. ASSUME NEW j \in 1..l PROVE part[j] = Pos(task) + j - 1
    <2>1. j \in 1..(PieceSize - task.skip) /\ task.skip + j \in 1..PieceSize
          /\ Pos(task) + j - 1 < TotalLength
      <3> DEFINE p == Pos(task)
                 k == task.skip
                 m == task.to_send
                 n == PieceSize
      <3>1. p \in Nat /\ k \in Nat /\ m \in Nat /\ n \in Nat /\ k < n /\ l \in Nat
            /\ p + m <= TotalLength /\ l <= m /\ l <= n - k /\ TotalLength \in Nat
        BY <1>2, <1>3, <1>4, BodySizes
      <3> HIDE DEF p, k, m, n
      <3>2. j \in 1..(n - k) /\ k + j \in 1..n /\ p + j - 1 < TotalLength
        BY <3>1
      <3> QED BY <3>2 DEF p, k, m, n
    <2>2. part[j] = piece_data[task.skip + j]
      BY <1>5, <1>6, <2>1
    <2>3. Pos(task) + j - 1 = task.piece * PieceSize + (task.skip + j) - 1
      BY <1>2, BodySizes DEF Pos
    <2> QED BY <1>1, <2>1, <2>2, <2>3 DEF BlocksOk
  <1>8. part = Run(Pos(task), l)
    BY <1>4, <1>6, <1>7 DEF Run
  <1>9. /\ chan' = Append(chan, Run(Pos(task), l))
        /\ task' = IF task.to_send = l THEN AfterSpan(task.span)
                   ELSE Advanced(l)
    BY <1>1, <1>6, <1>8
  <1> QED BY <1>3, <1>4, <1>9 DEF l

LEMMA SendPieceOk ==
  ASSUME BodyType, SpanOk(request, task), InTorrent, BlocksOk, Conserved, SendPiece
  PROVE  BodyType' /\ SpanOk(request', task') /\ Conserved'
PROOF
  <1> DEFINE p == Pos(task)
             m == task.to_send
             l == IF m < PieceSize - task.skip THEN m ELSE PieceSize - task.skip
             after == ExpectedFrom(request)[task.span + 1]
  <1>1. /\ l \in 1..m /\ p \in Nat /\ m \in Nat
        /\ chan' = Append(chan, Run(p, l))
        /\ task' = IF m = l THEN AfterSpan(task.span)
                   ELSE Advanced(l)
    BY SendPieceIs DEF BodyType, TaskType
  <1>2. /\ task.pc = "blocks" /\ Len(chan) < 2 /\ request' = request /\ body' = body
        /\ response' = response /\ piece_data' = piece_data /\ tmp_data' = tmp_data
    BY DEF SendPiece, ChannelRoom, buffers
  <1>3. /\ RangeError(request) = "none" /\ task.span \in 1..N(request)
        /\ task.skip \in Nat /\ task.piece \in Nat /\ task.skip < PieceSize
    BY <1>2 DEF SpanOk, BodyType, TaskType
  <1>4. after \in Seq(Elem)
    <2>1. N(request) \in Nat
      BY SpansAre DEF BodyType
    <2>2. task.span + 1 \in 1 .. N(request) + 1
      BY <1>3, <2>1
    <2> QED BY <2>2, ExpectedIs DEF BodyType
  <1>5. (body \o Pending(chan)) \o (Run(p, m) \o after) = Expected
    BY <1>2 DEF Conserved, Owes, Remaining, Run
  <1> HIDE DEF p, m, l, after
  <1>6. Run(p, m) = Run(p, l) \o Run(p + l, m - l)
    <2>1. l \in 0..m
      BY <1>1
    <2> QED BY <1>1, <2>1, RunSplit
  <1>7. Run(p, l) \in Seq(Elem) /\ Run(p + l, m - l) \in Seq(Elem) /\ Run(p, m) \in Seq(Elem)
    <2>1. l \in Nat /\ p + l \in Nat /\ m - l \in Nat
      BY <1>1
    <2> QED BY <1>1, <2>1, RunIs
  <1>8. Run(p, m) \o after = Run(p, l) \o (Run(p + l, m - l) \o after)
    <2>1. (Run(p, l) \o Run(p + l, m - l)) \o after = Run(p, l) \o (Run(p + l, m - l) \o after)
      BY <1>4, <1>7, Assoc, Zenon
    <2> QED BY <1>6, <2>1, Zenon
  <1> DEFINE left == Run(p + l, m - l) \o after
  <1>9. left \in Seq(Elem)
    BY <1>4, <1>7, ConcatIn, Zenon
  <1> HIDE DEF left
  <1>10. /\ chan' \in Seq(Part) /\ Len(chan') <= 2
         /\ (body \o Pending(chan')) \o left = Expected
    BY <1>1, <1>2, <1>5, <1>7, <1>8, <1>9, Sends DEF BodyType, left
  <1>11. task' \in TaskType /\ SpanOk(request, task') /\ Owes(request, task', left)
    <2>1. CASE m = l
      <3>1. m - l = 0 /\ p + l \in Nat
        BY <1>1, <2>1
      <3>2. left = after
        <4>1. Run(p + l, m - l) = <<>>
          BY <3>1 DEF Run
        <4> QED BY <1>4, <4>1, EmptyConcat DEF left
      <3> QED BY <1>1, <1>3, <2>1, <3>2, AfterSpanOk DEF BodyType, after
    <2>2. CASE m # l
      <3>1. l = PieceSize - task.skip /\ m - l \in Nat /\ m - l # 0
        BY <1>1, <2>2 DEF l
      <3> DEFINE u == Advanced(l)
      <3>2. task' = u /\ m = task.to_send
        BY <1>1, <2>2 DEF m
      <3>3. u.pc = "fetch" /\ u.piece = task.piece + 1 /\ u.skip = 0 /\ u.to_send = m - l
            /\ u.span = task.span /\ u \in TaskType
        <4>1. u = [pc |-> "fetch", span |-> task.span, piece |-> task.piece + 1, skip |-> 0,
                   to_send |-> m - l]
          BY DEF Advanced, m
        <4>2. task.span \in Nat /\ task.piece + 1 \in Nat
          BY DEF BodyType, TaskType
        <4> HIDE DEF u
        <4> QED BY <3>1, <4>1, <4>2 DEF TaskType
      <3> HIDE DEF u
      <3>4. Pos(u) = p + l
        BY <1>3, <3>1, <3>3, BodySizes DEF Pos, p
      <3>5. Remaining(u) = Run(p + l, m - l)
        BY <3>3, <3>4 DEF Remaining, Run
      <3>6. Pos(u) + u.to_send = p + m
        BY <1>1, <3>1, <3>3, <3>4
      <3>7. SpanOk(request, u)
        <4>1. p + m = request.offset + Spans(request)[task.span].start
                        + Spans(request)[task.span].length
          BY <1>2, <3>2 DEF SpanOk, p
        <4>2. 0 < PieceSize
          BY BodySizes
        <4> QED BY <1>3, <3>3, <3>6, <4>1, <4>2 DEF SpanOk
      <3>8. Owes(request, u, left)
        BY <3>3, <3>5 DEF Owes, left, after
      <3> QED BY <3>2, <3>3, <3>7, <3>8
    <2> QED BY <2>1, <2>2
  <1>12. response # "none" /\ response # "ended"
    BY <1>2 DEF BodyType
  <1>13. BodyType'
    BY <1>2, <1>10, <1>11, <1>12 DEF BodyType
  <1>14. Conserved'
    BY <1>2, <1>9, <1>10, <1>11 DEF Conserved, Expected
  <1> QED BY <1>2, <1>11, <1>13, <1>14

LEMMA BodyNextInv ==
  BodyInv /\ [BodyNext]_bodyVars => BodyInv'
PROOF
  <1>a. ASSUME [BodyNext]_bodyVars PROVE request' = request
    BY <1>a DEF bodyVars, BodyNext, Respond, BodyStep, SendBoundary, AskPiece,
               ReadBlock, SendPiece, EmptySpan, TaskReturns, Deliver
  <1> SUFFICES ASSUME BodyInv, [BodyNext]_bodyVars, InTorrent
               PROVE  BodyType' /\ SpanOk(request', task') /\ BlocksOk' /\ Conserved'
    BY <1>a DEF BodyInv, InTorrent, N
  <1>0. /\ BodyType /\ SpanOk(request, task) /\ request' = request
        /\ request \in Requests /\ task \in TaskType /\ chan \in Seq(Part) /\ Len(chan) <= 2
        /\ body \in Seq(Elem) /\ piece_data \in Seq(Int) /\ tmp_data \in [1..BlockSize -> Int]
    BY <1>a DEF BodyInv, BodyType
  <1>2. BlocksOk /\ Conserved
    BY DEF BodyInv
  <1>3. N(request) \in Nat \ {0}
        /\ \A i \in 1 .. N(request) + 1 : ExpectedFrom(request)[i] \in Seq(Elem)
    BY <1>0, SpansAre, ExpectedIs
  <1>4. CASE Respond
    <2>1. task.pc = "none" /\ response = "none"
      BY <1>0, <1>4 DEF Respond, BodyType
    <2>2. CASE task' = task /\ response' \in {RangeError(request), "internal_error"}
      <3>1. response' # "none" /\ response' # "ended"
        BY <1>4, <2>2 DEF Respond, RangeError
      <3>2. BodyType' /\ SpanOk(request', task')
        BY <1>0, <1>4, <2>2, <3>1 DEF Respond, BodyType, buffers
      <3>3. BlocksOk' /\ Conserved'
        BY <1>0, <1>2, <1>4, <2>2
           DEF Respond, BlocksOk, Conserved, Expected, buffers
      <3> QED BY <3>2, <3>3
    <2>3. CASE task' = AtSpan(1) /\ response' = "open" /\ RangeError(request) = "none"
      <3>1. task' \in TaskType /\ SpanOk(request, task') /\ Owes(request, task', Expected)
        BY <1>0, <1>3, <2>3, AtSpanOk DEF Expected
      <3>2. UNCHANGED <<request, piece_data, tmp_data, chan, body>>
        BY <1>4 DEF Respond, buffers
      <3>3. BodyType' /\ SpanOk(request', task')
        BY <1>0, <2>3, <3>1, <3>2 DEF BodyType
      <3>4. task'.pc # "blocks"
        BY <2>3 DEF AtSpan
      <3>5. BlocksOk'
        BY <3>4 DEF BlocksOk
      <3>6. Conserved'
        <4>1. Expected \in Seq(Elem)
          BY <1>3 DEF Expected
        <4>2. (body \o Pending(chan)) \o Expected = Expected
          BY <1>2, <2>1 DEF Conserved, Owes, Expected
        <4> QED BY <3>1, <3>2, <4>1, <4>2 DEF Conserved, Expected
      <3> QED BY <3>3, <3>5, <3>6
    <2> QED BY <1>4, <2>2, <2>3 DEF Respond
  <1>5. CASE SendBoundary
    <2>1. /\ task.pc \in {"boundary", "closing"} /\ Len(chan) < 2
          /\ chan' = Append(chan, <<Boundary>>)
          /\ UNCHANGED <<request, piece_data, tmp_data, body, response>>
      BY <1>5 DEF SendBoundary, ChannelRoom, buffers
    <2>2. <<Boundary>> \in Seq(Elem)
      BY DEF Elem
    <2>3. response # "none" /\ response # "ended"
      BY <1>0, <2>1 DEF BodyType
    <2>4. PICK left \in Seq(Elem) :
            /\ task' \in TaskType /\ SpanOk(request, task') /\ Owes(request, task', left)
            /\ task'.pc # "blocks"
            /\ \A rest : Owes(request, task, rest) => rest = <<Boundary>> \o left
      <3>1. CASE task.pc = "closing"
        <4>1. task' = TaskAt("done")
          BY <1>5, <3>1 DEF SendBoundary
        <4>2. task' \in TaskType /\ SpanOk(request, task') /\ Owes(request, task', <<>>)
              /\ task'.pc # "blocks"
          BY <1>0, <3>1, <4>1 DEF TaskAt, TaskType, SpanOk, Owes
        <4>3. \A rest : Owes(request, task, rest) => rest = <<Boundary>> \o <<>>
          BY <2>2, <3>1, EmptyConcat DEF Owes
        <4>4. <<>> \in Seq(Elem)
          OBVIOUS
        <4> QED BY <4>2, <4>3, <4>4
      <3>2. CASE task.pc = "boundary"
        <4> DEFINE sp == Spans(request)[task.span]
                   after == ExpectedFrom(request)[task.span + 1]
        <4>1. task' = [task EXCEPT !.pc = "fetch"]
          BY <1>5, <3>2 DEF SendBoundary
        <4>2. /\ task'.pc = "fetch" /\ task'.span = task.span /\ task'.piece = task.piece
              /\ task'.skip = task.skip /\ task'.to_send = task.to_send /\ task' \in TaskType
          BY <1>0, <4>1 DEF TaskType
        <4>3. Pos(task') = Pos(task) /\ Remaining(task') = Remaining(task)
          BY <4>2 DEF Pos, Remaining
        <4>4. SpanOk(request, task') /\ Multipart(request) /\ task.to_send = sp.length
              /\ task.span \in 1..N(request) /\ RangeError(request) = "none"
          BY <1>0, <3>2, <4>2, <4>3 DEF SpanOk
        <4>5. Remaining(task) = Bytes(request, sp) /\ Bytes(request, sp) \in Seq(Elem)
          <5>1. /\ Pos(task) + task.to_send = request.offset + sp.start + sp.length
                /\ sp.start \in Nat /\ sp.length \in Nat /\ request.offset \in Nat
            BY <1>0, <3>2, <4>4, SpansAre, BodyAssumption DEF SpanOk
          <5>2. Pos(task) \in Nat
            <6>1. task.piece * PieceSize \in Nat /\ task.skip \in Nat
              BY <1>0, BodySizes DEF TaskType
            <6> QED BY <6>1 DEF Pos
          <5>3. Pos(task) = request.offset + sp.start
            <6> DEFINE x == Pos(task)
                       y == request.offset
                       z == sp.start
                       w == sp.length
            <6>1. x + w = y + z + w /\ x \in Nat /\ y \in Nat /\ z \in Nat /\ w \in Nat
              BY <4>4, <5>1, <5>2
            <6> HIDE DEF x, y, z, w
            <6>2. x = y + z
              BY <6>1
            <6> QED BY <6>2 DEF x, y, z
          <5>4. Remaining(task) = Bytes(request, sp)
            BY <4>4, <5>3 DEF Remaining, Bytes
          <5> QED BY <1>0, <4>4, <5>4, SpansAre, BytesAre
        <4>6. after \in Seq(Elem)
              /\ ExpectedFrom(request)[task.span] = (<<Boundary>> \o Bytes(request, sp)) \o after
          <5>1. task.span + 1 \in 1 .. N(request) + 1
            <6> DEFINE n == N(request)
                       k == task.span
            <6>1. n \in Nat /\ k \in 1..n
              BY <1>3, <4>4
            <6> HIDE DEF n, k
            <6>2. k + 1 \in 1 .. n + 1
              BY <6>1
            <6> QED BY <6>2 DEF n, k
          <5> QED BY <1>0, <1>3, <4>4, <5>1, ExpectedIs
        <4> DEFINE b == Bytes(request, sp)
        <4> HIDE DEF after, b
        <4>7. (<<Boundary>> \o b) \o after = <<Boundary>> \o (b \o after) /\ b \o after \in Seq(Elem)
          <5>1. b \in Seq(Elem)
            BY <4>5 DEF b
          <5>2. (<<Boundary>> \o b) \o after = <<Boundary>> \o (b \o after)
            BY <2>2, <4>6, <5>1, Assoc, Zenon
          <5> QED BY <4>6, <5>1, <5>2, ConcatIn, Zenon
        <4>8. Owes(request, task', b \o after)
          BY <4>2, <4>3, <4>5 DEF Owes, b, after
        <4>9. \A rest : Owes(request, task, rest) => rest = <<Boundary>> \o (b \o after)
          BY <3>2, <4>6, <4>7 DEF Owes, b
        <4> QED BY <4>2, <4>4, <4>7, <4>8, <4>9
      <3> QED BY <2>1, <3>1, <3>2
    <2>5. chan' \in Seq(Part) /\ Len(chan') <= 2
      BY <1>0, <2>1, <2>2, PendingAppend
    <2>6. BodyType' /\ SpanOk(request', task')
      BY <1>0, <2>1, <2>3, <2>4, <2>5 DEF BodyType
    <2>7. BlocksOk'
      BY <2>4 DEF BlocksOk
    <2>8. Conserved'
      <3>1. PICK rest \in Seq(Elem) :
              (body \o Pending(chan)) \o rest = Expected /\ Owes(request, task, rest)
        BY <1>2 DEF Conserved
      <3>2. rest = <<Boundary>> \o left
        BY <2>4, <3>1
      <3>3. (body \o Pending(chan')) \o left = Expected
        BY <1>0, <2>1, <2>2, <3>1, <3>2, Sends
      <3> QED BY <1>0, <2>1, <2>4, <3>3 DEF Conserved, Expected
    <2> QED BY <2>6, <2>7, <2>8
  <1>6. CASE AskPiece
    <2>1. /\ task.pc = "fetch" /\ task.to_send # 0 /\ task' = [task EXCEPT !.pc = "blocks"]
          /\ piece_data' = <<>> /\ tmp_data' = FreshBuffer
          /\ UNCHANGED <<request, chan, body, response>>
      BY <1>6 DEF AskPiece
    <2>2. /\ task'.pc = "blocks" /\ task'.span = task.span /\ task'.piece = task.piece
          /\ task'.skip = task.skip /\ task'.to_send = task.to_send /\ task' \in TaskType
      BY <1>0, <2>1 DEF TaskType
    <2>3. Pos(task') = Pos(task) /\ Remaining(task') = Remaining(task)
      BY <2>2 DEF Pos, Remaining
    <2>4. FreshBuffer \in [1..BlockSize -> Int] /\ <<>> \in Seq(Int)
      BY DEF FreshBuffer, Stale
    <2>5. response # "none" /\ response # "ended"
      BY <1>0, <2>1 DEF BodyType
    <2>6. BodyType'
      BY <1>0, <2>1, <2>2, <2>4, <2>5 DEF BodyType
    <2>7. SpanOk(request', task')
      BY <1>0, <2>1, <2>2, <2>3 DEF SpanOk
    <2>8. BlocksOk'
      <3>1. Len(piece_data') = 0 /\ 0 \in 0..BlocksPerPiece /\ 0 = 0 * BlockSize
        BY <2>1, BodySizes
      <3> QED BY <3>1 DEF BlocksOk
    <2>9. Conserved'
      BY <1>2, <2>1, <2>2, <2>3 DEF Conserved, Expected, Owes
    <2> QED BY <2>6, <2>7, <2>8, <2>9
  <1>7. CASE ReadBlock
    <2>1. /\ task.pc = "blocks" /\ UNCHANGED <<request, task, chan, body, response>>
      BY <1>7 DEF ReadBlock
    <2>2. BlocksOk'
      BY <1>0, <1>2, <1>7, ReadBlockOk
    <2>3. piece_data' \in Seq(Int) /\ tmp_data' \in [1..BlockSize -> Int]
      BY <1>0, <1>7, <1>2, ReadBlockOk
    <2>4. BodyType'
      BY <1>0, <2>1, <2>3 DEF BodyType
    <2>5. Conserved'
      BY <1>2, <2>1 DEF Conserved, Expected
    <2> QED BY <1>0, <2>1, <2>2, <2>4, <2>5
  <1>8. CASE SendPiece
    <2>1. BodyType' /\ SpanOk(request', task') /\ Conserved'
      BY <1>0, <1>2, <1>8, SendPieceOk
    <2>2. BlocksOk'
      <3>1. task'.pc # "blocks"
        BY <1>8 DEF SendPiece, AfterSpan, AtSpan, TaskAt, Advanced
      <3> QED BY <3>1 DEF BlocksOk
    <2> QED BY <2>1, <2>2
  <1>9. CASE EmptySpan
    <2>1. /\ task.pc = "fetch" /\ task.to_send = 0 /\ task' = AfterSpan(task.span)
          /\ UNCHANGED <<request, piece_data, tmp_data, chan, body, response>>
      BY <1>9 DEF EmptySpan, buffers
    <2>2. task.span \in 1..N(request) /\ RangeError(request) = "none"
      BY <1>0, <2>1 DEF SpanOk
    <2> DEFINE after == ExpectedFrom(request)[task.span + 1]
    <2>3. task' \in TaskType /\ SpanOk(request, task') /\ Owes(request, task', after)
      BY <1>0, <2>1, <2>2, AfterSpanOk
    <2>4. after \in Seq(Elem)
      <3>1. task.span + 1 \in 1 .. N(request) + 1
        BY <1>3, <2>2
      <3> QED BY <1>3, <3>1
    <2>5. Remaining(task) = <<>>
      BY <2>1 DEF Remaining
    <2>6. response # "none" /\ response # "ended"
      BY <1>0, <2>1 DEF BodyType
    <2>7. BodyType' /\ SpanOk(request', task')
      BY <1>0, <2>1, <2>3, <2>6 DEF BodyType
    <2>8. task'.pc # "blocks"
      BY <2>1 DEF AfterSpan, AtSpan, TaskAt
    <2>9. BlocksOk'
      BY <2>8 DEF BlocksOk
    <2>10. Conserved'
      <3>1. (body \o Pending(chan)) \o (<<>> \o after) = Expected
        BY <1>2, <2>1, <2>5 DEF Conserved, Owes
      <3>2. (body \o Pending(chan)) \o after = Expected
        BY <2>4, <3>1, EmptyConcat
      <3> QED BY <2>1, <2>3, <2>4, <3>2 DEF Conserved, Expected
    <2> QED BY <2>7, <2>9, <2>10
  <1>10. CASE TaskReturns
    <2>1. /\ task.pc \notin {"none", "done", "returned"} /\ task' = TaskAt("returned")
          /\ UNCHANGED <<request, piece_data, tmp_data, chan, body, response>>
      BY <1>10 DEF TaskReturns, buffers
    <2>2. task'.pc = "returned" /\ task' \in TaskType
      BY <2>1 DEF TaskAt, TaskType
    <2>3. response # "none" /\ response # "ended"
      BY <1>0, <2>1 DEF BodyType
    <2>4. BodyType' /\ SpanOk(request', task')
      BY <1>0, <2>1, <2>2, <2>3 DEF BodyType, SpanOk
    <2>5. BlocksOk' /\ \A rest : Owes(request, task', rest)
      BY <2>2 DEF BlocksOk, Owes
    <2>6. Conserved'
      BY <1>2, <2>1, <2>5 DEF Conserved, Expected
    <2> QED BY <2>4, <2>5, <2>6
  <1>11. CASE Deliver
    <2>1. response = "open" /\ UNCHANGED <<request, task, piece_data, tmp_data>>
      BY <1>11 DEF Deliver, buffers
    <2>2. CASE chan # <<>> /\ body' = body \o Head(chan) /\ chan' = Tail(chan)
               /\ response' = response
      <3>1. chan' \in Seq(Part) /\ Len(chan') <= 2 /\ Head(chan) \in Seq(Elem)
        BY <1>0, <2>2, PendingTail
      <3>2. body' \in Seq(Elem)
        BY <1>0, <2>2, <3>1, ConcatIn
      <3>3. BodyType'
        BY <1>0, <2>1, <2>2, <3>1, <3>2 DEF BodyType
      <3>4. body' \o Pending(chan') = body \o Pending(chan)
        BY <1>0, <2>2, DeliversPart
      <3>5. BlocksOk' /\ Conserved'
        BY <1>2, <2>1, <3>4 DEF Conserved, Expected, BlocksOk
      <3> QED BY <1>0, <2>1, <3>3, <3>5
    <2>3. CASE /\ chan = <<>> /\ task.pc \in {"done", "returned"} /\ response' = "ended"
               /\ UNCHANGED <<body, chan>>
      <3>1. BodyType'
        BY <1>0, <2>1, <2>3 DEF BodyType
      <3>2. BlocksOk' /\ Conserved'
        BY <1>2, <2>1, <2>3 DEF Conserved, Expected, BlocksOk
      <3> QED BY <1>0, <2>1, <3>1, <3>2
    <2> QED BY <1>11, <2>2, <2>3 DEF Deliver
  <1>12. CASE UNCHANGED bodyVars
    <2>1. UNCHANGED <<request, task, piece_data, tmp_data, chan, body, response>>
      BY <1>12 DEF bodyVars, buffers
    <2>2. BodyType'
      BY <1>0, <2>1 DEF BodyType
    <2>3. BlocksOk' /\ Conserved'
      BY <1>2, <2>1 DEF Conserved, Expected, BlocksOk
    <2> QED BY <1>0, <2>1, <2>2, <2>3
  <1> QED BY <1>4, <1>5, <1>6, <1>7, <1>8, <1>9, <1>10, <1>11, <1>12 DEF BodyNext, BodyStep

LEMMA PrefixIs ==
  ASSUME NEW a \in Seq(Elem), NEW b \in Seq(Elem)
  PROVE  Len(a) <= Len(a \o b) /\ a = SubSeq(a \o b, 1, Len(a))
PROOF
  <1>1. Len(a) \in Nat /\ Len(b) \in Nat /\ Len(a \o b) = Len(a) + Len(b)
    OBVIOUS
  <1>2. Len(a) <= Len(a \o b)
    BY <1>1
  <1>3. \A i \in 1..Len(a) : (a \o b)[i] = a[i]
    OBVIOUS
  <1>4. /\ Len(SubSeq(a \o b, 1, Len(a))) = Len(a)
        /\ \A i \in 1..Len(a) : SubSeq(a \o b, 1, Len(a))[i] = (a \o b)[i]
    BY <1>1, <1>2
  <1>5. SubSeq(a \o b, 1, Len(a)) \in Seq(Elem)
    BY <1>1, <1>2, ConcatIn
  <1> QED BY <1>2, <1>3, <1>4, <1>5

LEMMA BodyInvShows ==
  BodyInv => (InTorrent => BodyIsTheSpans)
PROOF
  <1> SUFFICES ASSUME BodyInv, InTorrent PROVE BodyIsTheSpans
    OBVIOUS
  <1>1. BodyType /\ Conserved /\ body \in Seq(Elem) /\ chan \in Seq(Part) /\ Len(chan) <= 2
    BY DEF BodyInv, BodyType
  <1>2. PICK rest \in Seq(Elem) :
          (body \o Pending(chan)) \o rest = Expected /\ Owes(request, task, rest)
    BY <1>1 DEF Conserved
  <1>3. Pending(chan) \in Seq(Elem)
    BY <1>1, PendingIs
  <1> DEFINE p == Pending(chan)
  <1> HIDE DEF p
  <1>4. body \o (p \o rest) = Expected /\ p \o rest \in Seq(Elem)
    <2>1. p \in Seq(Elem) /\ (body \o p) \o rest = Expected
      BY <1>2, <1>3 DEF p
    <2>2. (body \o p) \o rest = body \o (p \o rest)
      BY <1>1, <2>1, Assoc, Zenon
    <2>3. p \o rest \in Seq(Elem)
      BY <2>1, ConcatIn, Zenon
    <2> QED BY <2>1, <2>2, <2>3
  <1>5. Len(body) <= Len(Expected) /\ body = SubSeq(Expected, 1, Len(body))
    <2>1. Len(body) <= Len(body \o (p \o rest))
          /\ body = SubSeq(body \o (p \o rest), 1, Len(body))
      BY <1>1, <1>4, PrefixIs
    <2> QED BY <1>4, <2>1, Zenon
  <1>6. ASSUME response = "ended", task.pc = "done" PROVE body = Expected
    <2>1. chan = <<>> /\ rest = <<>>
      BY <1>1, <1>2, <1>6 DEF BodyType, Owes
    <2>2. Pending(chan) = <<>>
      BY <2>1 DEF Pending
    <2>3. (body \o <<>>) \o <<>> = body
      BY <1>1, EmptyConcat
    <2> QED BY <1>2, <2>1, <2>2, <2>3
  <1> QED BY <1>5, <1>6 DEF BodyIsTheSpans

\* For every torrent, every size of its pieces and blocks, and every request whose
\* ranges lie in the torrent: what the client has is a prefix of what it asked for,
\* and all of it when the task has come to its end.
THEOREM BodyIsAsAsked ==
  BodySpec => [](InTorrent => BodyIsTheSpans)
PROOF
  <1>1. BodySpec => []BodyInv
    BY BodyInitInv, BodyNextInv, PTL DEF BodySpec
  <1> QED BY <1>1, BodyInvShows, PTL

================================================================================
