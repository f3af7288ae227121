------------------------------- MODULE ProxyCopy -------------------------------
(***************************************************************************)
(* The bytes of one proxied connection: sni_connect_and_copy_helper        *)
(* (sni2.rs) from the first read to the end of the copy loop, with         *)
(* read_into and write_from (ioutil.rs).                                   *)
(*                                                                         *)
(* The task reads a PROXY header (if the listener expects one) and a TLS   *)
(* ClientHello from the client, dials the backend, and then copies both    *)
(* ways in one loop that reads only when there is nothing left to write.   *)
(* Reads and writes may be short; either peer may close its sending half;  *)
(* any wait may end in a timeout, an error or a cancellation.              *)
(*                                                                         *)
(* A stream is a sequence of distinct tokens, one for a run of bytes that  *)
(* are never told apart. The sessions are in SessionManager, the choice of *)
(* the backend in Backends.                                                *)
(***************************************************************************)
EXTENDS Naturals, Sequences

CONSTANTS
  Token,        \* the tokens
  ClientData,   \* what the client sends
  BackendData,  \* what the backend sends
  HeaderLen,    \* tokens of the client's PROXY header, 0 if none is expected
  HelloLen,     \* tokens of its ClientHello
  Prologue,     \* the PROXY header for the backend, empty if it wants none
  Window        \* tokens a peer takes before it must read

ASSUME CopyAssumption ==
  /\ {ClientData, BackendData, Prologue} \subseteq Seq(Token)
  /\ HeaderLen \in Nat
  /\ HelloLen \in Nat \ {0}
  /\ Window \in Nat \ {0}

VARIABLES
  pc,                \* "header", "hello", "dial", "copy", "done" or "failed"
  client_sent, client_eof,      \* what the client did
  backend_sent, backend_eof,    \* what the backend did
  client_read, backend_read,    \* how much of that the task has read
  backend_write_buf,            \* read from the client before the copy loop
  backend_to_write, client_to_write,
  client_read_open, backend_read_open,
  backend_got, client_got,      \* what was written to the peers
  backend_unread, client_unread,  \* how much of that they have not read
  backend_fin, client_fin,      \* the halves the task has shut down
  bytes_client_to_backend, bytes_backend_to_client   \* SessionExport

client == <<client_sent, client_eof>>
backend == <<backend_sent, backend_eof>>
reads == <<client_read, backend_read, backend_write_buf>>
writes == <<backend_to_write, client_to_write>>
opens == <<client_read_open, backend_read_open>>
sinks == <<backend_got, client_got, backend_unread, client_unread>>
fins == <<backend_fin, client_fin>>
stats == <<bytes_client_to_backend, bytes_backend_to_client>>
vars == <<pc, client, backend, reads, writes, opens, sinks, fins, stats>>

Init ==
  /\ pc = IF HeaderLen > 0 THEN "header" ELSE "hello"
  /\ client_sent = 0 /\ client_eof = FALSE
  /\ backend_sent = 0 /\ backend_eof = FALSE
  /\ client_read = 0 /\ backend_read = 0
  /\ backend_write_buf = <<>>
  /\ backend_to_write = <<>> /\ client_to_write = <<>>
  /\ client_read_open = TRUE /\ backend_read_open = TRUE
  /\ backend_got = <<>> /\ client_got = <<>>
  /\ backend_unread = 0 /\ client_unread = 0
  /\ backend_fin = FALSE /\ client_fin = FALSE
  /\ bytes_client_to_backend = 0 /\ bytes_backend_to_client = 0

-------------------------------------------------------------------------------
(* The peers *)

ClientSend(n) ==
  /\ ~client_eof
  /\ client_sent + n <= Len(ClientData)
  /\ client_sent' = client_sent + n
  /\ UNCHANGED <<pc, client_eof, backend, reads, writes, opens, sinks, fins, stats>>

ClientClose ==
  /\ ~client_eof
  /\ client_eof' = TRUE
  /\ UNCHANGED <<pc, client_sent, backend, reads, writes, opens, sinks, fins, stats>>

\* The backend takes part once it is dialed.
BackendSend(n) ==
  /\ pc = "copy"
  /\ ~backend_eof
  /\ backend_sent + n <= Len(BackendData)
  /\ backend_sent' = backend_sent + n
  /\ UNCHANGED <<pc, client, backend_eof, reads, writes, opens, sinks, fins, stats>>

BackendClose ==
  /\ pc = "copy"
  /\ ~backend_eof
  /\ backend_eof' = TRUE
  /\ UNCHANGED <<pc, client, backend_sent, reads, writes, opens, sinks, fins, stats>>

\* A peer reads what was written to it.
PeerReads ==
  /\ \/ backend_unread > 0 /\ backend_unread' = 0 /\ UNCHANGED client_unread
     \/ client_unread > 0 /\ client_unread' = 0 /\ UNCHANGED backend_unread
  /\ UNCHANGED <<pc, client, backend, reads, writes, opens, backend_got,
                 client_got, fins, stats>>

-------------------------------------------------------------------------------
(* Before the copy loop *)

\* What the client sent, from the i-th token not read on.
FromClient(n) == SubSeq(ClientData, client_read + 1, client_read + n)

\* One poll of read_haproxy_header or read_client_hello_sni that finds its
\* message incomplete and reads.
Incomplete ==
  \/ pc = "header" /\ Len(backend_write_buf) < HeaderLen
  \/ pc = "hello" /\ Len(backend_write_buf) < HelloLen

ReadMore(n) ==
  /\ Incomplete
  /\ client_read + n <= client_sent
  /\ client_read' = client_read + n
  /\ backend_write_buf' = backend_write_buf \o FromClient(n)
  /\ UNCHANGED <<pc, client, backend, backend_read, writes, opens, sinks, fins,
                 stats>>

\* Nothing more will come.
EarlyEof ==
  /\ Incomplete
  /\ client_eof
  /\ client_read = client_sent
  /\ pc' = "failed"
  /\ UNCHANGED <<client, backend, reads, writes, opens, sinks, fins, stats>>

\* Mutant of HeaderDone: what was read after the header is lost with it.
HeaderDoneDrops ==
  /\ pc = "header"
  /\ Len(backend_write_buf) >= HeaderLen
  /\ backend_write_buf' = <<>>
  /\ pc' = "hello"
  /\ UNCHANGED <<client, backend, client_read, backend_read, writes, opens,
                 sinks, fins, stats>>

\* The header is split off the buffer; the rest of the buffer stays.
HeaderDone ==
  /\ pc = "header"
  /\ Len(backend_write_buf) >= HeaderLen
  /\ backend_write_buf' =
       SubSeq(backend_write_buf, HeaderLen + 1, Len(backend_write_buf))
  /\ pc' = "hello"
  /\ UNCHANGED <<client, backend, client_read, backend_read, writes, opens,
                 sinks, fins, stats>>

\* The hello is complete: its buffer, with what follows it, is what the backend
\* will be sent, behind the PROXY header it wants.
HelloDone ==
  /\ pc = "hello"
  /\ Len(backend_write_buf) >= HelloLen
  /\ backend_write_buf' = Prologue \o backend_write_buf
  /\ pc' = "dial"
  /\ UNCHANGED <<client, backend, client_read, backend_read, writes, opens,
                 sinks, fins, stats>>

Dialed ==
  /\ pc = "dial"
  /\ backend_to_write' = backend_write_buf
  /\ backend_write_buf' = <<>>
  /\ pc' = "copy"
  /\ UNCHANGED <<client, backend, client_read, backend_read, client_to_write,
                 opens, sinks, fins, stats>>

-------------------------------------------------------------------------------
(* The copy loop *)

WriteBackend(n) ==
  /\ pc = "copy"
  /\ n <= Len(backend_to_write)
  /\ backend_unread + n <= Window
  /\ backend_got' = backend_got \o SubSeq(backend_to_write, 1, n)
  /\ backend_unread' = backend_unread + n
  /\ backend_to_write' = SubSeq(backend_to_write, n + 1, Len(backend_to_write))
  /\ UNCHANGED <<pc, client, backend, reads, client_to_write, opens, client_got,
                 client_unread, fins, stats>>

WriteClient(n) ==
  /\ pc = "copy"
  /\ n <= Len(client_to_write)
  /\ client_unread + n <= Window
  /\ client_got' = client_got \o SubSeq(client_to_write, 1, n)
  /\ client_unread' = client_unread + n
  /\ client_to_write' = SubSeq(client_to_write, n + 1, Len(client_to_write))
  /\ UNCHANGED <<pc, client, backend, reads, backend_to_write, opens,
                 backend_got, backend_unread, fins, stats>>

\* The loop reads only when both directions have nothing left to write.
MayRead == pc = "copy" /\ backend_to_write = <<>> /\ client_to_write = <<>>

\* Data for the client counts as client_to_backend: the handlers are swapped.
ReadBackend(n) ==
  /\ MayRead
  /\ backend_read_open
  /\ backend_read + n <= backend_sent
  /\ backend_read' = backend_read + n
  /\ client_to_write' = SubSeq(BackendData, backend_read + 1, backend_read + n)
  /\ bytes_client_to_backend' = bytes_client_to_backend + n
  /\ UNCHANGED <<pc, client, backend, client_read, backend_write_buf,
                 backend_to_write, opens, sinks, fins, bytes_backend_to_client>>

ReadClient(n) ==
  /\ MayRead
  /\ client_read_open
  /\ client_read + n <= client_sent
  /\ client_read' = client_read + n
  /\ backend_to_write' = FromClient(n)
  /\ bytes_backend_to_client' = bytes_backend_to_client + n
  /\ UNCHANGED <<pc, client, backend, backend_read, backend_write_buf,
                 client_to_write, opens, sinks, fins, bytes_client_to_backend>>

\* Mutant of BackendEof: the half stays open.
BackendEofOpen ==
  /\ MayRead
  /\ backend_read_open
  /\ backend_eof
  /\ backend_read = backend_sent
  /\ client_fin' = TRUE
  /\ UNCHANGED <<pc, client, backend, reads, writes, opens, sinks, backend_fin,
                 stats>>

\* The failure of the client's shutdown is ignored.
BackendEof ==
  /\ MayRead
  /\ backend_read_open
  /\ backend_eof
  /\ backend_read = backend_sent
  /\ backend_read_open' = FALSE
  /\ client_fin' = TRUE
  /\ UNCHANGED <<pc, client, backend, reads, writes, client_read_open, sinks,
                 backend_fin, stats>>

\* Mutant of ClientEof: the backend is not told.
ClientEofSilent ==
  /\ MayRead
  /\ client_read_open
  /\ client_eof
  /\ client_read = client_sent
  /\ client_read_open' = FALSE
  /\ UNCHANGED <<pc, client, backend, reads, writes, backend_read_open, sinks,
                 fins, stats>>

\* The failure of the backend's shutdown ends the task (Fail).
ClientEof ==
  /\ MayRead
  /\ client_read_open
  /\ client_eof
  /\ client_read = client_sent
  /\ client_read_open' = FALSE
  /\ backend_fin' = TRUE
  /\ UNCHANGED <<pc, client, backend, reads, writes, backend_read_open, sinks,
                 client_fin, stats>>

Done ==
  /\ pc = "copy"
  /\ ~client_read_open
  /\ ~backend_read_open
  /\ pc' = "done"
  /\ UNCHANGED <<client, backend, reads, writes, opens, sinks, fins, stats>>

-------------------------------------------------------------------------------
(* A timeout (4 s for the header, 4 s for the hello, 300 s for a write, 1800 s
   for a read), a read, write or shutdown error, an unknown name, a failed
   dial, or a cancellation. *)

Fail ==
  /\ pc \notin {"done", "failed"}
  /\ pc' = "failed"
  /\ UNCHANGED <<client, backend, reads, writes, opens, sinks, fins, stats>>

-------------------------------------------------------------------------------

Sizes == 1 .. Len(Prologue) + Len(ClientData) + Len(BackendData)

Peers ==
  \/ \E n \in Sizes : ClientSend(n) \/ BackendSend(n)
  \/ ClientClose
  \/ BackendClose
  \/ PeerReads

Task ==
  \/ \E n \in Sizes : ReadMore(n)
  \/ EarlyEof
  \/ HeaderDone
  \/ HelloDone
  \/ Dialed
  \/ \E n \in Sizes : WriteBackend(n)
  \/ \E n \in Sizes : WriteClient(n)
  \/ \E n \in Sizes : ReadBackend(n)
  \/ \E n \in Sizes : ReadClient(n)
  \/ BackendEof
  \/ ClientEof
  \/ Done

Next == Peers \/ Task \/ Fail

Spec == Init /\ [][Next]_vars

\* The task is polled when a socket is ready for it, and the peers read what
\* they are sent. (The streams are finite, so neither direction can keep the
\* loop from the other for ever; in the code, select! polls in random order.)
FairSpec == Spec /\ WF_vars(Task) /\ WF_vars(PeerReads)

-------------------------------------------------------------------------------
(* Properties *)

\* Both directions are byte streams: see ByteStream.
ToBackend == INSTANCE ByteStream WITH
  Data <- ClientData, Skip <- HeaderLen, Prologue <- Prologue,
  sent <- client_sent, eof <- client_eof, got <- backend_got, fin <- backend_fin

ToClient == INSTANCE ByteStream WITH
  Data <- BackendData, Skip <- 0, Prologue <- <<>>,
  sent <- backend_sent, eof <- backend_eof, got <- client_got, fin <- client_fin

\* The backend receives the PROXY header and then the client's bytes, the client
\* the backend's: none is lost, repeated or moved, and no half is shut down
\* before what was read for it is written.
BothAreStreams == ToBackend!Spec /\ ToClient!Spec

\* When the client closes its half the backend is told, after all that came
\* before, while the backend may go on sending; unless a wait fails.
CloseReachesBackend == client_eof ~> backend_fin \/ pc = "failed"

\* When both have closed their halves the task ends.
BothClosedEnds == client_eof /\ backend_eof ~> pc \in {"done", "failed"}

===============================================================================
