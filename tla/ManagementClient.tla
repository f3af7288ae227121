--------------------------- MODULE ManagementClient ---------------------------
(***************************************************************************)
(* One connection of the multiplexor's management protocol: the loop of    *)
(* start_management_client (mgmt_proto.rs), which reads lines, handles one *)
(* at a time and writes the answer, against a client that sends lines in   *)
(* pieces and may close its end at any time.                               *)
(*                                                                         *)
(* A token is a piece of a line: the request of the line, and whether this *)
(* is the piece with the newline; once sent it goes by its place in the    *)
(* stream. What a request does to the registry and to the sessions is in   *)
(* Backends and SessionManager.                                            *)
(***************************************************************************)
EXTENDS Naturals, Sequences, Functions

CONSTANTS
  Streams,     \* what the client may send: sequences of tokens
  MaxLine,     \* pieces of a line that is not too long (4096 bytes)
  Reply,       \* pieces of an answer
  BufCap       \* pieces the read buffer has room for (1024 bytes)

\* "query" stands for the requests of handle_query; "bad" for the lines that
\* from_str refuses with a recoverable error.
Requests == {"query", "quit", "bad"}

Token == [req : Requests, last : BOOLEAN]

ASSUME ClientAssumption ==
  /\ Streams \subseteq Seq(Token)
  /\ MaxLine \in Nat
  /\ Reply \in Nat \ {0}
  /\ BufCap \in Nat \ {0}

VARIABLES
  patient,     \* the client waits for an answer before it sends a line
  stream,      \* what the client will send
  sent,        \* how many tokens of it are sent
  received,    \* how many of those the server has read
  eof,         \* the client has closed its end
  read_buf,    \* the places of the tokens not decoded yet
  room,        \* what is left of the read buffer's capacity
  running,     \* the loop's flag
  to_write,    \* pieces of the current answer not written yet
  handled,     \* the places of the queries handled so far
  answered,    \* the number of answers written in full
  pc           \* "loop"; "done": held backends released; "failed": Err;
               \* "refused": Err after a recoverable error

client == <<patient, stream, sent, eof>>
clientVars == <<client, received, read_buf, room, running, to_write, handled, answered, pc>>

ClientInit ==
  /\ patient \in BOOLEAN
  /\ stream \in Streams
  /\ sent = 0
  /\ received = 0
  /\ eof = FALSE
  /\ read_buf = <<>>
  /\ room = BufCap
  /\ running = TRUE
  /\ to_write = 0
  /\ handled = <<>>
  /\ answered = 0
  /\ pc = "loop"

-------------------------------------------------------------------------------
(* The client *)

\* The requests of the complete lines among the first n tokens.
Lines(n) ==
  [i \in 1..Len(SelectSeq(SubSeq(stream, 1, n), LAMBDA t : t.last)) |->
     SelectSeq(SubSeq(stream, 1, n), LAMBDA t : t.last)[i].req]

\* A patient client sends whole lines and waits for each answer.
Send(n) ==
  /\ ~eof
  /\ sent + n <= Len(stream)
  /\ patient => /\ stream[sent + n].last
                /\ \A i \in sent + 1 .. sent + n - 1 : ~stream[i].last
                /\ answered = Len(Lines(sent))
  /\ sent' = sent + n
  /\ UNCHANGED <<patient, stream, eof, received, read_buf, room, running, to_write,
                 handled, answered, pc>>

Close ==
  /\ ~eof
  /\ patient => sent = Len(stream)
  /\ eof' = TRUE
  /\ UNCHANGED <<patient, stream, sent, received, read_buf, room, running, to_write,
                 handled, answered, pc>>

-------------------------------------------------------------------------------
(* decode_ascii_manager_request *)

HasLine(buf) == \E i \in DOMAIN buf : stream[buf[i]].last

\* The position of the first newline.
Eol(buf) == CHOOSE i \in DOMAIN buf :
              stream[buf[i]].last /\ \A j \in 1 .. i - 1 : ~stream[buf[j]].last

-------------------------------------------------------------------------------
(* The server's loop *)

\* Mutant of Write: the rest of a partly written answer is dropped.
WriteOnce(k) ==
  /\ pc = "loop"
  /\ to_write # 0
  /\ k <= to_write
  /\ to_write' = 0
  /\ answered' = IF k = to_write THEN answered + 1 ELSE answered
  /\ UNCHANGED <<client, received, read_buf, room, running, handled, pc>>

\* write_from, as often as it takes.
Write(k) ==
  /\ pc = "loop"
  /\ to_write # 0
  /\ k <= to_write
  /\ to_write' = to_write - k
  /\ answered' = IF k = to_write THEN answered + 1 ELSE answered
  /\ UNCHANGED <<client, received, read_buf, room, running, handled, pc>>

Stop ==
  /\ pc = "loop"
  /\ to_write = 0
  /\ ~running
  /\ pc' = "done"
  /\ UNCHANGED <<client, received, read_buf, room, running, to_write, handled,
                 answered>>

\* Mutant of Rest: the newline stays in the buffer.
RestRepeats(buf) == SubSeq(buf, Eol(buf), Len(buf))

\* split_to(eol + 1).
Rest(buf) == SubSeq(buf, Eol(buf) + 1, Len(buf))

\* What the loop does with what it has read: one request at most. The answer
\* to a bad line is encoded, but the loop returns before it is written.
Decode(buf, run) ==
  IF ~HasLine(buf)
  THEN /\ pc' = IF Len(buf) > MaxLine THEN "failed" ELSE "done"
       /\ read_buf' = buf
       /\ running' = run
       /\ UNCHANGED <<to_write, handled>>
  ELSE LET place == buf[Eol(buf)]
           req == stream[place].req
       IN  /\ read_buf' = Rest(buf)
           /\ running' = (run /\ req # "quit")
           /\ to_write' = IF req = "quit" THEN 0 ELSE Reply
           /\ handled' = IF req = "query" THEN Append(handled, place) ELSE handled
           /\ pc' = IF req = "bad" THEN "refused" ELSE pc

\* What a read has room for: BytesMut makes more only when there is none.
Room == IF room = 0 THEN BufCap ELSE room

\* read_into returns n > 0 tokens: what has arrived, or less. The line of a
\* patient client arrives whole.
Read(n) ==
  /\ pc = "loop"
  /\ to_write = 0
  /\ running
  /\ received + n <= sent
  /\ n <= Room
  /\ patient => n = sent - received \/ n = Room
  /\ received' = received + n
  /\ room' = Room - n
  /\ Decode(read_buf \o [i \in 1 .. n |-> received + i], TRUE)
  /\ UNCHANGED <<client, answered>>

\* read_into returns 0.
ReadEof ==
  /\ pc = "loop"
  /\ to_write = 0
  /\ running
  /\ eof
  /\ received = sent
  /\ Decode(read_buf, FALSE)
  /\ UNCHANGED <<client, received, room, answered>>

\* A read, a write or an encoding fails.
ClientFails ==
  /\ pc = "loop"
  /\ ~patient
  /\ pc' = "failed"
  /\ UNCHANGED <<client, received, read_buf, room, running, to_write, handled,
                 answered>>

-------------------------------------------------------------------------------

Server ==
  \/ \E k \in 1..Reply : Write(k)
  \/ \E n \in 1..Len(stream) : Read(n)
  \/ ReadEof
  \/ Stop

ClientNext ==
  \/ \E n \in 1..Len(stream) : Send(n)
  \/ Close
  \/ Server
  \/ ClientFails

ClientSpec == ClientInit /\ [][ClientNext]_clientVars

\* The server's task is polled whenever its socket is ready, and the client
\* takes what is written to it. A patient client does send its lines.
FairSpec ==
  /\ ClientSpec
  /\ WF_clientVars(Server)
  /\ WF_clientVars(patient /\ \E n \in 1..Len(stream) : Send(n))

-------------------------------------------------------------------------------
(* Properties *)

\* The places of the queries that were read in full.
Queries ==
  {p \in 1 .. received : stream[p].last /\ stream[p].req = "query"}

\* Requests are handled in the order they were sent, none twice, none left out
\* and none that was not read in full, however the stream is cut into reads.
HandledInOrder ==
  /\ Range(handled) \subseteq Queries
  /\ \A i, j \in DOMAIN handled : i < j => handled[i] < handled[j]
  /\ \A q \in Queries, p \in Range(handled) : q < p => q \in Range(handled)

\* Every request of a client that waits for its answers is answered, up to the
\* first quit and the first line that does not parse, as long as the read
\* buffer's capacity lasts.
PatientServed ==
  LET lines == Lines(Len(stream))
  IN  patient /\ Len(stream) <= BufCap =>
        <>(\A i \in DOMAIN lines :
             (\A j \in 1..i : lines[j] = "query") => answered >= i)

===============================================================================
