------------------------------ MODULE BodyStream -------------------------------
(***************************************************************************)
(* How the torrent web server sends a file, or ranges of it (main.rs of    *)
(* boss/webserver, from the spans to the response): a spawned task asks    *)
(* the piece server for every piece that a span touches, block by block,   *)
(* cuts the piece to the span, and hands it to the response over a channel *)
(* with room for two.                                                      *)
(*                                                                         *)
(* A byte of the torrent is named by its offset; Stale is a byte that no   *)
(* read has set. A boundary between ranges is one element of the stream.   *)
(***************************************************************************)
EXTENDS Integers, Sequences

CONSTANTS
  Requests,       \* the requests: [offset, length, ranges], ranges <<>> for no Range header
  TotalLength,    \* of the torrent
  BlockSize,      \* BLOCK_SIZE
  BlocksPerPiece  \* 1 << (piece_length_shift - BLOCK_SIZE_SHIFT)

\* A file lies in its torrent; parsing leaves no negative start in a range.
ASSUME BodyAssumption ==
  /\ TotalLength \in Nat
  /\ {BlockSize, BlocksPerPiece} \subseteq Nat \ {0}
  /\ \A r \in Requests :
       /\ {r.offset, r.length} \subseteq Nat
       /\ r.offset + r.length <= TotalLength
       /\ r.ranges \in Seq(Nat \X Int)

VARIABLES
  request,        \* what is asked for
  task,           \* the spawned task
  piece_data,     \* the blocks of the piece that came
  tmp_data,       \* the buffer that blocks are read into
  chan,           \* the channel
  body,           \* what the client has received
  response        \* "none", the error, "open", or "ended"

buffers == <<piece_data, tmp_data>>

bodyVars == <<request, task, buffers, chan, body, response>>

ChannelRoom == 2

MaxSpans == 30

Stale == -1

Boundary == "boundary"

PieceSize == BlocksPerPiece * BlockSize

-------------------------------------------------------------------------------
(* get_ranges. A range is <<first, last>>; last is NoEnd if it is left out.  *)

NoEnd == -1

RangeEnd(range, size) == IF range[2] = NoEnd THEN size - 1 ELSE range[2]

\* A range must begin inside the file and hold more than one byte.
OutOfRange(range, size) == size <= range[1] \/ RangeEnd(range, size) <= range[1]

Span(start, length) == [start |-> start, length |-> length]

GetRanges(ranges, size) ==
  [i \in DOMAIN ranges |->
     Span(ranges[i][1], RangeEnd(ranges[i], size) - ranges[i][1] + 1)]

\* The spans that are sent, and the error that is answered instead.
Spans(req) ==
  IF req.ranges = <<>> THEN <<Span(0, req.length)>> ELSE GetRanges(req.ranges, req.length)

RangeError(req) ==
  IF \E i \in DOMAIN req.ranges : OutOfRange(req.ranges[i], req.length) THEN "out_of_range"
  ELSE IF Len(Spans(req)) > MaxSpans THEN "client_error"
  ELSE "none"

Multipart(req) == Len(req.ranges) > 1

-------------------------------------------------------------------------------
(* The task. "span" is the span it sends, "piece" the piece, "skip" where    *)
(* the span begins in it, "to_send" what is left.                            *)

TaskAt(at) == [pc |-> at, span |-> 0, piece |-> 0, skip |-> 0, to_send |-> 0]

NoTask == TaskAt("none")

FreshBuffer == [i \in 1..BlockSize |-> Stale]

\* Mutant of AtSpan: a span is sent from the start of its first piece.
AtSpanAligned(i) ==
  LET sp == Spans(request)[i]
  IN  [pc |-> IF Multipart(request) THEN "boundary" ELSE "fetch", span |-> i,
       piece |-> (request.offset + sp.start) \div PieceSize, skip |-> 0, to_send |-> sp.length]

\* The task at the beginning of its i-th span.
AtSpan(i) ==
  LET sp == Spans(request)[i]
      start == request.offset + sp.start
  IN  [pc |-> IF Multipart(request) THEN "boundary" ELSE "fetch", span |-> i,
       piece |-> start \div PieceSize, skip |-> start % PieceSize, to_send |-> sp.length]

BodyInit ==
  /\ request \in Requests
  /\ task = NoTask
  /\ piece_data = <<>>
  /\ tmp_data = FreshBuffer
  /\ chan = <<>>
  /\ body = <<>>
  /\ response = "none"

\* The request is answered with an error, or the task is started; the connection
\* to the piece server may not come about.
Respond ==
  /\ response = "none"
  /\ \/ /\ RangeError(request) # "none"
        /\ response' = RangeError(request)
        /\ UNCHANGED task
     \/ /\ RangeError(request) = "none"
        /\ response' = "internal_error"
        /\ UNCHANGED task
     \/ /\ RangeError(request) = "none"
        /\ response' = "open"
        /\ task' = AtSpan(1)
  /\ UNCHANGED <<request, buffers, chan, body>>

\* What follows a span that has been sent: the next, the last boundary, or nothing.
AfterSpan(i) ==
  IF i < Len(Spans(request)) THEN AtSpan(i + 1)
  ELSE IF Multipart(request) THEN TaskAt("closing")
  ELSE TaskAt("done")

\* The header before each part and the boundary after the last one are sent.
SendBoundary ==
  /\ task.pc \in {"boundary", "closing"}
  /\ Len(chan) < ChannelRoom
  /\ chan' = Append(chan, <<Boundary>>)
  /\ task' = IF task.pc = "closing" THEN TaskAt("done")
             ELSE [task EXCEPT !.pc = "fetch"]
  /\ UNCHANGED <<request, buffers, body, response>>

\* A round of the loop begins: the blocks of the piece are asked for.
AskPiece ==
  /\ task.pc = "fetch"
  /\ task.to_send # 0
  /\ task' = [task EXCEPT !.pc = "blocks"]
  /\ piece_data' = <<>>
  /\ tmp_data' = FreshBuffer
  /\ UNCHANGED <<request, chan, body, response>>

\* The block that the piece server has next: the torrent may end in it, or before.
BlockStart == task.piece * PieceSize + Len(piece_data)

BlockLength ==
  CHOOSE n \in 0..BlockSize :
    /\ n = BlockSize \/ BlockStart + n >= TotalLength
    /\ n = 0 \/ BlockStart + n <= TotalLength

\* A block is read into the buffer, and all of the buffer is added to the piece.
ReadBlock ==
  /\ task.pc = "blocks"
  /\ Len(piece_data) < PieceSize
  /\ tmp_data' = [i \in 1..BlockSize |->
                    IF i <= BlockLength THEN BlockStart + i - 1 ELSE tmp_data[i]]
  /\ piece_data' = piece_data \o tmp_data'
  /\ UNCHANGED <<request, task, chan, body, response>>

\* The task after n bytes that did not end its span: at the start of the next piece.
Advanced(n) ==
  [pc |-> "fetch", span |-> task.span, piece |-> task.piece + 1, skip |-> 0,
   to_send |-> task.to_send - n]

\* The piece is cut to the span and sent.
SendPiece ==
  /\ task.pc = "blocks"
  /\ Len(piece_data) = PieceSize
  /\ Len(chan) < ChannelRoom
  /\ LET rest == SubSeq(piece_data, task.skip + 1, PieceSize)
         part == IF task.to_send < Len(rest) THEN SubSeq(rest, 1, task.to_send) ELSE rest
     IN  /\ chan' = Append(chan, part)
         /\ task' = IF task.to_send = Len(part) THEN AfterSpan(task.span)
                    ELSE Advanced(Len(part))
  /\ UNCHANGED <<request, buffers, body, response>>

\* An empty span (of an empty file) is sent without a piece.
EmptySpan ==
  /\ task.pc = "fetch"
  /\ task.to_send = 0
  /\ task' = AfterSpan(task.span)
  /\ UNCHANGED <<request, buffers, chan, body, response>>

\* The connection to the piece server breaks, or the client is gone: the task
\* returns, and says so to nobody.
TaskReturns ==
  /\ task.pc \notin {"none", "done", "returned"}
  /\ task' = TaskAt("returned")
  /\ UNCHANGED <<request, buffers, chan, body, response>>

\* Mutant of Deliver: the response only ends when all has been sent.
DeliverWaits ==
  /\ response = "open"
  /\ \/ /\ chan # <<>>
        /\ body' = body \o Head(chan)
        /\ chan' = Tail(chan)
        /\ UNCHANGED response
     \/ /\ chan = <<>>
        /\ task.pc = "done"
        /\ response' = "ended"
        /\ UNCHANGED <<body, chan>>
  /\ UNCHANGED <<request, task, buffers>>

\* The response takes from the channel, and ends when the sender is gone.
Deliver ==
  /\ response = "open"
  /\ \/ /\ chan # <<>>
        /\ body' = body \o Head(chan)
        /\ chan' = Tail(chan)
        /\ UNCHANGED response
     \/ /\ chan = <<>>
        /\ task.pc \in {"done", "returned"}
        /\ response' = "ended"
        /\ UNCHANGED <<body, chan>>
  /\ UNCHANGED <<request, task, buffers>>

BodyStep == SendBoundary \/ AskPiece \/ ReadBlock \/ SendPiece \/ EmptySpan

BodyNext == Respond \/ BodyStep \/ TaskReturns \/ Deliver

BodySpec == BodyInit /\ [][BodyNext]_bodyVars

-------------------------------------------------------------------------------
(* Properties *)

\* The bytes of a span of the requested file, by their place in the torrent.
Bytes(req, sp) == [i \in 1..sp.length |-> req.offset + sp.start + i - 1]

\* What a request asks for, from each of its spans on: every span behind a boundary
\* if there are several, and then a boundary at the end.
ExpectedFrom(req) ==
  LET boundary == IF Multipart(req) THEN <<Boundary>> ELSE <<>>
      from[i \in 1 .. Len(Spans(req)) + 1] ==
        IF i > Len(Spans(req)) THEN boundary
        ELSE boundary \o Bytes(req, Spans(req)[i]) \o from[i + 1]
  IN  from

Expected == ExpectedFrom(request)[1]

\* Safety: at every moment the client has a prefix of what it asked for (each
\* range, from the bytes of its own file, in the order it was asked for and
\* with a boundary around it), and all of it once the task has come to its
\* end. The blocks of a piece, the part of the first piece before the span and
\* the buffer that keeps old bytes behind a short block never show.
BodyIsTheSpans ==
  /\ Len(body) <= Len(Expected)
  /\ body = SubSeq(Expected, 1, Len(body))
  /\ response = "ended" /\ task.pc = "done" => body = Expected

\* Liveness: a response that was begun ends, if the piece server answers and the
\* client reads: every round of the loop sends at least one byte of the span.
BodyEnds == response = "open" ~> response = "ended"

===============================================================================
