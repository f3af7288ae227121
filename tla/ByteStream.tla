------------------------------ MODULE ByteStream ------------------------------
(***************************************************************************)
(* What a proxied connection promises in one direction: the receiver gets  *)
(* a prologue and then what the sender sent, after the part meant for the  *)
(* proxy, in order and without gaps; it is told of the end only when it    *)
(* has everything.                                                         *)
(***************************************************************************)
EXTENDS Naturals, Sequences

CONSTANTS
  Data,        \* what the sender will send
  Skip,        \* how much of it is for the proxy
  Prologue     \* what the proxy puts in front

VARIABLES
  sent,        \* how much is sent
  eof,         \* the sender has closed its end
  got,         \* what has arrived
  fin          \* the receiver was told of the end

vars == <<sent, eof, got, fin>>

\* All that may have arrived.
Expected == Prologue \o SubSeq(Data, Skip + 1, sent)

Init == sent = 0 /\ eof = FALSE /\ got = <<>> /\ fin = FALSE

Send ==
  /\ ~eof
  /\ sent' \in sent + 1 .. Len(Data)
  /\ UNCHANGED <<eof, got, fin>>

Close ==
  /\ eof' = TRUE
  /\ UNCHANGED <<sent, got, fin>>

Deliver ==
  /\ ~fin
  /\ \E n \in Len(got) + 1 .. Len(Expected) : got' = SubSeq(Expected, 1, n)
  /\ UNCHANGED <<sent, eof, fin>>

Finish ==
  /\ eof
  /\ got = Expected
  /\ fin' = TRUE
  /\ UNCHANGED <<sent, eof, got>>

Next == Send \/ Close \/ Deliver \/ Finish

Spec == Init /\ [][Next]_vars

===============================================================================
