-------------------------- MODULE MCManagementClient --------------------------
(* ManagementClient for TLC: the streams the clients of the runs send. *)
EXTENDS ManagementClient

\* A line of n pieces.
Line(r, n) == [i \in 1..n |-> [req |-> r, last |-> i = n]]

\* Three lines of one or two pieces, and part of a fourth.
MixedStreams ==
  {Line(a, m) \o Line(b, n) \o Line(c, 1) \o SubSeq(Line("query", 2), 1, k) :
     a, b, c \in Requests, m, n \in 1..2, k \in 0..1}

===============================================================================
