------------------------------ MODULE MCBackends ------------------------------
(* Backends for TLC: the configurations the runs start from. *)
EXTENDS Backends, TLC

CONSTANTS h1, h2, b1

\* One hostname is configured, with one location.
MCConfig == [h \in Hosts |-> IF h = h1
                             THEN [version |-> "v1", locations |-> {b1}]
                             ELSE Vacant]

ClientSymmetry == Permutations(Clients)

===============================================================================
