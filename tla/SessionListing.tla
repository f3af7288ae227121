---------------------------- MODULE SessionListing ----------------------------
(***************************************************************************)
(* What the multiplexor's session table promises to whoever lists it       *)
(* (print-active-sessions), without tasks, cancellation or the queue: a    *)
(* session is listed from its accept on, closes once, stays listed for     *)
(* Linger time units after that, and may then disappear together with      *)
(* others that are due.                                                    *)
(***************************************************************************)
EXTENDS Naturals

CONSTANTS Ksuid, Linger

VARIABLES
  phase,   \* "absent", "open" or "closed"
  left     \* how long a closed session must still be listed

Init ==
  /\ phase = [id \in Ksuid |-> "absent"]
  /\ left = [id \in Ksuid |-> 0]

Open(id) ==
  /\ phase[id] = "absent"
  /\ phase' = [phase EXCEPT ![id] = "open"]
  /\ UNCHANGED left

\* At most one session closes, and any of those that are due disappear.
CloseAndForget(closing, due) ==
  /\ \A id \in closing : phase[id] = "open"
  /\ \A id, jd \in closing : id = jd
  /\ \A id \in due : phase[id] = "closed" /\ left[id] = 0
  /\ phase' = [id \in Ksuid |-> IF id \in closing THEN "closed"
                                ELSE IF id \in due THEN "absent"
                                ELSE phase[id]]
  /\ left' = [id \in Ksuid |-> IF id \in closing THEN Linger ELSE left[id]]

Tick ==
  /\ left' = [id \in Ksuid |-> IF left[id] = 0 THEN 0 ELSE left[id] - 1]
  /\ UNCHANGED phase

Next ==
  \/ \E id \in Ksuid : Open(id)
  \/ \E closing, due \in SUBSET Ksuid : CloseAndForget(closing, due)
  \/ Tick

Spec == Init /\ [][Next]_<<phase, left>>

===============================================================================
