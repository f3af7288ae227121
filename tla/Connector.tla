------------------------------ MODULE Connector ------------------------------
(***************************************************************************)
(* The client side of a sidecar service (tonic/linker-connector): the      *)
(* connections a component was started with, handed out one per call to    *)
(* the clones of one connector. A counter beside the locked list spares    *)
(* the clones the lock once nothing is left.                               *)
(***************************************************************************)
EXTENDS Naturals, Sequences, SequencesExt

CONSTANTS
  Clones,         \* of the connector
  Pushed,         \* the connections, in the order they were pushed
  NoClone

ASSUME PushedAssumption == Pushed \in Seq(ToSet(Pushed))

ASSUME NoCloneAssumption == NoClone \notin Clones

VARIABLES
  connecteds,     \* the list, last one first
  remaining,      \* remaining_connectors
  lock,           \* the clone whose call holds the list
  finished,       \* each clone's fast path
  call,           \* what each clone's last call came to
  handed          \* the connections that calls have taken, in order

connVars == <<connecteds, remaining, lock, finished, call, handed>>

ConnInit ==
  /\ connecteds = Reverse(Pushed)
  /\ remaining = Len(Pushed)
  /\ lock = NoClone
  /\ finished = [c \in Clones |-> Pushed = <<>>]
  /\ call = [c \in Clones |-> "none"]
  /\ handed = <<>>

Idle(c) == call[c] \in {"none", "ready", "never_ready", "connected", "refused", "dropped"}

\* A clone that has seen the counter at zero is never ready again, and nothing
\* wakes its caller.
PollReady(c) ==
  /\ Idle(c)
  /\ call[c] # "never_ready"
  /\ finished' = [finished EXCEPT ![c] = @ \/ remaining = 0]
  /\ call' = [call EXCEPT ![c] = IF finished'[c] THEN "never_ready" ELSE "ready"]
  /\ UNCHANGED <<connecteds, remaining, lock, handed>>

\* Mutant of Call: the call takes its place in the counter at once.
CallReserves(c) ==
  /\ call[c] = "ready"
  /\ finished' = [finished EXCEPT ![c] = @ \/ remaining = 0]
  /\ call' = [call EXCEPT ![c] = IF finished'[c] THEN "refused" ELSE "waiting"]
  /\ remaining' = IF finished'[c] THEN remaining ELSE remaining - 1
  /\ UNCHANGED <<connecteds, lock, handed>>

\* Other clones may have taken the rest since this one was ready.
Call(c) ==
  /\ call[c] = "ready"
  /\ finished' = [finished EXCEPT ![c] = @ \/ remaining = 0]
  /\ call' = [call EXCEPT ![c] = IF finished'[c] THEN "refused" ELSE "waiting"]
  /\ UNCHANGED <<connecteds, remaining, lock, handed>>

Lock(c) ==
  /\ call[c] = "waiting"
  /\ lock = NoClone
  /\ lock' = c
  /\ call' = [call EXCEPT ![c] = "locked"]
  /\ UNCHANGED <<connecteds, remaining, finished, handed>>

Pop(c) ==
  /\ call[c] = "locked"
  /\ IF connecteds = <<>>
     THEN /\ call' = [call EXCEPT ![c] = "refused"]
          /\ lock' = NoClone
          /\ UNCHANGED <<connecteds, handed>>
     ELSE /\ call' = [call EXCEPT ![c] = "popped"]
          /\ connecteds' = Front(connecteds)
          /\ handed' = Append(handed, Last(connecteds))
          /\ UNCHANGED lock
  /\ UNCHANGED <<remaining, finished>>

\* The counter is set while the list is still locked.
Store(c) ==
  /\ call[c] = "popped"
  /\ remaining' = Len(connecteds)
  /\ lock' = NoClone
  /\ call' = [call EXCEPT ![c] = "connected"]
  /\ UNCHANGED <<connecteds, finished, handed>>

\* The caller gives up before the lock is had.
DropCall(c) ==
  /\ call[c] = "waiting"
  /\ call' = [call EXCEPT ![c] = "dropped"]
  /\ UNCHANGED <<connecteds, remaining, lock, finished, handed>>

ConnNext ==
  \E c \in Clones :
    PollReady(c) \/ Call(c) \/ Lock(c) \/ Pop(c) \/ Store(c) \/ DropCall(c)

ConnSpec == ConnInit /\ [][ConnNext]_connVars

-------------------------------------------------------------------------------

\* Safety: every connection goes to one call, in the order they were pushed, and
\* no call is refused, nor any clone finished, while one is left: a call that
\* was given up has not used one up.
RefusedOnlyWhenEmpty ==
  /\ handed \o Reverse(connecteds) = Pushed
  /\ \A c \in Clones : finished[c] \/ call[c] = "refused" => connecteds = <<>>

===============================================================================
