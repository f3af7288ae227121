--------------------------- MODULE SessionManager ---------------------------
(***************************************************************************)
(* The session table of the SNI multiplexor (state_track.rs) and the tasks *)
(* that drive it (sni2.rs: sni_connect_and_copy and its helper).           *)
(*                                                                         *)
(* Every accepted connection is a task. It registers a session, marks its  *)
(* progress in the table, and in the end marks it shut down. The table     *)
(* forgets a session Linger time units after it was shut down, but only    *)
(* when some task calls into it: cleanup() runs at the end of every mark.  *)
(* Each mark unwraps a lookup of the task's own session, so a session that *)
(* is forgotten too early panics the task, and main.rs resumes that panic  *)
(* in the main task: the process goes down.                                *)
(*                                                                         *)
(* One step of the model is one critical section of the table's mutex,     *)
(* with the local computation (an await and its outcome) that leads to it. *)
(* Instants are kept relative to now: a queue entry holds the time left    *)
(* until its deadline, so the model needs no unbounded clock. A Ksuid may  *)
(* be used again once no trace of its session is left; the code draws a    *)
(* new one for each connection.                                            *)
(***************************************************************************)
EXTENDS Integers, FiniteSetsExt

CONSTANTS
  Ksuid,          \* the session ids
  Linger,         \* how long a shut down session is kept: 30 seconds
  MaxStall,       \* the longest time between the end of a task's copy loop
                  \* and its mark_shutdown (two lock acquisitions)
  CtrMod,         \* where tie_break_ctr wraps: 0x8000_0000
  BehindHaproxy   \* whether clients send a PROXY header first

ASSUME TimingAssumption ==
  /\ Linger \in Nat
  /\ MaxStall \in Nat
  /\ MaxStall < Linger

ASSUME CtrAssumption == CtrMod \in Nat \ {0}

\* The counter does not come round among the removals of one instant: a
\* session schedules at most two.
ASSUME WidthAssumption ==
  /\ IsFiniteSet(Ksuid)
  /\ CtrMod >= 2 * Cardinality(Ksuid)

ASSUME HaproxyAssumption == BehindHaproxy \in BOOLEAN

VARIABLES
  sessions,       \* the table: the state of each session, and whether it
                  \* still owns the Holder that keeps its task uncancelled
  removal_queue,  \* deadlines at which a session leaves the table
  tie_break_ctr,  \* makes the keys of removal_queue distinct
  task,           \* program counter of each connection's task
  open,           \* per task, the read halves that have not seen EOF
  aborted,        \* a task panicked: the process is gone
  sweeps          \* parity of the number of cleanups so far

vars == <<sessions, removal_queue, tie_break_ctr, task, open, aborted,
          sweeps>>

Halves == {"client", "backend"}

SessionState == {"Handshaking", "BackendResolving", "BackendConnecting",
                 "Connected", "ShutdownRead", "ShutdownWrite", "Shutdown"}

NoSession == [state |-> "absent", holder |-> FALSE]

Present(id) == sessions[id].state # "absent"

\* Where a task can be. "idle": there is no task for this id.
Pc == {"idle", "header", "hello", "resolve", "dial", "copy", "closing"}

Live(id) == task[id] # "idle"

QueueEntry == [ttl : 0 .. Linger, ctr : 0 .. CtrMod - 1, id : Ksuid]

TypeOK ==
  /\ sessions \in [Ksuid -> [state : SessionState \cup {"absent"},
                             holder : BOOLEAN]]
  /\ removal_queue \subseteq QueueEntry
  /\ tie_break_ctr \in 0 .. CtrMod - 1
  /\ task \in [Ksuid -> Pc]
  /\ open \in [Ksuid -> SUBSET Halves]
  /\ aborted \in BOOLEAN
  /\ sweeps \in {0, 1}

Init ==
  /\ sessions = [id \in Ksuid |-> NoSession]
  /\ removal_queue = {}
  /\ tie_break_ctr = 0
  /\ task = [id \in Ksuid |-> "idle"]
  /\ open = [id \in Ksuid |-> {}]
  /\ aborted = FALSE
  /\ sweeps = 0

-----------------------------------------------------------------------------
(* The table's own operations *)

\* The counter is incremented and masked with 0x7FFF_FFFF.
NextCtr(c) == (c + 1) % CtrMod

\* Mutant of Enqueue: the deadline is computed one unit short.
EnqueueShort(id) ==
  {e \in removal_queue : ~(e.ttl = Linger - 1 /\ e.ctr = tie_break_ctr)}
    \cup {[ttl |-> Linger - 1, ctr |-> tie_break_ctr, id |-> id]}

\* removal_queue is a map keyed by (deadline, counter): an insert under a key
\* already there replaces what it held.
Enqueue(id) ==
  {e \in removal_queue : ~(e.ttl = Linger /\ e.ctr = tie_break_ctr)}
    \cup {[ttl |-> Linger, ctr |-> tie_break_ctr, id |-> id]}

\* Mutant of Expired: any deadline is taken as passed once time has moved on.
ExpiredEarly(e) == e.ttl < Linger

\* split_off keeps the keys at or above (now, 0xFFFF_FFFF). No counter gets
\* that high, so a deadline that is exactly now has expired.
Expired(e) == e.ttl = 0

\* Every mark ends with it: sessions whose deadline has passed are removed,
\* and with them whatever Holder they still own.
cleanup(sess, queue) ==
  /\ sessions' = [id \in Ksuid |->
                    IF \E e \in queue : Expired(e) /\ e.id = id
                    THEN NoSession ELSE sess[id]]
  /\ removal_queue' = {e \in queue : ~Expired(e)}
  /\ sweeps' = 1 - sweeps

\* A mark unwraps the lookup of its session, sets the state, and cleans up.
Mark(id, state) ==
  /\ IF Present(id)
     THEN /\ cleanup([sessions EXCEPT ![id].state = state], removal_queue)
          /\ UNCHANGED aborted
     ELSE /\ aborted' = TRUE
          /\ UNCHANGED <<sessions, removal_queue, sweeps>>
  /\ UNCHANGED tie_break_ctr

\* Mutant of MarkShutdown: the removal is not scheduled.
MarkShutdownUnqueued(id) == Mark(id, "Shutdown")

\* The same for a mark that also schedules the removal of the session.
MarkShutdown(id) ==
  IF Present(id)
  THEN /\ cleanup([sessions EXCEPT ![id].state = "Shutdown"], Enqueue(id))
       /\ tie_break_ctr' = NextCtr(tie_break_ctr)
       /\ UNCHANGED aborted
  ELSE /\ aborted' = TRUE
       /\ UNCHANGED <<sessions, removal_queue, tie_break_ctr, sweeps>>

\* mark_shutdown_read and mark_shutdown_write: the half that closes second
\* finds the other one's state and shuts the session down.
MarkHalf(id, mine, other) ==
  IF sessions[id].state = other THEN MarkShutdown(id) ELSE Mark(id, mine)

\* Administrative: takes the Holder, so that the task sees the cancellation.
\* A second destroy, or one of an unknown id, answers an error and changes
\* nothing.
destroy(id) ==
  /\ ~aborted
  /\ Present(id)
  /\ sessions[id].holder
  /\ sessions' = [sessions EXCEPT ![id].holder = FALSE]
  /\ UNCHANGED <<removal_queue, tie_break_ctr, task, open, aborted, sweeps>>

-----------------------------------------------------------------------------
(* The life of a task *)

Goto(id, from, to) ==
  /\ ~aborted
  /\ task[id] = from
  /\ task' = [task EXCEPT ![id] = to]

\* The connection is accepted: a new id, its session and its Holder.
add_session(id) ==
  /\ sessions[id] = NoSession
  /\ \A e \in removal_queue : e.id # id
  /\ Goto(id, "idle", IF BehindHaproxy THEN "header" ELSE "hello")
  /\ sessions' = [sessions EXCEPT ![id] =
                    [state |-> "Handshaking", holder |-> TRUE]]
  /\ open' = [open EXCEPT ![id] = Halves]
  /\ UNCHANGED <<removal_queue, tie_break_ctr, aborted, sweeps>>

\* The helper returns before its copy loop ends: a header, hello, resolve,
\* dial, read, write or shutdown error, or one of the timeouts.
HelperFails(id) ==
  /\ \E pc \in Pc \ {"idle", "closing"} : Goto(id, pc, "closing")
  /\ UNCHANGED <<sessions, removal_queue, tie_break_ctr, open, aborted, sweeps>>

\* Waiting for the PROXY header is not cancelable.
HeaderRead(id) ==
  /\ Goto(id, "header", "hello")
  /\ UNCHANGED <<sessions, removal_queue, tie_break_ctr, open, aborted, sweeps>>

\* Waiting for the ClientHello is; the cancellation is polled first.
HelloRead(id) ==
  /\ sessions[id].holder
  /\ Goto(id, "hello", "resolve")
  /\ Mark(id, "BackendResolving")
  /\ UNCHANGED open

Resolved(id) ==
  /\ Goto(id, "resolve", "dial")
  /\ Mark(id, "BackendConnecting")
  /\ UNCHANGED open

\* Nor is dialling cancelable.
Dialed(id) ==
  /\ Goto(id, "dial", "copy")
  /\ Mark(id, "Connected")
  /\ UNCHANGED open

\* The copy loop moved some bytes: handle_xmit_* keeps the state.
Xmit(id) ==
  /\ sessions[id].holder
  /\ open[id] # {}
  /\ Goto(id, "copy", "copy")
  /\ Mark(id, sessions[id].state)
  /\ UNCHANGED open

\* The copy loop saw EOF on one half. When both are closed it is over.
ReadEof(id, half) ==
  /\ sessions[id].holder
  /\ half \in open[id]
  /\ open' = [open EXCEPT ![id] = @ \ {half}]
  /\ Goto(id, "copy", IF open'[id] = {} THEN "closing" ELSE "copy")
  /\ IF half = "backend"
     THEN MarkHalf(id, "ShutdownRead", "ShutdownWrite")
     ELSE MarkHalf(id, "ShutdownWrite", "ShutdownRead")

\* Mutant of Cancel: only the wait for the ClientHello polls it.
CancelHelloOnly(id) ==
  /\ ~sessions[id].holder
  /\ Goto(id, "hello", "closing")
  /\ UNCHANGED <<sessions, removal_queue, tie_break_ctr, open, aborted, sweeps>>

\* await_with: the Holder is gone.
Cancel(id) ==
  /\ ~sessions[id].holder
  /\ \E pc \in {"hello", "copy"} : Goto(id, pc, "closing")
  /\ UNCHANGED <<sessions, removal_queue, tie_break_ctr, open, aborted, sweeps>>

\* However the helper ended, sni_connect_and_copy marks the session.
mark_shutdown(id) ==
  /\ Goto(id, "closing", "idle")
  /\ MarkShutdown(id)
  /\ open' = [open EXCEPT ![id] = {}]

-----------------------------------------------------------------------------
(* Time passes, but a task whose session is already scheduled for removal *)
(* reaches its mark_shutdown within MaxStall.                             *)

Tick ==
  /\ ~aborted
  /\ \A e \in removal_queue : Live(e.id) => e.ttl > Linger - MaxStall
  /\ removal_queue' = {[e EXCEPT !.ttl = IF @ = 0 THEN 0 ELSE @ - 1] :
                         e \in removal_queue}
  /\ UNCHANGED <<sessions, tie_break_ctr, task, open, aborted, sweeps>>

TaskStep(id) ==
  \/ HelperFails(id)
  \/ HeaderRead(id)
  \/ HelloRead(id)
  \/ Resolved(id)
  \/ Dialed(id)
  \/ Xmit(id)
  \/ \E half \in Halves : ReadEof(id, half)
  \/ Cancel(id)
  \/ mark_shutdown(id)

Next ==
  \/ \E id \in Ksuid : add_session(id) \/ destroy(id) \/ TaskStep(id)
  \/ Tick

\* Every wait of a task has an end: the header and hello reads have a timeout
\* of 4 seconds, the dial ends with the kernel's, a cancellation wakes the
\* tasks that poll it, and the rest is computation. Xmit has no fairness: a
\* connection may move bytes, or not, forever.
Fairness ==
  /\ WF_vars(Tick)
  /\ \A id \in Ksuid :
       /\ WF_vars(task[id] \in {"header", "hello", "resolve", "dial"}
                    /\ TaskStep(id))
       /\ WF_vars(Cancel(id))
       /\ WF_vars(mark_shutdown(id))

Spec == Init /\ [][Next]_vars /\ Fairness

-----------------------------------------------------------------------------
(* Properties *)

\* The unwrap in every mark_* and handle_xmit_* succeeds: as long as a task
\* runs, its session is in the table, whatever other tasks' cleanups removed,
\* so that no task panics. This is what Linger is for.
TaskHasSession ==
  /\ ~aborted
  /\ \A id \in Ksuid : Live(id) => Present(id)

\* Position of each state in a session's life.
Rank(state) ==
  CASE state = "Handshaking" -> 1
    [] state = "BackendResolving" -> 2
    [] state = "BackendConnecting" -> 3
    [] state = "Connected" -> 4
    [] state \in {"ShutdownRead", "ShutdownWrite"} -> 5
    [] state = "Shutdown" -> 6
    [] state = "absent" -> 7

\* A listed session only advances through its states, and leaves the table
\* only from Shutdown and after its task has ended: no late mark revives a
\* session that was closed, and no cleanup takes one that is in use.
SessionAdvances ==
  [][\A id \in Ksuid :
       LET s == sessions[id].state
           t == sessions'[id].state
       IN  s # "absent" /\ t # s =>
             /\ Rank(s) < Rank(t)
             /\ t = "absent" => s = "Shutdown" /\ task[id] = "idle"]_vars

\* How the table looks to whoever lists it.
ListedPhase ==
  [id \in Ksuid |-> CASE sessions[id].state = "absent" -> "absent"
                      [] sessions[id].state = "Shutdown" -> "closed"
                      [] OTHER -> "open"]

\* A closed session leaves with the earliest of its deadlines.
ListedLeft ==
  [id \in Ksuid |->
     IF sessions[id].state = "Shutdown"
     THEN Min({e.ttl : e \in {q \in removal_queue : q.id = id}})
     ELSE 0]

Listing == INSTANCE SessionListing WITH phase <- ListedPhase,
                                        left <- ListedLeft

\* The table, its tasks and its queue implement SessionListing: whatever the
\* order of marks and cleanups, each session closes at most once and stays
\* listed for the full Linger after it closed.
ImplementsListing == Listing!Spec

\* A session destroyed by an administrator comes to an end, even when it was
\* in one of the waits that cannot be cancelled.
DestroyedSessionEnds ==
  \A id \in Ksuid :
    (Live(id) /\ Present(id) /\ ~sessions[id].holder) ~> ~Live(id)

\* While there is traffic, a session that has ended leaves the table. (With
\* none it stays listed: nothing else runs cleanup.)
EndedSessionForgotten ==
  []<><<sweeps' # sweeps>>_vars =>
    \A id \in Ksuid : (Present(id) /\ ~Live(id)) ~> ~Present(id)

=============================================================================
