------------------------------ MODULE Multiplexor ------------------------------
(***************************************************************************)
(* The SNI multiplexor's main (main.rs): two accept loops, one for         *)
(* management clients and one for data, spawn a task for each connection   *)
(* and hand its join handle to main over a channel; main waits for a       *)
(* bounded number of tasks at a time and reports how they ended.           *)
(***************************************************************************)
EXTENDS Naturals, Sequences, FiniteSets

CONSTANTS
  Conns,          \* the connections that clients make
  Room,           \* of the channel (16 in the code)
  Slots,          \* how many tasks main waits for (1024)
  Data            \* the connections to the data socket

ASSUME ConnsAssumption == Conns \cap {"mgmt", "data"} = {}

VARIABLES
  main,           \* where main is; "crashed" and "returned" end the process
  loop,           \* the state of each accept loop
  send,           \* the handle that each loop is about to send: <<handle>> or <<>>
  chan,           \* the channel of handles
  buffer,         \* the handles that main waits for
  conn,           \* the state of each connection
  tasks           \* the state of the tasks that have been spawned

muxVars == <<main, loop, send, chan, buffer, conn, tasks>>

Loops == {"mgmt", "data"}

LoopOf(c) == IF c \in Data THEN "data" ELSE "mgmt"

Handles == Loops \cup Conns

Spawning(l) == IF l = "mgmt" THEN "spawn_mgmt" ELSE "spawn_data"

Sending(l) == IF l = "mgmt" THEN "send_mgmt" ELSE "send_data"

Running == main \notin {"crashed", "returned"}

Alive(t) == tasks[t] = "running"

\* The kernel keeps the connections that were made until they are accepted; one
\* that is made later is one that is accepted later.
MuxInit ==
  /\ main = "spawn_mgmt"
  /\ loop = [l \in Loops |-> "none"]
  /\ send = [l \in Loops |-> <<>>]
  /\ chan = <<>>
  /\ buffer = {}
  /\ conn = [c \in Conns |-> "backlog"]
  /\ tasks = [h \in Handles |-> "none"]

-------------------------------------------------------------------------------
(* Main, until it waits *)

\* A loop is spawned. It runs from then on, and main sends its handle.
SpawnLoop(l) ==
  /\ main = Spawning(l)
  /\ tasks' = [tasks EXCEPT ![l] = "running"]
  /\ loop' = [loop EXCEPT ![l] = "accept"]
  /\ main' = Sending(l)
  /\ UNCHANGED <<send, chan, buffer, conn>>

\* Main waits for room in the channel that it will be the one to empty.
SendLoop(l) ==
  /\ main = Sending(l)
  /\ Len(chan) < Room
  /\ chan' = Append(chan, l)
  /\ main' = IF l = "mgmt" THEN "resolver" ELSE "reap"
  /\ UNCHANGED <<loop, send, buffer, conn, tasks>>

\* Without a resolver for the backends' names main returns, and all of it ends.
MakeResolver ==
  /\ main = "resolver"
  /\ main' \in {"spawn_data", "returned"}
  /\ UNCHANGED <<loop, send, chan, buffer, conn, tasks>>

-------------------------------------------------------------------------------
(* The accept loops *)

\* Mutant of Accept: the loop goes on without sending the handle.
AcceptDetached(c) ==
  LET l == LoopOf(c)
  IN  /\ Running
      /\ loop[l] = "accept"
      /\ conn[c] = "backlog"
      /\ conn' = [conn EXCEPT ![c] = "open"]
      /\ tasks' = [tasks EXCEPT ![c] = "running"]
      /\ UNCHANGED <<main, chan, buffer, send, loop>>

\* A connection is accepted and its task is spawned.
Accept(c) ==
  LET l == LoopOf(c)
  IN  /\ Running
      /\ loop[l] = "accept"
      /\ conn[c] = "backlog"
      /\ conn' = [conn EXCEPT ![c] = "open"]
      /\ tasks' = [tasks EXCEPT ![c] = "running"]
      /\ send' = [send EXCEPT ![l] = <<c>>]
      /\ loop' = [loop EXCEPT ![l] = "send"]
      /\ UNCHANGED <<main, chan, buffer>>

\* A data connection without a local address is dropped.
DropUnnamed(c) ==
  /\ Running
  /\ c \in Data
  /\ loop["data"] = "accept"
  /\ conn[c] = "backlog"
  /\ conn' = [conn EXCEPT ![c] = "closed"]
  /\ UNCHANGED <<main, loop, send, chan, buffer, tasks>>

\* Accepting fails, for want of descriptors or because the client is gone: the
\* loop returns.
AcceptFails(l) ==
  /\ Running
  /\ loop[l] = "accept"
  /\ loop' = [loop EXCEPT ![l] = "ended"]
  /\ tasks' = [tasks EXCEPT ![l] = "done"]
  /\ UNCHANGED <<main, send, chan, buffer, conn>>

\* The handle is sent when the channel has room for it.
SendHandle(l) ==
  /\ Running
  /\ loop[l] = "send"
  /\ Len(chan) < Room
  /\ chan' = Append(chan, send[l][1])
  /\ send' = [send EXCEPT ![l] = <<>>]
  /\ loop' = [loop EXCEPT ![l] = "accept"]
  /\ UNCHANGED <<main, buffer, conn, tasks>>

-------------------------------------------------------------------------------
(* The clients' tasks, and main as it waits for them *)

\* A task ends: it returns, or it panics.
TaskEnds(c) ==
  /\ Running
  /\ Alive(c)
  /\ tasks' \in {[tasks EXCEPT ![c] = e] : e \in {"done", "panicked"}}
  /\ conn' = [conn EXCEPT ![c] = "closed"]
  /\ UNCHANGED <<main, loop, send, chan, buffer>>

\* Mutant of TakeHandle: main waits for one task at a time.
TakeHandleOne ==
  /\ main = "reap"
  /\ chan # <<>>
  /\ buffer = {}
  /\ buffer' = buffer \cup {Head(chan)}
  /\ chan' = Tail(chan)
  /\ UNCHANGED <<main, loop, send, conn, tasks>>

\* buffer_unordered takes handles while it has a slot.
TakeHandle ==
  /\ main = "reap"
  /\ chan # <<>>
  /\ Cardinality(buffer) < Slots
  /\ buffer' = buffer \cup {Head(chan)}
  /\ chan' = Tail(chan)
  /\ UNCHANGED <<main, loop, send, conn, tasks>>

\* A task has ended; if it panicked, so does main.
Reap(h) ==
  /\ main = "reap"
  /\ h \in buffer
  /\ tasks[h] \in {"done", "panicked"}
  /\ buffer' = buffer \ {h}
  /\ main' = IF tasks[h] = "panicked" THEN "crashed" ELSE main
  /\ UNCHANGED <<loop, send, chan, conn, tasks>>

MuxNext ==
  \/ MakeResolver \/ TakeHandle
  \/ \E c \in Conns : Accept(c) \/ DropUnnamed(c) \/ TaskEnds(c)
  \/ \E l \in Loops : SpawnLoop(l) \/ SendLoop(l) \/ AcceptFails(l) \/ SendHandle(l)
  \/ \E h \in Handles : Reap(h)

MuxSpec == MuxInit /\ [][MuxNext]_muxVars

-------------------------------------------------------------------------------
(* Properties *)

\* Where main's knowledge of a task is: in the hand of a loop or of main, in the
\* channel or in the buffer.
Places(h) ==
  {<<"loop", l>> : l \in {k \in Loops : send[k] = <<h>>}}
    \cup {<<"main", l>> : l \in {k \in Loops : k = h /\ main = Sending(k)}}
    \cup {<<"channel", i>> : i \in {j \in DOMAIN chan : chan[j] = h}}
    \cup {<<"buffer", k>> : k \in buffer \cap {h}}

\* Safety: every task that runs is known to main or on its way to it, once. None
\* is detached, and none is waited for twice.
EveryTaskIsHeld ==
  \A h \in Handles : /\ \A p, q \in Places(h) : p = q
                     /\ Alive(h) => Places(h) # {}

\* Main waits for room in the channel, which is full: it will wait for ever.
Stuck == (\E l \in Loops : main = Sending(l)) /\ Len(chan) = Room

\* Liveness: a client of a loop that runs is accepted: full slots and a full channel
\* only hold it up, as long as clients leave. It is not, if its loop has ended
\* (which neither starts it again nor ends the process), if the process has, or
\* if management clients filled the channel before main came to empty it.
BacklogServed ==
  \A c \in Conns :
    loop[LoopOf(c)] = "accept" /\ conn[c] = "backlog" ~>
      (conn[c] # "backlog" \/ loop[LoopOf(c)] = "ended" \/ ~Running \/ Stuck)

===============================================================================
