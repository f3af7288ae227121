------------------------- MODULE SessionManagerProofs -------------------------
(***************************************************************************)
(* For any number of sessions, any Linger longer than a task's last stall  *)
(* and any width of the tie-break counter: no task loses its session, and  *)
(* sessions only advance. With a counter wide enough for the removals of   *)
(* one instant, the table implements SessionListing.                       *)
(***************************************************************************)
EXTENDS SessionManager, FiniteSetTheorems, TLAPS

Table == [Ksuid -> [state : SessionState \cup {"absent"}, holder : BOOLEAN]]

\* Where a task is determines what its session is listed as.
TaskInv(id) ==
  /\ task[id] \in {"header", "hello", "resolve", "dial"} => open[id] = Halves
  /\ task[id] \in {"header", "hello"} => sessions[id].state = "Handshaking"
  /\ task[id] = "resolve" => sessions[id].state = "BackendResolving"
  /\ task[id] = "dial" => sessions[id].state = "BackendConnecting"
  /\ task[id] = "copy" =>
       /\ open[id] # {}
       /\ open[id] = Halves => sessions[id].state = "Connected"
       /\ open[id] = {"client"} => sessions[id].state = "ShutdownRead"
       /\ open[id] = {"backend"} => sessions[id].state = "ShutdownWrite"
  /\ task[id] = "closing" => sessions[id].state # "absent"
  /\ task[id] = "idle" => sessions[id].state \in {"absent", "Shutdown"}

\* A scheduled removal concerns a session that is shut down or gone already;
\* if its task is still on its way to mark_shutdown, there is time left.
EntryInv(e) ==
  /\ task[e.id] \in {"idle", "closing"}
  /\ sessions[e.id].state \in {"absent", "Shutdown"}
  /\ task[e.id] = "closing" => e.ttl >= Linger - MaxStall

\* The inductive invariant.
IInv ==
  /\ TypeOK
  /\ ~aborted
  /\ \A id \in Ksuid : TaskInv(id)
  /\ \A e \in removal_queue : EntryInv(e)

\* What a mark that schedules no removal does: the session gets its state, and
\* the cleanup takes only sessions without a task.
LEMMA MarkStep ==
  ASSUME IInv, NEW id \in Ksuid, NEW st \in SessionState,
         task[id] \notin {"idle", "closing"}, Mark(id, st)
  PROVE  /\ sessions' \in Table
         /\ removal_queue' \subseteq removal_queue
         /\ tie_break_ctr' = tie_break_ctr
         /\ aborted' = FALSE
         /\ sweeps' \in {0, 1}
         /\ sessions'[id].state = st
         /\ \A jd \in Ksuid \ {id} :
              \/ sessions'[jd] = sessions[jd]
              \/ /\ task[jd] = "idle"
                 /\ sessions[jd].state \in {"absent", "Shutdown"}
                 /\ sessions'[jd] = NoSession
<1>1. Present(id)
  BY DEF IInv, TypeOK, TaskInv, Present, Pc, Halves
<1> DEFINE sess == [sessions EXCEPT ![id].state = st]
<1>2. /\ cleanup(sess, removal_queue)
      /\ UNCHANGED <<aborted, tie_break_ctr>>
  BY <1>1 DEF Mark
<1>3. sess \in Table /\ sess[id].state = st
      /\ \A jd \in Ksuid \ {id} : sess[jd] = sessions[jd]
  BY DEF IInv, TypeOK, Table
<1> HIDE DEF sess
<1>4. \A e \in removal_queue : Expired(e) => task[e.id] = "idle"
  BY TimingAssumption DEF IInv, TypeOK, EntryInv, Expired, QueueEntry
<1>5. \A e \in removal_queue : e.id \in Ksuid
  BY DEF IInv, TypeOK, QueueEntry
<1>6. NoSession \in [state : SessionState \cup {"absent"}, holder : BOOLEAN]
  BY DEF NoSession
<1>7. sessions' \in Table
  BY <1>2, <1>3, <1>6 DEF cleanup, Table
<1>8. sessions'[id] = sess[id]
  BY <1>2, <1>4 DEF cleanup
<1>9. ASSUME NEW jd \in Ksuid \ {id}
      PROVE  \/ sessions'[jd] = sessions[jd]
             \/ /\ task[jd] = "idle"
                /\ sessions[jd].state \in {"absent", "Shutdown"}
                /\ sessions'[jd] = NoSession
  <2>1. CASE \E e \in removal_queue : Expired(e) /\ e.id = jd
    BY <2>1, <1>2, <1>4 DEF cleanup, IInv, EntryInv
  <2>2. CASE ~ \E e \in removal_queue : Expired(e) /\ e.id = jd
    BY <2>2, <1>2, <1>3 DEF cleanup
  <2> QED BY <2>1, <2>2
<1>10. sweeps' \in {0, 1}
  BY <1>2 DEF cleanup, IInv, TypeOK
<1> QED BY <1>2, <1>3, <1>7, <1>8, <1>9, <1>10 DEF cleanup, IInv

\* The same for a mark that shuts the session down and schedules its removal.
LEMMA MarkShutdownStep ==
  ASSUME IInv, NEW id \in Ksuid, Live(id), MarkShutdown(id)
  PROVE  /\ sessions' \in Table
         /\ removal_queue' \subseteq QueueEntry
         /\ \A e \in removal_queue' :
              e \in removal_queue \/ (e.id = id /\ e.ttl = Linger)
         /\ tie_break_ctr' \in 0 .. CtrMod - 1
         /\ aborted' = FALSE
         /\ sweeps' \in {0, 1}
         /\ sessions'[id].state = "Shutdown"
         /\ \A jd \in Ksuid \ {id} :
              \/ sessions'[jd] = sessions[jd]
              \/ /\ task[jd] = "idle"
                 /\ sessions[jd].state \in {"absent", "Shutdown"}
                 /\ sessions'[jd] = NoSession
<1>1. Present(id)
  BY DEF IInv, TypeOK, TaskInv, Present, Pc, Halves, Live
<1> DEFINE sess == [sessions EXCEPT ![id].state = "Shutdown"]
           queue == Enqueue(id)
<1>2. /\ cleanup(sess, queue)
      /\ tie_break_ctr' = NextCtr(tie_break_ctr)
      /\ aborted' = aborted
  BY <1>1 DEF MarkShutdown
<1>3. sess \in Table /\ sess[id].state = "Shutdown"
      /\ \A jd \in Ksuid \ {id} : sess[jd] = sessions[jd]
  BY DEF IInv, TypeOK, Table, SessionState
<1>4. /\ queue \subseteq QueueEntry
      /\ \A e \in queue : e \in removal_queue \/ (e.id = id /\ e.ttl = Linger)
  BY TimingAssumption DEF IInv, TypeOK, Enqueue, QueueEntry
<1> HIDE DEF sess, queue
<1>5. \A e \in queue : Expired(e) => e \in removal_queue /\ task[e.id] = "idle"
  BY <1>4, TimingAssumption DEF IInv, TypeOK, EntryInv, Expired, QueueEntry
<1>6. NoSession \in [state : SessionState \cup {"absent"}, holder : BOOLEAN]
  BY DEF NoSession
<1>7. sessions' \in Table
  BY <1>2, <1>3, <1>6 DEF cleanup, Table
<1>8. sessions'[id] = sess[id]
  BY <1>2, <1>5 DEF cleanup, Live
<1>9. ASSUME NEW jd \in Ksuid \ {id}
      PROVE  \/ sessions'[jd] = sessions[jd]
             \/ /\ task[jd] = "idle"
                /\ sessions[jd].state \in {"absent", "Shutdown"}
                /\ sessions'[jd] = NoSession
  <2>1. CASE \E e \in queue : Expired(e) /\ e.id = jd
    BY <2>1, <1>2, <1>5 DEF cleanup, IInv, EntryInv
  <2>2. CASE ~ \E e \in queue : Expired(e) /\ e.id = jd
    BY <2>2, <1>2, <1>3 DEF cleanup
  <2> QED BY <2>1, <2>2
<1>10. tie_break_ctr' \in 0 .. CtrMod - 1
  BY <1>2, CtrAssumption DEF NextCtr, IInv, TypeOK
<1>11. sweeps' \in {0, 1}
  BY <1>2 DEF cleanup, IInv, TypeOK
<1> QED BY <1>2, <1>3, <1>4, <1>7, <1>8, <1>9, <1>10, <1>11 DEF cleanup, IInv


-------------------------------------------------------------------------------
(* The invariant is inductive *)

\* Nothing is listed at start.
LEMMA InitInv == Init => IInv
<1> SUFFICES ASSUME Init PROVE IInv
  OBVIOUS
<1>1. NoSession \in [state : SessionState \cup {"absent"}, holder : BOOLEAN]
  BY DEF NoSession
<1>2. TypeOK
  <2>1. sessions \in Table
    BY <1>1 DEF Init, Table
  <2>2. tie_break_ctr \in 0 .. CtrMod - 1
    BY CtrAssumption DEF Init
  <2>3. task \in [Ksuid -> Pc] /\ open \in [Ksuid -> SUBSET Halves]
    BY DEF Init, Pc
  <2> QED BY <2>1, <2>2, <2>3 DEF Init, TypeOK, Table
<1>3. \A id \in Ksuid : TaskInv(id)
  BY DEF Init, TaskInv, NoSession
<1> QED BY <1>2, <1>3 DEF Init, IInv

\* A mark inside a task's life: it moves on to pc, its session to st.
LEMMA ProgressInv ==
  ASSUME IInv, NEW id \in Ksuid, NEW st \in SessionState,
         NEW pc \in {"resolve", "dial", "copy"},
         task[id] \in {"hello", "resolve", "dial", "copy"},
         task' = [task EXCEPT ![id] = pc], open' \in [Ksuid -> SUBSET Halves],
         \A jd \in Ksuid \ {id} : open'[jd] = open[jd],
         Mark(id, st),
         pc \in {"resolve", "dial"} => open'[id] = Halves,
         pc = "resolve" => st = "BackendResolving",
         pc = "dial" => st = "BackendConnecting",
         pc = "copy" =>
           /\ open'[id] # {}
           /\ open'[id] = Halves => st = "Connected"
           /\ open'[id] = {"client"} => st = "ShutdownRead"
           /\ open'[id] = {"backend"} => st = "ShutdownWrite"
  PROVE  IInv'
<1>1. /\ sessions' \in Table
      /\ removal_queue' \subseteq removal_queue
      /\ tie_break_ctr' = tie_break_ctr
      /\ aborted' = FALSE
      /\ sweeps' \in {0, 1}
      /\ sessions'[id].state = st
      /\ \A jd \in Ksuid \ {id} :
           \/ sessions'[jd] = sessions[jd]
           \/ /\ task[jd] = "idle"
              /\ sessions[jd].state \in {"absent", "Shutdown"}
              /\ sessions'[jd] = NoSession
  BY MarkStep
<1>2. task' \in [Ksuid -> Pc] /\ task'[id] = pc
      /\ \A jd \in Ksuid \ {id} : task'[jd] = task[jd]
  BY DEF IInv, TypeOK, Pc
<1>3. TypeOK'
  BY <1>1, <1>2 DEF IInv, TypeOK, Table
<1>4. TaskInv(id)'
  BY <1>1, <1>2 DEF TaskInv
<1>5. ASSUME NEW jd \in Ksuid \ {id} PROVE TaskInv(jd)'
  <2>1. TaskInv(jd)
    BY DEF IInv
  <2>2. CASE sessions'[jd] = sessions[jd]
    BY <2>1, <2>2, <1>2 DEF TaskInv
  <2>3. CASE task[jd] = "idle" /\ sessions'[jd] = NoSession
    BY <2>3, <1>2 DEF TaskInv, NoSession
  <2> QED BY <1>1, <2>2, <2>3
<1>6. ASSUME NEW e \in removal_queue' PROVE EntryInv(e)'
  <2>1. e \in removal_queue /\ e.id \in Ksuid /\ EntryInv(e)
    BY <1>1 DEF IInv, TypeOK, QueueEntry
  <2>2. e.id # id
    BY <2>1 DEF EntryInv
  <2>3. sessions'[e.id].state \in {"absent", "Shutdown"}
    BY <1>1, <2>1, <2>2 DEF EntryInv, NoSession
  <2> QED BY <1>2, <2>1, <2>2, <2>3 DEF EntryInv
<1> QED BY <1>1, <1>3, <1>4, <1>5, <1>6 DEF IInv

\* A mark that shuts the session down, after which its task is on its way to
\* mark_shutdown or has ended.
LEMMA ShutdownInv ==
  ASSUME IInv, NEW id \in Ksuid, NEW pc \in {"closing", "idle"}, Live(id),
         task' = [task EXCEPT ![id] = pc], open' \in [Ksuid -> SUBSET Halves],
         \A jd \in Ksuid \ {id} : open'[jd] = open[jd],
         MarkShutdown(id)
  PROVE  IInv'
<1>1. /\ sessions' \in Table
      /\ removal_queue' \subseteq QueueEntry
      /\ \A e \in removal_queue' :
           e \in removal_queue \/ (e.id = id /\ e.ttl = Linger)
      /\ tie_break_ctr' \in 0 .. CtrMod - 1
      /\ aborted' = FALSE
      /\ sweeps' \in {0, 1}
      /\ sessions'[id].state = "Shutdown"
      /\ \A jd \in Ksuid \ {id} :
           \/ sessions'[jd] = sessions[jd]
           \/ /\ task[jd] = "idle"
              /\ sessions[jd].state \in {"absent", "Shutdown"}
              /\ sessions'[jd] = NoSession
  BY MarkShutdownStep
<1>2. task' \in [Ksuid -> Pc] /\ task'[id] = pc
      /\ \A jd \in Ksuid \ {id} : task'[jd] = task[jd]
  BY DEF IInv, TypeOK, Pc
<1>3. TypeOK'
  BY <1>1, <1>2 DEF IInv, TypeOK, Table
<1>4. TaskInv(id)'
  BY <1>1, <1>2 DEF TaskInv
<1>5. ASSUME NEW jd \in Ksuid \ {id} PROVE TaskInv(jd)'
  <2>1. TaskInv(jd)
    BY DEF IInv
  <2>2. CASE sessions'[jd] = sessions[jd]
    BY <2>1, <2>2, <1>2 DEF TaskInv
  <2>3. CASE task[jd] = "idle" /\ sessions'[jd] = NoSession
    BY <2>3, <1>2 DEF TaskInv, NoSession
  <2> QED BY <1>1, <2>2, <2>3
<1>6. ASSUME NEW e \in removal_queue' PROVE EntryInv(e)'
  <2>1. e.id \in Ksuid /\ e.ttl \in Nat
    BY <1>1 DEF QueueEntry
  <2>2. CASE e.id = id
    <3>1. e.ttl >= Linger - MaxStall \/ pc = "idle" \/ task[id] # "closing"
      BY <1>1, <2>1, <2>2, TimingAssumption DEF IInv, EntryInv
    <3>2. e \in removal_queue => task[id] = "closing"
      BY <2>2 DEF IInv, EntryInv, Live
    <3>3. pc = "closing" => e.ttl >= Linger - MaxStall
      BY <1>1, <3>1, <3>2, TimingAssumption
    <3> QED BY <1>1, <1>2, <2>2, <3>3 DEF EntryInv
  <2>3. CASE e.id # id
    <3>1. EntryInv(e)
      BY <1>1, <2>3 DEF IInv
    <3>2. sessions'[e.id].state \in {"absent", "Shutdown"}
      BY <1>1, <2>1, <2>3, <3>1 DEF EntryInv, NoSession
    <3> QED BY <1>2, <2>1, <2>3, <3>1, <3>2 DEF EntryInv
  <2> QED BY <2>2, <2>3
<1> QED BY <1>1, <1>3, <1>4, <1>5, <1>6 DEF IInv

\* Every step keeps the invariant, action by action.
LEMMA StepInv == IInv /\ [Next]_vars => IInv'
<1> SUFFICES ASSUME IInv, [Next]_vars PROVE IInv'
  OBVIOUS
<1> USE DEF Goto
<1>1. CASE UNCHANGED vars
  BY <1>1 DEF vars, IInv, TypeOK, TaskInv, EntryInv
<1>2. ASSUME NEW id \in Ksuid, add_session(id) PROVE IInv'
  <2>1. \A e \in removal_queue : e.id # id
    BY <1>2 DEF add_session
  <2>2. TypeOK'
    BY <1>2 DEF add_session, IInv, TypeOK, Pc, SessionState
  <2>3. \A jd \in Ksuid : TaskInv(jd)'
    BY <1>2 DEF add_session, IInv, TypeOK, TaskInv, Halves
  <2>4. \A e \in removal_queue' : EntryInv(e)'
    BY <1>2, <2>1 DEF add_session, IInv, TypeOK, EntryInv
  <2> QED BY <1>2, <2>2, <2>3, <2>4 DEF add_session, IInv
<1>3. ASSUME NEW id \in Ksuid, destroy(id) PROVE IInv'
  <2>1. TypeOK'
    BY <1>3 DEF destroy, IInv, TypeOK
  <2>2. \A jd \in Ksuid : sessions'[jd].state = sessions[jd].state
    BY <1>3 DEF destroy, IInv, TypeOK
  <2>3. \A jd \in Ksuid : TaskInv(jd)'
    BY <1>3, <2>2 DEF destroy, IInv, TaskInv
  <2>4. \A e \in removal_queue' : EntryInv(e)'
    BY <1>3, <2>2 DEF destroy, IInv, TypeOK, QueueEntry, EntryInv
  <2> QED BY <1>3, <2>1, <2>3, <2>4 DEF destroy, IInv
<1>4. ASSUME NEW id \in Ksuid, NEW pc \in Pc \ {"idle", "closing"},
             NEW to \in {"closing", "hello"}, Goto(id, pc, to),
             to = "hello" => pc = "header",
             UNCHANGED <<sessions, removal_queue, tie_break_ctr, open, aborted,
                         sweeps>>
      PROVE  IInv'
  <2>1. TypeOK'
    BY <1>4 DEF IInv, TypeOK, Pc
  <2>2. sessions[id].state # "absent"
    BY <1>4 DEF IInv, TypeOK, TaskInv, Pc, Halves
  <2>3. \A jd \in Ksuid : TaskInv(jd)'
    BY <1>4, <2>2 DEF IInv, TypeOK, TaskInv
  <2>4. \A e \in removal_queue' : e.id # id /\ EntryInv(e)'
    BY <1>4 DEF IInv, TypeOK, EntryInv
  <2> QED BY <1>4, <2>1, <2>3, <2>4 DEF IInv
<1>5. ASSUME NEW id \in Ksuid, HelloRead(id) PROVE IInv'
  BY <1>5, ProgressInv DEF HelloRead, SessionState, IInv, TypeOK, TaskInv
<1>6. ASSUME NEW id \in Ksuid, Resolved(id) PROVE IInv'
  BY <1>6, ProgressInv DEF Resolved, SessionState, IInv, TypeOK, TaskInv
<1>7. ASSUME NEW id \in Ksuid, Dialed(id) PROVE IInv'
  <2>1. open[id] = Halves
    BY <1>7 DEF Dialed, IInv, TaskInv
  <2>2. Halves # {} /\ Halves # {"client"} /\ Halves # {"backend"}
    BY DEF Halves
  <2> QED BY <1>7, <2>1, <2>2, ProgressInv
             DEF Dialed, SessionState, IInv, TypeOK
<1>8. ASSUME NEW id \in Ksuid, Xmit(id) PROVE IInv'
  <2>1. TaskInv(id) /\ task[id] = "copy"
    BY <1>8 DEF Xmit, IInv
  <2>2. sessions[id].state \in SessionState
    BY <2>1 DEF TaskInv, IInv, TypeOK, Halves, SessionState
  <2> QED BY <1>8, <2>1, <2>2, ProgressInv DEF Xmit, TaskInv, IInv, TypeOK
<1>9. ASSUME NEW id \in Ksuid, NEW half \in Halves, ReadEof(id, half)
      PROVE  IInv'
  <2>1. TaskInv(id) /\ task[id] = "copy" /\ open[id] \subseteq Halves
    BY <1>9 DEF ReadEof, IInv, TypeOK
  <2>2. /\ open' \in [Ksuid -> SUBSET Halves]
        /\ open'[id] = open[id] \ {half}
        /\ \A jd \in Ksuid \ {id} : open'[jd] = open[jd]
    BY <1>9 DEF ReadEof, IInv, TypeOK
  <2>3. CASE open[id] = Halves
    <3>1. sessions[id].state = "Connected"
      BY <2>1, <2>3 DEF TaskInv
    <3>2. /\ open'[id] = IF half = "backend" THEN {"client"} ELSE {"backend"}
          /\ open'[id] # {}
      BY <2>2, <2>3 DEF Halves
    <3>3. task' = [task EXCEPT ![id] = "copy"]
      BY <1>9, <3>2 DEF ReadEof
    <3>4. Mark(id, IF half = "backend" THEN "ShutdownRead" ELSE "ShutdownWrite")
      BY <1>9, <3>1 DEF ReadEof, MarkHalf
    <3> QED BY <2>1, <2>2, <3>2, <3>3, <3>4, ProgressInv
               DEF SessionState, Halves
  <2>4. CASE open[id] = {half}
    <3>1. open'[id] = {}
      BY <2>2, <2>4
    <3>2. task' = [task EXCEPT ![id] = "closing"]
      BY <1>9, <3>1 DEF ReadEof
    <3>3. MarkShutdown(id)
      BY <1>9, <2>1, <2>4 DEF ReadEof, MarkHalf, TaskInv, Halves
    <3> QED BY <2>1, <2>2, <3>2, <3>3, ShutdownInv DEF Live
  <2> QED BY <1>9, <2>1, <2>3, <2>4 DEF ReadEof, Halves
<1>10. ASSUME NEW id \in Ksuid, mark_shutdown(id) PROVE IInv'
  <2>1. open' \in [Ksuid -> SUBSET Halves]
        /\ \A jd \in Ksuid \ {id} : open'[jd] = open[jd]
    BY <1>10 DEF mark_shutdown, IInv, TypeOK
  <2> QED BY <1>10, <2>1, ShutdownInv DEF mark_shutdown, Live
<1>11. CASE Tick
  <2>1. \A f \in removal_queue' :
          \E e \in removal_queue :
            /\ f.id = e.id /\ f \in QueueEntry
            /\ Live(e.id) => f.ttl >= Linger - MaxStall
    <3> SUFFICES ASSUME NEW e \in removal_queue,
                        NEW f, f = [e EXCEPT !.ttl = IF @ = 0 THEN 0 ELSE @ - 1]
                 PROVE  /\ f.id = e.id /\ f \in QueueEntry
                        /\ Live(e.id) => f.ttl >= Linger - MaxStall
      BY <1>11 DEF Tick
    <3>1. e \in QueueEntry
      BY DEF IInv, TypeOK
    <3>2. e.ttl \in Nat /\ f.ttl = IF e.ttl = 0 THEN 0 ELSE e.ttl - 1
      BY <3>1 DEF QueueEntry
    <3>3. f.id = e.id /\ f \in QueueEntry
      BY <3>1, TimingAssumption DEF QueueEntry
    <3>4. Live(e.id) => e.ttl > Linger - MaxStall
      BY <1>11 DEF Tick
    <3> QED BY <3>2, <3>3, <3>4, TimingAssumption
  <2>2. TypeOK'
    BY <1>11, <2>1 DEF Tick, IInv, TypeOK
  <2>3. \A id \in Ksuid : TaskInv(id)'
    BY <1>11 DEF Tick, IInv, TaskInv
  <2>4. \A e \in removal_queue' : EntryInv(e)'
    BY <1>11, <2>1 DEF Tick, IInv, EntryInv, Live
  <2> QED BY <1>11, <2>2, <2>3, <2>4 DEF Tick, IInv
<1>12. ASSUME NEW id \in Ksuid, HelperFails(id) PROVE IInv'
  BY <1>4, <1>12 DEF HelperFails
<1>13. ASSUME NEW id \in Ksuid, HeaderRead(id) PROVE IInv'
  BY <1>4, <1>13 DEF HeaderRead, Pc
<1>14. ASSUME NEW id \in Ksuid, Cancel(id) PROVE IInv'
  BY <1>4, <1>14 DEF Cancel, Pc
<1> QED BY <1>1, <1>2, <1>3, <1>5, <1>6, <1>7, <1>8, <1>9, <1>10, <1>11,
           <1>12, <1>13, <1>14 DEF Next, TaskStep

-------------------------------------------------------------------------------
(* The theorems *)

\* The table, the queue and the counter keep their types.
THEOREM TypeCorrect == Spec => []TypeOK
<1>1. IInv => TypeOK
  BY DEF IInv
<1> QED BY <1>1, InitInv, StepInv, PTL DEF Spec

\* No unwrap in a mark_* or handle_xmit_* ever fails: a running task's session
\* is in the table, for any number of concurrent tasks, as long as the last
\* stall of a task is shorter than Linger.
THEOREM UnwrapsSucceed == Spec => []TaskHasSession
<1>1. IInv => TaskHasSession
  BY DEF IInv, TypeOK, TaskInv, TaskHasSession, Live, Present, Pc, Halves
<1> QED BY <1>1, InitInv, StepInv, PTL DEF Spec

\* What one step may do to a listed session.
Advance(id) ==
  LET s == sessions[id].state
      t == sessions'[id].state
  IN  s # "absent" /\ t # s =>
        /\ Rank(s) < Rank(t)
        /\ t = "absent" => s = "Shutdown" /\ task[id] = "idle"

\* A mark advances its own session, and lets the cleanup take only others that
\* are shut down and have no task.
LEMMA MarkAdvances ==
  ASSUME IInv, NEW id \in Ksuid, NEW st \in SessionState,
         task[id] \notin {"idle", "closing"}, Mark(id, st),
         st = sessions[id].state \/ Rank(sessions[id].state) < Rank(st)
  PROVE  \A jd \in Ksuid : Advance(jd)
<1>1. sessions'[id].state = st
  BY MarkStep
<1>2. Advance(id)
  BY <1>1 DEF Advance, SessionState
<1>3. ASSUME NEW jd \in Ksuid \ {id} PROVE Advance(jd)
  <2>1. CASE sessions'[jd] = sessions[jd]
    BY <2>1 DEF Advance
  <2>2. CASE /\ task[jd] = "idle"
             /\ sessions[jd].state \in {"absent", "Shutdown"}
             /\ sessions'[jd] = NoSession
    BY <2>2 DEF Advance, Rank, NoSession
  <2>3. \/ sessions'[jd] = sessions[jd]
        \/ /\ task[jd] = "idle"
           /\ sessions[jd].state \in {"absent", "Shutdown"}
           /\ sessions'[jd] = NoSession
    BY MarkStep, Zenon
  <2> QED BY <2>1, <2>2, <2>3, Zenon
<1> QED BY <1>2, <1>3

\* So does a mark that shuts its session down.
LEMMA MarkShutdownAdvances ==
  ASSUME IInv, NEW id \in Ksuid, Live(id), MarkShutdown(id)
  PROVE  \A jd \in Ksuid : Advance(jd)
<1>1. sessions'[id].state = "Shutdown"
  BY MarkShutdownStep
<1>2. sessions[id].state \in SessionState \cup {"absent"}
  BY DEF IInv, TypeOK
<1>3. Advance(id)
  BY <1>1, <1>2 DEF Advance, Rank, SessionState
<1>4. ASSUME NEW jd \in Ksuid \ {id} PROVE Advance(jd)
  <2>1. CASE sessions'[jd] = sessions[jd]
    BY <2>1 DEF Advance
  <2>2. CASE /\ task[jd] = "idle"
             /\ sessions[jd].state \in {"absent", "Shutdown"}
             /\ sessions'[jd] = NoSession
    BY <2>2 DEF Advance, Rank, NoSession
  <2>3. \/ sessions'[jd] = sessions[jd]
        \/ /\ task[jd] = "idle"
           /\ sessions[jd].state \in {"absent", "Shutdown"}
           /\ sessions'[jd] = NoSession
    BY MarkShutdownStep, Zenon
  <2> QED BY <2>1, <2>2, <2>3, Zenon
<1> QED BY <1>3, <1>4

\* Every step of the specification advances the sessions it changes.
LEMMA StepAdvances ==
  IInv /\ [Next]_vars => \A id \in Ksuid : Advance(id)
<1> SUFFICES ASSUME IInv, [Next]_vars PROVE \A jd \in Ksuid : Advance(jd)
  OBVIOUS
<1> USE DEF Goto
<1>1. ASSUME \A jd \in Ksuid : sessions'[jd].state = sessions[jd].state
      PROVE  \A jd \in Ksuid : Advance(jd)
  BY <1>1 DEF Advance
<1>2. CASE UNCHANGED sessions
  BY <1>1, <1>2
<1>3. ASSUME NEW id \in Ksuid, add_session(id)
      PROVE  \A jd \in Ksuid : Advance(jd)
  BY <1>3 DEF add_session, Advance, NoSession, IInv, TypeOK
<1>4. ASSUME NEW id \in Ksuid, destroy(id)
      PROVE  \A jd \in Ksuid : Advance(jd)
  BY <1>1, <1>4 DEF destroy, IInv, TypeOK
<1>5. ASSUME NEW id \in Ksuid, HelloRead(id)
      PROVE  \A jd \in Ksuid : Advance(jd)
  <2>1. sessions[id].state = "Handshaking" /\ task[id] = "hello"
    BY <1>5 DEF HelloRead, IInv, TaskInv
  <2>2. Rank(sessions[id].state) < Rank("BackendResolving")
    BY <2>1 DEF Rank
  <2> QED BY <1>5, <2>1, <2>2, MarkAdvances DEF HelloRead, SessionState
<1>6. ASSUME NEW id \in Ksuid, Resolved(id)
      PROVE  \A jd \in Ksuid : Advance(jd)
  <2>1. sessions[id].state = "BackendResolving" /\ task[id] = "resolve"
    BY <1>6 DEF Resolved, IInv, TaskInv
  <2>2. Rank(sessions[id].state) < Rank("BackendConnecting")
    BY <2>1 DEF Rank
  <2> QED BY <1>6, <2>1, <2>2, MarkAdvances DEF Resolved, SessionState
<1>7. ASSUME NEW id \in Ksuid, Dialed(id)
      PROVE  \A jd \in Ksuid : Advance(jd)
  <2>1. sessions[id].state = "BackendConnecting" /\ task[id] = "dial"
    BY <1>7 DEF Dialed, IInv, TaskInv
  <2>2. Rank(sessions[id].state) < Rank("Connected")
    BY <2>1 DEF Rank
  <2> QED BY <1>7, <2>1, <2>2, MarkAdvances DEF Dialed, SessionState
<1>8. ASSUME NEW id \in Ksuid, Xmit(id)
      PROVE  \A jd \in Ksuid : Advance(jd)
  <2>1. TaskInv(id) /\ task[id] = "copy"
    BY <1>8 DEF Xmit, IInv
  <2>2. sessions[id].state \in SessionState
    BY <2>1 DEF TaskInv, IInv, TypeOK, Halves, SessionState
  <2> QED BY <1>8, <2>1, <2>2, MarkAdvances DEF Xmit
<1>9. ASSUME NEW id \in Ksuid, NEW half \in Halves, ReadEof(id, half)
      PROVE  \A jd \in Ksuid : Advance(jd)
  <2>1. TaskInv(id) /\ task[id] = "copy" /\ open[id] \subseteq Halves
    BY <1>9 DEF ReadEof, IInv, TypeOK
  <2>2. CASE open[id] = Halves
    <3>1. sessions[id].state = "Connected"
      BY <2>1, <2>2 DEF TaskInv
    <3> DEFINE st == IF half = "backend" THEN "ShutdownRead" ELSE "ShutdownWrite"
    <3>2. Mark(id, st)
      BY <1>9, <3>1 DEF ReadEof, MarkHalf
    <3>3. st \in SessionState /\ Rank(sessions[id].state) < Rank(st)
      BY <3>1 DEF Rank, SessionState
    <3> QED BY <2>1, <3>2, <3>3, MarkAdvances
  <2>3. CASE open[id] = {half}
    <3>1. MarkShutdown(id)
      BY <1>9, <2>1, <2>3 DEF ReadEof, MarkHalf, TaskInv, Halves
    <3> QED BY <2>1, <3>1, MarkShutdownAdvances DEF Live
  <2> QED BY <1>9, <2>1, <2>2, <2>3 DEF ReadEof, Halves
<1>10. ASSUME NEW id \in Ksuid, mark_shutdown(id)
       PROVE  \A jd \in Ksuid : Advance(jd)
  BY <1>10, MarkShutdownAdvances DEF mark_shutdown, Live
<1> QED BY <1>2, <1>3, <1>4, <1>5, <1>6, <1>7, <1>8, <1>9, <1>10
        DEF Next, TaskStep, HelperFails, HeaderRead, Cancel, Tick, vars

\* Sessions only advance, and leave the table only from Shutdown and without
\* a task: neither a late mark nor another task's cleanup undoes a close.
THEOREM SessionsAdvance == Spec => SessionAdvances
<1>1. IInv /\ [Next]_vars =>
        [\A id \in Ksuid :
           LET s == sessions[id].state
               t == sessions'[id].state
           IN  s # "absent" /\ t # s =>
                 /\ Rank(s) < Rank(t)
                 /\ t = "absent" => s = "Shutdown" /\ task[id] = "idle"]_vars
  BY StepAdvances DEF Advance
<1> QED BY <1>1, InitInv, StepInv, PTL DEF Spec, SessionAdvances

-------------------------------------------------------------------------------
(* The refinement of SessionListing *)

\* A removal scheduled since time last moved on.
Fresh(e) == e.ttl = Linger

\* The counters of the fresh removals are those before tie_break_ctr, without a
\* gap; no two have the same, and a session has at most two, or one while its
\* task is still on the way to mark_shutdown.
FreshInv ==
  /\ \A e \in removal_queue : Fresh(e) =>
       \/ NextCtr(e.ctr) = tie_break_ctr
       \/ \E f \in removal_queue : Fresh(f) /\ f.ctr = NextCtr(e.ctr)
  /\ \A e, f \in removal_queue : Fresh(e) /\ Fresh(f) /\ e.ctr = f.ctr => e = f
  /\ \A e, f, g \in removal_queue :
       Fresh(e) /\ Fresh(f) /\ Fresh(g) /\ e.id = f.id /\ f.id = g.id
         => e = f \/ f = g \/ e = g
  /\ \A e, f \in removal_queue :
       Fresh(e) /\ Fresh(f) /\ e.id = f.id /\ task[e.id] = "closing" => e = f

\* Whatever is shut down is scheduled for removal.
Scheduled ==
  \A id \in Ksuid : sessions[id].state = "Shutdown" =>
    \E e \in removal_queue : e.id = id

\* The inductive invariant of the refinement.
ListInv == IInv /\ FreshInv /\ Scheduled

\* A nonempty set of naturals has a least element.
LEMMA LeastNatural ==
  ASSUME NEW S \in SUBSET Nat, S # {}
  PROVE  \E n \in S : \A m \in S : n <= m
<1> DEFINE Less == {ss \in Nat \X Nat : ss[1] < ss[2]}
<1>1. IsWellFoundedOn(Less, Nat)
  BY NatLessThanWellFounded, Zenon DEF OpToRel
<1> HIDE DEF Less
<1>2. PICK n \in S : \A m \in S : <<m, n>> \notin Less
  BY <1>1, WFMin, Zenon
<1>3. ASSUME NEW m \in S PROVE n <= m
  <2>1. <<m, n>> \notin Less
    BY <1>2
  <2> QED BY <2>1 DEF Less
<1> QED BY <1>3

\* Min finds it.
LEMMA MinIs ==
  ASSUME NEW S \in SUBSET Nat, NEW n \in S, \A m \in S : n <= m
  PROVE  Min(S) = n
<1>1. \A x \in S : (\A y \in S : x <= y) => x = n
  OBVIOUS
<1> QED BY <1>1 DEF Min

\* Counters that are closed under succession, but for the one that is next,
\* and hold the next one are all counters.
LEMMA CountersAll ==
  ASSUME NEW C \in SUBSET (0 .. CtrMod - 1), NEW t \in C,
         \A c \in C : NextCtr(c) = t \/ NextCtr(c) \in C
  PROVE  C = 0 .. CtrMod - 1
<1>1. \A c \in C : NextCtr(c) \in C
  OBVIOUS
<1>2. \A c \in 0 .. CtrMod - 1 :
        NextCtr(c) = IF c = CtrMod - 1 THEN 0 ELSE c + 1
  <2> SUFFICES ASSUME NEW c \in 0 .. CtrMod - 1
               PROVE  NextCtr(c) = IF c = CtrMod - 1 THEN 0 ELSE c + 1
    OBVIOUS
  <2>1. CASE c = CtrMod - 1
    BY <2>1, CtrAssumption DEF NextCtr
  <2>2. CASE c + 1 < CtrMod
    BY <2>2, CtrAssumption DEF NextCtr
  <2> QED BY <2>1, <2>2, CtrAssumption
<1>3. t .. CtrMod - 1 \subseteq C
  <2> DEFINE M == (t .. CtrMod - 1) \ C
  <2> SUFFICES ASSUME M # {} PROVE FALSE
    OBVIOUS
  <2>1. PICK n \in M : \A m \in M : n <= m
    <3>1. M \in SUBSET Nat
      BY CtrAssumption
    <3> HIDE DEF M
    <3> QED BY <3>1, LeastNatural, Zenon
  <2>2. n \in Nat /\ n > t /\ n < CtrMod /\ t \in Nat
    BY <2>1, CtrAssumption
  <2>3. n - 1 \in C
    BY <2>1, <2>2, CtrAssumption
  <2>4. NextCtr(n - 1) = n
    BY <1>2, <2>2, CtrAssumption
  <2> QED BY <1>1, <2>1, <2>3, <2>4
<1>4. 0 \in C
  <2>1. CtrMod - 1 \in C
    BY <1>3, CtrAssumption
  <2>2. NextCtr(CtrMod - 1) = 0
    BY <1>2, CtrAssumption
  <2> QED BY <1>1, <2>1, <2>2
<1>5. 0 .. CtrMod - 1 \subseteq C
  <2> DEFINE M == (0 .. CtrMod - 1) \ C
  <2> SUFFICES ASSUME M # {} PROVE FALSE
    OBVIOUS
  <2>1. PICK n \in M : \A m \in M : n <= m
    <3>1. M \in SUBSET Nat
      BY CtrAssumption
    <3> HIDE DEF M
    <3> QED BY <3>1, LeastNatural, Zenon
  <2>2. n \in Nat /\ n > 0 /\ n < CtrMod
    BY <1>4, <2>1, CtrAssumption
  <2>3. n - 1 \in C
    BY <2>1, <2>2, CtrAssumption
  <2>4. NextCtr(n - 1) = n
    BY <1>2, <2>2, CtrAssumption
  <2> QED BY <1>1, <2>1, <2>3, <2>4
<1> QED BY <1>5

\* The key of the next removal is free: the insert into removal_queue replaces
\* nothing. There are fewer fresh removals than counters, and without a gap
\* they would have to have all of them.
LEMMA NextKeyFree ==
  ASSUME ListInv, NEW id \in Ksuid, Live(id)
  PROVE  \A e \in removal_queue : ~(e.ttl = Linger /\ e.ctr = tie_break_ctr)
<1> DEFINE F == {e \in removal_queue : Fresh(e)}
           Slots == (Ksuid \X {1, 2}) \ {<<id, 2>>}
           First(e) == \A f \in F : f.id = e.id => e.ctr <= f.ctr
           slot == [e \in F |-> <<e.id, IF First(e) THEN 1 ELSE 2>>]
<1>1. \A e \in F : e.id \in Ksuid /\ e.ctr \in 0 .. CtrMod - 1
  BY DEF ListInv, IInv, TypeOK, QueueEntry
<1>2. slot \in Injection(F, Slots)
  <2>1. ASSUME NEW e \in F PROVE slot[e] \in Slots
    <3>1. e.id = id => \A f \in F : f.id = id => f = e
      BY DEF ListInv, IInv, FreshInv, EntryInv, Live
    <3>2. e.id = id => First(e)
      BY <1>1, <3>1
    <3> QED BY <1>1, <3>2
  <2>2. ASSUME NEW e \in F, NEW f \in F, slot[e] = slot[f] PROVE e = f
    <3>1. e.id = f.id /\ (First(e) <=> First(f))
      BY <2>2
    <3>2. CASE First(e)
      <4>1. e.ctr = f.ctr
        BY <1>1, <3>1, <3>2
      <4> QED BY <4>1 DEF ListInv, FreshInv
    <3>3. CASE ~First(e)
      <4>1. PICK g \in F : g.id = e.id /\ g.ctr < e.ctr
        BY <1>1, <3>3
      <4>2. PICK h \in F : h.id = f.id /\ h.ctr < f.ctr
        BY <1>1, <3>1, <3>3
      <4>3. e = f \/ f = g \/ e = g
        BY <3>1, <4>1 DEF ListInv, FreshInv
      <4>4. e = f \/ f = h \/ e = h
        BY <3>1, <4>2 DEF ListInv, FreshInv
      <4> QED BY <1>1, <4>1, <4>2, <4>3, <4>4
    <3> QED BY <3>2, <3>3
  <2> HIDE DEF F, Slots
  <2>3. slot \in [F -> Slots]
    BY <2>1
  <2> HIDE DEF slot
  <2> QED BY <2>2, <2>3 DEF Injection, IsInjective
<1>3. IsFiniteSet(Slots) /\ Cardinality(Slots) <= CtrMod - 1
  <2>1. IsFiniteSet({1, 2}) /\ Cardinality({1, 2}) = 2
    <3>1. IsFiniteSet({1}) /\ Cardinality({1}) = 1
      BY FS_Singleton
    <3>2. {1, 2} = {1} \cup {2} /\ 2 \notin {1}
      OBVIOUS
    <3> QED BY <3>1, <3>2, FS_AddElement
  <2>2. /\ IsFiniteSet(Ksuid \X {1, 2})
        /\ Cardinality(Ksuid \X {1, 2}) = Cardinality(Ksuid) * 2
    BY <2>1, FS_Product, WidthAssumption
  <2>3. <<id, 2>> \in Ksuid \X {1, 2}
    OBVIOUS
  <2>4. Cardinality(Ksuid) \in Nat
    BY FS_CardinalityType, WidthAssumption
  <2>5. /\ IsFiniteSet(Slots)
        /\ Cardinality(Slots) = Cardinality(Ksuid \X {1, 2}) - 1
    <3> DEFINE P == Ksuid \X {1, 2}
    <3> HIDE DEF P
    <3>1. IsFiniteSet(P) /\ <<id, 2>> \in P
      BY <2>2, <2>3 DEF P
    <3>2. IsFiniteSet(P \ {<<id, 2>>})
          /\ Cardinality(P \ {<<id, 2>>}) = Cardinality(P) - 1
      BY <3>1, FS_RemoveElement, Zenon
    <3> QED BY <3>2 DEF P
  <2> HIDE DEF Slots
  <2> QED BY <2>2, <2>4, <2>5, CtrAssumption, WidthAssumption
<1>4. IsFiniteSet(F) /\ Cardinality(F) <= CtrMod - 1
  <2> HIDE DEF F, Slots, slot
  <2>1. IsFiniteSet(F) /\ Cardinality(F) <= Cardinality(Slots)
    BY <1>2, <1>3, FS_Injection, Zenon
  <2>2. Cardinality(F) \in Nat /\ Cardinality(Slots) \in Nat
    BY <1>3, <2>1, FS_CardinalityType
  <2> QED BY <1>3, <2>1, <2>2, CtrAssumption, WidthAssumption
<1>5. ASSUME NEW x \in removal_queue, x.ttl = Linger, x.ctr = tie_break_ctr
      PROVE  FALSE
  <2> DEFINE C == {e.ctr : e \in F}
             ctr == [e \in F |-> e.ctr]
  <2>1. C \subseteq 0 .. CtrMod - 1 /\ tie_break_ctr \in C
    BY <1>1, <1>5 DEF Fresh
  <2>2. \A c \in C : NextCtr(c) = tie_break_ctr \/ NextCtr(c) \in C
    BY DEF ListInv, FreshInv
  <2>3. C = 0 .. CtrMod - 1
    <3> HIDE DEF C
    <3> QED BY <2>1, <2>2, CountersAll
  <2>4. ctr \in Surjection(F, 0 .. CtrMod - 1)
    <3>1. ctr \in [F -> 0 .. CtrMod - 1]
      BY <1>1
    <3>2. \A c \in 0 .. CtrMod - 1 : \E e \in F : ctr[e] = c
      BY <2>3
    <3> HIDE DEF ctr, F
    <3> QED BY <3>1, <3>2 DEF Surjection
  <2>5. Cardinality(0 .. CtrMod - 1) <= Cardinality(F)
    <3> HIDE DEF ctr, F
    <3> QED BY <1>4, <2>4, FS_Surjection, Zenon
  <2>6. Cardinality(0 .. CtrMod - 1) = CtrMod
    BY FS_Interval, CtrAssumption
  <2>7. Cardinality(F) \in Nat
    <3> HIDE DEF F
    <3> QED BY <1>4, FS_CardinalityType
  <2> QED BY <1>4, <2>5, <2>6, <2>7, CtrAssumption, WidthAssumption
<1> QED BY <1>5


\* What a mark does to the table and the queue.
LEMMA MarkQueue ==
  ASSUME ListInv, NEW id \in Ksuid, NEW st, Mark(id, st),
         task[id] \notin {"idle", "closing"}
  PROVE  /\ tie_break_ctr' = tie_break_ctr
         /\ removal_queue' = {e \in removal_queue : ~Expired(e)}
         /\ \A jd \in Ksuid : sessions'[jd] =
              IF \E e \in removal_queue : Expired(e) /\ e.id = jd
              THEN NoSession ELSE [sessions EXCEPT ![id].state = st][jd]
<1>1. Present(id)
  BY DEF ListInv, IInv, TypeOK, TaskInv, Present, Pc, Halves
<1> QED BY <1>1 DEF Mark, cleanup

\* What a mark that shuts the session down does: its removal is added.
LEMMA MarkShutdownQueue ==
  ASSUME ListInv, NEW id \in Ksuid, Live(id), MarkShutdown(id)
  PROVE  /\ tie_break_ctr' = NextCtr(tie_break_ctr)
         /\ removal_queue' = {e \in removal_queue : ~Expired(e)} \cup
              {[ttl |-> Linger, ctr |-> tie_break_ctr, id |-> id]}
         /\ \A jd \in Ksuid : sessions'[jd] =
              IF \E e \in removal_queue : Expired(e) /\ e.id = jd
              THEN NoSession ELSE [sessions EXCEPT ![id].state = "Shutdown"][jd]
<1>1. Present(id)
  BY DEF ListInv, IInv, TypeOK, TaskInv, Present, Pc, Halves, Live
<1> DEFINE new == [ttl |-> Linger, ctr |-> tie_break_ctr, id |-> id]
           sess == [sessions EXCEPT ![id].state = "Shutdown"]
<1>2. Enqueue(id) = removal_queue \cup {new}
  BY NextKeyFree DEF Enqueue
<1>3. ~Expired(new)
  BY TimingAssumption DEF Expired
<1>4. cleanup(sess, Enqueue(id)) /\ tie_break_ctr' = NextCtr(tie_break_ctr)
  BY <1>1 DEF MarkShutdown
<1> HIDE DEF new, sess
<1>5. removal_queue' = {e \in removal_queue : ~Expired(e)} \cup {new}
  BY <1>2, <1>3, <1>4 DEF cleanup
<1>6. \A jd \in Ksuid : sessions'[jd] =
        IF \E e \in removal_queue : Expired(e) /\ e.id = jd
        THEN NoSession ELSE sess[jd]
  BY <1>2, <1>3, <1>4 DEF cleanup
<1> QED BY <1>4, <1>5, <1>6 DEF new, sess

\* Steps that leave the queue alone.
LEMMA FrameFresh ==
  ASSUME ListInv, UNCHANGED <<removal_queue, tie_break_ctr>>,
         \A jd \in Ksuid : sessions'[jd].state = "Shutdown" =>
           sessions[jd].state = "Shutdown",
         \A e \in removal_queue : task'[e.id] = "closing" => task[e.id] = "closing"
  PROVE  FreshInv' /\ Scheduled'
<1>1. FreshInv'
  BY DEF ListInv, FreshInv, Fresh
<1>2. Scheduled'
  BY DEF ListInv, Scheduled
<1> QED BY <1>1, <1>2

\* A mark that shuts nothing down.
LEMMA MarkFresh ==
  ASSUME ListInv, NEW id \in Ksuid, NEW st \in SessionState \ {"Shutdown"},
         task[id] \notin {"idle", "closing"}, Mark(id, st),
         \A jd \in Ksuid \ {id} : task'[jd] = task[jd]
  PROVE  FreshInv' /\ Scheduled'
<1>1. /\ tie_break_ctr' = tie_break_ctr
      /\ removal_queue' = {e \in removal_queue : ~Expired(e)}
      /\ \A jd \in Ksuid : sessions'[jd] =
           IF \E e \in removal_queue : Expired(e) /\ e.id = jd
           THEN NoSession ELSE [sessions EXCEPT ![id].state = st][jd]
  BY MarkQueue
<1>2. \A e \in removal_queue : e.id \in Ksuid \ {id}
  BY DEF ListInv, IInv, TypeOK, QueueEntry, EntryInv
<1>3. \A e \in removal_queue : Fresh(e) => ~Expired(e)
  BY TimingAssumption DEF Fresh, Expired
<1>4. FreshInv'
  BY <1>1, <1>2, <1>3 DEF ListInv, FreshInv, Fresh
<1>5. ASSUME NEW jd \in Ksuid, sessions'[jd].state = "Shutdown"
      PROVE  \E e \in removal_queue' : e.id = jd
  <2>1. ~ \E e \in removal_queue : Expired(e) /\ e.id = jd
    BY <1>1, <1>5 DEF NoSession
  <2>2. jd # id
    BY <1>1, <1>5, <2>1 DEF ListInv, IInv, TypeOK
  <2>3. sessions[jd].state = "Shutdown"
    BY <1>1, <1>5, <2>1, <2>2 DEF ListInv, IInv, TypeOK
  <2> QED BY <1>1, <2>1, <2>3 DEF ListInv, Scheduled
<1> QED BY <1>4, <1>5 DEF Scheduled

\* A mark that shuts its session down.
LEMMA MarkShutdownFresh ==
  ASSUME ListInv, NEW id \in Ksuid, Live(id), MarkShutdown(id),
         \A jd \in Ksuid \ {id} : task'[jd] = task[jd],
         task'[id] = "closing" => task[id] # "closing"
  PROVE  FreshInv' /\ Scheduled'
<1> DEFINE new == [ttl |-> Linger, ctr |-> tie_break_ctr, id |-> id]
<1>1. /\ tie_break_ctr' = NextCtr(tie_break_ctr)
      /\ removal_queue' = {e \in removal_queue : ~Expired(e)} \cup {new}
      /\ \A jd \in Ksuid : sessions'[jd] =
           IF \E e \in removal_queue : Expired(e) /\ e.id = jd
           THEN NoSession ELSE [sessions EXCEPT ![id].state = "Shutdown"][jd]
  BY MarkShutdownQueue
<1>2. \A e \in removal_queue : e.id \in Ksuid /\ (e.id = id => task[id] = "closing")
  BY DEF ListInv, IInv, TypeOK, QueueEntry, EntryInv, Live
<1>3. \A e \in removal_queue : Fresh(e) => ~Expired(e)
  BY TimingAssumption DEF Fresh, Expired
<1>4. new \in removal_queue' /\ Fresh(new) /\ new.ctr = tie_break_ctr /\ new.id = id
  BY <1>1 DEF Fresh
<1>5. \A e \in removal_queue : Fresh(e) => e.ctr # tie_break_ctr
  BY NextKeyFree DEF Fresh
<1>6. \A e \in removal_queue' : e \in removal_queue \/ e = new
  BY <1>1
<1>7. \A e \in removal_queue : Fresh(e) => e \in removal_queue'
  BY <1>1, <1>3
<1> HIDE DEF new
<1>8. \A e \in removal_queue' : Fresh(e) =>
        \/ NextCtr(e.ctr) = tie_break_ctr'
        \/ \E f \in removal_queue' : Fresh(f) /\ f.ctr = NextCtr(e.ctr)
  BY <1>1, <1>4, <1>6, <1>7 DEF ListInv, FreshInv
<1>9. \A e, f \in removal_queue' : Fresh(e) /\ Fresh(f) /\ e.ctr = f.ctr => e = f
  BY <1>4, <1>5, <1>6 DEF ListInv, FreshInv
<1>10. \A e, f \in removal_queue :
         Fresh(e) /\ Fresh(f) /\ e.id = id /\ f.id = id => e = f
  BY <1>2 DEF ListInv, FreshInv
<1>11. \A e, f, g \in removal_queue' :
         Fresh(e) /\ Fresh(f) /\ Fresh(g) /\ e.id = f.id /\ f.id = g.id
           => e = f \/ f = g \/ e = g
  BY <1>4, <1>6, <1>10 DEF ListInv, FreshInv
<1>12. \A e, f \in removal_queue' :
         Fresh(e) /\ Fresh(f) /\ e.id = f.id /\ task'[e.id] = "closing" => e = f
  BY <1>2, <1>4, <1>6 DEF ListInv, FreshInv
<1>13. FreshInv'
  BY <1>8, <1>9, <1>11, <1>12 DEF FreshInv, Fresh
<1>14. ASSUME NEW jd \in Ksuid, sessions'[jd].state = "Shutdown"
       PROVE  \E e \in removal_queue' : e.id = jd
  <2>1. CASE jd = id
    BY <1>4, <2>1
  <2>2. CASE jd # id
    <3>1. ~ \E e \in removal_queue : Expired(e) /\ e.id = jd
      BY <1>1, <1>14 DEF NoSession
    <3>2. sessions[jd].state = "Shutdown"
      BY <1>1, <1>14, <2>2, <3>1 DEF ListInv, IInv, TypeOK
    <3> QED BY <1>1, <3>1, <3>2 DEF ListInv, Scheduled
  <2> QED BY <2>1, <2>2
<1> QED BY <1>13, <1>14 DEF Scheduled


\* The kinds of steps, as far as the listing is concerned: those it does not
\* see, a mark that keeps its session open, and one that shuts it down.
Quiet ==
  /\ UNCHANGED <<removal_queue, tie_break_ctr>>
  /\ \A jd \in Ksuid : sessions'[jd].state = sessions[jd].state
  /\ \A e \in removal_queue : task'[e.id] = "closing" => task[e.id] = "closing"

Progresses(id, st) ==
  /\ task[id] \notin {"idle", "closing"}
  /\ Mark(id, st)
  /\ \A jd \in Ksuid \ {id} : task'[jd] = task[jd]

ShutsDown(id) ==
  /\ Live(id)
  /\ MarkShutdown(id)
  /\ \A jd \in Ksuid \ {id} : task'[jd] = task[jd]
  /\ task'[id] = "closing" => task[id] # "closing"

\* Every step is of one of these kinds, an accept, or the passing of time.
LEMMA StepKind ==
  ASSUME IInv, [Next]_vars
  PROVE  \/ Quiet
         \/ \E id \in Ksuid : add_session(id)
         \/ \E id \in Ksuid, st \in SessionState \ {"Shutdown"} : Progresses(id, st)
         \/ \E id \in Ksuid : ShutsDown(id)
         \/ Tick
<1> USE DEF Goto
<1>1. CASE UNCHANGED vars
  BY <1>1 DEF vars, Quiet
<1>2. ASSUME NEW id \in Ksuid, destroy(id) PROVE Quiet
  BY <1>2 DEF destroy, Quiet, IInv, TypeOK
<1>3. ASSUME NEW id \in Ksuid,
             HelperFails(id) \/ HeaderRead(id) \/ Cancel(id)
      PROVE  Quiet
  <2>1. UNCHANGED <<sessions, removal_queue, tie_break_ctr>>
    BY <1>3 DEF HelperFails, HeaderRead, Cancel
  <2>2. task[id] \notin {"idle", "closing"}
    BY <1>3 DEF HelperFails, HeaderRead, Cancel
  <2>3. \A jd \in Ksuid \ {id} : task'[jd] = task[jd]
    BY <1>3 DEF HelperFails, HeaderRead, Cancel, IInv, TypeOK
  <2>4. \A e \in removal_queue : e.id \in Ksuid \ {id}
    BY <2>2 DEF IInv, TypeOK, QueueEntry, EntryInv
  <2> QED BY <2>1, <2>3, <2>4 DEF Quiet
<1>4. ASSUME NEW id \in Ksuid, HelloRead(id)
      PROVE  Progresses(id, "BackendResolving")
  BY <1>4 DEF HelloRead, Progresses, IInv, TypeOK
<1>5. ASSUME NEW id \in Ksuid, Resolved(id)
      PROVE  Progresses(id, "BackendConnecting")
  BY <1>5 DEF Resolved, Progresses, IInv, TypeOK
<1>6. ASSUME NEW id \in Ksuid, Dialed(id) PROVE Progresses(id, "Connected")
  BY <1>6 DEF Dialed, Progresses, IInv, TypeOK
<1>7. ASSUME NEW id \in Ksuid, Xmit(id)
      PROVE  \E st \in SessionState \ {"Shutdown"} : Progresses(id, st)
  <2>1. sessions[id].state \in SessionState \ {"Shutdown"}
    BY <1>7 DEF Xmit, IInv, TypeOK, TaskInv, Halves, SessionState
  <2>2. Progresses(id, sessions[id].state)
    BY <1>7 DEF Xmit, Progresses, IInv, TypeOK
  <2> QED BY <2>1, <2>2
<1>8. ASSUME NEW id \in Ksuid, NEW half \in Halves, ReadEof(id, half)
      PROVE  \/ \E st \in SessionState \ {"Shutdown"} : Progresses(id, st)
             \/ ShutsDown(id)
  <2>1. /\ TaskInv(id) /\ task[id] = "copy" /\ half \in open[id]
        /\ open[id] \subseteq Halves
        /\ \A jd \in Ksuid \ {id} : task'[jd] = task[jd]
    BY <1>8 DEF ReadEof, IInv, TypeOK
  <2>2. CASE open[id] = Halves
    <3> DEFINE st == IF half = "backend" THEN "ShutdownRead" ELSE "ShutdownWrite"
    <3>1. sessions[id].state = "Connected"
      BY <2>1, <2>2 DEF TaskInv
    <3>2. Mark(id, st)
      BY <1>8, <3>1 DEF ReadEof, MarkHalf
    <3>3. st \in SessionState \ {"Shutdown"}
      BY DEF SessionState
    <3>4. Progresses(id, st)
      BY <2>1, <3>2 DEF Progresses
    <3> QED BY <3>3, <3>4
  <2>3. CASE open[id] = {half}
    <3>1. MarkShutdown(id)
      BY <1>8, <2>1, <2>3 DEF ReadEof, MarkHalf, TaskInv, Halves
    <3> QED BY <2>1, <3>1 DEF ShutsDown, Live
  <2> QED BY <2>1, <2>2, <2>3 DEF Halves
<1>9. ASSUME NEW id \in Ksuid, mark_shutdown(id) PROVE ShutsDown(id)
  BY <1>9 DEF mark_shutdown, ShutsDown, Live, IInv, TypeOK
<1>10. {"BackendResolving", "BackendConnecting", "Connected"}
         \subseteq SessionState \ {"Shutdown"}
  BY DEF SessionState
<1> QED BY <1>1, <1>2, <1>3, <1>4, <1>5, <1>6, <1>7, <1>8, <1>9, <1>10
        DEF Next, TaskStep

\* The refinement's invariant is inductive.
LEMMA ListStepInv == ListInv /\ [Next]_vars => ListInv'
<1> SUFFICES ASSUME ListInv, [Next]_vars PROVE FreshInv' /\ Scheduled'
  BY StepInv DEF ListInv
<1>1. CASE Quiet
  BY <1>1, FrameFresh DEF Quiet
<1>2. ASSUME NEW id \in Ksuid, add_session(id) PROVE FreshInv' /\ Scheduled'
  <2>1. \A e \in removal_queue : e.id \in Ksuid \ {id}
    BY <1>2 DEF add_session, ListInv, IInv, TypeOK, QueueEntry
  <2>2. \A jd \in Ksuid : sessions'[jd].state = "Shutdown" =>
          sessions[jd].state = "Shutdown"
    BY <1>2 DEF add_session, ListInv, IInv, TypeOK
  <2>3. \A jd \in Ksuid \ {id} : task'[jd] = task[jd]
    BY <1>2 DEF add_session, Goto, ListInv, IInv, TypeOK
  <2> QED BY <1>2, <2>1, <2>2, <2>3, FrameFresh DEF add_session
<1>3. ASSUME NEW id \in Ksuid, NEW st \in SessionState \ {"Shutdown"},
             Progresses(id, st)
      PROVE  FreshInv' /\ Scheduled'
  BY <1>3, MarkFresh DEF Progresses
<1>4. ASSUME NEW id \in Ksuid, ShutsDown(id) PROVE FreshInv' /\ Scheduled'
  BY <1>4, MarkShutdownFresh DEF ShutsDown
<1>5. CASE Tick
  <2>1. \A f \in removal_queue' : ~Fresh(f)
    <3> SUFFICES ASSUME NEW e \in removal_queue,
                        NEW f, f = [e EXCEPT !.ttl = IF @ = 0 THEN 0 ELSE @ - 1]
                 PROVE  ~Fresh(f)
      BY <1>5 DEF Tick
    <3>1. e \in QueueEntry
      BY DEF ListInv, IInv, TypeOK
    <3>2. e.ttl \in 0 .. Linger /\ f.ttl = IF e.ttl = 0 THEN 0 ELSE e.ttl - 1
      BY <3>1 DEF QueueEntry
    <3> QED BY <3>2, TimingAssumption DEF Fresh
  <2>2. FreshInv'
    BY <2>1 DEF FreshInv, Fresh
  <2>3. \A e \in removal_queue : \E f \in removal_queue' : f.id = e.id
    <3> SUFFICES ASSUME NEW e \in removal_queue
                 PROVE  \E f \in removal_queue' : f.id = e.id
      OBVIOUS
    <3> DEFINE f == [e EXCEPT !.ttl = IF @ = 0 THEN 0 ELSE @ - 1]
    <3>1. f \in removal_queue'
      BY <1>5 DEF Tick
    <3>2. e \in QueueEntry
      BY DEF ListInv, IInv, TypeOK
    <3>3. f.id = e.id
      BY <3>2 DEF QueueEntry
    <3> QED BY <3>1, <3>3
  <2>4. sessions' = sessions
    BY <1>5 DEF Tick
  <2>5. Scheduled'
    BY <2>3, <2>4 DEF ListInv, Scheduled
  <2> QED BY <2>2, <2>5
<1>6. \/ Quiet
      \/ \E id \in Ksuid : add_session(id)
      \/ \E id \in Ksuid, st \in SessionState \ {"Shutdown"} : Progresses(id, st)
      \/ \E id \in Ksuid : ShutsDown(id)
      \/ Tick
  BY StepKind DEF ListInv
<1> QED BY <1>1, <1>2, <1>3, <1>4, <1>5, <1>6

\* n is how long the closed session id is still listed.
LeftMin(id, n) ==
  /\ sessions[id].state = "Shutdown"
  /\ \E e \in removal_queue : e.id = id /\ e.ttl = n
  /\ \A e \in removal_queue : e.id = id => n <= e.ttl

\* The mapping finds it.
LEMMA LeftIs ==
  ListInv => \A id \in Ksuid :
    /\ \A n \in Nat : LeftMin(id, n) => ListedLeft[id] = n
    /\ sessions[id].state = "Shutdown" => \E n \in Nat : LeftMin(id, n)
    /\ sessions[id].state # "Shutdown" => ListedLeft[id] = 0
<1> SUFFICES ASSUME ListInv, NEW id \in Ksuid
             PROVE  /\ \A n \in Nat : LeftMin(id, n) => ListedLeft[id] = n
                    /\ sessions[id].state = "Shutdown" => \E n \in Nat : LeftMin(id, n)
                    /\ sessions[id].state # "Shutdown" => ListedLeft[id] = 0
  OBVIOUS
<1> DEFINE T == {e.ttl : e \in {q \in removal_queue : q.id = id}}
<1>1. T \in SUBSET Nat
  BY TimingAssumption DEF ListInv, IInv, TypeOK, QueueEntry
<1>2. ASSUME NEW n \in Nat, LeftMin(id, n) PROVE ListedLeft[id] = n
  <2>1. n \in T /\ \A m \in T : n <= m
    BY <1>2 DEF LeftMin
  <2>2. ListedLeft[id] = Min(T)
    BY <1>2 DEF LeftMin, ListedLeft
  <2> HIDE DEF T
  <2> QED BY <1>1, <2>1, <2>2, MinIs
<1>3. ASSUME sessions[id].state = "Shutdown" PROVE \E n \in Nat : LeftMin(id, n)
  <2>1. T # {}
    BY <1>3 DEF ListInv, Scheduled
  <2>2. PICK n \in T : \A m \in T : n <= m
    <3> HIDE DEF T
    <3> QED BY <1>1, <2>1, LeastNatural, Zenon
  <2> QED BY <1>1, <1>3, <2>2 DEF LeftMin
<1>4. ASSUME sessions[id].state # "Shutdown" PROVE ListedLeft[id] = 0
  BY <1>4 DEF ListedLeft
<1> QED BY <1>2, <1>3, <1>4


\* A session that a step neither opens nor closes keeps its place, or was due
\* and is forgotten.
KeepsPlace(id) ==
  \/ /\ sessions[id].state \in {"absent", "Shutdown"}
     /\ sessions'[id].state = sessions[id].state
     /\ \A n \in Nat : LeftMin(id, n) => LeftMin(id, n)'
  \/ /\ sessions[id].state \notin {"absent", "Shutdown"}
     /\ sessions'[id].state \notin {"absent", "Shutdown"}
  \/ LeftMin(id, 0) /\ sessions'[id].state = "absent"

\* A step that closes the sessions of closing, keeps the others' places, and
\* forgets only what was due is one step of the listing.
LEMMA ForgetStep ==
  ASSUME ListInv, ListInv', NEW closing \in SUBSET Ksuid,
         \A id, jd \in closing : id = jd,
         \A id \in closing :
           /\ sessions[id].state \notin {"absent", "Shutdown"}
           /\ LeftMin(id, Linger)',
         \A id \in Ksuid \ closing : KeepsPlace(id)
  PROVE  Listing!Next
<1> DEFINE due == {id \in Ksuid \ closing :
                     LeftMin(id, 0) /\ sessions'[id].state = "absent"}
<1>1. \A id \in Ksuid :
        /\ \A n \in Nat : LeftMin(id, n) => ListedLeft[id] = n
        /\ sessions[id].state = "Shutdown" => \E n \in Nat : LeftMin(id, n)
        /\ sessions[id].state # "Shutdown" => ListedLeft[id] = 0
  BY LeftIs
<1>2. (\A id \in Ksuid :
         /\ \A n \in Nat : LeftMin(id, n) => ListedLeft[id] = n
         /\ sessions[id].state = "Shutdown" => \E n \in Nat : LeftMin(id, n)
         /\ sessions[id].state # "Shutdown" => ListedLeft[id] = 0)'
  BY LeftIs, PTL
<1>3. \A id \in closing : ListedPhase[id] = "open"
  BY DEF ListedPhase
<1>4. \A id \in due : ListedPhase[id] = "closed" /\ ListedLeft[id] = 0
  BY <1>1 DEF LeftMin, ListedPhase
<1>5. ASSUME NEW id \in Ksuid
      PROVE  ListedPhase'[id] = IF id \in closing THEN "closed"
                                ELSE IF id \in due THEN "absent"
                                ELSE ListedPhase[id]
  <2>1. CASE id \in closing
    BY <2>1 DEF LeftMin, ListedPhase
  <2>2. CASE id \in due
    BY <2>2 DEF ListedPhase
  <2>3. CASE id \notin closing \cup due
    BY <2>3 DEF KeepsPlace, ListedPhase
  <2> QED BY <2>1, <2>2, <2>3
<1>6. ASSUME NEW id \in Ksuid
      PROVE  ListedLeft'[id] = IF id \in closing THEN Linger ELSE ListedLeft[id]
  <2>1. CASE id \in closing
    BY <1>2, <2>1, TimingAssumption
  <2>2. CASE id \in due
    BY <1>1, <1>2, <2>2
  <2>3. CASE id \notin closing \cup due
    <3>1. CASE sessions[id].state = "Shutdown"
      <4>1. PICK n \in Nat : LeftMin(id, n)
        BY <1>1, <3>1
      <4>2. LeftMin(id, n)'
        BY <2>3, <3>1, <4>1 DEF KeepsPlace
      <4> QED BY <1>1, <1>2, <2>3, <4>1, <4>2
    <3>2. CASE sessions[id].state # "Shutdown"
      <4>1. sessions'[id].state # "Shutdown"
        BY <2>3, <3>2 DEF KeepsPlace
      <4> QED BY <1>1, <1>2, <2>3, <3>2, <4>1
    <3> QED BY <3>1, <3>2
  <2> QED BY <2>1, <2>2, <2>3
<1>7. ListedPhase' = [id \in Ksuid |-> IF id \in closing THEN "closed"
                                       ELSE IF id \in due THEN "absent"
                                       ELSE ListedPhase[id]]
  BY <1>5 DEF ListedPhase
<1>8. ListedLeft' = [id \in Ksuid |-> IF id \in closing THEN Linger
                                      ELSE ListedLeft[id]]
  BY <1>6 DEF ListedLeft
<1>9. due \in SUBSET Ksuid
  OBVIOUS
<1> HIDE DEF due
<1>10. Listing!CloseAndForget(closing, due)
  BY <1>3, <1>4, <1>7, <1>8 DEF Listing!CloseAndForget
<1> QED BY <1>9, <1>10 DEF Listing!Next

\* A mark that keeps its session open closes nothing.
LEMMA ProgressListed ==
  ASSUME ListInv, ListInv', NEW id \in Ksuid,
         NEW st \in SessionState \ {"Shutdown"}, Progresses(id, st)
  PROVE  Listing!Next
<1>1. /\ removal_queue' = {e \in removal_queue : ~Expired(e)}
      /\ \A jd \in Ksuid : sessions'[jd] =
           IF \E e \in removal_queue : Expired(e) /\ e.id = jd
           THEN NoSession ELSE [sessions EXCEPT ![id].state = st][jd]
  BY MarkQueue DEF Progresses
<1>2. \A e \in removal_queue : e.id # id /\ e.ttl \in Nat
  BY TimingAssumption
     DEF Progresses, ListInv, IInv, TypeOK, QueueEntry, EntryInv
<1>3. /\ sessions[id].state \notin {"absent", "Shutdown"}
      /\ sessions'[id].state \notin {"absent", "Shutdown"}
  <2>1. sessions[id].state \notin {"absent", "Shutdown"}
    <3>1. TaskInv(id) /\ open[id] \in SUBSET Halves
      BY DEF ListInv, IInv, TypeOK
    <3>2. task[id] \in {"header", "hello", "resolve", "dial", "copy"}
      BY DEF Progresses, ListInv, IInv, TypeOK, Pc
    <3> QED BY <3>1, <3>2 DEF TaskInv, Halves
  <2>2. sessions'[id].state = st
    BY <1>1, <1>2 DEF ListInv, IInv, TypeOK
  <2> QED BY <2>1, <2>2 DEF SessionState
<1>4. ASSUME NEW jd \in Ksuid \ {id}
      PROVE  KeepsPlace(jd)
  <2>1. CASE \E e \in removal_queue : Expired(e) /\ e.id = jd
    <3>1. sessions'[jd].state = "absent"
      BY <1>1, <2>1 DEF NoSession
    <3>2. sessions[jd].state \in {"absent", "Shutdown"}
      BY <2>1 DEF ListInv, IInv, EntryInv
    <3>3. sessions[jd].state = "Shutdown" => LeftMin(jd, 0)
      BY <1>2, <2>1 DEF LeftMin, Expired
    <3> QED BY <3>1, <3>2, <3>3 DEF KeepsPlace, LeftMin
  <2>2. CASE ~ \E e \in removal_queue : Expired(e) /\ e.id = jd
    <3>1. sessions'[jd] = sessions[jd]
      BY <1>1, <2>2 DEF ListInv, IInv, TypeOK
    <3>2. \A n \in Nat : LeftMin(jd, n) => LeftMin(jd, n)'
      BY <1>1, <2>2, <3>1 DEF LeftMin
    <3> QED BY <3>1, <3>2 DEF KeepsPlace
  <2> QED BY <2>1, <2>2
<1>5. \A jd \in Ksuid : KeepsPlace(jd)
  BY <1>3, <1>4 DEF KeepsPlace
<1> DEFINE closing == {}
<1>6. /\ closing \in SUBSET Ksuid
      /\ \A kd, jd \in closing : kd = jd
      /\ \A jd \in closing : /\ sessions[jd].state \notin {"absent", "Shutdown"}
                            /\ LeftMin(jd, Linger)'
      /\ \A jd \in Ksuid \ closing : KeepsPlace(jd)
  BY <1>5
<1> HIDE DEF closing
<1> QED BY <1>6, ForgetStep


\* A mark that shuts its session down closes it, unless it is closed already.
LEMMA ShutdownListed ==
  ASSUME ListInv, ListInv', NEW id \in Ksuid, ShutsDown(id)
  PROVE  Listing!Next
<1> DEFINE new == [ttl |-> Linger, ctr |-> tie_break_ctr, id |-> id]
           closing == {jd \in {id} : sessions[jd].state # "Shutdown"}
<1>1. /\ removal_queue' = {e \in removal_queue : ~Expired(e)} \cup {new}
      /\ \A jd \in Ksuid : sessions'[jd] =
           IF \E e \in removal_queue : Expired(e) /\ e.id = jd
           THEN NoSession ELSE [sessions EXCEPT ![id].state = "Shutdown"][jd]
  BY MarkShutdownQueue DEF ShutsDown
<1>2. \A e \in removal_queue :
        e.ttl \in 0 .. Linger /\ (e.id = id => ~Expired(e))
  BY TimingAssumption
     DEF ShutsDown, Live, ListInv, IInv, TypeOK, QueueEntry, EntryInv, Expired
<1>3. new.id = id /\ new.ttl = Linger /\ new \in removal_queue'
  BY <1>1
<1>4. \A e \in removal_queue' : e = new \/ (e \in removal_queue /\ ~Expired(e))
  BY <1>1
<1>5. \A e \in removal_queue : ~Expired(e) => e \in removal_queue'
  BY <1>1
<1> HIDE DEF new
<1>6. sessions'[id].state = "Shutdown"
  BY <1>1, <1>2 DEF ListInv, IInv, TypeOK
<1>7. ASSUME sessions[id].state # "Shutdown"
      PROVE  /\ sessions[id].state # "absent"
             /\ LeftMin(id, Linger)'
  <2>1. sessions[id].state # "absent"
    <3>1. TaskInv(id) /\ open[id] \in SUBSET Halves
      BY DEF ListInv, IInv, TypeOK
    <3>2. task[id] \in Pc \ {"idle"}
      BY DEF ShutsDown, Live, ListInv, IInv, TypeOK
    <3> QED BY <3>1, <3>2 DEF TaskInv, Halves, Pc
  <2>2. \A e \in removal_queue : e.id # id
    BY <1>7, <2>1 DEF ListInv, IInv, EntryInv
  <2> QED BY <1>3, <1>4, <1>6, <2>1, <2>2, TimingAssumption DEF LeftMin
<1>8. ASSUME sessions[id].state = "Shutdown" PROVE KeepsPlace(id)
  <2>1. ASSUME NEW n \in Nat, LeftMin(id, n) PROVE LeftMin(id, n)'
    BY <1>2, <1>3, <1>4, <1>5, <1>6, <2>1, TimingAssumption DEF LeftMin
  <2> QED BY <1>6, <1>8, <2>1 DEF KeepsPlace
<1>9. ASSUME NEW jd \in Ksuid \ {id} PROVE KeepsPlace(jd)
  <2>1. CASE \E e \in removal_queue : Expired(e) /\ e.id = jd
    <3>1. sessions'[jd].state = "absent"
      BY <1>1, <2>1 DEF NoSession
    <3>2. sessions[jd].state \in {"absent", "Shutdown"}
      BY <2>1 DEF ListInv, IInv, EntryInv
    <3>3. sessions[jd].state = "Shutdown" => LeftMin(jd, 0)
      BY <1>2, <2>1 DEF LeftMin, Expired
    <3> QED BY <3>1, <3>2, <3>3 DEF KeepsPlace, LeftMin
  <2>2. CASE ~ \E e \in removal_queue : Expired(e) /\ e.id = jd
    <3>1. sessions'[jd] = sessions[jd]
      BY <1>1, <2>2 DEF ListInv, IInv, TypeOK
    <3>2. \A n \in Nat : LeftMin(jd, n) => LeftMin(jd, n)'
      BY <1>3, <1>4, <1>5, <2>2, <3>1 DEF LeftMin
    <3> QED BY <3>1, <3>2 DEF KeepsPlace
  <2> QED BY <2>1, <2>2
<1>10. /\ closing \in SUBSET Ksuid
       /\ \A kd, jd \in closing : kd = jd
       /\ \A jd \in closing : /\ sessions[jd].state \notin {"absent", "Shutdown"}
                              /\ LeftMin(jd, Linger)'
       /\ \A jd \in Ksuid \ closing : KeepsPlace(jd)
  BY <1>7, <1>8, <1>9
<1> HIDE DEF closing
<1> QED BY <1>10, ForgetStep

\* An accept opens a session of the listing.
LEMMA AcceptListed ==
  ASSUME ListInv, ListInv', NEW id \in Ksuid, add_session(id)
  PROVE  Listing!Next
<1>1. /\ sessions[id].state = "absent" /\ sessions'[id].state = "Handshaking"
      /\ \A jd \in Ksuid \ {id} : sessions'[jd] = sessions[jd]
      /\ removal_queue' = removal_queue
  BY DEF add_session, ListInv, IInv, TypeOK, NoSession
<1>2. ListedPhase[id] = "absent"
  BY <1>1 DEF ListedPhase
<1>3. ListedPhase' = [ListedPhase EXCEPT ![id] = "open"]
  BY <1>1 DEF ListedPhase
<1>4. ListedLeft' = ListedLeft
  BY <1>1 DEF ListedLeft
<1>5. Listing!Open(id)
  BY <1>2, <1>3, <1>4 DEF Listing!Open
<1> QED BY <1>5 DEF Listing!Next

\* As time passes, the time that is left gets shorter.
LEMMA TickListed ==
  ASSUME ListInv, ListInv', Tick
  PROVE  Listing!Next
<1> DEFINE Less(n) == IF n = 0 THEN 0 ELSE n - 1
           aged(e) == [e EXCEPT !.ttl = Less(@)]
<1>1. sessions' = sessions /\ removal_queue' = {aged(e) : e \in removal_queue}
  BY DEF Tick
<1>2. \A e \in removal_queue :
        e.ttl \in Nat /\ aged(e).id = e.id /\ aged(e).ttl = Less(e.ttl)
  BY TimingAssumption DEF ListInv, IInv, TypeOK, QueueEntry
<1>3. /\ \A e \in removal_queue : aged(e) \in removal_queue'
      /\ \A f \in removal_queue' : \E e \in removal_queue : f = aged(e)
  BY <1>1
<1> HIDE DEF aged
<1>4. ASSUME NEW id \in Ksuid, NEW n \in Nat, LeftMin(id, n)
      PROVE  LeftMin(id, Less(n))'
  <2>1. sessions'[id].state = "Shutdown"
    BY <1>1, <1>4 DEF LeftMin
  <2>2. \E f \in removal_queue' : f.id = id /\ f.ttl = Less(n)
    <3>1. PICK e \in removal_queue : e.id = id /\ e.ttl = n
      BY <1>4 DEF LeftMin
    <3> QED BY <1>2, <1>3, <3>1
  <2>3. ASSUME NEW f \in removal_queue', f.id = id PROVE Less(n) <= f.ttl
    <3>1. PICK e \in removal_queue : f = aged(e)
      BY <1>3
    <3>2. e.id = id /\ f.ttl = Less(e.ttl) /\ e.ttl \in Nat
      BY <1>2, <2>3, <3>1
    <3>3. n <= e.ttl
      BY <1>4, <3>2 DEF LeftMin
    <3> QED BY <3>2, <3>3
  <2> QED BY <2>1, <2>2, <2>3 DEF LeftMin
<1>5. \A id \in Ksuid :
        /\ \A n \in Nat : LeftMin(id, n) => ListedLeft[id] = n
        /\ sessions[id].state = "Shutdown" => \E n \in Nat : LeftMin(id, n)
        /\ sessions[id].state # "Shutdown" => ListedLeft[id] = 0
  BY LeftIs
<1>6. (\A id \in Ksuid :
         /\ \A n \in Nat : LeftMin(id, n) => ListedLeft[id] = n
         /\ sessions[id].state = "Shutdown" => \E n \in Nat : LeftMin(id, n)
         /\ sessions[id].state # "Shutdown" => ListedLeft[id] = 0)'
  BY LeftIs, PTL
<1>7. ASSUME NEW id \in Ksuid
      PROVE  ListedLeft'[id] = IF ListedLeft[id] = 0 THEN 0 ELSE ListedLeft[id] - 1
  <2>1. CASE sessions[id].state = "Shutdown"
    <3>1. PICK n \in Nat : LeftMin(id, n)
      BY <1>5, <2>1
    <3>2. LeftMin(id, Less(n))' /\ Less(n) \in Nat
      BY <1>4, <3>1
    <3>3. ListedLeft[id] = n /\ ListedLeft'[id] = Less(n)
      BY <1>5, <1>6, <3>1, <3>2
    <3> QED BY <3>3
  <2>2. CASE sessions[id].state # "Shutdown"
    BY <1>1, <1>5, <1>6, <2>2
  <2> QED BY <2>1, <2>2
<1>8. ListedLeft' = [id \in Ksuid |->
                       IF ListedLeft[id] = 0 THEN 0 ELSE ListedLeft[id] - 1]
  BY <1>7 DEF ListedLeft
<1>9. ListedPhase' = ListedPhase
  BY <1>1 DEF ListedPhase
<1>10. Listing!Tick
  BY <1>8, <1>9 DEF Listing!Tick
<1> QED BY <1>10 DEF Listing!Next

\* Every step is a step of the listing or one that it does not see.
LEMMA ListStep ==
  ListInv /\ ListInv' /\ [Next]_vars => [Listing!Next]_<<ListedPhase, ListedLeft>>
<1> SUFFICES ASSUME ListInv, ListInv', [Next]_vars
             PROVE  Listing!Next \/ UNCHANGED <<ListedPhase, ListedLeft>>
  OBVIOUS
<1>1. CASE Quiet
  BY <1>1 DEF Quiet, ListedPhase, ListedLeft
<1>2. ASSUME NEW id \in Ksuid, add_session(id) PROVE Listing!Next
  BY <1>2, AcceptListed
<1>3. ASSUME NEW id \in Ksuid, NEW st \in SessionState \ {"Shutdown"},
             Progresses(id, st)
      PROVE  Listing!Next
  BY <1>3, ProgressListed
<1>4. ASSUME NEW id \in Ksuid, ShutsDown(id) PROVE Listing!Next
  BY <1>4, ShutdownListed
<1>5. CASE Tick
  BY <1>5, TickListed
<1>6. \/ Quiet
      \/ \E id \in Ksuid : add_session(id)
      \/ \E id \in Ksuid, st \in SessionState \ {"Shutdown"} : Progresses(id, st)
      \/ \E id \in Ksuid : ShutsDown(id)
      \/ Tick
  BY StepKind DEF ListInv
<1> QED BY <1>1, <1>2, <1>3, <1>4, <1>5, <1>6

\* The table, its tasks and its queue implement SessionListing, for any number
\* of sessions: each closes at most once, and stays listed for the full Linger
\* after that, whichever task's cleanup comes by. No removal is lost to another
\* with the same key, since the counter is wide enough for one instant.
THEOREM TableImplementsListing == Spec => ImplementsListing
<1>1. Init => ListInv /\ Listing!Init
  <2> SUFFICES ASSUME Init PROVE ListInv /\ Listing!Init
    OBVIOUS
  <2>1. FreshInv /\ Scheduled
    BY DEF Init, FreshInv, Scheduled, NoSession
  <2>2. ListedPhase = [id \in Ksuid |-> "absent"]
    BY DEF Init, ListedPhase, NoSession
  <2>3. ListedLeft = [id \in Ksuid |-> 0]
    BY DEF Init, ListedLeft, NoSession
  <2> QED BY <2>1, <2>2, <2>3, InitInv DEF ListInv, Listing!Init
<1> QED BY <1>1, ListStepInv, ListStep, PTL
        DEF Spec, ImplementsListing, Listing!Spec

===============================================================================
