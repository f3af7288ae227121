--------------------------- MODULE SupervisorProofs ---------------------------
(***************************************************************************)
(* For any number of children, SIGINTs and interleavings of the two        *)
(* threads: waitpid is never called without a child, the exit status is    *)
(* right, no child escapes the teardown, the main thread signals only its  *)
(* own children and no thread signals one twice.                           *)
(***************************************************************************)
EXTENDS Supervisor, FiniteSetTheorems, TLAPS

\* A thread's kill_all: at most one current child, taken from those to visit;
\* outside kill_all there is none.
WalkInv(t) ==
  /\ walk[t].cur \subseteq walk[t].todo
  /\ walk[t].at = "running" => walk[t].cur = {}
  /\ walk[t].at # "running" => \E c \in Children : walk[t].cur = {c}
  /\ Alive /\ ~Walking(t) => walk[t].at = "running"

\* Who has been reaped, and what the flag running says about it.
RunningInv ==
  /\ main # "store" => reaped = {}
  /\ \A c \in Children :
       /\ ~running[c] => proc[c] = "reaped"
       /\ proc[c] = "reaped" => ~running[c] \/ c \in reaped
       /\ c \in reaped => proc[c] = "reaped"

\* remaining_children, and when there may be children without a process.
CountInv ==
  /\ main \in {"wait", "store", "kill_all"} =>
       /\ remaining = Cardinality(Unreaped)
       /\ \A c \in Children : proc[c] # "unforked"
  /\ main = "fork" => \A c \in Children : proc[c] # "reaped"
  /\ main = "panicked" => \E c \in Children : proc[c] = "unforked"
  /\ main \in {"exit0", "exit1"} => Unreaped = {}

\* child_exited_nonzero sums up the children reaped so far.
StatusInv ==
  /\ \A c \in Children :
       proc[c] \in {"unforked", "running"} <=> status[c] = "none"
  /\ nonzero <=> \E c \in Children :
                   proc[c] = "reaped" /\ status[c] \in {"failure", "cored"}
  /\ main = "exit1" => nonzero
  /\ main = "exit0" => ~nonzero

\* A child whose sent_kill is set has been told, or some thread that set it is
\* at its kill.
SentInv ==
  /\ \A t \in Threads : walk[t].at = "kill" => \A c \in walk[t].cur : sent_kill[c]
  /\ \A t \in Threads : \A c \in told[t] : sent_kill[c]
  /\ \A c \in Children :
       sent_kill[c] /\ proc[c] = "running" =>
         Told(c) \/ \E t \in Threads : walk[t].at = "kill" /\ c \in walk[t].cur

\* The main thread's kill_all leaves behind only children that are told.
VisitInv ==
  /\ main = "kill_all" =>
       \A c \in Children \ walk["main"].todo :
         proc[c] = "running" => sent_kill[c]
  /\ main = "wait" /\ (\E c \in Children : proc[c] = "reaped") =>
       \A c \in Children : proc[c] = "running" => sent_kill[c]
  /\ \A c \in walk["main"].cur : proc[c] # "reaped"

\* The signal thread exists from the moment the main thread waits.
PhaseInv ==
  /\ Alive => (signal = "unborn" <=> main = "fork")
  /\ main = "fork" => \A c \in Children : ~sent_kill[c]

\* The inductive invariant.
IInv ==
  /\ TypeOK
  /\ PhaseInv
  /\ \A t \in Threads : WalkInv(t)
  /\ RunningInv
  /\ CountInv
  /\ StatusInv
  /\ SentInv
  /\ VisitInv
  /\ NoSecondTerm

-------------------------------------------------------------------------------
(* The invariant is inductive *)

\* Nothing is forked at start.
LEMMA InitInv == Init => IInv
<1> SUFFICES ASSUME Init PROVE IInv
  OBVIOUS
<1>1. TypeOK
  <2>1. NoWalk \in Walk
    BY DEF NoWalk, At, Walk
  <2>2. walk \in [Threads -> Walk]
    BY <2>1 DEF Init
  <2>3. sigints \in 0 .. MaxSigints
    BY SigintAssumption DEF Init
  <2>4. /\ running \in [Children -> BOOLEAN]
        /\ sent_kill \in [Children -> BOOLEAN]
        /\ nonzero \in BOOLEAN
    BY DEF Init
  <2> QED BY <2>2, <2>3, <2>4 DEF Init, TypeOK, MainPc, SignalPc
<1>2. \A t \in Threads : WalkInv(t)
  BY DEF Init, WalkInv, NoWalk, At
<1>3. RunningInv /\ CountInv /\ StatusInv /\ PhaseInv
  BY DEF Init, RunningInv, CountInv, StatusInv, PhaseInv
<1>4. SentInv /\ VisitInv /\ NoSecondTerm
  BY DEF Init, SentInv, VisitInv, NoSecondTerm, NoWalk, At, Threads
<1> QED BY <1>1, <1>2, <1>3, <1>4 DEF IInv

\* No kill_all runs before all children are forked.
LEMMA WalkingAfterFork ==
  ASSUME IInv, NEW t \in Threads, Walking(t) PROVE main # "fork"
BY DEF IInv, PhaseInv, Walking, Threads

\* Steps of kill_all leave alone what only the main loop and the kernel change.
LEMMA KillAllKeeps ==
  ASSUME IInv, UNCHANGED <<proc, status, running, reaped, remaining, nonzero>>,
         main # "fork",
         main' = main \/ (main = "kill_all" /\ main' = "wait"),
         signal' = signal \/ (signal = "kill_all" /\ signal' = "over")
  PROVE  RunningInv' /\ CountInv' /\ StatusInv' /\ PhaseInv'
BY DEF IInv, RunningInv, CountInv, StatusInv, PhaseInv, Unreaped, Alive

\* One load, in either thread: running.
LEMMA LoadRunningInv ==
  ASSUME IInv, NEW t \in Threads, LoadRunning(t) PROVE IInv'
<1>1. PICK c \in walk[t].todo :
        walk' = [walk EXCEPT ![t] = IF running[c]
                                    THEN At(@.todo, {c}, "sent")
                                    ELSE At(@.todo \ {c}, {}, "running")]
  BY DEF LoadRunning
<1>2. /\ walk \in [Threads -> Walk] /\ c \in Children
      /\ walk[t].cur = {} /\ walk[t].at = "running" /\ Walking(t) /\ Alive
  BY DEF IInv, TypeOK, Walk, WalkInv, LoadRunning, Walking
<1>3. UNCHANGED <<kernel, flags, main, waiting, signal, sigints>>
  BY DEF LoadRunning
<1>4. /\ walk' \in [Threads -> Walk]
      /\ \A u \in Threads \ {t} : walk'[u] = walk[u]
  BY <1>1, <1>2 DEF At, Walk
<1>5. CASE running[c]
  <2>1. walk'[t] = At(walk[t].todo, {c}, "sent")
    BY <1>1, <1>2, <1>5
  <2>2. proc[c] # "reaped" \/ t # "main"
    BY <1>2, <1>5 DEF IInv, RunningInv, Walking
  <2>3. TypeOK'
    BY <1>3, <1>4 DEF IInv, TypeOK, kernel, flags, waiting
  <2>4. \A u \in Threads : WalkInv(u)'
    BY <1>2, <1>3, <1>4, <2>1 DEF IInv, WalkInv, At, Walking, Alive
  <2>5. SentInv' /\ NoSecondTerm'
    BY <1>2, <1>3, <1>4, <2>1 DEF IInv, SentInv, NoSecondTerm, Told, At,
                                 kernel, flags
  <2>6. VisitInv'
    BY <1>2, <1>3, <1>4, <2>1, <2>2 DEF IInv, VisitInv, At, kernel, flags, Threads
  <2> QED BY <1>2, <1>3, <2>3, <2>4, <2>5, <2>6, KillAllKeeps, WalkingAfterFork
             DEF IInv, kernel, flags, waiting
<1>6. CASE ~running[c]
  <2>1. walk'[t] = At(walk[t].todo \ {c}, {}, "running")
    BY <1>1, <1>2, <1>6
  <2>2. proc[c] = "reaped"
    BY <1>2, <1>6 DEF IInv, RunningInv
  <2>3. TypeOK'
    BY <1>3, <1>4 DEF IInv, TypeOK, kernel, flags, waiting
  <2>4. \A u \in Threads : WalkInv(u)'
    BY <1>2, <1>3, <1>4, <2>1 DEF IInv, WalkInv, At, Walking, Alive
  <2>5. SentInv' /\ NoSecondTerm'
    BY <1>2, <1>3, <1>4, <2>1 DEF IInv, SentInv, NoSecondTerm, Told, At,
                                 kernel, flags
  <2>6. VisitInv'
    BY <1>2, <1>3, <1>4, <2>1, <2>2 DEF IInv, VisitInv, At, kernel, flags, Threads
  <2> QED BY <1>2, <1>3, <2>3, <2>4, <2>5, <2>6, KillAllKeeps, WalkingAfterFork
             DEF IInv, kernel, flags, waiting
<1> QED BY <1>5, <1>6

\* One load, in either thread: sent_kill.
LEMMA LoadSentKillInv ==
  ASSUME IInv, NEW t \in Threads, LoadSentKill(t) PROVE IInv'
<1>1. /\ walk \in [Threads -> Walk]
      /\ walk[t].at = "sent" /\ Walking(t) /\ Alive
  BY DEF IInv, TypeOK, LoadSentKill, Walking
<1>2. UNCHANGED <<kernel, flags, main, waiting, signal, sigints>>
  BY DEF LoadSentKill
<1>3. CASE \E c \in walk[t].cur : sent_kill[c]
  <2>1. walk' = [walk EXCEPT ![t] = At(@.todo \ @.cur, {}, "running")]
    BY <1>3 DEF LoadSentKill, NextChild
  <2>2. /\ walk' \in [Threads -> Walk]
        /\ \A u \in Threads \ {t} : walk'[u] = walk[u]
        /\ walk'[t] = At(walk[t].todo \ walk[t].cur, {}, "running")
    BY <1>1, <2>1 DEF At, Walk
  <2>3. TypeOK'
    BY <1>2, <2>2 DEF IInv, TypeOK, kernel, flags, waiting
  <2>4. \A u \in Threads : WalkInv(u)'
    BY <1>1, <1>2, <2>2 DEF IInv, WalkInv, At, Walking, Alive
  <2>5. SentInv' /\ NoSecondTerm'
    BY <1>1, <1>2, <2>2 DEF IInv, SentInv, NoSecondTerm, Told, At, kernel, flags
  <2>6. VisitInv'
    <3>1. \A c \in walk[t].cur : sent_kill[c]
      BY <1>1, <1>3 DEF IInv, WalkInv
    <3> QED BY <1>1, <1>2, <2>2, <3>1 DEF IInv, VisitInv, At, kernel, flags,
                                          Threads
  <2> QED BY <1>1, <1>2, <2>3, <2>4, <2>5, <2>6, KillAllKeeps, WalkingAfterFork
             DEF IInv, kernel, flags, waiting
<1>4. CASE ~ \E c \in walk[t].cur : sent_kill[c]
  <2>1. walk' = [walk EXCEPT ![t] = At(@.todo, @.cur, "store")]
    BY <1>4 DEF LoadSentKill
  <2>2. /\ walk' \in [Threads -> Walk]
        /\ \A u \in Threads \ {t} : walk'[u] = walk[u]
        /\ walk'[t] = At(walk[t].todo, walk[t].cur, "store")
    BY <1>1, <2>1 DEF At, Walk
  <2>3. TypeOK'
    BY <1>2, <2>2 DEF IInv, TypeOK, kernel, flags, waiting
  <2>4. \A u \in Threads : WalkInv(u)'
    BY <1>1, <1>2, <2>2 DEF IInv, WalkInv, At, Walking, Alive
  <2>5. SentInv'
    BY <1>1, <1>2, <2>2 DEF IInv, SentInv, Told, At, kernel, flags
  <2>6. NoSecondTerm'
    BY <1>1, <1>2, <1>4, <2>2 DEF IInv, SentInv, NoSecondTerm, At, kernel, flags
  <2>7. VisitInv'
    BY <1>1, <1>2, <2>2 DEF IInv, VisitInv, At, kernel, flags, Threads
  <2> QED BY <1>1, <1>2, <2>3, <2>4, <2>5, <2>6, <2>7, KillAllKeeps, WalkingAfterFork
             DEF IInv, kernel, flags, waiting
<1> QED BY <1>3, <1>4

\* The store, in either thread.
LEMMA StoreSentKillInv ==
  ASSUME IInv, NEW t \in Threads, StoreSentKill(t) PROVE IInv'
<1>1. /\ walk \in [Threads -> Walk]
      /\ walk[t].at = "store" /\ Walking(t) /\ Alive
      /\ walk[t].cur \subseteq Children
      /\ sent_kill \in [Children -> BOOLEAN]
  BY DEF IInv, TypeOK, StoreSentKill, Walking, Walk
<1>2. UNCHANGED <<kernel, running, main, waiting, signal, sigints>>
  BY DEF StoreSentKill
<1>3. /\ walk' \in [Threads -> Walk]
      /\ \A u \in Threads \ {t} : walk'[u] = walk[u]
      /\ walk'[t] = At(walk[t].todo, walk[t].cur, "kill")
  BY <1>1 DEF StoreSentKill, At, Walk
<1>4. /\ sent_kill' \in [Children -> BOOLEAN]
      /\ \A c \in Children : sent_kill'[c] <=> sent_kill[c] \/ c \in walk[t].cur
  BY <1>1 DEF StoreSentKill
<1>5. TypeOK'
  BY <1>2, <1>3, <1>4 DEF IInv, TypeOK, kernel, waiting
<1>6. \A u \in Threads : WalkInv(u)'
  BY <1>1, <1>2, <1>3 DEF IInv, WalkInv, At, Walking, Alive
<1>7. SentInv'
  <2>1. \A u \in Threads : walk'[u].cur \subseteq Children
    BY <1>3 DEF Walk
  <2>2. \A u \in Threads : told[u] \subseteq Children
    BY DEF IInv, TypeOK
  <2>3. \A u \in Threads : walk'[u].at = "kill" =>
          \A c \in walk'[u].cur : sent_kill'[c]
    BY <1>3, <1>4, <2>1 DEF IInv, SentInv, At
  <2>4. \A u \in Threads : \A c \in told'[u] : sent_kill'[c]
    BY <1>2, <1>4, <2>2 DEF IInv, SentInv, kernel
  <2>5. ASSUME NEW c \in Children, sent_kill'[c], proc'[c] = "running"
        PROVE  Told(c)' \/ \E u \in Threads :
                             walk'[u].at = "kill" /\ c \in walk'[u].cur
    <3>1. CASE c \in walk[t].cur
      BY <1>3, <3>1 DEF At
    <3>2. CASE c \notin walk[t].cur
      <4>1. sent_kill[c] /\ proc[c] = "running"
        BY <1>2, <1>4, <2>5, <3>2 DEF kernel
      <4>2. Told(c) \/ \E u \in Threads : walk[u].at = "kill" /\ c \in walk[u].cur
        BY <4>1 DEF IInv, SentInv
      <4> QED BY <1>2, <1>3, <3>2, <4>2 DEF Told, kernel
    <3> QED BY <3>1, <3>2
  <2> QED BY <2>3, <2>4, <2>5 DEF SentInv
<1>8. NoSecondTerm'
  BY <1>1, <1>2, <1>3 DEF IInv, NoSecondTerm, At, kernel
<1>9. VisitInv'
  BY <1>1, <1>2, <1>3, <1>4 DEF IInv, VisitInv, At, kernel, Threads
<1> QED BY <1>1, <1>2, <1>5, <1>6, <1>7, <1>8, <1>9, KillAllKeeps, WalkingAfterFork
           DEF IInv, kernel, waiting

\* The kill, in either thread.
LEMMA KillInv ==
  ASSUME IInv, NEW t \in Threads, Kill(t) PROVE IInv'
<1>1. /\ walk \in [Threads -> Walk] /\ told \in [Threads -> SUBSET Children]
      /\ walk[t].at = "kill" /\ Walking(t) /\ Alive
      /\ walk[t].cur \subseteq Children
      /\ \A c \in walk[t].cur : sent_kill[c]
  BY DEF IInv, TypeOK, Kill, Walking, Walk, SentInv
<1>2. UNCHANGED <<proc, status, flags, main, waiting, signal, sigints>>
  BY DEF Kill
<1>3. /\ walk' \in [Threads -> Walk]
      /\ \A u \in Threads \ {t} : walk'[u] = walk[u]
      /\ walk'[t] = At(walk[t].todo \ walk[t].cur, {}, "running")
  BY <1>1 DEF Kill, NextChild, At, Walk
<1>4. /\ told' \in [Threads -> SUBSET Children]
      /\ \A u \in Threads \ {t} : told'[u] = told[u]
      /\ told'[t] = told[t] \cup {c \in walk[t].cur : proc[c] # "reaped"}
  BY <1>1 DEF Kill
<1>5. TypeOK'
  BY <1>2, <1>3, <1>4 DEF IInv, TypeOK, flags, waiting
<1>6. \A u \in Threads : WalkInv(u)'
  BY <1>1, <1>2, <1>3 DEF IInv, WalkInv, At, Walking, Alive
<1>7. SentInv'
  <2>1. \A u \in Threads : walk'[u].at = "kill" =>
          \A c \in walk'[u].cur : sent_kill'[c]
    BY SMTT(30), <1>2, <1>3 DEF IInv, SentInv, At, flags
  <2>2. \A u \in Threads : \A c \in told'[u] : sent_kill'[c]
    BY <1>1, <1>2, <1>4 DEF IInv, SentInv, flags
  <2>3. ASSUME NEW c \in Children, sent_kill'[c], proc'[c] = "running"
        PROVE  Told(c)' \/ \E u \in Threads :
                             walk'[u].at = "kill" /\ c \in walk'[u].cur
    <3>1. CASE c \in walk[t].cur
      BY <1>2, <1>4, <2>3, <3>1 DEF Told
    <3>2. CASE c \notin walk[t].cur
      <4>1. Told(c) \/ \E u \in Threads : walk[u].at = "kill" /\ c \in walk[u].cur
        BY <1>2, <2>3 DEF IInv, SentInv, flags
      <4> QED BY <1>3, <1>4, <3>2, <4>1 DEF Told
    <3> QED BY <3>1, <3>2
  <2> QED BY <2>1, <2>2, <2>3 DEF SentInv
<1>8. NoSecondTerm'
  BY <1>1, <1>3, <1>4 DEF IInv, NoSecondTerm, At
<1>9. VisitInv'
  BY <1>1, <1>2, <1>3 DEF IInv, VisitInv, At, flags, Threads
<1> QED BY <1>1, <1>2, <1>5, <1>6, <1>7, <1>8, <1>9, KillAllKeeps, WalkingAfterFork
           DEF IInv, flags, waiting

\* The end of kill_all, in either thread.
LEMMA KillAllReturnsInv ==
  ASSUME IInv, NEW t \in Threads, KillAllReturns(t) PROVE IInv'
<1>1. /\ walk[t].todo = {} /\ walk[t].cur = {} /\ walk[t].at = "running"
      /\ Walking(t) /\ Alive
  BY DEF IInv, WalkInv, KillAllReturns, Walking
<1>2. UNCHANGED <<kernel, flags, waiting, sigints, walk>>
  BY DEF KillAllReturns
<1>3. /\ main' = main \/ (main = "kill_all" /\ main' = "wait" /\ t = "main")
      /\ \/ signal' = signal
         \/ signal = "kill_all" /\ signal' = "over" /\ t = "signal"
  BY <1>1 DEF KillAllReturns, Threads, Walking
<1>4. TypeOK'
  BY <1>2, <1>3 DEF IInv, TypeOK, kernel, flags, waiting, MainPc, SignalPc
<1>5. \A u \in Threads : WalkInv(u)'
  <2> SUFFICES ASSUME NEW u \in Threads PROVE WalkInv(u)'
    OBVIOUS
  <2>1. CASE u = t
    BY <1>1, <1>2, <2>1 DEF IInv, WalkInv
  <2>2. CASE u # t
    BY <1>1, <1>2, <1>3, <2>2 DEF IInv, WalkInv, Walking, Alive, Threads
  <2> QED BY <2>1, <2>2
<1>6. SentInv' /\ NoSecondTerm'
  BY <1>2 DEF IInv, SentInv, NoSecondTerm, Told, kernel, flags
<1>7. VisitInv'
  BY <1>1, <1>2, <1>3 DEF IInv, VisitInv, kernel, flags
<1> QED BY <1>1, <1>2, <1>3, <1>4, <1>5, <1>6, <1>7, KillAllKeeps, WalkingAfterFork
           DEF IInv, kernel, flags, waiting

\* A child ends.
LEMMA ChildEndsInv ==
  ASSUME IInv, NEW c \in Children, ChildEnds(c) PROVE IInv'
<1>1. PICK s \in Status : status' = [status EXCEPT ![c] = s]
  BY DEF ChildEnds
<1>2. /\ proc[c] = "running" /\ proc' = [proc EXCEPT ![c] = "zombie"]
      /\ UNCHANGED <<told, flags, main, waiting, signal, sigints, walk>>
  BY DEF ChildEnds
<1>3. /\ \A d \in Children \ {c} : proc'[d] = proc[d] /\ status'[d] = status[d]
      /\ proc'[c] = "zombie" /\ status'[c] = s /\ s # "none"
  BY <1>1, <1>2 DEF IInv, TypeOK, Status
<1>4. TypeOK'
  BY <1>1, <1>2 DEF IInv, TypeOK, flags, waiting
<1>5. \A t \in Threads : WalkInv(t)'
  BY <1>2 DEF IInv, WalkInv, Walking, Alive
<1>6. RunningInv'
  BY <1>2, <1>3 DEF IInv, RunningInv, flags, waiting
<1>7. CountInv'
  <2>1. Unreaped' = Unreaped
    BY <1>2, <1>3 DEF Unreaped
  <2>2. \A d \in Children : /\ proc'[d] = "unforked" <=> proc[d] = "unforked"
                            /\ proc'[d] = "reaped" <=> proc[d] = "reaped"
    BY <1>2, <1>3
  <2> QED BY <1>2, <2>1, <2>2 DEF IInv, CountInv, waiting
<1>8. StatusInv'
  BY <1>2, <1>3 DEF IInv, StatusInv, waiting
<1>9. SentInv' /\ NoSecondTerm'
  BY <1>2, <1>3 DEF IInv, SentInv, NoSecondTerm, Told, flags
<1>10. VisitInv'
  BY <1>2, <1>3 DEF IInv, VisitInv, flags
<1>11. PhaseInv'
  BY <1>2 DEF IInv, PhaseInv, Alive, flags
<1> QED BY <1>4, <1>5, <1>6, <1>7, <1>8, <1>9, <1>10, <1>11 DEF IInv

\* A SIGINT: it ends a linker that is not ready for it, or starts kill_all.
LEMMA SigintInv ==
  ASSUME IInv, Sigint PROVE IInv'
<1>1. /\ UNCHANGED <<kernel, flags, waiting>>
      /\ Alive
      /\ sigints' = sigints + 1 /\ sigints < MaxSigints
  BY DEF Sigint
<1>2. CASE signal = "unborn"
  <2>1. /\ main = "fork" /\ main' = "interrupted"
        /\ UNCHANGED <<signal, walk>>
    BY <1>1, <1>2 DEF Sigint, IInv, PhaseInv
  <2>2. TypeOK'
    BY <1>1, <2>1, SigintAssumption
       DEF IInv, TypeOK, kernel, flags, waiting, MainPc
  <2>3. \A t \in Threads : WalkInv(t)'
    BY <2>1 DEF IInv, WalkInv, Alive
  <2>4. RunningInv' /\ CountInv' /\ StatusInv' /\ PhaseInv'
    BY <1>1, <2>1 DEF IInv, RunningInv, CountInv, StatusInv, PhaseInv, Alive,
                      kernel, flags, waiting
  <2>5. SentInv' /\ NoSecondTerm' /\ VisitInv'
    BY <1>1, <2>1 DEF IInv, SentInv, NoSecondTerm, VisitInv, Told, kernel, flags
  <2> QED BY <2>2, <2>3, <2>4, <2>5 DEF IInv
<1>3. CASE signal = "first"
  <2>1. /\ main' = main /\ signal' = "kill_all"
        /\ walk' = [walk EXCEPT !["signal"] = StartWalk]
    BY <1>3 DEF Sigint
  <2>2. StartWalk \in Walk
    BY DEF StartWalk, At, Walk
  <2>3. /\ walk' \in [Threads -> Walk] /\ walk'["main"] = walk["main"]
        /\ walk'["signal"] = At(Children, {}, "running")
    BY <2>1, <2>2 DEF IInv, TypeOK, Threads, StartWalk
  <2>4. walk["signal"].at = "running" /\ walk["signal"].cur = {}
    BY <1>1, <1>3 DEF IInv, WalkInv, Walking, Threads
  <2>5. TypeOK'
    BY <1>1, <2>1, <2>3, SigintAssumption
       DEF IInv, TypeOK, kernel, flags, waiting, SignalPc
  <2>6. \A t \in Threads : WalkInv(t)'
    BY <1>1, <2>1, <2>3 DEF IInv, WalkInv, Walking, Alive, Threads, At
  <2>7. RunningInv' /\ CountInv' /\ StatusInv' /\ PhaseInv'
    BY <1>1, <1>3, <2>1 DEF IInv, RunningInv, CountInv, StatusInv, PhaseInv,
                            Alive, Unreaped, kernel, flags, waiting
  <2>8. SentInv' /\ NoSecondTerm' /\ VisitInv'
    BY <1>1, <2>1, <2>3, <2>4
       DEF IInv, SentInv, NoSecondTerm, VisitInv, Told, kernel, flags, At, Threads
  <2> QED BY <2>5, <2>6, <2>7, <2>8 DEF IInv
<1>4. CASE signal \notin {"unborn", "first"}
  <2>1. UNCHANGED <<main, signal, walk>>
    BY <1>4 DEF Sigint
  <2>2. TypeOK'
    BY <1>1, <2>1, SigintAssumption DEF IInv, TypeOK, kernel, flags, waiting
  <2>3. (\A t \in Threads : WalkInv(t)') /\ SentInv' /\ NoSecondTerm' /\ VisitInv'
    BY <1>1, <2>1 DEF IInv, WalkInv, Walking, Alive, SentInv, NoSecondTerm,
                      VisitInv, Told, kernel, flags
  <2>4. main # "fork"
    BY <1>1, <1>4 DEF IInv, PhaseInv
  <2> QED BY <1>1, <2>1, <2>2, <2>3, <2>4, KillAllKeeps
             DEF IInv, kernel, flags, waiting
<1> QED BY <1>2, <1>3, <1>4

\* Forking, and its failure.
LEMMA ForkInv ==
  ASSUME IInv, NEW c \in Children, Fork(c) PROVE IInv'
<1>1. /\ main = "fork" /\ proc[c] = "unforked"
      /\ UNCHANGED <<status, told, flags, waiting, signal, sigints, walk>>
  BY DEF Fork
<1>2. \/ proc' = [proc EXCEPT ![c] = "running"] /\ main' = main
      \/ main' = "panicked" /\ proc' = proc
  BY DEF Fork
<1>3. /\ \A d \in Children \ {c} : proc'[d] = proc[d]
      /\ \A d \in Children : proc'[d] = "reaped" <=> proc[d] = "reaped"
      /\ proc'[c] \in {"unforked", "running"}
      /\ main' = "panicked" => proc'[c] = "unforked"
      /\ main' \in {"fork", "panicked"}
  BY <1>1, <1>2 DEF IInv, TypeOK
<1>4. TypeOK'
  BY <1>1, <1>2 DEF IInv, TypeOK, flags, waiting, MainPc
<1>5. \A t \in Threads : WalkInv(t)'
  BY <1>1, <1>3 DEF IInv, WalkInv, Walking, Alive
<1>6. RunningInv' /\ CountInv' /\ StatusInv' /\ PhaseInv'
  <2>1. RunningInv' /\ CountInv'
    BY <1>1, <1>3 DEF IInv, RunningInv, CountInv, flags, waiting
  <2>2. StatusInv'
    BY <1>1, <1>3 DEF IInv, StatusInv, waiting
  <2>3. PhaseInv'
    BY <1>1, <1>3 DEF IInv, PhaseInv, Alive, flags
  <2> QED BY <2>1, <2>2, <2>3
<1>7. ~sent_kill[c]
  BY <1>1 DEF IInv, PhaseInv
<1>8. SentInv' /\ NoSecondTerm'
  BY <1>1, <1>3, <1>7 DEF IInv, SentInv, NoSecondTerm, Told, flags
<1>9. VisitInv'
  <2>1. walk["main"].cur = {}
    BY <1>1 DEF IInv, WalkInv, Walking, Alive, Threads
  <2> QED BY <1>1, <1>3, <2>1 DEF VisitInv
<1> QED BY <1>4, <1>5, <1>6, <1>8, <1>9 DEF IInv

\* The wait loop begins.
LEMMA StartWaitingInv ==
  ASSUME IInv, StartWaiting PROVE IInv'
<1>1. /\ main = "fork" /\ main' = "wait" /\ signal' = "first"
      /\ remaining' = Cardinality(Children)
      /\ UNCHANGED <<kernel, flags, reaped, nonzero, sigints, walk>>
      /\ \A c \in Children : proc[c] # "unforked"
  BY DEF StartWaiting
<1>2. Cardinality(Children) \in Nat
  BY ChildrenAssumption, FS_CardinalityType
<1>3. Unreaped' = Children
  BY <1>1 DEF IInv, CountInv, Unreaped, kernel
<1>4. TypeOK'
  BY <1>1, <1>2 DEF IInv, TypeOK, kernel, flags, MainPc, SignalPc
<1>5. \A t \in Threads : WalkInv(t)'
  BY <1>1 DEF IInv, PhaseInv, WalkInv, Walking, Alive, Threads
<1>6. CountInv'
  BY <1>1, <1>3 DEF CountInv, kernel
<1>7. RunningInv' /\ StatusInv' /\ PhaseInv'
  BY <1>1 DEF IInv, RunningInv, StatusInv, PhaseInv, kernel, flags
<1>8. SentInv' /\ NoSecondTerm'
  BY <1>1 DEF IInv, SentInv, NoSecondTerm, Told, kernel, flags
<1>9. VisitInv'
  BY <1>1 DEF IInv, VisitInv, CountInv, kernel, flags
<1> QED BY <1>4, <1>5, <1>6, <1>7, <1>8, <1>9 DEF IInv

\* waitpid has a child to report: the panic is not reached.
LEMMA WaitpidInv ==
  ASSUME IInv, Waitpid PROVE IInv'
<1>1. /\ main = "wait" /\ remaining > 0
      /\ UNCHANGED <<status, told, flags, signal, sigints, walk>>
  BY DEF Waitpid
<1>2. IsFiniteSet(Unreaped)
  BY ChildrenAssumption, FS_Subset DEF Unreaped
<1>3. remaining = Cardinality(Unreaped) /\ remaining \in Nat
  BY <1>1 DEF IInv, TypeOK, CountInv
<1>4. ~ \A c \in Children : proc[c] \in {"unforked", "reaped"}
  <2>1. Unreaped # {}
    BY <1>1, <1>3, FS_EmptySet
  <2> QED BY <1>1, <2>1 DEF IInv, CountInv, Unreaped
<1>5. PICK c \in Children :
        /\ proc[c] = "zombie"
        /\ proc' = [proc EXCEPT ![c] = "reaped"]
        /\ nonzero' = (nonzero \/ CountsAsFailure(status[c]))
        /\ remaining' = remaining - 1
        /\ reaped' = {c}
        /\ main' = "store"
  BY <1>4 DEF Waitpid
<1>6. /\ \A d \in Children \ {c} : proc'[d] = proc[d]
      /\ proc'[c] = "reaped"
  BY <1>5 DEF IInv, TypeOK
<1>7. remaining' = Cardinality(Unreaped')
  <2>1. Unreaped' = Unreaped \ {c} /\ c \in Unreaped
    BY <1>5, <1>6 DEF Unreaped
  <2> QED BY <1>2, <1>3, <1>5, <2>1, FS_RemoveElement
<1>8. nonzero' \in BOOLEAN
  BY <1>5 DEF IInv, TypeOK
<1>9. TypeOK'
  BY <1>1, <1>3, <1>5, <1>8 DEF IInv, TypeOK, flags, MainPc
<1>10. \A t \in Threads : WalkInv(t)'
  BY <1>1, <1>5 DEF IInv, WalkInv, Walking, Alive, Threads
<1>11. RunningInv'
  BY <1>1, <1>5, <1>6 DEF IInv, RunningInv, flags
<1>12. CountInv'
  BY <1>1, <1>5, <1>6, <1>7 DEF IInv, CountInv
<1>13. StatusInv'
  BY <1>1, <1>5, <1>6 DEF IInv, StatusInv, CountsAsFailure
<1>14. PhaseInv'
  BY <1>1, <1>5 DEF IInv, PhaseInv, Alive
<1>15. SentInv' /\ NoSecondTerm'
  BY <1>1, <1>5, <1>6 DEF IInv, SentInv, NoSecondTerm, Told, flags
<1>16. VisitInv'
  <2>1. walk["main"].cur = {}
    BY <1>1 DEF IInv, WalkInv, Walking, Alive, Threads
  <2> QED BY <1>1, <1>5, <2>1 DEF VisitInv
<1> QED BY <1>9, <1>10, <1>11, <1>12, <1>13, <1>14, <1>15, <1>16 DEF IInv

\* running.store(false), and the main thread's kill_all begins.
LEMMA StoreRunningInv ==
  ASSUME IInv, StoreRunning PROVE IInv'
<1>1. /\ main = "store" /\ main' = "kill_all" /\ reaped' = {}
      /\ walk' = [walk EXCEPT !["main"] = StartWalk]
      /\ UNCHANGED <<kernel, sent_kill, remaining, nonzero, signal, sigints>>
  BY DEF StoreRunning
<1>2. /\ running' \in [Children -> BOOLEAN]
      /\ \A c \in Children : running'[c] <=> running[c] /\ c \notin reaped
  BY DEF StoreRunning, IInv, TypeOK
<1>3. StartWalk \in Walk
  BY DEF StartWalk, At, Walk
<1>4. /\ walk' \in [Threads -> Walk] /\ walk'["signal"] = walk["signal"]
      /\ walk'["main"] = At(Children, {}, "running")
  BY <1>1, <1>3 DEF IInv, TypeOK, Threads, StartWalk
<1>5. walk["main"].at = "running"
  BY <1>1 DEF IInv, WalkInv, Walking, Alive, Threads
<1>6. TypeOK'
  BY <1>1, <1>2, <1>4 DEF IInv, TypeOK, kernel, MainPc
<1>7. \A t \in Threads : WalkInv(t)'
  BY <1>1, <1>4 DEF IInv, WalkInv, Walking, Alive, Threads, At
<1>8. RunningInv'
  BY <1>1, <1>2 DEF IInv, RunningInv, kernel
<1>9. CountInv' /\ StatusInv' /\ PhaseInv'
  BY <1>1 DEF IInv, CountInv, StatusInv, PhaseInv, Alive, Unreaped, kernel
<1>10. SentInv'
  BY <1>1, <1>4, <1>5 DEF IInv, SentInv, Told, kernel, At, Threads
<1>11. NoSecondTerm'
  BY <1>1, <1>4, <1>5 DEF IInv, NoSecondTerm, kernel, At, Threads
<1>12. VisitInv'
  BY <1>1, <1>4 DEF VisitInv, kernel, At
<1> QED BY <1>6, <1>7, <1>8, <1>9, <1>10, <1>11, <1>12 DEF IInv

\* The loop ends with the last child.
LEMMA ExitInv ==
  ASSUME IInv, Exit PROVE IInv'
<1>1. /\ main = "wait" /\ remaining = 0
      /\ main' = IF nonzero THEN "exit1" ELSE "exit0"
      /\ UNCHANGED <<kernel, flags, waiting, signal, sigints, walk>>
  BY DEF Exit
<1>2. Unreaped = {}
  <2>1. IsFiniteSet(Unreaped)
    BY ChildrenAssumption, FS_Subset DEF Unreaped
  <2> QED BY <1>1, <2>1, FS_EmptySet DEF IInv, CountInv
<1>3. TypeOK'
  BY <1>1 DEF IInv, TypeOK, kernel, flags, waiting, MainPc
<1>4. \A t \in Threads : WalkInv(t)'
  BY <1>1 DEF IInv, WalkInv, Alive
<1>5. RunningInv' /\ CountInv' /\ StatusInv' /\ PhaseInv'
  BY <1>1, <1>2 DEF IInv, RunningInv, CountInv, StatusInv, PhaseInv, Alive,
                    Unreaped, kernel, flags, waiting
<1>6. SentInv' /\ NoSecondTerm' /\ VisitInv'
  BY <1>1 DEF IInv, SentInv, NoSecondTerm, VisitInv, Told, kernel, flags
<1> QED BY <1>3, <1>4, <1>5, <1>6 DEF IInv

\* Every step keeps the invariant.
LEMMA StepInv == IInv /\ [Next]_vars => IInv'
<1> SUFFICES ASSUME IInv, [Next]_vars PROVE IInv'
  OBVIOUS
<1>1. CASE UNCHANGED vars
  <2> USE <1>1 DEF vars, kernel, flags, waiting, IInv, Alive, Unreaped, Told
  <2>1. TypeOK'
    BY DEF TypeOK
  <2>2. \A t \in Threads : WalkInv(t)'
    BY DEF WalkInv, Walking
  <2>3. RunningInv' /\ CountInv' /\ StatusInv' /\ PhaseInv'
    BY DEF RunningInv, CountInv, StatusInv, PhaseInv
  <2>4. SentInv' /\ VisitInv' /\ NoSecondTerm'
    BY DEF SentInv, VisitInv, NoSecondTerm
  <2> QED BY <2>1, <2>2, <2>3, <2>4
<1>2. ASSUME NEW t \in Threads, KillAllStep(t) PROVE IInv'
  BY <1>2, LoadRunningInv, LoadSentKillInv, StoreSentKillInv, KillInv,
     KillAllReturnsInv DEF KillAllStep
<1>3. CASE MainStep
  BY <1>2, <1>3, ForkInv, StartWaitingInv, WaitpidInv, StoreRunningInv, ExitInv
     DEF MainStep, Threads
<1> QED BY <1>1, <1>2, <1>3, ChildEndsInv, SigintInv DEF Next, Threads

-------------------------------------------------------------------------------
(* The theorems *)

\* Flags, counters and program counters keep their types.
THEOREM TypeCorrect == Spec => []TypeOK
<1>1. IInv => TypeOK
  BY DEF IInv
<1> QED BY <1>1, InitInv, StepInv, PTL DEF Spec

\* remaining_children is exact, so that waitpid is called only with a child to
\* wait for: the wait loop never panics.
THEOREM WaitNeverPanics == Spec => []Accounting
<1>1. IInv => Accounting
  BY DEF IInv, CountInv, Accounting
<1> QED BY <1>1, InitInv, StepInv, PTL DEF Spec

\* No child escapes the teardown, however the two kill_all interleave.
THEOREM NobodySkipped == Spec => []TeardownComplete
<1>1. IInv => TeardownComplete
  <2> SUFFICES ASSUME IInv, main = "wait", \E d \in Children : proc[d] = "reaped",
                      NEW c \in Children, proc[c] = "running"
               PROVE  Told(c) \/ (signal = "kill_all" /\ walk["signal"].at = "kill"
                                    /\ c \in walk["signal"].cur)
    BY DEF TeardownComplete
  <2>1. sent_kill[c]
    BY DEF IInv, VisitInv
  <2>2. \/ Told(c)
        \/ \E t \in Threads : walk[t].at = "kill" /\ c \in walk[t].cur
    BY <2>1 DEF IInv, SentInv
  <2>3. \A t \in Threads : walk[t].at = "kill" => t = "signal" /\ signal = "kill_all"
    BY DEF IInv, WalkInv, Walking, Alive, Threads
  <2> QED BY <2>2, <2>3
<1> QED BY <1>1, InitInv, StepInv, PTL DEF Spec

\* The linker's exit status reports whether a child failed, after all ended.
THEOREM ExitStatusCorrect == Spec => []ExitStatus
<1>1. IInv => ExitStatus
  BY DEF IInv, CountInv, StatusInv, ExitStatus, Unreaped
<1> QED BY <1>1, InitInv, StepInv, PTL DEF Spec

\* Neither thread signals a child twice.
THEOREM TermAtMostOnce == Spec => []NoSecondTerm
<1>1. IInv => NoSecondTerm
  BY DEF IInv
<1> QED BY <1>1, InitInv, StepInv, PTL DEF Spec

\* The main thread never signals a pid it has reaped.
THEOREM MainKillsOwn == Spec => MainKillsOnlyItsChildren
<1>1. IInv => (main = "kill_all" /\ walk["main"].at = "kill" =>
                 \A c \in walk["main"].cur : proc[c] # "reaped")
  BY DEF IInv, VisitInv
<1> QED BY <1>1, InitInv, StepInv, PTL DEF Spec, MainKillsOnlyItsChildren

===============================================================================
