------------------------------ MODULE Supervisor ------------------------------
(***************************************************************************)
(* The linker as supervisor of the processes of one deployment             *)
(* (platform/posix.rs, run_reified).                                       *)
(*                                                                         *)
(* The main thread forks one child per application and reaps them. The     *)
(* first child that ends takes the deployment down: after every reap it    *)
(* sends SIGTERM to all children not yet told (kill_all). A second thread  *)
(* waits for a SIGINT and runs the same kill_all. The two threads share    *)
(* two atomic flags per child and no lock, so each load, store and kill is *)
(* a step of its own.                                                      *)
(*                                                                         *)
(* The kernel is modelled from how the code uses it: a child that ends is  *)
(* a zombie until waitpid reaps it, after which its pid is free for other  *)
(* processes. waitpid is called without WUNTRACED or WCONTINUED, so it     *)
(* reports ends only.                                                      *)
(***************************************************************************)
EXTENDS Naturals, FiniteSets

CONSTANTS
  Children,     \* the applications of the deployment, one process each
  MaxSigints    \* bound on the SIGINTs sent to the linker

ASSUME ChildrenAssumption == IsFiniteSet(Children)

ASSUME SigintAssumption == MaxSigints \in Nat

VARIABLES
  proc,         \* each child as the kernel sees it
  status,       \* how a child ended
  told,         \* the children that a SIGTERM of each thread has reached
  running,      \* ChildInfo.running
  sent_kill,    \* ChildInfo.sent_kill
  main,         \* program counter of the main thread
  reaped,       \* {}, or the child whose end waitpid just reported
  remaining,    \* remaining_children
  nonzero,      \* child_exited_nonzero
  signal,       \* program counter of the signal thread
  sigints,      \* SIGINTs sent so far
  walk          \* how far each thread's kill_all is through the children

flags == <<running, sent_kill>>
kernel == <<proc, status, told>>
waiting == <<reaped, remaining, nonzero>>
vars == <<kernel, flags, main, waiting, signal, sigints, walk>>

Threads == {"main", "signal"}

\* exit(0), exit(1), a signal without core dump, a signal with one.
Status == {"success", "failure", "signaled", "cored"}

\* kill_all visits the children of `todo`, in any order; `at` is the next
\* operation on the child `cur` it is at.
Walk == [todo : SUBSET Children, cur : SUBSET Children,
         at : {"running", "sent", "store", "kill"}]

At(todo, cur, at) == [todo |-> todo, cur |-> cur, at |-> at]

NoWalk == At({}, {}, "running")

StartWalk == At(Children, {}, "running")

MainPc == {"fork", "wait", "store", "kill_all", "exit0", "exit1", "panicked",
           "interrupted"}

SignalPc == {"unborn", "first", "kill_all", "over"}

Alive == main \in {"fork", "wait", "store", "kill_all"}

Told(c) == \E t \in Threads : c \in told[t]

Unreaped == {c \in Children : proc[c] # "reaped"}

TypeOK ==
  /\ proc \in [Children -> {"unforked", "running", "zombie", "reaped"}]
  /\ status \in [Children -> Status \cup {"none"}]
  /\ told \in [Threads -> SUBSET Children]
  /\ running \in [Children -> BOOLEAN]
  /\ sent_kill \in [Children -> BOOLEAN]
  /\ main \in MainPc
  /\ reaped \subseteq Children
  /\ remaining \in Nat
  /\ nonzero \in BOOLEAN
  /\ signal \in SignalPc
  /\ sigints \in 0 .. MaxSigints
  /\ walk \in [Threads -> Walk]

Init ==
  /\ proc = [c \in Children |-> "unforked"]
  /\ status = [c \in Children |-> "none"]
  /\ told = [t \in Threads |-> {}]
  /\ running = [c \in Children |-> TRUE]
  /\ sent_kill = [c \in Children |-> FALSE]
  /\ main = "fork"
  /\ reaped = {}
  /\ remaining = 0
  /\ nonzero = FALSE
  /\ signal = "unborn"
  /\ sigints = 0
  /\ walk = [t \in Threads |-> NoWalk]

-------------------------------------------------------------------------------
(* The children and the operator *)

\* A child may end at any time, in any way.
ChildEnds(c) ==
  /\ proc[c] = "running"
  /\ proc' = [proc EXCEPT ![c] = "zombie"]
  /\ \E s \in Status : status' = [status EXCEPT ![c] = s]
  /\ UNCHANGED <<told, flags, main, waiting, signal, sigints, walk>>

\* Before Signals::new a SIGINT has its default effect. Later it wakes the
\* signal thread, once: that thread closes the iterator at the first signal,
\* and a closed iterator yields nothing more.
Sigint ==
  /\ Alive
  /\ sigints < MaxSigints
  /\ sigints' = sigints + 1
  /\ IF signal = "unborn"
     THEN main' = "interrupted" /\ UNCHANGED <<signal, walk>>
     ELSE /\ signal' = IF signal = "first" THEN "kill_all" ELSE signal
          /\ walk' = IF signal = "first"
                     THEN [walk EXCEPT !["signal"] = StartWalk] ELSE walk
          /\ UNCHANGED main
  /\ UNCHANGED <<kernel, flags, waiting>>

-------------------------------------------------------------------------------
(* The main thread *)

\* exec_artifact forks. Its error is unwrapped.
Fork(c) ==
  /\ main = "fork"
  /\ proc[c] = "unforked"
  /\ \/ /\ proc' = [proc EXCEPT ![c] = "running"]
        /\ UNCHANGED main
     \/ /\ main' = "panicked"
        /\ UNCHANGED proc
  /\ UNCHANGED <<status, told, flags, waiting, signal, sigints, walk>>

\* All are forked: install the signal handler, start its thread, count.
StartWaiting ==
  /\ main = "fork"
  /\ \A c \in Children : proc[c] # "unforked"
  /\ main' = "wait"
  /\ signal' = "first"
  /\ remaining' = Cardinality(Children)
  /\ UNCHANGED <<kernel, flags, reaped, nonzero, sigints, walk>>

\* Mutant of CountsAsFailure: the end by a signal is forgotten altogether.
CountsAsFailureExitOnly(s) == s = "failure"

\* The Exited and the Signaled arm of the match.
CountsAsFailure(s) == s \in {"failure", "cored"}

\* waitpid reports a zombie. When there is no child left to wait for it fails,
\* and the code panics.
Waitpid ==
  /\ main = "wait"
  /\ remaining > 0
  /\ IF \A c \in Children : proc[c] \in {"unforked", "reaped"}
     THEN main' = "panicked" /\ UNCHANGED <<proc, waiting>>
     ELSE \E c \in Children :
            /\ proc[c] = "zombie"
            /\ proc' = [proc EXCEPT ![c] = "reaped"]
            /\ nonzero' = (nonzero \/ CountsAsFailure(status[c]))
            /\ remaining' = remaining - 1
            /\ reaped' = {c}
            /\ main' = "store"
  /\ UNCHANGED <<status, told, flags, signal, sigints, walk>>

\* Mutant of StoreRunning: the flag is not cleared.
StoreRunningForgotten ==
  /\ main = "store"
  /\ reaped' = {}
  /\ main' = "kill_all"
  /\ walk' = [walk EXCEPT !["main"] = StartWalk]
  /\ UNCHANGED <<kernel, running, sent_kill, remaining, nonzero, signal, sigints>>

\* running.store(false), then kill_all begins.
StoreRunning ==
  /\ main = "store"
  /\ running' = [c \in Children |-> running[c] /\ c \notin reaped]
  /\ reaped' = {}
  /\ main' = "kill_all"
  /\ walk' = [walk EXCEPT !["main"] = StartWalk]
  /\ UNCHANGED <<kernel, sent_kill, remaining, nonzero, signal, sigints>>

\* The loop ends with the last child. The process exits, its threads with it.
Exit ==
  /\ main = "wait"
  /\ remaining = 0
  /\ main' = IF nonzero THEN "exit1" ELSE "exit0"
  /\ UNCHANGED <<kernel, flags, waiting, signal, sigints, walk>>

-------------------------------------------------------------------------------
(* kill_all(pids, false), run by either thread t *)

Walking(t) ==
  /\ Alive
  /\ IF t = "main" THEN main = "kill_all" ELSE signal = "kill_all"

\* Done with the current child.
NextChild(t) ==
  walk' = [walk EXCEPT ![t] = At(@.todo \ @.cur, {}, "running")]

\* Mutant of LoadRunning: the loop is left at a child that has ended.
LoadRunningBreaks(t) ==
  /\ Walking(t)
  /\ walk[t].at = "running"
  /\ \E c \in walk[t].todo :
       walk' = [walk EXCEPT ![t] = IF running[c] THEN At(@.todo, {c}, "sent") ELSE NoWalk]
  /\ UNCHANGED <<kernel, flags, main, waiting, signal, sigints>>

LoadRunning(t) ==
  /\ Walking(t)
  /\ walk[t].at = "running"
  /\ \E c \in walk[t].todo :
       walk' = [walk EXCEPT ![t] = IF running[c]
                                   THEN At(@.todo, {c}, "sent")
                                   ELSE At(@.todo \ {c}, {}, "running")]
  /\ UNCHANGED <<kernel, flags, main, waiting, signal, sigints>>

LoadSentKill(t) ==
  /\ Walking(t)
  /\ walk[t].at = "sent"
  /\ IF \E c \in walk[t].cur : sent_kill[c]
     THEN NextChild(t)
     ELSE walk' = [walk EXCEPT ![t] = At(@.todo, @.cur, "store")]
  /\ UNCHANGED <<kernel, flags, main, waiting, signal, sigints>>

\* Mutant of StoreSentKill: the flag is set, but nothing is sent.
StoreSentKillOnly(t) ==
  /\ Walking(t)
  /\ walk[t].at = "store"
  /\ sent_kill' = [c \in Children |-> sent_kill[c] \/ c \in walk[t].cur]
  /\ NextChild(t)
  /\ UNCHANGED <<kernel, running, main, waiting, signal, sigints>>

StoreSentKill(t) ==
  /\ Walking(t)
  /\ walk[t].at = "store"
  /\ sent_kill' = [c \in Children |-> sent_kill[c] \/ c \in walk[t].cur]
  /\ walk' = [walk EXCEPT ![t] = At(@.todo, @.cur, "kill")]
  /\ UNCHANGED <<kernel, running, main, waiting, signal, sigints>>

\* The signal reaches the child unless its pid has been reaped meanwhile; then
\* it fails, or hits whichever process has that pid now. The result of kill is
\* only logged.
Kill(t) ==
  /\ Walking(t)
  /\ walk[t].at = "kill"
  /\ told' = [told EXCEPT ![t] =
                @ \cup {c \in walk[t].cur : proc[c] # "reaped"}]
  /\ NextChild(t)
  /\ UNCHANGED <<proc, status, flags, main, waiting, signal, sigints>>

\* Back to the wait loop; the signal thread finds its iterator closed and ends.
KillAllReturns(t) ==
  /\ Walking(t)
  /\ walk[t].todo = {}
  /\ IF t = "main" THEN main' = "wait" /\ UNCHANGED signal
                   ELSE signal' = "over" /\ UNCHANGED main
  /\ UNCHANGED <<kernel, flags, waiting, sigints, walk>>

KillAllStep(t) ==
  \/ LoadRunning(t)
  \/ LoadSentKill(t)
  \/ StoreSentKill(t)
  \/ Kill(t)
  \/ KillAllReturns(t)

-------------------------------------------------------------------------------

MainStep ==
  \/ \E c \in Children : Fork(c)
  \/ StartWaiting
  \/ Waitpid
  \/ StoreRunning
  \/ Exit
  \/ KillAllStep("main")

Next ==
  \/ MainStep
  \/ KillAllStep("signal")
  \/ \E c \in Children : ChildEnds(c)
  \/ Sigint

\* Both threads are scheduled, and a child told to terminate does so. Nobody
\* else has to end, and nobody has to send a SIGINT.
Fairness ==
  /\ WF_vars(MainStep)
  /\ WF_vars(KillAllStep("signal"))
  /\ \A c \in Children : WF_vars(Told(c) /\ ChildEnds(c))

Spec == Init /\ [][Next]_vars /\ Fairness

\* The same without the assumption that children obey.
StubbornSpec ==
  /\ Init
  /\ [][Next]_vars
  /\ WF_vars(MainStep)
  /\ WF_vars(KillAllStep("signal"))

-------------------------------------------------------------------------------
(* Properties *)

\* remaining_children counts the children not yet reaped, so the wait loop
\* neither ends early nor calls waitpid without a child to wait for, which
\* panics: the only panic is that of a failed fork.
Accounting ==
  /\ main \in {"wait", "store", "kill_all"} =>
       remaining = Cardinality(Unreaped)
  /\ main = "panicked" => \E c \in Children : proc[c] = "unforked"

\* Once one child has been reaped and kill_all has returned, every child that
\* is still running has been sent SIGTERM, or the signal thread, which set
\* sent_kill before this thread looked, is just about to send it: none is
\* skipped by both threads.
TeardownComplete ==
  (main = "wait" /\ \E c \in Children : proc[c] = "reaped") =>
    \A c \in Children :
      proc[c] = "running" =>
        Told(c) \/ (signal = "kill_all" /\ walk["signal"].at = "kill"
                         /\ c \in walk["signal"].cur)

\* The linker exits only when all children are reaped, with status 1 exactly
\* when one of them failed or dumped core, whatever the order they ended in.
ExitStatus ==
  main \in {"exit0", "exit1"} =>
    /\ Unreaped = {}
    /\ main = "exit1" <=>
         \E c \in Children : status[c] \in {"failure", "cored"}

\* The main thread never signals a pid it has already reaped, and which may
\* belong to another process by then. (The signal thread can: it loads running
\* before the main thread clears it, and kills after.)
MainKillsOnlyItsChildren ==
  [][main = "kill_all" /\ walk["main"].at = "kill" =>
       \A c \in walk["main"].cur : proc[c] # "reaped"]_vars

\* Each thread sends a child at most one SIGTERM, however many children end:
\* sent_kill keeps it from coming back. (The two threads together may send two,
\* when both load sent_kill before either stores it.)
NoSecondTerm ==
  \A t \in Threads :
    walk[t].at \in {"store", "kill"} => walk[t].cur \cap told[t] = {}

\* The end of any child, however it ends, brings the whole deployment down.
OneEndsAllEnd ==
  (main # "fork" /\ \E c \in Children : proc[c] = "zombie") ~> ~Alive

\* So does a SIGINT, once its handler is installed, if there is a child.
SigintEndsAll == (signal = "kill_all") ~> ~Alive

\* "got {}, signaling to children to terminate (2nd attempt)": when another
\* SIGINT comes after the first round of SIGTERMs and a child is still there,
\* the signal thread runs kill_all again.
SecondAttempt ==
  \A c \in Children :
    (sigints > 1 /\ signal = "over" /\ proc[c] = "running" /\ main = "wait")
      ~> (signal = "kill_all" \/ proc[c] # "running")

===============================================================================
