---------------------------- MODULE MuxDialProofs -----------------------------
(***************************************************************************)
(* The two futures that drive others, for every value of the constants:    *)
(* the multiplexor with the tasks it has spawned, and the dialer with its  *)
(* two remotes.                                                            *)
(***************************************************************************)
EXTENDS Multiplexor, HappyEyeballs, SequenceTheorems, NaturalsInduction, WellFoundedInduction,
        TLAPS

-------------------------------------------------------------------------------
(***************************************************************************)
(* Multiplexor. A handle is nowhere before its task is spawned, which      *)
(* happens once, and goes from the hand of its spawner through the channel *)
(* to the buffer; it leaves that when the task has ended.                  *)
(***************************************************************************)

TaskState == {"none", "running", "done", "panicked"}

MuxType ==
  /\ main \in {"spawn_mgmt", "send_mgmt", "resolver", "spawn_data", "send_data", "reap",
               "returned", "crashed"}
  /\ loop \in [Loops -> {"none", "accept", "send", "ended"}]
  /\ send \in [Loops -> {<<>>} \cup {<<c>> : c \in Conns}]
  /\ chan \in Seq(Handles)
  /\ buffer \subseteq Handles
  /\ conn \in [Conns -> {"backlog", "open", "closed"}]
  /\ tasks \in [Handles -> TaskState]

InHand(h) == \E l \in Loops : send[l] = <<h>>

WithMain(h) == h \in Loops /\ main = Sending(h)

Queued(h) == \E i \in 1 .. Len(chan) : chan[i] = h

\* Nothing is spawned twice.
SpawnInv ==
  /\ \A c \in Conns : conn[c] = "backlog" => tasks[c] = "none"
  /\ \A l \in Loops : (loop[l] = "send" <=> send[l] # <<>>) /\ (tasks[l] = "none" => loop[l] = "none")
  /\ main = "spawn_mgmt" => tasks["mgmt"] = "none"
  /\ main \in {"spawn_mgmt", "send_mgmt", "resolver", "spawn_data"} => tasks["data"] = "none"

\* A loop has handles of its own connections in hand.
OwnInv == \A l \in Loops, c \in Conns : send[l] = <<c>> => LoopOf(c) = l

\* No handle is in two places,
OnceInv ==
  /\ \A i, j \in 1 .. Len(chan) : chan[i] = chan[j] => i = j
  /\ \A h \in Handles :
       /\ InHand(h) => ~Queued(h) /\ h \notin buffer
       /\ WithMain(h) => ~Queued(h) /\ h \notin buffer
       /\ Queued(h) => h \notin buffer

\* and it is in one exactly from its spawning until it is reaped.
HeldInv ==
  \A h \in Handles :
    /\ tasks[h] = "none" => ~(InHand(h) \/ WithMain(h) \/ Queued(h) \/ h \in buffer)
    /\ tasks[h] = "running" => InHand(h) \/ WithMain(h) \/ Queued(h) \/ h \in buffer

MuxInv == MuxType /\ SpawnInv /\ OwnInv /\ OnceInv /\ HeldInv

LEMMA InHandIsConn ==
  ASSUME MuxInv, NEW h, InHand(h)
  PROVE  h \in Conns
<1>1. PICK k \in Loops : send[k] = <<h>>
  BY DEF InHand
<1>2. send[k] \in {<<>>} \cup {<<c>> : c \in Conns}
  BY DEF MuxInv, MuxType
<1> QED BY <1>1, <1>2

LEMMA InvHeld == MuxInv => EveryTaskIsHeld
<1> SUFFICES ASSUME MuxInv, NEW h \in Handles
             PROVE  /\ \A p, q \in Places(h) : p = q
                    /\ Alive(h) => Places(h) # {}
  BY DEF EveryTaskIsHeld
<1> USE DEF MuxInv
<1>0. DOMAIN chan = 1 .. Len(chan)
  BY DEF MuxType
<1>1. ASSUME NEW k \in Loops, send[k] = <<h>> PROVE h \in Conns /\ LoopOf(h) = k
  <2>1. send[k] \in {<<>>} \cup {<<c>> : c \in Conns}
    BY DEF MuxType
  <2>2. h \in Conns
    BY <1>1, <2>1
  <2> QED BY <1>1, <2>2 DEF OwnInv
<1>2. ASSUME NEW p \in Places(h), NEW q \in Places(h) PROVE p = q
  <2>1. \/ \E l \in Loops : p = <<"loop", l>> /\ send[l] = <<h>>
        \/ p = <<"main", h>> /\ WithMain(h)
        \/ \E i \in 1 .. Len(chan) : p = <<"channel", i>> /\ chan[i] = h
        \/ p = <<"buffer", h>> /\ h \in buffer
    BY <1>0 DEF Places, WithMain
  <2>2. \/ \E l \in Loops : q = <<"loop", l>> /\ send[l] = <<h>>
        \/ q = <<"main", h>> /\ WithMain(h)
        \/ \E i \in 1 .. Len(chan) : q = <<"channel", i>> /\ chan[i] = h
        \/ q = <<"buffer", h>> /\ h \in buffer
    BY <1>0 DEF Places, WithMain
  <2>3. InHand(h) => ~WithMain(h)
    BY <1>1, ConnsAssumption DEF InHand, WithMain, Loops
  <2>4. CASE InHand(h)
    BY <1>1, <2>1, <2>2, <2>3, <2>4 DEF InHand, Queued, OnceInv
  <2>5. CASE ~InHand(h)
    BY <2>1, <2>2, <2>5 DEF InHand, Queued, OnceInv
  <2> QED BY <2>4, <2>5
<1>3. ASSUME Alive(h) PROVE Places(h) # {}
  <2>1. InHand(h) \/ WithMain(h) \/ Queued(h) \/ h \in buffer
    BY <1>3 DEF Alive, HeldInv
  <2> QED BY <2>1, <1>0 DEF InHand, WithMain, Queued, Places
<1> QED BY <1>2, <1>3

LEMMA MuxInitInv == MuxInit => MuxInv
<1> SUFFICES ASSUME MuxInit PROVE MuxInv
  OBVIOUS
<1>1. chan \in Seq(Handles) /\ Len(chan) = 0
  BY EmptySeq DEF MuxInit
<1>2. MuxType
  BY <1>1 DEF MuxInit, MuxType, TaskState
<1>3. \A h \in Handles : ~(InHand(h) \/ WithMain(h) \/ Queued(h) \/ h \in buffer) /\ tasks[h] = "none"
  BY <1>1 DEF MuxInit, InHand, WithMain, Queued, Sending, Loops
<1>4. SpawnInv /\ OwnInv
  BY DEF MuxInit, SpawnInv, OwnInv, Handles, Loops
<1>5. OnceInv /\ HeldInv
  BY <1>1, <1>3 DEF OnceInv, HeldInv
<1> QED BY <1>2, <1>4, <1>5 DEF MuxInv

\* Putting a new handle at the end of the channel.
LEMMA Appended ==
  ASSUME NEW S, NEW s \in Seq(S), NEW x \in S, NEW t, t = Append(s, x),
         \A i, j \in 1 .. Len(s) : s[i] = s[j] => i = j,
         \A i \in 1 .. Len(s) : s[i] # x
  PROVE  /\ t \in Seq(S)
         /\ \A i, j \in 1 .. Len(t) : t[i] = t[j] => i = j
         /\ \A h : (\E i \in 1 .. Len(t) : t[i] = h) <=> (\E i \in 1 .. Len(s) : s[i] = h) \/ h = x
<1>1. /\ t \in Seq(S) /\ Len(t) = Len(s) + 1 /\ Len(s) \in Nat
      /\ t[Len(s) + 1] = x /\ \A i \in 1 .. Len(s) : t[i] = s[i]
  OBVIOUS
<1> QED BY <1>1

\* Taking the first handle off the channel.
LEMMA Taken ==
  ASSUME NEW S, NEW s \in Seq(S), s # <<>>,
         \A i, j \in 1 .. Len(s) : s[i] = s[j] => i = j
  PROVE  /\ Tail(s) \in Seq(S) /\ Head(s) \in S
         /\ \E i \in 1 .. Len(s) : s[i] = Head(s)
         /\ \A i, j \in 1 .. Len(Tail(s)) : Tail(s)[i] = Tail(s)[j] => i = j
         /\ \A h : (\E i \in 1 .. Len(Tail(s)) : Tail(s)[i] = h)
                    <=> (\E i \in 1 .. Len(s) : s[i] = h) /\ h # Head(s)
<1> DEFINE t == Tail(s)
<1>1. /\ t \in Seq(S) /\ Len(s) \in Nat \ {0} /\ Len(t) = Len(s) - 1
      /\ Head(s) = s[1] /\ s[1] \in S /\ \A i \in 1 .. Len(s) - 1 : t[i] = s[i + 1]
  BY EmptySeq, ElementOfSeq
<1> HIDE DEF t
<1>2. \A i, j \in 1 .. Len(t) : t[i] = t[j] => i = j
  BY <1>1
<1>3. ASSUME NEW h, NEW i \in 1 .. Len(t), t[i] = h
      PROVE  (\E k \in 1 .. Len(s) : s[k] = h) /\ h # Head(s)
  <2>1. i + 1 \in 1 .. Len(s) /\ s[i + 1] = h /\ i + 1 # 1
    BY <1>1, <1>3
  <2> QED BY <1>1, <2>1
<1>4. ASSUME NEW h, NEW i \in 1 .. Len(s), s[i] = h, h # Head(s)
      PROVE  \E k \in 1 .. Len(t) : t[k] = h
  <2>1. i - 1 \in 1 .. Len(t) /\ (i - 1) + 1 = i
    BY <1>1, <1>4
  <2>2. t[i - 1] = h
    BY <1>1, <1>4, <2>1
  <2> QED BY <2>1, <2>2
<1>5. \E i \in 1 .. Len(s) : s[i] = Head(s)
  BY <1>1
<1> QED BY <1>1, <1>2, <1>3, <1>4, <1>5 DEF t

\* A step that moves no handle and spawns no task.
LEMMA NothingMoves ==
  ASSUME MuxInv, UNCHANGED <<send, chan, buffer>>, MuxType', SpawnInv',
         \A h \in Loops : main' = Sending(h) <=> main = Sending(h),
         \A h \in Handles : tasks'[h] # tasks[h] =>
                             tasks[h] # "none" /\ tasks'[h] \in {"done", "panicked"}
  PROVE  MuxInv'
<1>1. OwnInv' /\ OnceInv'
  BY DEF MuxInv, OwnInv, OnceInv, InHand, WithMain, Queued
<1>2. HeldInv'
  BY DEF MuxInv, HeldInv, InHand, WithMain, Queued
<1> QED BY <1>1, <1>2 DEF MuxInv

LEMMA MuxStepInv ==
  ASSUME MuxInv, [MuxNext]_muxVars
  PROVE  MuxInv'
<1> USE DEF MuxInv
<1>0. /\ Loops = {"mgmt", "data"} /\ Conns \cap Loops = {} /\ Handles = Loops \cup Conns
      /\ \A c \in Conns : LoopOf(c) \in Loops
  BY ConnsAssumption DEF Loops, Handles, LoopOf
<1>1. CASE UNCHANGED muxVars
  <2>1. MuxType' /\ SpawnInv'
    BY <1>1 DEF muxVars, MuxType, SpawnInv
  <2> QED BY <1>1, <2>1, NothingMoves DEF muxVars
<1>2. CASE MakeResolver
  <2>1. MuxType' /\ SpawnInv'
    BY <1>2 DEF MakeResolver, MuxType, SpawnInv
  <2> QED BY <1>0, <1>2, <2>1, NothingMoves DEF MakeResolver, Sending
<1>3. ASSUME NEW c \in Conns, DropUnnamed(c) PROVE MuxInv'
  <2>1. MuxType' /\ SpawnInv'
    BY <1>3 DEF DropUnnamed, MuxType, SpawnInv
  <2> QED BY <1>3, <2>1, NothingMoves DEF DropUnnamed
<1>4. ASSUME NEW c \in Conns, TaskEnds(c) PROVE MuxInv'
  <2>1. PICK e \in {"done", "panicked"} : tasks' = [tasks EXCEPT ![c] = e]
    BY <1>4 DEF TaskEnds
  <2>2. MuxType'
    BY <1>0, <1>4, <2>1 DEF TaskEnds, MuxType, TaskState
  <2>3. SpawnInv'
    BY <1>0, <1>4, <2>1 DEF TaskEnds, Alive, MuxType, SpawnInv
  <2> QED BY <1>0, <1>4, <2>1, <2>2, <2>3, NothingMoves DEF TaskEnds, Alive, MuxType
<1>5. ASSUME NEW l \in Loops, AcceptFails(l) PROVE MuxInv'
  <2>1. tasks[l] # "none"
    BY <1>5 DEF AcceptFails, SpawnInv
  <2>2. MuxType'
    BY <1>0, <1>5 DEF AcceptFails, MuxType, TaskState
  <2>3. SpawnInv'
    BY <1>0, <1>5, <2>1 DEF AcceptFails, MuxType, SpawnInv
  <2> QED BY <1>0, <1>5, <2>1, <2>2, <2>3, NothingMoves DEF AcceptFails, MuxType
<1>6. ASSUME NEW l \in Loops, SpawnLoop(l) PROVE MuxInv'
  <2>0. /\ main = Spawning(l) /\ main' = Sending(l)
        /\ tasks' = [tasks EXCEPT ![l] = "running"] /\ loop' = [loop EXCEPT ![l] = "accept"]
        /\ UNCHANGED <<send, chan, buffer, conn>>
    BY <1>6 DEF SpawnLoop
  <2>a. MuxType'
    BY <1>0, <2>0 DEF Sending, MuxType, TaskState
  <2>b. tasks[l] = "none" /\ send[l] = <<>>
    BY <1>0, <2>0 DEF Spawning, SpawnInv
  <2>c. SpawnInv'
    BY <1>0, <2>0, <2>b DEF Spawning, Sending, MuxType, SpawnInv
  <2>1. MuxType' /\ SpawnInv' /\ OwnInv'
    BY <2>0, <2>a, <2>c DEF OwnInv
  <2>2. /\ tasks[l] = "none" /\ WithMain(l)' /\ \A h \in Handles \ {l} : ~WithMain(h)'
        /\ \A h \in Handles : ~WithMain(h)
        /\ \A h \in Handles \ {l} : tasks'[h] = tasks[h]
        /\ tasks'[l] = "running"
    BY <1>0, <1>6 DEF SpawnLoop, Spawning, Sending, SpawnInv, WithMain, MuxType
  <2>3. \A h \in Handles : (InHand(h)' <=> InHand(h)) /\ (Queued(h)' <=> Queued(h))
    BY <1>6 DEF SpawnLoop, InHand, Queued
  <2>4. UNCHANGED <<chan, buffer>>
    BY <1>6 DEF SpawnLoop
  <2>5. OnceInv'
    BY <1>0, <2>2, <2>3, <2>4 DEF OnceInv, HeldInv
  <2>6. HeldInv'
    BY <1>0, <2>2, <2>3, <2>4 DEF HeldInv
  <2> QED BY <2>1, <2>5, <2>6
<1>7. ASSUME NEW l \in Loops, SendLoop(l) PROVE MuxInv'
  <2>1. WithMain(l) /\ ~Queued(l) /\ l \notin buffer /\ l \in Handles
    BY <1>0, <1>7 DEF SendLoop, WithMain, OnceInv
  <2>2. /\ chan' \in Seq(Handles)
        /\ \A i, j \in 1 .. Len(chan') : chan'[i] = chan'[j] => i = j
        /\ \A h : Queued(h)' <=> Queued(h) \/ h = l
    BY <1>7, <2>1, Appended DEF SendLoop, Queued, OnceInv, MuxType
  <2>3. \A h \in Handles : ~WithMain(h)' /\ (WithMain(h) => h = l)
    BY <1>0, <1>7 DEF SendLoop, WithMain, Sending
  <2>4. \A h \in Handles : InHand(h)' <=> InHand(h)
    BY <1>7 DEF SendLoop, InHand
  <2>5. UNCHANGED <<buffer, tasks, send>>
    BY <1>7 DEF SendLoop
  <2>6. ~InHand(l)
    BY <1>0, InHandIsConn
  <2>7. MuxType' /\ SpawnInv' /\ OwnInv'
    <3>1. MuxType'
      BY <1>7, <2>2, <2>5 DEF SendLoop, MuxType
    <3>2. SpawnInv'
      BY <1>0, <1>7, <2>5 DEF SendLoop, Sending, SpawnInv
    <3> QED BY <2>5, <3>1, <3>2 DEF OwnInv
  <2>8. OnceInv'
    BY <2>1, <2>2, <2>3, <2>4, <2>5, <2>6 DEF OnceInv
  <2>9. HeldInv'
    BY <2>1, <2>2, <2>3, <2>4, <2>5 DEF HeldInv
  <2> QED BY <2>7, <2>8, <2>9
<1>8. ASSUME NEW c \in Conns, Accept(c) PROVE MuxInv'
  <2> DEFINE l == LoopOf(c)
  <2>1. /\ tasks[c] = "none" /\ send[l] = <<>> /\ c \in Handles /\ l \in Loops
        /\ tasks' = [tasks EXCEPT ![c] = "running"] /\ send' = [send EXCEPT ![l] = <<c>>]
        /\ loop' = [loop EXCEPT ![l] = "send"] /\ conn' = [conn EXCEPT ![c] = "open"]
        /\ UNCHANGED <<main, chan, buffer>>
    BY <1>0, <1>8 DEF Accept, SpawnInv
  <2> HIDE DEF l
  <2>2. \A h \in Handles : InHand(h)' <=> InHand(h) \/ h = c
    <3>1. send'[l] = <<c>> /\ \A k \in Loops \ {l} : send'[k] = send[k]
      BY <2>1 DEF MuxType
    <3>2. \A h : <<c>> = <<h>> <=> h = c
      OBVIOUS
    <3>3. \A h : <<h>> # <<>>
      OBVIOUS
    <3> QED BY <2>1, <3>1, <3>2, <3>3 DEF InHand
  <2>3. \A h \in Handles : (WithMain(h)' <=> WithMain(h)) /\ (Queued(h)' <=> Queued(h))
    BY <2>1 DEF WithMain, Queued
  <2>4. MuxType'
    BY <2>1 DEF MuxType, TaskState
  <2>5. SpawnInv'
    <3>1. \A d \in Conns : conn'[d] = "backlog" => tasks'[d] = "none"
      BY <1>0, <2>1 DEF SpawnInv, MuxType
    <3>2. \A k \in Loops : /\ loop'[k] = "send" <=> send'[k] # <<>>
                           /\ tasks'[k] = "none" => loop'[k] = "none"
      <4> SUFFICES ASSUME NEW k \in Loops
                   PROVE  /\ loop'[k] = "send" <=> send'[k] # <<>>
                          /\ tasks'[k] = "none" => loop'[k] = "none"
        OBVIOUS
      <4>1. tasks'[k] = tasks[k]
        BY <1>0, <2>1 DEF MuxType
      <4>2. CASE k = l
        BY <1>8, <4>1, <4>2, <2>1 DEF Accept, SpawnInv, MuxType, l
      <4>3. CASE k # l
        BY <4>1, <4>3, <2>1 DEF SpawnInv, MuxType
      <4> QED BY <4>2, <4>3
    <3>3. tasks'["mgmt"] = tasks["mgmt"] /\ tasks'["data"] = tasks["data"]
      BY <1>0, <2>1 DEF MuxType
    <3> QED BY <2>1, <3>1, <3>2, <3>3 DEF SpawnInv
  <2>6. OwnInv'
    <3> SUFFICES ASSUME NEW k \in Loops, NEW d \in Conns, send'[k] = <<d>>
                 PROVE  LoopOf(d) = k
      BY DEF OwnInv
    <3>1. CASE k = l
      BY <2>1, <3>1 DEF MuxType, l
    <3>2. CASE k # l
      BY <2>1, <3>2 DEF MuxType, OwnInv
    <3> QED BY <3>1, <3>2
  <2>7. OnceInv'
    BY <2>1, <2>2, <2>3 DEF OnceInv, HeldInv
  <2>8. HeldInv'
    BY <2>1, <2>2, <2>3 DEF HeldInv, MuxType
  <2> QED BY <2>4, <2>5, <2>6, <2>7, <2>8
<1>9. ASSUME NEW l \in Loops, SendHandle(l) PROVE MuxInv'
  <2>0. /\ loop[l] = "send" /\ chan' = Append(chan, send[l][1])
        /\ send' = [send EXCEPT ![l] = <<>>] /\ loop' = [loop EXCEPT ![l] = "accept"]
        /\ UNCHANGED <<main, buffer, conn, tasks>>
    BY <1>9 DEF SendHandle
  <2>1. PICK c \in Conns : send[l] = <<c>>
    BY <2>0 DEF SpawnInv, MuxType
  <2>2. c \in Handles /\ InHand(c) /\ ~Queued(c) /\ c \notin buffer /\ ~WithMain(c)
    BY <1>0, <2>1 DEF InHand, OnceInv, WithMain
  <2>3. /\ chan' \in Seq(Handles)
        /\ \A i, j \in 1 .. Len(chan') : chan'[i] = chan'[j] => i = j
        /\ \A h : Queued(h)' <=> Queued(h) \/ h = c
    BY <2>0, <2>1, <2>2, Appended DEF Queued, OnceInv, MuxType
  <2>4. \A h \in Handles : InHand(h)' <=> InHand(h) /\ h # c
    <3>1. ASSUME NEW k \in Loops, k # l PROVE send'[k] = send[k] /\ send[k] # <<c>>
      BY <2>0, <2>1, <3>1 DEF OwnInv, MuxType
    <3>2. send'[l] = <<>>
      BY <2>0 DEF MuxType
    <3> QED BY <2>1, <3>1, <3>2 DEF InHand
  <2>5. \A h \in Handles : WithMain(h)' <=> WithMain(h)
    BY <2>0 DEF WithMain
  <2>6. MuxType'
    BY <2>0, <2>3 DEF MuxType
  <2>7. SpawnInv'
    BY <2>0 DEF SpawnInv, MuxType
  <2>8. OwnInv'
    BY <2>0 DEF OwnInv, MuxType
  <2>9. OnceInv'
    BY <2>0, <2>2, <2>3, <2>4, <2>5 DEF OnceInv
  <2>10. HeldInv'
    BY <2>0, <2>2, <2>3, <2>4, <2>5 DEF HeldInv
  <2> QED BY <2>6, <2>7, <2>8, <2>9, <2>10
<1>10. CASE TakeHandle
  <2>0. /\ chan # <<>> /\ chan' = Tail(chan) /\ buffer' = buffer \cup {Head(chan)}
        /\ UNCHANGED <<main, loop, send, conn, tasks>>
    BY <1>10 DEF TakeHandle
  <2>1. /\ chan' \in Seq(Handles) /\ Head(chan) \in Handles /\ Queued(Head(chan))
        /\ \A i, j \in 1 .. Len(chan') : chan'[i] = chan'[j] => i = j
        /\ \A h : Queued(h)' <=> Queued(h) /\ h # Head(chan)
    <3>1. chan \in Seq(Handles) /\ \A i, j \in 1 .. Len(chan) : chan[i] = chan[j] => i = j
      BY DEF OnceInv, MuxType
    <3> DEFINE t == Tail(chan)
    <3>2. /\ t \in Seq(Handles) /\ Head(chan) \in Handles
          /\ \E i \in 1 .. Len(chan) : chan[i] = Head(chan)
          /\ \A i, j \in 1 .. Len(t) : t[i] = t[j] => i = j
          /\ \A h : (\E i \in 1 .. Len(t) : t[i] = h)
                     <=> (\E i \in 1 .. Len(chan) : chan[i] = h) /\ h # Head(chan)
      BY <2>0, <3>1, Taken, Zenon
    <3>3. chan' = t
      BY <2>0
    <3> HIDE DEF t
    <3> QED BY <3>2, <3>3, Zenon DEF Queued
  <2>2. \A h \in Handles : (InHand(h)' <=> InHand(h)) /\ (WithMain(h)' <=> WithMain(h))
    BY <2>0 DEF InHand, WithMain
  <2>3. MuxType' /\ SpawnInv' /\ OwnInv'
    BY <2>0, <2>1 DEF MuxType, SpawnInv, OwnInv
  <2>4. OnceInv'
    BY <2>0, <2>1, <2>2 DEF OnceInv
  <2>5. HeldInv'
    BY <2>0, <2>1, <2>2 DEF HeldInv
  <2> QED BY <2>3, <2>4, <2>5
<1>11. ASSUME NEW g \in Handles, Reap(g) PROVE MuxInv'
  <2>0. /\ main = "reap" /\ main' \in {"reap", "crashed"} /\ buffer' = buffer \ {g}
        /\ tasks[g] \in {"done", "panicked"}
        /\ UNCHANGED <<loop, send, chan, conn, tasks>>
    BY <1>11 DEF Reap
  <2>1. \A h \in Handles : (InHand(h)' <=> InHand(h)) /\ (Queued(h)' <=> Queued(h))
    BY <2>0 DEF InHand, Queued
  <2>2. \A h \in Handles : ~WithMain(h)' /\ ~WithMain(h)
    BY <1>0, <2>0 DEF WithMain, Sending
  <2>3. MuxType' /\ SpawnInv' /\ OwnInv'
    BY <2>0 DEF MuxType, SpawnInv, OwnInv
  <2>4. OnceInv'
    BY <2>0, <2>1, <2>2 DEF OnceInv
  <2>5. HeldInv'
    BY <2>0, <2>1, <2>2 DEF HeldInv
  <2> QED BY <2>3, <2>4, <2>5
<1> QED BY <1>1, <1>2, <1>3, <1>4, <1>5, <1>6, <1>7, <1>8, <1>9, <1>10, <1>11 DEF MuxNext

\* No task is detached and none is waited for twice, whatever the number of
\* connections and however the loops, the clients and main interleave.
THEOREM TasksAreHeld == MuxSpec => []EveryTaskIsHeld
BY MuxInitInv, MuxStepInv, InvHeld, PTL DEF MuxSpec

-------------------------------------------------------------------------------
(***************************************************************************)
(* HappyEyeballs. While the future waits, every address is held by one of  *)
(* the two remotes or has failed; a remote that gives up without trying    *)
(* the addresses it holds has only addresses of one family.                *)
(***************************************************************************)

\* The address at a place has not been passed over: it has refused, or no socket
\* can be made for it or, if the families are not told apart, for one before it.
Failed(i, tried) ==
  \/ i \in tried /\ i \in answered /\ network[url.resolved[i]] = "refuses"
  \/ Family(i) \in noSocket
  \/ ~url.happy_eyeballs /\ noSocket # {}

\* Addresses that a remote tries or will try.
Holds(r) == r.addrs \cup ({r.current} \ {0})

\* The addresses that a remote gives up together have the same family.
RemoteOk(r, tried) ==
  /\ r \in [addrs : SUBSET Candidates, current : {0} \cup Candidates]
  /\ r.current # 0 => r.current \in tried
  /\ url.happy_eyeballs => \A i, j \in r.addrs : Family(i) = Family(j)
  /\ Candidates # {} => Holds(r) # {}

\* No address is lost between the two remotes, and what neither holds has
\* failed: the invariant that FailsOnlyAfterAll needs while the future waits.
Connecting(d) ==
  /\ RemoteOk(d.preferred, d.tried)
  /\ d.fallback # <<>> =>
       d.fallback = <<d.fallback[1]>> /\ RemoteOk(d.fallback[1], d.tried)
  /\ \A i \in Candidates :
       \/ i \in Holds(d.preferred)
       \/ d.fallback # <<>> /\ i \in Holds(d.fallback[1])
       \/ Failed(i, d.tried)

DialOk(d) ==
  /\ "state" \in DOMAIN d
  /\ d.state = "resolving" => url.host # "literal"
  /\ d.state = "connecting" => Connecting(d)
  /\ d.state = "error" => \A i \in Candidates : Failed(i, d.tried)
  /\ d.state = "panic" => Candidates = {}

\* What answers is not silent.
NetworkOk ==
  /\ url \in Urls
  /\ network \in [Addrs -> {"accepts", "refuses", "silent"}]
  /\ answered \subseteq Candidates
  /\ \A i \in answered : network[url.resolved[i]] # "silent"

DialInv == NetworkOk /\ DialOk(dial)

LEMMA CandidatesAre ==
  ASSUME url \in Urls
  PROVE  /\ Candidates \subseteq Nat \ {0}
         /\ Candidates \subseteq DOMAIN url.resolved
         /\ \A i \in Candidates : url.resolved[i] \in Addrs
<1>1. url.resolved \in Seq(Addrs) /\ (url.host = "literal" => url.resolved # <<>>)
  BY UrlsAssumption
<1>2. /\ Len(url.resolved) \in Nat /\ DOMAIN url.resolved = 1 .. Len(url.resolved)
      /\ \A i \in 1 .. Len(url.resolved) : url.resolved[i] \in Addrs
      /\ url.resolved # <<>> => Len(url.resolved) # 0
  BY <1>1
<1> QED BY <1>1, <1>2 DEF Candidates

LEMMA MinIn ==
  ASSUME NEW S \in SUBSET Nat, S # {}
  PROVE  Min(S) \in S
<1> DEFINE Less == {ss \in Nat \X Nat : ss[1] < ss[2]}
<1>1. IsWellFoundedOn(Less, Nat)
  BY NatLessThanWellFounded, Zenon DEF OpToRel
<1> HIDE DEF Less
<1>2. PICK n \in S : \A m \in S : <<m, n>> \notin Less
  BY <1>1, WFMin, Zenon
<1>3. ASSUME NEW m \in S PROVE n <= m
  <2>1. <<m, n>> \notin Less
    BY <1>2
  <2> QED BY <2>1 DEF Less
<1> QED BY <1>3 DEF Min

\* ConnectingTcpRemote::poll passes over no address, whatever it returns.
LEMMA PollRemoteOk ==
  ASSUME NetworkOk, NEW r, NEW tried, RemoteOk(r, tried)
  PROVE  LET p == PollRemote(r)
             now == tried \cup p.tried
         IN  /\ p = Polled(p.is, p.remote, p.tried)
             /\ p.is \in {"pending", "ready", "error", "panic"}
             /\ p.is = "pending" =>
                  /\ RemoteOk(p.remote, now)
                  /\ \A i \in Holds(r) : i \in Holds(p.remote) \/ Failed(i, now)
             /\ p.is = "error" => \A i \in Holds(r) : Failed(i, now)
             /\ p.is = "panic" => Candidates = {}
<1> DEFINE p == PollRemote(r)
           now == tried \cup p.tried
           c == r.current
           done == c # 0 /\ c \in answered
<1>1. /\ r = [addrs |-> r.addrs, current |-> c] /\ r.addrs \subseteq Candidates
      /\ c \in {0} \cup Candidates
  BY DEF RemoteOk
<1>2. CASE c # 0 /\ ~done
  <2>1. p = Polled("pending", r, {})
    BY <1>2 DEF PollRemote
  <2> QED BY <2>1 DEF Polled
<1>3. CASE done /\ Accepts(c)
  <2>1. p = Polled("ready", r, {})
    BY <1>3 DEF PollRemote
  <2> QED BY <2>1 DEF Polled
<1>4. CASE ~(c # 0 /\ ~done) /\ ~(done /\ Accepts(c))
  <2>1. c # 0 => Failed(c, tried)
    <3> SUFFICES ASSUME c # 0 PROVE Failed(c, tried)
      OBVIOUS
    <3>1. c \in answered /\ c \in tried /\ ~Accepts(c) /\ c \in Candidates
      BY <1>1, <1>4 DEF RemoteOk
    <3>2. network[url.resolved[c]] \in {"accepts", "refuses", "silent"}
      BY <3>1, CandidatesAre DEF NetworkOk
    <3> QED BY <3>1, <3>2 DEF NetworkOk, Failed, Accepts
  <2>2. CASE r.addrs # {}
    <3> DEFINE a == Min(r.addrs)
               rest == [addrs |-> r.addrs \ {a}, current |-> a]
    <3>1. p = TryNext(r)
      BY <1>4, <2>2 DEF PollRemote
    <3>2. p = Polled(IF Family(a) \in noSocket THEN "error" ELSE "pending", rest, {a})
      BY <3>1 DEF TryNext
    <3>3. a \in r.addrs
      BY <1>1, <2>2, CandidatesAre, MinIn DEF NetworkOk
    <3> HIDE DEF a, p
    <3>4. CASE Family(a) \in noSocket
      <4>1. p.is = "error" /\ p.remote = rest /\ p.tried = {a}
        BY <3>2, <3>4 DEF Polled
      <4>2. \A i \in r.addrs : Failed(i, now)
        BY <3>3, <3>4 DEF RemoteOk, Failed
      <4>3. \A i \in Holds(r) : Failed(i, now)
        BY <2>1, <4>2 DEF Failed, Holds
      <4> QED BY <3>2, <4>1, <4>3 DEF Polled, p
    <3>5. CASE Family(a) \notin noSocket
      <4>1. p.is = "pending" /\ p.remote = rest /\ p.tried = {a}
        BY <3>2, <3>5 DEF Polled
      <4>2. a \in Candidates /\ a # 0
        BY <1>1, <3>3, CandidatesAre DEF NetworkOk
      <4>3. RemoteOk(rest, now)
        BY <1>1, <3>3, <4>1, <4>2 DEF RemoteOk, Holds
      <4>4. \A i \in Holds(r) : i \in Holds(rest) \/ Failed(i, now)
        BY <2>1, <3>3, <4>1, <4>2 DEF Failed, Holds
      <4> QED BY <3>2, <4>1, <4>3, <4>4 DEF Polled, p
    <3> QED BY <3>4, <3>5
  <2>3. CASE r.addrs = {}
    <3>1. p = Polled(IF done THEN "error" ELSE "panic", r, {})
      BY <1>4, <2>3 DEF PollRemote
    <3>2. CASE done
      <4>1. p.is = "error" /\ p.tried = {} /\ p.remote = r
        BY <3>1, <3>2 DEF Polled
      <4>2. \A i \in Holds(r) : Failed(i, now)
        BY <2>1, <2>3, <4>1 DEF Holds
      <4> QED BY <3>1, <4>1, <4>2 DEF Polled
    <3>3. CASE ~done
      <4>1. p.is = "panic" /\ p.tried = {} /\ p.remote = r
        BY <3>1, <3>3 DEF Polled
      <4>2. c = 0
        BY <1>4, <3>3
      <4>3. Candidates = {}
        BY <2>3, <4>2 DEF RemoteOk, Holds
      <4> QED BY <3>1, <4>1, <4>3 DEF Polled
    <3> QED BY <3>2, <3>3
  <2> QED BY <2>2, <2>3
<1> QED BY <1>2, <1>3, <1>4

\* ConnectingTcp::poll, over its own fields.
LEMMA OutcomeIs ==
  ASSUME NEW is, NEW remote, NEW tried, NEW fallback
  PROVE  LET d == Outcome(Polled(is, remote, tried), fallback)
         IN  /\ d.state = IF is = "pending" THEN "connecting" ELSE is
             /\ d.preferred = remote /\ d.fallback = fallback
             /\ d.tried = dial.tried \cup tried
BY DEF Outcome, Polled

LEMMA OutcomeHas == \A p, f : "state" \in DOMAIN Outcome(p, f)
BY DEF Outcome

LEMMA ConnectingWith ==
  ASSUME NEW d, NEW f, d.fallback = <<f>>,
         RemoteOk(d.preferred, d.tried), RemoteOk(f, d.tried),
         \A i \in Candidates : i \in Holds(d.preferred) \/ i \in Holds(f) \/ Failed(i, d.tried)
  PROVE  Connecting(d)
<1>1. d.fallback[1] = f /\ d.fallback # <<>>
  OBVIOUS
<1> QED BY <1>1, Zenon DEF Connecting

LEMMA ConnectingAlone ==
  ASSUME NEW d, d.fallback = <<>>, RemoteOk(d.preferred, d.tried),
         \A i \in Candidates : i \in Holds(d.preferred) \/ Failed(i, d.tried)
  PROVE  Connecting(d)
BY Zenon DEF Connecting

LEMMA TriedMore ==
  ASSUME NEW p, p = Polled(p.is, p.remote, p.tried), NEW more
  PROVE  [p EXCEPT !.tried = @ \cup more] = Polled(p.is, p.remote, p.tried \cup more)
<1> DEFINE now == p.tried \cup more
<1> HIDE DEF now
<1>1. [p EXCEPT !.tried = now] = Polled(p.is, p.remote, now)
  BY DEF Polled
<1> QED BY <1>1 DEF now

LEMMA PollConnectingOk ==
  ASSUME DialInv, dial.state = "connecting"
  PROVE  DialOk(PollConnecting)
<1> DEFINE p == PollRemote(dial.preferred)
           f == dial.fallback[1]
           q == PollRemote(f)
           d == PollConnecting
           was == dial.tried
           mid == was \cup p.tried
           alt == was \cup q.tried
           now == was \cup (p.tried \cup q.tried)
<1>1. /\ NetworkOk /\ RemoteOk(dial.preferred, was)
      /\ \A i \in Candidates :
           \/ i \in Holds(dial.preferred)
           \/ dial.fallback # <<>> /\ i \in Holds(f)
           \/ Failed(i, was)
  BY DEF DialInv, DialOk, Connecting
<1>2. /\ p = Polled(p.is, p.remote, p.tried)
      /\ p.is \in {"pending", "ready", "error", "panic"}
      /\ p.is = "pending" =>
           /\ RemoteOk(p.remote, mid)
           /\ \A i \in Holds(dial.preferred) : i \in Holds(p.remote) \/ Failed(i, mid)
      /\ p.is = "error" => \A i \in Holds(dial.preferred) : Failed(i, mid)
      /\ p.is = "panic" => Candidates = {}
  BY <1>1, PollRemoteOk
<1>3. CASE dial.fallback = <<>>
  <2>1. d = Outcome(p, <<>>)
    BY <1>3 DEF PollConnecting
  <2>0. mid = dial.tried \cup p.tried
    OBVIOUS
  <2>3. \A i : Failed(i, was) => Failed(i, mid)
    BY DEF Failed
  <2> HIDE DEF p, d, mid
  <2>2. /\ d.state = (IF p.is = "pending" THEN "connecting" ELSE p.is)
        /\ d.preferred = p.remote /\ d.fallback = <<>> /\ d.tried = mid
    BY <1>2, <2>0, <2>1 DEF Outcome, Polled
  <2>4. d.state = "connecting" => Connecting(d)
    BY <1>1, <1>2, <1>3, <2>2, <2>3 DEF Connecting
  <2>5. d.state = "error" => \A i \in Candidates : Failed(i, d.tried)
    BY <1>1, <1>2, <1>3, <2>2, <2>3
  <2> QED BY <1>2, <2>1, <2>2, <2>4, <2>5, OutcomeHas DEF DialOk, d
<1>4. CASE dial.fallback # <<>>
  <2>1. dial.fallback = <<f>> /\ RemoteOk(f, was)
    BY <1>4 DEF DialInv, DialOk, Connecting
  <2>2. /\ q = Polled(q.is, q.remote, q.tried)
        /\ q.is \in {"pending", "ready", "error", "panic"}
        /\ q.is = "pending" =>
             /\ RemoteOk(q.remote, alt)
             /\ \A i \in Holds(f) : i \in Holds(q.remote) \/ Failed(i, alt)
        /\ q.is = "error" => \A i \in Holds(f) : Failed(i, alt)
        /\ q.is = "panic" => Candidates = {}
    BY <1>1, <2>1, PollRemoteOk
  <2>3. ASSUME NEW i
        PROVE  /\ Failed(i, was) => Failed(i, mid) /\ Failed(i, now)
               /\ Failed(i, mid) => Failed(i, now)
               /\ Failed(i, alt) => Failed(i, now)
    BY DEF Failed
  <2>4. ASSUME NEW r
        PROVE  /\ RemoteOk(r, was) => RemoteOk(r, mid)
               /\ RemoteOk(r, mid) => RemoteOk(r, now)
               /\ RemoteOk(r, alt) => RemoteOk(r, now)
    BY DEF RemoteOk
  <2>12. /\ mid = dial.tried \cup p.tried /\ now = dial.tried \cup (p.tried \cup q.tried)
         /\ now = dial.tried \cup (q.tried \cup p.tried)
    OBVIOUS
  <2>5. CASE p.is = "pending" /\ ~delayOver
    <3>1. d = Outcome(p, <<f>>)
      BY <1>4, <2>5 DEF PollConnecting, PreferredPending
    <3> HIDE DEF p, q, d, f, was, mid, alt, now
    <3>2. /\ d.state = "connecting" /\ d.preferred = p.remote /\ d.fallback = <<f>>
          /\ d.tried = mid
      BY <1>2, <2>5, <2>12, <3>1 DEF Outcome, Polled
    <3>3. RemoteOk(p.remote, mid) /\ RemoteOk(f, mid)
      BY <1>2, <2>1, <2>4, <2>5
    <3>4. \A i \in Candidates : i \in Holds(p.remote) \/ i \in Holds(f) \/ Failed(i, mid)
      BY <1>1, <1>2, <2>3, <2>5
    <3>5. Connecting(d)
      BY <3>2, <3>3, <3>4, ConnectingWith
    <3> QED BY <3>2, <3>5, <3>1, OutcomeHas DEF DialOk, d
  <2>6. CASE p.is = "pending" /\ delayOver /\ q.is = "ready"
    <3>1. d = Outcome([q EXCEPT !.tried = @ \cup p.tried], <<>>)
      BY <1>4, <2>6 DEF PollConnecting, PreferredPending
    <3> HIDE DEF p, q, d, f, was, mid, alt, now
    <3>2. [q EXCEPT !.tried = @ \cup p.tried] = Polled(q.is, q.remote, q.tried \cup p.tried)
      BY <2>2, TriedMore, Zenon
    <3>3. d.state = "ready"
      BY <2>6, <3>1, <3>2, OutcomeIs
    <3> QED BY <3>3, <3>1, OutcomeHas DEF DialOk, d
  <2>7. CASE p.is = "pending" /\ delayOver /\ q.is = "pending"
    <3>1. d = Outcome([p EXCEPT !.tried = @ \cup q.tried], <<q.remote>>)
      BY <1>4, <2>7 DEF PollConnecting, PreferredPending
    <3> HIDE DEF p, q, d, f, was, mid, alt, now
    <3>2. [p EXCEPT !.tried = @ \cup q.tried] = Polled(p.is, p.remote, p.tried \cup q.tried)
      BY <1>2, TriedMore, Zenon
    <3>3. /\ d.state = "connecting" /\ d.preferred = p.remote /\ d.fallback = <<q.remote>>
          /\ d.tried = now
      BY <2>7, <2>12, <3>1, <3>2 DEF Outcome, Polled
    <3>4. RemoteOk(p.remote, now) /\ RemoteOk(q.remote, now)
      BY <1>2, <2>2, <2>4, <2>7
    <3>5. \A i \in Candidates :
            i \in Holds(p.remote) \/ i \in Holds(q.remote) \/ Failed(i, now)
      BY <1>1, <1>2, <2>2, <2>3, <2>7
    <3>6. Connecting(d)
      BY <3>3, <3>4, <3>5, ConnectingWith
    <3> QED BY <3>3, <3>6, <3>1, OutcomeHas DEF DialOk, d
  <2>8. CASE p.is = "pending" /\ delayOver /\ q.is = "error"
    <3>1. d = Outcome([p EXCEPT !.tried = @ \cup q.tried], <<>>)
      BY <1>4, <2>8 DEF PollConnecting, PreferredPending
    <3> HIDE DEF p, q, d, f, was, mid, alt, now
    <3>2. [p EXCEPT !.tried = @ \cup q.tried] = Polled(p.is, p.remote, p.tried \cup q.tried)
      BY <1>2, TriedMore, Zenon
    <3>3. /\ d.state = "connecting" /\ d.preferred = p.remote /\ d.fallback = <<>>
          /\ d.tried = now
      BY <2>8, <2>12, <3>1, <3>2 DEF Outcome, Polled
    <3>4. RemoteOk(p.remote, now)
      BY <1>2, <2>4, <2>8
    <3>5. \A i \in Candidates : i \in Holds(p.remote) \/ Failed(i, now)
      BY <1>1, <1>2, <2>2, <2>3, <2>8
    <3>6. Connecting(d)
      BY <3>3, <3>4, <3>5, ConnectingAlone
    <3> QED BY <3>3, <3>6, <3>1, OutcomeHas DEF DialOk, d
  <2>9. CASE p.is = "pending" /\ delayOver /\ q.is = "panic"
    <3>1. d = Outcome([p EXCEPT !.is = "panic"], <<>>)
      BY <1>4, <2>9 DEF PollConnecting, PreferredPending
    <3> HIDE DEF p, q, d, f, was, mid, alt, now
    <3>2. [p EXCEPT !.is = "panic"] = Polled("panic", p.remote, p.tried)
      BY <1>2, <2>9 DEF Polled
    <3>3. d.state = "panic"
      BY <3>1, <3>2, OutcomeIs
    <3> QED BY <2>2, <2>9, <3>3, <3>1, OutcomeHas DEF DialOk, d
  <2>10. CASE p.is = "error"
    <3>1. d = Outcome([q EXCEPT !.tried = @ \cup p.tried], <<>>)
      BY <1>4, <2>10 DEF PollConnecting, PreferredFailed
    <3> HIDE DEF p, q, d, f, was, mid, alt, now
    <3>2. [q EXCEPT !.tried = @ \cup p.tried] = Polled(q.is, q.remote, q.tried \cup p.tried)
      BY <2>2, TriedMore, Zenon
    <3>3. /\ d.state = (IF q.is = "pending" THEN "connecting" ELSE q.is)
          /\ d.preferred = q.remote /\ d.fallback = <<>>
          /\ d.tried = now
      BY <2>12, <3>1, <3>2 DEF Outcome, Polled
    <3>5. d.state = "connecting" => Connecting(d)
      BY <1>1, <1>2, <2>2, <2>3, <2>4, <2>10, <3>3 DEF Connecting
    <3>6. d.state = "error" => \A i \in Candidates : Failed(i, now)
      BY <1>1, <1>2, <2>2, <2>3, <2>10, <3>3
    <3> QED BY <2>2, <3>3, <3>5, <3>6, <3>1, OutcomeHas DEF DialOk, d
  <2>11. CASE p.is \in {"ready", "panic"}
    <3>1. d = Outcome(p, <<>>)
      BY <1>4, <2>11 DEF PollConnecting
    <3> HIDE DEF p, q, d, f, was, mid, alt, now
    <3>2. d.state = p.is
      BY <1>2, <2>11, <3>1 DEF Outcome, Polled
    <3> QED BY <1>2, <2>11, <3>2, <3>1, OutcomeHas DEF DialOk, d
  <2> QED BY <1>2, <2>2, <2>5, <2>6, <2>7, <2>8, <2>9, <2>10, <2>11
<1> QED BY <1>3, <1>4

\* split_by_preference and ConnectingTcp::new lose no address.
LEMMA ConnectingTcpOk ==
  ASSUME url \in Urls
  PROVE  DialOk(ConnectingTcp(Candidates))
<1> DEFINE d == ConnectingTcp(Candidates)
           one == Preferred(Candidates)
           other == Others(Candidates)
<1>1. \A S \in SUBSET Candidates : Holds(Remote(S)) = S /\ Remote(S).current = 0
  BY DEF Holds, Remote
<1>2. \A S \in SUBSET Candidates :
        /\ Remote(S) \in [addrs : SUBSET Candidates, current : {0} \cup Candidates]
        /\ Remote(S).addrs = S
  BY DEF Remote
<1>3. /\ one \in SUBSET Candidates /\ other \in SUBSET Candidates
      /\ Candidates = one \cup other
  BY DEF Preferred, Others
<1>4. Candidates # {} => 1 \in one
  <2>1. Candidates # {} => 1 \in Candidates
    BY UrlsAssumption DEF Candidates
  <2> QED BY <2>1 DEF Preferred
<1>5. CASE ~url.happy_eyeballs \/ other = {}
  <2>1. d = Dial("connecting", Remote(Candidates), <<>>)
    BY <1>5 DEF ConnectingTcp
  <2>2. url.happy_eyeballs => \A i, j \in Candidates : Family(i) = Family(j)
    BY <1>5 DEF Others
  <2>3. RemoteOk(Remote(Candidates), {})
    BY <1>1, <1>2, <2>2 DEF RemoteOk
  <2> HIDE DEF d
  <2>4. /\ d.state = "connecting" /\ d.preferred = Remote(Candidates)
        /\ d.fallback = <<>> /\ d.tried = {} /\ "state" \in DOMAIN d
    BY <2>1 DEF Dial
  <2>5. Connecting(d)
    BY <1>1, <2>3, <2>4 DEF Connecting
  <2> QED BY <2>4, <2>5 DEF DialOk, d
<1>6. CASE ~(~url.happy_eyeballs \/ other = {})
  <2>1. d = Dial("connecting", Remote(one), <<Remote(other)>>)
    BY <1>6 DEF ConnectingTcp
  <2>2. \A i, j \in one : Family(i) = Family(j)
    BY DEF Preferred
  <2>3. RemoteOk(Remote(one), {})
    <3> HIDE DEF one
    <3> QED BY <1>1, <1>2, <1>3, <1>4, <2>2 DEF RemoteOk
  <2>4. \A i, j \in other : Family(i) = Family(j)
    <3>1. \A i \in Candidates : Family(i) \in {"v4", "v6"}
      BY CandidatesAre, FamilyAssumption DEF Family
    <3>2. \A i \in other : i \in Candidates /\ Family(i) # Family(1)
      BY DEF Others
    <3>3. Candidates # {} => Family(1) \in {"v4", "v6"}
      BY <1>3, <1>4, <3>1
    <3> QED BY <3>1, <3>2, <3>3
  <2>5. RemoteOk(Remote(other), {})
    <3> HIDE DEF other
    <3> QED BY <1>1, <1>2, <1>3, <1>6, <2>4 DEF RemoteOk
  <2> HIDE DEF d, one, other
  <2>6. /\ d.state = "connecting" /\ d.preferred = Remote(one)
        /\ d.fallback = <<Remote(other)>> /\ d.tried = {} /\ "state" \in DOMAIN d
    BY <2>1 DEF Dial
  <2>7. Connecting(d)
    BY <1>1, <1>3, <2>3, <2>5, <2>6 DEF Connecting
  <2> QED BY <2>6, <2>7 DEF DialOk, d
<1> QED BY <1>5, <1>6

LEMMA DialInitInv == DialInit => DialInv
<1> SUFFICES ASSUME DialInit PROVE DialInv
  OBVIOUS
<1>1. NetworkOk
  BY DEF DialInit, NetworkOk
<1>2. dial.state = "start" /\ "state" \in DOMAIN dial
  BY DEF DialInit, Dial
<1> QED BY <1>1, <1>2 DEF DialInv, DialOk

\* A step that leaves the network and the list alone.
LEMMA SameNetwork ==
  ASSUME DialInv, UNCHANGED <<network, noSocket, url, answered>>, DialOk(dial')
  PROVE  DialInv'
<1>1. NetworkOk' /\ Candidates' = Candidates
  BY DEF DialInv, NetworkOk, Candidates
<1>2. /\ \A i, t : Failed(i, t)' = Failed(i, t)
      /\ \A r, t : RemoteOk(r, t)' = RemoteOk(r, t)
  BY <1>1 DEF Failed, RemoteOk, Family, Holds
<1>3. DialOk(dial)'
  BY <1>1, <1>2 DEF DialOk, Connecting
<1> QED BY <1>1, <1>3 DEF DialInv

LEMMA DialStepInv ==
  DialInv /\ [DialNext]_dialVars => DialInv'
<1> SUFFICES ASSUME DialInv, [DialNext]_dialVars PROVE DialInv'
  OBVIOUS
<1>0. NetworkOk /\ url \in Urls /\ DialOk(dial)
  BY DEF DialInv, NetworkOk
<1>1. CASE UNCHANGED dialVars
  <2>1. DialOk(dial') /\ UNCHANGED <<network, noSocket, url, answered>>
    BY <1>0, <1>1 DEF dialVars
  <2> QED BY <2>1, SameNetwork
<1>2. CASE Start
  <2>1. DialOk(dial')
    <3>0. \A x : [dial EXCEPT !.state = x].state = x /\ "state" \in DOMAIN [dial EXCEPT !.state = x]
      BY <1>0 DEF DialOk
    <3>1. CASE InvalidUrl # {}
      BY <1>2, <3>0, <3>1 DEF Start, DialOk
    <3>2. CASE InvalidUrl = {} /\ url.host = "literal"
      BY <1>0, <1>2, <3>2, ConnectingTcpOk DEF Start, Candidates
    <3>3. CASE InvalidUrl = {} /\ url.host # "literal"
      BY <1>2, <3>0, <3>3 DEF Start, DialOk
    <3> QED BY <3>1, <3>2, <3>3
  <2> QED BY <1>2, <2>1, SameNetwork DEF Start
<1>3. CASE Resolved
  <2>1. DialOk(dial')
    <3>1. CASE dial' = ConnectingTcp(DOMAIN url.resolved)
      <4>1. Candidates = DOMAIN url.resolved
        BY <1>0, <1>3 DEF Resolved, DialOk, Candidates
      <4> QED BY <1>0, <3>1, <4>1, ConnectingTcpOk
    <3>2. CASE dial' = [dial EXCEPT !.state = "not_resolved"]
      BY <1>0, <3>2 DEF DialOk
    <3> QED BY <1>3, <3>1, <3>2 DEF Resolved
  <2> QED BY <1>3, <2>1, SameNetwork DEF Resolved
<1>4. CASE Poll
  <2>1. DialOk(dial')
    <3>1. DialOk(PollConnecting)
      BY <1>4, PollConnectingOk DEF Poll
    <3>2. \/ dial' = PollConnecting
          \/ dial' = [PollConnecting EXCEPT !.state = "option_error"]
      BY <1>4 DEF Poll
    <3> QED BY <3>1, <3>2 DEF DialOk
  <2> QED BY <1>4, <2>1, SameNetwork DEF Poll
<1>5. CASE DelayPasses
  <2>1. DialOk(dial') /\ UNCHANGED <<network, noSocket, url, answered>>
    BY <1>0, <1>5 DEF DelayPasses
  <2> QED BY <2>1, SameNetwork
<1>6. ASSUME NEW i \in DOMAIN url.resolved, Answer(i) PROVE DialInv'
  <2>0. /\ dial.state = "connecting" /\ i # 0 /\ i \in Waiting
        /\ network[url.resolved[i]] # "silent"
        /\ answered' = answered \cup {i} /\ UNCHANGED <<network, noSocket, url, dial>>
    BY <1>6 DEF Answer
  <2>1. i \in Candidates
    <3>1. Connecting(dial)
      BY <1>0, <2>0 DEF DialOk
    <3>2. CASE i = dial.preferred.current
      BY <2>0, <3>1, <3>2 DEF Connecting, RemoteOk
    <3>3. CASE \E k \in DOMAIN dial.fallback : i = dial.fallback[k].current
      <4>1. dial.fallback # <<>>
        BY <3>3
      <4>2. dial.fallback = <<dial.fallback[1]>> /\ RemoteOk(dial.fallback[1], dial.tried)
        BY <3>1, <4>1 DEF Connecting
      <4>3. \A k \in DOMAIN dial.fallback : k = 1
        BY <4>2
      <4> QED BY <2>0, <3>3, <4>2, <4>3 DEF RemoteOk
    <3> QED BY <2>0, <3>2, <3>3 DEF Waiting
  <2>2. NetworkOk' /\ Candidates' = Candidates
    BY <1>0, <2>0, <2>1 DEF NetworkOk, Candidates
  <2>3. /\ \A k, t : Failed(k, t) => Failed(k, t)'
        /\ \A r, t : RemoteOk(r, t)' = RemoteOk(r, t)
    BY <2>0, <2>2 DEF Failed, RemoteOk, Family, Holds
  <2>4. DialOk(dial)'
    BY <1>0, <2>0, <2>2, <2>3 DEF DialOk, Connecting
  <2> QED BY <2>2, <2>4 DEF DialInv
<1> QED BY <1>1, <1>2, <1>3, <1>4, <1>5, <1>6 DEF DialNext

\* For any addresses, any network and however the delay, the answers and the
\* polls interleave: the connector fails only when every address has, and does
\* not reach the expect on a missing error if there is one.
THEOREM FailsWhenAllHave == DialSpec => []FailsOnlyAfterAll
<1>1. DialInv => FailsOnlyAfterAll
  BY DEF DialInv, DialOk, FailsOnlyAfterAll, Failed
<1> QED BY <1>1, DialInitInv, DialStepInv, PTL DEF DialSpec

===============================================================================
