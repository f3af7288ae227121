--------------------------- MODULE ManagementProofs ---------------------------
(***************************************************************************)
(* The management side of the multiplexor: the registry that its clients   *)
(* change, and the loop that reads their requests.                         *)
(***************************************************************************)
EXTENDS Backends, ManagementClient, SequenceTheorems, NaturalsInduction,
        WellFoundedInduction, TLAPS

-------------------------------------------------------------------------------
(***************************************************************************)
(* Backends, for any hostnames, ids, clients and tasks. RegistryOK(r) says *)
(* of a registry, live or in a task's snapshot, that every id in it was made *)
(* for the entry it is in. Ids are made once, so what holds of a snapshot  *)
(* when it is taken holds of it ever after.                                *)
(***************************************************************************)

Registry == [Hosts -> BackendSet \cup {Vacant}]

RegistryOK(r) ==
  \A h \in Hosts : \A id \in r[h].locations :
    made[id] = [host |-> h, version |-> r[h].version]

Full(r) == \A h \in Hosts : r[h] # Vacant => r[h].locations # {}

HeaderInv ==
  /\ RegistryOK(backends)
  /\ \A t \in Tasks : RegistryOK(snapshot[t])
  /\ RightHeader

HeldInv ==
  /\ \A c \in Clients : \A b \in held[c] : made[b[2]] # Unmade
  /\ HeldReleased

IInv == TypeOK /\ HeaderInv /\ HeldInv

FullInv ==
  /\ ConfigNonEmpty
  /\ Full(backends)
  /\ \A t \in Tasks : Full(snapshot[t])
  /\ AssertHolds

-------------------------------------------------------------------------------

\* An entry with a location has a version: it is not vacant.
LEMMA EntryTyped ==
  ASSUME NEW r \in Registry, NEW h \in Hosts
  PROVE  /\ r[h].locations \in SUBSET Ids
         /\ r[h].locations # {} => r[h] \in BackendSet /\ r[h].version \in Versions
BY DEF Registry, Vacant, BackendSet

\* Nothing is registered in a snapshot not taken.
LEMMA NoSnapshotTyped ==
  NoSnapshot \in Registry /\ \A h \in Hosts : NoSnapshot[h] = Vacant
                                          /\ NoSnapshot[h].locations = {}
BY DEF NoSnapshot, Registry, Vacant

\* An id that was made for a host and a version is told from one not made.
LEMMA MadeIsNotUnmade ==
  ASSUME NEW h \in Hosts, NEW v \in Versions
  PROVE  [host |-> h, version |-> v] # Unmade
<1>1. [host |-> h, version |-> v].version = v /\ Unmade.version = "vacant"
  BY DEF Unmade
<1> QED BY <1>1 DEF Versions

\* Making an id disturbs no registry that was right before.
LEMMA GenerateKeeps ==
  ASSUME TypeOK, NEW r \in Registry, RegistryOK(r),
         NEW id \in Ids, NEW h \in Hosts, NEW v \in Versions, Generate(id, h, v)
  PROVE  /\ RegistryOK(r)'
         /\ \A g \in Hosts : id \notin r[g].locations
<1>1. ASSUME NEW g \in Hosts, NEW i \in r[g].locations
      PROVE  i # id /\ i \in Ids
  <2>1. i \in Ids /\ r[g].version \in Versions
    BY EntryTyped
  <2>2. made[i] # Unmade
    BY <2>1, MadeIsNotUnmade DEF RegistryOK
  <2> QED BY <2>1, <2>2 DEF Generate
<1>2. \A i \in Ids \ {id} : made'[i] = made[i]
  BY DEF Generate, TypeOK
<1> QED BY <1>1, <1>2 DEF RegistryOK

\* The configured registry is right, and nobody holds anything.
LEMMA InitInv == Init => IInv
<1> SUFFICES ASSUME Init PROVE IInv
  OBVIOUS
<1> USE ConfigAssumption
<1>1. Config \in Registry
  BY DEF Registry
<1>2. ASSUME NEW h \in Hosts, NEW id \in Config[h].locations
      PROVE  id \in Ids /\ made[id] = [host |-> h, version |-> Config[h].version]
  <2>1. id \in Ids
    BY <1>1, EntryTyped
  <2>2. \A g \in Hosts : id \in Config[g].locations => g = h
    OBVIOUS
  <2> DEFINE w == CHOOSE g \in Hosts : id \in Config[g].locations
  <2>3. w = h
    BY <2>2
  <2>4. made[id] = [host |-> w, version |-> Config[w].version]
    BY <2>1 DEF Init
  <2> HIDE DEF w
  <2> QED BY <2>1, <2>3, <2>4
<1>3. made \in [Ids -> [host : Hosts, version : Versions] \cup {Unmade}]
  <2>1. ASSUME NEW id \in Ids, \E h \in Hosts : id \in Config[h].locations
        PROVE  made[id] \in [host : Hosts, version : Versions]
    <3>1. PICK h \in Hosts : id \in Config[h].locations
      BY <2>1
    <3>2. Config[h].version \in Versions
      BY <1>1, <3>1, EntryTyped
    <3>3. made[id] = [host |-> h, version |-> Config[h].version]
      BY <1>2, <3>1
    <3> QED BY <3>2, <3>3
  <2>2. ASSUME NEW id \in Ids, ~ \E h \in Hosts : id \in Config[h].locations
        PROVE  made[id] = Unmade
    BY <2>2 DEF Init
  <2>3. made = [id \in Ids |-> made[id]]
    BY DEF Init
  <2> QED BY <2>1, <2>2, <2>3
<1>4. TypeOK
  <2>1. backends \in Registry /\ snapshot \in [Tasks -> Registry]
    BY <1>1, NoSnapshotTyped DEF Init
  <2>2. conn \in [Clients -> ConnState] /\ held \in [Clients -> SUBSET (Hosts \X Ids)]
    BY DEF Init, ConnState
  <2>3. task \in [Tasks -> TaskState]
    BY DEF Init, TaskState
  <2>4. choice \in [Tasks -> [host : Hosts, version : Versions, ids : SUBSET Ids]
                               \cup {NoChoice}]
    BY DEF Init
  <2> QED BY <1>3, <2>1, <2>2, <2>3, <2>4 DEF TypeOK, Registry
<1>5. HeaderInv
  BY <1>2, NoSnapshotTyped DEF HeaderInv, RegistryOK, RightHeader, Init
<1>6. HeldInv
  BY DEF HeldInv, HeldReleased, Init
<1> QED BY <1>4, <1>5, <1>6 DEF IInv

-------------------------------------------------------------------------------
(* One lemma for each kind of step *)

\* A step that makes an id and puts it into one entry, alone or with the ids
\* that entry has under the same version.
LEMMA InsertStep ==
  ASSUME IInv, NEW h \in Hosts, NEW v \in Versions, NEW id \in Ids,
         Generate(id, h, v),
         NEW locs \in SUBSET backends[h].locations,
         locs # {} => backends[h].version = v,
         backends' = [backends EXCEPT ![h] =
                        [version |-> v, locations |-> locs \cup {id}]],
         UNCHANGED <<conn, tasks>>,
         NEW c \in Clients, conn[c] = "open",
         held' = held \/ held' = [held EXCEPT ![c] = @ \cup {<<h, id>>}]
  PROVE  IInv'
<1> USE DEF IInv
<1>0. backends \in Registry /\ \A t \in Tasks : snapshot[t] \in Registry
  BY DEF TypeOK, Registry
<1>1. locs \subseteq Ids
  BY <1>0, EntryTyped
<1>2. [version |-> v, locations |-> locs \cup {id}] \in BackendSet
  BY <1>1 DEF BackendSet
<1>3. backends' \in Registry
  BY <1>0, <1>2 DEF Registry
<1>4. made' \in [Ids -> [host : Hosts, version : Versions] \cup {Unmade}]
  BY DEF TypeOK, Generate
<1>5. held' \in [Clients -> SUBSET (Hosts \X Ids)]
  BY DEF TypeOK
<1>6. TypeOK'
  BY <1>3, <1>4, <1>5 DEF TypeOK, tasks, Registry
<1>7. made'[id] = [host |-> h, version |-> v]
      /\ made[id] = Unmade
      /\ \A i \in Ids \ {id} : made'[i] = made[i]
  BY DEF TypeOK, Generate
<1>8. RegistryOK(backends)'
  <2>1. ASSUME NEW g \in Hosts, NEW i \in backends'[g].locations
        PROVE  made'[i] = [host |-> g, version |-> backends'[g].version]
    <3>1. CASE g # h
      <4>1. backends'[g] = backends[g]
        BY <3>1, <1>0 DEF Registry
      <4>2. i \in Ids /\ i # id
        BY <4>1, <1>0, GenerateKeeps, EntryTyped DEF HeaderInv
      <4> QED BY <4>1, <4>2, <1>7 DEF HeaderInv, RegistryOK
    <3>2. CASE g = h
      <4>1. backends'[h] = [version |-> v, locations |-> locs \cup {id}]
        BY <1>0 DEF Registry
      <4>2. CASE i = id
        BY <4>1, <4>2, <3>2, <1>7
      <4>3. CASE i # id
        <5>1. i \in locs
          BY <4>1, <4>3, <3>2
        <5>2. made[i] = [host |-> h, version |-> v]
          BY <5>1 DEF HeaderInv, RegistryOK
        <5> QED BY <5>1, <5>2, <4>1, <4>3, <3>2, <1>1, <1>7
      <4> QED BY <4>2, <4>3
    <3> QED BY <3>1, <3>2
  <2> QED BY <2>1 DEF RegistryOK
<1>9. \A t \in Tasks : RegistryOK(snapshot[t])'
  <2> SUFFICES ASSUME NEW t \in Tasks PROVE RegistryOK(snapshot[t])'
    OBVIOUS
  <2>1. RegistryOK(snapshot[t])
    BY DEF HeaderInv
  <2>2. \A g \in Hosts : \A i \in snapshot[t][g].locations : i \in Ids /\ i # id
    BY <1>0, <2>1, GenerateKeeps, EntryTyped
  <2> QED BY <2>1, <2>2, <1>7 DEF RegistryOK, tasks
<1>10. RightHeader'
  <2> SUFFICES ASSUME NEW t \in Tasks, task[t] = "dialing", NEW i \in choice[t].ids
               PROVE  made'[i] = [host |-> choice[t].host, version |-> choice[t].version]
    BY DEF RightHeader, tasks
  <2>1. choice[t] \in [host : Hosts, version : Versions, ids : SUBSET Ids]
    BY DEF TypeOK, NoChoice
  <2>2. made[i] = [host |-> choice[t].host, version |-> choice[t].version]
    BY DEF HeaderInv, RightHeader
  <2>3. made[i] # Unmade
    BY <2>1, <2>2, MadeIsNotUnmade
  <2> QED BY <2>1, <2>2, <2>3, <1>7
<1>11. \A d \in Clients : \A b \in held'[d] : made'[b[2]] # Unmade
  <2> SUFFICES ASSUME NEW d \in Clients, NEW b \in held'[d]
               PROVE  made'[b[2]] # Unmade
    OBVIOUS
  <2>1. b \in Hosts \X Ids
    BY <1>5
  <2>2. CASE b = <<h, id>>
    BY <2>2, <1>7, MadeIsNotUnmade
  <2>3. CASE b # <<h, id>>
    <3>1. b \in held[d]
      BY <2>3 DEF TypeOK
    <3>2. made[b[2]] # Unmade
      BY <3>1 DEF HeldInv
    <3> QED BY <3>2, <2>1, <1>7
  <2> QED BY <2>2, <2>3
<1>12. HeldReleased'
  <2> SUFFICES ASSUME NEW d \in Clients, conn[d] = "quit", NEW b \in held'[d]
               PROVE  b[2] \notin backends'[b[1]].locations
    BY DEF HeldReleased
  <2>1. b \in held[d] /\ b[1] \in Hosts
    BY DEF TypeOK
  <2>2. b[2] \notin backends[b[1]].locations /\ b[2] # id
    BY <2>1, <1>7 DEF HeldInv, HeldReleased
  <2>3. backends'[b[1]].locations \subseteq backends[b[1]].locations \cup {id}
    BY <2>1, <1>0 DEF Registry
  <2> QED BY <2>2, <2>3
<1> QED BY <1>6, <1>8, <1>9, <1>10, <1>11, <1>12 DEF HeaderInv, HeldInv

\* A step that takes ids out of the registry, and may end a client whose held
\* backends are then gone.
LEMMA RemoveStep ==
  ASSUME IInv, backends' \in Registry,
         \A h \in Hosts : \/ backends'[h] = backends[h]
                          \/ backends'[h] = Vacant
                          \/ /\ backends'[h].version = backends[h].version
                             /\ backends'[h].locations \subseteq backends[h].locations,
         UNCHANGED <<made, held, tasks>>,
         conn' \in [Clients -> ConnState],
         \A c \in Clients : conn'[c] = "quit" =>
           \/ conn[c] = "quit"
           \/ \A b \in held[c] : b[2] \notin backends'[b[1]].locations
  PROVE  IInv'
<1> USE DEF IInv
<1>1. TypeOK'
  BY DEF TypeOK, tasks, Registry
<1>2. \A h \in Hosts : backends'[h].locations \subseteq backends[h].locations
  BY DEF Vacant
<1>3. RegistryOK(backends)'
  <2> SUFFICES ASSUME NEW h \in Hosts, NEW id \in backends'[h].locations
               PROVE  made[id] = [host |-> h, version |-> backends'[h].version]
    BY DEF RegistryOK
  <2>1. backends'[h] # Vacant
    BY DEF Vacant
  <2>2. backends'[h].version = backends[h].version
    BY <2>1
  <2> QED BY <2>2, <1>2 DEF HeaderInv, RegistryOK
<1>4. HeaderInv'
  BY <1>3 DEF HeaderInv, RegistryOK, RightHeader, tasks
<1>5. HeldInv'
  <2>1. \A c \in Clients : \A b \in held[c] : b[1] \in Hosts
    BY DEF TypeOK
  <2> QED BY <2>1, <1>2 DEF HeldInv, HeldReleased
<1> QED BY <1>1, <1>4, <1>5

\* The actions are steps of one of those two kinds, or leave the registry alone.
LEMMA ClientStepInv ==
  ASSUME IInv, NEW c \in Clients, ClientStep(c)
  PROVE  IInv'
<1> USE DEF IInv
<1>0. backends \in Registry
  BY DEF TypeOK, Registry
<1>1. ASSUME NEW s \in ConnState \ {"quit"}, conn' = [conn EXCEPT ![c] = s],
             UNCHANGED <<registry, held, tasks>>
      PROVE  IInv'
  <2>1. conn' \in [Clients -> ConnState]
    BY <1>1 DEF TypeOK
  <2>2. \A d \in Clients : conn'[d] = "quit" => conn[d] = "quit"
    BY <1>1 DEF TypeOK
  <2> QED BY <1>0, <1>1, <2>1, <2>2, RemoveStep DEF registry
<1>2. CASE Connect(c)
  BY <1>1, <1>2 DEF Connect, ConnState
<1>3. CASE Leave(c)
  BY <1>1, <1>3 DEF Leave, ConnState
<1>4. CASE Fail(c)
  BY <1>1, <1>4 DEF Fail, ConnState
<1>5. ASSUME NEW h \in Hosts, RemoveBackends(c, h)
      PROVE  IInv'
  <2>1. backends' \in Registry
        /\ \A g \in Hosts : backends'[g] = backends[g] \/ backends'[g] = Vacant
    BY <1>0, <1>5 DEF RemoveBackends, Registry
  <2>2. conn' = conn
    BY <1>5 DEF RemoveBackends, clients
  <2>3. conn' \in [Clients -> ConnState]
    BY <2>2 DEF TypeOK
  <2> QED BY <1>5, <2>1, <2>2, <2>3, RemoveStep DEF RemoveBackends, clients
<1>6. ASSUME NEW h \in Hosts, NEW v \in Versions, NEW id \in Ids,
             AddHeldBackend(c, h, v, id)
      PROVE  IInv'
  <2> DEFINE locs == backends[h].locations
  <2>1. locs # {} => backends[h].version = v
    BY <1>6 DEF AddHeldBackend, Accepts, Vacant
  <2>2. backends' = [backends EXCEPT ![h] =
                       [version |-> v, locations |-> locs \cup {id}]]
    BY <1>6 DEF AddHeldBackend, add_backend
  <2>3. /\ conn[c] = "open"
        /\ Generate(id, h, v)
        /\ held' = [held EXCEPT ![c] = @ \cup {<<h, id>>}]
        /\ UNCHANGED <<conn, tasks>>
    BY <1>6 DEF AddHeldBackend
  <2> QED BY <2>1, <2>2, <2>3, InsertStep
<1>7. ASSUME NEW h \in Hosts, NEW v \in Versions, NEW id \in Ids,
             ReplaceBackend(c, h, v, id)
      PROVE  IInv'
  <2> DEFINE locs == {}
  <2>0. locs \in SUBSET backends[h].locations /\ (locs # {} => backends[h].version = v)
    OBVIOUS
  <2>1. backends' = [backends EXCEPT ![h] =
                       [version |-> v, locations |-> locs \cup {id}]]
    BY <1>7 DEF ReplaceBackend, replace_backend
  <2>2. /\ conn[c] = "open"
        /\ Generate(id, h, v)
        /\ held' = held
        /\ UNCHANGED <<conn, tasks>>
    BY <1>7 DEF ReplaceBackend, clients
  <2> HIDE DEF locs
  <2> QED BY <2>0, <2>1, <2>2, InsertStep
<1>8. CASE Release(c)
  <2>1. ASSUME NEW h \in Hosts
        PROVE  /\ backends'[h] \in BackendSet \cup {Vacant}
               /\ \/ backends'[h] = backends[h]
                  \/ backends'[h] = Vacant
                  \/ /\ backends'[h].version = backends[h].version
                     /\ backends'[h].locations \subseteq backends[h].locations
               /\ \A id \in HeldIds(c, h) : id \notin backends'[h].locations
    <3>1. CASE HeldIds(c, h) # {} /\ backends[h] # Vacant
      <4>1. backends'[h] = Without(backends[h], HeldIds(c, h))
        BY <1>8, <3>1 DEF Release
      <4>2. backends[h] \in BackendSet
        BY <1>0, <3>1 DEF Registry
      <4> QED BY <4>1, <4>2 DEF Without, Vacant, BackendSet
    <3>2. CASE ~(HeldIds(c, h) # {} /\ backends[h] # Vacant)
      BY <1>8, <1>0, <3>2 DEF Release, Vacant, Registry
    <3> QED BY <3>1, <3>2
  <2>2. backends' \in Registry
    BY <1>8, <2>1 DEF Release, Registry
  <2>3. \A b \in held[c] : b[2] \notin backends'[b[1]].locations
    <3> SUFFICES ASSUME NEW b \in held[c]
                 PROVE  b[2] \notin backends'[b[1]].locations
      OBVIOUS
    <3>1. PICK h \in Hosts, id \in Ids : b = <<h, id>>
      BY DEF TypeOK
    <3>2. id \in HeldIds(c, h)
      BY <3>1 DEF HeldIds
    <3> QED BY <2>1, <3>1, <3>2
  <2>4. /\ conn' \in [Clients -> ConnState]
        /\ \A d \in Clients : d # c => conn'[d] = conn[d]
        /\ UNCHANGED <<made, held, tasks>>
    BY <1>8 DEF Release, TypeOK, ConnState
  <2> QED BY <2>1, <2>2, <2>3, <2>4, RemoveStep
<1> QED BY <1>2, <1>3, <1>4, <1>5, <1>6, <1>7, <1>8 DEF ClientStep

\* A connection task takes its snapshot and its choice from what is right.
LEMMA TaskStepInv ==
  ASSUME IInv, NEW t \in Tasks, TaskStep(t)
  PROVE  IInv'
<1> USE DEF IInv
<1>1. backends \in Registry /\ snapshot[t] \in Registry
  BY DEF TypeOK, Registry
<1>2. CASE Accept(t)
  <2>1. /\ task' = [task EXCEPT ![t] = "accepted"]
        /\ snapshot' = [snapshot EXCEPT ![t] = backends]
        /\ UNCHANGED <<choice, registry, clients>>
    BY <1>2 DEF Accept
  <2>2. TypeOK'
    BY <2>1, <1>1 DEF TypeOK, registry, clients, TaskState, Registry
  <2>3. \A u \in Tasks : RegistryOK(snapshot[u])'
    <3>1. \A u \in Tasks : snapshot'[u] = IF u = t THEN backends ELSE snapshot[u]
      BY <2>1 DEF TypeOK
    <3>2. made' = made
      BY <2>1 DEF registry
    <3>3. TAKE u \in Tasks
    <3>4. RegistryOK(IF u = t THEN backends ELSE snapshot[u])
      BY DEF HeaderInv
    <3> QED BY <3>1, <3>2, <3>4 DEF RegistryOK
  <2>4. RightHeader'
    BY <2>1 DEF TypeOK, HeaderInv, RightHeader, registry
  <2>5. RegistryOK(backends)' /\ HeldInv'
    BY <2>1 DEF HeaderInv, RegistryOK, HeldInv, HeldReleased, registry, clients
  <2> QED BY <2>2, <2>3, <2>4, <2>5 DEF HeaderInv
<1>3. ASSUME NEW h \in Hosts, resolve(t, h)
      PROVE  IInv'
  <2>0. UNCHANGED <<snapshot, backends, made, conn, held>>
    BY <1>3 DEF resolve, registry, clients
  <2>1. RegistryOK(backends)' /\ (\A u \in Tasks : RegistryOK(snapshot[u]))' /\ HeldInv'
    <3>1. RegistryOK(backends)'
      BY <2>0 DEF HeaderInv, RegistryOK
    <3>2. ASSUME NEW u \in Tasks PROVE RegistryOK(snapshot[u])'
      <4>1. RegistryOK(snapshot[u])
        BY DEF HeaderInv
      <4> QED BY <2>0, <4>1 DEF RegistryOK
    <3>3. HeldInv'
      BY <2>0 DEF HeldInv, HeldReleased
    <3> QED BY <3>1, <3>2, <3>3
  <2>2. CASE /\ task' = [task EXCEPT ![t] = "refused"]
             /\ UNCHANGED choice
    <3>1. TypeOK'
      BY <2>0, <2>2 DEF TypeOK, TaskState
    <3>2. RightHeader'
      BY <2>0, <2>2 DEF TypeOK, HeaderInv, RightHeader
    <3> QED BY <2>1, <3>1, <3>2 DEF HeaderInv
  <2>3. CASE /\ task' = [task EXCEPT ![t] = "panicked"]
             /\ UNCHANGED choice
    <3>1. TypeOK'
      BY <2>0, <2>3 DEF TypeOK, TaskState
    <3>2. RightHeader'
      BY <2>0, <2>3 DEF TypeOK, HeaderInv, RightHeader
    <3> QED BY <2>1, <3>1, <3>2 DEF HeaderInv
  <2>4. ASSUME NEW id \in snapshot[t][h].locations,
               task' = [task EXCEPT ![t] = "dialing"],
               choice' = [choice EXCEPT ![t] =
                            [host |-> h, version |-> snapshot[t][h].version,
                             ids |-> {id}]]
        PROVE  IInv'
    <3>1. id \in Ids /\ snapshot[t][h].version \in Versions
      BY <1>1, EntryTyped
    <3>2. [host |-> h, version |-> snapshot[t][h].version, ids |-> {id}]
            \in [host : Hosts, version : Versions, ids : SUBSET Ids]
      BY <3>1
    <3>3. TypeOK'
      BY <2>0, <2>4, <3>2 DEF TypeOK, TaskState
    <3>4. made[id] = [host |-> h, version |-> snapshot[t][h].version]
      BY DEF HeaderInv, RegistryOK
    <3>5. RightHeader'
      BY <2>0, <2>4, <3>4 DEF TypeOK, HeaderInv, RightHeader
    <3> QED BY <2>1, <3>3, <3>5 DEF HeaderInv
  <2> QED BY <1>3, <2>2, <2>3, <2>4 DEF resolve
<1>4. CASE End(t)
  <2>1. /\ task' = [task EXCEPT ![t] = "idle"]
        /\ choice' = [choice EXCEPT ![t] = NoChoice]
        /\ snapshot' = [snapshot EXCEPT ![t] = NoSnapshot]
        /\ UNCHANGED <<registry, clients>>
    BY <1>4 DEF End
  <2>2. TypeOK'
    <3>1. backends' = backends /\ made' = made /\ conn' = conn /\ held' = held
      BY <2>1 DEF registry, clients
    <3>2. task' \in [Tasks -> TaskState]
      BY <2>1 DEF TypeOK, TaskState
    <3>3. snapshot' \in [Tasks -> [Hosts -> BackendSet \cup {Vacant}]]
      BY <2>1, NoSnapshotTyped DEF TypeOK, Registry
    <3>4. choice' \in [Tasks -> [host : Hosts, version : Versions, ids : SUBSET Ids]
                                  \cup {NoChoice}]
      <4> DEFINE C == [host : Hosts, version : Versions, ids : SUBSET Ids] \cup {NoChoice}
      <4>1. choice \in [Tasks -> C] /\ NoChoice \in C
        BY DEF TypeOK
      <4> HIDE DEF C
      <4>2. choice' \in [Tasks -> C]
        BY <2>1, <4>1
      <4> QED BY <4>2 DEF C
    <3> QED BY <3>1, <3>2, <3>3, <3>4 DEF TypeOK
  <2>3. \A u \in Tasks : RegistryOK(snapshot[u])'
    <3>1. made' = made /\ \A u \in Tasks : snapshot'[u] \in {snapshot[u], NoSnapshot}
      BY <2>1 DEF TypeOK, registry
    <3>2. RegistryOK(NoSnapshot)
      BY NoSnapshotTyped DEF RegistryOK
    <3> SUFFICES ASSUME NEW u \in Tasks PROVE RegistryOK(snapshot[u])'
      OBVIOUS
    <3>3. RegistryOK(snapshot'[u])
      BY <3>1, <3>2 DEF HeaderInv
    <3> QED BY <3>1, <3>3 DEF RegistryOK
  <2>4. RightHeader'
    BY <2>1 DEF TypeOK, HeaderInv, RightHeader, registry
  <2>5. RegistryOK(backends)' /\ HeldInv'
    BY <2>1 DEF HeaderInv, RegistryOK, HeldInv, HeldReleased, registry, clients
  <2> QED BY <2>2, <2>3, <2>4, <2>5 DEF HeaderInv
<1> QED BY <1>2, <1>3, <1>4 DEF TaskStep

\* One step of anybody.
LEMMA StepInv ==
  ASSUME IInv, [Next]_vars
  PROVE  IInv'
<1>1. CASE UNCHANGED vars
  <2> USE <1>1 DEF IInv, vars, registry, clients, tasks
  <2>1. TypeOK'
    BY DEF TypeOK
  <2>2. HeaderInv'
    BY DEF HeaderInv, RegistryOK, RightHeader
  <2>3. HeldInv'
    BY DEF HeldInv, HeldReleased
  <2> QED BY <2>1, <2>2, <2>3
<1> QED BY <1>1, ClientStepInv, TaskStepInv DEF Next

\* No entry, live or in a snapshot, loses its last location and stays.
LEMMA StepFull ==
  ASSUME IInv, FullInv, [Next]_vars
  PROVE  FullInv'
<1> USE DEF IInv
<1>0. backends \in Registry
  BY DEF TypeOK, Registry
<1>1. CASE UNCHANGED vars
  BY <1>1 DEF FullInv, Full, AssertHolds, vars, registry, tasks, ConfigNonEmpty
<1>2. ASSUME NEW c \in Clients, ClientStep(c) PROVE FullInv'
  <2>1. UNCHANGED tasks
    BY <1>2 DEF ClientStep, Connect, RemoveBackends, AddHeldBackend,
                ReplaceBackend, Leave, Release, Fail
  <2>2. ASSUME NEW g \in Hosts, backends'[g] # Vacant
        PROVE  backends'[g].locations # {}
    <3>1. CASE UNCHANGED backends
      BY <3>1, <2>2 DEF FullInv, Full
    <3>2. ASSUME NEW h \in Hosts, RemoveBackends(c, h)
          PROVE  backends'[g].locations # {}
      BY <3>2, <2>2, <1>0 DEF RemoveBackends, FullInv, Full, Registry
    <3>3. ASSUME NEW h \in Hosts, NEW v \in Versions, NEW id \in Ids,
                 AddHeldBackend(c, h, v, id) \/ ReplaceBackend(c, h, v, id)
          PROVE  backends'[g].locations # {}
      <4>1. CASE g # h
        <5>1. backends'[g] = backends[g]
          BY <3>3, <4>1, <1>0 DEF AddHeldBackend, add_backend, ReplaceBackend,
                                  replace_backend, Registry
        <5> QED BY <5>1, <2>2 DEF FullInv, Full
      <4>2. CASE g = h
        <5>1. id \in backends'[g].locations
          <6>1. CASE AddHeldBackend(c, h, v, id)
            BY <4>2, <6>1, <1>0 DEF AddHeldBackend, add_backend, Registry
          <6>2. CASE ReplaceBackend(c, h, v, id)
            BY <4>2, <6>2, <1>0 DEF ReplaceBackend, replace_backend, Registry
          <6> QED BY <3>3, <6>1, <6>2
        <5> QED BY <5>1
      <4> QED BY <4>1, <4>2
    <3>4. CASE Release(c)
      <4>1. CASE HeldIds(c, g) # {} /\ backends[g] # Vacant
        <5>1. backends'[g] = Without(backends[g], HeldIds(c, g))
          BY <3>4, <4>1 DEF Release
        <5>2. backends[g] \in BackendSet
          BY <1>0, <4>1 DEF Registry
        <5> QED BY <5>1, <5>2, <2>2 DEF Without, BackendSet
      <4>2. CASE ~(HeldIds(c, g) # {} /\ backends[g] # Vacant)
        <5>1. backends'[g] = backends[g]
          BY <3>4, <4>2 DEF Release
        <5> QED BY <5>1, <2>2 DEF FullInv, Full
      <4> QED BY <4>1, <4>2
    <3>5. CASE Connect(c) \/ Leave(c) \/ Fail(c)
      BY <3>1, <3>5 DEF Connect, Leave, Fail, registry
    <3> QED BY <1>2, <3>2, <3>3, <3>4, <3>5 DEF ClientStep
  <2> QED BY <2>1, <2>2 DEF FullInv, Full, AssertHolds, tasks, ConfigNonEmpty
<1>3. ASSUME NEW t \in Tasks, TaskStep(t) PROVE FullInv'
  <2>1. UNCHANGED backends
    BY <1>3 DEF TaskStep, Accept, resolve, End, registry
  <2>2. CASE Accept(t)
    BY <2>1, <2>2 DEF Accept, FullInv, Full, AssertHolds, TypeOK, ConfigNonEmpty
  <2>3. ASSUME NEW h \in Hosts, resolve(t, h) PROVE FullInv'
    <3>1. snapshot' = snapshot /\ task'[t] # "panicked"
          /\ \A u \in Tasks : u # t => task'[u] = task[u]
      BY <2>3 DEF resolve, FullInv, Full, TypeOK
    <3> QED BY <2>1, <3>1 DEF FullInv, Full, AssertHolds, ConfigNonEmpty
  <2>4. CASE End(t)
    BY <2>1, <2>4, NoSnapshotTyped
       DEF End, FullInv, Full, AssertHolds, TypeOK, ConfigNonEmpty
  <2> QED BY <1>3, <2>2, <2>3, <2>4 DEF TaskStep
<1> QED BY <1>1, <1>2, <1>3 DEF Next

-------------------------------------------------------------------------------
(* Theorems *)

\* The registry, the clients and the tasks keep their types.
THEOREM TypeCorrect == Spec => []TypeOK
<1>1. IInv => TypeOK
  BY DEF IInv
<1> QED BY <1>1, InitInv, StepInv, PTL DEF Spec

\* A task writes the header version the location it dials was registered with.
THEOREM HeadersMatch == Spec => []RightHeader
<1>1. IInv => RightHeader
  BY DEF IInv, HeaderInv
<1> QED BY <1>1, InitInv, StepInv, PTL DEF Spec

\* The backends a client held are gone once it has left.
THEOREM HeldGone == Spec => []HeldReleased
<1>1. IInv => HeldReleased
  BY DEF IInv, HeldInv
<1> QED BY <1>1, InitInv, StepInv, PTL DEF Spec

\* With a location for every configured hostname, the assertion on the pruned
\* set holds in every task.
THEOREM AssertionHolds == ConfigNonEmpty /\ Spec => []AssertHolds
<1>1. ConfigNonEmpty /\ Init => FullInv
  BY NoSnapshotTyped DEF Init, FullInv, Full, AssertHolds, ConfigNonEmpty
<1>2. FullInv => AssertHolds
  BY DEF FullInv
<1> QED BY <1>1, <1>2, InitInv, StepInv, StepFull, PTL DEF Spec

-------------------------------------------------------------------------------
(***************************************************************************)
(* ManagementClient, for any stream, any cut of it into reads and any sizes *)
(* of the buffer. The buffer holds the end of what was received, without a *)
(* gap; the queries before it are the handled ones.                        *)
(***************************************************************************)

\* How much of what was received is decoded.
Decoded == received - Len(read_buf)

Query(p) == stream[p].last /\ stream[p].req = "query"

BufInv ==
  /\ stream \in Seq(Token)
  /\ sent \in Nat /\ received \in Nat /\ received <= sent /\ sent <= Len(stream)
  /\ read_buf \in Seq(Nat) /\ Len(read_buf) <= received
  /\ \A i \in 1 .. Len(read_buf) : read_buf[i] = Decoded + i

\* The queries handled are those of the decoded part.
HandledInv ==
  /\ handled \in Seq(Nat)
  /\ \A i \in 1 .. Len(handled) : handled[i] \in 1 .. Decoded /\ Query(handled[i])
  /\ \A i, j \in 1 .. Len(handled) : i < j => handled[i] < handled[j]
  /\ \A p \in 1 .. Decoded : Query(p) => \E i \in 1 .. Len(handled) : handled[i] = p

ClientInv == BufInv /\ HandledInv

-------------------------------------------------------------------------------

LEMMA InvHandled == ClientInv => HandledInOrder
<1> SUFFICES ASSUME ClientInv PROVE HandledInOrder
  OBVIOUS
<1>1. DOMAIN handled = 1 .. Len(handled)
  BY DEF ClientInv, HandledInv
<1>2. Decoded \in Nat /\ Decoded <= received
  BY DEF ClientInv, BufInv, Decoded
<1>3. \A i \in 1 .. Len(handled) : handled[i] \in Queries /\ handled[i] \in 1 .. Decoded
  BY <1>2 DEF ClientInv, HandledInv, BufInv, Query, Queries
<1>4. ASSUME NEW q \in Queries, NEW p \in Range(handled), q < p PROVE q \in Range(handled)
  <2>1. PICK i \in 1 .. Len(handled) : p = handled[i]
    BY <1>1 DEF Range
  <2>2. q \in 1 .. Decoded /\ Query(q)
    BY <1>2, <1>3, <1>4, <2>1 DEF Queries, Query, ClientInv, BufInv
  <2> QED BY <1>1, <2>2 DEF ClientInv, HandledInv, Range
<1> QED BY <1>1, <1>3, <1>4 DEF HandledInOrder, Range, ClientInv, HandledInv

LEMMA ClientInitInv == ClientInit => ClientInv
<1> SUFFICES ASSUME ClientInit PROVE ClientInv
  OBVIOUS
<1>1. stream \in Seq(Token) /\ Len(stream) \in Nat
  BY ClientAssumption DEF ClientInit
<1>2. read_buf \in Seq(Nat) /\ Len(read_buf) = 0 /\ handled \in Seq(Nat) /\ Len(handled) = 0
  BY DEF ClientInit
<1>3. Decoded = 0
  <2>1. received = 0
    BY DEF ClientInit
  <2> QED BY <1>2, <2>1 DEF Decoded
<1> QED BY <1>1, <1>2, <1>3 DEF ClientInit, ClientInv, BufInv, HandledInv

\* The first newline is there if one is.
LEMMA EolIs ==
  ASSUME NEW buf \in Seq(Nat), HasLine(buf)
  PROVE  /\ Eol(buf) \in 1 .. Len(buf) /\ stream[buf[Eol(buf)]].last
         /\ \A j \in 1 .. Eol(buf) - 1 : ~stream[buf[j]].last
<1> DEFINE S == {i \in 1 .. Len(buf) : stream[buf[i]].last}
           Less == {ss \in Nat \X Nat : ss[1] < ss[2]}
<1>1. IsWellFoundedOn(Less, Nat)
  BY NatLessThanWellFounded, Zenon DEF OpToRel
<1>2. S \in SUBSET Nat /\ S # {}
  BY DEF HasLine
<1> HIDE DEF Less
<1>3. PICK n \in S : \A m \in S : <<m, n>> \notin Less
  <2> HIDE DEF S
  <2> QED BY <1>1, <1>2, WFMin, Zenon
<1>4. ASSUME NEW j \in 1 .. n - 1 PROVE ~stream[buf[j]].last
  <2>1. j \in Nat /\ n \in Nat /\ j < n /\ j \in 1 .. Len(buf)
    BY <1>3
  <2>2. <<j, n>> \in Less
    BY <2>1 DEF Less
  <2> QED BY <1>3, <2>1, <2>2
<1>5. DOMAIN buf = 1 .. Len(buf)
  OBVIOUS
<1>6. n \in DOMAIN buf /\ stream[buf[n]].last /\ \A j \in 1 .. n - 1 : ~stream[buf[j]].last
  BY <1>3, <1>4, <1>5
<1> HIDE DEF S
<1>7. /\ Eol(buf) \in DOMAIN buf /\ stream[buf[Eol(buf)]].last
      /\ \A j \in 1 .. Eol(buf) - 1 : ~stream[buf[j]].last
  BY <1>6, Zenon DEF Eol
<1> QED BY <1>5, <1>7

\* split_to(eol + 1) leaves the end of the buffer.
LEMMA RestIs ==
  ASSUME NEW buf \in Seq(Nat), HasLine(buf)
  PROVE  /\ Rest(buf) \in Seq(Nat) /\ Len(Rest(buf)) = Len(buf) - Eol(buf)
         /\ \A i \in 1 .. Len(buf) - Eol(buf) : Rest(buf)[i] = buf[Eol(buf) + i]
<1> DEFINE e == Eol(buf)
           m == e + 1
<1>1. e \in 1 .. Len(buf) /\ Len(buf) \in Nat
  BY EolIs
<1>2. Rest(buf) = SubSeq(buf, m, Len(buf))
  BY DEF Rest
<1> HIDE DEF e
<1>3. m \in 1 .. Len(buf) + 1 /\ Len(buf) - m + 1 = Len(buf) - e
  BY <1>1
<1>4. \A i \in m .. Len(buf) : buf[i] \in Nat
  BY <1>1
<1> HIDE DEF m
<1>5. /\ Rest(buf) \in Seq(Nat) /\ Len(Rest(buf)) = Len(buf) - e
      /\ \A i \in 1 .. Len(buf) - e : Rest(buf)[i] = buf[m + i - 1]
  BY <1>1, <1>2, <1>3, <1>4
<1>6. \A i \in 1 .. Len(buf) - e : m + i - 1 = e + i
  BY <1>1 DEF m
<1> QED BY <1>5, <1>6 DEF e

\* Decoding what was left over and what was read now.
LEMMA DecodeInv ==
  ASSUME ClientInv, NEW buf \in Seq(Nat), NEW run, Decode(buf, run),
         received' \in Nat, Len(buf) <= received', received' <= sent,
         received' - Len(buf) = Decoded,
         \A i \in 1 .. Len(buf) : buf[i] = Decoded + i,
         UNCHANGED <<stream, sent>>
  PROVE  ClientInv'
<1> DEFINE n == Len(buf)
           d == Decoded
<1>1. n \in Nat /\ d \in Nat /\ received' = d + n /\ Len(stream) \in Nat
  <2>1. n \in Nat /\ Len(stream) \in Nat /\ received' \in Nat /\ received' - n = d
    BY DEF ClientInv, BufInv
  <2>2. d \in Nat
    <3>1. received \in Nat /\ Len(read_buf) \in Nat /\ Len(read_buf) <= received
      BY DEF ClientInv, BufInv
    <3> QED BY <3>1 DEF Decoded
  <2>3. received' = d + n
    <3> DEFINE x == received'
    <3>1. x \in Nat /\ n \in Nat /\ d \in Nat /\ x - n = d
      BY <2>1, <2>2
    <3> HIDE DEF d, n, x
    <3>2. x = d + n
      BY <3>1
    <3> QED BY <3>2 DEF x
  <2> QED BY <2>1, <2>2, <2>3
<1>2. \A p : Query(p)' <=> Query(p)
  BY DEF Query
<1>3. CASE ~HasLine(buf)
  <2>1. read_buf' = buf /\ handled' = handled
    BY <1>3 DEF Decode
  <2>2. Decoded' = Decoded
    BY <2>1 DEF Decoded
  <2>3. BufInv'
    BY <2>1, <2>2 DEF ClientInv, BufInv
  <2>4. HandledInv'
    BY <1>2, <2>1, <2>2 DEF ClientInv, HandledInv
  <2> QED BY <2>3, <2>4 DEF ClientInv
<1>4. CASE HasLine(buf)
  <2> DEFINE e == Eol(buf)
             place == buf[e]
  <2>1. /\ e \in 1 .. n /\ stream[place].last /\ \A j \in 1 .. e - 1 : ~stream[buf[j]].last
    BY <1>4, EolIs
  <2>2. /\ read_buf' = Rest(buf)
        /\ handled' = IF stream[place].req = "query" THEN Append(handled, place) ELSE handled
    BY <1>4 DEF Decode
  <2>3. /\ read_buf' \in Seq(Nat) /\ Len(read_buf') = n - e
        /\ \A i \in 1 .. n - e : read_buf'[i] = buf[e + i]
    BY <1>4, <2>2, RestIs
  <2> HIDE DEF e, n
  <2>4. place = d + e
    BY <2>1 DEF n
  <2> HIDE DEF place
  <2>5. Decoded' = d + e
    <3>1. Decoded' = received' - Len(read_buf')
      BY DEF Decoded
    <3> HIDE DEF d
    <3> QED BY <1>1, <2>1, <2>3, <3>1
  <2>6. BufInv'
    <3>1. \A i \in 1 .. n - e : read_buf'[i] = (d + e) + i
      <4> SUFFICES ASSUME NEW i \in 1 .. n - e PROVE read_buf'[i] = (d + e) + i
        OBVIOUS
      <4>1. e + i \in 1 .. n
        BY <1>1, <2>1
      <4>2. buf[e + i] = d + (e + i)
        BY <4>1 DEF n
      <4> HIDE DEF d
      <4> QED BY <1>1, <2>1, <2>3, <4>2
    <3>2. Len(read_buf') <= received'
      <4> HIDE DEF d
      <4> QED BY <1>1, <2>1, <2>3
    <3>3. stream' \in Seq(Token) /\ sent' \in Nat /\ received' <= sent' /\ sent' <= Len(stream')
      BY DEF ClientInv, BufInv
    <3> HIDE DEF d
    <3> QED BY <2>3, <2>5, <3>1, <3>2, <3>3 DEF BufInv
  <2>7. \A p \in 1 .. d + e : Query(p) => p \in 1 .. d \/ p = place
    <3> SUFFICES ASSUME NEW p \in 1 .. d + e, p \notin 1 .. d, p # place PROVE ~Query(p)
      OBVIOUS
    <3> DEFINE j == p - d
    <3>1. j \in 1 .. e - 1 /\ j \in 1 .. n /\ d + j = p
      <4> HIDE DEF d
      <4> QED BY <1>1, <2>1, <2>4
    <3> HIDE DEF j
    <3>2. buf[j] = p
      BY <3>1 DEF n
    <3>3. ~stream[buf[j]].last
      BY <2>1, <3>1
    <3> QED BY <3>2, <3>3 DEF Query
  <2>8. /\ handled \in Seq(Nat) /\ Len(handled) \in Nat
        /\ \A i \in 1 .. Len(handled) : handled[i] \in 1 .. d /\ Query(handled[i])
        /\ \A i, j \in 1 .. Len(handled) : i < j => handled[i] < handled[j]
        /\ \A p \in 1 .. d : Query(p) => \E i \in 1 .. Len(handled) : handled[i] = p
    BY DEF ClientInv, HandledInv
  <2> HIDE DEF d
  <2>9. place \in Nat /\ place \in 1 .. d + e /\ \A p \in 1 .. d : p < place /\ p \in 1 .. d + e
    BY <1>1, <2>1, <2>4
  <2>10. CASE Query(place)
    <3> DEFINE h == Append(handled, place)
               m == Len(handled)
    <3>1. /\ h \in Seq(Nat) /\ Len(h) = m + 1 /\ h[m + 1] = place
          /\ \A i \in 1 .. m : h[i] = handled[i]
      <4>1. handled \in Seq(Nat) /\ place \in Nat
        BY <2>8, <2>9
      <4> HIDE DEF place
      <4> QED BY <4>1, AppendProperties
    <3>2. handled' = h
      BY <2>2, <2>10 DEF Query
    <3>3. m \in Nat
      BY <2>8
    <3> HIDE DEF h, m
    <3>4. \A i \in 1 .. m + 1 : i \in 1 .. m \/ i = m + 1
      BY <3>3
    <3>5. \A i \in 1 .. m + 1 : h[i] \in 1 .. d + e /\ Query(h[i])
      BY <2>8, <2>9, <2>10, <3>1, <3>4 DEF m
    <3>6. ASSUME NEW i \in 1 .. m + 1, NEW j \in 1 .. m + 1, i < j PROVE h[i] < h[j]
      <4>1. i \in 1 .. m
        BY <3>3, <3>6
      <4>2. CASE j \in 1 .. m
        BY <2>8, <3>1, <3>6, <4>1, <4>2 DEF m
      <4>3. CASE j = m + 1
        BY <2>8, <2>9, <3>1, <4>1, <4>3 DEF m
      <4> QED BY <3>4, <4>2, <4>3
    <3>7. ASSUME NEW p \in 1 .. d + e, Query(p) PROVE \E i \in 1 .. m + 1 : h[i] = p
      <4>1. CASE p = place
        <5>1. m + 1 \in 1 .. m + 1
          BY <3>3
        <5> QED BY <3>1, <4>1, <5>1
      <4>2. CASE p \in 1 .. d
        <5>1. PICK i \in 1 .. m : handled[i] = p
          BY <2>8, <3>7, <4>2 DEF m
        <5>2. i \in 1 .. m + 1
          BY <3>3
        <5> QED BY <3>1, <5>1, <5>2
      <4> QED BY <2>7, <3>7, <4>1, <4>2
    <3>8. HandledInv'
      BY <1>2, <2>5, <3>1, <3>2, <3>5, <3>6, <3>7 DEF HandledInv
    <3> QED BY <2>6, <3>8 DEF ClientInv
  <2>11. CASE ~Query(place)
    <3>1. handled' = handled
      BY <2>1, <2>2, <2>11 DEF Query
    <3>2. HandledInv'
      BY <1>2, <2>5, <2>7, <2>8, <2>9, <2>11, <3>1 DEF HandledInv
    <3> QED BY <2>6, <3>2 DEF ClientInv
  <2> QED BY <2>10, <2>11
<1> QED BY <1>3, <1>4

\* A step of the client, a write, or an end.
LEMMA NothingDecoded ==
  ASSUME ClientInv, UNCHANGED <<stream, received, read_buf, handled>>,
         sent' \in Nat, sent <= sent', sent' <= Len(stream)
  PROVE  ClientInv'
<1>1. Decoded' = Decoded /\ \A p : Query(p)' <=> Query(p)
  BY DEF Decoded, Query
<1>2. BufInv'
  BY <1>1 DEF ClientInv, BufInv
<1>3. HandledInv'
  BY <1>1 DEF ClientInv, HandledInv
<1> QED BY <1>2, <1>3 DEF ClientInv

LEMMA ClientNextInv == ClientInv /\ [ClientNext]_clientVars => ClientInv'
<1> SUFFICES ASSUME ClientInv, [ClientNext]_clientVars PROVE ClientInv'
  OBVIOUS
<1>0. /\ stream \in Seq(Token) /\ sent \in Nat /\ Len(stream) \in Nat /\ sent <= Len(stream)
      /\ sent <= sent /\ received \in Nat /\ received <= sent
  BY DEF ClientInv, BufInv
<1>1. CASE UNCHANGED clientVars
  BY <1>0, <1>1, NothingDecoded DEF clientVars, client
<1>2. ASSUME NEW n \in 1 .. Len(stream), Send(n) PROVE ClientInv'
  <2>1. /\ UNCHANGED <<stream, received, read_buf, handled>>
        /\ sent' = sent + n /\ sent + n <= Len(stream)
    BY <1>2 DEF Send
  <2>2. sent' \in Nat /\ sent <= sent' /\ sent' <= Len(stream)
    BY <1>0, <2>1
  <2> QED BY <2>1, <2>2, NothingDecoded
<1>3. CASE Close
  BY <1>0, <1>3, NothingDecoded DEF Close
<1>4. ASSUME NEW k \in 1 .. Reply, Write(k) PROVE ClientInv'
  BY <1>0, <1>4, NothingDecoded DEF Write, client
<1>5. ASSUME NEW n \in 1 .. Len(stream), Read(n) PROVE ClientInv'
  <2> DEFINE new == [i \in 1 .. n |-> received + i]
             buf == read_buf \o new
             m == Len(read_buf)
  <2>1. /\ received + n <= sent /\ received' = received + n /\ Decode(buf, TRUE)
        /\ UNCHANGED <<stream, sent>>
    BY <1>5 DEF Read, client
  <2>2. new \in Seq(Nat) /\ Len(new) = n /\ \A i \in 1 .. n : new[i] = received + i
    BY <1>0
  <2>3. /\ read_buf \in Seq(Nat) /\ m \in Nat /\ m <= received
        /\ \A i \in 1 .. m : read_buf[i] = Decoded + i
    BY DEF ClientInv, BufInv
  <2> HIDE DEF new
  <2>4. /\ buf \in Seq(Nat) /\ Len(buf) = m + n
        /\ \A i \in 1 .. m : buf[i] = read_buf[i]
        /\ \A i \in m + 1 .. m + n : buf[i] = new[i - m]
    <3>1. /\ buf \in Seq(Nat) /\ Len(buf) = m + Len(new)
          /\ \A i \in 1 .. m + Len(new) :
               buf[i] = IF i <= m THEN read_buf[i] ELSE new[i - m]
      BY <2>2, <2>3, ConcatProperties
    <3> HIDE DEF buf, m
    <3> QED BY <2>2, <2>3, <3>1
  <2> DEFINE d == Decoded
  <2>5. d = received - m
    BY DEF Decoded
  <2> HIDE DEF buf, m, d
  <2>6. \A i \in 1 .. m + n : buf[i] = d + i
    <3> SUFFICES ASSUME NEW i \in 1 .. m + n PROVE buf[i] = d + i
      OBVIOUS
    <3>1. CASE i \in 1 .. m
      BY <2>3, <2>4, <3>1 DEF d
    <3>2. CASE i \in m + 1 .. m + n
      <4>1. i - m \in 1 .. n /\ received + (i - m) = d + i
        BY <1>0, <2>3, <2>5, <3>2
      <4> QED BY <2>2, <2>4, <3>2, <4>1
    <3> QED BY <2>3, <3>1, <3>2
  <2>7. /\ received' \in Nat /\ m + n <= received' /\ received' <= sent
        /\ received' - (m + n) = d
    BY <1>0, <2>1, <2>3, <2>5
  <2>8. /\ Len(buf) <= received' /\ received' - Len(buf) = Decoded
        /\ \A i \in 1 .. Len(buf) : buf[i] = Decoded + i
    BY <2>4, <2>6, <2>7 DEF d
  <2> QED BY <2>1, <2>4, <2>7, <2>8, DecodeInv
<1>6. CASE ReadEof
  <2>1. Decode(read_buf, FALSE) /\ UNCHANGED <<stream, sent, received>>
    BY <1>6 DEF ReadEof, client
  <2>2. /\ read_buf \in Seq(Nat) /\ Len(read_buf) <= received'
        /\ received' - Len(read_buf) = Decoded /\ received' \in Nat /\ received' <= sent
        /\ \A i \in 1 .. Len(read_buf) : read_buf[i] = Decoded + i
    BY <2>1 DEF ClientInv, BufInv, Decoded
  <2> QED BY <2>1, <2>2, DecodeInv
<1>7. CASE Stop
  BY <1>0, <1>7, NothingDecoded DEF Stop, client
<1>8. CASE ClientFails
  BY <1>0, <1>8, NothingDecoded DEF ClientFails, client
<1> QED BY <1>1, <1>2, <1>3, <1>4, <1>5, <1>6, <1>7, <1>8 DEF ClientNext, Server

\* For any stream and any cut of it into reads: the loop handles the queries of
\* a client in the order they were sent, each once, and skips none.
THEOREM QueriesInOrder == ClientSpec => []HandledInOrder
BY ClientInitInv, ClientNextInv, InvHandled, PTL DEF ClientSpec

===============================================================================
