------------------------------- MODULE Backends -------------------------------
(***************************************************************************)
(* The multiplexor's backend registry (resolver.rs), the management        *)
(* clients that change it (mgmt_proto.rs) and the connection tasks that    *)
(* resolve a hostname in it (sni2.rs).                                     *)
(*                                                                         *)
(* The registry maps a hostname to a set of locations that share one       *)
(* PROXY header version. It is copied on write: a connection task takes a  *)
(* snapshot when it starts, before it waits for the client's hello, and    *)
(* resolves in that. A management client may hold backends; when it leaves *)
(* they are removed.                                                       *)
(*                                                                         *)
(* A location is its id: a fresh Ksuid. One step is one critical section   *)
(* of the registry's mutex. The flag haproxy_header_allow_passthrough,     *)
(* which only the configuration sets, and the order of a set are left out. *)
(***************************************************************************)
EXTENDS Naturals

CONSTANTS
  Hosts,       \* hostnames
  Ids,         \* location ids to draw from
  Clients,     \* management connections
  Tasks,       \* connection tasks
  Config       \* the registry the configuration file sets up

\* haproxy_header_version, an Option of a version.
Versions == {"none", "v1", "v2"}

BackendSet == [version : Versions, locations : SUBSET Ids]

\* What a hostname that is not registered has.
Vacant == [version |-> "vacant", locations |-> {}]

\* The snapshot of a task that has none.
NoSnapshot == [h \in Hosts |-> Vacant]

\* Every location of the configuration gets a Ksuid of its own.
ASSUME ConfigAssumption ==
  /\ Config \in [Hosts -> BackendSet \cup {Vacant}]
  /\ \A g, h \in Hosts :
       g # h => Config[g].locations \cap Config[h].locations = {}

VARIABLES
  backends,    \* the registry
  made,        \* ghost: for which host and version each id was made
  conn,        \* the state of each management connection
  held,        \* held_backends of each management connection
  task,        \* the state of each connection task
  snapshot,    \* the registry as the task found it
  choice       \* what the task resolved

registry == <<backends, made>>
clients == <<conn, held>>
tasks == <<task, snapshot, choice>>
vars == <<registry, clients, tasks>>

\* An id not made yet.
Unmade == [host |-> "none", version |-> "vacant"]

NoChoice == [host |-> "none", version |-> "vacant", ids |-> {}]

ConnState == {"new", "open", "leaving", "quit", "failed"}

TaskState == {"idle", "accepted", "dialing", "refused", "panicked"}

TypeOK ==
  /\ backends \in [Hosts -> BackendSet \cup {Vacant}]
  /\ made \in [Ids -> [host : Hosts, version : Versions] \cup {Unmade}]
  /\ conn \in [Clients -> ConnState]
  /\ held \in [Clients -> SUBSET (Hosts \X Ids)]
  /\ task \in [Tasks -> TaskState]
  /\ snapshot \in [Tasks -> [Hosts -> BackendSet \cup {Vacant}]]
  /\ choice \in [Tasks -> [host : Hosts, version : Versions, ids : SUBSET Ids]
                            \cup {NoChoice}]

\* The ids of the configuration are made when it is read.
Init ==
  /\ backends = Config
  /\ made = [id \in Ids |->
               IF \E h \in Hosts : id \in Config[h].locations
               THEN LET h == CHOOSE h \in Hosts : id \in Config[h].locations
                    IN  [host |-> h, version |-> Config[h].version]
               ELSE Unmade]
  /\ conn = [c \in Clients |-> "new"]
  /\ held = [c \in Clients |-> {}]
  /\ task = [t \in Tasks |-> "idle"]
  /\ snapshot = [t \in Tasks |-> NoSnapshot]
  /\ choice = [t \in Tasks |-> NoChoice]

-------------------------------------------------------------------------------
(* BackendManager *)

\* Ksuid::generate for a location of this host and version.
Generate(id, h, v) ==
  /\ made[id] = Unmade
  /\ made' = [made EXCEPT ![id] = [host |-> h, version |-> v]]

\* add_backend refuses a version that differs from that of the other backends.
Accepts(h, v) == backends[h] = Vacant \/ backends[h].version = v

\* add_backend, the occupied and the vacant entry.
add_backend(h, v, id) ==
  backends' = [backends EXCEPT ![h] =
                 [version |-> v, locations |-> @.locations \cup {id}]]

\* Mutant of replace_backend: the old locations are not cleared.
ReplaceKeeps(h, v, id) ==
  backends' = [backends EXCEPT ![h] =
                 [version |-> v, locations |-> @.locations \cup {id}]]

replace_backend(h, v, id) ==
  backends' = [backends EXCEPT ![h] = [version |-> v, locations |-> {id}]]

\* Mutant of Without: an entry that has become empty is kept.
WithoutKeepsEmpty(bset, ids) ==
  [bset EXCEPT !.locations = @ \ ids]

\* remove_backend for all of the ids, one after the other: the entry goes with
\* its last location.
Without(bset, ids) ==
  IF bset.locations \subseteq ids THEN Vacant
  ELSE [bset EXCEPT !.locations = @ \ ids]

-------------------------------------------------------------------------------
(* Management clients *)

Connect(c) ==
  /\ conn[c] = "new"
  /\ conn' = [conn EXCEPT ![c] = "open"]
  /\ UNCHANGED <<registry, held, tasks>>

\* A refused add answers an error and changes nothing (the id it drew is lost).
AddHeldBackend(c, h, v, id) ==
  /\ conn[c] = "open"
  /\ Accepts(h, v)
  /\ Generate(id, h, v)
  /\ add_backend(h, v, id)
  /\ held' = [held EXCEPT ![c] = @ \cup {<<h, id>>}]
  /\ UNCHANGED <<conn, tasks>>

ReplaceBackend(c, h, v, id) ==
  /\ conn[c] = "open"
  /\ Generate(id, h, v)
  /\ replace_backend(h, v, id)
  /\ UNCHANGED <<clients, tasks>>

RemoveBackends(c, h) ==
  /\ conn[c] = "open"
  /\ backends' = [backends EXCEPT ![h] = Vacant]
  /\ UNCHANGED <<made, clients, tasks>>

\* The client quits, closes its end, or sends an incomplete line.
Leave(c) ==
  /\ conn[c] = "open"
  /\ conn' = [conn EXCEPT ![c] = "leaving"]
  /\ UNCHANGED <<registry, held, tasks>>

\* Mutant of HeldIds: only one of the held backends is released.
HeldIdsOne(c, h) ==
  LET ids == {id \in Ids : <<h, id>> \in held[c]}
  IN  IF ids = {} THEN {} ELSE {CHOOSE id \in ids : TRUE}

HeldIds(c, h) == {id \in Ids : <<h, id>> \in held[c]}

\* After its loop, the client's task removes the held backends under one lock.
Release(c) ==
  /\ conn[c] = "leaving"
  /\ backends' = [h \in Hosts |->
                    IF HeldIds(c, h) # {} /\ backends[h] # Vacant
                    THEN Without(backends[h], HeldIds(c, h))
                    ELSE backends[h]]
  /\ conn' = [conn EXCEPT ![c] = "quit"]
  /\ UNCHANGED <<made, held, tasks>>

\* A read or write error, or a request that does not parse, returns from the
\* middle of the loop.
Fail(c) ==
  /\ conn[c] = "open"
  /\ conn' = [conn EXCEPT ![c] = "failed"]
  /\ UNCHANGED <<registry, held, tasks>>

-------------------------------------------------------------------------------
(* Connection tasks *)

\* The helper clones the registry before it reads from the client.
Accept(t) ==
  /\ task[t] = "idle"
  /\ task' = [task EXCEPT ![t] = "accepted"]
  /\ snapshot' = [snapshot EXCEPT ![t] = backends]
  /\ UNCHANGED <<choice, registry, clients>>

\* backend_set_prune picks one location, and the helper asserts that there is
\* one. The panic of a task ends the process.
resolve(t, h) ==
  /\ task[t] = "accepted"
  /\ IF snapshot[t][h] = Vacant
     THEN task' = [task EXCEPT ![t] = "refused"] /\ UNCHANGED choice
     ELSE IF snapshot[t][h].locations = {}
     THEN task' = [task EXCEPT ![t] = "panicked"] /\ UNCHANGED choice
     ELSE \E id \in snapshot[t][h].locations :
            /\ task' = [task EXCEPT ![t] = "dialing"]
            /\ choice' = [choice EXCEPT ![t] =
                            [host |-> h, version |-> snapshot[t][h].version,
                             ids |-> {id}]]
  /\ UNCHANGED <<snapshot, registry, clients>>

\* The connection ends; the next one will use the slot.
End(t) ==
  /\ task[t] \in {"dialing", "refused"}
  /\ task' = [task EXCEPT ![t] = "idle"]
  /\ choice' = [choice EXCEPT ![t] = NoChoice]
  /\ snapshot' = [snapshot EXCEPT ![t] = NoSnapshot]
  /\ UNCHANGED <<registry, clients>>

-------------------------------------------------------------------------------

ClientStep(c) ==
  \/ Connect(c)
  \/ \E h \in Hosts : RemoveBackends(c, h)
  \/ \E h \in Hosts, v \in Versions, id \in Ids :
       AddHeldBackend(c, h, v, id) \/ ReplaceBackend(c, h, v, id)
  \/ Leave(c)
  \/ Release(c)
  \/ Fail(c)

TaskStep(t) ==
  \/ Accept(t)
  \/ \E h \in Hosts : resolve(t, h)
  \/ End(t)

Next ==
  \/ \E c \in Clients : ClientStep(c)
  \/ \E t \in Tasks : TaskStep(t)

Spec == Init /\ [][Next]_vars

-------------------------------------------------------------------------------
(* Properties *)

\* A configuration in which every hostname has a location.
ConfigNonEmpty ==
  \A h \in Hosts : Config[h] # Vacant => Config[h].locations # {}

\* assert_eq!(bset.locations.len(), 1): no sequence of management requests,
\* departures and resolutions leaves a registered hostname without a location,
\* so the assertion never fails in a connection task.
AssertHolds ==
  \A t \in Tasks : task[t] # "panicked"

\* A task that dials a location writes the PROXY header version that location
\* was registered with, even when the registry changed in the meantime.
RightHeader ==
  \A t \in Tasks : task[t] = "dialing" =>
    \A id \in choice[t].ids :
      made[id] = [host |-> choice[t].host, version |-> choice[t].version]

\* "destroying held bindings...": when a management client has left, none of
\* the backends it held is registered any more, whatever others did to them.
HeldReleased ==
  \A c \in Clients : conn[c] = "quit" =>
    \A b \in held[c] : b[2] \notin backends[b[1]].locations

===============================================================================
