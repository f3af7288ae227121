-------------------------------- MODULE Launch --------------------------------
(***************************************************************************)
(* Launching a deployment: the linker reads the manifest that Release      *)
(* presses, opens every component's executable, binds the public services, *)
(* connects the components that need one another with socket pairs         *)
(* (reify_service_connections of cmdlet/run.rs and start_daemon/mod.rs),   *)
(* and forks one child per component. A child inherits every descriptor    *)
(* open in the linker at that moment; it closes those it was not given     *)
(* (relabel_file_descriptors), writes its configuration to a temporary     *)
(* file and executes the component.                                        *)
(*                                                                         *)
(* A descriptor number stands for the object behind it as well: the linker *)
(* opens everything before its first fork, and closes a number only after  *)
(* its last open. The kernel (lowest free number, copies at fork,          *)
(* close-on-exec) is modelled from how the code uses it.                   *)
(***************************************************************************)
EXTENDS Release

CONSTANTS
  Containers,  \* the packages whose image_type was edited to be a container
  MapLen,      \* descriptors relabel_file_descriptors looks at: 2048
  Inherited,   \* how many descriptors the linker may hold from the start
  MaxFd        \* the highest descriptor number: RLIMIT_NOFILE - 1

ASSUME FdAssumption ==
  MapLen \in Nat /\ MapLen > 3 /\ MaxFd \in Nat /\ Inherited \subseteq 3 .. MaxFd

VARIABLES
  frontend,    \* "run", or "daemon": start_daemon, which downloads executables
  open,        \* descriptors open in the linker
  fetched,     \* daemon: component -> descriptor of its download
  instances,   \* one per component: ExecSomething
  bound,       \* how many public services are bound
  connected,   \* how many required services of each instance are connected
  child        \* the processes

launchVars == <<frontend, open, fetched, instances, bound, connected, child>>
vars == <<releaseVars, launchVars>>

Std == {0, 1, 2}

Unused(fds) == (0 .. MaxFd) \ fds

Free(fds) == Min(Unused(fds))

NoChild == [at |-> "unforked", open |-> {}, config |-> 0]

Init ==
  /\ ReleaseInit
  /\ frontend \in {"run", "daemon"}
  /\ \E n \in Inherited : open = 0 .. (n - 1)
  /\ fetched = <<>>
  /\ instances = <<>>
  /\ bound = 0
  /\ connected = <<>>
  /\ child = <<>>

\* An error is unwrapped in main: the linker ends, and its descriptors close.
Panic(why) == Giveup(why) /\ open' = {}

Components == manifest.components

Key(i) == <<Components[i].pkg, Components[i].version>>

-------------------------------------------------------------------------------
(* start_daemon: download_components *)

\* The downloads run concurrently; the first error ends them all. A download
\* is kept if its sha256 is the one of the manifest; an override is a local
\* file, and the only way to get a container here.
Fetch(i) ==
  /\ phase = "load"
  /\ frontend = "daemon"
  /\ i \in DOMAIN Components \ DOMAIN fetched
  /\ \/ /\ Unused(open) # {}
        /\ fetched' = [k \in DOMAIN fetched \cup {i} |->
                         IF k = i THEN Free(open) ELSE fetched[k]]
        /\ open' = open \cup {Free(open)}
        /\ UNCHANGED <<phase, failure>>
     \/ Panic("download") /\ UNCHANGED fetched
  /\ UNCHANGED <<template, registry, unresolved, resolved, manifest, frontend,
                 instances, bound, connected, child>>

\* The downloads are collected by package and version: of those with the same
\* key the last stays.
Collect ==
  /\ phase = "load"
  /\ frontend = "daemon" => DOMAIN fetched = DOMAIN Components
  /\ phase' = "instantiate"
  /\ LET kept == {i \in DOMAIN fetched :
                    \A j \in DOMAIN fetched : Key(j) = Key(i) => j <= i}
     IN  /\ fetched' = [i \in kept |-> fetched[i]]
         /\ open' = open \ {fetched[i] : i \in DOMAIN fetched \ kept}
  /\ UNCHANGED <<template, registry, failure, unresolved, resolved, manifest,
                 frontend, instances, bound, connected, child>>

-------------------------------------------------------------------------------
(* reify_service_connections *)

\* The instance of component i, with the executable at descriptor fd.
NewInstance(i, fd) ==
  [pkg |-> Components[i].pkg, artifact |-> fd, files |-> {}]

\* The next component. The daemon takes its executable out of the downloads;
\* run opens it. The executable, the user or the group may not be there.
Instantiate ==
  /\ phase = "instantiate"
  /\ LET i == Len(instances) + 1
         mine == {j \in DOMAIN fetched : Key(j) = Key(i)}
     IN  \/ /\ i > Len(Components)
            /\ phase' = "bind"
            /\ UNCHANGED <<failure, open, fetched, instances>>
         \/ /\ i <= Len(Components)
            /\ frontend = "run"
            /\ Unused(open) # {}
            /\ instances' = Append(instances, NewInstance(i, Free(open)))
            /\ open' = open \cup {Free(open)}
            /\ UNCHANGED <<phase, failure, fetched>>
         \/ /\ i <= Len(Components)
            /\ frontend = "daemon"
            /\ \E j \in mine :
                 /\ instances' = Append(instances, NewInstance(i, fetched[j]))
                 /\ fetched' = [k \in DOMAIN fetched \ {j} |-> fetched[k]]
            /\ UNCHANGED <<phase, failure, open>>
         \/ /\ i <= Len(Components)
            /\ Panic(IF frontend = "daemon" /\ mine = {} THEN "internal" ELSE "component")
            /\ UNCHANGED <<instances, fetched>>
  /\ UNCHANGED <<template, registry, unresolved, resolved, manifest, frontend,
                 bound, connected, child>>

\* Mutant of InstanceOf: the package is not looked at.
InstanceOfAny(pkg) == {i \in DOMAIN instances : i = 1}

\* instance_by_package: a later instance of a package replaces an earlier one.
InstanceOf(pkg) ==
  LET all == {i \in DOMAIN instances : instances[i].pkg = pkg}
  IN  {i \in all : i = Max(all)}

File(fd, direction, service, remote) ==
  [fd |-> fd, direction |-> direction, service |-> service, remote |-> remote,
   cloexec |-> FALSE]

\* The files of an instance are kept without their order.
WithFile(insts, i, file) == [insts EXCEPT ![i].files = @ \cup {file}]

\* The public services, in order; a socket goes to its package's instance.
BindPublic ==
  /\ phase = "bind"
  /\ LET n == bound + 1
     IN  \/ /\ n > Len(manifest.public)
            /\ phase' = "connect"
            /\ connected' = [i \in DOMAIN instances |-> 0]
            /\ UNCHANGED <<failure, open, instances, bound>>
         \/ /\ n <= Len(manifest.public)
            /\ LET s == manifest.public[n]
               IN  \/ \E i \in InstanceOf(s.pkg) :
                        /\ Unused(open) # {}
                        /\ instances' = WithFile(instances, i,
                             File(Free(open), "ServingListening", s.service, 0))
                        /\ open' = open \cup {Free(open)}
                        /\ bound' = n
                        /\ UNCHANGED <<phase, failure>>
                   \/ /\ Panic(IF InstanceOf(s.pkg) = {} THEN "internal" ELSE "bind")
                      /\ UNCHANGED <<instances, bound>>
            /\ UNCHANGED connected
  /\ UNCHANGED <<template, registry, unresolved, resolved, manifest, frontend,
                 fetched, child>>

\* Mutant of Preconnected: the provider is told of itself, not of the consumer.
PreconnectedSelf(i, j, service) ==
  LET a == Free(open)
      b == Free(open \cup {a})
  IN  /\ Unused(open) # {} /\ Unused(open \cup {a}) # {}
      /\ open' = open \cup {a, b}
      /\ instances' = WithFile(WithFile(instances, i, File(a, "Consuming", service, j)),
                              j, File(b, "ServingConnected", service, j))

\* setup_preconnected_service_connection: a socket pair between the consumer i
\* and the provider j.
Preconnected(i, j, service) ==
  LET a == Free(open)
      b == Free(open \cup {a})
  IN  /\ Unused(open) # {} /\ Unused(open \cup {a}) # {}
      /\ open' = open \cup {a, b}
      /\ instances' = WithFile(WithFile(instances, i, File(a, "Consuming", service, j)),
                              j, File(b, "ServingConnected", service, i))

\* setup_named_socket_service_connection: a container gets the path of a socket
\* that j listens on. The standard library opens it close-on-exec.
NamedSocket(i, j, service) ==
  /\ Unused(open) # {}
  /\ open' = open \cup {Free(open)}
  /\ instances' = WithFile(instances, j,
       [File(Free(open), "ServingListening", service, i) EXCEPT !.cloexec = TRUE])

\* The next required service of an instance. The instances are taken in any
\* order, and one is finished before the next.
Connect(i) ==
  /\ phase = "connect"
  /\ connected[i] < Len(Components[i].requires)
  /\ \A k \in DOMAIN instances \ {i} : connected[k] \in {0, Len(Components[k].requires)}
  /\ LET need == Components[i].requires[connected[i] + 1]
     IN  \/ /\ \E j \in InstanceOf(need.pkg) :
                 IF frontend = "run" /\ instances[i].pkg \in Containers
                 THEN NamedSocket(i, j, need.service)
                 ELSE Preconnected(i, j, need.service)
            /\ connected' = [connected EXCEPT ![i] = @ + 1]
            /\ UNCHANGED <<phase, failure>>
         \/ /\ Panic(IF InstanceOf(need.pkg) = {} THEN "internal" ELSE "socket")
            /\ UNCHANGED <<instances, connected>>
  /\ UNCHANGED <<template, registry, unresolved, resolved, manifest, frontend,
                 fetched, bound, child>>

Reified ==
  /\ phase = "connect"
  /\ \A i \in DOMAIN instances : connected[i] = Len(Components[i].requires)
  /\ phase' = "spawn"
  /\ child' = [i \in DOMAIN instances |-> NoChild]
  /\ UNCHANGED <<template, registry, failure, unresolved, resolved, manifest,
                 frontend, open, fetched, instances, bound, connected>>

-------------------------------------------------------------------------------
(* run_reified, exec_artifact *)

Fds(i) == {f.fd : f \in instances[i].files}

\* Mutant of Spawn: the linker keeps the descriptors of a child it has forked.
SpawnKeeps(i) ==
  /\ phase = "spawn"
  /\ child[i].at = "unforked"
  /\ child' = [child EXCEPT ![i] = [at |-> "forked", open |-> open, config |-> 0]]
  /\ UNCHANGED <<releaseVars, frontend, open, fetched, instances, bound, connected>>

\* fork. In the linker exec_artifact drops the configuration it was given, and
\* with it the child's descriptors. An error is unwrapped.
Spawn(i) ==
  /\ phase = "spawn"
  /\ child[i].at = "unforked"
  /\ \/ /\ child' = [child EXCEPT ![i] = [at |-> "forked", open |-> open, config |-> 0]]
        /\ open' = open \ (Fds(i) \cup {instances[i].artifact})
        /\ UNCHANGED <<phase, failure>>
     \/ Panic("fork") /\ UNCHANGED child
  /\ UNCHANGED <<template, registry, unresolved, resolved, manifest, frontend,
                 fetched, instances, bound, connected>>

Spawned ==
  /\ phase = "spawn"
  /\ \A i \in DOMAIN child : child[i].at # "unforked"
  /\ phase' = "up"
  /\ UNCHANGED <<template, registry, failure, unresolved, resolved, manifest,
                 launchVars>>

Dead == [at |-> "dead", open |-> {}, config |-> 0]

\* Mutant of Kept: one of the child's files is forgotten.
KeptButOne(i) ==
  Std \cup {instances[i].artifact} \cup {k \in Fds(i) : k # Min(Fds(i))} \cup MapLen .. MaxFd

\* The descriptors that relabel_file_descriptors does not close: keep_map, and
\* those beyond it.
Kept(i) == Std \cup {instances[i].artifact} \cup Fds(i) \cup MapLen .. MaxFd

\* relabel_file_descriptors indexes keep_map with the executable, and with
\* every file whose number is not larger than its length.
Relabel(i) ==
  /\ child[i].at = "forked"
  /\ child' = [child EXCEPT ![i] =
       IF instances[i].artifact >= MapLen \/ MapLen \in Fds(i)
       THEN Dead
       ELSE [at |-> "relabelled", open |-> child[i].open \cap Kept(i), config |-> 0]]
  /\ UNCHANGED <<releaseVars, frontend, open, fetched, instances, bound, connected>>

\* The rest of exec_artifact_child: the configuration is written, preexec
\* confines the child, and execveat closes what is close-on-exec. Each of
\* these may fail, and then the child exits.
Exec(i) ==
  /\ child[i].at = "relabelled"
  /\ \/ LET config == Free(child[i].open)
            closed == {instances[i].artifact}
                      \cup {f.fd : f \in {g \in instances[i].files : g.cloexec}}
        IN  /\ Unused(child[i].open) # {}
            /\ child' = [child EXCEPT ![i] =
                 [at |-> "running", config |-> config,
                  open |-> (child[i].open \cup {config}) \ closed]]
     \/ child' = [child EXCEPT ![i] = Dead]
  /\ UNCHANGED <<releaseVars, frontend, open, fetched, instances, bound, connected>>

\* The component ends, on its own or because the supervisor tells it to.
End(i) ==
  /\ child[i].at = "running"
  /\ child' = [child EXCEPT ![i] = Dead]
  /\ UNCHANGED <<releaseVars, frontend, open, fetched, instances, bound, connected>>

-------------------------------------------------------------------------------

ChildStep(i) == Relabel(i) \/ Exec(i)

\* What the linker does by itself.
LinkerStep ==
  \/ ReleaseNext /\ UNCHANGED launchVars
  \/ Collect \/ Instantiate \/ BindPublic
  \/ \E i \in DOMAIN instances : Connect(i)
  \/ Reified
  \/ \E i \in DOMAIN child : Spawn(i)
  \/ Spawned

Next ==
  \/ LinkerStep
  \/ \E i \in DOMAIN Components : Fetch(i)
  \/ \E i \in DOMAIN child : ChildStep(i) \/ End(i)

Spec == Init /\ [][Next]_vars

\* The linker and the children it forks are scheduled. A download has no
\* timeout, and nothing makes a component end.
FairSpec ==
  /\ Spec
  /\ WF_vars(LinkerStep)
  /\ \A i \in 1 .. Cardinality(Services) :
       WF_vars(i \in DOMAIN child /\ ChildStep(i))

-------------------------------------------------------------------------------
(* Properties *)

Connected == phase \in {"spawn", "up"}

\* Pressing and launching end, even when services require one another in a
\* circle; the linker can only be kept waiting by a download.
Terminates ==
  <>[](\/ phase \in {"up", "failed"}
       \/ phase = "load" /\ frontend = "daemon" /\ DOMAIN fetched # DOMAIN Components)

\* When every service has a package of its own, every instance that is started
\* serves the service it was resolved for: on a public socket, or to the
\* instance that requires it.
ServesItsService ==
  Connected /\ (\A s, t \in DOMAIN resolved : s # t => resolved[s].pkg # resolved[t].pkg)
    => \A i \in DOMAIN instances : \E f \in instances[i].files :
         f.service = Components[i].service /\ f.direction # "Consuming"

\* How many files of instance i are connections of a kind with instance j.
Count(insts, i, direction, service, j) ==
  Cardinality({f \in insts[i].files :
    f.direction = direction /\ f.service = service /\ f.remote = j})

\* The two ends of a connection agree: whoever consumes a service from an
\* instance is one that this instance serves it to, as often as it consumes it.
EndsMatch ==
  Connected => \A i, j \in DOMAIN instances, s \in Services :
    Count(instances, i, "Consuming", s, j) = Count(instances, j, "ServingConnected", s, i)

\* A component runs with the standard descriptors, its configuration and its
\* own files, and of the descriptors below MapLen with no other.
ExactFds ==
  \A i \in DOMAIN child : child[i].at = "running" =>
    child[i].open \cap 0 .. (MapLen - 1) =
      (Std \cup {child[i].config}
           \cup {f.fd : f \in {g \in instances[i].files : ~g.cloexec}})
        \cap 0 .. (MapLen - 1)

\* When a component has ended, its ends of its connections get closed in every
\* process, so that its peers see the end of the stream.
PeersSeeTheEnd ==
  \A i \in 1 .. Cardinality(Services) :
    (/\ i \in DOMAIN child /\ child[i].at = "dead"
     /\ \A k \in Fds(i) : k < MapLen)
      ~> i \in DOMAIN child /\ \A k \in Fds(i) :
           k \notin open /\ \A j \in DOMAIN child : k \notin child[j].open

===============================================================================
