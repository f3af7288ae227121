------------------------------ MODULE Container ------------------------------
(***************************************************************************)
(* Setting up a container (platform/linux/container.rs                     *)
(* mount_nix_squashfs, called by the setup-container command): a straight  *)
(* line of system calls, of which any one may fail. They build a root in a *)
(* mount namespace of the process's own and pivot to it.                   *)
(*                                                                         *)
(* A path is the sequence of its names. The kernel's part is modelled by   *)
(* what the calls are used for: a mount made under a shared mount shows up *)
(* in the namespace that it is shared with. No ExtraMount can be made      *)
(* outside its module, so there are none.                                  *)
(***************************************************************************)
EXTENDS Naturals, Sequences

CONSTANTS
  Configs,        \* [ephemeral, enable_proc, enable_dev], of booleans
  HostMounts      \* the mounts of the host: [at, fs, ro]

VARIABLES
  config,
  todo,           \* the calls that are still to be made
  host,           \* the mounts of the namespace that the linker was started in
  own,            \* the mounts that the linker sees
  namespace,      \* "host", "shared" or "private"
  dirs,           \* the directories that were made and can be seen
  box,            \* "setup", "running", "ended" or "failed"
  faulted         \* a call failed for a reason that lies outside

boxVars == <<config, todo, host, own, namespace, dirs, box, faulted>>

RootTarget == <<"workdir", "rootfs">>

\* A path is at or below another.
Above(top, path) == Len(top) <= Len(path) /\ SubSeq(path, 1, Len(top)) = top

In(name) == Append(RootTarget, name)

Mkdir(path) == [do |-> "mkdir", at |-> path, fs |-> "none"]

Mount(path, fs) == [do |-> "mount", at |-> path, fs |-> fs]

Sys(name) == [do |-> name, at |-> <<>>, fs |-> "none"]

\* A mount is known by its path, so none of the host's is where the new root is
\* mounted, or below.
ASSUME BoxAssumption ==
  /\ Configs \subseteq [ephemeral : BOOLEAN, enable_proc : BOOLEAN, enable_dev : BOOLEAN]
  /\ HostMounts \subseteq [at : Seq(STRING), fs : STRING, ro : BOOLEAN]
  /\ \A m \in HostMounts : ~Above(RootTarget, m.at)

When(enabled, step) == IF enabled THEN <<step>> ELSE <<>>

\* Mutant of Isolate: the mounts are left shared.
IsolateSharing == <<Sys("unshare")>>

\* The new namespace is made of shared copies until they are made private.
Isolate == <<Sys("unshare"), Sys("private")>>

Directories(c) ==
  <<Mkdir(In(".old")), Mkdir(In("nix")), Mkdir(In("persist"))>>
    \o When(c.ephemeral, Mkdir(In("run")))
    \o When(c.enable_proc, Mkdir(In("proc")))
    \o When(c.enable_dev, Mkdir(In("dev")))

Mounts(c) ==
  <<Mount(In("nix"), "squashfs"), Mount(In("persist"), "bind")>>
    \o When(c.ephemeral, Mount(In("run"), "tmpfs"))
    \o When(c.enable_proc, Mount(In("proc"), "proc"))
    \o When(c.enable_dev, Mount(In("dev"), "devtmpfs"))

Pivot == <<Sys("pivot_root"), Sys("detach"), Sys("rmdir"), Sys("readonly"), Sys("uts")>>

MountNixSquashfs(c) ==
  <<Mkdir(RootTarget)>> \o Isolate \o <<Mount(RootTarget, "tmpfs")>>
    \o Directories(c) \o Mounts(c) \o Pivot

BoxInit ==
  /\ config \in Configs
  /\ todo = MountNixSquashfs(config)
  /\ host = HostMounts
  /\ own = HostMounts
  /\ namespace = "host"
  /\ dirs = {<<"workdir">>}
  /\ box = "setup"
  /\ faulted = FALSE

-------------------------------------------------------------------------------
(* The calls *)

Next_(do) == box = "setup" /\ todo # <<>> /\ Head(todo).do = do /\ todo' = Tail(todo)

Under(path, set) == {p \in set : Above(path, p)}

MakeDir ==
  /\ Next_("mkdir")
  /\ dirs' = dirs \cup {Head(todo).at}
  /\ UNCHANGED <<config, host, own, namespace, box, faulted>>

Unshare ==
  /\ Next_("unshare")
  /\ namespace' = "shared"
  /\ UNCHANGED <<config, host, own, dirs, box, faulted>>

MakePrivate ==
  /\ Next_("private")
  /\ namespace' = "private"
  /\ UNCHANGED <<config, host, own, dirs, box, faulted>>

\* A mount hides the directories below it.
MountOne ==
  LET m == [at |-> Head(todo).at, fs |-> Head(todo).fs, ro |-> FALSE]
  IN  /\ Next_("mount")
      /\ m.at \in dirs
      /\ own' = own \cup {m}
      /\ host' = IF namespace = "private" THEN host ELSE host \cup {m}
      /\ dirs' = dirs \ (Under(m.at, dirs) \ {m.at})
      /\ UNCHANGED <<config, namespace, box, faulted>>

\* A path, seen from the new root.
Pivoted(path) ==
  IF Above(RootTarget, path) THEN SubSeq(path, Len(RootTarget) + 1, Len(path))
  ELSE <<".old">> \o path

Moved(m) == [at |-> Pivoted(m.at), fs |-> m.fs, ro |-> m.ro]

PivotRoot ==
  /\ Next_("pivot_root")
  /\ namespace = "private"
  /\ In(".old") \in dirs
  /\ \E m \in own : m.at = RootTarget
  /\ own' = {Moved(m) : m \in own}
  /\ dirs' = {Pivoted(d) : d \in dirs}
  /\ UNCHANGED <<config, host, namespace, box, faulted>>

DetachOld ==
  /\ Next_("detach")
  /\ own' = {m \in own : ~Above(<<".old">>, m.at)}
  /\ dirs' = dirs \ (Under(<<".old">>, dirs) \ {<<".old">>})
  /\ UNCHANGED <<config, host, namespace, box, faulted>>

\* An error is only reported.
RemoveOld ==
  /\ Next_("rmdir")
  /\ dirs' \in {dirs, dirs \ {<<".old">>}}
  /\ UNCHANGED <<config, host, own, namespace, box, faulted>>

Locked(m) == [at |-> m.at, fs |-> m.fs, ro |-> m.ro \/ m.at = <<>>]

RemountReadOnly ==
  /\ Next_("readonly")
  /\ own' = {Locked(m) : m \in own}
  /\ UNCHANGED <<config, host, namespace, dirs, box, faulted>>

UnshareUts ==
  /\ Next_("uts")
  /\ UNCHANGED <<config, host, own, namespace, dirs, box, faulted>>

\* The entrypoint is run, and waited for.
Entrypoint ==
  /\ todo = <<>>
  /\ \/ box = "setup" /\ box' = "running"
     \/ box = "running" /\ box' = "ended"
  /\ UNCHANGED <<config, todo, host, own, namespace, dirs, faulted>>

\* A call that the state does not allow.
Refused ==
  /\ todo # <<>>
  /\ \/ Head(todo).do = "mount" /\ Head(todo).at \notin dirs
     \/ /\ Head(todo).do = "pivot_root"
        /\ \/ namespace # "private"
           \/ In(".old") \notin dirs
           \/ \A m \in own : m.at # RootTarget

\* The error is returned and unwrapped: the process ends, and with it its own
\* namespace.
Fails ==
  /\ box = "setup"
  /\ box' = "failed"
  /\ faulted' = ~Refused
  /\ own' = host
  /\ UNCHANGED <<config, todo, host, namespace, dirs>>

BoxNext ==
  \/ MakeDir \/ Unshare \/ MakePrivate \/ MountOne \/ PivotRoot \/ DetachOld
  \/ RemoveOld \/ RemountReadOnly \/ UnshareUts \/ Entrypoint \/ Fails

BoxSpec == BoxInit /\ [][BoxNext]_boxVars

-------------------------------------------------------------------------------
(* Properties *)

\* Safety: the entrypoint runs with the mounts that were asked for and no way to
\* the host's, under a root that cannot be written; no call fails on account of
\* the calls before it; and wherever the set-up fails, the host's mounts are what
\* they were, as the comment in mount_nix_squashfs counts on: no error undoes one.
ContainerReady ==
  /\ box = "running" =>
       own = {[at |-> <<>>, fs |-> "tmpfs", ro |-> TRUE]}
               \cup {[at |-> <<m.at[Len(m.at)]>>, fs |-> m.fs, ro |-> FALSE] :
                       m \in {Mounts(config)[i] : i \in DOMAIN Mounts(config)}}
  /\ box = "failed" => faulted
  /\ host = HostMounts

===============================================================================
