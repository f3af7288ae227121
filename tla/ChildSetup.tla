------------------------------ MODULE ChildSetup ------------------------------
(***************************************************************************)
(* What a forked child does before it becomes the component                *)
(* (platform/linux/mod.rs ExecExtras and UserChangeStrategy, unshare.rs,   *)
(* mount.rs): it enters its working directory, leaves the filesystems and  *)
(* the network if it is to have none, gives up root, and executes.         *)
(*                                                                         *)
(* The mounts are the paths of /proc/mounts, oldest first; a path is the   *)
(* sequence of its names. A mount is covered by a later one at or above    *)
(* its path. Any call may fail.                                            *)
(***************************************************************************)
EXTENDS Naturals, Sequences, SequencesExt

CONSTANTS
  Requests,       \* to the builder: [user, group, props], of sets
  MountTables,
  Attempts,       \* at unmounting, for every mount that is found (10)
  Root            \* the user, and the group, that the linker runs as

VARIABLES
  request,
  steps,          \* of preexec and exec_artifact_child, as far as they are ahead
  child,          \* [is, user, group, cwd, network, workdirOf]
  mounts,
  mount_targets,  \* the queue of unmount_filesystems
  unmount_limit,
  childFault      \* a call failed for a reason that lies outside

childVars == <<request, steps, child, mounts, mount_targets, unmount_limit, childFault>>

Steps(names, wanted) == IF wanted THEN names ELSE <<>>

Allowed(prop) == prop \in request.props \/ "*" \in request.props

\* Mutant of ChangeUser: the user goes first.
ChangeUserFirst ==
  Steps(<<"setuid">>, request.user # {}) \o Steps(<<"setgid">>, request.group # {})

ChangeUser ==
  Steps(<<"setgid">>, request.group # {}) \o Steps(<<"setuid">>, request.user # {})

\* build and preexec: nothing is done unless a user or a group is set.
Preexec ==
  Steps(<<"chown", "chdir">> \o Steps(<<"filesystem", "unmount">>, ~Allowed("@filesystem"))
          \o Steps(<<"network">>, ~Allowed("@network")) \o ChangeUser,
        request.user \cup request.group # {})

ChildInit ==
  /\ request \in Requests
  /\ steps = Preexec \o <<"execute">>
  /\ child = [is |-> "forked", user |-> Root, group |-> Root, cwd |-> "linker",
              network |-> "host", workdirOf |-> <<Root, Root>>]
  /\ mounts \in MountTables
  /\ mount_targets = <<>>
  /\ unmount_limit = 0
  /\ childFault = FALSE

Step(name) == child.is = "forked" /\ Head(steps) = name

One(set, default) == IF set = {} THEN default ELSE CHOOSE x \in set : TRUE

-------------------------------------------------------------------------------
(* preexec *)

\* The directory is made if need be.
ChownWorkdir ==
  /\ Step("chown")
  /\ steps' = Tail(steps)
  /\ child' = [child EXCEPT !.workdirOf = <<One(request.user, Root), One(request.group, Root)>>]
  /\ UNCHANGED <<request, mounts, mount_targets, unmount_limit, childFault>>

ChdirWorkdir ==
  /\ Step("chdir")
  /\ steps' = Tail(steps)
  /\ child' = [child EXCEPT !.cwd = "workdir"]
  /\ UNCHANGED <<request, mounts, mount_targets, unmount_limit, childFault>>

\* restrict_filesystem up to the loop: a namespace with private mounts; all but
\* the root's are to go.
RestrictFilesystem ==
  /\ Step("filesystem")
  /\ steps' = Tail(steps)
  /\ mount_targets' = SelectSeq(mounts, LAMBDA p : p # <<>>)
  /\ unmount_limit' = Attempts * Len(mount_targets')
  /\ UNCHANGED <<request, child, mounts, childFault>>

Visible(i) == \A j \in DOMAIN mounts : j > i => ~IsPrefix(mounts[j], mounts[i])

\* umount2 with MNT_DETACH takes the last mount at the path, and those in it.
Unmountable(path) == {i \in DOMAIN mounts : mounts[i] = path /\ Visible(i)}

Detached(i) ==
  LET kept == {j \in DOMAIN mounts : j < i \/ ~IsPrefix(mounts[i], mounts[j])}
  IN  SelectSeq([j \in DOMAIN mounts |-> [at |-> mounts[j], keep |-> j \in kept]],
                LAMBDA m : m.keep)

Unmount ==
  LET path == Head(mount_targets)
  IN  IF Unmountable(path) = {}
      THEN mount_targets' = Append(Tail(mount_targets), path) /\ UNCHANGED mounts
      ELSE /\ mount_targets' = Tail(mount_targets)
           /\ \E i \in Unmountable(path) :
                mounts' = [j \in DOMAIN Detached(i) |-> Detached(i)[j].at]

\* One turn of unmount_filesystems' loop, or its end: what is left is reported,
\* and no error.
UnmountFilesystems ==
  /\ Step("unmount")
  /\ IF unmount_limit > 0 /\ mount_targets # <<>>
     THEN unmount_limit' = unmount_limit - 1 /\ Unmount /\ UNCHANGED steps
     ELSE steps' = Tail(steps) /\ UNCHANGED <<mounts, mount_targets, unmount_limit>>
  /\ UNCHANGED <<request, child, childFault>>

RestrictNetwork ==
  /\ Step("network")
  /\ steps' = Tail(steps)
  /\ child' = [child EXCEPT !.network = "own"]
  /\ UNCHANGED <<request, mounts, mount_targets, unmount_limit, childFault>>

\* Only root may change its group or its user.
SetGid ==
  /\ Step("setgid")
  /\ child.user = Root
  /\ steps' = Tail(steps)
  /\ child' = [child EXCEPT !.group = One(request.group, Root)]
  /\ UNCHANGED <<request, mounts, mount_targets, unmount_limit, childFault>>

SetUid ==
  /\ Step("setuid")
  /\ child.user = Root
  /\ steps' = Tail(steps)
  /\ child' = [child EXCEPT !.user = One(request.user, Root)]
  /\ UNCHANGED <<request, mounts, mount_targets, unmount_limit, childFault>>

Execute ==
  /\ Step("execute")
  /\ child' = [child EXCEPT !.is = "component"]
  /\ UNCHANGED <<request, steps, mounts, mount_targets, unmount_limit, childFault>>

\* The error is logged and the child exits; unmounting never fails.
ChildFails ==
  /\ child.is = "forked"
  /\ Head(steps) # "unmount"
  /\ child' = [child EXCEPT !.is = "exited"]
  /\ childFault' = ~(Head(steps) \in {"setgid", "setuid"} /\ child.user # Root)
  /\ UNCHANGED <<request, steps, mounts, mount_targets, unmount_limit>>

ChildNext ==
  \/ ChownWorkdir \/ ChdirWorkdir \/ RestrictFilesystem \/ UnmountFilesystems
  \/ RestrictNetwork \/ SetGid \/ SetUid \/ Execute \/ ChildFails

-------------------------------------------------------------------------------

\* Safety: a component that runs is confined as it was asked to be: it is the
\* user and in the group, in a directory that is its own, can reach no mount but
\* the root's unless it may use filesystems, and has no network unless it may.
\* And the child exits only if a call failed of itself: no step takes from it
\* what a later one needs.
RunsConfined ==
  /\ child.is = "component" /\ request.user \cup request.group # {} =>
       /\ child.user = One(request.user, Root)
       /\ child.group = One(request.group, Root)
       /\ child.cwd = "workdir"
       /\ child.workdirOf = <<child.user, child.group>>
       /\ ~Allowed("@filesystem") => \A i \in DOMAIN mounts : Visible(i) => mounts[i] = <<>>
       /\ ~Allowed("@network") => child.network = "own"
  /\ child.is = "exited" => childFault

===============================================================================
