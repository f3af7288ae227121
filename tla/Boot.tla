--------------------------------- MODULE Boot ---------------------------------
(***************************************************************************)
(* The appliance's first process (appliance/init/src/main.rs): it mounts   *)
(* the pseudo filesystems, starts udev, builds the root of the system on a *)
(* tmpfs, from a read-only store and what is kept on the persistent disk,  *)
(* moves to it and becomes the system's init. An error powers the machine  *)
(* off; power may fail at any step; and the disk outlives both.            *)
(*                                                                         *)
(* A step needs things that are there and adds one: a directory, a mount,  *)
(* a device. Names are relative to /_next-root once that is mounted.       *)
(***************************************************************************)
EXTENDS Naturals, Sequences

CONSTANTS
  Cmdlines,       \* the kernel's command line: [root, personality, system]
  MaxBoots

VARIABLES
  cmdline,
  step,           \* the step of main2 that is next
  have,           \* what there is, in memory
  disk,           \* what there is on the persistent disk
  machine,        \* "booting", "system", "failed", "off"
  boots,
  bootFault       \* something outside init went wrong in this boot

bootVars == <<cmdline, step, have, disk, machine, boots, bootFault>>

S(do, name, needs) == [do |-> do, name |-> name, needs |-> needs]

If(cond, s) == IF cond THEN s ELSE <<>>

Persist == cmdline.personality = "persist"

-------------------------------------------------------------------------------
(* main2 *)

\* What /init.config and the directories come to is the initramfs's affair.
PseudoFilesystems ==
  <<S("config", "config", {}), S("try_mkdir", "/proc", {}), S("try_mkdir", "/sys", {}),
    S("try_mkdir", "/run", {}), S("mount", "dev", {}), S("mount", "proc", {"/proc"}),
    S("mount", "sys", {"/sys"}), S("mount", "run", {"/run"}), S("read", "cmdline", {"proc"})>>

\* get_cmdline_value, partition_def_to_path: the device is linked to /dev/root,
\* whichever way it was named.
LinkRoot == If(cmdline.root # "none", <<S("link", "/dev/root", {"dev"})>>)

Devices ==
  <<S("read", "version", {"proc"}), S("command", "udevd", {"dev"}),
    S("command", "sysctl", {"proc"}), S("command", "subsystems", {"udevd"}),
    S("command", "devices", {"udevd"}), S("command", "settle", {"udevd"})>>

RootDirs ==
  <<"dev/", "images/", "nix/", "nix/store/", "proc/", "run/", "sys/", "usr/",
    "tmp/", "persist/", "nix/.rw-store/", "nix/.ro-store/", ".old/">>

MakeRootDirs ==
  [i \in 1..13 |->
     S("mkdir", RootDirs[i], IF i \in {4, 11, 12} THEN {"nix/"} ELSE {"next"})]

NextRoot ==
  <<S("mkdir", "/_next-root", {}), S("mount", "next", {"/_next-root"})>>
    \o MakeRootDirs
    \o <<S("mount", "tmp", {"tmp/"})>>

Modules ==
  [i \in 1..4 |-> S("command", <<"squashfs", "overlay", "ext4", "loop">>[i], {})]

\* Mutant of PersistDir: the directory must be new.
PersistDirNew(name, needs) == S("mkdir_disk", name, needs)

\* create_dir_allow_existing on the persistent disk.
PersistDir(name, needs) == S("allow_mkdir_disk", name, needs)

PersistentDisk ==
  If(Persist,
     <<S("mount", "persist", {"persist/", "settle", "ext4"}),
       PersistDir("persist/var", {"persist"}),
       S("allow_mkdir", "var/", {"next"}), S("mount", "var", {"persist/var", "var/"}),
       S("command", "/dev/loop0", {"loop", "persist/nix-store.squashfs"})>>)

\* The upper layer of the store, and its scratch directory.
RwStore ==
  IF Persist
  THEN <<PersistDir("persist/.rw-store", {"persist"}),
         PersistDir("rw-store/store", {"persist/.rw-store"}),
         PersistDir("rw-store/work", {"persist/.rw-store"})>>
  ELSE <<S("allow_mkdir", "rw-store/store", {"nix/.rw-store/"}),
         S("allow_mkdir", "rw-store/work", {"nix/.rw-store/"})>>

\* The device is what the command line calls it, not the link.
RootDevice ==
  IF Persist THEN "/dev/loop0" ELSE IF cmdline.root = "none" THEN "/dev/root" ELSE cmdline.root

MountStores ==
  <<S("mount", "ro-store", {RootDevice, "nix/.ro-store/", "squashfs"}),
    S("mount", "next/dev", {"dev", "dev/"}), S("mount", "next/sys", {"sys", "sys/"}),
    S("mount", "next/proc", {"proc", "proc/"}), S("mount", "next/run", {"run", "run/"}),
    S("read", "visit_dirs", {"nix/.rw-store/"}),
    S("mount", "store", {"ro-store", "rw-store/store", "rw-store/work", "nix/store/", "overlay"})>>

SwitchRoot ==
  <<S("read", "chdir", {"next"}), S("mount", "old", {".old/"}), S("mount", "root", {"next"}),
    S("read", "chroot", {"root"}), S("umount", "old", {"old"}), S("exec", "init", {})>>

Main2 ==
  PseudoFilesystems \o LinkRoot \o Devices \o NextRoot \o Modules
    \o PersistentDisk \o RwStore \o MountStores \o SwitchRoot

BootInit ==
  /\ cmdline \in Cmdlines
  /\ step = 1
  /\ have = {}
  /\ disk = {"persist/nix-store.squashfs"}
  /\ machine = "booting"
  /\ boots = 1
  /\ bootFault = FALSE

-------------------------------------------------------------------------------
(* The steps *)

There == have \cup (IF "persist" \in have THEN disk ELSE {})

Current == Main2[step]

New(do) == do \notin {"mkdir", "mkdir_disk"} \/ Current.name \notin There

Possible == Current.needs \subseteq There /\ New(Current.do)

\* A step that the rest depends on.
Proceed ==
  /\ machine = "booting"
  /\ Current.do \in {"mkdir", "allow_mkdir", "mkdir_disk", "allow_mkdir_disk", "mount", "link",
                     "umount", "read", "config"}
  /\ Possible
  /\ step' = step + 1
  /\ IF Current.do \in {"mkdir_disk", "allow_mkdir_disk"}
     THEN disk' = disk \cup {Current.name} /\ UNCHANGED have
     ELSE /\ have' = IF Current.do = "umount" THEN have \ {Current.name}
                     ELSE have \cup {Current.name}
          /\ UNCHANGED disk
  /\ UNCHANGED <<cmdline, machine, boots, bootFault>>

\* An error of these directories is printed: the initramfs may have them.
TryMkdir ==
  /\ machine = "booting"
  /\ Current.do = "try_mkdir"
  /\ step' = step + 1
  /\ have' = have \cup {Current.name}
  /\ UNCHANGED <<cmdline, disk, machine, boots, bootFault>>

\* A command that was started is waited for (but for udevd, which stays), and its
\* exit status is not looked at: it may have done nothing. (One such failure a
\* boot is enough to see.)
RunCommand ==
  /\ machine = "booting"
  /\ Current.do = "command"
  /\ step' = step + 1
  /\ \/ /\ Possible
        /\ have' = have \cup {Current.name}
                     \cup (IF Current.name = "settle" THEN {"/dev/sda1"} ELSE {})
        /\ UNCHANGED bootFault
     \/ (Possible => ~bootFault) /\ bootFault' = TRUE /\ UNCHANGED have
  /\ UNCHANGED <<cmdline, disk, machine, boots>>

\* Without a system to run, or if it cannot be run, the machine is powered off.
Execve ==
  /\ machine = "booting"
  /\ Current.do = "exec"
  /\ \/ cmdline.system /\ machine' = "system" /\ UNCHANGED bootFault
     \/ machine' = "failed" /\ bootFault' = (bootFault \/ cmdline.system)
  /\ UNCHANGED <<cmdline, step, have, disk, boots>>

\* An error is printed and the machine is powered off.
StepFails ==
  /\ machine = "booting"
  /\ Current.do \notin {"try_mkdir", "exec"}
  /\ machine' = "failed"
  /\ bootFault' = (bootFault \/ Possible)
  /\ UNCHANGED <<cmdline, step, have, disk, boots>>

PowerCut ==
  /\ machine \in {"booting", "system"}
  /\ machine' = "off"
  /\ UNCHANGED <<cmdline, step, have, disk, boots, bootFault>>

\* The next boot starts from the same initramfs and the disk as it was left.
PowerOn ==
  /\ machine \in {"failed", "off"}
  /\ boots < MaxBoots
  /\ boots' = boots + 1
  /\ machine' = "booting"
  /\ step' = 1
  /\ have' = {}
  /\ bootFault' = FALSE
  /\ UNCHANGED <<cmdline, disk>>

BootNext ==
  Proceed \/ TryMkdir \/ RunCommand \/ Execve \/ StepFails \/ PowerCut \/ PowerOn

BootSpec == BootInit /\ [][BootNext]_bootVars

-------------------------------------------------------------------------------

\* A command line that this init can boot: a system, and the store's device on
\* the persistent disk or named by its path.
Bootable == cmdline.system /\ (Persist \/ cmdline.root = "/dev/sda1")

\* Safety: wherever earlier boots ended and whatever they left on the disk, a
\* boot in which nothing outside goes wrong is not given up; and the system that
\* it ends in has its store, the host's filesystems and no way to the initramfs.
BootsAgain ==
  /\ machine = "failed" /\ Bootable => bootFault
  /\ machine = "system" =>
       /\ {"store", "next/dev", "next/sys", "next/proc", "next/run", "root"} \subseteq have
       /\ "old" \notin have
       /\ Persist => {"persist/var", "rw-store/store", "rw-store/work"} \subseteq disk

===============================================================================
