------------------------------ MODULE HostProofs ------------------------------
(***************************************************************************)
(* How a host is set up, for every value of the constants: the boot of the *)
(* appliance and the set-up of a container.                                *)
(***************************************************************************)
EXTENDS Boot, Container, TLAPS

-------------------------------------------------------------------------------
(***************************************************************************)
(* Boot. Every step of main2 is possible after the steps before it, for    *)
(* every command line that can be booted; this is shown for the parts of   *)
(* main2 one after the other. By the invariant a boot without a fault has  *)
(* what the steps it took give, and the disk at least what every boot      *)
(* starts from: what an earlier boot left there is made again or found.    *)
(***************************************************************************)

Store == "persist/nix-store.squashfs"

OnDisk == {Store, "persist/var", "persist/.rw-store", "rw-store/store", "rw-store/work"}

\* The steps of s, and those before the k-th.
All(s) == {s[j] : j \in 1..Len(s)}

Before(s, k) == {s[j] : j \in 1..(k - 1)}

MadeRoot == <<S("mkdir", "/_next-root", {}), S("mount", "next", {"/_next-root"})>>

MountedTmp == <<S("mount", "tmp", {"tmp/"})>>

\* Every step there may be.
StepOf ==
  All(PseudoFilesystems) \cup All(LinkRoot) \cup All(Devices) \cup All(MadeRoot)
    \cup All(MakeRootDirs) \cup All(MountedTmp) \cup All(Modules) \cup All(PersistentDisk)
    \cup All(RwStore) \cup All(MountStores) \cup All(SwitchRoot)

\* What a step adds, if nothing goes wrong.
Adds(y, n) == y.name = n \/ (y.do = "command" /\ y.name = "settle" /\ n = "/dev/sda1")

Given(B, n) == \E y \in B : y.do \notin {"umount", "allow_mkdir_disk"} /\ Adds(y, n)

\* What the disk has once B has mounted it.
GivenOnDisk(B, n) ==
  /\ n = Store \/ \E y \in B : y.do = "allow_mkdir_disk" /\ y.name = n
  /\ \E y \in B : y.do = "mount" /\ y.name = "persist"

Got(B, n) == Given(B, n) \/ GivenOnDisk(B, n)

\* A step that is possible after the steps B. Unmounting is looked at apart.
Safe(x, B) ==
  /\ x.do # "umount" => \A n \in x.needs : n # "old" /\ (Given(B, n) \/ GivenOnDisk(B, n))
  /\ x.do = "mkdir" => x.name \notin OnDisk \cup {"/dev/sda1"} /\ \A y \in B : y.name # x.name

AllSafe(s, A) == \A k \in 1..Len(s) : Safe(s[k], A \cup Before(s, k))

Kinds ==
  {"config", "try_mkdir", "mount", "read", "link", "command", "mkdir", "allow_mkdir",
   "allow_mkdir_disk"}

Plain(s) ==
  \A y \in All(s) : /\ y.do \in Kinds /\ y.name # "old"
                    /\ y.do = "allow_mkdir_disk" => y.name \in OnDisk

\* The steps of two lists, one after the other.
LEMMA Joined ==
  ASSUME NEW s \in Seq(StepOf), NEW t \in Seq(StepOf)
  PROVE  /\ Len(s \o t) = Len(s) + Len(t) /\ Len(s) \in Nat /\ Len(t) \in Nat
         /\ \A j \in 1..Len(s) : (s \o t)[j] = s[j]
         /\ \A j \in 1..Len(t) : (s \o t)[Len(s) + j] = t[j]
OBVIOUS

\* The steps of two lists, one after the other, are those of both.
LEMMA JoinsAll ==
  ASSUME NEW s \in Seq(StepOf), NEW t \in Seq(StepOf)
  PROVE  /\ s \o t \in Seq(StepOf)
         /\ All(s \o t) = All(s) \cup All(t)
         /\ Plain(s) /\ Plain(t) => Plain(s \o t)
PROOF
  <1> DEFINE u == s \o t
             m == Len(s)
             n == Len(t)
  <1>1. /\ m \in Nat /\ n \in Nat /\ u \in Seq(StepOf) /\ Len(u) = m + n
        /\ \A j \in 1..m : u[j] = s[j]
        /\ \A j \in 1..n : u[m + j] = t[j]
    OBVIOUS
  <1> HIDE DEF u, m, n
  <1>2. All(u) = All(s) \cup All(t)
    <2>1. ASSUME NEW x \in All(u) PROVE x \in All(s) \cup All(t)
      <3>1. PICK i \in 1..(m + n) : x = u[i]
        BY <1>1 DEF All
      <3>2. CASE i <= m
        BY <1>1, <3>1, <3>2 DEF All, m
      <3>3. CASE ~(i <= m)
        <4>1. i - m \in 1..n /\ x = t[i - m]
          BY <1>1, <3>1, <3>3
        <4> QED BY <4>1 DEF All, n
      <3> QED BY <3>2, <3>3
    <2>2. ASSUME NEW x \in All(s) \cup All(t) PROVE x \in All(u)
      <3>1. CASE x \in All(s)
        <4>1. PICK i \in 1..m : x = s[i]
          BY <3>1 DEF All, m
        <4>2. i \in 1..Len(u) /\ u[i] = x
          BY <1>1, <4>1
        <4> QED BY <4>2 DEF All
      <3>2. CASE x \in All(t)
        <4>1. PICK i \in 1..n : x = t[i]
          BY <3>2 DEF All, n
        <4>2. m + i \in 1..Len(u) /\ u[m + i] = x
          BY <1>1, <4>1
        <4> QED BY <4>2 DEF All
      <3> QED BY <3>1, <3>2
    <2> QED BY <2>1, <2>2
  <1> QED BY <1>1, <1>2 DEF u, Plain

\* Two lists of steps that are possible in their places are so one after the other.
LEMMA Joins ==
  ASSUME NEW s \in Seq(StepOf), NEW t \in Seq(StepOf), NEW A, AllSafe(s, A), AllSafe(t, A \cup All(s))
  PROVE  AllSafe(s \o t, A)
PROOF
  <1> DEFINE u == s \o t
             m == Len(s)
             n == Len(t)
  <1>1. /\ m \in Nat /\ n \in Nat /\ u \in Seq(StepOf) /\ Len(u) = m + n
        /\ \A j \in 1..m : u[j] = s[j]
        /\ \A j \in 1..n : u[m + j] = t[j]
    OBVIOUS
  <1> HIDE DEF u, m, n
  <1>2. ASSUME NEW k \in 1..(m + n) PROVE Safe(u[k], A \cup Before(u, k))
    <2>1. CASE k <= m
      <3>1. k \in 1..m /\ u[k] = s[k]
        BY <1>1, <2>1
      <3>2. Before(u, k) = Before(s, k)
        <4>1. \A j \in 1..(k - 1) : u[j] = s[j]
          BY <1>1, <3>1
        <4> QED BY <4>1 DEF Before
      <3> QED BY <3>1, <3>2 DEF AllSafe, m
    <2>2. CASE ~(k <= m)
      <3> DEFINE j == k - m
      <3>1. j \in 1..n /\ k = m + j /\ u[k] = t[j]
        BY <1>1, <2>2
      <3> HIDE DEF j
      <3>2. Before(u, k) = All(s) \cup Before(t, j)
        <4>1. \A i \in 1..(k - 1) : i \in 1..m \/ \E h \in 1..(j - 1) : i = m + h
          <5> TAKE i \in 1..(k - 1)
          <5>1. CASE ~(i <= m)
            <6>1. i - m \in 1..(j - 1) /\ i = m + (i - m)
              BY <1>1, <3>1, <5>1
            <6> QED BY <6>1
          <5> QED BY <1>1, <5>1
        <4>2. \A h \in 1..(j - 1) : m + h \in 1..(k - 1) /\ u[m + h] = t[h]
          BY <1>1, <3>1
        <4>3. \A i \in 1..m : i \in 1..(k - 1) /\ u[i] = s[i]
          BY <1>1, <2>2
        <4>4. ASSUME NEW x \in Before(u, k) PROVE x \in All(s) \cup Before(t, j)
          <5>1. PICK i \in 1..(k - 1) : x = u[i]
            BY DEF Before
          <5>2. CASE i \in 1..m
            <6>1. x = s[i] /\ i \in 1..Len(s)
              BY <4>3, <5>1, <5>2 DEF m
            <6> QED BY <6>1 DEF All
          <5>3. CASE \E h \in 1..(j - 1) : i = m + h
            <6>1. PICK h \in 1..(j - 1) : i = m + h
              BY <5>3
            <6>2. x = t[h]
              BY <4>2, <5>1, <6>1
            <6> QED BY <6>2 DEF Before
          <5> QED BY <4>1, <5>1, <5>2, <5>3
        <4>5. ASSUME NEW x \in All(s) \cup Before(t, j) PROVE x \in Before(u, k)
          BY <4>2, <4>3 DEF All, Before, m
        <4> QED BY <4>4, <4>5
      <3>3. A \cup Before(u, k) = (A \cup All(s)) \cup Before(t, j)
        BY <3>2
      <3> QED BY <3>1, <3>3 DEF AllSafe, n
    <2> QED BY <2>1, <2>2
  <1>3. AllSafe(u, A)
    BY <1>1, <1>2 DEF AllSafe
  <1> QED BY <1>3 DEF u

EarlyNames ==
  {"config", "/proc", "/sys", "/run", "dev", "proc", "sys", "run", "cmdline", "/dev/root",
   "version", "udevd", "sysctl", "subsystems", "devices", "settle"}

\* No directory of the new root is made twice.
LEMMA DirsDiffer ==
  /\ \A i \in 1..13 : RootDirs[i] \notin OnDisk \cup {"/dev/sda1", "/_next-root", "next", "old"}
  /\ \A i \in 1..13 : RootDirs[i] \notin EarlyNames
  /\ \A i \in 1..13 : \A j \in 1..(i - 1) : RootDirs[j] # RootDirs[i]
PROOF
  <1>1. \A i \in 1..13 : i = 1 \/ i = 2 \/ i = 3 \/ i = 4 \/ i = 5 \/ i = 6 \/ i = 7
                          \/ i = 8 \/ i = 9 \/ i = 10 \/ i = 11 \/ i = 12 \/ i = 13
    OBVIOUS
  <1>2. /\ RootDirs[1] = "dev/" /\ RootDirs[2] = "images/" /\ RootDirs[3] = "nix/" /\ RootDirs[4] = "nix/store/"
        /\ RootDirs[5] = "proc/" /\ RootDirs[6] = "run/" /\ RootDirs[7] = "sys/" /\ RootDirs[8] = "usr/"
        /\ RootDirs[9] = "tmp/" /\ RootDirs[10] = "persist/" /\ RootDirs[11] = "nix/.rw-store/"
        /\ RootDirs[12] = "nix/.ro-store/" /\ RootDirs[13] = ".old/"
    BY DEF RootDirs
  <1>3. \A i \in 1..13 : RootDirs[i] \notin EarlyNames
    BY <1>1, <1>2 DEF EarlyNames
  <1>4. \A i \in 1..13 : RootDirs[i] \notin OnDisk \cup {"/dev/sda1", "/_next-root", "next", "old"}
    BY <1>1, <1>2 DEF OnDisk, Store
  <1>5. \A i \in 1..13 : \A j \in 1..(i - 1) : RootDirs[j] # RootDirs[i]
    <2> TAKE i \in 1..13
    <2> TAKE j \in 1..(i - 1)
    <2>1. j \in 1..13 /\ j # i
      OBVIOUS
    <2> QED BY <2>1, <1>1, <1>2
  <1> QED BY <1>3, <1>4, <1>5

\* The pseudo filesystems need only the directories that were tried before them.
LEMMA PseudoSafe ==
  /\ PseudoFilesystems \in Seq(StepOf) /\ Plain(PseudoFilesystems)
  /\ \A y \in All(PseudoFilesystems) : y.name \in EarlyNames
  /\ \A A : AllSafe(PseudoFilesystems, A)
PROOF
  <1> DEFINE s == PseudoFilesystems
  <1>1. Len(s) = 9
    BY DEF PseudoFilesystems
  <1>2. /\ s[1] = S("config", "config", {})
        /\ s[2] = S("try_mkdir", "/proc", {})
        /\ s[3] = S("try_mkdir", "/sys", {})
        /\ s[4] = S("try_mkdir", "/run", {})
        /\ s[5] = S("mount", "dev", {})
        /\ s[6] = S("mount", "proc", {"/proc"})
        /\ s[7] = S("mount", "sys", {"/sys"})
        /\ s[8] = S("mount", "run", {"/run"})
        /\ s[9] = S("read", "cmdline", {"proc"})
    BY DEF PseudoFilesystems
  <1>3. s \in Seq(StepOf)
    <2>1. \A i \in 1..9 : s[i] \in StepOf
      BY <1>1 DEF All, StepOf
    <2> QED BY <2>1 DEF PseudoFilesystems
  <1> HIDE DEF s
  <1>4. ASSUME NEW A PROVE AllSafe(s, A)
    <2>6. Given(A \cup Before(s, 6), "/proc")
      BY <1>2 DEF Given, Before, Adds, S
    <2>7. Given(A \cup Before(s, 7), "/sys")
      BY <1>2 DEF Given, Before, Adds, S
    <2>8. Given(A \cup Before(s, 8), "/run")
      BY <1>2 DEF Given, Before, Adds, S
    <2>9. Given(A \cup Before(s, 9), "proc")
      BY <1>2 DEF Given, Before, Adds, S
    <2>s. ASSUME NEW k \in 1..9 PROVE Safe(s[k], A \cup Before(s, k))
      <3>0. k = 1 \/ k = 2 \/ k = 3 \/ k = 4 \/ k = 5 \/ k = 6 \/ k = 7 \/ k = 8 \/ k = 9
        OBVIOUS
      <3>1. Safe(s[1], A \cup Before(s, 1))
        BY <1>2 DEF Safe, S
      <3>2. Safe(s[2], A \cup Before(s, 2))
        BY <1>2 DEF Safe, S
      <3>3. Safe(s[3], A \cup Before(s, 3))
        BY <1>2 DEF Safe, S
      <3>4. Safe(s[4], A \cup Before(s, 4))
        BY <1>2 DEF Safe, S
      <3>5. Safe(s[5], A \cup Before(s, 5))
        BY <1>2 DEF Safe, S
      <3>6. Safe(s[6], A \cup Before(s, 6))
        BY <1>2, <2>6 DEF Safe, S
      <3>7. Safe(s[7], A \cup Before(s, 7))
        BY <1>2, <2>7 DEF Safe, S
      <3>8. Safe(s[8], A \cup Before(s, 8))
        BY <1>2, <2>8 DEF Safe, S
      <3>9. Safe(s[9], A \cup Before(s, 9))
        BY <1>2, <2>9 DEF Safe, S
      <3> QED BY <3>0, <3>1, <3>2, <3>3, <3>4, <3>5, <3>6, <3>7, <3>8, <3>9
    <2> QED BY <1>1, <2>s DEF AllSafe
  <1>5. \A i \in 1..9 : /\ s[i].do \in Kinds /\ s[i].name # "old"
                        /\ s[i].do = "allow_mkdir_disk" => s[i].name \in OnDisk
    BY <1>2 DEF S, Kinds, OnDisk
  <1>6. Plain(s)
    BY <1>1, <1>5 DEF All, Plain
  <1>7. \A i \in 1..9 : s[i].name \in EarlyNames
    BY <1>2 DEF S, EarlyNames
  <1>8. \A y \in All(s) : y.name \in EarlyNames
    BY <1>1, <1>7 DEF All
  <1> QED BY <1>3, <1>4, <1>6, <1>8 DEF s

\* The link to the root device is made in /dev.
LEMMA LinkSafe ==
  ASSUME cmdline.root # "none"
  PROVE  /\ LinkRoot \in Seq(StepOf) /\ Plain(LinkRoot)
         /\ \A y \in All(LinkRoot) : y.name \in EarlyNames
         /\ \A A :
              /\ Given(A, "dev")
              => AllSafe(LinkRoot, A)
PROOF
  <1> DEFINE s == LinkRoot
  <1>1. Len(s) = 1
    BY cmdline.root # "none" DEF LinkRoot, If, PersistDir
  <1>2. /\ s[1] = S("link", "/dev/root", {"dev"})
    BY cmdline.root # "none" DEF LinkRoot, If, PersistDir
  <1>3. s \in Seq(StepOf)
    <2>1. \A i \in 1..1 : s[i] \in StepOf
      BY <1>1 DEF All, StepOf
    <2> QED BY <2>1, cmdline.root # "none" DEF LinkRoot, If, PersistDir
  <1> HIDE DEF s
  <1>4. ASSUME NEW A, Given(A, "dev")
        PROVE  AllSafe(s, A)
    <2>1. Given(A \cup Before(s, 1), "dev")
      BY <1>4 DEF Given
    <2>s. ASSUME NEW k \in 1..1 PROVE Safe(s[k], A \cup Before(s, k))
      <3>1. Safe(s[1], A \cup Before(s, 1))
        BY <1>2, <2>1 DEF Safe, S
      <3> QED BY <3>1
    <2> QED BY <1>1, <2>s DEF AllSafe
  <1>5. \A i \in 1..1 : /\ s[i].do \in Kinds /\ s[i].name # "old"
                        /\ s[i].do = "allow_mkdir_disk" => s[i].name \in OnDisk
    BY <1>2 DEF S, Kinds, OnDisk
  <1>6. Plain(s)
    BY <1>1, <1>5 DEF All, Plain
  <1>7. \A i \in 1..1 : s[i].name \in EarlyNames
    BY <1>2 DEF S, EarlyNames
  <1>8. \A y \in All(s) : y.name \in EarlyNames
    BY <1>1, <1>7 DEF All
  <1> QED BY <1>3, <1>4, <1>6, <1>8 DEF s

\* udev has what it needs, and the disk is there once it has settled.
LEMMA DevicesSafe ==
  /\ Devices \in Seq(StepOf) /\ Plain(Devices)
  /\ \A y \in All(Devices) : y.name \in EarlyNames
  /\ \A A :
       /\ Given(A, "proc") /\ Given(A, "dev")
       => AllSafe(Devices, A)
PROOF
  <1> DEFINE s == Devices
  <1>1. Len(s) = 6
    BY DEF Devices
  <1>2. /\ s[1] = S("read", "version", {"proc"})
        /\ s[2] = S("command", "udevd", {"dev"})
        /\ s[3] = S("command", "sysctl", {"proc"})
        /\ s[4] = S("command", "subsystems", {"udevd"})
        /\ s[5] = S("command", "devices", {"udevd"})
        /\ s[6] = S("command", "settle", {"udevd"})
    BY DEF Devices
  <1>3. s \in Seq(StepOf)
    <2>1. \A i \in 1..6 : s[i] \in StepOf
      BY <1>1 DEF All, StepOf
    <2> QED BY <2>1 DEF Devices
  <1> HIDE DEF s
  <1>4. ASSUME NEW A, Given(A, "proc"), Given(A, "dev")
        PROVE  AllSafe(s, A)
    <2>1. Given(A \cup Before(s, 1), "proc")
      BY <1>4 DEF Given
    <2>2. Given(A \cup Before(s, 2), "dev")
      BY <1>4 DEF Given
    <2>3. Given(A \cup Before(s, 3), "proc")
      BY <1>4 DEF Given
    <2>4. Given(A \cup Before(s, 4), "udevd")
      BY <1>2, <1>4 DEF Given, Before, Adds, S
    <2>5. Given(A \cup Before(s, 5), "udevd")
      BY <1>2, <1>4 DEF Given, Before, Adds, S
    <2>6. Given(A \cup Before(s, 6), "udevd")
      BY <1>2, <1>4 DEF Given, Before, Adds, S
    <2>s. ASSUME NEW k \in 1..6 PROVE Safe(s[k], A \cup Before(s, k))
      <3>0. k = 1 \/ k = 2 \/ k = 3 \/ k = 4 \/ k = 5 \/ k = 6
        OBVIOUS
      <3>1. Safe(s[1], A \cup Before(s, 1))
        BY <1>2, <2>1 DEF Safe, S
      <3>2. Safe(s[2], A \cup Before(s, 2))
        BY <1>2, <2>2 DEF Safe, S
      <3>3. Safe(s[3], A \cup Before(s, 3))
        BY <1>2, <2>3 DEF Safe, S
      <3>4. Safe(s[4], A \cup Before(s, 4))
        BY <1>2, <2>4 DEF Safe, S
      <3>5. Safe(s[5], A \cup Before(s, 5))
        BY <1>2, <2>5 DEF Safe, S
      <3>6. Safe(s[6], A \cup Before(s, 6))
        BY <1>2, <2>6 DEF Safe, S
      <3> QED BY <3>0, <3>1, <3>2, <3>3, <3>4, <3>5, <3>6
    <2> QED BY <1>1, <2>s DEF AllSafe
  <1>5. \A i \in 1..6 : /\ s[i].do \in Kinds /\ s[i].name # "old"
                        /\ s[i].do = "allow_mkdir_disk" => s[i].name \in OnDisk
    BY <1>2 DEF S, Kinds, OnDisk
  <1>6. Plain(s)
    BY <1>1, <1>5 DEF All, Plain
  <1>7. \A i \in 1..6 : s[i].name \in EarlyNames
    BY <1>2 DEF S, EarlyNames
  <1>8. \A y \in All(s) : y.name \in EarlyNames
    BY <1>1, <1>7 DEF All
  <1> QED BY <1>3, <1>4, <1>6, <1>8 DEF s

\* The new root is mounted on a directory that was made for it.
LEMMA MadeRootSafe ==
  /\ MadeRoot \in Seq(StepOf) /\ Plain(MadeRoot)
  /\ \A A :
       /\ (\A y \in A : y.name # "/_next-root")
       => AllSafe(MadeRoot, A)
PROOF
  <1> DEFINE s == MadeRoot
  <1>1. Len(s) = 2
    BY DEF MadeRoot
  <1>2. /\ s[1] = S("mkdir", "/_next-root", {})
        /\ s[2] = S("mount", "next", {"/_next-root"})
    BY DEF MadeRoot
  <1>3. s \in Seq(StepOf)
    <2>1. \A i \in 1..2 : s[i] \in StepOf
      BY <1>1 DEF All, StepOf
    <2> QED BY <2>1 DEF MadeRoot
  <1> HIDE DEF s
  <1>4. ASSUME NEW A, (\A y \in A : y.name # "/_next-root")
        PROVE  AllSafe(s, A)
    <2>2. Given(A \cup Before(s, 2), "/_next-root")
      BY <1>2, <1>4 DEF Given, Before, Adds, S
    <2>s. ASSUME NEW k \in 1..2 PROVE Safe(s[k], A \cup Before(s, k))
      <3>0. k = 1 \/ k = 2
        OBVIOUS
      <3>1. Safe(s[1], A \cup Before(s, 1))
        BY <1>2, <1>4 DEF Safe, S, Before, OnDisk, Store
      <3>2. Safe(s[2], A \cup Before(s, 2))
        BY <1>2, <2>2 DEF Safe, S
      <3> QED BY <3>0, <3>1, <3>2
    <2> QED BY <1>1, <2>s DEF AllSafe
  <1>5. \A i \in 1..2 : /\ s[i].do \in Kinds /\ s[i].name # "old"
                        /\ s[i].do = "allow_mkdir_disk" => s[i].name \in OnDisk
    BY <1>2 DEF S, Kinds, OnDisk
  <1>6. Plain(s)
    BY <1>1, <1>5 DEF All, Plain
  <1> QED BY <1>3, <1>4, <1>6 DEF s

\* /tmp of the new root is mounted on its directory.
LEMMA TmpSafe ==
  /\ MountedTmp \in Seq(StepOf) /\ Plain(MountedTmp)
  /\ \A A :
       /\ Given(A, "tmp/")
       => AllSafe(MountedTmp, A)
PROOF
  <1> DEFINE s == MountedTmp
  <1>1. Len(s) = 1
    BY DEF MountedTmp
  <1>2. /\ s[1] = S("mount", "tmp", {"tmp/"})
    BY DEF MountedTmp
  <1>3. s \in Seq(StepOf)
    <2>1. \A i \in 1..1 : s[i] \in StepOf
      BY <1>1 DEF All, StepOf
    <2> QED BY <2>1 DEF MountedTmp
  <1> HIDE DEF s
  <1>4. ASSUME NEW A, Given(A, "tmp/")
        PROVE  AllSafe(s, A)
    <2>1. Given(A \cup Before(s, 1), "tmp/")
      BY <1>4 DEF Given
    <2>s. ASSUME NEW k \in 1..1 PROVE Safe(s[k], A \cup Before(s, k))
      <3>1. Safe(s[1], A \cup Before(s, 1))
        BY <1>2, <2>1 DEF Safe, S
      <3> QED BY <3>1
    <2> QED BY <1>1, <2>s DEF AllSafe
  <1>5. \A i \in 1..1 : /\ s[i].do \in Kinds /\ s[i].name # "old"
                        /\ s[i].do = "allow_mkdir_disk" => s[i].name \in OnDisk
    BY <1>2 DEF S, Kinds, OnDisk
  <1>6. Plain(s)
    BY <1>1, <1>5 DEF All, Plain
  <1> QED BY <1>3, <1>4, <1>6 DEF s

\* The kernel modules need nothing.
LEMMA ModulesSafe ==
  /\ Modules \in Seq(StepOf) /\ Plain(Modules)
  /\ \A A : AllSafe(Modules, A)
PROOF
  <1> DEFINE s == Modules
  <1>1. Len(s) = 4
    BY DEF Modules
  <1>2. /\ s[1] = S("command", "squashfs", {})
        /\ s[2] = S("command", "overlay", {})
        /\ s[3] = S("command", "ext4", {})
        /\ s[4] = S("command", "loop", {})
    BY DEF Modules
  <1>3. s \in Seq(StepOf)
    <2>1. \A i \in 1..4 : s[i] \in StepOf
      BY <1>1 DEF All, StepOf
    <2> QED BY <2>1 DEF Modules
  <1> HIDE DEF s
  <1>4. ASSUME NEW A PROVE AllSafe(s, A)
    <2>s. ASSUME NEW k \in 1..4 PROVE Safe(s[k], A \cup Before(s, k))
      <3>0. k = 1 \/ k = 2 \/ k = 3 \/ k = 4
        OBVIOUS
      <3>1. Safe(s[1], A \cup Before(s, 1))
        BY <1>2 DEF Safe, S
      <3>2. Safe(s[2], A \cup Before(s, 2))
        BY <1>2 DEF Safe, S
      <3>3. Safe(s[3], A \cup Before(s, 3))
        BY <1>2 DEF Safe, S
      <3>4. Safe(s[4], A \cup Before(s, 4))
        BY <1>2 DEF Safe, S
      <3> QED BY <3>0, <3>1, <3>2, <3>3, <3>4
    <2> QED BY <1>1, <2>s DEF AllSafe
  <1>5. \A i \in 1..4 : /\ s[i].do \in Kinds /\ s[i].name # "old"
                        /\ s[i].do = "allow_mkdir_disk" => s[i].name \in OnDisk
    BY <1>2 DEF S, Kinds, OnDisk
  <1>6. Plain(s)
    BY <1>1, <1>5 DEF All, Plain
  <1> QED BY <1>3, <1>4, <1>6 DEF s

\* The persistent disk is mounted before anything on it is used.
LEMMA PersistSafe ==
  ASSUME Persist
  PROVE  /\ PersistentDisk \in Seq(StepOf) /\ Plain(PersistentDisk)
         /\ \A A :
              /\ Given(A, "persist/") /\ Given(A, "settle") /\ Given(A, "ext4")
              /\ Given(A, "next") /\ Given(A, "loop")
              => AllSafe(PersistentDisk, A)
PROOF
  <1> DEFINE s == PersistentDisk
  <1>1. Len(s) = 5
    BY Persist DEF PersistentDisk, If, PersistDir
  <1>2. /\ s[1] = S("mount", "persist", {"persist/", "settle", "ext4"})
        /\ s[2] = S("allow_mkdir_disk", "persist/var", {"persist"})
        /\ s[3] = S("allow_mkdir", "var/", {"next"})
        /\ s[4] = S("mount", "var", {"persist/var", "var/"})
        /\ s[5] = S("command", "/dev/loop0", {"loop", "persist/nix-store.squashfs"})
    BY Persist DEF PersistentDisk, If, PersistDir
  <1>3. s \in Seq(StepOf)
    <2>1. \A i \in 1..5 : s[i] \in StepOf
      BY <1>1 DEF All, StepOf
    <2> QED BY <2>1, Persist DEF PersistentDisk, If, PersistDir
  <1> HIDE DEF s
  <1>4. ASSUME NEW A, Given(A, "persist/"), Given(A, "settle"), Given(A, "ext4"), Given(A, "next"),
               Given(A, "loop")
        PROVE  AllSafe(s, A)
    <2>1. /\ Given(A \cup Before(s, 1), "persist/")
          /\ Given(A \cup Before(s, 1), "settle")
          /\ Given(A \cup Before(s, 1), "ext4")
      BY <1>4 DEF Given
    <2>2. Given(A \cup Before(s, 2), "persist")
      BY <1>2, <1>4 DEF Given, Before, Adds, S
    <2>3. Given(A \cup Before(s, 3), "next")
      BY <1>4 DEF Given
    <2>4. /\ GivenOnDisk(A \cup Before(s, 4), "persist/var")
          /\ Given(A \cup Before(s, 4), "var/")
      BY <1>2, <1>4 DEF Given, Before, Adds, S, GivenOnDisk, Store
    <2>5. /\ Given(A \cup Before(s, 5), "loop")
          /\ GivenOnDisk(A \cup Before(s, 5), "persist/nix-store.squashfs")
      BY <1>2, <1>4 DEF Given, Before, Adds, S, GivenOnDisk, Store
    <2>s. ASSUME NEW k \in 1..5 PROVE Safe(s[k], A \cup Before(s, k))
      <3>0. k = 1 \/ k = 2 \/ k = 3 \/ k = 4 \/ k = 5
        OBVIOUS
      <3>1. Safe(s[1], A \cup Before(s, 1))
        BY <1>2, <2>1 DEF Safe, S
      <3>2. Safe(s[2], A \cup Before(s, 2))
        BY <1>2, <2>2 DEF Safe, S
      <3>3. Safe(s[3], A \cup Before(s, 3))
        BY <1>2, <2>3 DEF Safe, S
      <3>4. Safe(s[4], A \cup Before(s, 4))
        BY <1>2, <2>4 DEF Safe, S
      <3>5. Safe(s[5], A \cup Before(s, 5))
        BY <1>2, <2>5 DEF Safe, S
      <3> QED BY <3>0, <3>1, <3>2, <3>3, <3>4, <3>5
    <2> QED BY <1>1, <2>s DEF AllSafe
  <1>5. \A i \in 1..5 : /\ s[i].do \in Kinds /\ s[i].name # "old"
                        /\ s[i].do = "allow_mkdir_disk" => s[i].name \in OnDisk
    BY <1>2 DEF S, Kinds, OnDisk
  <1>6. Plain(s)
    BY <1>1, <1>5 DEF All, Plain
  <1> QED BY <1>3, <1>4, <1>6 DEF s

\* The upper layer of the store, on the persistent disk, is made below its directory.
LEMMA RwPersistSafe ==
  ASSUME Persist
  PROVE  /\ RwStore \in Seq(StepOf) /\ Plain(RwStore)
         /\ \A A :
              /\ Given(A, "persist") /\ GivenOnDisk(A, Store)
              => AllSafe(RwStore, A)
PROOF
  <1> DEFINE s == RwStore
  <1>1. Len(s) = 3
    BY Persist DEF RwStore, If, PersistDir
  <1>2. /\ s[1] = S("allow_mkdir_disk", "persist/.rw-store", {"persist"})
        /\ s[2] = S("allow_mkdir_disk", "rw-store/store", {"persist/.rw-store"})
        /\ s[3] = S("allow_mkdir_disk", "rw-store/work", {"persist/.rw-store"})
    BY Persist DEF RwStore, If, PersistDir
  <1>3. s \in Seq(StepOf)
    <2>1. \A i \in 1..3 : s[i] \in StepOf
      BY <1>1 DEF All, StepOf
    <2> QED BY <2>1, Persist DEF RwStore, If, PersistDir
  <1> HIDE DEF s
  <1>4. ASSUME NEW A, Given(A, "persist"), GivenOnDisk(A, Store)
        PROVE  AllSafe(s, A)
    <2>1. Given(A \cup Before(s, 1), "persist")
      BY <1>4 DEF Given
    <2>2. GivenOnDisk(A \cup Before(s, 2), "persist/.rw-store")
      BY <1>2, <1>4 DEF Given, Before, Adds, S, GivenOnDisk, Store
    <2>3. GivenOnDisk(A \cup Before(s, 3), "persist/.rw-store")
      BY <1>2, <1>4 DEF Given, Before, Adds, S, GivenOnDisk, Store
    <2>s. ASSUME NEW k \in 1..3 PROVE Safe(s[k], A \cup Before(s, k))
      <3>0. k = 1 \/ k = 2 \/ k = 3
        OBVIOUS
      <3>1. Safe(s[1], A \cup Before(s, 1))
        BY <1>2, <2>1 DEF Safe, S
      <3>2. Safe(s[2], A \cup Before(s, 2))
        BY <1>2, <2>2 DEF Safe, S
      <3>3. Safe(s[3], A \cup Before(s, 3))
        BY <1>2, <2>3 DEF Safe, S
      <3> QED BY <3>0, <3>1, <3>2, <3>3
    <2> QED BY <1>1, <2>s DEF AllSafe
  <1>5. \A i \in 1..3 : /\ s[i].do \in Kinds /\ s[i].name # "old"
                        /\ s[i].do = "allow_mkdir_disk" => s[i].name \in OnDisk
    BY <1>2 DEF S, Kinds, OnDisk
  <1>6. Plain(s)
    BY <1>1, <1>5 DEF All, Plain
  <1> QED BY <1>3, <1>4, <1>6 DEF s

\* The upper layer of the store, in memory, is made below its directory.
LEMMA RwSafe ==
  ASSUME ~Persist
  PROVE  /\ RwStore \in Seq(StepOf) /\ Plain(RwStore)
         /\ \A A :
              /\ Given(A, "nix/.rw-store/")
              => AllSafe(RwStore, A)
PROOF
  <1> DEFINE s == RwStore
  <1>1. Len(s) = 2
    BY ~Persist DEF RwStore, If, PersistDir
  <1>2. /\ s[1] = S("allow_mkdir", "rw-store/store", {"nix/.rw-store/"})
        /\ s[2] = S("allow_mkdir", "rw-store/work", {"nix/.rw-store/"})
    BY ~Persist DEF RwStore, If, PersistDir
  <1>3. s \in Seq(StepOf)
    <2>1. \A i \in 1..2 : s[i] \in StepOf
      BY <1>1 DEF All, StepOf
    <2> QED BY <2>1, ~Persist DEF RwStore, If, PersistDir
  <1> HIDE DEF s
  <1>4. ASSUME NEW A, Given(A, "nix/.rw-store/")
        PROVE  AllSafe(s, A)
    <2>1. Given(A \cup Before(s, 1), "nix/.rw-store/")
      BY <1>4 DEF Given
    <2>2. Given(A \cup Before(s, 2), "nix/.rw-store/")
      BY <1>4 DEF Given
    <2>s. ASSUME NEW k \in 1..2 PROVE Safe(s[k], A \cup Before(s, k))
      <3>0. k = 1 \/ k = 2
        OBVIOUS
      <3>1. Safe(s[1], A \cup Before(s, 1))
        BY <1>2, <2>1 DEF Safe, S
      <3>2. Safe(s[2], A \cup Before(s, 2))
        BY <1>2, <2>2 DEF Safe, S
      <3> QED BY <3>0, <3>1, <3>2
    <2> QED BY <1>1, <2>s DEF AllSafe
  <1>5. \A i \in 1..2 : /\ s[i].do \in Kinds /\ s[i].name # "old"
                        /\ s[i].do = "allow_mkdir_disk" => s[i].name \in OnDisk
    BY <1>2 DEF S, Kinds, OnDisk
  <1>6. Plain(s)
    BY <1>1, <1>5 DEF All, Plain
  <1> QED BY <1>3, <1>4, <1>6 DEF s

\* The stores and the filesystems of the host have their devices and directories.
LEMMA StoresSafe ==
  /\ MountStores \in Seq(StepOf) /\ Plain(MountStores)
  /\ \A A :
       /\ Given(A, RootDevice) /\ Given(A, "squashfs") /\ Given(A, "overlay") /\ Given(A, "dev")
       /\ Given(A, "sys") /\ Given(A, "proc") /\ Given(A, "run") /\ Given(A, "dev/")
       /\ Given(A, "sys/") /\ Given(A, "proc/") /\ Given(A, "run/") /\ Given(A, "nix/.ro-store/")
       /\ Given(A, "nix/.rw-store/") /\ Given(A, "nix/store/") /\ Got(A, "rw-store/store")
       /\ Got(A, "rw-store/work") /\ RootDevice # "old"
       => AllSafe(MountStores, A)
PROOF
  <1> DEFINE s == MountStores
  <1>1. Len(s) = 7
    BY DEF MountStores
  <1>2. /\ s[1] = S("mount", "ro-store", {RootDevice, "nix/.ro-store/", "squashfs"})
        /\ s[2] = S("mount", "next/dev", {"dev", "dev/"})
        /\ s[3] = S("mount", "next/sys", {"sys", "sys/"})
        /\ s[4] = S("mount", "next/proc", {"proc", "proc/"})
        /\ s[5] = S("mount", "next/run", {"run", "run/"})
        /\ s[6] = S("read", "visit_dirs", {"nix/.rw-store/"})
        /\ s[7] = S("mount", "store", {"ro-store", "rw-store/store", "rw-store/work", "nix/store/", "overlay"})
    BY DEF MountStores
  <1>3. s \in Seq(StepOf)
    <2>1. \A i \in 1..7 : s[i] \in StepOf
      BY <1>1 DEF All, StepOf
    <2> QED BY <2>1 DEF MountStores
  <1> HIDE DEF s
  <1>4. ASSUME NEW A, Given(A, RootDevice), Given(A, "squashfs"), Given(A, "overlay"), Given(A, "dev"),
               Given(A, "sys"), Given(A, "proc"), Given(A, "run"), Given(A, "dev/"),
               Given(A, "sys/"), Given(A, "proc/"), Given(A, "run/"), Given(A, "nix/.ro-store/"),
               Given(A, "nix/.rw-store/"), Given(A, "nix/store/"), Got(A, "rw-store/store"),
               Got(A, "rw-store/work"), RootDevice # "old"
        PROVE  AllSafe(s, A)
    <2>1. /\ Given(A \cup Before(s, 1), RootDevice)
          /\ Given(A \cup Before(s, 1), "nix/.ro-store/")
          /\ Given(A \cup Before(s, 1), "squashfs")
      BY <1>4 DEF Given
    <2>2. /\ Given(A \cup Before(s, 2), "dev")
          /\ Given(A \cup Before(s, 2), "dev/")
      BY <1>4 DEF Given
    <2>3. /\ Given(A \cup Before(s, 3), "sys")
          /\ Given(A \cup Before(s, 3), "sys/")
      BY <1>4 DEF Given
    <2>4. /\ Given(A \cup Before(s, 4), "proc")
          /\ Given(A \cup Before(s, 4), "proc/")
      BY <1>4 DEF Given
    <2>5. /\ Given(A \cup Before(s, 5), "run")
          /\ Given(A \cup Before(s, 5), "run/")
      BY <1>4 DEF Given
    <2>6. Given(A \cup Before(s, 6), "nix/.rw-store/")
      BY <1>4 DEF Given
    <2>7. /\ Given(A \cup Before(s, 7), "ro-store")
          /\ Got(A \cup Before(s, 7), "rw-store/store")
          /\ Got(A \cup Before(s, 7), "rw-store/work")
          /\ Given(A \cup Before(s, 7), "nix/store/")
          /\ Given(A \cup Before(s, 7), "overlay")
      <3>1. Given(A \cup Before(s, 7), "ro-store")
        BY <1>2 DEF Given, Before, Adds, S
      <3>2. /\ Got(A \cup Before(s, 7), "rw-store/store")
            /\ Got(A \cup Before(s, 7), "rw-store/work")
            /\ Given(A \cup Before(s, 7), "nix/store/")
            /\ Given(A \cup Before(s, 7), "overlay")
        BY <1>4 DEF Given, GivenOnDisk, Got
      <3> QED BY <3>1, <3>2
    <2>s. ASSUME NEW k \in 1..7 PROVE Safe(s[k], A \cup Before(s, k))
      <3>0. k = 1 \/ k = 2 \/ k = 3 \/ k = 4 \/ k = 5 \/ k = 6 \/ k = 7
        OBVIOUS
      <3>1. Safe(s[1], A \cup Before(s, 1))
        BY <1>2, <2>1, <1>4 DEF Safe, S, Got
      <3>2. Safe(s[2], A \cup Before(s, 2))
        BY <1>2, <2>2 DEF Safe, S, Got
      <3>3. Safe(s[3], A \cup Before(s, 3))
        BY <1>2, <2>3 DEF Safe, S, Got
      <3>4. Safe(s[4], A \cup Before(s, 4))
        BY <1>2, <2>4 DEF Safe, S, Got
      <3>5. Safe(s[5], A \cup Before(s, 5))
        BY <1>2, <2>5 DEF Safe, S, Got
      <3>6. Safe(s[6], A \cup Before(s, 6))
        BY <1>2, <2>6 DEF Safe, S, Got
      <3>7. Safe(s[7], A \cup Before(s, 7))
        BY <1>2, <2>7 DEF Safe, S, Got
      <3> QED BY <3>0, <3>1, <3>2, <3>3, <3>4, <3>5, <3>6, <3>7
    <2> QED BY <1>1, <2>s DEF AllSafe
  <1>5. \A i \in 1..7 : /\ s[i].do \in Kinds /\ s[i].name # "old"
                        /\ s[i].do = "allow_mkdir_disk" => s[i].name \in OnDisk
    BY <1>2 DEF S, Kinds, OnDisk
  <1>6. Plain(s)
    BY <1>1, <1>5 DEF All, Plain
  <1> QED BY <1>3, <1>4, <1>6 DEF s

\* The move to the new root needs it to be mounted.
LEMMA SwitchSafe ==
  /\ SwitchRoot \in Seq(StepOf)
  /\ \A A :
       /\ Given(A, "next") /\ Given(A, ".old/")
       => AllSafe(SwitchRoot, A)
PROOF
  <1> DEFINE s == SwitchRoot
  <1>1. Len(s) = 6
    BY DEF SwitchRoot
  <1>2. /\ s[1] = S("read", "chdir", {"next"})
        /\ s[2] = S("mount", "old", {".old/"})
        /\ s[3] = S("mount", "root", {"next"})
        /\ s[4] = S("read", "chroot", {"root"})
        /\ s[5] = S("umount", "old", {"old"})
        /\ s[6] = S("exec", "init", {})
    BY DEF SwitchRoot
  <1>3. s \in Seq(StepOf)
    <2>1. \A i \in 1..6 : s[i] \in StepOf
      BY <1>1 DEF All, StepOf
    <2> QED BY <2>1 DEF SwitchRoot
  <1> HIDE DEF s
  <1>4. ASSUME NEW A, Given(A, "next"), Given(A, ".old/")
        PROVE  AllSafe(s, A)
    <2>1. Given(A \cup Before(s, 1), "next")
      BY <1>4 DEF Given
    <2>2. Given(A \cup Before(s, 2), ".old/")
      BY <1>4 DEF Given
    <2>3. Given(A \cup Before(s, 3), "next")
      BY <1>4 DEF Given
    <2>4. Given(A \cup Before(s, 4), "root")
      BY <1>2, <1>4 DEF Given, Before, Adds, S
    <2>5. Given(A \cup Before(s, 5), "old")
      BY <1>2, <1>4 DEF Given, Before, Adds, S
    <2>s. ASSUME NEW k \in 1..6 PROVE Safe(s[k], A \cup Before(s, k))
      <3>0. k = 1 \/ k = 2 \/ k = 3 \/ k = 4 \/ k = 5 \/ k = 6
        OBVIOUS
      <3>1. Safe(s[1], A \cup Before(s, 1))
        BY <1>2, <2>1 DEF Safe, S
      <3>2. Safe(s[2], A \cup Before(s, 2))
        BY <1>2, <2>2 DEF Safe, S
      <3>3. Safe(s[3], A \cup Before(s, 3))
        BY <1>2, <2>3 DEF Safe, S
      <3>4. Safe(s[4], A \cup Before(s, 4))
        BY <1>2, <2>4 DEF Safe, S
      <3>5. Safe(s[5], A \cup Before(s, 5))
        BY <1>2, <2>5 DEF Safe, S
      <3>6. Safe(s[6], A \cup Before(s, 6))
        BY <1>2 DEF Safe, S
      <3> QED BY <3>0, <3>1, <3>2, <3>3, <3>4, <3>5, <3>6
    <2> QED BY <1>1, <2>s DEF AllSafe
  <1> QED BY <1>3, <1>4 DEF s

\* The directories of the new root are made below ones that were made before.
LEMMA DirsSafe ==
  /\ MakeRootDirs \in Seq(StepOf) /\ Plain(MakeRootDirs)
  /\ \A i \in 1..13 : MakeRootDirs[i] \in All(MakeRootDirs)
  /\ \A A : Given(A, "next") /\ (\A y \in A : \A i \in 1..13 : y.name # RootDirs[i])
       => AllSafe(MakeRootDirs, A)
PROOF
  <1> DEFINE s == MakeRootDirs
  <1>1. /\ DOMAIN s = 1..13
        /\ \A i \in 1..13 : /\ s[i].do = "mkdir" /\ s[i].name = RootDirs[i]
                            /\ s[i].needs = IF i \in {4, 11, 12} THEN {"nix/"} ELSE {"next"}
    BY DEF MakeRootDirs, S
  <1>2. s \in Seq({s[i] : i \in 1..13})
    BY DEF MakeRootDirs
  <1>3. Len(s) = 13
    BY <1>1, <1>2
  <1>4. s \in Seq(StepOf)
    BY <1>2, <1>3 DEF All, StepOf
  <1> HIDE DEF s
  <1>5. ASSUME NEW A, Given(A, "next"), \A y \in A : \A i \in 1..13 : y.name # RootDirs[i]
        PROVE  AllSafe(s, A)
    <2> SUFFICES ASSUME NEW k \in 1..13 PROVE Safe(s[k], A \cup Before(s, k))
      BY <1>3 DEF AllSafe
    <2> DEFINE B == A \cup Before(s, k)
    <2>1. \A y \in B : y.name # s[k].name
      <3>1. \A j \in 1..(k - 1) : j \in 1..13 /\ s[j].name # s[k].name
        BY <1>1, DirsDiffer
      <3> QED BY <1>1, <1>5, <3>1 DEF Before
    <2>2. s[k].name \notin OnDisk \cup {"/dev/sda1"}
      BY <1>1, DirsDiffer
    <2>3. CASE k \in {4, 11, 12}
      <3>1. s[3] \in B /\ s[3].do = "mkdir" /\ s[3].name = "nix/"
        BY <1>1, <2>3 DEF Before, RootDirs
      <3>2. Given(B, "nix/")
        BY <3>1 DEF Given, Adds
      <3>3. s[k].needs = {"nix/"} /\ s[k].do = "mkdir"
        BY <1>1, <2>3
      <3> HIDE DEF B
      <3>4. Safe(s[k], B)
        BY <2>1, <2>2, <3>2, <3>3 DEF Safe
      <3> QED BY <3>4 DEF B
    <2>4. CASE k \notin {4, 11, 12}
      <3>1. Given(B, "next")
        BY <1>5 DEF Given
      <3>2. s[k].needs = {"next"} /\ s[k].do = "mkdir"
        BY <1>1, <2>4
      <3> HIDE DEF B
      <3>3. Safe(s[k], B)
        BY <2>1, <2>2, <3>1, <3>2 DEF Safe
      <3> QED BY <3>3 DEF B
    <2> QED BY <2>3, <2>4
  <1>6. Plain(s)
    BY <1>1, <1>3, DirsDiffer DEF Plain, All, Kinds
  <1>7. \A i \in 1..13 : s[i] \in All(s)
    BY <1>3 DEF All
  <1> QED BY <1>4, <1>5, <1>6, <1>7 DEF s

\* A list without steps.
LEMMA NoSteps ==
  /\ <<>> \in Seq(StepOf) /\ Plain(<<>>) /\ All(<<>>) = {}
  /\ \A A : AllSafe(<<>>, A)
BY DEF Plain, All, AllSafe

\* NextRoot, after steps that give none of its names.
LEMMA NextRootSafe ==
  /\ NextRoot \in Seq(StepOf) /\ Plain(NextRoot)
  /\ All(NextRoot) = All(MadeRoot) \cup All(MakeRootDirs) \cup All(MountedTmp)
  /\ \A A : (\A y \in A : y.name \in EarlyNames) => AllSafe(NextRoot, A)
PROOF
  <1> DEFINE a == MadeRoot
             b == MakeRootDirs
             c == MountedTmp
             ab == a \o b
  <1>1. NextRoot = ab \o c
    BY DEF NextRoot, MadeRoot, MountedTmp
  <1>2. a \in Seq(StepOf) /\ b \in Seq(StepOf) /\ c \in Seq(StepOf)
    BY MadeRootSafe, DirsSafe, TmpSafe
  <1>3. Plain(a) /\ Plain(b) /\ Plain(c)
    BY MadeRootSafe, DirsSafe, TmpSafe
  <1>4. Len(a) = 2 /\ a[1].name = "/_next-root" /\ a[2].do = "mount" /\ a[2].name = "next"
    BY DEF MadeRoot, S
  <1>5. b[9].do = "mkdir" /\ b[9].name = "tmp/" /\ b[9] \in All(b)
    BY DirsSafe DEF MakeRootDirs, RootDirs, S
  <1>6. ASSUME NEW A, \A y \in A : y.name \in EarlyNames
        PROVE  AllSafe(a, A) /\ AllSafe(b, A \cup All(a)) /\ AllSafe(c, (A \cup All(a)) \cup All(b))
    <2>1. \A y \in A : y.name # "/_next-root" /\ \A i \in 1..13 : y.name # RootDirs[i]
      BY <1>6, DirsDiffer DEF EarlyNames
    <2>2. AllSafe(a, A)
      BY <2>1, MadeRootSafe
    <2>3. All(a) = {a[1], a[2]}
      BY <1>4 DEF All
    <2>4. Given(A \cup All(a), "next")
      BY <1>4, <2>3 DEF Given, Adds
    <2>5. \A y \in A \cup All(a) : \A i \in 1..13 : y.name # RootDirs[i]
      BY <1>4, <2>1, <2>3, DirsDiffer
    <2>6. AllSafe(b, A \cup All(a))
      BY <2>4, <2>5, DirsSafe
    <2>7. Given((A \cup All(a)) \cup All(b), "tmp/")
      BY <1>5 DEF Given, Adds
    <2>8. AllSafe(c, (A \cup All(a)) \cup All(b))
      BY <2>7, TmpSafe
    <2> QED BY <2>2, <2>6, <2>8
  <1> HIDE DEF a, b, c
  <1>7. ab \in Seq(StepOf) /\ All(ab) = All(a) \cup All(b) /\ Plain(ab)
    BY <1>2, <1>3, JoinsAll
  <1>8. ASSUME NEW A, \A y \in A : y.name \in EarlyNames PROVE AllSafe(ab \o c, A)
    <2>1. AllSafe(ab, A)
      BY <1>2, <1>6, <1>8, Joins
    <2>2. A \cup All(ab) = (A \cup All(a)) \cup All(b)
      BY <1>7
    <2> HIDE DEF ab
    <2> QED BY <1>2, <1>6, <1>7, <1>8, <2>1, <2>2, Joins
  <1> HIDE DEF ab
  <1>9. ab \o c \in Seq(StepOf) /\ All(ab \o c) = All(ab) \cup All(c) /\ Plain(ab \o c)
    BY <1>2, <1>3, <1>7, JoinsAll
  <1>10. All(NextRoot) = All(a) \cup All(b) \cup All(c)
    BY <1>1, <1>7, <1>9
  <1>11. \A A : (\A y \in A : y.name \in EarlyNames) => AllSafe(NextRoot, A)
    BY <1>1, <1>8
  <1> QED BY <1>1, <1>9, <1>10, <1>11 DEF a, b, c

-------------------------------------------------------------------------------

ToDevices == (PseudoFilesystems \o LinkRoot) \o Devices

ToModules == (ToDevices \o NextRoot) \o Modules

ToStore == (ToModules \o PersistentDisk) \o RwStore

Body == ToStore \o MountStores

\* The parts of main2 are lists of steps.
LEMMA Segments ==
  /\ PseudoFilesystems \in Seq(StepOf) /\ Plain(PseudoFilesystems)
  /\ LinkRoot \in Seq(StepOf) /\ Plain(LinkRoot) /\ \A y \in All(LinkRoot) : y.name \in EarlyNames
  /\ Devices \in Seq(StepOf) /\ Plain(Devices)
  /\ NextRoot \in Seq(StepOf) /\ Plain(NextRoot)
  /\ Modules \in Seq(StepOf) /\ Plain(Modules)
  /\ PersistentDisk \in Seq(StepOf) /\ Plain(PersistentDisk)
  /\ RwStore \in Seq(StepOf) /\ Plain(RwStore)
  /\ MountStores \in Seq(StepOf) /\ Plain(MountStores)
  /\ SwitchRoot \in Seq(StepOf)
PROOF
  <1>1. LinkRoot \in Seq(StepOf) /\ Plain(LinkRoot) /\ \A y \in All(LinkRoot) : y.name \in EarlyNames
    <2>1. CASE cmdline.root # "none"
      BY <2>1, LinkSafe
    <2>2. CASE ~(cmdline.root # "none")
      <3>1. LinkRoot = <<>>
        BY <2>2 DEF LinkRoot, If
      <3> QED BY <3>1, NoSteps
    <2> QED BY <2>1, <2>2
  <1>2. PersistentDisk \in Seq(StepOf) /\ Plain(PersistentDisk)
    <2>1. CASE Persist
      BY <2>1, PersistSafe
    <2>2. CASE ~Persist
      <3>1. PersistentDisk = <<>>
        BY <2>2 DEF PersistentDisk, If
      <3> QED BY <3>1, NoSteps
    <2> QED BY <2>1, <2>2
  <1>3. RwStore \in Seq(StepOf) /\ Plain(RwStore)
    BY RwSafe, RwPersistSafe
  <1> QED BY <1>1, <1>2, <1>3, PseudoSafe, DevicesSafe, NextRootSafe, ModulesSafe, StoresSafe, SwitchSafe

\* main2 up to the move to the new root is a list of steps that mount, make and read.
LEMMA BodyShape ==
  /\ ToDevices \in Seq(StepOf) /\ Plain(ToDevices)
  /\ All(ToDevices) = All(PseudoFilesystems) \cup All(LinkRoot) \cup All(Devices)
  /\ ToModules \in Seq(StepOf) /\ Plain(ToModules)
  /\ All(ToModules) = All(ToDevices) \cup All(NextRoot) \cup All(Modules)
  /\ ToStore \in Seq(StepOf) /\ Plain(ToStore)
  /\ All(ToStore) = All(ToModules) \cup All(PersistentDisk) \cup All(RwStore)
  /\ Body \in Seq(StepOf) /\ Plain(Body)
  /\ All(Body) = All(ToStore) \cup All(MountStores)
  /\ Main2 = Body \o SwitchRoot
PROOF
  <1>1. ASSUME NEW s \in Seq(StepOf), Plain(s), NEW t \in Seq(StepOf), Plain(t),
               NEW u \in Seq(StepOf), Plain(u)
        PROVE  /\ (s \o t) \o u \in Seq(StepOf) /\ Plain((s \o t) \o u)
               /\ All((s \o t) \o u) = All(s) \cup All(t) \cup All(u)
    <2> DEFINE st == s \o t
    <2>1. st \in Seq(StepOf) /\ Plain(st) /\ All(st) = All(s) \cup All(t)
      BY <1>1, JoinsAll
    <2> HIDE DEF st
    <2>2. st \o u \in Seq(StepOf) /\ Plain(st \o u) /\ All(st \o u) = All(st) \cup All(u)
      BY <1>1, <2>1, JoinsAll
    <2> QED BY <2>1, <2>2 DEF st
  <1>2. /\ ToDevices \in Seq(StepOf) /\ Plain(ToDevices)
        /\ All(ToDevices) = All(PseudoFilesystems) \cup All(LinkRoot) \cup All(Devices)
    BY <1>1, Segments DEF ToDevices
  <1>3. /\ ToModules \in Seq(StepOf) /\ Plain(ToModules)
        /\ All(ToModules) = All(ToDevices) \cup All(NextRoot) \cup All(Modules)
    <2>1. /\ NextRoot \in Seq(StepOf) /\ Plain(NextRoot)
          /\ Modules \in Seq(StepOf) /\ Plain(Modules)
      BY Segments
    <2> QED BY <1>1, <1>2, <2>1 DEF ToModules
  <1>4. /\ ToStore \in Seq(StepOf) /\ Plain(ToStore)
        /\ All(ToStore) = All(ToModules) \cup All(PersistentDisk) \cup All(RwStore)
    <2>1. /\ PersistentDisk \in Seq(StepOf) /\ Plain(PersistentDisk)
          /\ RwStore \in Seq(StepOf) /\ Plain(RwStore)
      BY Segments
    <2> QED BY <1>1, <1>3, <2>1 DEF ToStore
  <1>5. /\ Body \in Seq(StepOf) /\ Plain(Body)
        /\ All(Body) = All(ToStore) \cup All(MountStores)
    BY <1>4, Segments, JoinsAll DEF Body
  <1>6. Main2 = Body \o SwitchRoot
    BY DEF Main2, Body, ToStore, ToModules, ToDevices
  <1> QED BY <1>2, <1>3, <1>4, <1>5, <1>6

\* Three lists of steps, one after the other.
LEMMA Join3 ==
  ASSUME NEW s \in Seq(StepOf), NEW t \in Seq(StepOf), NEW u \in Seq(StepOf), NEW A,
         AllSafe(s, A), AllSafe(t, A \cup All(s)), AllSafe(u, A \cup All(s) \cup All(t))
  PROVE  AllSafe((s \o t) \o u, A)
PROOF
  <1> DEFINE st == s \o t
  <1>1. st \in Seq(StepOf) /\ All(st) = All(s) \cup All(t)
    BY JoinsAll
  <1>2. AllSafe(st, A)
    BY Joins
  <1>3. A \cup All(st) = A \cup All(s) \cup All(t)
    BY <1>1
  <1> HIDE DEF st
  <1>4. AllSafe(u, A \cup All(st))
    BY <1>3
  <1>5. AllSafe(st \o u, A)
    BY <1>1, <1>2, <1>4, Joins
  <1> QED BY <1>5 DEF st

\* main2 up to the devices.
LEMMA ToDevicesSafe ==
  /\ AllSafe(ToDevices, {})
  /\ \A y \in All(ToDevices) : y.name \in EarlyNames
  /\ \A A : All(ToDevices) \subseteq A =>
       /\ Given(A, "dev") /\ Given(A, "proc") /\ Given(A, "sys") /\ Given(A, "run")
       /\ Given(A, "settle") /\ Given(A, "/dev/sda1")
PROOF
  <1> DEFINE a == PseudoFilesystems
             b == LinkRoot
             c == Devices
  <1>1. /\ Len(a) = 9 /\ a[5] = S("mount", "dev", {}) /\ a[6] = S("mount", "proc", {"/proc"})
        /\ a[7] = S("mount", "sys", {"/sys"}) /\ a[8] = S("mount", "run", {"/run"})
    BY DEF PseudoFilesystems
  <1>2. Len(c) = 6 /\ c[6] = S("command", "settle", {"udevd"})
    BY DEF Devices
  <1>3. a \in Seq(StepOf) /\ b \in Seq(StepOf) /\ c \in Seq(StepOf)
    BY Segments
  <1> HIDE DEF a, b, c
  <1>4. ASSUME NEW A, All(a) \subseteq A
        PROVE  Given(A, "dev") /\ Given(A, "proc") /\ Given(A, "sys") /\ Given(A, "run")
    <2>1. a[5] \in A /\ a[6] \in A /\ a[7] \in A /\ a[8] \in A
      BY <1>1, <1>4 DEF All
    <2> QED BY <1>1, <2>1 DEF Given, Adds, S
  <1>5. ASSUME NEW A, All(c) \subseteq A PROVE Given(A, "settle") /\ Given(A, "/dev/sda1")
    <2>1. c[6] \in A
      BY <1>2, <1>5 DEF All
    <2> QED BY <1>2, <2>1 DEF Given, Adds, S
  <1>6. AllSafe(a, {})
    BY PseudoSafe DEF a
  <1>7. AllSafe(b, {} \cup All(a))
    <2>1. Given({} \cup All(a), "dev")
      BY <1>4
    <2>2. CASE cmdline.root # "none"
      BY <2>1, <2>2, LinkSafe DEF b
    <2>3. CASE ~(cmdline.root # "none")
      <3>1. b = <<>>
        BY <2>3 DEF b, LinkRoot, If
      <3> QED BY <3>1, NoSteps
    <2> QED BY <2>2, <2>3
  <1>8. AllSafe(c, {} \cup All(a) \cup All(b))
    <2>1. Given({} \cup All(a) \cup All(b), "dev") /\ Given({} \cup All(a) \cup All(b), "proc")
      BY <1>4
    <2> QED BY <2>1, DevicesSafe DEF c
  <1>9. AllSafe(ToDevices, {})
    BY <1>3, <1>6, <1>7, <1>8, Join3 DEF ToDevices, a, b, c
  <1>10. All(ToDevices) = All(a) \cup All(b) \cup All(c)
    BY BodyShape DEF a, b, c
  <1>11. \A y \in All(ToDevices) : y.name \in EarlyNames
    BY <1>10, PseudoSafe, Segments, DevicesSafe DEF a, b, c
  <1>12. ASSUME NEW A, All(ToDevices) \subseteq A
         PROVE  /\ Given(A, "dev") /\ Given(A, "proc") /\ Given(A, "sys") /\ Given(A, "run")
                /\ Given(A, "settle") /\ Given(A, "/dev/sda1")
    <2>1. All(a) \subseteq A /\ All(c) \subseteq A
      BY <1>10, <1>12
    <2> QED BY <2>1, <1>4, <1>5
  <1> QED BY <1>9, <1>11, <1>12

\* main2 up to the kernel modules.
LEMMA ToModulesSafe ==
  /\ AllSafe(ToModules, {})
  /\ \A A : All(ToModules) \subseteq A =>
       /\ Given(A, "dev") /\ Given(A, "proc") /\ Given(A, "sys") /\ Given(A, "run")
       /\ Given(A, "settle") /\ Given(A, "/dev/sda1") /\ Given(A, "next")
       /\ \A i \in 1..13 : Given(A, RootDirs[i])
       /\ Given(A, "squashfs") /\ Given(A, "overlay") /\ Given(A, "ext4") /\ Given(A, "loop")
PROOF
  <1> DEFINE a == ToDevices
             b == NextRoot
             c == Modules
  <1>1. MadeRoot[2] \in All(MadeRoot) /\ MadeRoot[2].do = "mount" /\ MadeRoot[2].name = "next"
    <2>1. Len(MadeRoot) = 2
      BY DEF MadeRoot
    <2>2. MadeRoot[2] \in All(MadeRoot)
      BY <2>1 DEF All
    <2>3. MadeRoot[2].do = "mount" /\ MadeRoot[2].name = "next"
      BY DEF MadeRoot, S
    <2> QED BY <2>2, <2>3
  <1>2. \A i \in 1..13 : MakeRootDirs[i].do = "mkdir" /\ MakeRootDirs[i].name = RootDirs[i]
    BY DEF MakeRootDirs, S
  <1>3. /\ \A i \in 1..4 : c[i] \in All(c) /\ c[i].do = "command"
        /\ c[1].name = "squashfs" /\ c[2].name = "overlay" /\ c[3].name = "ext4"
        /\ c[4].name = "loop"
    <2>1. /\ c[1] = S("command", "squashfs", {}) /\ c[2] = S("command", "overlay", {})
          /\ c[3] = S("command", "ext4", {}) /\ c[4] = S("command", "loop", {})
      BY DEF Modules
    <2>2. Len(c) = 4
      BY DEF Modules
    <2>3. \A i \in 1..4 : c[i] \in All(c)
      BY <2>2 DEF All
    <2> HIDE DEF c
    <2> QED BY <2>1, <2>3 DEF S
  <1>4. a \in Seq(StepOf) /\ b \in Seq(StepOf) /\ c \in Seq(StepOf)
    BY Segments, BodyShape
  <1>5. AllSafe(a, {})
    BY ToDevicesSafe
  <1>6. AllSafe(b, {} \cup All(a))
    BY ToDevicesSafe, NextRootSafe
  <1>7. AllSafe(c, {} \cup All(a) \cup All(b))
    BY ModulesSafe
  <1> HIDE DEF a, b, c
  <1>8. AllSafe(ToModules, {})
    BY <1>4, <1>5, <1>6, <1>7, Join3 DEF ToModules, a, b, c
  <1>9. ASSUME NEW A, All(ToModules) \subseteq A
        PROVE  /\ Given(A, "dev") /\ Given(A, "proc") /\ Given(A, "sys") /\ Given(A, "run")
               /\ Given(A, "settle") /\ Given(A, "/dev/sda1") /\ Given(A, "next")
               /\ \A i \in 1..13 : Given(A, RootDirs[i])
               /\ Given(A, "squashfs") /\ Given(A, "overlay") /\ Given(A, "ext4") /\ Given(A, "loop")
    <2>1. /\ All(a) \subseteq A /\ All(MadeRoot) \subseteq A /\ All(MakeRootDirs) \subseteq A
          /\ All(c) \subseteq A
      BY <1>9, BodyShape, NextRootSafe DEF a, b, c
    <2>2. /\ Given(A, "dev") /\ Given(A, "proc") /\ Given(A, "sys") /\ Given(A, "run")
          /\ Given(A, "settle") /\ Given(A, "/dev/sda1")
      BY <2>1, ToDevicesSafe DEF a
    <2>3. Given(A, "next")
      BY <1>1, <2>1 DEF Given, Adds
    <2>4. ASSUME NEW i \in 1..13 PROVE Given(A, RootDirs[i])
      <3>1. MakeRootDirs[i] \in A
        BY <2>1, DirsSafe
      <3> QED BY <1>2, <3>1 DEF Given, Adds
    <2>5. c[1] \in A /\ c[2] \in A /\ c[3] \in A /\ c[4] \in A
      BY <1>3, <2>1
    <2>6. Given(A, "squashfs") /\ Given(A, "overlay") /\ Given(A, "ext4") /\ Given(A, "loop")
      BY <1>3, <2>5 DEF Given, Adds
    <2> QED BY <2>2, <2>3, <2>4, <2>6
  <1> QED BY <1>8, <1>9

\* The directories that later steps need.
LEMMA DirsGiven ==
  ASSUME NEW A, \A i \in 1..13 : Given(A, RootDirs[i])
  PROVE  /\ Given(A, "dev/") /\ Given(A, "nix/store/") /\ Given(A, "proc/") /\ Given(A, "run/")
         /\ Given(A, "sys/") /\ Given(A, "persist/") /\ Given(A, "nix/.rw-store/")
         /\ Given(A, "nix/.ro-store/") /\ Given(A, ".old/")
PROOF
  <1>1. /\ RootDirs[1] = "dev/" /\ RootDirs[4] = "nix/store/" /\ RootDirs[5] = "proc/"
        /\ RootDirs[6] = "run/" /\ RootDirs[7] = "sys/" /\ RootDirs[10] = "persist/"
        /\ RootDirs[11] = "nix/.rw-store/" /\ RootDirs[12] = "nix/.ro-store/"
        /\ RootDirs[13] = ".old/"
    BY DEF RootDirs
  <1>2. \A i \in {1, 4, 5, 6, 7, 10, 11, 12, 13} : Given(A, RootDirs[i])
    OBVIOUS
  <1> QED BY <1>1, <1>2

\* main2 up to the upper layer of the store.
LEMMA ToStoreSafe ==
  /\ AllSafe(ToStore, {})
  /\ \A A : All(ToStore) \subseteq A =>
       /\ Got(A, "rw-store/store") /\ Got(A, "rw-store/work")
       /\ Persist => Given(A, "/dev/loop0")
PROOF
  <1> DEFINE a == ToModules
             b == PersistentDisk
             c == RwStore
  <1>1. a \in Seq(StepOf) /\ b \in Seq(StepOf) /\ c \in Seq(StepOf)
    BY Segments, BodyShape
  <1>2. ASSUME Persist
        PROVE  /\ b[1] = S("mount", "persist", {"persist/", "settle", "ext4"})
               /\ b[5] = S("command", "/dev/loop0", {"loop", "persist/nix-store.squashfs"})
               /\ c[2] = S("allow_mkdir_disk", "rw-store/store", {"persist/.rw-store"})
               /\ c[3] = S("allow_mkdir_disk", "rw-store/work", {"persist/.rw-store"})
               /\ b[1] \in All(b) /\ b[5] \in All(b) /\ c[2] \in All(c) /\ c[3] \in All(c)
    <2>1. /\ b[1] = S("mount", "persist", {"persist/", "settle", "ext4"})
          /\ b[5] = S("command", "/dev/loop0", {"loop", "persist/nix-store.squashfs"})
          /\ c[2] = S("allow_mkdir_disk", "rw-store/store", {"persist/.rw-store"})
          /\ c[3] = S("allow_mkdir_disk", "rw-store/work", {"persist/.rw-store"})
      BY <1>2 DEF PersistentDisk, RwStore, If, PersistDir
    <2>2. Len(b) = 5 /\ Len(c) = 3
      BY <1>2 DEF PersistentDisk, RwStore, If
    <2> HIDE DEF b, c
    <2> QED BY <2>1, <2>2 DEF All
  <1>3. ASSUME ~Persist
        PROVE  /\ b = <<>>
               /\ c[1] = S("allow_mkdir", "rw-store/store", {"nix/.rw-store/"})
               /\ c[2] = S("allow_mkdir", "rw-store/work", {"nix/.rw-store/"})
               /\ c[1] \in All(c) /\ c[2] \in All(c)
    <2>1. /\ b = <<>>
          /\ c[1] = S("allow_mkdir", "rw-store/store", {"nix/.rw-store/"})
          /\ c[2] = S("allow_mkdir", "rw-store/work", {"nix/.rw-store/"})
      BY <1>3 DEF PersistentDisk, RwStore, If
    <2>2. Len(c) = 2
      BY <1>3 DEF RwStore
    <2> HIDE DEF b, c
    <2> QED BY <2>1, <2>2 DEF All
  <1>4. AllSafe(a, {})
    BY ToModulesSafe
  <1>5. AllSafe(b, {} \cup All(a))
    <2> DEFINE A == {} \cup All(a)
    <2>1. Given(A, "settle") /\ Given(A, "next") /\ Given(A, "ext4") /\ Given(A, "loop")
      BY ToModulesSafe
    <2>2. Given(A, "persist/")
      BY ToModulesSafe, DirsGiven
    <2> HIDE DEF A
    <2>3. AllSafe(b, A)
      BY <1>3, <2>1, <2>2, PersistSafe, NoSteps
    <2> QED BY <2>3 DEF A
  <1>6. AllSafe(c, {} \cup All(a) \cup All(b))
    <2> DEFINE A == {} \cup All(a) \cup All(b)
    <2>1. Given(A, "nix/.rw-store/")
      BY ToModulesSafe, DirsGiven
    <2>2. ASSUME Persist PROVE Given(A, "persist") /\ GivenOnDisk(A, Store)
      <3>1. b[1] \in A /\ b[1].do = "mount" /\ b[1].name = "persist"
        BY <1>2, <2>2 DEF S
      <3> HIDE DEF A
      <3> QED BY <3>1 DEF Given, Adds, GivenOnDisk
    <2> HIDE DEF A
    <2>3. AllSafe(c, A)
      BY <2>1, <2>2, RwSafe, RwPersistSafe
    <2> QED BY <2>3 DEF A
  <1> HIDE DEF a, b, c
  <1>7. AllSafe(ToStore, {})
    BY <1>1, <1>4, <1>5, <1>6, Join3 DEF ToStore, a, b, c
  <1>8. ASSUME NEW A, All(ToStore) \subseteq A
        PROVE  /\ Got(A, "rw-store/store") /\ Got(A, "rw-store/work")
               /\ Persist => Given(A, "/dev/loop0")
    <2>1. All(b) \subseteq A /\ All(c) \subseteq A
      BY <1>8, BodyShape DEF a, b, c
    <2>2. CASE Persist
      <3>1. b[1] \in A /\ b[5] \in A /\ c[2] \in A /\ c[3] \in A
        BY <1>2, <2>1, <2>2
      <3>2. GivenOnDisk(A, "rw-store/store") /\ GivenOnDisk(A, "rw-store/work")
        BY <1>2, <2>2, <3>1 DEF GivenOnDisk, S
      <3>3. Given(A, "/dev/loop0")
        BY <1>2, <2>2, <3>1 DEF Given, Adds, S
      <3> QED BY <3>2, <3>3 DEF Got
    <2>3. CASE ~Persist
      <3>1. c[1] \in A /\ c[2] \in A
        BY <1>3, <2>1, <2>3
      <3> QED BY <1>3, <2>3, <3>1 DEF Got, Given, Adds, S
    <2> QED BY <2>2, <2>3
  <1> QED BY <1>7, <1>8

\* In a boot of a Bootable command line every step comes after what it needs.
LEMMA Main2Safe ==
  ASSUME Bootable
  PROVE  AllSafe(Main2, {})
PROOF
  <1>1. ASSUME NEW A, All(ToModules) \subseteq A, All(ToStore) \subseteq A
        PROVE  Given(A, RootDevice) /\ RootDevice # "old"
    <2>1. CASE Persist
      BY <1>1, <2>1, ToStoreSafe DEF RootDevice
    <2>2. CASE ~Persist
      <3>1. RootDevice = "/dev/sda1"
        BY <2>2 DEF RootDevice, Bootable
      <3> QED BY <1>1, <3>1, ToModulesSafe
    <2> QED BY <2>1, <2>2
  <1>2. AllSafe(MountStores, {} \cup All(ToStore))
    <2> DEFINE A == {} \cup All(ToStore)
    <2>1. All(ToModules) \subseteq A /\ All(ToStore) \subseteq A
      BY BodyShape
    <2> HIDE DEF A
    <2>2. \A i \in 1..13 : Given(A, RootDirs[i])
      BY <2>1, ToModulesSafe
    <2>3. AllSafe(MountStores, A)
      <3>1. Given(A, RootDevice) /\ RootDevice # "old"
        BY <1>1, <2>1
      <3>2. /\ Given(A, "squashfs") /\ Given(A, "overlay") /\ Given(A, "dev") /\ Given(A, "sys")
            /\ Given(A, "proc") /\ Given(A, "run")
        BY <2>1, ToModulesSafe
      <3>3. Got(A, "rw-store/store") /\ Got(A, "rw-store/work")
        BY <2>1, ToStoreSafe
      <3>4. /\ Given(A, "dev/") /\ Given(A, "nix/store/") /\ Given(A, "proc/") /\ Given(A, "run/")
            /\ Given(A, "sys/") /\ Given(A, "nix/.rw-store/") /\ Given(A, "nix/.ro-store/")
        BY <2>2, DirsGiven
      <3> QED BY <3>1, <3>2, <3>3, <3>4, StoresSafe
    <2> QED BY <2>3 DEF A
  <1>3. AllSafe(Body, {})
    BY <1>2, ToStoreSafe, BodyShape, Segments, Joins DEF Body
  <1>4. AllSafe(SwitchRoot, {} \cup All(Body))
    <2> DEFINE A == {} \cup All(Body)
    <2>1. All(ToModules) \subseteq A
      BY BodyShape
    <2> HIDE DEF A
    <2>2. Given(A, "next") /\ \A i \in 1..13 : Given(A, RootDirs[i])
      BY <2>1, ToModulesSafe
    <2>3. Given(A, ".old/")
      BY <2>2, DirsGiven
    <2>4. AllSafe(SwitchRoot, A)
      BY <2>2, <2>3, SwitchSafe
    <2> QED BY <2>4 DEF A
  <1> QED BY <1>3, <1>4, BodyShape, Segments, Joins

-------------------------------------------------------------------------------

\* P is main2, of N steps: before the switch of the root nothing is unmounted.
IsMain2(P, N) ==
  /\ P = Main2 /\ N \in Nat /\ N > 6
  /\ \A j \in 1..(N - 6) : /\ P[j].do \in Kinds /\ P[j].name # "old"
                           /\ P[j].do = "allow_mkdir_disk" => P[j].name \in OnDisk
  /\ P[N - 5] = S("read", "chdir", {"next"}) /\ P[N - 4] = S("mount", "old", {".old/"})
  /\ P[N - 3] = S("mount", "root", {"next"}) /\ P[N - 2] = S("read", "chroot", {"root"})
  /\ P[N - 1] = S("umount", "old", {"old"}) /\ P[N] = S("exec", "init", {})

\* main2 is the steps up to the move to the new root and those of the move.
LEMMA Main2Shape ==
  ASSUME NEW P, P = Main2
  PROVE  \E N : IsMain2(P, N) /\ N = Len(P)
PROOF
  <1> DEFINE a == Body
             b == SwitchRoot
             m == Len(a)
             N == m + 6
  <1>1. /\ Len(b) = 6
        /\ b[1] = S("read", "chdir", {"next"}) /\ b[2] = S("mount", "old", {".old/"})
        /\ b[3] = S("mount", "root", {"next"}) /\ b[4] = S("read", "chroot", {"root"})
        /\ b[5] = S("umount", "old", {"old"}) /\ b[6] = S("exec", "init", {})
    BY DEF SwitchRoot
  <1>2. a \in Seq(StepOf) /\ b \in Seq(StepOf) /\ P = a \o b /\ Plain(a)
    BY BodyShape, Segments
  <1>3. m \in Nat /\ m > 0
    <2>1. All(a) # {}
      <3>1. PseudoFilesystems[1] \in All(PseudoFilesystems)
        <4>1. Len(PseudoFilesystems) = 9
          BY DEF PseudoFilesystems
        <4> QED BY <4>1 DEF All
      <3> QED BY <3>1, BodyShape
    <2> HIDE DEF a
    <2> QED BY <1>2, <2>1 DEF All
  <1> HIDE DEF a, b
  <1>4. /\ Len(P) = m + 6
        /\ \A j \in 1..m : P[j] = a[j]
        /\ \A j \in 1..6 : P[m + j] = b[j]
    <2>1. /\ Len(a \o b) = m + Len(b)
          /\ \A j \in 1..m : (a \o b)[j] = a[j]
          /\ \A j \in 1..Len(b) : (a \o b)[m + j] = b[j]
      BY <1>2, Joined
    <2> HIDE DEF m
    <2> QED BY <1>1, <1>2, <2>1
  <1> HIDE DEF m
  <1>5. \A j \in 1..m : /\ P[j].do \in Kinds /\ P[j].name # "old"
                        /\ P[j].do = "allow_mkdir_disk" => P[j].name \in OnDisk
    BY <1>2, <1>3, <1>4 DEF Plain, All, m
  <1>6. /\ P[N - 5] = b[1] /\ P[N - 4] = b[2] /\ P[N - 3] = b[3] /\ P[N - 2] = b[4]
        /\ P[N - 1] = b[5] /\ P[N] = b[6]
    <2>1. /\ N - 5 = m + 1 /\ N - 4 = m + 2 /\ N - 3 = m + 3 /\ N - 2 = m + 4 /\ N - 1 = m + 5
          /\ N = m + 6
      BY <1>3
    <2> QED BY <1>4, <2>1
  <1>7. N \in Nat /\ N > 6 /\ N - 6 = m /\ N = Len(P)
    BY <1>3, <1>4
  <1> HIDE DEF N
  <1>8. IsMain2(P, N)
    BY <1>1, <1>5, <1>6, <1>7 DEF IsMain2
  <1> QED BY <1>7, <1>8

\* The mounts and directories that BootsAgain names are made on the way.
Makes(P, N) ==
  /\ \A n \in {"store", "next/dev", "next/sys", "next/proc", "next/run", "root"} :
       \E j \in 1..(N - 1) : P[j].do = "mount" /\ P[j].name = n
  /\ Persist => \A n \in {"persist/var", "rw-store/store", "rw-store/work"} :
       \E j \in 1..(N - 1) : P[j].do = "allow_mkdir_disk" /\ P[j].name = n

\* A boot that gets to its end has made the mounts that the system needs.
LEMMA Main2Makes ==
  ASSUME NEW P, NEW N, IsMain2(P, N), N = Len(P)
  PROVE  Makes(P, N)
PROOF
  <1>1. ASSUME NEW y \in All(Body) PROVE \E j \in 1..(N - 1) : P[j] = y
    <2>1. PICK j \in 1..Len(Body) : y = Body[j]
      BY DEF All
    <2>2. Body \in Seq(StepOf) /\ SwitchRoot \in Seq(StepOf) /\ P = Body \o SwitchRoot
      BY BodyShape, Segments DEF IsMain2
    <2>3. Len(SwitchRoot) = 6
      BY DEF SwitchRoot
    <2>4. P[j] = Body[j] /\ N = Len(Body) + 6 /\ Len(Body) \in Nat
      <3>1. /\ Len(Body \o SwitchRoot) = Len(Body) + Len(SwitchRoot) /\ Len(Body) \in Nat
            /\ (Body \o SwitchRoot)[j] = Body[j]
        BY <2>2, Joined
      <3> QED BY <2>2, <2>3, <3>1
    <2>5. j \in 1..(N - 1)
      BY <2>4
    <2> QED BY <2>1, <2>4, <2>5
  <1>2. ASSUME NEW n \in {"store", "next/dev", "next/sys", "next/proc", "next/run"}
        PROVE  \E y \in All(Body) : y.do = "mount" /\ y.name = n
    <2> DEFINE s == MountStores
    <2>1. /\ Len(s) = 7
          /\ s[2].name = "next/dev" /\ s[3].name = "next/sys" /\ s[4].name = "next/proc"
          /\ s[5].name = "next/run" /\ s[7].name = "store"
          /\ s[2].do = "mount" /\ s[3].do = "mount" /\ s[4].do = "mount" /\ s[5].do = "mount"
          /\ s[7].do = "mount"
      BY DEF MountStores, S
    <2> HIDE DEF s
    <2>2. s[2] \in All(s) /\ s[3] \in All(s) /\ s[4] \in All(s) /\ s[5] \in All(s) /\ s[7] \in All(s)
      BY <2>1 DEF All
    <2>3. All(s) \subseteq All(Body)
      BY BodyShape DEF s
    <2>4. /\ s[2] \in All(Body) /\ s[3] \in All(Body) /\ s[4] \in All(Body)
          /\ s[5] \in All(Body) /\ s[7] \in All(Body)
      BY <2>2, <2>3
    <2> QED BY <2>1, <2>4
  <1>3. \E j \in 1..(N - 1) : P[j].do = "mount" /\ P[j].name = "root"
    <2>1. N - 3 \in 1..(N - 1) /\ P[N - 3].do = "mount" /\ P[N - 3].name = "root"
      BY DEF IsMain2, S
    <2> QED BY <2>1
  <1>4. ASSUME Persist, NEW n \in {"persist/var", "rw-store/store", "rw-store/work"}
        PROVE  \E y \in All(Body) : y.do = "allow_mkdir_disk" /\ y.name = n
    <2> DEFINE s == PersistentDisk
               t == RwStore
    <2>1. /\ Len(s) = 5 /\ s[2].do = "allow_mkdir_disk" /\ s[2].name = "persist/var"
          /\ Len(t) = 3 /\ t[2].do = "allow_mkdir_disk" /\ t[2].name = "rw-store/store"
          /\ t[3].do = "allow_mkdir_disk" /\ t[3].name = "rw-store/work"
      BY <1>4 DEF PersistentDisk, RwStore, If, PersistDir, S
    <2> HIDE DEF s, t
    <2>2. s[2] \in All(s) /\ t[2] \in All(t) /\ t[3] \in All(t)
      BY <2>1 DEF All
    <2>3. All(s) \subseteq All(Body) /\ All(t) \subseteq All(Body)
      BY BodyShape DEF s, t
    <2>4. s[2] \in All(Body) /\ t[2] \in All(Body) /\ t[3] \in All(Body)
      BY <2>2, <2>3
    <2> QED BY <2>1, <2>4
  <1>5. ASSUME NEW n \in {"store", "next/dev", "next/sys", "next/proc", "next/run"}
        PROVE  \E j \in 1..(N - 1) : P[j].do = "mount" /\ P[j].name = n
    BY <1>1, <1>2
  <1>6. ASSUME Persist, NEW n \in {"persist/var", "rw-store/store", "rw-store/work"}
        PROVE  \E j \in 1..(N - 1) : P[j].do = "allow_mkdir_disk" /\ P[j].name = n
    BY <1>1, <1>4, <1>6
  <1> QED BY <1>3, <1>5, <1>6 DEF Makes

-------------------------------------------------------------------------------

\* A step that was taken has had its effect, commands if nothing went wrong.
Done(y) ==
  /\ y.do = "allow_mkdir_disk" => y.name \in disk
  /\ y.do \notin {"allow_mkdir_disk", "command", "umount"} /\ y.name # "old" => y.name \in have
  /\ y.do = "command" /\ ~bootFault =>
       y.name \in have /\ (y.name = "settle" => "/dev/sda1" \in have)

\* The boot, P being main2 and N its length: memory holds what this boot's steps
\* made, and the disk nothing that a directory to be made is called.
BootInvOf(P, N) ==
  /\ step \in 1..N
  /\ Store \in disk /\ disk \subseteq OnDisk
  /\ \A n \in have : \E j \in 1..(step - 1) : Adds(P[j], n)
  /\ \A j \in 1..(step - 1) : Done(P[j])
  /\ step \in (N - 3)..(N - 1) => "old" \in have
  /\ step = N => "old" \notin have
  /\ machine = "failed" /\ Bootable => bootFault
  /\ machine = "system" => step = N

BootInv == BootInvOf(Main2, Len(Main2))

\* Which steps take away, and which end the boot.
LEMMA StepKinds ==
  ASSUME NEW P, NEW N, IsMain2(P, N), NEW j \in 1..N
  PROVE  /\ P[j].do = "exec" <=> j = N
         /\ P[j].do = "umount" <=> j = N - 1
         /\ j \notin {N - 4, N - 1} => P[j].name # "old"
         /\ j = N - 4 => P[j].do = "mount" /\ P[j].name = "old"
         /\ j = N - 1 => P[j].name = "old" /\ P[j].needs = {"old"}
         /\ P[j].do \in Kinds \cup {"umount", "exec"}
         /\ P[j].do = "allow_mkdir_disk" => P[j].name \in OnDisk
PROOF
  <1>1. CASE j \in 1..(N - 6)
    <2>1. j # N /\ j # N - 1 /\ j # N - 4
      BY <1>1 DEF IsMain2
    <2>2. /\ P[j].do \in Kinds /\ P[j].name # "old"
          /\ P[j].do = "allow_mkdir_disk" => P[j].name \in OnDisk
      BY <1>1 DEF IsMain2
    <2> QED BY <2>1, <2>2 DEF Kinds
  <1>2. CASE j \notin 1..(N - 6)
    <2>1. j = N - 5 \/ j = N - 4 \/ j = N - 3 \/ j = N - 2 \/ j = N - 1 \/ j = N
      BY <1>2 DEF IsMain2
    <2>2. /\ P[N - 5].do = "read" /\ P[N - 5].name = "chdir"
          /\ P[N - 4].do = "mount" /\ P[N - 4].name = "old"
          /\ P[N - 3].do = "mount" /\ P[N - 3].name = "root"
          /\ P[N - 2].do = "read" /\ P[N - 2].name = "chroot"
          /\ P[N - 1].do = "umount" /\ P[N - 1].name = "old" /\ P[N - 1].needs = {"old"}
          /\ P[N].do = "exec" /\ P[N].name = "init"
      BY DEF IsMain2, S
    <2>3. N \in Nat
      BY DEF IsMain2
    <2> QED BY <2>1, <2>2, <2>3 DEF Kinds
  <1> QED BY <1>1, <1>2

\* Nothing but a fault outside keeps a step from being possible.
LEMMA StepIsPossible ==
  ASSUME NEW P, NEW N, IsMain2(P, N), N = Len(P), BootInvOf(P, N), Bootable, ~bootFault
  PROVE  Possible
PROOF
  <1> DEFINE x == P[step]
             B == {} \cup Before(P, step)
  <1>1. step \in 1..N /\ N \in Nat /\ P = Main2
    BY DEF BootInvOf, IsMain2
  <1>2. Safe(x, B)
    BY <1>1, Main2Safe DEF AllSafe
  <1>3. Current = x
    BY <1>1 DEF Current
  <1>4. ASSUME NEW y \in B PROVE Done(y)
    BY DEF Before, BootInvOf
  <1> HIDE DEF B, x
  <1>5. ASSUME NEW n \in x.needs PROVE n \in There
    <2>1. CASE x.do = "umount"
      <3>1. step = N - 1 /\ x.needs = {"old"}
        BY <1>1, <2>1, StepKinds DEF x
      <3>2. "old" \in have
        BY <1>1, <3>1 DEF BootInvOf
      <3> QED BY <3>1, <3>2 DEF There
    <2>2. CASE x.do # "umount" /\ Given(B, n)
      <3>1. n # "old"
        BY <1>2, <2>2 DEF Safe
      <3>2. PICK y \in B : y.do \notin {"umount", "allow_mkdir_disk"} /\ Adds(y, n)
        BY <2>2 DEF Given
      <3>3. Done(y)
        BY <1>4
      <3>4. n \in have
        BY <3>1, <3>2, <3>3 DEF Done, Adds
      <3> QED BY <3>4 DEF There
    <2>3. CASE x.do # "umount" /\ GivenOnDisk(B, n)
      <3>1. PICK y \in B : y.do = "mount" /\ y.name = "persist"
        BY <2>3 DEF GivenOnDisk
      <3>2. "persist" \in have
        BY <1>4, <3>1 DEF Done
      <3>3. n \in disk
        <4>1. CASE n = Store
          BY <4>1 DEF BootInvOf
        <4>2. CASE \E z \in B : z.do = "allow_mkdir_disk" /\ z.name = n
          BY <1>4, <4>2 DEF Done
        <4> QED BY <2>3, <4>1, <4>2 DEF GivenOnDisk
      <3> QED BY <3>2, <3>3 DEF There
    <2> QED BY <1>2, <2>1, <2>2, <2>3 DEF Safe
  <1>6. ASSUME x.do \in {"mkdir", "mkdir_disk"} PROVE x.name \notin There
    <2>1. x.do = "mkdir"
      BY <1>1, <1>6, StepKinds DEF x, Kinds
    <2>2. x.name \notin OnDisk /\ x.name # "/dev/sda1" /\ \A y \in B : y.name # x.name
      BY <1>2, <2>1 DEF Safe
    <2>3. x.name \notin disk
      BY <2>2 DEF BootInvOf
    <2>4. x.name \notin have
      <3> SUFFICES ASSUME x.name \in have PROVE FALSE
        OBVIOUS
      <3>1. PICK j \in 1..(step - 1) : Adds(P[j], x.name)
        BY DEF BootInvOf
      <3>2. P[j] \in B
        BY <3>1 DEF B, Before
      <3> QED BY <2>2, <3>1, <3>2 DEF Adds
    <2> QED BY <2>3, <2>4 DEF There
  <1> QED BY <1>3, <1>5, <1>6 DEF Possible, New

\* The invariant holds when the machine is switched on for the first time.
LEMMA BootInit1 ==
  ASSUME NEW P, NEW N, IsMain2(P, N), BootInit
  PROVE  BootInvOf(P, N)
BY DEF IsMain2, BootInit, BootInvOf, OnDisk, Store

\* A boot starts with the disk as it was left, and nothing else.
LEMMA PowerOnInv ==
  ASSUME NEW P, NEW N, IsMain2(P, N), BootInvOf(P, N), PowerOn
  PROVE  BootInvOf(P, N)'
PROOF
  <1>1. /\ step' = 1 /\ have' = {} /\ disk' = disk /\ machine' = "booting" /\ cmdline' = cmdline
    BY DEF PowerOn
  <1>2. N \in Nat /\ N > 6
    BY DEF IsMain2
  <1> QED BY <1>1, <1>2 DEF BootInvOf

\* A step that fails, and power that does, change what is there no more.
LEMMA StopInv ==
  ASSUME NEW P, NEW N, IsMain2(P, N), N = Len(P), BootInvOf(P, N), Execve \/ StepFails \/ PowerCut
  PROVE  BootInvOf(P, N)'
PROOF
  <1>1. /\ step' = step /\ have' = have /\ disk' = disk /\ cmdline' = cmdline
    BY DEF Execve, StepFails, PowerCut
  <1>2. bootFault => bootFault'
    BY DEF Execve, StepFails, PowerCut
  <1>3. \A y : Done(y) => Done(y)'
    BY <1>1, <1>2 DEF Done
  <1>4. machine' = "failed" /\ Bootable' => bootFault'
    <2>1. SUFFICES ASSUME machine' = "failed", Bootable PROVE bootFault'
      BY <1>1 DEF Bootable, Persist
    <2>2. CASE Execve
      BY <2>1, <2>2 DEF Execve, Bootable
    <2>3. CASE StepFails
      <3>1. bootFault \/ Possible
        BY <2>1, StepIsPossible
      <3> QED BY <2>3, <3>1 DEF StepFails
    <2>4. CASE PowerCut
      BY <2>1, <2>4 DEF PowerCut
    <2> QED BY <2>2, <2>3, <2>4
  <1>5. machine' = "system" => step = N
    <2>1. CASE Execve
      <3>1. P = Main2 /\ step \in 1..N
        BY DEF IsMain2, BootInvOf
      <3>2. P[step].do = "exec"
        BY <2>1, <3>1 DEF Execve, Current
      <3> QED BY <3>1, <3>2, StepKinds
    <2>2. CASE StepFails \/ PowerCut
      BY <2>2 DEF StepFails, PowerCut
    <2> QED BY <2>1, <2>2
  <1> QED BY <1>1, <1>3, <1>4, <1>5 DEF BootInvOf

\* What the steps that go on have in common.
LEMMA AdvanceInv ==
  ASSUME NEW P, NEW N, NEW x, IsMain2(P, N), BootInvOf(P, N),
         step' = step + 1, x = P[step], P[step].do # "exec", machine' = "booting",
         bootFault => bootFault', Store \in disk', disk \subseteq disk', disk' \subseteq OnDisk,
         \A n \in have' : n \in have \/ Adds(P[step], n),
         \A n \in have : (n = "old" /\ P[step].do = "umount") \/ n \in have',
         Done(x)', step = N - 4 => "old" \in have', step = N - 1 => "old" \notin have'
  PROVE  BootInvOf(P, N)'
PROOF
  <1>1. N \in Nat /\ N > 6 /\ step \in 1..N
    BY DEF IsMain2, BootInvOf
  <1>2. step # N
    BY <1>1, StepKinds
  <1>3. step' \in 1..N /\ step' - 1 = step
    BY <1>1, <1>2
  <1>4. ASSUME NEW n \in have' PROVE \E j \in 1..(step' - 1) : Adds(P[j], n)
    <2>1. CASE n \in have
      <3>1. PICK j \in 1..(step - 1) : Adds(P[j], n)
        BY <2>1 DEF BootInvOf
      <3>2. j \in 1..(step' - 1)
        BY <1>1, <1>3
      <3> QED BY <3>1, <3>2
    <2>2. CASE Adds(P[step], n)
      <3>1. step \in 1..(step' - 1)
        BY <1>1, <1>3
      <3> QED BY <2>2, <3>1
    <2> QED BY <2>1, <2>2
  <1>5. ASSUME NEW j \in 1..(step' - 1) PROVE Done(P[j])'
    <2>1. CASE j = step
      BY <2>1
    <2>2. CASE j # step
      <3>1. j \in 1..(step - 1)
        BY <1>1, <1>3, <2>2
      <3>2. Done(P[j])
        BY <3>1 DEF BootInvOf
      <3>3. j \in 1..N /\ j # N - 1
        BY <1>1, <1>2, <3>1
      <3>4. P[j].do = "command" => P[j].name # "old"
        BY <1>1, <3>3, StepKinds
      <3> QED BY <3>2, <3>4 DEF Done
    <2> QED BY <2>1, <2>2
  <1>6. ASSUME step' \in (N - 3)..(N - 1) PROVE "old" \in have'
    <2>1. CASE step = N - 4
      BY <2>1
    <2>2. CASE step = N - 3 \/ step = N - 2
      <3>0. step \in (N - 3)..(N - 1) /\ step # N - 1
        BY <1>1, <2>2
      <3>1. "old" \in have
        BY <3>0 DEF BootInvOf
      <3>2. P[step].do # "umount"
        BY <1>1, <3>0, StepKinds
      <3> QED BY <3>1, <3>2
    <2>3. step = N - 4 \/ step = N - 3 \/ step = N - 2
      BY <1>1, <1>3, <1>6
    <2> QED BY <2>1, <2>2, <2>3
  <1>7. step' = N => "old" \notin have'
    BY <1>1, <1>3
  <1> QED BY <1>3, <1>4, <1>5, <1>6, <1>7 DEF BootInvOf

\* A step that the rest depends on.
LEMMA ProceedInv ==
  ASSUME NEW P, NEW N, IsMain2(P, N), BootInvOf(P, N), Proceed
  PROVE  BootInvOf(P, N)'
PROOF
  <1>0. PICK x : x = P[step]
    OBVIOUS
  <1>1. P = Main2 /\ N \in Nat /\ N > 6 /\ step \in 1..N
    BY DEF IsMain2, BootInvOf
  <1>2. Current = x
    BY <1>0, <1>1 DEF Current
  <1>3. /\ x.do = "exec" <=> step = N
        /\ x.do = "umount" <=> step = N - 1
        /\ step \notin {N - 4, N - 1} => x.name # "old"
        /\ step = N - 4 => x.do = "mount" /\ x.name = "old"
        /\ step = N - 1 => x.name = "old"
        /\ x.do \in Kinds \cup {"umount", "exec"}
        /\ x.do = "allow_mkdir_disk" => x.name \in OnDisk
    BY <1>0, <1>1, StepKinds
  <1>4. /\ machine' = "booting" /\ step' = step + 1 /\ bootFault' = bootFault
        /\ x.do # "exec" /\ x.do # "command"
        /\ x.do = "allow_mkdir_disk" => disk' = disk \cup {x.name} /\ have' = have
        /\ x.do # "allow_mkdir_disk" => disk' = disk
        /\ x.do \notin {"umount", "allow_mkdir_disk"} => have' = have \cup {x.name}
        /\ x.do = "umount" => have' = have \ {x.name}
    BY <1>2, <1>3 DEF Proceed, Kinds
  <1>5. Store \in disk' /\ disk \subseteq disk' /\ disk' \subseteq OnDisk
    BY <1>3, <1>4 DEF BootInvOf
  <1>6. \A n \in have' : n \in have \/ Adds(x, n)
    BY <1>4 DEF Adds
  <1>7. \A n \in have : (n = "old" /\ x.do = "umount") \/ n \in have'
    BY <1>3, <1>4
  <1>8. Done(x)'
    BY <1>4 DEF Done
  <1>9. (step = N - 4 => "old" \in have') /\ (step = N - 1 => "old" \notin have')
    BY <1>3, <1>4
  <1> QED BY <1>4, <1>5, <1>6, <1>7, <1>8, <1>9, <1>0, AdvanceInv

\* A directory that may be there already.
LEMMA TryMkdirInv ==
  ASSUME NEW P, NEW N, IsMain2(P, N), BootInvOf(P, N), TryMkdir
  PROVE  BootInvOf(P, N)'
PROOF
  <1>0. PICK x : x = P[step]
    OBVIOUS
  <1>1. P = Main2 /\ N \in Nat /\ N > 6 /\ step \in 1..N
    BY DEF IsMain2, BootInvOf
  <1>2. Current = x
    BY <1>0, <1>1 DEF Current
  <1>3. /\ x.do = "try_mkdir" /\ machine' = "booting" /\ step' = step + 1
        /\ bootFault' = bootFault /\ disk' = disk /\ have' = have \cup {x.name}
    BY <1>2 DEF TryMkdir
  <1>4. step # N - 4 /\ step # N - 1
    <2>1. (step = N - 4 => x.do = "mount") /\ (step = N - 1 => x.do = "umount")
      BY <1>0, <1>1, StepKinds
    <2> QED BY <1>3, <2>1
  <1>5. Store \in disk' /\ disk \subseteq disk' /\ disk' \subseteq OnDisk
    BY <1>3 DEF BootInvOf
  <1>6. Done(x)' /\ x.do # "exec"
    BY <1>3 DEF Done
  <1>7. \A n \in have' : n \in have \/ Adds(x, n)
    BY <1>3 DEF Adds
  <1>8. \A n \in have : (n = "old" /\ x.do = "umount") \/ n \in have'
    BY <1>3
  <1> QED BY <1>3, <1>4, <1>5, <1>6, <1>7, <1>8, <1>0, AdvanceInv

\* A command, whether it did what it was to do or not.
LEMMA RunCommandInv ==
  ASSUME NEW P, NEW N, IsMain2(P, N), BootInvOf(P, N), RunCommand
  PROVE  BootInvOf(P, N)'
PROOF
  <1>0. PICK x : x = P[step]
    OBVIOUS
  <1>1. P = Main2 /\ N \in Nat /\ N > 6 /\ step \in 1..N
    BY DEF IsMain2, BootInvOf
  <1>2. Current = x
    BY <1>0, <1>1 DEF Current
  <1>3. /\ x.do = "command" /\ machine' = "booting" /\ step' = step + 1 /\ disk' = disk
        /\ \/ /\ have' = have \cup {x.name} \cup (IF x.name = "settle" THEN {"/dev/sda1"} ELSE {})
              /\ bootFault' = bootFault
           \/ bootFault' = TRUE /\ have' = have
    BY <1>2 DEF RunCommand
  <1>4. step # N - 4 /\ step # N - 1
    <2>1. (step = N - 4 => x.do = "mount") /\ (step = N - 1 => x.do = "umount")
      BY <1>0, <1>1, StepKinds
    <2> QED BY <1>3, <2>1
  <1>5. Store \in disk' /\ disk \subseteq disk' /\ disk' \subseteq OnDisk
    BY <1>3 DEF BootInvOf
  <1>6. Done(x)' /\ x.do # "exec"
    BY <1>3 DEF Done
  <1>7. \A n \in have' : n \in have \/ Adds(x, n)
    BY <1>3 DEF Adds
  <1>8. \A n \in have : (n = "old" /\ x.do = "umount") \/ n \in have'
    BY <1>3
  <1>9. bootFault => bootFault'
    BY <1>3
  <1> QED BY <1>3, <1>4, <1>5, <1>6, <1>7, <1>8, <1>9, <1>0, AdvanceInv

\* A step that changes nothing.
LEMMA BootUnchanged ==
  ASSUME NEW P, NEW N, BootInvOf(P, N), UNCHANGED bootVars
  PROVE  BootInvOf(P, N)'
BY DEF BootInvOf, bootVars, Done, Bootable, Persist

\* The invariant says what the property says.
LEMMA BootInvImplies ==
  ASSUME NEW P, NEW N, IsMain2(P, N), N = Len(P), BootInvOf(P, N)
  PROVE  BootsAgain
PROOF
  <1>1. ASSUME machine = "system"
        PROVE  /\ {"store", "next/dev", "next/sys", "next/proc", "next/run", "root"} \subseteq have
               /\ "old" \notin have
               /\ Persist => {"persist/var", "rw-store/store", "rw-store/work"} \subseteq disk
    <2>1. step = N /\ "old" \notin have /\ \A j \in 1..(N - 1) : Done(P[j])
      BY <1>1 DEF BootInvOf
    <2>0. Makes(P, N)
      BY Main2Makes
    <2>2. ASSUME NEW n \in {"store", "next/dev", "next/sys", "next/proc", "next/run", "root"}
          PROVE  n \in have
      <3>1. PICK j \in 1..(N - 1) : P[j].do = "mount" /\ P[j].name = n
        BY <2>0 DEF Makes
      <3> QED BY <2>1, <3>1 DEF Done
    <2>3. ASSUME Persist, NEW n \in {"persist/var", "rw-store/store", "rw-store/work"}
          PROVE  n \in disk
      <3>1. PICK j \in 1..(N - 1) : P[j].do = "allow_mkdir_disk" /\ P[j].name = n
        BY <2>0, <2>3 DEF Makes
      <3> QED BY <2>1, <3>1 DEF Done
    <2> QED BY <2>1, <2>2, <2>3
  <1>2. machine = "failed" /\ Bootable => bootFault
    BY DEF BootInvOf
  <1> QED BY <1>1, <1>2 DEF BootsAgain

\* The steps of main2 depend on the command line only, which no step changes.
LEMMA SameMain2 ==
  ASSUME cmdline' = cmdline
  PROVE  Main2' = Main2
PROOF
  <1>1. Persist' = Persist
    BY DEF Persist
  <1>2. RootDevice' = RootDevice
    BY <1>1 DEF RootDevice
  <1>3. LinkRoot' = LinkRoot
    BY DEF LinkRoot, If
  <1>4. PersistentDisk' = PersistentDisk /\ RwStore' = RwStore
    BY <1>1 DEF PersistentDisk, RwStore, If
  <1>5. MountStores' = MountStores
    BY <1>2 DEF MountStores
  <1> QED BY <1>3, <1>4, <1>5 DEF Main2

\* Wherever earlier boots of the appliance ended and whatever they left on the
\* disk, a boot of a command line that can be booted is given up only if something
\* outside init goes wrong, and the system it ends in has its store, the host's
\* filesystems and no way to the initramfs: for any number of boots and power cuts.
THEOREM BootsAlways == BootSpec => []BootsAgain
PROOF
  <1>1. BootInit => BootInv
    <2> SUFFICES ASSUME BootInit PROVE BootInv
      OBVIOUS
    <2>1. PICK P : P = Main2
      OBVIOUS
    <2>2. PICK N : IsMain2(P, N) /\ N = Len(P)
      BY <2>1, Main2Shape
    <2> QED BY <2>1, <2>2, BootInit1 DEF BootInv
  <1>2. BootInv /\ [BootNext]_bootVars => BootInv'
    <2> SUFFICES ASSUME BootInv, [BootNext]_bootVars PROVE BootInv'
      OBVIOUS
    <2>1. PICK P : P = Main2
      OBVIOUS
    <2>2. PICK N : IsMain2(P, N) /\ N = Len(P)
      BY <2>1, Main2Shape
    <2>3. BootInvOf(P, N)
      BY <2>1, <2>2 DEF BootInv
    <2>4. cmdline' = cmdline
      BY DEF BootNext, Proceed, TryMkdir, RunCommand, Execve, StepFails, PowerCut, PowerOn, bootVars
    <2>5. Main2' = P
      BY <2>1, <2>4, SameMain2
    <2>6. BootInvOf(P, N)'
      <3>1. CASE Proceed
        BY <2>2, <2>3, <3>1, ProceedInv
      <3>2. CASE TryMkdir
        BY <2>2, <2>3, <3>2, TryMkdirInv
      <3>3. CASE RunCommand
        BY <2>2, <2>3, <3>3, RunCommandInv
      <3>4. CASE Execve \/ StepFails \/ PowerCut
        BY <2>2, <2>3, <3>4, StopInv
      <3>5. CASE PowerOn
        BY <2>2, <2>3, <3>5, PowerOnInv
      <3>6. CASE UNCHANGED bootVars
        BY <2>3, <3>6, BootUnchanged
      <3> QED BY <3>1, <3>2, <3>3, <3>4, <3>5, <3>6 DEF BootNext
    <2> QED BY <2>2, <2>5, <2>6 DEF BootInv
  <1>3. BootInv => BootsAgain
    <2> SUFFICES ASSUME BootInv PROVE BootsAgain
      OBVIOUS
    <2>1. PICK P : P = Main2
      OBVIOUS
    <2>2. PICK N : IsMain2(P, N) /\ N = Len(P)
      BY <2>1, Main2Shape
    <2> QED BY <2>1, <2>2, BootInvImplies DEF BootInv
  <1> QED BY <1>1, <1>2, <1>3, PTL DEF BootSpec

-------------------------------------------------------------------------------
(***************************************************************************)
(* Container. The calls have places from 1 to 20, of which a configuration *)
(* leaves some out; what is left to do is the calls of the places from     *)
(* some place on. The invariant says for each place what the state is when *)
(* the calls before it were made.                                          *)
(***************************************************************************)

\* The calls in the order in which they are made, and those a configuration asks for.
Call ==
  <<Mkdir(RootTarget), Sys("unshare"), Sys("private"), Mount(RootTarget, "tmpfs"),
    Mkdir(In(".old")), Mkdir(In("nix")), Mkdir(In("persist")), Mkdir(In("run")),
    Mkdir(In("proc")), Mkdir(In("dev")), Mount(In("nix"), "squashfs"),
    Mount(In("persist"), "bind"), Mount(In("run"), "tmpfs"), Mount(In("proc"), "proc"),
    Mount(In("dev"), "devtmpfs"), Sys("pivot_root"), Sys("detach"), Sys("rmdir"),
    Sys("readonly"), Sys("uts")>>

Asked(c, i) ==
  /\ i \in {8, 13} => c.ephemeral
  /\ i \in {9, 14} => c.enable_proc
  /\ i \in {10, 15} => c.enable_dev

Calls == {Call[i] : i \in 1..20}

\* The positions of a list of calls: those from a up to b that are asked for, in order.
Places(t, r, a, b, c) ==
  /\ r \in [1..Len(t) -> a..(b - 1)]
  /\ \A j \in 1..Len(t) : t[j] = Call[r[j]] /\ Asked(c, r[j])
  /\ \A j \in 1..Len(t) : \A k \in 1..Len(t) : j < k => r[j] < r[k]
  /\ \A i \in a..(b - 1) : Asked(c, i) => \E j \in 1..Len(t) : r[j] = i

Spans(t, a, b, c) == t \in Seq(Calls) /\ \E r : Places(t, r, a, b, c)

\* Two lists of calls, one after the other.
LEMMA CallsJoined ==
  ASSUME NEW s \in Seq(Calls), NEW t \in Seq(Calls)
  PROVE  /\ s \o t \in Seq(Calls)
         /\ Len(s \o t) = Len(s) + Len(t) /\ Len(s) \in Nat /\ Len(t) \in Nat
         /\ \A j \in 1..Len(s) : (s \o t)[j] = s[j]
         /\ \A j \in 1..Len(t) : (s \o t)[Len(s) + j] = t[j]
OBVIOUS

\* Lists of neighbouring places make up one list.
LEMMA SpanJoin ==
  ASSUME NEW s, NEW t, NEW a \in Nat, NEW b \in Nat, NEW d \in Nat, NEW c, a <= b, b <= d,
         Spans(s, a, b, c), Spans(t, b, d, c)
  PROVE  Spans(s \o t, a, d, c)
PROOF
  <1>1. PICK p : Places(s, p, a, b, c)
    BY DEF Spans
  <1>2. PICK q : Places(t, q, b, d, c)
    BY DEF Spans
  <1> DEFINE u == s \o t
             m == Len(s)
             n == Len(t)
             r == [j \in 1..(m + n) |-> IF j <= m THEN p[j] ELSE q[j - m]]
  <1>3. /\ u \in Seq(Calls) /\ Len(u) = m + n /\ m \in Nat /\ n \in Nat
        /\ \A j \in 1..m : u[j] = s[j]
        /\ \A j \in 1..n : u[m + j] = t[j]
    BY CallsJoined DEF Spans
  <1>4. /\ \A j \in 1..m : p[j] \in a..(b - 1) /\ s[j] = Call[p[j]] /\ Asked(c, p[j])
        /\ \A j \in 1..m : \A k \in 1..m : j < k => p[j] < p[k]
        /\ \A i \in a..(b - 1) : Asked(c, i) => \E j \in 1..m : p[j] = i
    BY <1>1 DEF Places
  <1>5. /\ \A j \in 1..n : q[j] \in b..(d - 1) /\ t[j] = Call[q[j]] /\ Asked(c, q[j])
        /\ \A j \in 1..n : \A k \in 1..n : j < k => q[j] < q[k]
        /\ \A i \in b..(d - 1) : Asked(c, i) => \E j \in 1..n : q[j] = i
    BY <1>2 DEF Places
  <1> HIDE DEF u, m, n
  <1>6. /\ \A j \in 1..m : j \in 1..(m + n) /\ r[j] = p[j]
        /\ \A j \in 1..n : m + j \in 1..(m + n) /\ r[m + j] = q[j]
    <2>1. \A j \in 1..n : m + j \in 1..(m + n) /\ ~(m + j <= m) /\ (m + j) - m = j
      BY <1>3
    <2>2. \A j \in 1..m : j \in 1..(m + n) /\ j <= m
      BY <1>3
    <2> QED BY <2>1, <2>2
  <1>7. \A j \in 1..(m + n) : j \in 1..m \/ \E h \in 1..n : j = m + h
    <2> TAKE j \in 1..(m + n)
    <2>1. CASE j <= m
      BY <2>1, <1>3
    <2>2. CASE ~(j <= m)
      <3>1. j - m \in 1..n /\ j = m + (j - m)
        BY <2>2, <1>3
      <3> QED BY <3>1
    <2> QED BY <2>1, <2>2
  <1>8. DOMAIN r = 1..(m + n) /\ r = [j \in 1..(m + n) |-> r[j]]
    OBVIOUS
  <1> HIDE DEF r
  <1>9. \A j \in 1..(m + n) : r[j] \in a..(d - 1) /\ u[j] = Call[r[j]] /\ Asked(c, r[j])
    <2> TAKE j \in 1..(m + n)
    <2>1. CASE j \in 1..m
      BY <2>1, <1>3, <1>4, <1>6
    <2>2. CASE \E h \in 1..n : j = m + h
      <3>1. PICK h \in 1..n : j = m + h
        BY <2>2
      <3>2. u[j] = t[h] /\ r[j] = q[h]
        BY <3>1, <1>3, <1>6
      <3>3. q[h] \in b..(d - 1) /\ t[h] = Call[q[h]] /\ Asked(c, q[h])
        BY <1>5
      <3>4. q[h] \in a..(d - 1)
        BY <3>3
      <3> QED BY <3>2, <3>3, <3>4
    <2> QED BY <2>1, <2>2, <1>7
  <1>10. ASSUME NEW j \in 1..(m + n), NEW k \in 1..(m + n), j < k PROVE r[j] < r[k]
    <2>1. CASE j \in 1..m /\ k \in 1..m
      BY <2>1, <1>4, <1>6, <1>10
    <2>2. CASE j \in 1..m /\ k \notin 1..m
      <3>1. PICK h \in 1..n : k = m + h
        BY <2>2, <1>7
      <3>2. r[j] = p[j] /\ r[k] = q[h] /\ p[j] \in a..(b - 1) /\ q[h] \in b..(d - 1)
        BY <2>2, <3>1, <1>4, <1>5, <1>6
      <3> QED BY <3>2
    <2>3. CASE j \notin 1..m
      <3>1. PICK g \in 1..n : j = m + g
        BY <2>3, <1>7
      <3>2. k \notin 1..m
        BY <3>1, <1>3, <1>10
      <3>3. PICK h \in 1..n : k = m + h
        BY <3>2, <1>7
      <3>4. g < h
        BY <3>1, <3>3, <1>3, <1>10
      <3> QED BY <3>1, <3>3, <3>4, <1>5, <1>6
    <2> QED BY <2>1, <2>2, <2>3
  <1>11. ASSUME NEW i \in a..(d - 1), Asked(c, i) PROVE \E j \in 1..(m + n) : r[j] = i
    <2>1. CASE i \in a..(b - 1)
      BY <2>1, <1>4, <1>6, <1>11
    <2>2. CASE i \notin a..(b - 1)
      <3>1. i \in b..(d - 1)
        BY <2>2
      <3> QED BY <3>1, <1>5, <1>6, <1>11
    <2> QED BY <2>1, <2>2
  <1>12. r \in [1..(m + n) -> a..(d - 1)]
    BY <1>8, <1>9
  <1>13. Places(u, r, a, d, c)
    BY <1>3, <1>9, <1>10, <1>11, <1>12 DEF Places
  <1> QED BY <1>3, <1>13 DEF Spans, u

\* The first of a list of calls is the first place that is asked for.
LEMMA SpanHead ==
  ASSUME NEW t, NEW k \in 1..21, NEW c, Spans(t, k, 21, c), t # <<>>
  PROVE  \E i \in k..20 : /\ Asked(c, i) /\ Head(t) = Call[i] /\ Spans(Tail(t), i + 1, 21, c)
                          /\ \A h \in k..(i - 1) : ~Asked(c, h)
PROOF
  <1>1. PICK r : Places(t, r, k, 21, c)
    BY DEF Spans
  <1> DEFINE n == Len(t)
             u == Tail(t)
             i == r[1]
             q == [j \in 1..(n - 1) |-> r[j + 1]]
  <1>2. /\ t \in Seq(Calls) /\ n \in Nat /\ n > 0 /\ u \in Seq(Calls) /\ Len(u) = n - 1
        /\ \A j \in 1..(n - 1) : u[j] = t[j + 1]
        /\ Head(t) = t[1]
    BY DEF Spans
  <1>3. /\ \A j \in 1..n : r[j] \in k..20 /\ t[j] = Call[r[j]] /\ Asked(c, r[j])
        /\ \A j \in 1..n : \A h \in 1..n : j < h => r[j] < r[h]
        /\ \A h \in k..20 : Asked(c, h) => \E j \in 1..n : r[j] = h
    BY <1>1 DEF Places
  <1> HIDE DEF n, u
  <1>4. 1 \in 1..n /\ \A j \in 1..(n - 1) : j + 1 \in 1..n /\ 1 < j + 1
    BY <1>2
  <1>5. i \in k..20 /\ Head(t) = Call[i] /\ Asked(c, i)
    BY <1>2, <1>3, <1>4
  <1>6. \A h \in k..(i - 1) : ~Asked(c, h)
    <2> SUFFICES ASSUME NEW h \in k..(i - 1), Asked(c, h) PROVE FALSE
      OBVIOUS
    <2>1. h \in k..20
      BY <1>5
    <2>2. PICK j \in 1..n : r[j] = h
      BY <1>3, <2>1
    <2>3. j = 1 \/ 1 < j
      BY <1>2
    <2>4. r[j] = i \/ i < r[j]
      BY <1>3, <1>4, <2>3
    <2> QED BY <1>5, <2>2, <2>4
  <1>7. \A j \in 1..(n - 1) : q[j] = r[j + 1] /\ q[j] \in (i + 1)..20
    <2> TAKE j \in 1..(n - 1)
    <2>1. r[j + 1] \in k..20 /\ i < r[j + 1]
      BY <1>3, <1>4
    <2> QED BY <1>5, <2>1
  <1>8. q \in [1..(n - 1) -> (i + 1)..20]
    BY <1>7
  <1> HIDE DEF i, q
  <1>9. \A j \in 1..(n - 1) : u[j] = Call[q[j]] /\ Asked(c, q[j])
    <2> TAKE j \in 1..(n - 1)
    <2>1. j + 1 \in 1..n /\ u[j] = t[j + 1] /\ q[j] = r[j + 1]
      BY <1>2, <1>4, <1>7
    <2>2. t[j + 1] = Call[r[j + 1]] /\ Asked(c, r[j + 1])
      BY <1>3, <2>1
    <2> QED BY <2>1, <2>2
  <1>10. \A j \in 1..(n - 1) : \A h \in 1..(n - 1) : j < h => q[j] < q[h]
    BY <1>2, <1>3, <1>4, <1>7
  <1>11. ASSUME NEW h \in (i + 1)..20, Asked(c, h) PROVE \E j \in 1..(n - 1) : q[j] = h
    <2>1. h \in k..20 /\ h # i
      BY <1>5
    <2>2. PICK j \in 1..n : r[j] = h
      BY <1>3, <1>11, <2>1
    <2>3. j # 1
      BY <2>1, <2>2 DEF i
    <2>4. j - 1 \in 1..(n - 1) /\ (j - 1) + 1 = j
      BY <1>2, <2>3
    <2>5. q[j - 1] = r[(j - 1) + 1]
      BY <1>7, <2>4
    <2> QED BY <2>2, <2>4, <2>5
  <1>12. (21 - 1 = 20) /\ i + 1 \in Nat
    BY <1>5
  <1>13. Places(u, q, i + 1, 21, c)
    BY <1>2, <1>8, <1>9, <1>10, <1>11, <1>12 DEF Places
  <1> QED BY <1>2, <1>5, <1>6, <1>13 DEF Spans, u

\* When no call is left, the last one was made.
LEMMA SpanEmpty ==
  ASSUME NEW k \in 1..21, NEW c, Spans(<<>>, k, 21, c)
  PROVE  k = 21
PROOF
  <1>1. PICK r : Places(<<>>, r, k, 21, c)
    BY DEF Spans
  <1>2. Asked(c, 20)
    BY DEF Asked
  <1> SUFFICES ASSUME k # 21 PROVE FALSE
    OBVIOUS
  <1>3. 20 \in k..(21 - 1)
    OBVIOUS
  <1>4. \E j \in 1..Len(<<>>) : r[j] = 20
    BY <1>1, <1>2, <1>3 DEF Places
  <1> QED BY <1>4

\* Calls of neighbouring places that are all asked for.
LEMMA SpanRun ==
  ASSUME NEW t \in Seq(Calls), NEW a \in Nat, NEW c,
         \A j \in 1..Len(t) : t[j] = Call[(a + j) - 1] /\ Asked(c, (a + j) - 1)
  PROVE  Spans(t, a, a + Len(t), c)
PROOF
  <1> DEFINE n == Len(t)
             b == a + n
             r == [j \in 1..n |-> (a + j) - 1]
  <1>1. n \in Nat
    OBVIOUS
  <1> HIDE DEF n
  <1>2. \A j \in 1..n : r[j] = (a + j) - 1 /\ r[j] \in a..(b - 1)
    BY <1>1
  <1>3. r \in [1..n -> a..(b - 1)]
    BY <1>2
  <1>4. ASSUME NEW i \in a..(b - 1) PROVE \E j \in 1..n : r[j] = i
    <2>1. (i - a) + 1 \in 1..n /\ (a + ((i - a) + 1)) - 1 = i
      BY <1>1
    <2> QED BY <1>2, <2>1
  <1> HIDE DEF r
  <1>5. \A j \in 1..n : t[j] = Call[r[j]] /\ Asked(c, r[j])
    BY <1>2 DEF n
  <1>6. \A j \in 1..n : \A k \in 1..n : j < k => r[j] < r[k]
    BY <1>2
  <1>7. Places(t, r, a, b, c)
    BY <1>3, <1>4, <1>5, <1>6 DEF Places, n
  <1> QED BY <1>7 DEF Spans, n

\* The calls by their places.
LEMMA CallIs ==
  /\ Call[1] = Mkdir(RootTarget) /\ Call[2] = Sys("unshare") /\ Call[3] = Sys("private")
  /\ Call[4] = Mount(RootTarget, "tmpfs") /\ Call[5] = Mkdir(In(".old"))
  /\ Call[6] = Mkdir(In("nix")) /\ Call[7] = Mkdir(In("persist")) /\ Call[8] = Mkdir(In("run"))
  /\ Call[9] = Mkdir(In("proc")) /\ Call[10] = Mkdir(In("dev"))
  /\ Call[11] = Mount(In("nix"), "squashfs") /\ Call[12] = Mount(In("persist"), "bind")
  /\ Call[13] = Mount(In("run"), "tmpfs") /\ Call[14] = Mount(In("proc"), "proc")
  /\ Call[15] = Mount(In("dev"), "devtmpfs") /\ Call[16] = Sys("pivot_root")
  /\ Call[17] = Sys("detach") /\ Call[18] = Sys("rmdir") /\ Call[19] = Sys("readonly")
  /\ Call[20] = Sys("uts")
BY DEF Call

\* One call that is asked for.
LEMMA SpanOne ==
  ASSUME NEW i \in 1..20, NEW c, Asked(c, i)
  PROVE  Spans(<<Call[i]>>, i, i + 1, c)
PROOF
  <1> DEFINE t == <<Call[i]>>
  <1>1. t \in Seq(Calls) /\ Len(t) = 1 /\ t[1] = Call[i]
    BY DEF Calls
  <1>2. (i + 1) - 1 = i /\ \A j \in 1..1 : j = 1
    OBVIOUS
  <1> HIDE DEF t
  <1>3. \A j \in 1..Len(t) : t[j] = Call[(i + j) - 1] /\ Asked(c, (i + j) - 1)
    BY <1>1, <1>2
  <1>4. i \in Nat
    OBVIOUS
  <1>5. Spans(t, i, i + Len(t), c)
    BY <1>1, <1>3, <1>4, SpanRun
  <1> QED BY <1>1, <1>5 DEF t

\* One call that is not.
LEMMA SpanNone ==
  ASSUME NEW i \in 1..20, NEW c, ~Asked(c, i)
  PROVE  Spans(<<>>, i, i + 1, c)
PROOF
  <1> DEFINE r == [j \in 1..0 |-> i]
  <1>1. <<>> \in Seq(Calls) /\ Len(<<>>) = 0 /\ (i + 1) - 1 = i
    OBVIOUS
  <1>2. r \in [1..0 -> i..i] /\ \A j \in 1..0 : FALSE
    OBVIOUS
  <1>3. \A h \in i..i : h = i
    OBVIOUS
  <1>4. Places(<<>>, r, i, i + 1, c)
    BY <1>1, <1>2, <1>3 DEF Places
  <1> QED BY <1>1, <1>4 DEF Spans

\* One call that the configuration may ask for.
LEMMA SpanWhen ==
  ASSUME NEW i \in 1..20, NEW c, NEW f \in BOOLEAN, Asked(c, i) <=> f
  PROVE  Spans(When(f, Call[i]), i, i + 1, c)
BY SpanOne, SpanNone DEF When

\* The directories and the mounts that the configuration asks for, in order.
LEMMA DirectoriesSpan ==
  ASSUME NEW c \in [ephemeral : BOOLEAN, enable_proc : BOOLEAN, enable_dev : BOOLEAN]
  PROVE  Spans(Directories(c), 5, 11, c)
PROOF
  <1> DEFINE t == <<Mkdir(In(".old")), Mkdir(In("nix")), Mkdir(In("persist"))>>
             e == When(c.ephemeral, Mkdir(In("run")))
             p == When(c.enable_proc, Mkdir(In("proc")))
             d == When(c.enable_dev, Mkdir(In("dev")))
  <1>1. Spans(t, 5, 8, c)
    <2>1. t = <<Call[5], Call[6], Call[7]>>
      BY CallIs
    <2>2. t \in Seq(Calls) /\ Len(t) = 3 /\ t[1] = Call[5] /\ t[2] = Call[6] /\ t[3] = Call[7]
      BY <2>1 DEF Calls
    <2> HIDE DEF t
    <2>3. ASSUME NEW j \in 1..3 PROVE t[j] = Call[(5 + j) - 1] /\ Asked(c, (5 + j) - 1)
      <3>1. j = 1 \/ j = 2 \/ j = 3
        OBVIOUS
      <3>2. (5 + 1) - 1 = 5 /\ (5 + 2) - 1 = 6 /\ (5 + 3) - 1 = 7
        OBVIOUS
      <3>3. Asked(c, 5) /\ Asked(c, 6) /\ Asked(c, 7)
        BY DEF Asked
      <3> QED BY <2>2, <3>1, <3>2, <3>3
    <2>4. Spans(t, 5, 5 + 3, c)
      BY <2>2, <2>3, SpanRun
    <2> QED BY <2>4
  <1>2. Asked(c, 8) <=> c.ephemeral
    BY DEF Asked
  <1>3. Asked(c, 9) <=> c.enable_proc
    BY DEF Asked
  <1>4. Asked(c, 10) <=> c.enable_dev
    BY DEF Asked
  <1>5. Spans(e, 8, 9, c)
    <2>1. Spans(When(c.ephemeral, Call[8]), 8, 8 + 1, c)
      BY <1>2, SpanWhen
    <2> QED BY <2>1, CallIs
  <1>6. Spans(p, 9, 10, c)
    <2>1. Spans(When(c.enable_proc, Call[9]), 9, 9 + 1, c)
      BY <1>3, SpanWhen
    <2> QED BY <2>1, CallIs
  <1>7. Spans(d, 10, 11, c)
    <2>1. Spans(When(c.enable_dev, Call[10]), 10, 10 + 1, c)
      BY <1>4, SpanWhen
    <2> QED BY <2>1, CallIs
  <1> HIDE DEF t, e, p, d
  <1>8. Spans(t \o e, 5, 9, c)
    BY <1>1, <1>5, SpanJoin
  <1>9. Spans((t \o e) \o p, 5, 10, c)
    BY <1>8, <1>6, SpanJoin
  <1>10. Spans(((t \o e) \o p) \o d, 5, 11, c)
    BY <1>9, <1>7, SpanJoin
  <1> QED BY <1>10 DEF Directories, t, e, p, d

\* The mounts are made at places 11 to 15.
LEMMA MountsSpan ==
  ASSUME NEW c \in [ephemeral : BOOLEAN, enable_proc : BOOLEAN, enable_dev : BOOLEAN]
  PROVE  Spans(Mounts(c), 11, 16, c)
PROOF
  <1> DEFINE t == <<Mount(In("nix"), "squashfs"), Mount(In("persist"), "bind")>>
             e == When(c.ephemeral, Mount(In("run"), "tmpfs"))
             p == When(c.enable_proc, Mount(In("proc"), "proc"))
             d == When(c.enable_dev, Mount(In("dev"), "devtmpfs"))
  <1>1. Spans(t, 11, 13, c)
    <2>1. t = <<Call[11], Call[12]>>
      BY CallIs
    <2>2. t \in Seq(Calls) /\ Len(t) = 2 /\ t[1] = Call[11] /\ t[2] = Call[12]
      BY <2>1 DEF Calls
    <2> HIDE DEF t
    <2>3. ASSUME NEW j \in 1..2 PROVE t[j] = Call[(11 + j) - 1] /\ Asked(c, (11 + j) - 1)
      <3>1. j = 1 \/ j = 2
        OBVIOUS
      <3>2. (11 + 1) - 1 = 11 /\ (11 + 2) - 1 = 12
        OBVIOUS
      <3>3. Asked(c, 11) /\ Asked(c, 12)
        BY DEF Asked
      <3> QED BY <2>2, <3>1, <3>2, <3>3
    <2>4. Spans(t, 11, 11 + 2, c)
      BY <2>2, <2>3, SpanRun
    <2> QED BY <2>4
  <1>2. Asked(c, 13) <=> c.ephemeral
    BY DEF Asked
  <1>3. Asked(c, 14) <=> c.enable_proc
    BY DEF Asked
  <1>4. Asked(c, 15) <=> c.enable_dev
    BY DEF Asked
  <1>5. Spans(e, 13, 14, c)
    <2>1. Spans(When(c.ephemeral, Call[13]), 13, 13 + 1, c)
      BY <1>2, SpanWhen
    <2> QED BY <2>1, CallIs
  <1>6. Spans(p, 14, 15, c)
    <2>1. Spans(When(c.enable_proc, Call[14]), 14, 14 + 1, c)
      BY <1>3, SpanWhen
    <2> QED BY <2>1, CallIs
  <1>7. Spans(d, 15, 16, c)
    <2>1. Spans(When(c.enable_dev, Call[15]), 15, 15 + 1, c)
      BY <1>4, SpanWhen
    <2> QED BY <2>1, CallIs
  <1> HIDE DEF t, e, p, d
  <1>8. Spans(t \o e, 11, 14, c)
    BY <1>1, <1>5, SpanJoin
  <1>9. Spans((t \o e) \o p, 11, 15, c)
    BY <1>8, <1>6, SpanJoin
  <1>10. Spans(((t \o e) \o p) \o d, 11, 16, c)
    BY <1>9, <1>7, SpanJoin
  <1> QED BY <1>10 DEF Mounts, t, e, p, d

\* All of the program, at places 1 to 20.
LEMMA ProgramSpans ==
  ASSUME NEW c \in [ephemeral : BOOLEAN, enable_proc : BOOLEAN, enable_dev : BOOLEAN]
  PROVE  Spans(MountNixSquashfs(c), 1, 21, c)
PROOF
  <1> DEFINE a == <<Mkdir(RootTarget)>>
             b == <<Mount(RootTarget, "tmpfs")>>
             m == Directories(c)
             n == Mounts(c)
  <1>1. Spans(a, 1, 2, c)
    <2>1. Asked(c, 1)
      BY DEF Asked
    <2>2. Spans(<<Call[1]>>, 1, 1 + 1, c)
      BY <2>1, SpanOne
    <2> QED BY <2>2, CallIs
  <1>2. Spans(Isolate, 2, 4, c)
    <2>1. Isolate = <<Call[2], Call[3]>>
      BY CallIs DEF Isolate
    <2>2. Isolate \in Seq(Calls) /\ Len(Isolate) = 2 /\ Isolate[1] = Call[2] /\ Isolate[2] = Call[3]
      BY <2>1 DEF Calls
    <2>3. ASSUME NEW j \in 1..2 PROVE Isolate[j] = Call[(2 + j) - 1] /\ Asked(c, (2 + j) - 1)
      <3>1. j = 1 \/ j = 2
        OBVIOUS
      <3>2. (2 + 1) - 1 = 2 /\ (2 + 2) - 1 = 3
        OBVIOUS
      <3>3. Asked(c, 2) /\ Asked(c, 3)
        BY DEF Asked
      <3> QED BY <2>2, <3>1, <3>2, <3>3
    <2>4. Spans(Isolate, 2, 2 + 2, c)
      BY <2>2, <2>3, SpanRun
    <2> QED BY <2>4
  <1>3. Spans(b, 4, 5, c)
    <2>1. Asked(c, 4)
      BY DEF Asked
    <2>2. Spans(<<Call[4]>>, 4, 4 + 1, c)
      BY <2>1, SpanOne
    <2> QED BY <2>2, CallIs
  <1>4. Spans(Pivot, 16, 21, c)
    <2>1. Pivot = <<Call[16], Call[17], Call[18], Call[19], Call[20]>>
      BY CallIs DEF Pivot
    <2>2. /\ Pivot \in Seq(Calls) /\ Len(Pivot) = 5 /\ Pivot[1] = Call[16] /\ Pivot[2] = Call[17]
          /\ Pivot[3] = Call[18] /\ Pivot[4] = Call[19] /\ Pivot[5] = Call[20]
      BY <2>1 DEF Calls
    <2>3. ASSUME NEW j \in 1..5 PROVE Pivot[j] = Call[(16 + j) - 1] /\ Asked(c, (16 + j) - 1)
      <3>1. j = 1 \/ j = 2 \/ j = 3 \/ j = 4 \/ j = 5
        OBVIOUS
      <3>2. /\ (16 + 1) - 1 = 16 /\ (16 + 2) - 1 = 17 /\ (16 + 3) - 1 = 18
            /\ (16 + 4) - 1 = 19 /\ (16 + 5) - 1 = 20
        OBVIOUS
      <3>3. Asked(c, 16) /\ Asked(c, 17) /\ Asked(c, 18) /\ Asked(c, 19) /\ Asked(c, 20)
        BY DEF Asked
      <3> QED BY <2>2, <3>1, <3>2, <3>3
    <2>4. Spans(Pivot, 16, 16 + 5, c)
      BY <2>2, <2>3, SpanRun
    <2> QED BY <2>4
  <1>5. Spans(m, 5, 11, c)
    BY DirectoriesSpan
  <1>6. Spans(n, 11, 16, c)
    BY MountsSpan
  <1> HIDE DEF a, b, m, n
  <1>7. Spans(a \o Isolate, 1, 4, c)
    BY <1>1, <1>2, SpanJoin
  <1>8. Spans((a \o Isolate) \o b, 1, 5, c)
    BY <1>3, <1>7, SpanJoin
  <1>9. Spans(((a \o Isolate) \o b) \o m, 1, 11, c)
    BY <1>5, <1>8, SpanJoin
  <1>10. Spans((((a \o Isolate) \o b) \o m) \o n, 1, 16, c)
    BY <1>6, <1>9, SpanJoin
  <1>11. Spans(((((a \o Isolate) \o b) \o m) \o n) \o Pivot, 1, 21, c)
    BY <1>4, <1>10, SpanJoin
  <1> QED BY <1>11 DEF MountNixSquashfs, a, b, m, n

-------------------------------------------------------------------------------

\* A sequence with one more.
LEMMA Appended ==
  ASSUME NEW T, NEW s \in Seq(T), NEW e \in T
  PROVE  /\ Append(s, e) \in Seq(T) /\ Len(Append(s, e)) = Len(s) + 1
         /\ \A i \in 1..Len(s) : Append(s, e)[i] = s[i]
         /\ Append(s, e)[Len(s) + 1] = e
OBVIOUS

\* A sequence after another.
LEMMA Prepended ==
  ASSUME NEW T, NEW s \in Seq(T), NEW t \in Seq(T)
  PROVE  /\ s \o t \in Seq(T) /\ Len(s \o t) = Len(s) + Len(t)
         /\ \A i \in 1..Len(s) : (s \o t)[i] = s[i]
OBVIOUS

\* Paths below the new root, seen from it.
LEMMA InIs ==
  ASSUME NEW n
  PROVE  /\ In(n) \in Seq({"workdir", "rootfs", n}) /\ Len(In(n)) = 3
         /\ In(n)[1] = "workdir" /\ In(n)[2] = "rootfs" /\ In(n)[3] = n
PROOF
  <1> DEFINE T == {"workdir", "rootfs", n}
             q == Append(RootTarget, n)
  <1>1. RootTarget \in Seq(T) /\ Len(RootTarget) = 2 /\ n \in T
    BY DEF RootTarget
  <1>2. RootTarget[1] = "workdir" /\ RootTarget[2] = "rootfs"
    BY DEF RootTarget
  <1> HIDE DEF T
  <1>3. /\ q \in Seq(T) /\ Len(q) = Len(RootTarget) + 1
        /\ \A i \in 1..Len(RootTarget) : q[i] = RootTarget[i]
        /\ q[Len(RootTarget) + 1] = n
    BY <1>1, Appended
  <1> HIDE DEF q
  <1>4. Len(q) = 3 /\ q[1] = RootTarget[1] /\ q[2] = RootTarget[2] /\ q[3] = n
    BY <1>1, <1>3
  <1> QED BY <1>2, <1>3, <1>4 DEF In, q, T

\* A path below the new root loses the names of that.
LEMMA PivotedIn ==
  ASSUME NEW n
  PROVE  Pivoted(In(n)) = <<n>> /\ In(n)[Len(In(n))] = n
PROOF
  <1> DEFINE p == In(n)
             T == {"workdir", "rootfs", n}
  <1>1. p \in Seq(T) /\ Len(p) = 3 /\ p[1] = "workdir" /\ p[2] = "rootfs" /\ p[3] = n
    BY InIs
  <1>2. RootTarget \in Seq(T) /\ Len(RootTarget) = 2 /\ RootTarget[1] = "workdir" /\ RootTarget[2] = "rootfs"
    BY DEF RootTarget
  <1> HIDE DEF p
  <1>3. Above(RootTarget, p)
    <2> DEFINE y == SubSeq(p, 1, 2)
    <2>1. y \in Seq(T) /\ Len(y) = 2 /\ y[1] = "workdir" /\ y[2] = "rootfs"
      BY <1>1
    <2> HIDE DEF y
    <2>2. y = RootTarget
      BY <1>2, <2>1
    <2> QED BY <1>1, <1>2, <2>2 DEF Above, y
  <1>4. SubSeq(p, 3, 3) = <<n>>
    <2> DEFINE x == SubSeq(p, 3, 3)
               y == <<n>>
    <2>1. x \in Seq(T) /\ Len(x) = 1 /\ x[1] = n
      BY <1>1
    <2>2. y \in Seq(T) /\ Len(y) = 1 /\ y[1] = n
      OBVIOUS
    <2> HIDE DEF x, y
    <2>3. x = y
      BY <2>1, <2>2
    <2> QED BY <2>3 DEF x, y
  <1>5. Pivoted(p) = SubSeq(p, 3, 3)
    BY <1>1, <1>2, <1>3 DEF Pivoted
  <1>6. p[Len(p)] = n
    BY <1>1
  <1> QED BY <1>4, <1>5, <1>6 DEF p

\* The new root becomes the root.
LEMMA PivotedRoot ==
  Pivoted(RootTarget) = <<>>
PROOF
  <1>1. Above(RootTarget, RootTarget)
    <2> DEFINE T == {"workdir", "rootfs"}
               y == SubSeq(RootTarget, 1, 2)
    <2>1. RootTarget \in Seq(T) /\ Len(RootTarget) = 2
      BY DEF RootTarget
    <2>2. y \in Seq(T) /\ Len(y) = 2 /\ y[1] = RootTarget[1] /\ y[2] = RootTarget[2]
      BY <2>1
    <2> HIDE DEF y
    <2>3. y = RootTarget
      BY <2>1, <2>2
    <2> QED BY <2>1, <2>3 DEF Above, y
  <1>2. SubSeq(RootTarget, 3, 2) = <<>> /\ Len(RootTarget) = 2
    BY DEF RootTarget
  <1> QED BY <1>1, <1>2 DEF Pivoted

\* No directory of the new root is below another.
LEMMA InApart ==
  ASSUME NEW m, NEW n, Above(In(m), In(n))
  PROVE  m = n
PROOF
  <1> DEFINE p == In(m)
             q == In(n)
             T == {"workdir", "rootfs", m, n}
  <1>1. p \in Seq(T) /\ Len(p) = 3 /\ p[3] = m
    <2>1. p \in Seq({"workdir", "rootfs", m}) /\ Len(p) = 3 /\ p[3] = m
      BY InIs
    <2> HIDE DEF p
    <2> QED BY <2>1
  <1>2. q \in Seq(T) /\ Len(q) = 3 /\ q[3] = n
    <2>1. q \in Seq({"workdir", "rootfs", n}) /\ Len(q) = 3 /\ q[3] = n
      BY InIs
    <2> HIDE DEF q
    <2> QED BY <2>1
  <1>3. SubSeq(q, 1, 3) = p
    BY <1>1 DEF Above
  <1> HIDE DEF p, q, T
  <1>4. SubSeq(q, 1, 3)[3] = q[3]
    BY <1>2
  <1> QED BY <1>1, <1>2, <1>3, <1>4

\* A path of the host's is below .old, and no path below the new root is.
LEMMA OldIsAbove ==
  ASSUME NEW p \in Seq(STRING), ~Above(RootTarget, p)
  PROVE  Above(<<".old">>, Pivoted(p))
PROOF
  <1> DEFINE T == STRING \cup {".old"}
             o == <<".old">>
             q == o \o p
  <1>1. p \in Seq(T) /\ o \in Seq(T) /\ Len(o) = 1 /\ o[1] = ".old" /\ Len(p) \in Nat
    <2>1. Len(p) \in Nat /\ DOMAIN p = 1..Len(p) /\ \A i \in 1..Len(p) : p[i] \in T
      OBVIOUS
    <2>2. p \in Seq(T)
      BY <2>1
    <2> QED BY <2>1, <2>2
  <1> HIDE DEF T, o
  <1>2. q \in Seq(T) /\ Len(q) = Len(p) + 1 /\ q[1] = ".old"
    <2>1. q \in Seq(T) /\ Len(q) = Len(o) + Len(p) /\ \A i \in 1..Len(o) : q[i] = o[i]
      BY <1>1, Prepended
    <2> HIDE DEF q
    <2> QED BY <1>1, <2>1
  <1> HIDE DEF q
  <1>3. Above(o, q)
    <2> DEFINE y == SubSeq(q, 1, 1)
    <2>1. y \in Seq(T) /\ Len(y) = 1 /\ y[1] = ".old"
      BY <1>1, <1>2
    <2> HIDE DEF y
    <2>2. y = o
      BY <1>1, <2>1
    <2> QED BY <1>1, <1>2, <2>2 DEF Above, y
  <1> QED BY <1>3 DEF Pivoted, o, q

\* Neither the root nor what is mounted on another directory is below .old.
LEMMA NotOld ==
  /\ ~Above(<<".old">>, <<>>)
  /\ \A n : n # ".old" => ~Above(<<".old">>, <<n>>)
PROOF
  <1>1. ~Above(<<".old">>, <<>>)
    BY DEF Above
  <1>2. ASSUME NEW n, Above(<<".old">>, <<n>>) PROVE n = ".old"
    <2> DEFINE x == <<".old">>
               y == SubSeq(<<n>>, 1, 1)
    <2>1. x[1] = ".old" /\ y[1] = n
      OBVIOUS
    <2>2. x = y
      BY <1>2 DEF Above
    <2> HIDE DEF x, y
    <2> QED BY <2>1, <2>2
  <1> QED BY <1>1, <1>2

-------------------------------------------------------------------------------

Made(x) == [at |-> x.at, fs |-> x.fs, ro |-> FALSE]

\* A mount of the list, seen from the new root, and the mount of that.
Inside(c) ==
  {[at |-> <<Call[i].at[Len(Call[i].at)]>>, fs |-> Call[i].fs, ro |-> FALSE] :
     i \in {j \in 11..15 : Asked(c, j)}}

AtRoot(ro) == [at |-> <<>>, fs |-> "tmpfs", ro |-> ro]

\* The state when the calls before the k-th were made.
Building(k, c) ==
  /\ own = HostMounts \cup {Made(Call[i]) : i \in {j \in {4} \cup 11..15 : j < k /\ Asked(c, j)}}
  /\ \A i \in {1} \cup 5..10 : i < k /\ Asked(c, i) => Call[i].at \in dirs
  /\ k > 3 => namespace = "private"

Reached(k, c) ==
  /\ host = HostMounts
  /\ k <= 16 => Building(k, c)
  /\ k = 17 => own = {Moved(m) : m \in HostMounts} \cup {AtRoot(FALSE)} \cup Inside(c)
  /\ k \in {18, 19} => own = {AtRoot(FALSE)} \cup Inside(c)
  /\ k \in {20, 21} => own = {AtRoot(TRUE)} \cup Inside(c)

BoxInv ==
  /\ config \in Configs
  /\ host = HostMounts
  /\ box = "setup" => \E k \in 1..21 : Spans(todo, k, 21, config) /\ Reached(k, config)
  /\ box = "running" => own = {AtRoot(TRUE)} \cup Inside(config)
  /\ box = "failed" => faulted

\* The calls that no configuration leaves out.
LEMMA AlwaysAsked ==
  ASSUME NEW c, NEW i \in 1..7 \cup {11, 12} \cup 16..20
  PROVE  Asked(c, i)
BY DEF Asked

\* What the calls do, by their places.
LEMMA CallDo ==
  ASSUME NEW i \in 1..20
  PROVE  /\ Call[i].do = "mkdir" <=> i \in {1} \cup 5..10
         /\ Call[i].do = "mount" <=> i \in {4} \cup 11..15
         /\ Call[i].do = "unshare" <=> i = 2
         /\ Call[i].do = "private" <=> i = 3
         /\ Call[i].do = "pivot_root" <=> i = 16
         /\ Call[i].do = "detach" <=> i = 17
         /\ Call[i].do = "rmdir" <=> i = 18
         /\ Call[i].do = "readonly" <=> i = 19
         /\ Call[i].do = "uts" <=> i = 20
PROOF
  <1>1. /\ Call[1].do = "mkdir" /\ Call[2].do = "unshare" /\ Call[3].do = "private"
        /\ Call[4].do = "mount" /\ Call[5].do = "mkdir" /\ Call[6].do = "mkdir"
        /\ Call[7].do = "mkdir" /\ Call[8].do = "mkdir" /\ Call[9].do = "mkdir"
        /\ Call[10].do = "mkdir"
    BY CallIs DEF Mkdir, Mount, Sys
  <1>2. /\ Call[11].do = "mount" /\ Call[12].do = "mount" /\ Call[13].do = "mount"
        /\ Call[14].do = "mount" /\ Call[15].do = "mount" /\ Call[16].do = "pivot_root"
        /\ Call[17].do = "detach" /\ Call[18].do = "rmdir" /\ Call[19].do = "readonly"
        /\ Call[20].do = "uts"
    BY CallIs DEF Mount, Sys
  <1>3. \/ i = 1 \/ i = 2 \/ i = 3 \/ i = 4 \/ i = 5 \/ i = 6 \/ i = 7 \/ i = 8 \/ i = 9 \/ i = 10
        \/ i = 11 \/ i = 12 \/ i = 13 \/ i = 14 \/ i = 15 \/ i = 16 \/ i = 17 \/ i = 18
        \/ i = 19 \/ i = 20
    OBVIOUS
  <1> QED BY <1>1, <1>2, <1>3

\* Where the calls make directories and mounts.
LEMMA CallAt ==
  /\ Call[1].at = RootTarget /\ Call[4].at = RootTarget /\ Call[5].at = In(".old")
  /\ \A i \in 5..15 : \E n : Call[i].at = In(n)
  /\ \A i \in 11..15 : \E n : n # ".old" /\ Call[i].at = In(n)
  /\ \A i \in 11..15 : Call[i].at = Call[i - 5].at
  /\ \A i \in 11..15 : \A c : Asked(c, i) => Asked(c, i - 5)
PROOF
  <1>1. Call[1].at = RootTarget /\ Call[4].at = RootTarget
    BY CallIs DEF Mkdir, Mount
  <1>2. /\ Call[5].at = In(".old") /\ Call[6].at = In("nix") /\ Call[7].at = In("persist")
        /\ Call[8].at = In("run") /\ Call[9].at = In("proc") /\ Call[10].at = In("dev")
    BY CallIs DEF Mkdir
  <1>3. /\ Call[11].at = In("nix") /\ Call[12].at = In("persist") /\ Call[13].at = In("run")
        /\ Call[14].at = In("proc") /\ Call[15].at = In("dev")
    BY CallIs DEF Mount
  <1>4. \A i \in 5..10 : i = 5 \/ i = 6 \/ i = 7 \/ i = 8 \/ i = 9 \/ i = 10
    OBVIOUS
  <1>5. \A i \in 11..15 : i = 11 \/ i = 12 \/ i = 13 \/ i = 14 \/ i = 15
    OBVIOUS
  <1>6. \A i \in 5..10 : \E n : Call[i].at = In(n)
    BY <1>2, <1>4
  <1>7. \A i \in 11..15 : \E n : n # ".old" /\ Call[i].at = In(n)
    BY <1>3, <1>5
  <1>8. \A i \in 5..15 : i \in 5..10 \/ i \in 11..15
    OBVIOUS
  <1>9. \A i \in 11..15 : Call[i].at = Call[i - 5].at
    BY <1>2, <1>3, <1>5
  <1>10. ASSUME NEW i \in 11..15, NEW c, Asked(c, i) PROVE Asked(c, i - 5)
    BY <1>5, <1>10 DEF Asked
  <1> QED BY <1>1, <1>2, <1>6, <1>7, <1>8, <1>9, <1>10

\* A call that is not asked for changes nothing.
LEMMA Skips ==
  ASSUME NEW c, NEW k \in 1..21, NEW i \in k..20, \A h \in k..(i - 1) : ~Asked(c, h), Reached(k, c)
  PROVE  Reached(i, c)
PROOF
  <1>1. CASE i = k
    BY <1>1
  <1>2. CASE i # k
    <2>1. k \in k..(i - 1) /\ ~Asked(c, k)
      BY <1>2
    <2>2. k \notin 1..7 \cup 16..20
      BY <2>1, AlwaysAsked
    <2>3. k \in 8..15
      BY <2>2
    <2>4. i <= 16
      <3> SUFFICES ASSUME i > 16 PROVE FALSE
        OBVIOUS
      <3>1. 16 \in k..(i - 1)
        BY <2>3
      <3> QED BY <3>1, AlwaysAsked
    <2>5. \A j \in Nat : j < i /\ Asked(c, j) <=> j < k /\ Asked(c, j)
      <3> TAKE j \in Nat
      <3>1. j < i /\ ~(j < k) => j \in k..(i - 1)
        OBVIOUS
      <3> QED BY <3>1
    <2>6. {j \in {4} \cup 11..15 : j < i /\ Asked(c, j)} = {j \in {4} \cup 11..15 : j < k /\ Asked(c, j)}
      BY <2>5
    <2>7. \A j \in {1} \cup 5..10 : j < i /\ Asked(c, j) => j < k /\ Asked(c, j)
      BY <2>5
    <2>8. k <= 16 /\ k > 3 /\ i \notin {17, 18, 19, 20, 21}
      BY <2>3, <2>4
    <2>9. /\ host = HostMounts /\ namespace = "private"
          /\ own = HostMounts \cup {Made(Call[j]) : j \in {h \in {4} \cup 11..15 : h < k /\ Asked(c, h)}}
          /\ \A j \in {1} \cup 5..10 : j < k /\ Asked(c, j) => Call[j].at \in dirs
      BY <2>8 DEF Reached, Building
    <2> QED BY <2>6, <2>7, <2>8, <2>9 DEF Reached, Building
  <1> QED BY <1>1, <1>2

\* No call is refused in its turn.
LEMMA NoneRefused ==
  ASSUME NEW c, NEW i \in 1..20, Asked(c, i), Head(todo) = Call[i], Reached(i, c)
  PROVE  ~Refused
PROOF
  <1>1. ASSUME Call[i].do = "mount" PROVE Call[i].at \in dirs
    <2>1. i \in {4} \cup 11..15
      BY <1>1, CallDo
    <2>2. \A j \in {1} \cup 5..10 : j < i /\ Asked(c, j) => Call[j].at \in dirs
      BY <2>1 DEF Reached, Building
    <2>3. CASE i = 4
      <3>1. Asked(c, 1)
        BY AlwaysAsked
      <3> QED BY <2>2, <2>3, <3>1, CallAt
    <2>4. CASE i \in 11..15
      <3>1. i - 5 \in 5..10 /\ i - 5 < i
        BY <2>4
      <3>2. Asked(c, i - 5) /\ Call[i].at = Call[i - 5].at
        BY <2>4, CallAt
      <3> QED BY <2>2, <3>1, <3>2
    <2> QED BY <2>1, <2>3, <2>4
  <1>2. ASSUME Call[i].do = "pivot_root"
        PROVE  namespace = "private" /\ In(".old") \in dirs /\ \E m \in own : m.at = RootTarget
    <2>1. i = 16
      BY <1>2, CallDo
    <2>2. Asked(c, 4) /\ Asked(c, 5)
      BY AlwaysAsked
    <2>3. Call[5].at \in dirs /\ namespace = "private"
      BY <2>1, <2>2 DEF Reached, Building
    <2>4. Made(Call[4]) \in own
      BY <2>1, <2>2 DEF Reached, Building
    <2>5. Made(Call[4]).at = RootTarget
      BY CallAt DEF Made
    <2> QED BY <2>3, <2>4, <2>5, CallAt
  <1> QED BY <1>1, <1>2 DEF Refused

\* A directory is there from then on.
LEMMA MakeDirAt ==
  ASSUME NEW c, NEW i \in 1..20, Head(todo) = Call[i], Reached(i, c), MakeDir
  PROVE  Reached(i + 1, c)'
PROOF
  <1>1. /\ Call[i].do = "mkdir" /\ dirs' = dirs \cup {Call[i].at} /\ host' = host /\ own' = own
        /\ namespace' = namespace
    BY DEF MakeDir, Next_
  <1>2. i \in {1} \cup 5..10
    BY <1>1, CallDo
  <1>3. i <= 16 /\ i + 1 <= 16 /\ (i + 1 > 3 => i > 3)
    BY <1>2
  <1>4. {j \in {4} \cup 11..15 : j < i + 1 /\ Asked(c, j)} = {j \in {4} \cup 11..15 : j < i /\ Asked(c, j)}
    BY <1>2
  <1>5. ASSUME NEW j \in {1} \cup 5..10, j < i + 1, Asked(c, j) PROVE Call[j].at \in dirs'
    <2>1. j < i \/ j = i
      BY <1>5
    <2> QED BY <1>1, <1>3, <1>5, <2>1 DEF Reached, Building
  <1>6. i + 1 \notin {17, 18, 19, 20, 21}
    BY <1>3
  <1> QED BY <1>1, <1>3, <1>4, <1>5, <1>6 DEF Reached, Building

\* The namespace is private before the first mount.
LEMMA IsolateAt ==
  ASSUME NEW c, NEW i \in 1..20, Head(todo) = Call[i], Reached(i, c), Unshare \/ MakePrivate
  PROVE  Reached(i + 1, c)'
PROOF
  <1>1. /\ dirs' = dirs /\ host' = host /\ own' = own
        /\ (Call[i].do = "unshare" \/ (Call[i].do = "private" /\ namespace' = "private"))
    BY DEF Unshare, MakePrivate, Next_
  <1>2. i = 2 \/ (i = 3 /\ namespace' = "private")
    BY <1>1, CallDo
  <1>3. {j \in {4} \cup 11..15 : j < i + 1 /\ Asked(c, j)} = {j \in {4} \cup 11..15 : j < i /\ Asked(c, j)}
    BY <1>2
  <1>4. \A j \in {1} \cup 5..10 : j < i + 1 => j < i
    BY <1>2
  <1>5. i <= 16 /\ i + 1 <= 16 /\ i + 1 \notin {17, 18, 19, 20, 21} /\ (i + 1 > 3 => i = 3)
    BY <1>2
  <1>6. host' = HostMounts /\ own' = HostMounts \cup {Made(Call[j]) : j \in {h \in {4} \cup 11..15 : h < i + 1 /\ Asked(c, h)}}
    BY <1>1, <1>3, <1>5 DEF Reached, Building
  <1>7. \A j \in {1} \cup 5..10 : j < i + 1 /\ Asked(c, j) => Call[j].at \in dirs'
    BY <1>1, <1>4, <1>5 DEF Reached, Building
  <1>8. i + 1 > 3 => namespace' = "private"
    BY <1>2, <1>5
  <1> QED BY <1>5, <1>6, <1>7, <1>8 DEF Reached, Building

\* A mount hides none of the directories that others are to be mounted on.
LEMMA MountOneAt ==
  ASSUME NEW c, NEW i \in 1..20, Asked(c, i), Head(todo) = Call[i], Reached(i, c), MountOne
  PROVE  Reached(i + 1, c)'
PROOF
  <1> DEFINE x == Call[i]
             m == Made(x)
  <1>1. /\ x.do = "mount" /\ own' = own \cup {m} /\ (namespace = "private" => host' = host)
        /\ dirs' = dirs \ (Under(x.at, dirs) \ {x.at}) /\ namespace' = namespace
    BY DEF MountOne, Next_, Made
  <1>2. i \in {4} \cup 11..15
    BY <1>1, CallDo
  <1>3. i <= 16 /\ i + 1 <= 16 /\ i > 3
    BY <1>2
  <1>4. namespace = "private" /\ host' = HostMounts /\ namespace' = "private"
    BY <1>1, <1>3 DEF Reached, Building
  <1> DEFINE J(k) == {j \in {4} \cup 11..15 : j < k /\ Asked(c, j)}
  <1>5. J(i + 1) = J(i) \cup {i}
    BY <1>2
  <1>6. own' = HostMounts \cup {Made(Call[j]) : j \in J(i + 1)}
    <2>1. own = HostMounts \cup {Made(Call[j]) : j \in J(i)}
      BY <1>3 DEF Reached, Building
    <2> HIDE DEF J
    <2> QED BY <1>1, <1>5, <2>1
  <1>7. ASSUME NEW j \in {1} \cup 5..10, j < i + 1, Asked(c, j) PROVE Call[j].at \in dirs'
    <2>1. j < i
      BY <1>2, <1>7
    <2>2. Call[j].at \in dirs
      BY <1>3, <1>7, <2>1 DEF Reached, Building
    <2>3. Above(x.at, Call[j].at) => Call[j].at = x.at
      <3>1. CASE i = 4
        <4>1. j = 1
          BY <1>7, <2>1, <3>1
        <4> QED BY <3>1, <4>1, CallAt
      <3>2. CASE i \in 11..15 /\ j \in 5..10
        <4>1. PICK n : x.at = In(n)
          BY <3>2, CallAt
        <4>2. PICK h : Call[j].at = In(h)
          BY <3>2, CallAt
        <4> QED BY <4>1, <4>2, InApart
      <3>3. CASE i \in 11..15 /\ j = 1
        <4>1. PICK n : x.at = In(n)
          BY <3>3, CallAt
        <4>2. Len(In(n)) = 3
          BY InIs
        <4>3. Call[j].at = RootTarget
          BY <3>3, CallAt
        <4>4. Len(RootTarget) = 2
          BY DEF RootTarget
        <4>5. ~Above(In(n), RootTarget)
          BY <4>2, <4>4 DEF Above
        <4> QED BY <4>1, <4>3, <4>5
      <3> QED BY <1>2, <3>1, <3>2, <3>3
    <2> QED BY <1>1, <2>2, <2>3 DEF Under
  <1>8. i + 1 \notin {17, 18, 19, 20, 21}
    BY <1>3
  <1> QED BY <1>3, <1>4, <1>6, <1>7, <1>8 DEF Reached, Building

\* Pivoting moves the mounts of the new root to where they are seen from it.
LEMMA PivotRootAt ==
  ASSUME NEW c, NEW i \in 1..20, Head(todo) = Call[i], Reached(i, c), PivotRoot
  PROVE  Reached(i + 1, c)'
PROOF
  <1> DEFINE J == {j \in 11..15 : Asked(c, j)}
             Shown(j) == [at |-> <<Call[j].at[Len(Call[j].at)]>>, fs |-> Call[j].fs, ro |-> FALSE]
  <1>1. Call[i].do = "pivot_root" /\ own' = {Moved(m) : m \in own} /\ host' = host
    BY DEF PivotRoot, Next_
  <1>2. i = 16
    BY <1>1, CallDo
  <1>3. {j \in {4} \cup 11..15 : j < 16 /\ Asked(c, j)} = {4} \cup J
    <2>1. Asked(c, 4)
      BY AlwaysAsked
    <2> QED BY <2>1
  <1>4. host = HostMounts /\ own = HostMounts \cup {Made(Call[j]) : j \in {4} \cup J}
    <2>1. host = HostMounts /\ Building(16, c)
      BY <1>2 DEF Reached
    <2>2. own = HostMounts \cup {Made(Call[j]) : j \in {h \in {4} \cup 11..15 : h < 16 /\ Asked(c, h)}}
      BY <2>1 DEF Building
    <2> QED BY <1>3, <2>1, <2>2
  <1>5. Moved(Made(Call[4])) = AtRoot(FALSE)
    <2>1. Call[4].at = RootTarget /\ Call[4].fs = "tmpfs"
      BY CallIs DEF Mount
    <2>2. Made(Call[4]) = [at |-> RootTarget, fs |-> "tmpfs", ro |-> FALSE]
      BY <2>1 DEF Made
    <2>3. Moved(Made(Call[4])) = [at |-> Pivoted(RootTarget), fs |-> "tmpfs", ro |-> FALSE]
      BY <2>2 DEF Moved
    <2> QED BY <2>3, PivotedRoot DEF AtRoot
  <1>6. ASSUME NEW j \in J PROVE Moved(Made(Call[j])) = Shown(j)
    <2>1. PICK n : Call[j].at = In(n)
      BY CallAt
    <2>2. Pivoted(Call[j].at) = <<n>> /\ Call[j].at[Len(Call[j].at)] = n
      BY <2>1, PivotedIn
    <2>3. Moved(Made(Call[j])) = [at |-> Pivoted(Call[j].at), fs |-> Call[j].fs, ro |-> FALSE]
      BY DEF Made, Moved
    <2> QED BY <2>2, <2>3
  <1>7. Inside(c) = {Shown(j) : j \in J}
    BY DEF Inside
  <1> HIDE DEF J, Shown
  <1>8. own' = {Moved(m) : m \in HostMounts} \cup {AtRoot(FALSE)} \cup Inside(c)
    <2> DEFINE H == HostMounts
               N == {Made(Call[j]) : j \in {4} \cup J}
    <2>1. {Moved(m) : m \in N} = {AtRoot(FALSE)} \cup Inside(c)
      <3>1. {Moved(m) : m \in N} = {Moved(Made(Call[j])) : j \in {4} \cup J}
        OBVIOUS
      <3>2. {Moved(Made(Call[j])) : j \in {4} \cup J}
              = {Moved(Made(Call[4]))} \cup {Moved(Made(Call[j])) : j \in J}
        OBVIOUS
      <3>3. {Moved(Made(Call[j])) : j \in J} = {Shown(j) : j \in J}
        BY <1>6
      <3> QED BY <1>5, <1>7, <3>1, <3>2, <3>3
    <2> HIDE DEF N
    <2>2. own' = {Moved(m) : m \in H \cup N}
      BY <1>1, <1>4 DEF N
    <2>3. own' = {Moved(m) : m \in H} \cup {Moved(m) : m \in N}
      BY <2>2
    <2> QED BY <2>1, <2>3
  <1>9. host' = HostMounts
    BY <1>1, <1>4
  <1>10. Reached(17, c)'
    BY <1>8, <1>9 DEF Reached
  <1> QED BY <1>2, <1>10

\* The host's mounts are all below .old, and go with it.
LEMMA DetachOldAt ==
  ASSUME NEW c, NEW i \in 1..20, Head(todo) = Call[i], Reached(i, c), DetachOld
  PROVE  Reached(i + 1, c)'
PROOF
  <1> DEFINE Old(m) == Above(<<".old">>, m.at)
  <1>1. Call[i].do = "detach" /\ own' = {m \in own : ~Old(m)} /\ host' = host
    BY DEF DetachOld, Next_
  <1>2. i = 17
    BY <1>1, CallDo
  <1>3. host = HostMounts /\ own = {Moved(m) : m \in HostMounts} \cup {AtRoot(FALSE)} \cup Inside(c)
    BY <1>2 DEF Reached
  <1>4. ASSUME NEW m \in HostMounts PROVE Old(Moved(m))
    <2>1. m \in [at : Seq(STRING), fs : STRING, ro : BOOLEAN] /\ ~Above(RootTarget, m.at)
      BY BoxAssumption
    <2>2. Moved(m).at = Pivoted(m.at)
      BY DEF Moved
    <2>3. m.at \in Seq(STRING)
      BY <2>1
    <2> QED BY <2>1, <2>2, <2>3, OldIsAbove
  <1>5. ~Old(AtRoot(FALSE))
    BY NotOld DEF AtRoot
  <1>6. ASSUME NEW m \in Inside(c) PROVE ~Old(m)
    <2>1. PICK j \in 11..15 :
            m = [at |-> <<Call[j].at[Len(Call[j].at)]>>, fs |-> Call[j].fs, ro |-> FALSE]
      BY DEF Inside
    <2>2. PICK n : n # ".old" /\ Call[j].at = In(n)
      BY CallAt
    <2>3. m.at = <<n>>
      BY <2>1, <2>2, PivotedIn
    <2> QED BY <2>2, <2>3, NotOld
  <1> HIDE DEF Old
  <1>7. own' = {AtRoot(FALSE)} \cup Inside(c)
    BY <1>1, <1>3, <1>4, <1>5, <1>6
  <1>8. host' = HostMounts
    BY <1>1, <1>3
  <1>9. Reached(18, c)'
    BY <1>7, <1>8 DEF Reached
  <1> QED BY <1>2, <1>9

\* The root cannot be written from then on; what is mounted below it is as before.
LEMMA RemountReadOnlyAt ==
  ASSUME NEW c, NEW i \in 1..20, Head(todo) = Call[i], Reached(i, c), RemountReadOnly
  PROVE  Reached(i + 1, c)'
PROOF
  <1>1. Call[i].do = "readonly" /\ own' = {Locked(m) : m \in own} /\ host' = host
    BY DEF RemountReadOnly, Next_
  <1>2. i = 19
    BY <1>1, CallDo
  <1>3. host = HostMounts /\ own = {AtRoot(FALSE)} \cup Inside(c)
    BY <1>2 DEF Reached
  <1>4. Locked(AtRoot(FALSE)) = AtRoot(TRUE)
    BY DEF AtRoot, Locked
  <1>5. ASSUME NEW m \in Inside(c) PROVE Locked(m) = m
    <2>1. PICK j \in 11..15 :
            m = [at |-> <<Call[j].at[Len(Call[j].at)]>>, fs |-> Call[j].fs, ro |-> FALSE]
      BY DEF Inside
    <2> DEFINE n == Call[j].at[Len(Call[j].at)]
               fs == Call[j].fs
    <2> HIDE DEF n, fs
    <2>2. m = [at |-> <<n>>, fs |-> fs, ro |-> FALSE]
      BY <2>1 DEF n, fs
    <2>3. <<n>> # <<>>
      OBVIOUS
    <2> QED BY <2>2, <2>3 DEF Locked
  <1>6. own' = {AtRoot(TRUE)} \cup Inside(c)
    BY <1>1, <1>3, <1>4, <1>5
  <1>7. host' = HostMounts
    BY <1>1, <1>3
  <1>8. Reached(20, c)'
    BY <1>6, <1>7 DEF Reached
  <1> QED BY <1>2, <1>8

\* The calls that leave the mounts alone.
LEMMA LastCallsAt ==
  ASSUME NEW c, NEW i \in 1..20, Head(todo) = Call[i], Reached(i, c), RemoveOld \/ UnshareUts
  PROVE  Reached(i + 1, c)'
PROOF
  <1>1. own' = own /\ host' = host /\ (Call[i].do = "rmdir" \/ Call[i].do = "uts")
    BY DEF RemoveOld, UnshareUts, Next_
  <1>2. i = 18 \/ i = 20
    BY <1>1, CallDo
  <1>3. CASE i = 18
    <2>1. host = HostMounts /\ own = {AtRoot(FALSE)} \cup Inside(c)
      BY <1>3 DEF Reached
    <2>2. i + 1 = 19
      BY <1>3
    <2>3. host' = HostMounts /\ own' = {AtRoot(FALSE)} \cup Inside(c)
      BY <1>1, <2>1
    <2>4. Reached(19, c)'
      BY <2>3 DEF Reached
    <2> QED BY <2>2, <2>4
  <1>4. CASE i = 20
    <2>1. host = HostMounts /\ own = {AtRoot(TRUE)} \cup Inside(c)
      BY <1>4 DEF Reached
    <2>2. i + 1 = 21
      BY <1>4
    <2>3. host' = HostMounts /\ own' = {AtRoot(TRUE)} \cup Inside(c)
      BY <1>1, <2>1
    <2>4. Reached(21, c)'
      BY <2>3 DEF Reached
    <2> QED BY <2>2, <2>4
  <1> QED BY <1>2, <1>3, <1>4

Calling ==
  \/ MakeDir \/ Unshare \/ MakePrivate \/ MountOne \/ PivotRoot \/ DetachOld
  \/ RemoveOld \/ RemountReadOnly \/ UnshareUts

\* Each call leaves the state that the next one counts on.
LEMMA CallingAt ==
  ASSUME NEW c, NEW i \in 1..20, Asked(c, i), Head(todo) = Call[i], Reached(i, c), Calling
  PROVE  Reached(i + 1, c)'
BY MakeDirAt, IsolateAt, MountOneAt, PivotRootAt, DetachOldAt, LastCallsAt, RemountReadOnlyAt
   DEF Calling

\* The invariant holds before the first call.
LEMMA BoxInitInv == BoxInit => BoxInv
PROOF
  <1> SUFFICES ASSUME BoxInit PROVE BoxInv
    OBVIOUS
  <1> PICK c : c = config
    OBVIOUS
  <1>1. /\ c \in Configs /\ todo = MountNixSquashfs(c) /\ host = HostMounts /\ own = HostMounts
        /\ box = "setup"
    BY DEF BoxInit
  <1>2. Spans(todo, 1, 21, c)
    BY <1>1, BoxAssumption, ProgramSpans
  <1>3. Building(1, c)
    <2>1. {j \in {4} \cup 11..15 : j < 1 /\ Asked(c, j)} = {}
      OBVIOUS
    <2>2. {Made(Call[j]) : j \in {h \in {4} \cup 11..15 : h < 1 /\ Asked(c, h)}} = {}
      BY <2>1
    <2>3. \A j \in {1} \cup 5..10 : ~(j < 1)
      OBVIOUS
    <2> QED BY <1>1, <2>2, <2>3 DEF Building
  <1>4. Reached(1, c)
    BY <1>1, <1>3 DEF Reached
  <1>5. \E k \in 1..21 : Spans(todo, k, 21, c) /\ Reached(k, c)
    BY <1>2, <1>4
  <1> QED BY <1>1, <1>5 DEF BoxInv

\* The place of the next call.
LEMMA NextCall ==
  ASSUME BoxInv, box = "setup", todo # <<>>, NEW c, c = config
  PROVE  \E i \in 1..20 : /\ Asked(c, i) /\ Head(todo) = Call[i] /\ Reached(i, c)
                          /\ Spans(Tail(todo), i + 1, 21, c)
PROOF
  <1>1. PICK k \in 1..21 : Spans(todo, k, 21, c) /\ Reached(k, c)
    BY DEF BoxInv
  <1>2. PICK i \in k..20 : /\ Asked(c, i) /\ Head(todo) = Call[i] /\ Spans(Tail(todo), i + 1, 21, c)
                           /\ \A h \in k..(i - 1) : ~Asked(c, h)
    BY <1>1, SpanHead
  <1>3. Reached(i, c)
    BY <1>1, <1>2, Skips
  <1>4. i \in 1..20
    OBVIOUS
  <1> QED BY <1>2, <1>3, <1>4

\* A call that succeeds.
LEMMA CallingInv ==
  ASSUME BoxInv, Calling
  PROVE  BoxInv'
PROOF
  <1> PICK c : c = config
    OBVIOUS
  <1>1. /\ box = "setup" /\ todo # <<>> /\ todo' = Tail(todo) /\ box' = box /\ config' = c
    BY DEF Calling, MakeDir, Unshare, MakePrivate, MountOne, PivotRoot, DetachOld, RemoveOld,
           RemountReadOnly, UnshareUts, Next_
  <1>2. PICK i \in 1..20 : /\ Asked(c, i) /\ Head(todo) = Call[i] /\ Reached(i, c)
                           /\ Spans(Tail(todo), i + 1, 21, c)
    BY <1>1, NextCall
  <1>3. Reached(i + 1, c)'
    BY <1>2, CallingAt
  <1>4. i + 1 \in 1..21 /\ Spans(todo', i + 1, 21, c)
    BY <1>1, <1>2
  <1>5. c \in Configs
    BY DEF BoxInv
  <1>6. host' = HostMounts
    BY <1>3 DEF Reached
  <1>7. \E k \in 1..21 : Spans(todo', k, 21, c) /\ Reached(k, c)'
    BY <1>3, <1>4
  <1> QED BY <1>1, <1>5, <1>6, <1>7 DEF BoxInv

\* The entrypoint is run when no call is left.
LEMMA EntrypointInv ==
  ASSUME BoxInv, Entrypoint
  PROVE  BoxInv'
PROOF
  <1> PICK c : c = config
    OBVIOUS
  <1>1. /\ todo = <<>> /\ config' = c /\ own' = own /\ host' = host
        /\ \/ box = "setup" /\ box' = "running"
           \/ box = "running" /\ box' = "ended"
    BY DEF Entrypoint
  <1>2. ASSUME box = "setup" PROVE own = {AtRoot(TRUE)} \cup Inside(c)
    <2>1. PICK k \in 1..21 : Spans(<<>>, k, 21, c) /\ Reached(k, c)
      BY <1>1, <1>2 DEF BoxInv
    <2>2. k = 21
      BY <2>1, SpanEmpty
    <2> QED BY <2>1, <2>2 DEF Reached
  <1>3. c \in Configs /\ host' = HostMounts
    BY <1>1 DEF BoxInv
  <1> QED BY <1>1, <1>2, <1>3 DEF BoxInv

\* A call that fails does so for a reason that lies outside.
LEMMA FailsInv ==
  ASSUME BoxInv, Fails
  PROVE  BoxInv'
PROOF
  <1> PICK c : c = config
    OBVIOUS
  <1>1. box = "setup" /\ box' = "failed" /\ (faulted' <=> ~Refused) /\ config' = c /\ host' = host
    BY DEF Fails
  <1>2. ~Refused
    <2>1. CASE todo = <<>>
      BY <2>1 DEF Refused
    <2>2. CASE todo # <<>>
      <3>1. PICK i \in 1..20 : Asked(c, i) /\ Head(todo) = Call[i] /\ Reached(i, c)
        BY <1>1, <2>2, NextCall
      <3> QED BY <3>1, NoneRefused
    <2> QED BY <2>1, <2>2
  <1>3. c \in Configs /\ host = HostMounts
    BY DEF BoxInv
  <1> QED BY <1>1, <1>2, <1>3 DEF BoxInv

\* Every step keeps the invariant.
LEMMA BoxStepInv ==
  ASSUME BoxInv, [BoxNext]_boxVars
  PROVE  BoxInv'
PROOF
  <1>1. CASE UNCHANGED boxVars
    <2> PICK c : c = config
      OBVIOUS
    <2>1. /\ config' = c /\ todo' = todo /\ host' = host /\ own' = own /\ namespace' = namespace
          /\ dirs' = dirs /\ box' = box /\ faulted' = faulted
      BY <1>1 DEF boxVars
    <2>2. \A k \in 1..21 : Reached(k, c) => Reached(k, c)'
      BY <2>1 DEF Reached, Building
    <2>3. box = "setup" => \E k \in 1..21 : Spans(todo', k, 21, c) /\ Reached(k, c)'
      BY <2>1, <2>2 DEF BoxInv
    <2> QED BY <2>1, <2>3 DEF BoxInv
  <1>2. CASE Calling
    BY <1>2, CallingInv
  <1>3. CASE Entrypoint
    BY <1>3, EntrypointInv
  <1>4. CASE Fails
    BY <1>4, FailsInv
  <1> QED BY <1>1, <1>2, <1>3, <1>4 DEF BoxNext, Calling

\* What the mounts of a configuration come to, seen from the new root.
LEMMA InsideIs ==
  ASSUME NEW c \in [ephemeral : BOOLEAN, enable_proc : BOOLEAN, enable_dev : BOOLEAN]
  PROVE  Inside(c) = {[at |-> <<m.at[Len(m.at)]>>, fs |-> m.fs, ro |-> FALSE] :
                        m \in {Mounts(c)[i] : i \in DOMAIN Mounts(c)}}
PROOF
  <1> DEFINE t == Mounts(c)
             n == Len(t)
             Seen(m) == [at |-> <<m.at[Len(m.at)]>>, fs |-> m.fs, ro |-> FALSE]
             J == {j \in 11..15 : Asked(c, j)}
  <1>1. t \in Seq(Calls) /\ \E r : Places(t, r, 11, 16, c)
    BY MountsSpan DEF Spans
  <1>2. PICK r : Places(t, r, 11, 16, c)
    BY <1>1
  <1>3. DOMAIN t = 1..n
    BY <1>1
  <1>4. /\ \A j \in 1..n : r[j] \in J /\ t[j] = Call[r[j]]
        /\ \A i \in J : \E j \in 1..n : r[j] = i
    <2>1. 11..(16 - 1) = 11..15
      OBVIOUS
    <2> QED BY <1>2, <2>1 DEF Places
  <1>5. {t[i] : i \in 1..n} = {Call[j] : j \in J}
    <2> HIDE DEF t, n, J
    <2>1. \A j \in 1..n : t[j] \in {Call[i] : i \in J}
      BY <1>4
    <2>2. \A i \in J : Call[i] \in {t[j] : j \in 1..n}
      <3> TAKE i \in J
      <3>1. PICK j \in 1..n : r[j] = i
        BY <1>4
      <3> QED BY <1>4, <3>1
    <2> QED BY <2>1, <2>2
  <1>6. Inside(c) = {Seen(Call[j]) : j \in J}
    BY DEF Inside
  <1> HIDE DEF J, Seen
  <1>7. {Seen(Call[j]) : j \in J} = {Seen(m) : m \in {Call[j] : j \in J}}
    OBVIOUS
  <1> QED BY <1>3, <1>5, <1>6, <1>7 DEF Seen, t, n

\* The invariant says what the property says.
LEMMA BoxInvReady == BoxInv => ContainerReady
PROOF
  <1> SUFFICES ASSUME BoxInv PROVE ContainerReady
    OBVIOUS
  <1> PICK c : c = config
    OBVIOUS
  <1>1. c \in [ephemeral : BOOLEAN, enable_proc : BOOLEAN, enable_dev : BOOLEAN]
    BY BoxAssumption DEF BoxInv
  <1> DEFINE I == {[at |-> <<m.at[Len(m.at)]>>, fs |-> m.fs, ro |-> FALSE] :
                     m \in {Mounts(c)[i] : i \in DOMAIN Mounts(c)}}
  <1>2. Inside(c) = I
    BY <1>1, InsideIs
  <1> HIDE DEF I
  <1>3. box = "running" => own = {[at |-> <<>>, fs |-> "tmpfs", ro |-> TRUE]} \cup I
    BY <1>2 DEF BoxInv, AtRoot
  <1>4. (box = "failed" => faulted) /\ host = HostMounts
    BY DEF BoxInv
  <1> QED BY <1>3, <1>4 DEF ContainerReady, I

\* Whatever the configuration and the host's mounts, and whichever call of
\* mount_nix_squashfs fails: the entrypoint runs with the mounts that were asked
\* for, under a root that cannot be written and with none of the host's; no call
\* fails on account of those before it; the host's mounts are what they were.
THEOREM ContainerIsReady == BoxSpec => []ContainerReady
BY BoxInitInv, BoxStepInv, BoxInvReady, PTL DEF BoxSpec

===============================================================================
