----------------------------- MODULE LaunchProofs -----------------------------
(***************************************************************************)
(* Launch, for any manifest that Release may press, any packages, any      *)
(* number of descriptors that the linker holds from the start and any      *)
(* length of keep_map.                                                     *)
(*                                                                         *)
(* ExactFds needs that no descriptor has two owners: what the linker drops *)
(* after a fork, and what a child closes, is then nobody else's. EndsMatch *)
(* is kept by every pair of sockets.                                       *)
(***************************************************************************)
EXTENDS Launch, FiniteSetTheorems, TLAPS

IsSeq(s) == s \in Seq(Range(s))

\* The descriptors of an instance.
Owns(x) == {f.fd : f \in x.files} \cup {x.artifact}

\* An instance whose descriptors are distinct, and not the standard ones.
InstanceOk(x) ==
  /\ x = [pkg |-> x.pkg, artifact |-> x.artifact, files |-> x.files]
  /\ Owns(x) \cap Std = {}
  /\ \A f \in x.files : f.fd # x.artifact
  /\ \A f, g \in x.files : f.fd = g.fd => f = g

\* No descriptor has two owners.
Distinct(insts) ==
  /\ IsSeq(insts)
  /\ \A i \in DOMAIN insts : InstanceOk(insts[i])
  /\ \A i, j \in DOMAIN insts : i # j => Owns(insts[i]) \cap Owns(insts[j]) = {}

\* While the instances are set up, the linker has all of their descriptors, and
\* those of the downloads that no instance has got yet.
Within(insts, fds, got) ==
  /\ Std \subseteq fds
  /\ \A i \in DOMAIN insts : Owns(insts[i]) \subseteq fds
  /\ \A k \in DOMAIN got :
       /\ got[k] \in fds \ Std
       /\ \A i \in DOMAIN insts : got[k] \notin Owns(insts[i])
       /\ \A m \in DOMAIN got : got[k] = got[m] => k = m

\* Every pair of instances has as many ends on one side as on the other.
Paired(insts) ==
  /\ \A i \in DOMAIN insts : IsFiniteSet(insts[i].files)
  /\ \A i, j \in DOMAIN insts, s \in Services :
       Count(insts, i, "Consuming", s, j) = Count(insts, j, "ServingConnected", s, i)

Unlinked(insts) == \A i \in DOMAIN insts : insts[i].files = {}

\* A child has what its instance owns until it executes; after relabelling it
\* has nothing else that keep_map knows.
ChildOk(i) ==
  /\ child[i] = [at |-> child[i].at, open |-> child[i].open, config |-> child[i].config]
  /\ child[i].at \in {"forked", "relabelled"} =>
       Std \cup Owns(instances[i]) \subseteq child[i].open
  /\ child[i].at = "relabelled" => child[i].open \subseteq Kept(i)
  /\ child[i].at = "running" =>
       child[i].open \cap 0 .. (MapLen - 1) =
         (Std \cup {child[i].config}
              \cup {f.fd : f \in {g \in instances[i].files : ~g.cloexec}})
           \cap 0 .. (MapLen - 1)

Forking == phase \in {"spawn", "up", "failed"}

\* The inductive invariant.
IInv ==
  /\ Distinct(instances)
  /\ Paired(instances)
  /\ phase \in {"public", "resolve", "load", "instantiate"} => Unlinked(instances)
  /\ ~Forking => DOMAIN child = {} /\ Within(instances, open, fetched)
  /\ phase = "spawn" =>
       /\ Std \subseteq open
       /\ \A i \in DOMAIN child : child[i].at = "unforked" => Owns(instances[i]) \subseteq open
  /\ DOMAIN child \subseteq DOMAIN instances
  /\ \A i \in DOMAIN child : ChildOk(i)

\* A service is resolved because it is public, or because a component that is
\* resolved requires it.
Wanted(s) ==
  \/ \E n \in DOMAIN template.public : template.public[n] = s
  \/ \E t \in DOMAIN resolved : \E m \in DOMAIN resolved[t].requires :
       resolved[t].requires[m] = ServiceId(s)

ResolvedOk ==
  /\ IsFiniteSet(DOMAIN resolved)
  /\ \A s \in DOMAIN resolved :
       /\ s \in Services /\ Wanted(s)
       /\ resolved[s].pkg = template.impl[s].pkg
       /\ IsSeq(resolved[s].requires)

QueueOk ==
  /\ unresolved \in Seq(Services)
  /\ \A n \in DOMAIN unresolved : Wanted(unresolved[n])

\* The manifest has one component for every service that was resolved.
ManifestOk ==
  /\ IsSeq(Components)
  /\ \A i \in DOMAIN Components :
       LET c == Components[i]
       IN  /\ c.service \in DOMAIN resolved
           /\ c.pkg = resolved[c.service].pkg
           /\ c.requires = resolved[c.service].requires
  /\ \A i, j \in DOMAIN Components : Components[i].service = Components[j].service => i = j
  /\ \A s \in DOMAIN resolved : \E i \in DOMAIN Components : Components[i].service = s

\* What is resolved, and what is pressed from it.
ReleaseInv ==
  /\ template \in Templates /\ registry \in Registries
  /\ manifest = [public |-> manifest.public, components |-> manifest.components]
  /\ phase # "failed" => ResolvedOk
  /\ phase = "resolve" => QueueOk
  /\ phase \notin {"public", "failed"} =>
       manifest.public = [n \in DOMAIN template.public |-> ServiceId(template.public[n])]
  /\ phase \notin {"public", "resolve", "failed"} => ManifestOk

\* An instance of the service's package has a socket to serve it on.
Served(insts, id) ==
  \E i \in DOMAIN insts : \E f \in insts[i].files :
    insts[i].pkg = id.pkg /\ f.service = id.service /\ f.direction # "Consuming"

InstancesOk ==
  \A i \in DOMAIN instances : i \in DOMAIN Components /\ instances[i].pkg = Components[i].pkg

\* How far the linker is.
ProgressInv ==
  /\ phase \in {"public", "resolve", "load"} => instances = <<>>
  /\ phase \in {"public", "resolve", "load", "instantiate"} => bound = 0
  /\ phase \notin {"public", "resolve", "load", "failed"} => InstancesOk
  /\ phase \in {"bind", "connect", "spawn", "up"} => DOMAIN instances = DOMAIN Components
  /\ phase = "bind" =>
       /\ bound \in Nat
       /\ \A n \in DOMAIN manifest.public : n <= bound => Served(instances, manifest.public[n])
  /\ phase \in {"connect", "spawn", "up"} =>
       \A n \in DOMAIN manifest.public : Served(instances, manifest.public[n])
  /\ phase = "connect" =>
       /\ DOMAIN connected = DOMAIN instances
       /\ \A i \in DOMAIN instances :
            /\ connected[i] \in Nat
            /\ \A m \in DOMAIN Components[i].requires :
                 m <= connected[i] => Served(instances, Components[i].requires[m])
  /\ phase \in {"spawn", "up"} =>
       \A i \in DOMAIN instances : \A m \in DOMAIN Components[i].requires :
         Served(instances, Components[i].requires[m])

-------------------------------------------------------------------------------
(* Descriptors and sequences *)

LEMMA MinIn ==
  ASSUME NEW S \in SUBSET Nat, S # {}
  PROVE  Min(S) \in S
<1> DEFINE Less == {ss \in Nat \X Nat : ss[1] < ss[2]}
<1>1. IsWellFoundedOn(Less, Nat)
  BY NatLessThanWellFounded, Zenon DEF OpToRel
<1> HIDE DEF Less
<1>2. PICK n \in S : \A m \in S : <<m, n>> \notin Less
  BY <1>1, WFMin, Zenon
<1>3. ASSUME NEW m \in S PROVE n <= m
  <2>1. <<m, n>> \notin Less
    BY <1>2
  <2> QED BY <2>1 DEF Less
<1> QED BY <1>3 DEF Min

\* The kernel gives out a number that is not in use.
LEMMA FreeIs ==
  ASSUME NEW fds, Unused(fds) # {}
  PROVE  Free(fds) \notin fds
<1>1. Unused(fds) \in SUBSET Nat
  BY FdAssumption DEF Unused
<1>2. Free(fds) \in Unused(fds)
  BY <1>1, MinIn DEF Free
<1> QED BY <1>2 DEF Unused

LEMMA SeqIs ==
  ASSUME NEW s, IsSeq(s)
  PROVE  Len(s) \in Nat /\ DOMAIN s = 1 .. Len(s)
BY DEF IsSeq

LEMMA AppendIs ==
  ASSUME NEW s, IsSeq(s), NEW x
  PROVE  /\ IsSeq(Append(s, x))
         /\ Len(s) + 1 \notin DOMAIN s
         /\ DOMAIN Append(s, x) = DOMAIN s \cup {Len(s) + 1}
         /\ Append(s, x)[Len(s) + 1] = x
         /\ \A i \in DOMAIN s : Append(s, x)[i] = s[i]
<1> DEFINE S == Range(s) \cup {x}
           t == Append(s, x)
<1>1. Len(s) \in Nat /\ DOMAIN s = 1 .. Len(s) /\ \A i \in DOMAIN s : s[i] \in S
  BY SeqIs DEF Range
<1>2. s \in Seq(S) /\ x \in S
  BY <1>1 DEF IsSeq
<1> HIDE DEF S
<1>3. /\ t \in Seq(S) /\ Len(t) = Len(s) + 1
      /\ \A i \in 1 .. Len(s) : t[i] = s[i]
      /\ t[Len(s) + 1] = x
  BY <1>2
<1> DEFINE n == Len(s)
<1> HIDE DEF t, n
<1>4. n \in Nat /\ DOMAIN t = 1 .. n + 1
  BY <1>1, <1>3 DEF n
<1>5. n + 1 \notin 1 .. n /\ 1 .. n + 1 = (1 .. n) \cup {n + 1}
  BY <1>4
<1>6. IsSeq(t)
  <2>1. \A i \in 1 .. n + 1 : t[i] \in Range(t)
    BY <1>4 DEF Range
  <2>2. t \in [1 .. n + 1 -> Range(t)]
    BY <1>3, <1>4, <2>1
  <2> QED BY <1>4, <2>2 DEF IsSeq
<1> QED BY <1>1, <1>3, <1>4, <1>5, <1>6 DEF t, n

LEMMA ReplaceIs ==
  ASSUME NEW s, IsSeq(s), NEW i \in DOMAIN s, NEW y
  PROVE  /\ IsSeq([s EXCEPT ![i] = y])
         /\ DOMAIN [s EXCEPT ![i] = y] = DOMAIN s
         /\ [s EXCEPT ![i] = y][i] = y
         /\ \A j \in DOMAIN s : j # i => [s EXCEPT ![i] = y][j] = s[j]
<1> DEFINE t == [s EXCEPT ![i] = y]
           n == Len(s)
<1>1. n \in Nat /\ DOMAIN s = 1 .. n
  BY SeqIs
<1>2. DOMAIN t = DOMAIN s /\ t[i] = y /\ \A j \in DOMAIN s : j # i => t[j] = s[j]
  OBVIOUS
<1>3. t = [j \in DOMAIN s |-> t[j]]
  OBVIOUS
<1> HIDE DEF t, n
<1>4. t \in [1 .. n -> Range(t)]
  BY <1>1, <1>2, <1>3 DEF Range
<1>5. IsSeq(t)
  BY <1>1, <1>4 DEF IsSeq
<1> QED BY <1>2, <1>5 DEF t

-------------------------------------------------------------------------------
(* What is done to the instances *)

\* w is insts with a file more for instance i.
Gives(w, insts, i, f) ==
  /\ IsSeq(w)
  /\ DOMAIN w = DOMAIN insts
  /\ w[i] = [pkg |-> insts[i].pkg, artifact |-> insts[i].artifact,
             files |-> insts[i].files \cup {f}]
  /\ \A j \in DOMAIN insts : j # i => w[j] = insts[j]

LEMMA WithFileGives ==
  ASSUME NEW insts, Distinct(insts), NEW i \in DOMAIN insts, NEW f
  PROVE  Gives(WithFile(insts, i, f), insts, i, f)
<1> DEFINE x == insts[i]
           y == [x EXCEPT !.files = @ \cup {f}]
<1>1. x = [pkg |-> x.pkg, artifact |-> x.artifact, files |-> x.files] /\ IsSeq(insts)
  BY DEF Distinct, InstanceOk
<1>2. WithFile(insts, i, f) = [insts EXCEPT ![i] = y]
  BY DEF WithFile
<1> HIDE DEF x
<1>3. y = [pkg |-> x.pkg, artifact |-> x.artifact, files |-> x.files \cup {f}]
  BY <1>1
<1> HIDE DEF y
<1> DEFINE w == [insts EXCEPT ![i] = y]
<1>4. /\ IsSeq(w) /\ DOMAIN w = DOMAIN insts /\ w[i] = y
      /\ \A j \in DOMAIN insts : j # i => w[j] = insts[j]
  BY <1>1, ReplaceIs
<1> HIDE DEF w
<1>5. Gives(w, insts, i, f)
  BY <1>3, <1>4 DEF Gives, x
<1> QED BY <1>2, <1>5 DEF w

\* A new descriptor in an instance's files.
LEMMA FileAdded ==
  ASSUME NEW insts, NEW fds, NEW got, Distinct(insts), Within(insts, fds, got),
         NEW i \in DOMAIN insts, NEW f, f.fd \notin fds,
         NEW w, Gives(w, insts, i, f)
  PROVE  Distinct(w) /\ Within(w, fds \cup {f.fd}, got)
<1>1. Owns(w[i]) = Owns(insts[i]) \cup {f.fd}
  BY DEF Gives, Owns
<1>2. /\ f.fd \notin Std
      /\ \A j \in DOMAIN insts : f.fd \notin Owns(insts[j])
      /\ \A k \in DOMAIN got : got[k] # f.fd
  BY DEF Within
<1>3. \A j \in DOMAIN insts : j # i => w[j] = insts[j]
  BY DEF Gives
<1>4. InstanceOk(w[i])
  <2>1. InstanceOk(insts[i])
    BY DEF Distinct
  <2>2. /\ w[i].artifact = insts[i].artifact /\ w[i].files = insts[i].files \cup {f}
        /\ w[i] = [pkg |-> w[i].pkg, artifact |-> w[i].artifact, files |-> w[i].files]
    BY DEF Gives
  <2>3. Owns(w[i]) \cap Std = {}
    BY <1>1, <1>2, <2>1 DEF InstanceOk
  <2>4. f.fd # insts[i].artifact /\ \A g \in insts[i].files : f.fd # g.fd
    BY <1>2 DEF Owns
  <2> QED BY <2>1, <2>2, <2>3, <2>4 DEF InstanceOk
<1>5. Distinct(w)
  <2>1. \A j \in DOMAIN w : InstanceOk(w[j])
    BY <1>3, <1>4 DEF Distinct, Gives
  <2>2. ASSUME NEW j \in DOMAIN w, NEW k \in DOMAIN w, j # k
        PROVE  Owns(w[j]) \cap Owns(w[k]) = {}
    <3>1. j \in DOMAIN insts /\ k \in DOMAIN insts
      BY DEF Gives
    <3>2. Owns(insts[j]) \cap Owns(insts[k]) = {}
      BY <2>2, <3>1 DEF Distinct
    <3> QED BY <1>1, <1>2, <1>3, <2>2, <3>1, <3>2
  <2> QED BY <2>1, <2>2 DEF Distinct, Gives
<1>6. Within(w, fds \cup {f.fd}, got)
  <2>1. DOMAIN w = DOMAIN insts
    BY DEF Gives
  <2>2. \A j \in DOMAIN insts : Owns(w[j]) \subseteq Owns(insts[j]) \cup {f.fd}
    BY <1>1, <1>3
  <2> QED BY <1>2, <2>1, <2>2 DEF Within
<1> QED BY <1>5, <1>6

\* The executable of a new instance, which may be one of the downloads.
LEMMA InstanceAdded ==
  ASSUME NEW insts, NEW fds, NEW got, Distinct(insts), Within(insts, fds, got),
         NEW pkg, NEW fd, fd \notin Std,
         \A i \in DOMAIN insts : fd \notin Owns(insts[i]),
         NEW more, fds \subseteq more, fd \in more,
         NEW left, DOMAIN left \subseteq DOMAIN got,
         \A k \in DOMAIN left : left[k] = got[k] /\ left[k] # fd,
         NEW w, w = Append(insts, [pkg |-> pkg, artifact |-> fd, files |-> {}])
  PROVE  Distinct(w) /\ Within(w, more, left)
<1> DEFINE x == [pkg |-> pkg, artifact |-> fd, files |-> {}]
           n == Len(insts) + 1
<1>1. IsSeq(insts)
  BY DEF Distinct
<1>2. Owns(x) = {fd} /\ InstanceOk(x)
  BY DEF Owns, InstanceOk
<1> HIDE DEF x
<1>3. /\ IsSeq(w) /\ DOMAIN w = DOMAIN insts \cup {n} /\ w[n] = x
      /\ \A j \in DOMAIN insts : w[j] = insts[j]
  BY <1>1, AppendIs DEF x
<1> HIDE DEF n
<1>4. Distinct(w)
  <2>1. \A j \in DOMAIN w : InstanceOk(w[j])
    BY <1>2, <1>3 DEF Distinct
  <2>2. ASSUME NEW j \in DOMAIN w, NEW k \in DOMAIN w, j # k
        PROVE  Owns(w[j]) \cap Owns(w[k]) = {}
    <3>1. CASE j \in DOMAIN insts /\ k \in DOMAIN insts
      BY <1>3, <2>2, <3>1 DEF Distinct
    <3>2. CASE j = n /\ k \in DOMAIN insts
      BY <1>2, <1>3, <3>2
    <3>3. CASE k = n /\ j \in DOMAIN insts
      BY <1>2, <1>3, <3>3
    <3> QED BY <1>3, <2>2, <3>1, <3>2, <3>3
  <2> QED BY <1>3, <2>1, <2>2 DEF Distinct
<1>5. Within(w, more, left)
  BY <1>2, <1>3 DEF Within
<1> QED BY <1>4, <1>5

-------------------------------------------------------------------------------
(* The ends of the connections *)

LEMMA UnlinkedPaired ==
  ASSUME NEW insts, Unlinked(insts)
  PROVE  Paired(insts)
<1>1. \A i \in DOMAIN insts : IsFiniteSet(insts[i].files)
  BY FS_EmptySet DEF Unlinked
<1>2. ASSUME NEW i \in DOMAIN insts, NEW d, NEW s, NEW j
      PROVE  Count(insts, i, d, s, j) = 0
  <2>1. {f \in insts[i].files : f.direction = d /\ f.service = s /\ f.remote = j} = {}
    BY DEF Unlinked
  <2> QED BY <2>1, FS_EmptySet DEF Count
<1> QED BY <1>1, <1>2 DEF Paired

\* A file counts for its own direction, service and peer, and for no other.
LEMMA CountGiven ==
  ASSUME NEW insts, \A k \in DOMAIN insts : IsFiniteSet(insts[k].files),
         NEW i \in DOMAIN insts, NEW f, f \notin insts[i].files,
         NEW w, Gives(w, insts, i, f),
         NEW k \in DOMAIN insts, NEW d, NEW s, NEW j
  PROVE  /\ IsFiniteSet(w[k].files)
         /\ Count(insts, k, d, s, j) \in Nat
         /\ Count(w, k, d, s, j) = Count(insts, k, d, s, j)
              + (IF k = i /\ f.direction = d /\ f.service = s /\ f.remote = j THEN 1 ELSE 0)
<1> DEFINE Some(files) ==
             {g \in files : g.direction = d /\ g.service = s /\ g.remote = j}
           old == insts[k].files
           new == w[k].files
<1>1. new = IF k = i THEN old \cup {f} ELSE old
  BY DEF Gives
<1>2. k = i => f \notin old
  OBVIOUS
<1>3. IsFiniteSet(old)
  OBVIOUS
<1>4. Count(insts, k, d, s, j) = Cardinality(Some(old)) /\ Count(w, k, d, s, j) = Cardinality(Some(new))
  BY DEF Count
<1> HIDE DEF old, new
<1>5. IsFiniteSet(Some(old))
  BY <1>3, FS_Subset
<1>6. IsFiniteSet(new)
  BY <1>1, <1>3, FS_AddElement
<1>7. Cardinality(Some(old)) \in Nat
  BY <1>5, FS_CardinalityType
<1>8. CASE k = i /\ f.direction = d /\ f.service = s /\ f.remote = j
  <2>1. Some(new) = Some(old) \cup {f} /\ f \notin Some(old)
    BY <1>1, <1>2, <1>8
  <2>2. Cardinality(Some(new)) = Cardinality(Some(old)) + 1
    BY <1>5, <2>1, FS_AddElement
  <2> QED BY <1>4, <1>6, <1>7, <1>8, <2>2 DEF new
<1>9. CASE ~(k = i /\ f.direction = d /\ f.service = s /\ f.remote = j)
  <2>1. Some(new) = Some(old)
    BY <1>1, <1>9
  <2>2. Count(w, k, d, s, j) = Count(insts, k, d, s, j) /\ Count(insts, k, d, s, j) \in Nat
    BY <1>4, <1>7, <2>1
  <2> QED BY <1>6, <1>9, <2>2 DEF new
<1> QED BY <1>8, <1>9

\* A listening socket has no other end.
LEMMA PlainAdded ==
  ASSUME NEW insts, Paired(insts), NEW i \in DOMAIN insts, NEW f, f \notin insts[i].files,
         f.direction = "ServingListening", NEW w, Gives(w, insts, i, f)
  PROVE  Paired(w)
<1>1. DOMAIN w = DOMAIN insts
  BY DEF Gives
<1>2. \A k \in DOMAIN insts : IsFiniteSet(insts[k].files)
  BY DEF Paired
<1>3. ASSUME NEW k \in DOMAIN insts, NEW d \in {"Consuming", "ServingConnected"}, NEW s, NEW j
      PROVE  IsFiniteSet(w[k].files) /\ Count(w, k, d, s, j) = Count(insts, k, d, s, j)
  BY <1>2, CountGiven
<1> QED BY <1>1, <1>3 DEF Paired

\* A socket pair has one end on either side, also if both are of one instance.
LEMMA PairAdded ==
  ASSUME NEW insts, Paired(insts), NEW i \in DOMAIN insts, NEW j \in DOMAIN insts,
         NEW f, f \notin insts[i].files, f.direction = "Consuming", f.remote = j,
         NEW w, Gives(w, insts, i, f),
         NEW g, g \notin w[j].files, g.direction = "ServingConnected", g.remote = i,
         g.service = f.service, NEW v, Gives(v, w, j, g)
  PROVE  Paired(v)
<1>1. DOMAIN w = DOMAIN insts /\ DOMAIN v = DOMAIN insts
  BY DEF Gives
<1>2. \A k \in DOMAIN insts : IsFiniteSet(insts[k].files)
  BY DEF Paired
<1>3. \A k \in DOMAIN w : IsFiniteSet(w[k].files)
  BY <1>1, <1>2, CountGiven
<1>4. ASSUME NEW k \in DOMAIN insts, NEW s, NEW m
      PROVE  /\ IsFiniteSet(v[k].files)
             /\ Count(insts, k, "Consuming", s, m) \in Nat
             /\ Count(insts, k, "ServingConnected", s, m) \in Nat
             /\ Count(v, k, "Consuming", s, m) = Count(insts, k, "Consuming", s, m)
                  + (IF k = i /\ f.service = s /\ m = j THEN 1 ELSE 0)
             /\ Count(v, k, "ServingConnected", s, m) = Count(insts, k, "ServingConnected", s, m)
                  + (IF k = j /\ f.service = s /\ m = i THEN 1 ELSE 0)
  <2>1. /\ Count(insts, k, "Consuming", s, m) \in Nat
        /\ Count(insts, k, "ServingConnected", s, m) \in Nat
        /\ Count(w, k, "ServingConnected", s, m) = Count(insts, k, "ServingConnected", s, m)
        /\ Count(w, k, "Consuming", s, m) = Count(insts, k, "Consuming", s, m)
             + (IF k = i /\ f.service = s /\ m = j THEN 1 ELSE 0)
    BY <1>2, CountGiven
  <2>2. /\ IsFiniteSet(v[k].files)
        /\ Count(w, k, "Consuming", s, m) \in Nat
        /\ Count(v, k, "Consuming", s, m) = Count(w, k, "Consuming", s, m)
        /\ Count(v, k, "ServingConnected", s, m) = Count(w, k, "ServingConnected", s, m)
             + (IF k = j /\ f.service = s /\ m = i THEN 1 ELSE 0)
    <3>1. k \in DOMAIN w /\ j \in DOMAIN w
      BY <1>1
    <3>2. ASSUME NEW d
          PROVE  /\ IsFiniteSet(v[k].files)
                 /\ Count(w, k, d, s, m) \in Nat
                 /\ Count(v, k, d, s, m) = Count(w, k, d, s, m)
                      + (IF k = j /\ g.direction = d /\ g.service = s /\ g.remote = m
                         THEN 1 ELSE 0)
      BY <1>3, <3>1, CountGiven
    <3> QED BY <3>2
  <2> QED BY <2>1, <2>2
<1>5. ASSUME NEW a \in DOMAIN insts, NEW b \in DOMAIN insts, NEW s \in Services
      PROVE  Count(v, a, "Consuming", s, b) = Count(v, b, "ServingConnected", s, a)
  <2>1. Count(insts, a, "Consuming", s, b) = Count(insts, b, "ServingConnected", s, a)
    BY DEF Paired
  <2> QED BY <1>4, <2>1
<1> QED BY <1>1, <1>4, <1>5 DEF Paired

-------------------------------------------------------------------------------
(* The steps *)

\* An error: the children, and what they were given, are as they were.
LEMMA FailureKeeps ==
  ASSUME IInv, phase' = "failed", UNCHANGED <<instances, child>>
  PROVE  IInv'
<1>1. DOMAIN child' \subseteq DOMAIN instances' /\ \A i \in DOMAIN child' : ChildOk(i)'
  BY DEF IInv, ChildOk, Kept, Fds
<1>2. Distinct(instances') /\ Paired(instances')
  BY DEF IInv
<1> QED BY <1>1, <1>2 DEF IInv, Forking

\* The linker goes on, before it forks.
LEMMA LinkerKeeps ==
  ASSUME IInv, ~Forking, ~Forking', UNCHANGED child,
         Distinct(instances'), Paired(instances'), Within(instances', open', fetched'),
         phase' \in {"public", "resolve", "load", "instantiate"} => Unlinked(instances')
  PROVE  IInv'
<1>1. DOMAIN child = {} /\ DOMAIN child' = {}
  BY DEF IInv
<1> QED BY <1>1 DEF IInv, Forking

LEMMA ReleaseKeeps ==
  ASSUME IInv, ReleaseNext, UNCHANGED launchVars
  PROVE  IInv'
<1>1. phase \in {"public", "resolve"} /\ phase' \in {phase, "resolve", "load", "failed"}
  BY DEF ReleaseNext, ResolvePublic, ResolveNext, Press, Giveup
<1>2. UNCHANGED <<instances, child, open, fetched>>
  BY DEF launchVars
<1>3. CASE phase' = "failed"
  BY <1>2, <1>3, FailureKeeps
<1>4. CASE phase' # "failed"
  <2>1. ~Forking /\ ~Forking' /\ Unlinked(instances')
    BY <1>1, <1>2, <1>4 DEF Forking, IInv
  <2>2. Distinct(instances') /\ Paired(instances') /\ Within(instances', open', fetched')
    BY <1>2, <2>1 DEF IInv
  <2> QED BY <1>2, <2>1, <2>2, LinkerKeeps
<1> QED BY <1>3, <1>4

LEMMA FetchKeeps ==
  ASSUME IInv, NEW n, Fetch(n)
  PROVE  IInv'
<1> DEFINE fd == Free(open)
<1>1. UNCHANGED <<instances, child>> /\ phase = "load"
  BY DEF Fetch
<1>2. CASE Panic("download")
  BY <1>1, <1>2, FailureKeeps DEF Panic, Giveup
<1>3. CASE /\ Unused(open) # {}
           /\ fetched' = [k \in DOMAIN fetched \cup {n} |-> IF k = n THEN fd ELSE fetched[k]]
           /\ open' = open \cup {fd} /\ UNCHANGED phase
  <2>1. fd \notin open
    BY <1>3, FreeIs
  <2>2. ~Forking /\ ~Forking' /\ Unlinked(instances')
    BY <1>1, <1>3 DEF Forking, IInv
  <2>3. Distinct(instances') /\ Paired(instances') /\ Within(instances, open, fetched)
    BY <1>1, <2>2 DEF IInv
  <2>4. DOMAIN fetched' = DOMAIN fetched \cup {n} /\ n \notin DOMAIN fetched
    BY <1>3 DEF Fetch
  <2>5. fetched'[n] = fd /\ \A k \in DOMAIN fetched : fetched'[k] = fetched[k]
    BY <1>3, <2>4
  <2> HIDE DEF fd
  <2>6. Within(instances', open', fetched')
    BY <1>1, <1>3, <2>1, <2>3, <2>4, <2>5 DEF Within
  <2> QED BY <1>1, <2>2, <2>3, <2>6, LinkerKeeps
<1> QED BY <1>2, <1>3 DEF Fetch

LEMMA CollectKeeps ==
  ASSUME IInv, Collect
  PROVE  IInv'
<1> DEFINE kept == {i \in DOMAIN fetched :
                      \A j \in DOMAIN fetched : Key(j) = Key(i) => j <= i}
<1>1. /\ UNCHANGED <<instances, child>> /\ phase = "load" /\ phase' = "instantiate"
      /\ fetched' = [i \in kept |-> fetched[i]]
      /\ open' = open \ {fetched[i] : i \in DOMAIN fetched \ kept}
      /\ kept \subseteq DOMAIN fetched
  BY DEF Collect
<1> HIDE DEF kept
<1>2. ~Forking /\ ~Forking' /\ Unlinked(instances')
  BY <1>1 DEF Forking, IInv
<1>3. Distinct(instances') /\ Paired(instances') /\ Within(instances, open, fetched)
  BY <1>1, <1>2 DEF IInv
<1>4. Within(instances', open', fetched')
  <2>1. \A k \in kept : fetched'[k] = fetched[k] /\ fetched[k] \in open'
    BY <1>1, <1>3 DEF Within
  <2>2. \A i \in DOMAIN instances : Owns(instances[i]) \subseteq open'
    BY <1>1, <1>3 DEF Within
  <2>3. Std \subseteq open'
    BY <1>1, <1>3 DEF Within
  <2> QED BY <1>1, <1>3, <2>1, <2>2, <2>3 DEF Within
<1> QED BY <1>1, <1>2, <1>3, <1>4, LinkerKeeps

LEMMA InstantiateKeeps ==
  ASSUME IInv, Instantiate
  PROVE  IInv'
<1> DEFINE n == Len(instances) + 1
           fd == Free(open)
<1>1. phase = "instantiate" /\ UNCHANGED child
  BY DEF Instantiate
<1>2. ~Forking /\ Unlinked(instances) /\ Distinct(instances) /\ Paired(instances)
      /\ Within(instances, open, fetched)
  BY <1>1 DEF IInv, Forking
<1>3. ASSUME NEW got, NEW left, NEW more, got \notin Std,
             \A i \in DOMAIN instances : got \notin Owns(instances[i]),
             open \subseteq more, got \in more, DOMAIN left \subseteq DOMAIN fetched,
             \A k \in DOMAIN left : left[k] = fetched[k] /\ left[k] # got,
             instances' = Append(instances, NewInstance(n, got)),
             open' = more, fetched' = left, UNCHANGED phase
      PROVE  IInv'
  <2>1. instances' = Append(instances, [pkg |-> Components[n].pkg, artifact |-> got, files |-> {}])
    BY <1>3 DEF NewInstance
  <2>2. Distinct(instances') /\ Within(instances', more, left)
    <3> DEFINE pkg == Components[n].pkg
    <3>1. instances' = Append(instances, [pkg |-> pkg, artifact |-> got, files |-> {}])
      BY <2>1
    <3> HIDE DEF pkg
    <3> QED BY <1>2, <1>3, <3>1, InstanceAdded
  <2>3. Unlinked(instances')
    <3> DEFINE x == [pkg |-> Components[n].pkg, artifact |-> got, files |-> {}]
    <3>1. x.files = {}
      OBVIOUS
    <3>2. instances' = Append(instances, x)
      BY <2>1
    <3> HIDE DEF x
    <3>3. /\ DOMAIN instances' = DOMAIN instances \cup {Len(instances) + 1}
          /\ instances'[Len(instances) + 1] = x
          /\ \A j \in DOMAIN instances : instances'[j] = instances[j]
      BY <1>2, <3>2, AppendIs DEF Distinct
    <3> QED BY <1>2, <3>1, <3>3 DEF Unlinked
  <2>4. Paired(instances')
    BY <2>3, UnlinkedPaired
  <2>5. ~Forking'
    BY <1>1, <1>3 DEF Forking
  <2> QED BY <1>1, <1>2, <1>3, <2>2, <2>3, <2>4, <2>5, LinkerKeeps
<1>4. CASE phase' = "bind" /\ UNCHANGED <<failure, open, fetched, instances>>
  <2>1. ~Forking' /\ phase' \notin {"public", "resolve", "load", "instantiate"}
    BY <1>4 DEF Forking
  <2>2. Distinct(instances') /\ Paired(instances') /\ Within(instances', open', fetched')
    BY <1>2, <1>4
  <2> QED BY <1>1, <1>2, <2>1, <2>2, LinkerKeeps
<1>5. CASE /\ Unused(open) # {}
           /\ instances' = Append(instances, NewInstance(n, fd))
           /\ open' = open \cup {fd} /\ UNCHANGED <<phase, failure, fetched>>
  <2>1. fd \notin open
    BY <1>5, FreeIs
  <2> HIDE DEF fd
  <2>2. /\ fd \notin Std /\ \A i \in DOMAIN instances : fd \notin Owns(instances[i])
        /\ \A k \in DOMAIN fetched : fetched[k] # fd
    BY <1>2, <2>1 DEF Within
  <2> HIDE DEF n
  <2> QED BY <1>3, <1>5, <2>2
<1>6. ASSUME NEW j \in DOMAIN fetched,
             instances' = Append(instances, NewInstance(n, fetched[j])),
             fetched' = [k \in DOMAIN fetched \ {j} |-> fetched[k]],
             UNCHANGED <<phase, failure, open>>
      PROVE  IInv'
  <2>1. /\ fetched[j] \notin Std /\ fetched[j] \in open
        /\ \A i \in DOMAIN instances : fetched[j] \notin Owns(instances[i])
        /\ \A k \in DOMAIN fetched \ {j} : fetched[k] # fetched[j]
    BY <1>2 DEF Within
  <2>2. DOMAIN fetched' \subseteq DOMAIN fetched
        /\ \A k \in DOMAIN fetched' : fetched'[k] = fetched[k] /\ fetched'[k] # fetched[j]
    BY <1>6, <2>1
  <2> HIDE DEF n
  <2> QED BY <1>3, <1>6, <2>1, <2>2
<1>7. CASE UNCHANGED instances /\ \E why \in {"internal", "component"} : Panic(why)
  BY <1>1, <1>7, FailureKeeps DEF Panic, Giveup
<1> QED
  <2> HIDE DEF n, fd
  <2> QED BY <1>4, <1>5, <1>6, <1>7 DEF Instantiate, n, fd

\* A new listening socket.
LEMMA ListenKeeps ==
  ASSUME IInv, phase \in {"bind", "connect"}, NEW i \in DOMAIN instances, NEW f,
         Unused(open) # {}, f.fd = Free(open), f.direction = "ServingListening",
         instances' = WithFile(instances, i, f), open' = open \cup {Free(open)},
         UNCHANGED <<phase, fetched, child>>
  PROVE  IInv'
<1>1. /\ ~Forking /\ ~Forking' /\ phase' \notin {"public", "resolve", "load", "instantiate"}
      /\ Distinct(instances) /\ Paired(instances) /\ Within(instances, open, fetched)
  BY DEF IInv, Forking
<1>2. f.fd \notin open
  BY FreeIs
<1>3. Gives(instances', instances, i, f)
  BY <1>1, WithFileGives
<1>4. Distinct(instances') /\ Within(instances', open', fetched')
  BY <1>1, <1>2, <1>3, FileAdded
<1>5. f \notin instances[i].files
  BY <1>1, <1>2 DEF Within, Owns
<1>6. Paired(instances')
  BY <1>1, <1>3, <1>5, PlainAdded
<1> QED BY <1>1, <1>4, <1>6, LinkerKeeps

LEMMA BindPublicKeeps ==
  ASSUME IInv, BindPublic
  PROVE  IInv'
<1>1. phase = "bind" /\ UNCHANGED <<child, fetched>>
  BY DEF BindPublic
<1>2. CASE phase' = "connect" /\ UNCHANGED <<open, instances>>
  <2>1. ~Forking /\ ~Forking' /\ phase' \notin {"public", "resolve", "load", "instantiate"}
    BY <1>1, <1>2 DEF Forking
  <2>2. Distinct(instances') /\ Paired(instances') /\ Within(instances', open', fetched')
    BY <1>1, <1>2, <2>1 DEF IInv
  <2> QED BY <1>1, <2>1, <2>2, LinkerKeeps
<1>3. ASSUME NEW i \in DOMAIN instances, NEW s, Unused(open) # {},
             instances' = WithFile(instances, i, File(Free(open), "ServingListening", s, 0)),
             open' = open \cup {Free(open)}, UNCHANGED phase
      PROVE  IInv'
  <2> DEFINE f == File(Free(open), "ServingListening", s, 0)
  <2>1. f.fd = Free(open) /\ f.direction = "ServingListening"
    BY DEF File
  <2>2. instances' = WithFile(instances, i, f)
    BY <1>3
  <2> HIDE DEF f
  <2> QED BY <1>1, <1>3, <2>1, <2>2, ListenKeeps
<1>4. CASE UNCHANGED instances /\ \E why : Panic(why)
  BY <1>1, <1>4, FailureKeeps DEF Panic, Giveup
<1>5. \A pkg : InstanceOf(pkg) \subseteq DOMAIN instances
  BY DEF InstanceOf
<1> QED BY <1>2, <1>3, <1>4, <1>5 DEF BindPublic

\* A new pair of sockets.
LEMMA PreconnectedKeeps ==
  ASSUME IInv, phase = "connect", NEW i \in DOMAIN instances, NEW j \in DOMAIN instances,
         NEW s, Preconnected(i, j, s), UNCHANGED <<phase, fetched, child>>
  PROVE  IInv'
<1> DEFINE a == Free(open)
           b == Free(open \cup {a})
           f == File(a, "Consuming", s, j)
           g == File(b, "ServingConnected", s, i)
           w == WithFile(instances, i, f)
<1>1. /\ ~Forking /\ ~Forking' /\ phase' \notin {"public", "resolve", "load", "instantiate"}
      /\ Distinct(instances) /\ Paired(instances) /\ Within(instances, open, fetched)
  BY DEF IInv, Forking
<1>2. /\ Unused(open) # {} /\ Unused(open \cup {a}) # {}
      /\ open' = open \cup {a, b} /\ instances' = WithFile(w, j, g)
  BY DEF Preconnected
<1>3. a \notin open
  BY <1>2, FreeIs
<1>4. b \notin open \cup {a}
  <2> HIDE DEF a
  <2> QED BY <1>2, FreeIs
<1> HIDE DEF a, b
<1>5. /\ f.fd = a /\ f.direction = "Consuming" /\ f.service = s /\ f.remote = j
      /\ g.fd = b /\ g.direction = "ServingConnected" /\ g.service = s /\ g.remote = i
  BY DEF File
<1> HIDE DEF f, g
<1>6. Gives(w, instances, i, f)
  BY <1>1, WithFileGives
<1> HIDE DEF w
<1>7. Distinct(w) /\ Within(w, open \cup {a}, fetched)
  BY <1>1, <1>3, <1>5, <1>6, FileAdded
<1>8. j \in DOMAIN w
  BY <1>6 DEF Gives
<1>9. Gives(instances', w, j, g)
  BY <1>2, <1>7, <1>8, WithFileGives
<1>10. Distinct(instances') /\ Within(instances', open', fetched')
  <2>1. Distinct(instances') /\ Within(instances', (open \cup {a}) \cup {g.fd}, fetched)
    BY <1>4, <1>5, <1>7, <1>8, <1>9, FileAdded
  <2>2. open' = (open \cup {a}) \cup {g.fd}
    BY <1>2, <1>5
  <2> QED BY <2>1, <2>2
<1>11. f \notin instances[i].files
  BY <1>1, <1>3, <1>5 DEF Within, Owns
<1>12. g \notin w[j].files
  BY <1>4, <1>5, <1>7, <1>8 DEF Within, Owns
<1>13. Paired(instances')
  BY <1>1, <1>5, <1>6, <1>9, <1>11, <1>12, PairAdded
<1> QED BY <1>1, <1>10, <1>13, LinkerKeeps

LEMMA ConnectKeeps ==
  ASSUME IInv, NEW i \in DOMAIN instances, Connect(i)
  PROVE  IInv'
<1>1. phase = "connect" /\ UNCHANGED <<child, fetched>>
  BY DEF Connect
<1>2. ASSUME NEW j \in DOMAIN instances, NEW s, NamedSocket(i, j, s), UNCHANGED phase
      PROVE  IInv'
  <2> DEFINE f == [File(Free(open), "ServingListening", s, i) EXCEPT !.cloexec = TRUE]
  <2>1. f.fd = Free(open) /\ f.direction = "ServingListening"
    BY DEF File
  <2>2. /\ Unused(open) # {} /\ open' = open \cup {Free(open)}
        /\ instances' = WithFile(instances, j, f)
    BY <1>2 DEF NamedSocket
  <2> HIDE DEF f
  <2> QED BY <1>1, <1>2, <2>1, <2>2, ListenKeeps
<1>3. ASSUME NEW j \in DOMAIN instances, NEW s, Preconnected(i, j, s), UNCHANGED phase
      PROVE  IInv'
  BY <1>1, <1>3, PreconnectedKeeps
<1>4. CASE UNCHANGED instances /\ \E why : Panic(why)
  BY <1>1, <1>4, FailureKeeps DEF Panic, Giveup
<1>5. \A pkg : InstanceOf(pkg) \subseteq DOMAIN instances
  BY DEF InstanceOf
<1> QED BY <1>2, <1>3, <1>4, <1>5 DEF Connect

LEMMA ReifiedKeeps ==
  ASSUME IInv, Reified
  PROVE  IInv'
<1>1. /\ phase = "connect" /\ phase' = "spawn" /\ UNCHANGED <<open, instances>>
      /\ child' = [i \in DOMAIN instances |-> NoChild]
  BY DEF Reified
<1>2. Distinct(instances') /\ Paired(instances') /\ Within(instances, open, fetched)
  BY <1>1 DEF IInv, Forking
<1>3. \A i \in DOMAIN child' : child'[i] = [at |-> "unforked", open |-> {}, config |-> 0]
  BY <1>1 DEF NoChild
<1>4. \A i \in DOMAIN child' : ChildOk(i)'
  BY <1>3 DEF ChildOk
<1>5. Std \subseteq open' /\ \A i \in DOMAIN child' : Owns(instances[i])' \subseteq open'
  BY <1>1, <1>2 DEF Within
<1> QED BY <1>1, <1>2, <1>4, <1>5 DEF IInv, Forking

\* A step of child i leaves the others, and what they were given, as they were.
LEMMA ChildKeeps ==
  ASSUME IInv, NEW i \in DOMAIN child, NEW c, child' = [child EXCEPT ![i] = c],
         c.at # "unforked", ChildOk(i)', UNCHANGED instances,
         phase' = phase,
         phase = "spawn" => open' = open \/ open' = open \ Owns(instances[i])
  PROVE  IInv'
<1>1. /\ DOMAIN child' = DOMAIN child /\ child'[i] = c
      /\ \A k \in DOMAIN child : k # i => child'[k] = child[k]
  OBVIOUS
<1>2. DOMAIN child \subseteq DOMAIN instances /\ Distinct(instances) /\ Paired(instances)
  BY DEF IInv
<1>3. Forking /\ phase \notin {"public", "resolve", "load", "instantiate"}
  BY DEF IInv, Forking
<1>4. \A k \in DOMAIN child' : ChildOk(k)'
  <2>1. ASSUME NEW k \in DOMAIN child', k # i PROVE ChildOk(k)'
    <3>1. child'[k] = child[k] /\ ChildOk(k)
      BY <1>1, <2>1 DEF IInv
    <3> QED BY <3>1 DEF ChildOk, Kept, Fds
  <2> QED BY <2>1
<1>5. phase = "spawn" => Std \subseteq open'
  BY <1>2 DEF IInv, Distinct, InstanceOk
<1>6. ASSUME phase = "spawn", NEW k \in DOMAIN child', child'[k].at = "unforked"
      PROVE  Owns(instances'[k]) \subseteq open'
  <2>1. k # i /\ k \in DOMAIN child /\ child[k].at = "unforked"
    BY <1>1, <1>6
  <2>2. Owns(instances[k]) \subseteq open
    BY <1>6, <2>1 DEF IInv
  <2>3. Owns(instances[k]) \cap Owns(instances[i]) = {}
    BY <1>2, <2>1 DEF Distinct
  <2> QED BY <1>6, <2>2, <2>3
<1> QED BY <1>1, <1>2, <1>3, <1>4, <1>5, <1>6 DEF IInv, Forking

\* The child has a copy of everything that the linker has, and the linker drops
\* what no other child needs.
LEMMA SpawnKeepsOpen ==
  ASSUME IInv, NEW i \in DOMAIN child, Spawn(i)
  PROVE  IInv'
<1> DEFINE c == [at |-> "forked", open |-> open, config |-> 0]
<1>1. phase = "spawn" /\ child[i].at = "unforked" /\ UNCHANGED instances
  BY DEF Spawn
<1>2. CASE UNCHANGED child /\ Panic("fork")
  BY <1>1, <1>2, FailureKeeps DEF Panic, Giveup
<1>3. CASE /\ child' = [child EXCEPT ![i] = c]
           /\ open' = open \ (Fds(i) \cup {instances[i].artifact})
           /\ UNCHANGED phase
  <2>1. Std \cup Owns(instances[i]) \subseteq open
    BY <1>1 DEF IInv
  <2>2. child'[i] = c
    BY <1>3
  <2>3. ChildOk(i)'
    BY <1>1, <2>1, <2>2 DEF ChildOk
  <2>4. open' = open \ Owns(instances[i])
    BY <1>3 DEF Fds, Owns
  <2>5. c.at # "unforked"
    OBVIOUS
  <2> HIDE DEF c
  <2> QED BY <1>1, <1>3, <2>3, <2>4, <2>5, ChildKeeps
<1> QED BY <1>2, <1>3 DEF Spawn

LEMMA SpawnedKeeps ==
  ASSUME IInv, Spawned
  PROVE  IInv'
<1>1. phase = "spawn" /\ phase' = "up" /\ UNCHANGED <<instances, child>>
  BY DEF Spawned, launchVars
<1>2. DOMAIN child' \subseteq DOMAIN instances' /\ \A i \in DOMAIN child' : ChildOk(i)'
  BY <1>1 DEF IInv, ChildOk, Kept, Fds
<1>3. Distinct(instances') /\ Paired(instances')
  BY <1>1 DEF IInv
<1> QED BY <1>1, <1>2, <1>3 DEF IInv, Forking

\* A child that has ended.
LEMMA DeadKeeps ==
  ASSUME IInv, NEW i \in DOMAIN child, child' = [child EXCEPT ![i] = Dead],
         UNCHANGED <<phase, open, instances>>
  PROVE  IInv'
<1>1. child'[i] = [at |-> "dead", open |-> {}, config |-> 0]
  BY DEF Dead
<1>2. ChildOk(i)'
  BY <1>1 DEF ChildOk
<1>3. Dead.at # "unforked"
  BY DEF Dead
<1> QED BY <1>2, <1>3, ChildKeeps

LEMMA RelabelKeeps ==
  ASSUME IInv, NEW i \in DOMAIN child, Relabel(i)
  PROVE  IInv'
<1> DEFINE c == [at |-> "relabelled", open |-> child[i].open \cap Kept(i), config |-> 0]
<1>1. /\ child[i].at = "forked" /\ UNCHANGED <<phase, open, instances>>
      /\ Std \cup Owns(instances[i]) \subseteq child[i].open
  BY DEF Relabel, releaseVars, IInv, ChildOk
<1>2. CASE child' = [child EXCEPT ![i] = Dead]
  BY <1>1, <1>2, DeadKeeps
<1>3. CASE child' = [child EXCEPT ![i] = c]
  <2>1. child'[i] = c
    BY <1>3
  <2>2. Std \cup Owns(instances[i]) \subseteq Kept(i)
    BY DEF Owns, Kept, Fds
  <2>3. Kept(i)' = Kept(i)
    BY <1>1 DEF Kept, Fds
  <2>4. ChildOk(i)'
    <3> DEFINE d == child'[i]
    <3>1. d = [at |-> d.at, open |-> d.open, config |-> d.config] /\ d.at = "relabelled"
          /\ d.open = child[i].open \cap Kept(i)
      BY <2>1
    <3> HIDE DEF d
    <3>2. Std \cup Owns(instances'[i]) \subseteq d.open /\ d.open \subseteq Kept(i)'
      BY <1>1, <2>2, <2>3, <3>1
    <3>3. d = child'[i]
      BY DEF d
    <3> QED BY <3>1, <3>2, <3>3 DEF ChildOk
  <2>5. c.at # "unforked"
    OBVIOUS
  <2> HIDE DEF c
  <2> QED BY <1>1, <1>3, <2>4, <2>5, ChildKeeps
<1>4. CASE instances[i].artifact >= MapLen \/ MapLen \in Fds(i)
  BY <1>2, <1>4 DEF Relabel
<1>5. CASE ~(instances[i].artifact >= MapLen \/ MapLen \in Fds(i))
  BY <1>3, <1>5 DEF Relabel
<1> QED BY <1>4, <1>5

\* What executing closes is what it should: the configuration is new, and the
\* files that stay open are other descriptors than those that are closed.
LEMMA ExecKeeps ==
  ASSUME IInv, NEW i \in DOMAIN child, Exec(i)
  PROVE  IInv'
<1> DEFINE x == instances[i]
           config == Free(child[i].open)
           cloexec == {f.fd : f \in {g \in x.files : g.cloexec}}
           stay == {f.fd : f \in {g \in x.files : ~g.cloexec}}
           fds == (child[i].open \cup {config}) \ ({x.artifact} \cup cloexec)
           low == 0 .. (MapLen - 1)
           c == [at |-> "running", config |-> config, open |-> fds]
<1>1. child[i].at = "relabelled" /\ UNCHANGED <<phase, open, instances>>
  BY DEF Exec, releaseVars
<1>2. CASE child' = [child EXCEPT ![i] = Dead]
  BY <1>1, <1>2, DeadKeeps
<1>3. CASE Unused(child[i].open) # {} /\ child' = [child EXCEPT ![i] = c]
  <2>1. config \notin child[i].open
    BY <1>3, FreeIs
  <2>2. Std \cup Owns(x) \subseteq child[i].open /\ child[i].open \subseteq Kept(i) /\ InstanceOk(x)
    BY <1>1 DEF IInv, ChildOk, Distinct
  <2>3. Owns(x) = {x.artifact} \cup cloexec \cup stay
    BY DEF Owns
  <2>4. stay \cap ({x.artifact} \cup cloexec) = {}
    BY <2>2 DEF InstanceOk
  <2>5. Std \cap ({x.artifact} \cup cloexec) = {}
    BY <2>2, <2>3 DEF InstanceOk
  <2>6. low \cap (MapLen .. MaxFd) = {}
    BY FdAssumption
  <2>7. Kept(i) = Std \cup Owns(x) \cup MapLen .. MaxFd
    BY DEF Kept, Owns, Fds
  <2> HIDE DEF config, cloexec, stay, low
  <2>8. fds \cap low = (Std \cup {config} \cup stay) \cap low
    BY <2>1, <2>2, <2>3, <2>4, <2>5, <2>6, <2>7
  <2> HIDE DEF fds
  <2>9. child'[i] = c /\ c.at # "unforked"
    BY <1>3
  <2>10. ChildOk(i)'
    <3>1. child'[i].at = "running" /\ child'[i].open = fds /\ child'[i].config = config
          /\ child'[i] = [at |-> "running", open |-> fds, config |-> config]
      BY <2>9
    <3> QED BY <1>1, <2>8, <3>1 DEF ChildOk, stay, low
  <2> HIDE DEF c
  <2> QED BY <1>1, <1>3, <2>9, <2>10, ChildKeeps
<1> QED BY <1>2, <1>3 DEF Exec

-------------------------------------------------------------------------------

LEMMA InitInv == Init => IInv
<1> SUFFICES ASSUME Init PROVE IInv
  OBVIOUS
<1>1. /\ phase = "public" /\ fetched = <<>> /\ instances = <<>> /\ child = <<>>
      /\ DOMAIN fetched = {} /\ DOMAIN instances = {} /\ DOMAIN child = {}
  BY DEF Init, ReleaseInit
<1>2. Std \subseteq open
  BY FdAssumption DEF Init, Std
<1>3. Distinct(instances)
  <2>1. IsSeq(instances)
    BY <1>1 DEF IsSeq
  <2> QED BY <1>1, <2>1 DEF Distinct
<1>4. Unlinked(instances) /\ Paired(instances)
  BY <1>1, UnlinkedPaired DEF Unlinked
<1>5. Within(instances, open, fetched)
  BY <1>1, <1>2 DEF Within
<1> QED BY <1>1, <1>3, <1>4, <1>5 DEF IInv

LEMMA NextInv == IInv /\ [Next]_vars => IInv'
<1> SUFFICES ASSUME IInv, [Next]_vars PROVE IInv'
  OBVIOUS
<1>1. CASE ReleaseNext /\ UNCHANGED launchVars
  BY <1>1, ReleaseKeeps
<1>2. CASE Collect
  BY <1>2, CollectKeeps
<1>3. CASE Instantiate
  BY <1>3, InstantiateKeeps
<1>4. CASE BindPublic
  BY <1>4, BindPublicKeeps
<1>5. ASSUME NEW i \in DOMAIN instances, Connect(i) PROVE IInv'
  BY <1>5, ConnectKeeps
<1>6. CASE Reified
  BY <1>6, ReifiedKeeps
<1>7. ASSUME NEW i \in DOMAIN child, Spawn(i) PROVE IInv'
  BY <1>7, SpawnKeepsOpen
<1>8. CASE Spawned
  BY <1>8, SpawnedKeeps
<1>9. ASSUME NEW i, Fetch(i) PROVE IInv'
  BY <1>9, FetchKeeps
<1>10. ASSUME NEW i \in DOMAIN child, Relabel(i) PROVE IInv'
  BY <1>10, RelabelKeeps
<1>11. ASSUME NEW i \in DOMAIN child, Exec(i) PROVE IInv'
  BY <1>11, ExecKeeps
<1>12. ASSUME NEW i \in DOMAIN child, End(i) PROVE IInv'
  BY <1>12, DeadKeeps DEF End, releaseVars
<1>13. CASE UNCHANGED vars
  BY <1>13 DEF vars, releaseVars, launchVars, IInv, Forking, ChildOk, Kept, Fds
<1> QED
  BY <1>1, <1>2, <1>3, <1>4, <1>5, <1>6, <1>7, <1>8, <1>9, <1>10, <1>11, <1>12, <1>13
  DEF Next, LinkerStep, ChildStep

LEMMA Invariance == Spec => []IInv
BY InitInv, NextInv, PTL DEF Spec

-------------------------------------------------------------------------------
(* The manifest *)

Rank(S, s) == Cardinality({t \in S : t <= s})

\* Nth counts a set of numbers through: it is the inverse of the rank.
LEMMA NthIs ==
  ASSUME NEW S \in SUBSET Nat, IsFiniteSet(S)
  PROVE  /\ Cardinality(S) \in Nat
         /\ \A i \in 1 .. Cardinality(S) : Nth(S, i) \in S /\ Rank(S, Nth(S, i)) = i
         /\ \A s \in S : Rank(S, s) \in 1 .. Cardinality(S) /\ Nth(S, Rank(S, s)) = s
<1> DEFINE Upto(s) == {t \in S : t <= s}
           n == Cardinality(S)
           f == [s \in S |-> Rank(S, s)]
<1>1. n \in Nat
  BY FS_CardinalityType
<1>2. ASSUME NEW s \in S
      PROVE  IsFiniteSet(Upto(s)) /\ Rank(S, s) = Cardinality(Upto(s)) /\ Rank(S, s) \in 1 .. n
  <2>1. Upto(s) \in SUBSET S /\ s \in Upto(s)
    OBVIOUS
  <2> DEFINE T == Upto(s)
  <2>2. Rank(S, s) = Cardinality(T)
    BY DEF Rank
  <2> HIDE DEF T
  <2>3. T \in SUBSET S /\ T # {}
    BY <2>1 DEF T
  <2>4. IsFiniteSet(T) /\ Cardinality(T) <= n
    BY <2>3, FS_Subset
  <2>5. Cardinality(T) \in Nat /\ Cardinality(T) # 0
    BY <2>3, <2>4, FS_CardinalityType, FS_EmptySet
  <2> QED BY <1>1, <2>2, <2>4, <2>5 DEF T
<1>3. ASSUME NEW r \in S, NEW s \in S, r < s
      PROVE  Rank(S, r) # Rank(S, s)
  <2> DEFINE T == Upto(r)
             U == Upto(s)
  <2>1. T \in SUBSET U /\ s \in U /\ s \notin T
    <3>1. \A t \in S : t \in Nat
      OBVIOUS
    <3>2. s <= s /\ ~(s <= r)
      BY <1>3, <3>1
    <3>3. \A t \in S : t <= r => t <= s
      BY <1>3, <3>1
    <3> QED BY <3>2, <3>3
  <2>2. Rank(S, r) = Cardinality(T) /\ Rank(S, s) = Cardinality(U) /\ IsFiniteSet(U)
    BY <1>2
  <2> HIDE DEF T, U
  <2> QED BY <2>1, <2>2, FS_Subset
<1>4. \A r, s \in S : Rank(S, r) = Rank(S, s) => r = s
  BY <1>3
<1>5. f \in Injection(S, 1 .. n)
  <2>1. f \in [S -> 1 .. n]
    BY <1>2
  <2>2. \A r, s \in S : f[r] = f[s] => r = s
    BY <1>4
  <2> QED BY <2>1, <2>2 DEF Injection, IsInjective
<1>6. IsFiniteSet(1 .. n) /\ Cardinality(1 .. n) = n
  BY <1>1, FS_Interval
<1>7. f \in Surjection(S, 1 .. n)
  <2> HIDE DEF f
  <2> QED BY <1>5, <1>6, FS_Injection
<1>8. \A i \in 1 .. n : \E s \in S : Rank(S, s) = i
  BY <1>7 DEF Surjection
<1>9. \A i \in 1 .. n : Nth(S, i) \in S /\ Rank(S, Nth(S, i)) = i
  BY <1>8 DEF Nth, Rank
<1> HIDE DEF n
<1>10. \A s \in S : Nth(S, Rank(S, s)) = s
  BY <1>2, <1>4, <1>9
<1> QED BY <1>1, <1>2, <1>9, <1>10 DEF n

LEMMA PressManifest ==
  ASSUME ReleaseInv, Press
  PROVE  ManifestOk'
<1> DEFINE S == DOMAIN resolved
           N == Cardinality(S)
           C(s) == [service |-> s, pkg |-> resolved[s].pkg, version |-> resolved[s].version,
                    requires |-> resolved[s].requires]
           comps == [i \in 1 .. N |-> C(Nth(S, i))]
<1>1. ResolvedOk /\ resolved' = resolved
  BY DEF ReleaseInv, Press
<1>2. S \in SUBSET Nat /\ IsFiniteSet(S)
  BY <1>1, ReleaseAssumption DEF ResolvedOk
<1>3. Components' = comps
  BY DEF Components, Press, ReleaseInv
<1> HIDE DEF S
<1>4. /\ N \in Nat
      /\ \A i \in 1 .. N : Nth(S, i) \in S /\ Rank(S, Nth(S, i)) = i
      /\ \A s \in S : Rank(S, s) \in 1 .. N /\ Nth(S, Rank(S, s)) = s
  BY <1>2, NthIs
<1> HIDE DEF N
<1>5. /\ DOMAIN comps = 1 .. N
      /\ \A i \in 1 .. N : comps[i].service = Nth(S, i)
      /\ \A i \in 1 .. N : comps[i].pkg = resolved[Nth(S, i)].pkg
      /\ \A i \in 1 .. N : comps[i].requires = resolved[Nth(S, i)].requires
  OBVIOUS
<1>6. IsSeq(comps)
  <2>1. comps \in [1 .. N -> Range(comps)]
    BY DEF Range
  <2> HIDE DEF comps
  <2> QED BY <1>4, <2>1 DEF IsSeq
<1> HIDE DEF comps
<1>7. \A i \in DOMAIN comps :
        /\ comps[i].service \in S
        /\ comps[i].pkg = resolved[comps[i].service].pkg
        /\ comps[i].requires = resolved[comps[i].service].requires
  BY <1>4, <1>5
<1>8. \A i, j \in DOMAIN comps : comps[i].service = comps[j].service => i = j
  BY <1>4, <1>5
<1>9. \A s \in S : \E i \in DOMAIN comps : comps[i].service = s
  BY <1>4, <1>5
<1>10. DOMAIN resolved' = S
  BY <1>1 DEF S
<1> QED BY <1>1, <1>3, <1>6, <1>7, <1>8, <1>9, <1>10 DEF ManifestOk

-------------------------------------------------------------------------------
(* The resolution *)

\* What is wanted stays wanted.
LEMMA WantedStays ==
  ASSUME UNCHANGED template, DOMAIN resolved \subseteq DOMAIN resolved',
         \A t \in DOMAIN resolved : resolved'[t] = resolved[t], NEW s, Wanted(s)
  PROVE  Wanted(s)'
BY DEF Wanted, ServiceId

LEMMA ResolvedStays ==
  ASSUME ResolvedOk, UNCHANGED <<template, resolved>>
  PROVE  ResolvedOk'
<1>1. /\ IsFiniteSet(DOMAIN resolved')
      /\ \A s \in DOMAIN resolved' :
           /\ s \in Services /\ Wanted(s)
           /\ resolved'[s].pkg = template'.impl[s].pkg
           /\ IsSeq(resolved'[s].requires)
  BY DEF ResolvedOk
<1>2. \A s : Wanted(s) => Wanted(s)'
  BY WantedStays
<1> QED BY <1>1, <1>2 DEF ResolvedOk

LEMMA RequiresSeq ==
  ASSUME ManifestOk, ResolvedOk, NEW i \in DOMAIN Components
  PROVE  IsSeq(Components[i].requires)
<1>1. PICK s \in DOMAIN resolved : Components[i].requires = resolved[s].requires
  BY DEF ManifestOk
<1>2. IsSeq(resolved[s].requires)
  BY DEF ResolvedOk
<1> QED BY <1>1, <1>2

\* An entry of the registry.
LEMMA UsableIs ==
  ASSUME ReleaseInv, NEW s, NEW entry \in Usable(s)
  PROVE  entry.requires \in Seq(Services)
<1>1. template \in Templates /\ registry \in Registries
  BY DEF ReleaseInv
<1>2. s \in DOMAIN template.impl /\ entry \in FindBest(template.impl[s].pkg, template.impl[s].req)
  BY DEF Usable, Implemented
<1> DEFINE p == template.impl[s].pkg
<1>3. p \in Packages
  BY <1>1, <1>2, ReleaseAssumption
<1>4. PICK v \in DOMAIN registry[p] :
        entry = [version |-> v, requires |-> registry[p][v].requires]
  BY <1>2 DEF FindBest
<1> HIDE DEF p
<1>5. registry[p][v].requires \in Seq(Services)
  BY <1>1, <1>3, <1>4, ReleaseAssumption
<1> QED BY <1>4, <1>5

\* A service becomes a component, and what it requires is wanted.
LEMMA ResolveOk ==
  ASSUME ReleaseInv, phase = "resolve", unresolved # <<>>, NEW entry \in Usable(Head(unresolved)),
         Head(unresolved) \notin DOMAIN resolved, Resolve(Head(unresolved), entry),
         UNCHANGED template
  PROVE  ResolvedOk' /\ QueueOk'
<1> DEFINE s == Head(unresolved)
           req == entry.requires
           ids == [i \in DOMAIN req |-> ServiceId(req[i])]
           c == [pkg |-> template.impl[s].pkg, version |-> entry.version, requires |-> ids]
<1>1. ResolvedOk /\ QueueOk
  BY DEF ReleaseInv
<1>2. req \in Seq(Services)
  BY UsableIs
<1>3. unresolved \in Seq(Services) /\ s = unresolved[1] /\ 1 \in DOMAIN unresolved
  BY <1>1 DEF QueueOk
<1>4. s \in Services /\ Wanted(s)
  BY <1>1, <1>3 DEF QueueOk
<1>5. resolved' = [t \in DOMAIN resolved \cup {s} |-> IF t = s THEN c ELSE resolved[t]]
  BY DEF Resolve
<1>6. unresolved' = Tail(unresolved) \o req
  BY DEF Resolve
<1>7. /\ c.pkg = template.impl[s].pkg /\ c.requires = ids
      /\ DOMAIN ids = DOMAIN req /\ \A i \in DOMAIN req : ids[i] = ServiceId(req[i])
  OBVIOUS
<1>8. IsSeq(ids)
  <2>1. ids \in [1 .. Len(req) -> Range(ids)]
    BY <1>2 DEF Range
  <2>2. Len(req) \in Nat
    BY <1>2
  <2> HIDE DEF ids
  <2> QED BY <2>1, <2>2 DEF IsSeq
<1>9. \A n \in DOMAIN unresolved' :
        \/ \E k \in DOMAIN unresolved : unresolved'[n] = unresolved[k]
        \/ \E k \in DOMAIN req : unresolved'[n] = req[k]
  <2> HIDE DEF req
  <2> DEFINE q == unresolved
             l == Len(Tail(q))
  <2>1. /\ Tail(q) \in Seq(Services) /\ l \in Nat /\ DOMAIN q = 1 .. Len(q) /\ Len(q) = l + 1
        /\ \A n \in 1 .. l : Tail(q)[n] = q[n + 1]
    BY <1>3
  <2>2. /\ DOMAIN unresolved' = 1 .. (l + Len(req)) /\ Len(req) \in Nat /\ DOMAIN req = 1 .. Len(req)
        /\ \A n \in 1 .. (l + Len(req)) :
             unresolved'[n] = IF n <= l THEN Tail(q)[n] ELSE req[n - l]
    BY <1>2, <1>6, <2>1
  <2> HIDE DEF q, l
  <2> TAKE n \in DOMAIN unresolved'
  <2>3. CASE n <= l
    <3>1. n + 1 \in DOMAIN q /\ unresolved'[n] = q[n + 1]
      BY <2>1, <2>2, <2>3
    <3> QED BY <3>1 DEF q
  <2>4. CASE ~(n <= l)
    <3>1. n - l \in DOMAIN req /\ unresolved'[n] = req[n - l]
      BY <2>1, <2>2, <2>4
    <3> QED BY <3>1
  <2> QED BY <2>3, <2>4
<1>10. unresolved' \in Seq(Services)
  <2> HIDE DEF req
  <2> QED BY <1>2, <1>3, <1>6
<1> HIDE DEF s, req, ids, c
<1>11. /\ DOMAIN resolved' = DOMAIN resolved \cup {s} /\ resolved'[s] = c /\ s \notin DOMAIN resolved
       /\ \A t \in DOMAIN resolved : resolved'[t] = resolved[t]
  BY <1>5 DEF s
<1>12. \A t : Wanted(t) => Wanted(t)'
  BY <1>11, WantedStays
<1>13. \A k \in DOMAIN req : Wanted(req[k])'
  <2> TAKE k \in DOMAIN req
  <2>1. s \in DOMAIN resolved' /\ k \in DOMAIN resolved'[s].requires
    BY <1>7, <1>11
  <2>2. resolved'[s].requires[k] = ServiceId(req[k])'
    BY <1>7, <1>11 DEF ServiceId
  <2> QED BY <2>1, <2>2 DEF Wanted
<1>14. ResolvedOk'
  <2>1. IsFiniteSet(DOMAIN resolved')
    BY <1>1, <1>11, FS_AddElement DEF ResolvedOk
  <2>2. ASSUME NEW t \in DOMAIN resolved'
        PROVE  /\ t \in Services /\ Wanted(t)'
               /\ resolved'[t].pkg = template'.impl[t].pkg
               /\ IsSeq(resolved'[t].requires)
    <3>1. CASE t = s
      BY <1>4, <1>7, <1>8, <1>11, <1>12, <3>1
    <3>2. CASE t \in DOMAIN resolved
      BY <1>1, <1>11, <1>12, <3>2 DEF ResolvedOk
    <3> QED BY <1>11, <3>1, <3>2
  <2> QED BY <2>1, <2>2 DEF ResolvedOk
<1>15. QueueOk'
  <2>1. ASSUME NEW n \in DOMAIN unresolved' PROVE Wanted(unresolved[n])'
    <3>1. CASE \E k \in DOMAIN unresolved : unresolved'[n] = unresolved[k]
      <4>1. PICK k \in DOMAIN unresolved : unresolved'[n] = unresolved[k]
        BY <3>1
      <4>2. Wanted(unresolved[k])
        BY <1>1 DEF QueueOk
      <4>3. PICK u : u = unresolved[k]
        OBVIOUS
      <4>4. Wanted(u)' /\ unresolved'[n] = u
        BY <1>12, <4>1, <4>2, <4>3
      <4> QED BY <4>4 DEF Wanted, ServiceId
    <3>2. CASE \E k \in DOMAIN req : unresolved'[n] = req[k]
      <4>1. PICK k \in DOMAIN req : unresolved'[n] = req[k]
        BY <3>2
      <4> QED BY <1>13, <4>1 DEF Wanted, ServiceId
    <3> QED BY <1>9, <3>1, <3>2
  <2> QED BY <1>10, <2>1 DEF QueueOk
<1> QED BY <1>14, <1>15

LEMMA ReleaseNextInv ==
  ASSUME ReleaseInv, ReleaseNext
  PROVE  ReleaseInv'
<1>1. CASE ResolvePublic
  <2>1. phase = "public" /\ UNCHANGED <<template, registry, resolved>> /\ ResolvedOk
    BY <1>1 DEF ResolvePublic, ReleaseInv
  <2>2. template' \in Templates /\ registry' \in Registries
    BY <2>1 DEF ReleaseInv
  <2>3. ResolvedOk'
    BY <2>1, ResolvedStays
  <2>4. CASE phase' = "failed" /\ UNCHANGED manifest
    BY <2>2, <2>4 DEF ReleaseInv
  <2>5. CASE /\ phase' = "resolve" /\ unresolved' = template.public
             /\ manifest' = [manifest EXCEPT !.public =
                  [i \in DOMAIN template.public |-> ServiceId(template.public[i])]]
    <3>1. unresolved' \in Seq(Services)
      BY <2>1, <2>5, ReleaseAssumption DEF ReleaseInv
    <3>2. \A n \in DOMAIN unresolved' : Wanted(unresolved[n])'
      BY <2>1, <2>5 DEF Wanted
    <3>3. QueueOk'
      BY <3>1, <3>2 DEF QueueOk
    <3> DEFINE ids == [i \in DOMAIN template.public |-> ServiceId(template.public[i])]
    <3>4. ids = [n \in DOMAIN template'.public |-> ServiceId(template.public[n])']
      BY <2>1 DEF ServiceId
    <3>5. manifest' = [manifest EXCEPT !.public = ids]
      BY <2>5
    <3> HIDE DEF ids
    <3>6. manifest' = [public |-> ids, components |-> manifest.components]
      BY <3>5 DEF ReleaseInv
    <3> QED BY <2>2, <2>3, <2>5, <3>3, <3>4, <3>6 DEF ReleaseInv
  <2> QED BY <1>1, <2>4, <2>5 DEF ResolvePublic, Giveup
<1>2. CASE ResolveNext
  <2>1. /\ phase = "resolve" /\ unresolved # <<>> /\ UNCHANGED <<template, registry, manifest>>
        /\ ResolvedOk /\ QueueOk
    BY <1>2 DEF ResolveNext, ReleaseInv
  <2>2. /\ template' \in Templates /\ registry' \in Registries
        /\ manifest' = [public |-> manifest'.public, components |-> manifest'.components]
        /\ manifest'.public = [n \in DOMAIN template'.public |-> ServiceId(template.public[n])']
    BY <2>1 DEF ReleaseInv, ServiceId
  <2>3. CASE Skip(Head(unresolved)) /\ UNCHANGED phase
    <3>1. UNCHANGED resolved /\ unresolved' = Tail(unresolved)
      BY <2>3 DEF Skip
    <3>2. ResolvedOk'
      BY <2>1, <3>1, ResolvedStays
    <3>3. /\ unresolved' \in Seq(Services)
          /\ \A n \in DOMAIN unresolved' : n + 1 \in DOMAIN unresolved /\ unresolved'[n] = unresolved[n + 1]
      BY <2>1, <3>1 DEF QueueOk
    <3>4. ASSUME NEW n \in DOMAIN unresolved' PROVE Wanted(unresolved[n])'
      <4>1. Wanted(unresolved[n + 1]) /\ unresolved'[n] = unresolved[n + 1]
        BY <2>1, <3>3 DEF QueueOk
      <4> QED BY <2>1, <3>1, <4>1 DEF Wanted, ServiceId
    <3>5. QueueOk'
      BY <3>3, <3>4 DEF QueueOk
    <3> QED BY <2>1, <2>2, <2>3, <3>2, <3>5 DEF ReleaseInv
  <2>4. ASSUME NEW entry \in Usable(Head(unresolved)), Head(unresolved) \notin DOMAIN resolved,
               Resolve(Head(unresolved), entry), UNCHANGED phase
        PROVE  ReleaseInv'
    <3>1. ResolvedOk' /\ QueueOk'
      BY <2>1, <2>4, ResolveOk
    <3> QED BY <2>1, <2>2, <2>4, <3>1 DEF ReleaseInv
  <2>5. CASE phase' = "failed"
    BY <2>2, <2>5 DEF ReleaseInv
  <2> QED BY <1>2, <2>3, <2>4, <2>5 DEF ResolveNext, Giveup
<1>3. CASE Press
  <2>1. /\ phase = "resolve" /\ phase' = "load" /\ UNCHANGED <<template, registry, resolved>>
        /\ ResolvedOk
    BY <1>3 DEF Press, ReleaseInv
  <2>2. ManifestOk'
    BY <1>3, PressManifest
  <2>3. ResolvedOk'
    BY <2>1, ResolvedStays
  <2>4. PICK comps : manifest' = [manifest EXCEPT !.components = comps]
    BY <1>3 DEF Press
  <2>5. manifest' = [public |-> manifest.public, components |-> comps]
    BY <2>4 DEF ReleaseInv
  <2>6. manifest'.public = [n \in DOMAIN template'.public |-> ServiceId(template.public[n])']
    BY <2>1, <2>5 DEF ReleaseInv, ServiceId
  <2>7. template' \in Templates /\ registry' \in Registries
    BY <2>1 DEF ReleaseInv
  <2> QED BY <2>1, <2>2, <2>3, <2>5, <2>6, <2>7 DEF ReleaseInv
<1> QED BY <1>1, <1>2, <1>3 DEF ReleaseNext

\* The launch keeps what was resolved and pressed.
LEMMA LaunchKeepsRelease ==
  ASSUME ReleaseInv, UNCHANGED <<template, registry, unresolved, resolved, manifest>>,
         phase' \in {phase, "failed"} \/
           {phase, phase'} \cap {"public", "resolve", "failed"} = {}
  PROVE  ReleaseInv'
<1>1. ResolvedOk => ResolvedOk'
  BY ResolvedStays
<1>2. QueueOk => QueueOk'
  BY DEF QueueOk, Wanted, ServiceId
<1>3. ManifestOk => ManifestOk'
  BY DEF ManifestOk, Components
<1>4. [n \in DOMAIN template.public |-> ServiceId(template.public[n])]
        = [n \in DOMAIN template'.public |-> ServiceId(template.public[n])']
  BY DEF ServiceId
<1> QED BY <1>1, <1>2, <1>3, <1>4 DEF ReleaseInv

-------------------------------------------------------------------------------
(* The progress of the linker *)

LEMMA ProgressStays ==
  ASSUME ProgressInv, UNCHANGED <<manifest, instances, bound, connected>>,
         phase' \in {phase, "failed"} \/ (phase = "spawn" /\ phase' = "up")
  PROVE  ProgressInv'
BY DEF ProgressInv, InstancesOk, Components

\* The same components serve as much, or more.
Grows(w, insts) ==
  /\ DOMAIN w = DOMAIN insts
  /\ \A k \in DOMAIN insts : w[k].pkg = insts[k].pkg
  /\ \A id : Served(insts, id) => Served(w, id)

\* A new file takes nothing away.
LEMMA GivenGrows ==
  ASSUME NEW insts, NEW i \in DOMAIN insts, NEW f, NEW w, Gives(w, insts, i, f)
  PROVE  Grows(w, insts)
<1>1. DOMAIN w = DOMAIN insts
  BY DEF Gives
<1>2. ASSUME NEW k \in DOMAIN insts
      PROVE  w[k].pkg = insts[k].pkg /\ insts[k].files \subseteq w[k].files
  <2>1. CASE k = i
    <3> DEFINE x == [pkg |-> insts[i].pkg, artifact |-> insts[i].artifact,
                     files |-> insts[i].files \cup {f}]
    <3>1. x.pkg = insts[i].pkg /\ insts[i].files \subseteq x.files
      OBVIOUS
    <3>2. w[i] = x
      BY DEF Gives
    <3> HIDE DEF x
    <3> QED BY <2>1, <3>1, <3>2
  <2>2. CASE k # i
    <3>1. w[k] = insts[k]
      BY <2>2 DEF Gives
    <3> QED BY <3>1
  <2> QED BY <2>1, <2>2
<1>3. ASSUME NEW id, Served(insts, id) PROVE Served(w, id)
  <2>1. PICK k \in DOMAIN insts : \E g \in insts[k].files :
          insts[k].pkg = id.pkg /\ g.service = id.service /\ g.direction # "Consuming"
    BY <1>3 DEF Served
  <2> QED BY <1>1, <1>2, <2>1 DEF Served
<1> QED BY <1>1, <1>2, <1>3 DEF Grows

\* And it serves its service.
LEMMA GivenServes ==
  ASSUME NEW insts, NEW i \in DOMAIN insts, NEW f, NEW w, Gives(w, insts, i, f),
         NEW id, insts[i].pkg = id.pkg, f.service = id.service, f.direction # "Consuming"
  PROVE  Served(w, id)
<1>1. i \in DOMAIN w /\ w[i].pkg = id.pkg /\ f \in w[i].files
  <2> DEFINE x == [pkg |-> insts[i].pkg, artifact |-> insts[i].artifact,
                   files |-> insts[i].files \cup {f}]
  <2>1. x.pkg = insts[i].pkg /\ f \in x.files
    OBVIOUS
  <2>2. i \in DOMAIN w /\ w[i] = x
    BY DEF Gives
  <2> HIDE DEF x
  <2> QED BY <2>1, <2>2
<1> QED BY <1>1 DEF Served

\* The public services of the manifest are a list.
LEMMA PublicIs ==
  ASSUME ReleaseInv, phase \notin {"public", "failed"}
  PROVE  IsSeq(manifest.public)
<1> DEFINE pub == template.public
           ids == manifest.public
<1>1. pub \in Seq(Services)
  BY ReleaseAssumption DEF ReleaseInv
<1>2. ids = [n \in DOMAIN pub |-> ServiceId(pub[n])]
  BY DEF ReleaseInv
<1> HIDE DEF pub, ids
<1>3. Len(pub) \in Nat /\ DOMAIN pub = 1 .. Len(pub)
  BY <1>1
<1>4. ids \in [1 .. Len(pub) -> Range(ids)]
  BY <1>2, <1>3 DEF Range
<1>5. IsSeq(ids)
  BY <1>3, <1>4 DEF IsSeq
<1> QED BY <1>5 DEF ids

LEMMA InstantiateProgress ==
  ASSUME IInv, ReleaseInv, ProgressInv, Instantiate
  PROVE  ProgressInv'
<1> DEFINE n == Len(instances) + 1
<1>1. /\ phase = "instantiate" /\ UNCHANGED <<manifest, bound, connected>>
      /\ bound = 0 /\ InstancesOk
  BY DEF Instantiate, ProgressInv
<1>2. IsSeq(instances) /\ IsSeq(Components) /\ Components' = Components
  BY <1>1 DEF IInv, Distinct, ReleaseInv, ManifestOk, Components
<1>3. /\ Len(instances) \in Nat /\ DOMAIN instances = 1 .. Len(instances)
      /\ Len(Components) \in Nat /\ DOMAIN Components = 1 .. Len(Components)
  BY <1>2, SeqIs
<1>4. CASE n > Len(Components) /\ phase' = "bind" /\ UNCHANGED instances
  <2>1. DOMAIN instances = DOMAIN Components
    <3>1. \A i \in 1 .. Len(instances) : i \in 1 .. Len(Components)
      BY <1>1, <1>3 DEF InstancesOk
    <3>2. Len(instances) <= Len(Components)
      BY <1>3, <3>1
    <3> DEFINE a == Len(instances)
               b == Len(Components)
    <3>3. a \in Nat /\ b \in Nat /\ a <= b /\ a + 1 > b
      BY <1>3, <1>4, <3>2
    <3> HIDE DEF a, b
    <3>4. a = b
      BY <3>3
    <3> QED BY <1>3, <3>4 DEF a, b
  <2>2. InstancesOk'
    BY <1>1, <1>2, <1>4 DEF InstancesOk
  <2>3. \A k \in DOMAIN manifest.public : ~(k <= 0)
    <3>1. IsSeq(manifest.public)
      BY <1>1, PublicIs
    <3> QED BY <3>1, SeqIs
  <2> QED BY <1>1, <1>2, <1>4, <2>1, <2>2, <2>3 DEF ProgressInv
<1>5. ASSUME NEW fd, n <= Len(Components), UNCHANGED phase,
             instances' = Append(instances, NewInstance(n, fd))
      PROVE  ProgressInv'
  <2> DEFINE x == NewInstance(n, fd)
  <2>1. x.pkg = Components[n].pkg
    BY DEF NewInstance
  <2>2. instances' = Append(instances, x)
    BY <1>5
  <2> HIDE DEF x
  <2>3. /\ DOMAIN instances' = DOMAIN instances \cup {n} /\ instances'[n] = x
        /\ \A j \in DOMAIN instances : instances'[j] = instances[j]
    BY <1>2, <2>2, AppendIs
  <2>4. n \in DOMAIN Components
    BY <1>3, <1>5
  <2>5. InstancesOk'
    <3> HIDE DEF n
    <3> QED BY <1>1, <1>2, <2>1, <2>3, <2>4 DEF InstancesOk
  <2> QED BY <1>1, <1>5, <2>5 DEF ProgressInv
<1>6. CASE phase' = "failed"
  BY <1>6 DEF ProgressInv
<1> QED
  <2> HIDE DEF n
  <2> QED BY <1>4, <1>5, <1>6 DEF Instantiate, Panic, Giveup, n

LEMMA BindProgress ==
  ASSUME IInv, ReleaseInv, ProgressInv, BindPublic
  PROVE  ProgressInv'
<1> DEFINE n == bound + 1
           s == manifest.public[n]
<1>1. /\ phase = "bind" /\ UNCHANGED manifest /\ bound \in Nat /\ InstancesOk
      /\ DOMAIN instances = DOMAIN Components
      /\ \A k \in DOMAIN manifest.public : k <= bound => Served(instances, manifest.public[k])
  BY DEF BindPublic, ProgressInv
<1>2. Components' = Components /\ Distinct(instances) /\ ManifestOk /\ ResolvedOk
  BY <1>1 DEF Components, IInv, ReleaseInv
<1>3. Len(manifest.public) \in Nat /\ DOMAIN manifest.public = 1 .. Len(manifest.public)
  BY <1>1, PublicIs, SeqIs
<1>4. CASE /\ n > Len(manifest.public) /\ phase' = "connect" /\ UNCHANGED instances
           /\ connected' = [i \in DOMAIN instances |-> 0]
  <2>1. \A k \in DOMAIN manifest.public : Served(instances, manifest.public[k])
    BY <1>1, <1>3, <1>4
  <2>2. InstancesOk'
    BY <1>1, <1>2, <1>4 DEF InstancesOk
  <2>3. \A i \in DOMAIN Components : \A m \in DOMAIN Components[i].requires : ~(m <= 0)
    <3> TAKE i \in DOMAIN Components
    <3>1. IsSeq(Components[i].requires)
      BY <1>2, RequiresSeq
    <3> QED BY <3>1, SeqIs
  <2> QED BY <1>1, <1>2, <1>4, <2>1, <2>2, <2>3 DEF ProgressInv
<1>5. ASSUME NEW i \in InstanceOf(s.pkg), NEW fd, UNCHANGED phase, bound' = n,
             instances' = WithFile(instances, i, File(fd, "ServingListening", s.service, 0))
      PROVE  ProgressInv'
  <2> DEFINE f == File(fd, "ServingListening", s.service, 0)
  <2>1. f.service = s.service /\ f.direction # "Consuming"
    BY DEF File
  <2>2. instances' = WithFile(instances, i, f)
    BY <1>5
  <2>3. i \in DOMAIN instances /\ instances[i].pkg = s.pkg
    BY DEF InstanceOf
  <2> HIDE DEF f, s
  <2>4. Gives(instances', instances, i, f)
    BY <1>2, <2>2, <2>3, WithFileGives
  <2>5. /\ DOMAIN instances' = DOMAIN instances
        /\ \A k \in DOMAIN instances : instances'[k].pkg = instances[k].pkg
        /\ \A id : Served(instances, id) => Served(instances', id)
        /\ Served(instances', s)
    <3>1. Grows(instances', instances)
      BY <2>3, <2>4, GivenGrows
    <3>2. Served(instances', s)
      BY <2>1, <2>3, <2>4, GivenServes
    <3> QED BY <3>1, <3>2 DEF Grows
  <2>6. InstancesOk'
    BY <1>1, <1>2, <2>5 DEF InstancesOk
  <2>7. ASSUME NEW k \in DOMAIN manifest.public, k <= n
        PROVE  Served(instances', manifest.public[k])
    <3>1. k <= bound \/ k = n
      BY <1>1, <1>3, <2>7
    <3> HIDE DEF n
    <3> QED BY <1>1, <2>5, <3>1 DEF s
  <2>8. n \in Nat
    BY <1>1
  <2> HIDE DEF n
  <2> QED BY <1>1, <1>2, <1>5, <2>5, <2>6, <2>7, <2>8 DEF ProgressInv
<1>6. CASE phase' = "failed"
  BY <1>6 DEF ProgressInv
<1> QED
  <2> HIDE DEF n
  <2> QED BY <1>4, <1>5, <1>6 DEF BindPublic, Panic, Giveup, n

\* Instance j got a file for the next service that instance i requires.
LEMMA ConnectedProgress ==
  ASSUME ReleaseInv, ProgressInv, phase = "connect", UNCHANGED <<phase, manifest, bound>>,
         NEW i \in DOMAIN instances,
         DOMAIN instances' = DOMAIN instances,
         \A k \in DOMAIN instances : instances'[k].pkg = instances[k].pkg,
         \A id : Served(instances, id) => Served(instances', id),
         Served(instances', Components[i].requires[connected[i] + 1]),
         connected' = [connected EXCEPT ![i] = @ + 1]
  PROVE  ProgressInv'
<1>1. Components' = Components /\ InstancesOk /\ ManifestOk /\ ResolvedOk
  BY DEF Components, ProgressInv, ReleaseInv
<1>2. InstancesOk'
  BY <1>1 DEF InstancesOk
<1>3. \A n \in DOMAIN manifest.public : Served(instances', manifest.public[n])
  BY DEF ProgressInv
<1>4. /\ DOMAIN connected = DOMAIN instances /\ DOMAIN connected' = DOMAIN instances
      /\ connected'[i] = connected[i] + 1
      /\ \A k \in DOMAIN instances : k # i => connected'[k] = connected[k]
      /\ \A k \in DOMAIN instances : connected[k] \in Nat /\ connected'[k] \in Nat
  <2>1. /\ DOMAIN connected = DOMAIN instances
        /\ \A k \in DOMAIN instances : connected[k] \in Nat
    BY DEF ProgressInv
  <2>2. /\ DOMAIN connected' = DOMAIN connected
        /\ connected'[i] = connected[i] + 1
        /\ \A k \in DOMAIN instances : k # i => connected'[k] = connected[k]
    BY <2>1
  <2> QED BY <2>1, <2>2
<1>5. ASSUME NEW k \in DOMAIN instances, NEW m \in DOMAIN Components[k].requires,
             m <= connected'[k]
      PROVE  Served(instances', Components[k].requires[m])
  <2>1. m \in Nat
    <3>1. k \in DOMAIN Components
      BY <1>1 DEF InstancesOk
    <3>2. IsSeq(Components[k].requires)
      BY <1>1, <3>1, RequiresSeq
    <3> QED BY <3>2, SeqIs
  <2> DEFINE c == connected[k]
             d == connected'[k]
  <2>2. c \in Nat /\ (d = c \/ (k = i /\ d = c + 1)) /\ m <= d
    BY <1>4, <1>5
  <2>3. CASE m <= c
    BY <2>3 DEF ProgressInv
  <2>4. CASE k = i /\ m = c + 1
    BY <2>4
  <2> HIDE DEF c, d
  <2>5. m <= c \/ (k = i /\ m = c + 1)
    BY <2>1, <2>2
  <2> QED BY <2>3, <2>4, <2>5
<1>6. DOMAIN instances = DOMAIN Components
  BY DEF ProgressInv
<1> QED BY <1>1, <1>2, <1>3, <1>4, <1>5, <1>6 DEF ProgressInv

LEMMA ConnectProgress ==
  ASSUME IInv, ReleaseInv, ProgressInv, NEW i \in DOMAIN instances, Connect(i)
  PROVE  ProgressInv'
<1> DEFINE need == Components[i].requires[connected[i] + 1]
<1>1. phase = "connect" /\ UNCHANGED <<manifest, bound>> /\ Distinct(instances)
  BY DEF Connect, IInv
<1>2. ASSUME NEW j \in InstanceOf(need.pkg), NamedSocket(i, j, need.service),
             connected' = [connected EXCEPT ![i] = @ + 1], UNCHANGED phase
      PROVE  ProgressInv'
  <2> DEFINE f == [File(Free(open), "ServingListening", need.service, i) EXCEPT !.cloexec = TRUE]
  <2>1. f.service = need.service /\ f.direction # "Consuming"
    BY DEF File
  <2>2. instances' = WithFile(instances, j, f)
    BY <1>2 DEF NamedSocket
  <2>3. j \in DOMAIN instances /\ instances[j].pkg = need.pkg
    BY DEF InstanceOf
  <2> HIDE DEF f, need
  <2>4. Gives(instances', instances, j, f)
    BY <1>1, <2>2, <2>3, WithFileGives
  <2>5. /\ DOMAIN instances' = DOMAIN instances
        /\ \A k \in DOMAIN instances : instances'[k].pkg = instances[k].pkg
        /\ \A id : Served(instances, id) => Served(instances', id)
        /\ Served(instances', need)
    <3>1. Grows(instances', instances)
      BY <2>3, <2>4, GivenGrows
    <3>2. Served(instances', need)
      BY <2>1, <2>3, <2>4, GivenServes
    <3> QED BY <3>1, <3>2 DEF Grows
  <2> QED BY <1>1, <1>2, <2>5, ConnectedProgress DEF need
<1>3. ASSUME NEW j \in InstanceOf(need.pkg), Preconnected(i, j, need.service),
             connected' = [connected EXCEPT ![i] = @ + 1], UNCHANGED phase
      PROVE  ProgressInv'
  <2> DEFINE a == Free(open)
             b == Free(open \cup {a})
             f == File(a, "Consuming", need.service, j)
             g == File(b, "ServingConnected", need.service, i)
             w == WithFile(instances, i, f)
  <2>1. g.service = need.service /\ g.direction # "Consuming"
    BY DEF File
  <2>2. instances' = WithFile(w, j, g) /\ f.fd = a /\ Unused(open) # {}
    BY <1>3 DEF Preconnected, File
  <2>3. j \in DOMAIN instances /\ instances[j].pkg = need.pkg
    BY DEF InstanceOf
  <2>4. a \notin open
    BY <2>2, FreeIs
  <2> HIDE DEF a, b, f, g, need
  <2>5. Gives(w, instances, i, f)
    BY <1>1, WithFileGives
  <2> HIDE DEF w
  <2>6. Within(instances, open, fetched)
    BY <1>1 DEF IInv, Forking
  <2>7. Distinct(w)
    BY <1>1, <2>2, <2>4, <2>5, <2>6, FileAdded
  <2>8. /\ DOMAIN w = DOMAIN instances
        /\ \A k \in DOMAIN instances : w[k].pkg = instances[k].pkg
        /\ \A id : Served(instances, id) => Served(w, id)
    <3>1. Grows(w, instances)
      BY <2>5, GivenGrows
    <3> QED BY <3>1 DEF Grows
  <2>9. Gives(instances', w, j, g)
    BY <2>2, <2>3, <2>7, <2>8, WithFileGives
  <2>10. /\ DOMAIN instances' = DOMAIN w
         /\ \A k \in DOMAIN w : instances'[k].pkg = w[k].pkg
         /\ \A id : Served(w, id) => Served(instances', id)
         /\ Served(instances', need)
    <3>1. j \in DOMAIN w /\ w[j].pkg = need.pkg
      BY <2>3, <2>8
    <3>2. Grows(instances', w)
      BY <2>9, <3>1, GivenGrows
    <3>3. Served(instances', need)
      BY <2>1, <2>9, <3>1, GivenServes
    <3> QED BY <3>2, <3>3 DEF Grows
  <2>11. /\ DOMAIN instances' = DOMAIN instances
         /\ \A k \in DOMAIN instances : instances'[k].pkg = instances[k].pkg
         /\ \A id : Served(instances, id) => Served(instances', id)
    BY <2>8, <2>10
  <2> QED BY <1>1, <1>3, <2>10, <2>11, ConnectedProgress DEF need
<1>4. CASE phase' = "failed"
  BY <1>4 DEF ProgressInv
<1> QED BY <1>2, <1>3, <1>4 DEF Connect, Panic, Giveup

LEMMA ReifiedProgress ==
  ASSUME ReleaseInv, ProgressInv, Reified
  PROVE  ProgressInv'
<1>1. /\ phase = "connect" /\ phase' = "spawn" /\ UNCHANGED <<manifest, instances>>
      /\ \A i \in DOMAIN instances : connected[i] = Len(Components[i].requires)
  BY DEF Reified
<1>2. Components' = Components /\ InstancesOk /\ ManifestOk /\ ResolvedOk
  BY <1>1 DEF Components, ProgressInv, ReleaseInv
<1>3. ASSUME NEW i \in DOMAIN instances, NEW m \in DOMAIN Components[i].requires
      PROVE  Served(instances, Components[i].requires[m])
  <2> DEFINE req == Components[i].requires
  <2>1. i \in DOMAIN Components
    BY <1>2 DEF InstancesOk
  <2>2. IsSeq(req)
    BY <1>2, <2>1, RequiresSeq
  <2> HIDE DEF req
  <2>3. m <= Len(req)
    <3>1. Len(req) \in Nat /\ DOMAIN req = 1 .. Len(req)
      BY <2>2, SeqIs
    <3> QED BY <3>1 DEF req
  <2>4. m <= connected[i]
    BY <1>1, <2>3 DEF req
  <2> QED BY <1>1, <2>4 DEF ProgressInv
<1>4. InstancesOk'
  BY <1>1, <1>2 DEF InstancesOk
<1> QED BY <1>1, <1>2, <1>3, <1>4 DEF ProgressInv

-------------------------------------------------------------------------------

ServeInv == IInv /\ ReleaseInv /\ ProgressInv

LEMMA InitServe == Init => ServeInv
<1> SUFFICES ASSUME Init PROVE ServeInv
  OBVIOUS
<1>1. /\ template \in Templates /\ registry \in Registries /\ phase = "public"
      /\ DOMAIN resolved = {} /\ manifest = [public |-> <<>>, components |-> <<>>]
      /\ instances = <<>> /\ bound = 0
  BY DEF Init, ReleaseInit
<1>2. ResolvedOk
  BY <1>1, FS_EmptySet DEF ResolvedOk
<1>3. ReleaseInv
  BY <1>1, <1>2 DEF ReleaseInv
<1>4. ProgressInv
  BY <1>1 DEF ProgressInv
<1> QED BY <1>3, <1>4, InitInv DEF ServeInv

LEMMA NextServe == ServeInv /\ [Next]_vars => ServeInv'
<1> SUFFICES ASSUME ServeInv, [Next]_vars PROVE ReleaseInv' /\ ProgressInv'
  BY NextInv DEF ServeInv
<1> DEFINE Goal == ReleaseInv' /\ ProgressInv'
<1>1. IInv /\ ReleaseInv /\ ProgressInv
  BY DEF ServeInv
<1>2. CASE ReleaseNext /\ UNCHANGED launchVars
  <2>1. phase \in {"public", "resolve"} /\ phase' \in {"public", "resolve", "load", "failed"}
    BY <1>2 DEF ReleaseNext, ResolvePublic, ResolveNext, Press, Giveup
  <2>2. ProgressInv'
    BY <1>1, <1>2, <2>1 DEF launchVars, ProgressInv
  <2> QED BY <1>1, <1>2, <2>2, ReleaseNextInv
<1>3. CASE Collect
  <2>1. /\ phase = "load" /\ phase' = "instantiate"
        /\ UNCHANGED <<template, registry, unresolved, resolved, manifest, instances, bound>>
    BY <1>3 DEF Collect
  <2>2. ProgressInv'
    <3>1. instances' = <<>> /\ bound' = 0
      BY <1>1, <2>1 DEF ProgressInv
    <3>2. InstancesOk'
      BY <3>1 DEF InstancesOk
    <3> QED BY <2>1, <3>1, <3>2 DEF ProgressInv
  <2> QED BY <1>1, <2>1, <2>2, LaunchKeepsRelease
<1>4. CASE Instantiate
  <2>1. /\ phase = "instantiate" /\ phase' \in {phase, "bind", "failed"}
        /\ UNCHANGED <<template, registry, unresolved, resolved, manifest>>
    BY <1>4 DEF Instantiate, Panic, Giveup
  <2> QED BY <1>1, <1>4, <2>1, LaunchKeepsRelease, InstantiateProgress
<1>5. CASE BindPublic
  <2>1. /\ phase = "bind" /\ phase' \in {phase, "connect", "failed"}
        /\ UNCHANGED <<template, registry, unresolved, resolved, manifest>>
    BY <1>5 DEF BindPublic, Panic, Giveup
  <2> QED BY <1>1, <1>5, <2>1, LaunchKeepsRelease, BindProgress
<1>6. ASSUME NEW i \in DOMAIN instances, Connect(i) PROVE Goal
  <2>1. /\ phase' \in {phase, "failed"}
        /\ UNCHANGED <<template, registry, unresolved, resolved, manifest>>
    BY <1>6 DEF Connect, Panic, Giveup
  <2> QED BY <1>1, <1>6, <2>1, LaunchKeepsRelease, ConnectProgress
<1>7. CASE Reified
  <2>1. /\ phase = "connect" /\ phase' = "spawn"
        /\ UNCHANGED <<template, registry, unresolved, resolved, manifest>>
    BY <1>7 DEF Reified
  <2> QED BY <1>1, <1>7, <2>1, LaunchKeepsRelease, ReifiedProgress
<1>8. ASSUME UNCHANGED <<template, registry, unresolved, resolved, manifest, instances, bound,
                         connected>>,
             phase' \in {phase, "failed"} \/ (phase = "spawn" /\ phase' = "up")
      PROVE  Goal
  BY <1>1, <1>8, LaunchKeepsRelease, ProgressStays
<1>9. ASSUME NEW i, Spawn(i) PROVE Goal
  <2>1. /\ UNCHANGED <<template, registry, unresolved, resolved, manifest, instances, bound,
                      connected>>
        /\ phase' \in {phase, "failed"}
    BY <1>9 DEF Spawn, Panic, Giveup
  <2> QED BY <1>8, <2>1
<1>10. ASSUME NEW i, Fetch(i) PROVE Goal
  <2>1. /\ UNCHANGED <<template, registry, unresolved, resolved, manifest, instances, bound,
                      connected>>
        /\ phase' \in {phase, "failed"}
    BY <1>10 DEF Fetch, Panic, Giveup
  <2> QED BY <1>8, <2>1
<1>11. CASE Spawned
  <2>1. /\ UNCHANGED <<template, registry, unresolved, resolved, manifest, instances, bound,
                      connected>>
        /\ phase = "spawn" /\ phase' = "up"
    BY <1>11 DEF Spawned, launchVars
  <2> QED BY <1>8, <2>1
<1>12. ASSUME NEW i, Relabel(i) \/ Exec(i) \/ End(i) PROVE Goal
  <2>1. /\ UNCHANGED <<template, registry, unresolved, resolved, manifest, instances, bound,
                      connected>>
        /\ phase' = phase
    BY <1>12 DEF Relabel, Exec, End, releaseVars
  <2> QED BY <1>8, <2>1
<1>13. CASE UNCHANGED vars
  <2>1. /\ UNCHANGED <<template, registry, unresolved, resolved, manifest, instances, bound,
                      connected>>
        /\ phase' = phase
    BY <1>13 DEF vars, releaseVars, launchVars
  <2> QED BY <1>8, <2>1
<1> QED
  BY <1>2, <1>3, <1>4, <1>5, <1>6, <1>7, <1>9, <1>10, <1>11, <1>12, <1>13
  DEF Next, LinkerStep, ChildStep

\* The service of a component is wanted, so it was bound or connected; it went
\* to an instance of its package, and there is no other than its own.
LEMMA ServeInvServes == ServeInv => ServesItsService
<1> SUFFICES ASSUME ServeInv, Connected,
                    \A s, t \in DOMAIN resolved : s # t => resolved[s].pkg # resolved[t].pkg,
                    NEW i \in DOMAIN instances
             PROVE  \E f \in instances[i].files :
                      f.service = Components[i].service /\ f.direction # "Consuming"
  BY DEF ServesItsService
<1> DEFINE s == Components[i].service
           id == ServiceId(s)
<1>1. /\ ResolvedOk /\ ManifestOk /\ InstancesOk /\ DOMAIN instances = DOMAIN Components
      /\ manifest.public = [n \in DOMAIN template.public |-> ServiceId(template.public[n])]
      /\ \A n \in DOMAIN manifest.public : Served(instances, manifest.public[n])
      /\ \A k \in DOMAIN instances : \A m \in DOMAIN Components[k].requires :
           Served(instances, Components[k].requires[m])
  BY DEF ServeInv, ReleaseInv, ProgressInv, Connected
<1>2. s \in DOMAIN resolved /\ Wanted(s) /\ resolved[s].pkg = template.impl[s].pkg
  BY <1>1 DEF ManifestOk, ResolvedOk
<1>3. id.pkg = resolved[s].pkg /\ id.service = s
  BY <1>2 DEF ServiceId
<1> HIDE DEF id
<1>4. Served(instances, id)
  <2>1. CASE \E n \in DOMAIN template.public : template.public[n] = s
    <3>1. PICK n \in DOMAIN template.public : template.public[n] = s
      BY <2>1
    <3>2. n \in DOMAIN manifest.public /\ manifest.public[n] = id
      BY <1>1, <3>1 DEF id
    <3> QED BY <1>1, <3>2
  <2>2. CASE \E t \in DOMAIN resolved : \E m \in DOMAIN resolved[t].requires :
               resolved[t].requires[m] = id
    <3>1. PICK t \in DOMAIN resolved : \E m \in DOMAIN resolved[t].requires :
            resolved[t].requires[m] = id
      BY <2>2
    <3>2. PICK k \in DOMAIN Components : Components[k].service = t
      BY <1>1 DEF ManifestOk
    <3>3. Components[k].requires = resolved[t].requires
      BY <1>1, <3>2 DEF ManifestOk
    <3>4. PICK m \in DOMAIN Components[k].requires : Components[k].requires[m] = id
      BY <3>1, <3>3
    <3>5. k \in DOMAIN instances
      BY <1>1, <3>2
    <3>6. Served(instances, Components[k].requires[m])
      BY <1>1, <3>5
    <3> QED BY <3>4, <3>6
  <2> QED BY <1>2, <2>1, <2>2 DEF Wanted, id
<1>5. PICK j \in DOMAIN instances : \E f \in instances[j].files :
        instances[j].pkg = id.pkg /\ f.service = id.service /\ f.direction # "Consuming"
  BY <1>4 DEF Served
<1>6. j = i
  <2> DEFINE r == Components[j].service
  <2>1. r \in DOMAIN resolved /\ resolved[r].pkg = Components[j].pkg
    BY <1>1 DEF ManifestOk
  <2>2. Components[j].pkg = resolved[s].pkg
    BY <1>1, <1>3, <1>5 DEF InstancesOk
  <2> HIDE DEF r, s
  <2>3. r = s
    BY <1>2, <2>1, <2>2
  <2> QED BY <1>1, <2>3 DEF ManifestOk, r, s
<1> QED BY <1>3, <1>5, <1>6

\* However many components there are, and whatever descriptors the linker was
\* started with, a component executes with the standard descriptors, its
\* configuration and its own files, and below MapLen with no other: what
\* exec_artifact drops in the linker is never another child's, and what
\* relabel_file_descriptors and execveat close is never the child's own.
THEOREM ChildrenGetTheirFds == Spec => []ExactFds
<1>1. IInv => ExactFds
  BY DEF IInv, ChildOk, ExactFds
<1> QED BY <1>1, Invariance, PTL

\* For every manifest, also one in which a component requires its own package or
\* a service twice, the two ends of the connections that
\* reify_service_connections sets up agree in number, service and peer.
THEOREM ConnectionsHaveTwoEnds == Spec => []EndsMatch
<1>1. IInv => EndsMatch
  BY DEF IInv, Paired, EndsMatch
<1> QED BY <1>1, Invariance, PTL

\* For every template and registry: if every service has a package of its own,
\* every component that reify_service_connections prepares has a socket to serve
\* the service on that resolve added it for, so nothing is started in vain.
THEOREM ComponentsServe == Spec => []ServesItsService
<1>1. Spec => []ServeInv
  BY InitServe, NextServe, PTL DEF Spec
<1> QED BY <1>1, ServeInvServes, PTL

===============================================================================
