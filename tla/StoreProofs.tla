----------------------------- MODULE StoreProofs -----------------------------
(***************************************************************************)
(* What is kept and handed out, for every value of the constants: the      *)
(* files of the cache, the connections of a connector and the executable   *)
(* that is fetched into the artifact store.                                *)
(***************************************************************************)
EXTENDS ArcCache, Connector, ArtifactStore, SequenceTheorems, TLAPS

-------------------------------------------------------------------------------
(***************************************************************************)
(* ArcCache. For any keys and any capacity, and whatever sequence of       *)
(* inserts and lookups, panics in between included: the adaptive           *)
(* replacement cache keeps its shape.                                      *)
(***************************************************************************)

CacheType ==
  [p_value : 0 .. Capacity, recent_top : Seq(Keys), recent_bottom : Seq(Keys),
   frequent_top : Seq(Keys), frequent_bottom : Seq(Keys)]

\* A list has no key twice.
IsList(s) == s \in Seq(Keys) /\ IsInjective(s)

\* No two of the lists have a key in common.
Apart(r, s, t, u) ==
  /\ r \cap s = {} /\ r \cap t = {} /\ r \cap u = {}
  /\ s \cap t = {} /\ s \cap u = {} /\ t \cap u = {}

\* A cache in the middle of an insert: it may hold one key too many.
Shape(c) ==
  /\ c \in CacheType
  /\ IsList(c.recent_top) /\ IsList(c.recent_bottom)
  /\ IsList(c.frequent_top) /\ IsList(c.frequent_bottom)
  /\ Apart(ToSet(c.recent_top), ToSet(c.recent_bottom),
           ToSet(c.frequent_top), ToSet(c.frequent_bottom))
  /\ Len(c.recent_bottom) <= Capacity

\* A cache between two calls. This is inductive: what insert does to one list
\* is right only if the key is in none of the others and p_value is in range.
Sound(c) == Shape(c) /\ Len(c.recent_top) + Len(c.frequent_top) <= Capacity

-------------------------------------------------------------------------------
(* Lists *)

LEMMA AppendList ==
  ASSUME NEW s, IsList(s), NEW k \in Keys, k \notin ToSet(s)
  PROVE  /\ IsList(Append(s, k))
         /\ ToSet(Append(s, k)) = ToSet(s) \cup {k}
         /\ Len(Append(s, k)) = Len(s) + 1
<1> DEFINE t == Append(s, k)
<1>1. /\ s \in Seq(Keys) /\ Len(s) \in Nat /\ DOMAIN s = 1 .. Len(s)
      /\ \A i, j \in 1 .. Len(s) : s[i] = s[j] => i = j
  BY LenProperties DEF IsList, IsInjective
<1>2. /\ t \in Seq(Keys) /\ Len(t) = Len(s) + 1 /\ DOMAIN t = 1 .. Len(s) + 1
      /\ \A i \in 1 .. Len(s) : t[i] = s[i]
      /\ t[Len(s) + 1] = k
  BY <1>1, AppendProperties, LenProperties
<1> HIDE DEF t
<1>3. \A i \in 1 .. Len(s) : s[i] # k
  BY <1>1 DEF ToSet
<1>4. IsInjective(t)
  <2> SUFFICES ASSUME NEW i \in 1 .. Len(s) + 1, NEW j \in 1 .. Len(s) + 1,
                      t[i] = t[j]
               PROVE  i = j
    BY <1>2 DEF IsInjective
  <2>1. i \in 1 .. Len(s) \/ i = Len(s) + 1
    BY <1>1
  <2>2. j \in 1 .. Len(s) \/ j = Len(s) + 1
    BY <1>1
  <2> QED BY <1>1, <1>2, <1>3, <2>1, <2>2
<1>5. ToSet(t) = ToSet(s) \cup {k}
  <2>1. \A i \in 1 .. Len(s) + 1 : i \in 1 .. Len(s) \/ i = Len(s) + 1
    BY <1>1
  <2>2. Len(s) + 1 \in DOMAIN t /\ 1 .. Len(s) \subseteq DOMAIN t
    BY <1>1, <1>2
  <2> QED BY <1>1, <1>2, <2>1, <2>2 DEF ToSet
<1> QED BY <1>2, <1>4, <1>5 DEF IsList, t

\* Part of a list, from a place on.
LEMMA SuffixList ==
  ASSUME NEW s, IsList(s), NEW m \in 1 .. Len(s) + 1
  PROVE  /\ IsList(SubSeq(s, m, Len(s)))
         /\ ToSet(SubSeq(s, m, Len(s))) = {s[i] : i \in m .. Len(s)}
         /\ Len(SubSeq(s, m, Len(s))) = Len(s) - m + 1
<1> DEFINE t == SubSeq(s, m, Len(s))
           n == Len(s) - m + 1
<1>1. /\ s \in Seq(Keys) /\ Len(s) \in Nat /\ DOMAIN s = 1 .. Len(s)
      /\ \A i, j \in 1 .. Len(s) : s[i] = s[j] => i = j
  BY LenProperties DEF IsList, IsInjective
<1>2. \A i \in m .. Len(s) : s[i] \in Keys
  BY <1>1, ElementOfSeq
<1>3. n \in Nat /\ m \in Nat
  BY <1>1
<1>4. /\ t \in Seq(Keys) /\ Len(t) = n
      /\ \A i \in 1 .. n : t[i] = s[m + i - 1]
  BY <1>1, <1>2, <1>3, SubSeqProperties
<1>5. DOMAIN t = 1 .. n
  BY <1>4, LenProperties
<1> HIDE DEF t
<1>6. IsInjective(t)
  <2> SUFFICES ASSUME NEW i \in 1 .. n, NEW j \in 1 .. n, t[i] = t[j]
               PROVE  i = j
    BY <1>5 DEF IsInjective
  <2>1. m + i - 1 \in 1 .. Len(s) /\ m + j - 1 \in 1 .. Len(s)
    BY <1>1
  <2>2. s[m + i - 1] = s[m + j - 1]
    BY <1>4
  <2>3. m + i - 1 = m + j - 1
    BY <1>1, <2>1, <2>2
  <2> QED BY <1>3, <2>3
<1>7. ToSet(t) = {s[i] : i \in m .. Len(s)}
  <2>1. ASSUME NEW i \in m .. Len(s) PROVE \E j \in 1 .. n : t[j] = s[i]
    <3>1. i - m + 1 \in 1 .. n /\ m + (i - m + 1) - 1 = i
      BY <1>1
    <3> QED BY <1>4, <3>1
  <2>2. ASSUME NEW j \in 1 .. n PROVE \E i \in m .. Len(s) : t[j] = s[i]
    <3>1. m + j - 1 \in m .. Len(s)
      BY <1>1
    <3> QED BY <1>4, <3>1
  <2>3. ToSet(t) = {t[j] : j \in 1 .. n}
    BY <1>5 DEF ToSet
  <2>4. ToSet(t) \subseteq {s[i] : i \in m .. Len(s)}
    BY <2>2, <2>3
  <2>5. {s[i] : i \in m .. Len(s)} \subseteq ToSet(t)
    BY <2>1, <2>3
  <2> QED BY <2>4, <2>5
<1> QED BY <1>4, <1>6, <1>7 DEF IsList, t

LEMMA TailList ==
  ASSUME NEW s, IsList(s), s # <<>>
  PROVE  /\ IsList(Tail(s)) /\ Len(Tail(s)) = Len(s) - 1
         /\ ToSet(Tail(s)) = ToSet(s) \ {Head(s)}
         /\ Head(s) \in ToSet(s) /\ Head(s) \in Keys
<1>1. /\ s \in Seq(Keys) /\ Len(s) \in Nat \ {0} /\ DOMAIN s = 1 .. Len(s)
      /\ \A i, j \in 1 .. Len(s) : s[i] = s[j] => i = j
  BY LenProperties, EmptySeq DEF IsList, IsInjective
<1>2. Head(s) = s[1] /\ Head(s) \in Keys
  BY <1>1, HeadTailProperties
<1>3. Tail(s) = SubSeq(s, 2, Len(s))
  BY <1>1, TailIsSubSeq
<1>4. 2 \in 1 .. Len(s) + 1 /\ Len(s) - 2 + 1 = Len(s) - 1
  BY <1>1
<1>5. /\ IsList(Tail(s)) /\ Len(Tail(s)) = Len(s) - 1
      /\ ToSet(Tail(s)) = {s[i] : i \in 2 .. Len(s)}
  BY <1>3, <1>4, SuffixList
<1>6. {s[i] : i \in 2 .. Len(s)} = ToSet(s) \ {s[1]}
  <2>1. \A i \in 2 .. Len(s) : i \in 1 .. Len(s) /\ i # 1
    BY <1>1
  <2>2. \A i \in 1 .. Len(s) : i = 1 \/ i \in 2 .. Len(s)
    BY <1>1
  <2>3. 1 \in 1 .. Len(s)
    BY <1>1
  <2> QED BY <1>1, <2>1, <2>2, <2>3 DEF ToSet
<1>7. s[1] \in ToSet(s)
  BY <1>1 DEF ToSet
<1> QED BY <1>2, <1>5, <1>6, <1>7

LEMMA TrimmedList ==
  ASSUME NEW s, IsList(s)
  PROVE  /\ IsList(Trimmed(s)) /\ Len(Trimmed(s)) <= Capacity - 1
         /\ ToSet(Trimmed(s)) \subseteq ToSet(s)
<1>1. /\ s \in Seq(Keys) /\ Len(s) \in Nat /\ DOMAIN s = 1 .. Len(s)
  BY LenProperties DEF IsList
<1>2. CASE Len(s) < Capacity
  BY <1>1, <1>2, CapacityAssumption DEF Trimmed
<1>3. CASE ~(Len(s) < Capacity)
  <2> DEFINE m == Len(s) - Capacity + 2
  <2>1. m \in 1 .. Len(s) + 1 /\ Len(s) - m + 1 = Capacity - 1
    BY <1>1, <1>3, CapacityAssumption
  <2>2. Trimmed(s) = SubSeq(s, m, Len(s))
    BY <1>3 DEF Trimmed
  <2> HIDE DEF m
  <2>3. /\ IsList(Trimmed(s)) /\ Len(Trimmed(s)) = Capacity - 1
        /\ ToSet(Trimmed(s)) = {s[i] : i \in m .. Len(s)}
    BY <2>1, <2>2, SuffixList
  <2>4. \A i \in m .. Len(s) : i \in 1 .. Len(s)
    BY <1>1, <2>1
  <2>5. ToSet(Trimmed(s)) \subseteq ToSet(s)
    <3>1. ToSet(s) = {s[i] : i \in 1 .. Len(s)}
      BY <1>1 DEF ToSet
    <3> QED BY <2>3, <2>4, <3>1
  <2>6. Len(Trimmed(s)) <= Capacity - 1
    BY <2>3, CapacityAssumption
  <2> QED BY <2>3, <2>5, <2>6
<1> QED BY <1>2, <1>3

LEMMA WithoutList ==
  ASSUME NEW s, IsList(s), NEW k, Has(s, k)
  PROVE  /\ IsList(Without(s, k)) /\ Len(Without(s, k)) = Len(s) - 1
         /\ ToSet(Without(s, k)) = ToSet(s) \ {k}
         /\ k \in ToSet(s)
<1> DEFINE n == CHOOSE i \in 1 .. Len(s) : s[i] = k
           a == SubSeq(s, 1, n - 1)
           b == SubSeq(s, n + 1, Len(s))
           t == a \o b
<1>1. /\ s \in Seq(Keys) /\ Len(s) \in Nat /\ DOMAIN s = 1 .. Len(s)
      /\ \A i, j \in 1 .. Len(s) : s[i] = s[j] => i = j
  BY LenProperties DEF IsList, IsInjective
<1>2. n \in 1 .. Len(s) /\ s[n] = k
  BY DEF Has, Contains
<1> HIDE DEF n
<1>3. \A i \in 1 .. Len(s) : s[i] \in Keys
  BY <1>1, ElementOfSeq
<1>4. /\ a \in Seq(Keys) /\ Len(a) = n - 1 /\ \A i \in 1 .. n - 1 : a[i] = s[i]
  <2>1. \A i \in 1 .. n - 1 : s[i] \in Keys
    BY <1>1, <1>2, <1>3
  <2>2. n - 1 \in Int /\ (1 <= n - 1 \/ n - 1 = 0) /\ n \in Int
    BY <1>1, <1>2
  <2>3. \A i \in Int : 1 + i - 1 = i
    OBVIOUS
  <2> QED BY <2>1, <2>2, <2>3, SubSeqProperties
<1>5. /\ b \in Seq(Keys) /\ Len(b) = Len(s) - n
      /\ \A i \in 1 .. Len(s) - n : b[i] = s[n + i]
  <2>1. \A i \in n + 1 .. Len(s) : s[i] \in Keys
    BY <1>1, <1>2, <1>3
  <2>2. n + 1 \in Int /\ Len(s) \in Int
    BY <1>1, <1>2
  <2> DEFINE m == n + 1
  <2>3. m \in Int /\ (m <= Len(s) \/ m = Len(s) + 1)
    BY <1>1, <1>2
  <2> HIDE DEF m
  <2>4. /\ SubSeq(s, m, Len(s)) \in Seq(Keys)
        /\ Len(SubSeq(s, m, Len(s))) = IF m <= Len(s) THEN Len(s) - m + 1 ELSE 0
        /\ \A i \in 1 .. Len(s) - m + 1 : SubSeq(s, m, Len(s))[i] = s[m + i - 1]
    BY <2>1, <2>2, SubSeqProperties DEF m
  <2>5. b = SubSeq(s, m, Len(s))
    BY DEF m
  <2> HIDE DEF b
  <2>6. Len(b) = Len(s) - m + 1
    BY <1>1, <2>3, <2>4, <2>5
  <2>7. \A i \in 1 .. Len(s) - m + 1 : b[i] = s[m + i - 1]
    BY <2>4, <2>5
  <2>8. Len(s) - m + 1 = Len(s) - n /\ \A i \in Int : m + i - 1 = n + i
    BY <1>1, <1>2 DEF m
  <2>9. ASSUME NEW i \in 1 .. Len(s) - n PROVE b[i] = s[n + i]
    <3>1. i \in 1 .. Len(s) - m + 1 /\ m + i - 1 = n + i
      BY <2>8
    <3> QED BY <2>7, <3>1
  <2> QED BY <2>4, <2>5, <2>6, <2>8, <2>9
<1> HIDE DEF a, b
<1>6. /\ t \in Seq(Keys) /\ Len(t) = Len(s) - 1
      /\ \A i \in 1 .. Len(s) - 1 : t[i] = IF i <= n - 1 THEN s[i] ELSE s[i + 1]
  <2>1. /\ t \in Seq(Keys) /\ Len(t) = Len(a) + Len(b)
        /\ \A i \in 1 .. Len(a) + Len(b) :
             t[i] = IF i <= Len(a) THEN a[i] ELSE b[i - Len(a)]
    BY <1>4, <1>5, ConcatProperties
  <2>2. Len(t) = Len(s) - 1
    BY <1>1, <1>2, <1>4, <1>5, <2>1
  <2>3. ASSUME NEW i \in 1 .. Len(s) - 1, i <= n - 1 PROVE t[i] = s[i]
    BY <1>1, <1>2, <1>4, <1>5, <2>1, <2>3
  <2>4. ASSUME NEW i \in 1 .. Len(s) - 1, ~(i <= n - 1) PROVE t[i] = s[i + 1]
    <3>1. i - (n - 1) \in 1 .. Len(s) - n /\ n + (i - (n - 1)) = i + 1
      BY <1>1, <1>2, <2>4
    <3>2. t[i] = b[i - (n - 1)]
      BY <1>1, <1>2, <1>4, <1>5, <2>1, <2>4
    <3> QED BY <1>5, <3>1, <3>2
  <2> QED BY <2>1, <2>2, <2>3, <2>4
<1>7. DOMAIN t = 1 .. Len(s) - 1
  BY <1>6, LenProperties
<1> HIDE DEF t
<1>8. IsInjective(t)
  <2> SUFFICES ASSUME NEW i \in 1 .. Len(s) - 1, NEW j \in 1 .. Len(s) - 1,
                      t[i] = t[j]
               PROVE  i = j
    BY <1>7 DEF IsInjective
  <2> DEFINE place(x) == IF x <= n - 1 THEN x ELSE x + 1
  <2>1. place(i) \in 1 .. Len(s) /\ place(j) \in 1 .. Len(s)
    BY <1>1, <1>2
  <2>2. s[place(i)] = s[place(j)]
    BY <1>6
  <2>3. place(i) = place(j)
    BY <1>1, <2>1, <2>2
  <2> QED BY <1>2, <2>3
<1>9. ToSet(t) = ToSet(s) \ {k}
  <2>1. ASSUME NEW i \in 1 .. Len(s) - 1
        PROVE  t[i] \in ToSet(s) \ {k}
    <3> DEFINE p == IF i <= n - 1 THEN i ELSE i + 1
    <3>1. p \in 1 .. Len(s) /\ p # n
      BY <1>1, <1>2
    <3>2. t[i] = s[p]
      BY <1>6
    <3> QED BY <1>1, <1>2, <3>1, <3>2 DEF ToSet
  <2>2. ASSUME NEW i \in 1 .. Len(s), s[i] # k
        PROVE  \E j \in 1 .. Len(s) - 1 : t[j] = s[i]
    <3> DEFINE j == IF i <= n - 1 THEN i ELSE i - 1
    <3>1. j \in 1 .. Len(s) - 1 /\ (IF j <= n - 1 THEN j ELSE j + 1) = i
      BY <1>1, <1>2, <2>2
    <3> QED BY <1>6, <3>1
  <2>3. /\ ToSet(t) = {t[j] : j \in 1 .. Len(s) - 1}
        /\ ToSet(s) = {s[i] : i \in 1 .. Len(s)}
    BY <1>1, <1>7 DEF ToSet
  <2>4. ToSet(t) \subseteq ToSet(s) \ {k}
    <3>1. \A x \in ToSet(t) : \E j \in 1 .. Len(s) - 1 : x = t[j]
      BY <2>3
    <3> QED BY <2>1, <3>1
  <2>5. ToSet(s) \ {k} \subseteq ToSet(t)
    <3>1. \A x \in ToSet(s) : \E i \in 1 .. Len(s) : x = s[i]
      BY <2>3
    <3>2. \A j \in 1 .. Len(s) - 1 : t[j] \in ToSet(t)
      BY <2>3
    <3> QED BY <2>2, <3>1, <3>2
  <2> QED BY <2>4, <2>5
<1>10. Without(s, k) = t
  BY DEF Without, RemoveAt, t, a, b, n
<1>11. k \in ToSet(s)
  BY <1>1, <1>2 DEF ToSet
<1> QED BY <1>6, <1>8, <1>9, <1>10, <1>11 DEF IsList

\* Moving a key to the end of its list.
LEMMA MovedList ==
  ASSUME NEW s, IsList(s), NEW k \in Keys, Has(s, k)
  PROVE  /\ IsList(MoveToEnd(s, k)) /\ Len(MoveToEnd(s, k)) = Len(s)
         /\ ToSet(MoveToEnd(s, k)) = ToSet(s)
<1> DEFINE w == Without(s, k)
<1>1. IsList(w) /\ Len(w) = Len(s) - 1 /\ ToSet(w) = ToSet(s) \ {k} /\ k \in ToSet(s)
  BY WithoutList
<1>2. k \notin ToSet(w)
  BY <1>1
<1>3. MoveToEnd(s, k) = Append(w, k)
  BY DEF MoveToEnd
<1> HIDE DEF w
<1>4. /\ IsList(Append(w, k)) /\ ToSet(Append(w, k)) = ToSet(w) \cup {k}
      /\ Len(Append(w, k)) = Len(w) + 1
  BY <1>1, <1>2, AppendList
<1>5. Len(s) \in Nat
  BY LenProperties DEF IsList
<1> QED BY <1>1, <1>3, <1>4, <1>5

LEMMA HasIs ==
  ASSUME NEW s \in Seq(Keys), NEW k
  PROVE  Has(s, k) <=> k \in ToSet(s)
BY LenProperties DEF Has, Contains, ToSet

\* The fields of a cache with the given lists.
LEMMA ShapeOf ==
  ASSUME NEW p \in 0 .. Capacity, NEW rt, NEW rb, NEW ft, NEW fb,
         IsList(rt), IsList(rb), IsList(ft), IsList(fb),
         Apart(ToSet(rt), ToSet(rb), ToSet(ft), ToSet(fb)), Len(rb) <= Capacity,
         NEW c, c = [p_value |-> p, recent_top |-> rt, recent_bottom |-> rb,
                     frequent_top |-> ft, frequent_bottom |-> fb]
  PROVE  Shape(c)
BY DEF Shape, CacheType, IsList

-------------------------------------------------------------------------------
(* insert and get_refresh *)

\* replace_helper takes one key from a list that has one, whatever it ends in.
LEMMA ReplaceSound ==
  ASSUME NEW c, Shape(c), NEW was \in BOOLEAN,
         Len(c.recent_top) + Len(c.frequent_top) <= Capacity + 1,
         Len(c.recent_top) <= c.p_value => c.frequent_top # <<>>
  PROVE  /\ Sound(Replace(c, was).to)
         /\ Replace(c, was).end \in {"ok", "loops"}
<1> DEFINE rt == c.recent_top
           rb == c.recent_bottom
           ft == c.frequent_top
           fb == c.frequent_bottom
           p == c.p_value
           recent == Len(rt) > p \/ (Len(rt) = p /\ Len(rt) > 0 /\ was)
           r == Replace(c, was)
<1>1. /\ IsList(rt) /\ IsList(rb) /\ IsList(ft) /\ IsList(fb)
      /\ Apart(ToSet(rt), ToSet(rb), ToSet(ft), ToSet(fb))
      /\ Len(rb) <= Capacity /\ p \in 0 .. Capacity
      /\ c = [p_value |-> p, recent_top |-> rt, recent_bottom |-> rb,
              frequent_top |-> ft, frequent_bottom |-> fb]
  BY DEF Shape, CacheType
<1>2. /\ Len(rt) \in Nat /\ Len(ft) \in Nat
      /\ (rt = <<>> => Len(rt) = 0) /\ (ft = <<>> => Len(ft) = 0)
      /\ Capacity \in Nat \ {0} /\ Len(rt) + Len(ft) <= Capacity + 1
  BY <1>1, LenProperties, EmptySeq, CapacityAssumption DEF IsList
<1>3. CASE recent
  <2> DEFINE h == Head(rt)
             t == Trimmed(rb)
  <2>1. rt # <<>>
    BY <1>1, <1>2, <1>3
  <2>2. /\ IsList(Tail(rt)) /\ Len(Tail(rt)) = Len(rt) - 1
        /\ ToSet(Tail(rt)) = ToSet(rt) \ {h} /\ h \in ToSet(rt) /\ h \in Keys
    BY <1>1, <2>1, TailList
  <2>3. IsList(t) /\ Len(t) <= Capacity - 1 /\ ToSet(t) \subseteq ToSet(rb)
    BY <1>1, TrimmedList
  <2>4. /\ r.end = "ok"
        /\ r.to = [p_value |-> p, recent_top |-> Tail(rt),
                   recent_bottom |-> Append(t, h), frequent_top |-> ft,
                   frequent_bottom |-> fb]
    BY <1>1, <1>3 DEF Replace
  <2> HIDE DEF rt, rb, ft, fb, p, h, t, r, recent
  <2>5. h \notin ToSet(t)
    BY <1>1, <2>2, <2>3 DEF Apart
  <2>6. /\ IsList(Append(t, h)) /\ ToSet(Append(t, h)) = ToSet(t) \cup {h}
        /\ Len(Append(t, h)) = Len(t) + 1
    BY <2>2, <2>3, <2>5, AppendList
  <2>7. Apart(ToSet(Tail(rt)), ToSet(Append(t, h)), ToSet(ft), ToSet(fb))
    BY <1>1, <2>2, <2>3, <2>6 DEF Apart
  <2>8. Len(t) \in Nat
    BY <2>3, LenProperties DEF IsList
  <2>9. Len(Append(t, h)) <= Capacity
    BY <1>2, <2>3, <2>6, <2>8
  <2>10. Shape(r.to)
    BY <1>1, <2>2, <2>4, <2>6, <2>7, <2>9, ShapeOf
  <2>11. Len(Tail(rt)) + Len(ft) <= Capacity
    <3> DEFINE x == Len(Tail(rt))
               a == Len(rt)
               b == Len(ft)
    <3>1. /\ a \in Nat /\ b \in Nat /\ Capacity \in Nat
          /\ a + b <= Capacity + 1 /\ x = a - 1
      BY <1>2, <2>2
    <3> HIDE DEF x, a, b
    <3>2. x + b <= Capacity
      BY <3>1
    <3> QED BY <3>2 DEF x, b
  <2> QED BY <2>4, <2>10, <2>11 DEF Sound, r
<1>4. CASE ~recent
  <2> DEFINE h == Head(ft)
  <2>1. ft # <<>>
    BY <1>1, <1>2, <1>4
  <2>2. /\ IsList(Tail(ft)) /\ Len(Tail(ft)) = Len(ft) - 1
        /\ ToSet(Tail(ft)) = ToSet(ft) \ {h} /\ h \in ToSet(ft) /\ h \in Keys
    BY <1>1, <2>1, TailList
  <2>3. Len(rt) + Len(Tail(ft)) <= Capacity
    <3> HIDE DEF rt, ft
    <3> QED BY <1>2, <2>2
  <2>4. CASE Capacity <= Len(ft) - 1
    <3>1. /\ r.end = "loops"
          /\ r.to = [p_value |-> p, recent_top |-> rt, recent_bottom |-> rb,
                     frequent_top |-> Tail(ft), frequent_bottom |-> <<>>]
      BY <1>1, <1>4, <2>1, <2>4 DEF Replace
    <3> HIDE DEF rt, rb, ft, fb, p, h, r, recent
    <3>2. IsList(<<>>) /\ ToSet(<<>>) = {}
      BY EmptySeq DEF IsList, IsInjective, ToSet
    <3>3. Apart(ToSet(rt), ToSet(rb), ToSet(Tail(ft)), ToSet(<<>>))
      BY <1>1, <2>2, <3>2 DEF Apart
    <3>4. Shape(r.to)
      BY <1>1, <2>2, <3>1, <3>2, <3>3, ShapeOf
    <3> QED BY <2>3, <3>1, <3>4 DEF Sound, r
  <2>5. CASE ~(Capacity <= Len(ft) - 1)
    <3>1. /\ r.end = "ok"
          /\ r.to = [p_value |-> p, recent_top |-> rt, recent_bottom |-> rb,
                     frequent_top |-> Tail(ft), frequent_bottom |-> Append(fb, h)]
      BY <1>1, <1>4, <2>1, <2>5 DEF Replace
    <3> HIDE DEF rt, rb, ft, fb, p, h, r, recent
    <3>2. h \notin ToSet(fb)
      BY <1>1, <2>2 DEF Apart
    <3>3. IsList(Append(fb, h)) /\ ToSet(Append(fb, h)) = ToSet(fb) \cup {h}
      BY <1>1, <2>2, <3>2, AppendList
    <3>4. Apart(ToSet(rt), ToSet(rb), ToSet(Tail(ft)), ToSet(Append(fb, h)))
      BY <1>1, <2>2, <3>3 DEF Apart
    <3>5. Shape(r.to)
      BY <1>1, <2>2, <3>1, <3>3, <3>4, ShapeOf
    <3> QED BY <2>3, <3>1, <3>5 DEF Sound, r
  <2> QED BY <2>4, <2>5
<1> QED BY <1>3, <1>4

\* The cache of the given fields.
CacheOf(p, rt, rb, ft, fb) ==
  [p_value |-> p, recent_top |-> rt, recent_bottom |-> rb,
   frequent_top |-> ft, frequent_bottom |-> fb]

LEMMA ShapeFrom ==
  ASSUME NEW p \in 0 .. Capacity, NEW rt, NEW rb, NEW ft, NEW fb,
         IsList(rt), IsList(rb), IsList(ft), IsList(fb),
         Apart(ToSet(rt), ToSet(rb), ToSet(ft), ToSet(fb)), Len(rb) <= Capacity
  PROVE  Shape(CacheOf(p, rt, rb, ft, fb))
BY ShapeOf DEF CacheOf

\* What is in none of the lists can be added to one.
LEMMA InsertSound ==
  ASSUME NEW c, Sound(c), NEW k \in Keys
  PROVE  /\ Sound(Insert(c, k).to)
         /\ Insert(c, k).end \in {"ok", "loops", "div_zero"}
<1> DEFINE rt == c.recent_top
           rb == c.recent_bottom
           ft == c.frequent_top
           fb == c.frequent_bottom
           p == c.p_value
           i == Insert(c, k)
<1>1. /\ IsList(rt) /\ IsList(rb) /\ IsList(ft) /\ IsList(fb)
      /\ Apart(ToSet(rt), ToSet(rb), ToSet(ft), ToSet(fb))
      /\ Len(rb) <= Capacity /\ p \in 0 .. Capacity
      /\ Len(rt) + Len(ft) <= Capacity /\ c = CacheOf(p, rt, rb, ft, fb)
  BY DEF Sound, Shape, CacheType, CacheOf
<1>2. /\ Len(rt) \in Nat /\ Len(rb) \in Nat /\ Len(ft) \in Nat /\ Len(fb) \in Nat
      /\ Capacity \in Nat \ {0}
  BY <1>1, LenProperties, CapacityAssumption DEF IsList
<1>3. /\ Has(rt, k) <=> k \in ToSet(rt)
      /\ Has(rb, k) <=> k \in ToSet(rb)
      /\ Has(ft, k) <=> k \in ToSet(ft)
      /\ Has(fb, k) <=> k \in ToSet(fb)
  BY <1>1, HasIs DEF IsList
<1>5. CASE Has(rt, k)
  <2>1. /\ IsList(MoveToEnd(rt, k)) /\ Len(MoveToEnd(rt, k)) = Len(rt)
        /\ ToSet(MoveToEnd(rt, k)) = ToSet(rt)
    BY <1>1, <1>5, MovedList
  <2>2. i.end = "ok" /\ i.to = CacheOf(p, MoveToEnd(rt, k), rb, ft, fb)
    BY <1>1, <1>5 DEF Insert, CacheOf
  <2> HIDE DEF rt, rb, ft, fb, p, i
  <2>3. Shape(i.to)
    BY <1>1, ShapeFrom, <2>1, <2>2
  <2>4. i.to.recent_top = MoveToEnd(rt, k) /\ i.to.frequent_top = ft
    BY <2>2 DEF CacheOf
  <2>5. Len(i.to.recent_top) + Len(i.to.frequent_top) <= Capacity
    BY <1>1, <2>1, <2>4
  <2> QED BY <2>2, <2>3, <2>5 DEF Sound, i
<1>6. CASE ~Has(rt, k) /\ Has(ft, k)
  <2>1. /\ IsList(MoveToEnd(ft, k)) /\ Len(MoveToEnd(ft, k)) = Len(ft)
        /\ ToSet(MoveToEnd(ft, k)) = ToSet(ft)
    BY <1>1, <1>6, MovedList
  <2>2. i.end = "ok" /\ i.to = CacheOf(p, rt, rb, MoveToEnd(ft, k), fb)
    BY <1>1, <1>6 DEF Insert, CacheOf
  <2> HIDE DEF rt, rb, ft, fb, p, i
  <2>3. Shape(i.to)
    BY <1>1, ShapeFrom, <2>1, <2>2
  <2>4. i.to.frequent_top = MoveToEnd(ft, k) /\ i.to.recent_top = rt
    BY <2>2 DEF CacheOf
  <2>5. Len(i.to.recent_top) + Len(i.to.frequent_top) <= Capacity
    BY <1>1, <2>1, <2>4
  <2> QED BY <2>2, <2>3, <2>5 DEF Sound, i
<1>7. CASE ~Has(rt, k) /\ ~Has(ft, k) /\ Has(fb, k)
  <2> DEFINE b == Without(fb, k)
             m == Len(rb)
             d == Delta(m, Len(b))
             q == IF d <= p THEN p - d ELSE 0
             t == CacheOf(q, rt, rb, Append(ft, k), b)
  <2>1. /\ IsList(b) /\ Len(b) = Len(fb) - 1 /\ ToSet(b) = ToSet(fb) \ {k}
    BY <1>1, <1>7, WithoutList
  <2>2. i = PlaceFrequent(c, k)
    BY <1>7 DEF Insert
  <2>3. CASE m > 0 /\ b = <<>>
    <3>1. i.end = "div_zero" /\ i.to = CacheOf(p, rt, rb, ft, b)
      BY <1>1, <2>2, <2>3 DEF PlaceFrequent, CacheOf
    <3> HIDE DEF rt, rb, ft, fb, p, i, b
    <3>2. Apart(ToSet(rt), ToSet(rb), ToSet(ft), ToSet(b))
      BY <1>1, <2>1 DEF Apart
    <3>3. Shape(i.to)
      BY <1>1, ShapeFrom, <2>1, <3>1, <3>2
    <3>4. i.to.recent_top = rt /\ i.to.frequent_top = ft
      BY <3>1 DEF CacheOf
    <3>5. Len(i.to.recent_top) + Len(i.to.frequent_top) <= Capacity
      BY <1>1, <3>4
    <3> QED BY <3>1, <3>3, <3>5 DEF Sound, i
  <2>4. CASE ~(m > 0 /\ b = <<>>)
    <3>0. t = [c EXCEPT !.frequent_bottom = b, !.p_value = q,
                        !.frequent_top = Append(@, k)]
      <4> DEFINE a == Append(ft, k)
      <4>0. a = Append(c.frequent_top, k)
        OBVIOUS
      <4>1. c = CacheOf(p, rt, rb, ft, fb)
        BY <1>1
      <4> HIDE DEF b, q, rt, rb, ft, fb, p, a
      <4> DEFINE c1 == [c EXCEPT !.frequent_bottom = b]
                 c2 == [c1 EXCEPT !.p_value = q]
      <4>2. c1 = CacheOf(p, rt, rb, ft, b)
        BY <4>1 DEF CacheOf
      <4> HIDE DEF c1
      <4>3. c2 = CacheOf(q, rt, rb, ft, b)
        BY <4>2 DEF CacheOf
      <4> HIDE DEF c2
      <4>4. [c2 EXCEPT !.frequent_top = a] = CacheOf(q, rt, rb, a, b)
        BY <4>3 DEF CacheOf
      <4> QED BY <4>0, <4>4 DEF a, c1, c2
    <3>1. i = Replace(t, TRUE)
      <4> HIDE DEF t, i
      <4> QED BY <2>2, <2>4, <3>0 DEF PlaceFrequent
    <3> HIDE DEF rt, rb, ft, fb, p, i, b
    <3>2. q \in 0 .. Capacity
      <4>1. Len(b) \in Nat /\ (Len(b) = 0 => b = <<>>)
        BY <2>1, LenProperties, EmptySeq DEF IsList
      <4>2. d \in Nat
        BY <1>2, <2>4, <4>1 DEF Delta
      <4> HIDE DEF d
      <4> QED BY <1>1, <1>2, <4>2
    <3>3. /\ IsList(Append(ft, k)) /\ ToSet(Append(ft, k)) = ToSet(ft) \cup {k}
          /\ Len(Append(ft, k)) = Len(ft) + 1
      BY <1>1, <1>3, <1>7, AppendList
    <3>4. Apart(ToSet(rt), ToSet(rb), ToSet(Append(ft, k)), ToSet(b))
      BY <1>1, <1>3, <1>7, <2>1, <3>3 DEF Apart
    <3> HIDE DEF q
    <3>5. Shape(t)
      BY <1>1, ShapeFrom, <2>1, <3>2, <3>3, <3>4
    <3>6. /\ Len(t.recent_top) + Len(t.frequent_top) <= Capacity + 1
          /\ t.frequent_top # <<>>
      <4> DEFINE a == Append(ft, k)
      <4>1. t.recent_top = rt /\ t.frequent_top = a
        BY DEF CacheOf
      <4>2. /\ Len(a) = Len(ft) + 1
            /\ a = <<>> => Len(a) = 0
        BY <3>3, EmptySeq
      <4> HIDE DEF a, t
      <4> QED BY <1>1, <1>2, <4>1, <4>2
    <3> HIDE DEF t
    <3>7. Sound(Replace(t, TRUE).to) /\ Replace(t, TRUE).end \in {"ok", "loops"}
      BY <3>5, <3>6, ReplaceSound
    <3> QED BY <3>1, <3>7 DEF i
  <2> QED BY <2>3, <2>4
<1>8. CASE ~Has(rt, k) /\ ~Has(ft, k) /\ ~Has(fb, k) /\ Has(rb, k)
  <2> DEFINE b == Without(rb, k)
             m == Len(fb)
             d == p + Delta(m, Len(b))
             q == IF Capacity < d THEN Capacity ELSE d
             t == CacheOf(q, rt, b, Append(ft, k), fb)
  <2>1. /\ IsList(b) /\ Len(b) = Len(rb) - 1 /\ ToSet(b) = ToSet(rb) \ {k}
    BY <1>1, <1>8, WithoutList
  <2>2. i = PlaceRecent(c, k)
    BY <1>8 DEF Insert
  <2>3. Len(b) <= Capacity
    <3> HIDE DEF rb, b
    <3> QED BY <1>1, <1>2, <2>1
  <2>4. CASE m > 0 /\ b = <<>>
    <3>1. i.end = "div_zero" /\ i.to = CacheOf(p, rt, b, ft, fb)
      BY <1>1, <2>2, <2>4 DEF PlaceRecent, CacheOf
    <3> HIDE DEF rt, rb, ft, fb, p, i, b
    <3>2. Apart(ToSet(rt), ToSet(b), ToSet(ft), ToSet(fb))
      BY <1>1, <2>1 DEF Apart
    <3>3. Shape(i.to)
      BY <1>1, ShapeFrom, <2>1, <2>3, <3>1, <3>2
    <3>4. i.to.recent_top = rt /\ i.to.frequent_top = ft
      BY <3>1 DEF CacheOf
    <3>5. Len(i.to.recent_top) + Len(i.to.frequent_top) <= Capacity
      BY <1>1, <3>4
    <3> QED BY <3>1, <3>3, <3>5 DEF Sound, i
  <2>5. CASE ~(m > 0 /\ b = <<>>)
    <3>0. t = [c EXCEPT !.recent_bottom = b, !.p_value = q,
                        !.frequent_top = Append(@, k)]
      <4> DEFINE a == Append(ft, k)
      <4>0. a = Append(c.frequent_top, k)
        OBVIOUS
      <4>1. c = CacheOf(p, rt, rb, ft, fb)
        BY <1>1
      <4> HIDE DEF b, q, rt, rb, ft, fb, p, a
      <4> DEFINE c1 == [c EXCEPT !.recent_bottom = b]
                 c2 == [c1 EXCEPT !.p_value = q]
      <4>2. c1 = CacheOf(p, rt, b, ft, fb)
        BY <4>1 DEF CacheOf
      <4> HIDE DEF c1
      <4>3. c2 = CacheOf(q, rt, b, ft, fb)
        BY <4>2 DEF CacheOf
      <4> HIDE DEF c2
      <4>4. [c2 EXCEPT !.frequent_top = a] = CacheOf(q, rt, b, a, fb)
        BY <4>3 DEF CacheOf
      <4> QED BY <4>0, <4>4 DEF a, c1, c2
    <3>1. i = Replace(t, FALSE)
      <4> HIDE DEF t, i
      <4> QED BY <2>2, <2>5, <3>0 DEF PlaceRecent
    <3> HIDE DEF rt, rb, ft, fb, p, i, b
    <3>2. q \in 0 .. Capacity
      <4>1. Len(b) \in Nat /\ (Len(b) = 0 => b = <<>>)
        BY <2>1, LenProperties, EmptySeq DEF IsList
      <4>2. Delta(m, Len(b)) \in Nat
        BY <1>2, <2>5, <4>1 DEF Delta
      <4>3. d \in Nat
        BY <1>1, <1>2, <4>2
      <4> HIDE DEF d
      <4> QED BY <1>2, <4>3
    <3>3. /\ IsList(Append(ft, k)) /\ ToSet(Append(ft, k)) = ToSet(ft) \cup {k}
          /\ Len(Append(ft, k)) = Len(ft) + 1
      BY <1>1, <1>3, <1>8, AppendList
    <3>4. Apart(ToSet(rt), ToSet(b), ToSet(Append(ft, k)), ToSet(fb))
      BY <1>1, <1>3, <1>8, <2>1, <3>3 DEF Apart
    <3> HIDE DEF q
    <3>5. Shape(t)
      BY <1>1, ShapeFrom, <2>1, <2>3, <3>2, <3>3, <3>4
    <3>6. /\ Len(t.recent_top) + Len(t.frequent_top) <= Capacity + 1
          /\ t.frequent_top # <<>>
      <4> DEFINE a == Append(ft, k)
      <4>1. t.recent_top = rt /\ t.frequent_top = a
        BY DEF CacheOf
      <4>2. /\ Len(a) = Len(ft) + 1
            /\ a = <<>> => Len(a) = 0
        BY <3>3, EmptySeq
      <4> HIDE DEF a, t
      <4> QED BY <1>1, <1>2, <4>1, <4>2
    <3> HIDE DEF t
    <3>7. Sound(Replace(t, FALSE).to) /\ Replace(t, FALSE).end \in {"ok", "loops"}
      BY <3>5, <3>6, ReplaceSound
    <3> QED BY <3>1, <3>7 DEF i
  <2> QED BY <2>4, <2>5
<1>9. CASE ~Has(rt, k) /\ ~Has(ft, k) /\ ~Has(fb, k) /\ ~Has(rb, k)
  <2> DEFINE t == CacheOf(p, Append(rt, k), rb, ft, fb)
  <2>1. i = PlaceNew(c, k)
    BY <1>9 DEF Insert
  <2>2. /\ IsList(Append(rt, k)) /\ ToSet(Append(rt, k)) = ToSet(rt) \cup {k}
        /\ Len(Append(rt, k)) = Len(rt) + 1
    BY <1>1, <1>3, <1>9, AppendList
  <2>3. Apart(ToSet(Append(rt, k)), ToSet(rb), ToSet(ft), ToSet(fb))
    <3> HIDE DEF rt, rb, ft, fb
    <3> QED BY <1>1, <1>3, <1>9, <2>2 DEF Apart
  <2>4. i = IF Len(t.recent_top) + Len(t.frequent_top) > Capacity
            THEN Replace(t, FALSE) ELSE [to |-> t, end |-> "ok"]
    <3>1. t = [c EXCEPT !.recent_top = Append(@, k)]
      <4> DEFINE a == Append(rt, k)
      <4>1. a = Append(c.recent_top, k)
        OBVIOUS
      <4>2. c = CacheOf(p, rt, rb, ft, fb)
        BY <1>1
      <4> HIDE DEF rt, rb, ft, fb, p, a
      <4>3. [c EXCEPT !.recent_top = a] = CacheOf(p, a, rb, ft, fb)
        BY <4>2 DEF CacheOf
      <4> QED BY <4>1, <4>3 DEF a
    <3> HIDE DEF t, i
    <3> QED BY <2>1, <3>1 DEF PlaceNew
  <2> HIDE DEF rt, rb, ft, fb, p, i
  <2>5. Shape(t)
    BY <1>1, ShapeFrom, <2>2, <2>3
  <2>6. /\ t.recent_top = Append(rt, k) /\ t.frequent_top = ft /\ t.p_value = p
        /\ Len(t.recent_top) + Len(t.frequent_top) <= Capacity + 1
    BY <1>1, <1>2, <2>2 DEF CacheOf
  <2> HIDE DEF t
  <2>7. CASE Len(t.recent_top) + Len(t.frequent_top) > Capacity
    <3>1. Len(t.recent_top) <= t.p_value => t.frequent_top # <<>>
      BY <1>1, <1>2, <2>2, <2>6, <2>7, EmptySeq
    <3>2. Sound(Replace(t, FALSE).to) /\ Replace(t, FALSE).end \in {"ok", "loops"}
      BY <2>5, <2>6, <3>1, ReplaceSound
    <3> QED BY <2>4, <2>7, <3>2 DEF i
  <2>8. CASE ~(Len(t.recent_top) + Len(t.frequent_top) > Capacity)
    <3>1. i.to = t /\ i.end = "ok"
      BY <2>4, <2>8
    <3>2. Len(t.recent_top) + Len(t.frequent_top) <= Capacity
      BY <1>2, <2>2, <2>6, <2>8
    <3> QED BY <2>5, <3>1, <3>2 DEF Sound, i
  <2> QED BY <2>7, <2>8
<1> QED BY <1>5, <1>6, <1>7, <1>8, <1>9

\* A lookup moves a key from one list to the end of another, or within one.
LEMMA RefreshSound ==
  ASSUME NEW c, Sound(c), NEW k \in Keys
  PROVE  Sound(Refresh(c, k).to) /\ Refresh(c, k).end = "ok"
<1> DEFINE rt == c.recent_top
           rb == c.recent_bottom
           ft == c.frequent_top
           fb == c.frequent_bottom
           p == c.p_value
           i == Refresh(c, k)
<1>1. /\ IsList(rt) /\ IsList(rb) /\ IsList(ft) /\ IsList(fb)
      /\ Apart(ToSet(rt), ToSet(rb), ToSet(ft), ToSet(fb))
      /\ Len(rb) <= Capacity /\ p \in 0 .. Capacity
      /\ Len(rt) + Len(ft) <= Capacity /\ c = CacheOf(p, rt, rb, ft, fb)
  BY DEF Sound, Shape, CacheType, CacheOf
<1>2. Len(rt) \in Nat /\ Len(ft) \in Nat
  BY <1>1, LenProperties DEF IsList
<1>3. /\ Has(rt, k) <=> k \in ToSet(rt)
      /\ Has(ft, k) <=> k \in ToSet(ft)
  BY <1>1, HasIs DEF IsList
<1>4. CASE Has(rt, k)
  <2> DEFINE w == Without(rt, k)
             a == Append(ft, k)
  <2>1. ~Has(ft, k)
    BY <1>1, <1>3, <1>4 DEF Apart
  <2>2. IsList(w) /\ Len(w) = Len(rt) - 1 /\ ToSet(w) = ToSet(rt) \ {k}
    BY <1>1, <1>4, WithoutList
  <2>3. IsList(a) /\ ToSet(a) = ToSet(ft) \cup {k} /\ Len(a) = Len(ft) + 1
    BY <1>1, <1>3, <2>1, AppendList
  <2>4. i.end = "ok" /\ i.to = CacheOf(p, w, rb, a, fb)
    BY <1>1, <1>4, <2>1 DEF Refresh, CacheOf
  <2>5. k \in ToSet(rt)
    BY <1>3, <1>4
  <2> HIDE DEF rt, rb, ft, fb, p, i, w, a
  <2>6. Apart(ToSet(w), ToSet(rb), ToSet(a), ToSet(fb))
    BY <1>1, <2>2, <2>3, <2>5 DEF Apart
  <2>7. Shape(i.to)
    <3>1. /\ IsList(w) /\ IsList(rb) /\ IsList(a) /\ IsList(fb)
          /\ Len(rb) <= Capacity /\ p \in 0 .. Capacity
      BY <1>1, <2>2, <2>3
    <3>2. Shape(CacheOf(p, w, rb, a, fb))
      BY <2>6, <3>1, ShapeFrom
    <3> QED BY <2>4, <3>2
  <2>8. i.to.recent_top = w /\ i.to.frequent_top = a
    BY <2>4 DEF CacheOf
  <2>9. Len(i.to.recent_top) + Len(i.to.frequent_top) <= Capacity
    BY <1>1, <1>2, <2>2, <2>3, <2>8
  <2> QED BY <2>4, <2>7, <2>9 DEF Sound, i
<1>5. CASE ~Has(rt, k) /\ Has(ft, k)
  <2>1. /\ IsList(MoveToEnd(ft, k)) /\ Len(MoveToEnd(ft, k)) = Len(ft)
        /\ ToSet(MoveToEnd(ft, k)) = ToSet(ft)
    BY <1>1, <1>5, MovedList
  <2>2. i.end = "ok" /\ i.to = CacheOf(p, rt, rb, MoveToEnd(ft, k), fb)
    BY <1>1, <1>5 DEF Refresh, CacheOf
  <2> HIDE DEF rt, rb, ft, fb, p, i
  <2>3. Shape(i.to)
    BY <1>1, ShapeFrom, <2>1, <2>2
  <2>4. i.to.frequent_top = MoveToEnd(ft, k) /\ i.to.recent_top = rt
    BY <2>2 DEF CacheOf
  <2>5. Len(i.to.recent_top) + Len(i.to.frequent_top) <= Capacity
    BY <1>1, <2>1, <2>4
  <2> QED BY <2>2, <2>3, <2>5 DEF Sound, i
<1>6. CASE ~Has(rt, k) /\ ~Has(ft, k)
  BY <1>6 DEF Refresh
<1> QED BY <1>4, <1>5, <1>6

-------------------------------------------------------------------------------
(* The invariant *)

CacheInv ==
  /\ Sound(cache)
  /\ outcome \in {"ok", "loops", "div_zero"}

LEMMA InitSound ==
  Init => CacheInv
<1> SUFFICES ASSUME Init PROVE CacheInv
  OBVIOUS
<1> DEFINE none == <<>>
<1>1. /\ none \in Seq(Keys) /\ IsInjective(none) /\ ToSet(none) = {} /\ Len(none) = 0
  BY EmptySeq DEF IsInjective, ToSet
<1>2. cache = CacheOf(0, none, none, none, none) /\ outcome = "ok"
  BY DEF Init, CacheOf
<1> HIDE DEF none
<1>3. 0 \in 0 .. Capacity /\ 0 <= Capacity
  BY CapacityAssumption
<1>4. IsList(none) /\ Apart(ToSet(none), ToSet(none), ToSet(none), ToSet(none))
  BY <1>1 DEF IsList, Apart
<1>5. Shape(cache)
  BY <1>1, <1>2, <1>3, <1>4, ShapeFrom
<1>6. cache.recent_top = none /\ cache.frequent_top = none
  BY <1>2 DEF CacheOf
<1>7. Len(cache.recent_top) + Len(cache.frequent_top) <= Capacity
  BY <1>1, <1>3, <1>6
<1> QED BY <1>2, <1>5, <1>7 DEF CacheInv, Sound

LEMMA NextSound ==
  CacheInv /\ [Next]_vars => CacheInv'
<1> SUFFICES ASSUME CacheInv, [Next]_vars PROVE CacheInv'
  OBVIOUS
<1>1. CASE UNCHANGED vars
  BY <1>1 DEF vars, CacheInv
<1>2. ASSUME NEW k \in Keys, insert(k) PROVE CacheInv'
  <2>1. cache' = Insert(cache, k).to /\ outcome' = Insert(cache, k).end
    BY <1>2 DEF insert
  <2>2. Sound(cache)
    BY DEF CacheInv
  <2>3. /\ Sound(Insert(cache, k).to)
        /\ Insert(cache, k).end \in {"ok", "loops", "div_zero"}
    BY <2>2, InsertSound
  <2>4. Sound(cache') /\ outcome' \in {"ok", "loops", "div_zero"}
    BY <2>1, <2>3
  <2> QED BY <2>4 DEF CacheInv
<1>3. ASSUME NEW k \in Keys, get_refresh(k) PROVE CacheInv'
  <2>1. cache' = Refresh(cache, k).to /\ outcome' = Refresh(cache, k).end
    BY <1>3 DEF get_refresh
  <2>2. Sound(cache)
    BY DEF CacheInv
  <2>3. Sound(Refresh(cache, k).to) /\ Refresh(cache, k).end = "ok"
    BY <2>2, RefreshSound
  <2>4. Sound(cache') /\ outcome' = "ok"
    BY <2>1, <2>3
  <2> QED BY <2>4 DEF CacheInv
<1> QED BY <1>1, <1>2, <1>3 DEF Next

LEMMA SoundIsCacheSound ==
  CacheInv => CacheSound
<1> SUFFICES ASSUME CacheInv PROVE CacheSound
  OBVIOUS
<1>1. /\ IsInjective(cache.recent_top) /\ IsInjective(cache.recent_bottom)
      /\ IsInjective(cache.frequent_top) /\ IsInjective(cache.frequent_bottom)
      /\ Apart(ToSet(cache.recent_top), ToSet(cache.recent_bottom),
               ToSet(cache.frequent_top), ToSet(cache.frequent_bottom))
  BY DEF CacheInv, Sound, Shape, IsList
<1>2. OneListPerKey
  <2>1. /\ Lists[1] = cache.recent_top /\ Lists[2] = cache.recent_bottom
        /\ Lists[3] = cache.frequent_top /\ Lists[4] = cache.frequent_bottom
    BY DEF Lists
  <2>2. \A i \in 1 .. 4 : i = 1 \/ i = 2 \/ i = 3 \/ i = 4
    OBVIOUS
  <2>3. \A i \in 1 .. 4 : IsInjective(Lists[i])
    BY <1>1, <2>1, <2>2
  <2>4. \A i, j \in 1 .. 4 : i # j => ToSet(Lists[i]) \cap ToSet(Lists[j]) = {}
    BY <1>1, <2>1, <2>2 DEF Apart
  <2> QED BY <2>3, <2>4 DEF OneListPerKey
<1>3. Fits
  BY DEF CacheInv, Sound, Shape, CacheType, Fits
<1>4. NoUnwrapOfNone
  BY DEF CacheInv, NoUnwrapOfNone
<1> QED BY <1>2, <1>3, <1>4 DEF CacheSound

\* Whatever the calls, and whichever of them panic: no key is in two lists or
\* twice in one, the lists and the target stay within the capacity, and neither
\* the unwrap of replace_helper nor the unreachable! of get_refresh is reached.
THEOREM CacheStaysSound == Spec => []CacheSound
<1>1. Init => CacheInv
  BY InitSound
<1>2. CacheInv /\ [Next]_vars => CacheInv'
  BY NextSound
<1>3. CacheInv => CacheSound
  BY SoundIsCacheSound
<1> QED BY <1>1, <1>2, <1>3, PTL DEF Spec

-------------------------------------------------------------------------------
(***************************************************************************)
(* Connector. RefusedOnlyWhenEmpty rests on the counter, which is read     *)
(* without the lock: it is never less than the list is long, and it is     *)
(* ahead by one only between a clone's pop and its store.                  *)
(***************************************************************************)

CallState ==
  {"none", "ready", "never_ready", "waiting", "locked", "popped", "connected", "refused",
   "dropped"}

Connections == ToSet(Pushed)

ConnType ==
  /\ connecteds \in Seq(Connections)
  /\ handed \in Seq(Connections)
  /\ remaining \in Nat
  /\ lock \in Clones \cup {NoClone}
  /\ finished \in [Clones -> BOOLEAN]
  /\ call \in [Clones -> CallState]

\* The list is locked by the clone that works on it.
LockInv == \A c \in Clones : call[c] \in {"locked", "popped"} => lock = c

CounterInv ==
  \/ remaining = Len(connecteds)
  \/ \E c \in Clones : call[c] = "popped" /\ remaining = Len(connecteds) + 1

ConnInv == ConnType /\ LockInv /\ CounterInv /\ RefusedOnlyWhenEmpty

\* Taking the last connection of the list off it and handing it out leaves the
\* order of all as it was.
LEMMA HandOut ==
  ASSUME NEW S, NEW h \in Seq(S), NEW s \in Seq(S), s # <<>>
  PROVE  /\ Front(s) \in Seq(S) /\ Last(s) \in S /\ Len(s) = Len(Front(s)) + 1
         /\ Append(h, Last(s)) \o Reverse(Front(s)) = h \o Reverse(s)
<1>0. Len(s) \in Nat \ {0} /\ \A i \in 1 .. Len(s) : s[i] \in S
  BY EmptySeq, ElementOfSeq
<1>1. Front(s) \in Seq(S) /\ Last(s) \in S /\ Len(Front(s)) = Len(s) - 1 /\ Len(s) \in Nat \ {0}
  <2>1. Len(s) - 1 \in Int /\ \A i \in 1 .. Len(s) - 1 : s[i] \in S
    BY <1>0
  <2> DEFINE n == Len(s) - 1
  <2>2. 1 \in Int /\ n \in Int /\ \A i \in 1 .. n : s[i] \in S
    BY <2>1
  <2> HIDE DEF n
  <2>3. SubSeq(s, 1, n) \in Seq(S)
    BY <2>2, SubSeqProperties
  <2>4. n = Len(s) - 1 /\ Front(s) = SubSeq(s, 1, n)
    BY DEF Front, n
  <2>5. n \in Nat /\ Len(SubSeq(s, 1, n)) = n
    BY <1>0, <2>2, <2>4
  <2> QED BY <1>0, <2>3, <2>4, <2>5 DEF Last
<1>2. \A i \in 1 .. Len(s) - 1 : Front(s)[i] = s[i]
  BY DEF Front
<1>3. Reverse(s) \in Seq(S) /\ Len(Reverse(s)) = Len(s)
      /\ \A i \in 1 .. Len(s) : Reverse(s)[i] = s[(Len(s) - i) + 1]
  BY <1>1 DEF Reverse
<1>4. Reverse(Front(s)) \in Seq(S) /\ Len(Reverse(Front(s))) = Len(s) - 1
      /\ \A i \in 1 .. Len(s) - 1 : Reverse(Front(s))[i] = s[Len(s) - i]
  <2> DEFINE f == Front(s)
  <2>1. Reverse(f) \in Seq(S) /\ Len(Reverse(f)) = Len(f)
        /\ \A i \in 1 .. Len(f) : Reverse(f)[i] = f[(Len(f) - i) + 1]
    BY <1>1 DEF Reverse
  <2>2. ASSUME NEW i \in 1 .. Len(s) - 1
        PROVE  f[(Len(f) - i) + 1] = s[Len(s) - i]
    <3>1. (Len(f) - i) + 1 = Len(s) - i /\ Len(s) - i \in 1 .. Len(s) - 1
      BY <1>1
    <3> QED BY <3>1, <1>2
  <2> QED BY <1>1, <2>1, <2>2
<1>5. Reverse(s) = <<Last(s)>> \o Reverse(Front(s))
  <2> DEFINE r == Reverse(s)
             t == Reverse(Front(s))
  <2>1. r[1] = Last(s)
    BY <1>1, <1>3 DEF Last
  <2>2. \A i \in 1 .. Len(s) - 1 : r[i + 1] = t[i]
    BY <1>1, <1>3, <1>4
  <2> HIDE DEF r, t
  <2> QED BY <1>1, <1>3, <1>4, <2>1, <2>2 DEF r, t
<1>6. ASSUME NEW x \in S, NEW t \in Seq(S)
      PROVE  Append(h, x) \o t = h \o (<<x>> \o t)
  OBVIOUS
<1> QED BY <1>1, <1>4, <1>5, <1>6

LEMMA ConnInitInv == ConnInit => ConnInv
<1> SUFFICES ASSUME ConnInit PROVE ConnInv
  OBVIOUS
<1> USE PushedAssumption DEF Connections
<1>1. Len(Pushed) \in Nat /\ Reverse(Pushed) \in Seq(Connections)
      /\ Len(Reverse(Pushed)) = Len(Pushed)
      /\ \A i \in 1 .. Len(Pushed) : Reverse(Pushed)[i] = Pushed[(Len(Pushed) - i) + 1]
  BY DEF Reverse
<1>2. Reverse(Reverse(Pushed)) = Pushed
  <2> DEFINE r == Reverse(Pushed)
  <2>1. Reverse(r) \in Seq(Connections) /\ Len(Reverse(r)) = Len(Pushed)
        /\ \A i \in 1 .. Len(Pushed) : Reverse(r)[i] = r[(Len(r) - i) + 1]
    BY <1>1 DEF Reverse
  <2>2. \A i \in 1 .. Len(Pushed) : r[(Len(r) - i) + 1] = Pushed[i]
    BY <1>1
  <2> HIDE DEF r
  <2>3. \A i \in 1 .. Len(Pushed) : Reverse(r)[i] = Pushed[i]
    BY <2>1, <2>2
  <2>4. Reverse(r) = Pushed
    BY <1>1, <2>1, <2>3, SeqEqual
  <2> QED BY <2>4 DEF r
<1>3. ConnType /\ LockInv /\ CounterInv
  <2>1. connecteds \in Seq(Connections) /\ handed \in Seq(Connections) /\ remaining \in Nat
    BY <1>1, EmptySeq DEF ConnInit
  <2>2. remaining = Len(connecteds)
    BY <1>1 DEF ConnInit
  <2> QED BY <2>1, <2>2 DEF ConnInit, ConnType, LockInv, CounterInv, CallState
<1>4. RefusedOnlyWhenEmpty
  <2>1. handed \o Reverse(connecteds) = Pushed
    BY <1>2, ConcatEmptySeq DEF ConnInit
  <2>2. Pushed = <<>> => connecteds = <<>>
    BY <1>1, EmptySeq DEF ConnInit
  <2> QED BY <2>1, <2>2 DEF ConnInit, RefusedOnlyWhenEmpty
<1> QED BY <1>3, <1>4 DEF ConnInv

LEMMA ConnStepInv ==
  ASSUME ConnInv, [ConnNext]_connVars
  PROVE  ConnInv'
<1> USE DEF ConnInv
<1>0. Len(connecteds) \in Nat /\ (remaining = 0 => connecteds = <<>>)
  BY DEF ConnType, CounterInv
<1>1. CASE UNCHANGED connVars
  BY <1>1 DEF connVars, ConnType, LockInv, CounterInv, RefusedOnlyWhenEmpty
<1>2. ASSUME NEW c \in Clones, PollReady(c) PROVE ConnInv'
  BY <1>0, <1>2 DEF PollReady, Idle, ConnType, LockInv, CounterInv, RefusedOnlyWhenEmpty, CallState
<1>3. ASSUME NEW c \in Clones, Call(c) PROVE ConnInv'
  BY <1>0, <1>3 DEF Call, ConnType, LockInv, CounterInv, RefusedOnlyWhenEmpty, CallState
<1>4. ASSUME NEW c \in Clones, Lock(c) PROVE ConnInv'
  BY <1>4, NoCloneAssumption DEF Lock, ConnType, LockInv, CounterInv, RefusedOnlyWhenEmpty, CallState
<1>5. ASSUME NEW c \in Clones, Pop(c) PROVE ConnInv'
  <2>0. lock = c /\ \A d \in Clones \ {c} : call[d] \notin {"locked", "popped"}
    BY <1>5 DEF Pop, LockInv
  <2>1. remaining = Len(connecteds)
    BY <1>5, <2>0 DEF Pop, CounterInv
  <2>2. CASE connecteds = <<>>
    BY <1>5, <2>0, <2>1, <2>2 DEF Pop, ConnType, LockInv, CounterInv, RefusedOnlyWhenEmpty, CallState
  <2>3. CASE connecteds # <<>>
    <3>1. /\ call' = [call EXCEPT ![c] = "popped"]
          /\ connecteds' = Front(connecteds)
          /\ handed' = Append(handed, Last(connecteds))
          /\ UNCHANGED <<lock, remaining, finished>>
      BY <1>5, <2>3 DEF Pop
    <3>2. /\ connecteds' \in Seq(Connections) /\ handed' \in Seq(Connections)
          /\ Len(connecteds) = Len(connecteds') + 1
          /\ handed' \o Reverse(connecteds') = handed \o Reverse(connecteds)
      <4>1. handed \in Seq(Connections) /\ connecteds \in Seq(Connections) /\ connecteds # <<>>
        BY <2>3 DEF ConnType
      <4>2. /\ Front(connecteds) \in Seq(Connections) /\ Last(connecteds) \in Connections
            /\ Len(connecteds) = Len(Front(connecteds)) + 1
            /\ Append(handed, Last(connecteds)) \o Reverse(Front(connecteds))
                 = handed \o Reverse(connecteds)
        BY <4>1, HandOut, Zenon
      <4>3. handed' \in Seq(Connections)
        BY <3>1, <4>1, <4>2, AppendProperties
      <4> QED BY <3>1, <4>2, <4>3, Zenon
    <3>3. ConnType'
      BY <3>1, <3>2 DEF ConnType, CallState
    <3>4. LockInv'
      BY <3>1, <2>0 DEF ConnType, LockInv
    <3>5. CounterInv'
      BY <3>1, <3>2, <2>1, <1>0 DEF ConnType, CounterInv
    <3>6. \A d \in Clones : ~finished[d] /\ call'[d] # "refused"
      BY <3>1, <2>3 DEF ConnType, RefusedOnlyWhenEmpty
    <3>7. RefusedOnlyWhenEmpty'
      BY <3>1, <3>2, <3>6 DEF RefusedOnlyWhenEmpty
    <3> QED BY <3>3, <3>4, <3>5, <3>7
  <2> QED BY <2>2, <2>3
<1>6. ASSUME NEW c \in Clones, Store(c) PROVE ConnInv'
  BY <1>0, <1>6, NoCloneAssumption DEF Store, ConnType, LockInv, CounterInv, RefusedOnlyWhenEmpty, CallState
<1>7. ASSUME NEW c \in Clones, DropCall(c) PROVE ConnInv'
  BY <1>7 DEF DropCall, ConnType, LockInv, CounterInv, RefusedOnlyWhenEmpty, CallState
<1> QED BY <1>1, <1>2, <1>3, <1>4, <1>5, <1>6, <1>7 DEF ConnNext

\* However calls of the clones interleave, and whichever are given up: every
\* connection goes to one call, in order, and none is refused while one is left.
THEOREM NoConnectionLost == ConnSpec => []RefusedOnlyWhenEmpty
<1>1. ConnInv => RefusedOnlyWhenEmpty
  BY DEF ConnInv
<1> QED BY <1>1, ConnInitInv, ConnStepInv, PTL DEF ConnSpec

-------------------------------------------------------------------------------
(***************************************************************************)
(* ArtifactStore. What is hashed is what was written, and the bytes that   *)
(* were written, are still to come or were lost fill the file: if none was *)
(* lost, it is full when the last has arrived.                             *)
(***************************************************************************)

StoreType ==
  /\ body \in Seq(Nat)
  /\ storage \in [written : Seq(Nat), capacity : Nat]

\* What "rest" more bytes would make of the file.
Filled(rest) ==
  /\ Len(storage.written) + rest <= storage.capacity
  /\ ~short => Len(storage.written) + rest = storage.capacity

StoreInv ==
  /\ StoreType
  /\ hashed = storage.written
  /\ fetch = "start" => storage.written = <<>> /\ ~short
  /\ fetch = "writing" => Filled(Len(body))
  /\ fetch = "ready" => Filled(0) /\ hashed = Expected

\* Taking a part off a sequence.
LEMMA Parts ==
  ASSUME NEW s \in Seq(Nat), NEW n \in 1 .. Len(s), NEW w \in 1 .. Len(s), w <= n
  PROVE  /\ SubSeq(SubSeq(s, 1, n), 1, w) \in Seq(Nat)
         /\ Len(SubSeq(SubSeq(s, 1, n), 1, w)) = w
         /\ SubSeq(s, n + 1, Len(s)) \in Seq(Nat)
         /\ Len(SubSeq(s, n + 1, Len(s))) = Len(s) - n
<1> DEFINE d == SubSeq(s, 1, n)
<1>1. d \in Seq(Nat) /\ Len(d) = n
  OBVIOUS
<1>2. SubSeq(s, n + 1, Len(s)) \in Seq(Nat) /\ Len(SubSeq(s, n + 1, Len(s))) = Len(s) - n
  OBVIOUS
<1> HIDE DEF d
<1>3. SubSeq(d, 1, w) \in Seq(Nat) /\ Len(SubSeq(d, 1, w)) = w
  BY <1>1
<1> QED BY <1>2, <1>3 DEF d

\* A sequence with others behind it.
LEMMA Padded ==
  ASSUME NEW s \in Seq(Nat), NEW t \in Seq(Nat)
  PROVE  IsPrefix(s, s \o t) /\ (t = <<>> => s \o t = s)
<1> DEFINE u == s \o t
<1>1. u \in Seq(Nat) /\ Len(u) = Len(s) + Len(t) /\ \A i \in 1 .. Len(s) : u[i] = s[i]
  OBVIOUS
<1>2. Len(s) \in Nat /\ Len(t) \in Nat /\ Len(s) <= Len(u)
  BY <1>1
<1> HIDE DEF u
<1>3. SubSeq(s, 1, Len(s)) = SubSeq(u, 1, Len(s))
  BY <1>1, <1>2
<1>4. t = <<>> => s \o t = s
  BY ConcatEmptySeq
<1> QED BY <1>2, <1>3, <1>4 DEF IsPrefix, u

LEMMA ExpectedStays == UNCHANGED artifacts => Expected' = Expected
<1>1. UNCHANGED artifacts => Supported' = Supported
  BY DEF Supported
<1> QED BY <1>1 DEF Expected

LEMMA StoreInitInv == StoreInit => StoreInv
BY BodiesAssumption DEF StoreInit, StoreInv, StoreType

LEMMA StoreStepInv ==
  ASSUME StoreInv, [StoreNext]_storeVars
  PROVE  StoreInv'
<1> USE DEF StoreInv
<1>1. CASE UNCHANGED storeVars
  BY <1>1, ExpectedStays DEF storeVars, StoreType, Filled
<1>2. CASE Respond
  <2>1. /\ fetch = "start" /\ storage.written = <<>> /\ ~short
        /\ UNCHANGED <<artifacts, body, hashed, short>>
    BY <1>2 DEF Respond
  <2>2. CASE fetch' = "writing"
    <3>1. storage' = [storage EXCEPT !.capacity = Len(body)]
      BY <1>2, <2>2 DEF Respond, Rejected
    <3>2. Len(body) \in Nat
      BY DEF StoreType
    <3>3. /\ storage'.written = <<>> /\ storage'.capacity = Len(body)
          /\ storage' \in [written : Seq(Nat), capacity : Nat]
      BY <2>1, <3>1, <3>2 DEF StoreType
    <3>4. Filled(Len(body))'
      BY <2>1, <3>2, <3>3, EmptySeq DEF Filled
    <3> QED BY <2>1, <2>2, <3>3, <3>4 DEF StoreType
  <2>3. CASE fetch' # "writing"
    <3>1. fetch' \notin {"start", "ready"} /\ UNCHANGED storage
      BY <1>2, <2>3 DEF Respond, Rejected
    <3> QED BY <2>1, <2>3, <3>1 DEF StoreType
  <2> QED BY <2>2, <2>3
<1>3. CASE Write
  <2>1. PICK n \in 1 .. Len(body), w \in 1 .. Len(body) :
          /\ w <= n
          /\ Len(storage.written) + w <= storage.capacity
          /\ storage' = [storage EXCEPT !.written = @ \o SubSeq(SubSeq(body, 1, n), 1, w)]
          /\ hashed' = hashed \o SubSeq(SubSeq(body, 1, n), 1, w)
          /\ body' = SubSeq(body, n + 1, Len(body))
          /\ short' = (short \/ w < n)
    BY <1>3 DEF Write, HashUpdate
  <2> DEFINE part == SubSeq(SubSeq(body, 1, n), 1, w)
  <2>2. part \in Seq(Nat) /\ Len(part) = w /\ body' \in Seq(Nat) /\ Len(body') = Len(body) - n
    BY <2>1, Parts DEF StoreType
  <2> HIDE DEF part
  <2>3. /\ storage'.written = storage.written \o part
        /\ storage'.capacity = storage.capacity
        /\ storage' \in [written : Seq(Nat), capacity : Nat]
        /\ Len(storage'.written) = Len(storage.written) + w
    <3>1. storage' = [storage EXCEPT !.written = @ \o part]
      BY <2>1 DEF part
    <3> DEFINE before == storage.written
    <3>1a. before \in Seq(Nat)
      BY DEF StoreType
    <3> HIDE DEF before
    <3>1b. before \o part \in Seq(Nat) /\ Len(before \o part) = Len(before) + w
      BY <3>1a, <2>2, ConcatProperties
    <3>2. storage.written \in Seq(Nat) /\ storage.written \o part \in Seq(Nat)
          /\ Len(storage.written \o part) = Len(storage.written) + w
      BY <3>1a, <3>1b DEF before
    <3>3. storage'.written = storage.written \o part
      BY <3>1, <3>2 DEF StoreType
    <3>4. storage'.capacity = storage.capacity
      BY <3>1, <3>2 DEF StoreType
    <3>5. storage' \in [written : Seq(Nat), capacity : Nat]
      BY <3>1, <3>2 DEF StoreType
    <3> QED BY <3>2, <3>3, <3>4, <3>5
  <2>4. hashed' = storage'.written
    BY <2>1, <2>3 DEF part
  <2>5. fetch = "writing" /\ fetch' = "writing"
    BY <1>3 DEF Write
  <2>6. StoreType'
    BY <2>1, <2>2, <2>3 DEF StoreType
  <2>7. Filled(Len(body))'
    <3> DEFINE len == Len(storage.written)
               cap == storage.capacity
               rest == Len(body)
    <3>1. len \in Nat /\ cap \in Nat /\ rest \in Nat
      BY DEF StoreType
    <3>2. len + rest <= cap /\ (~short => len + rest = cap)
      BY <2>5 DEF Filled
    <3>3. ~short' => ~short /\ ~(w < n)
      BY <2>1
    <3>4. /\ Len(storage'.written) = len + w /\ storage'.capacity = cap
          /\ Len(body') = rest - n /\ w <= n /\ n \in 1 .. rest /\ w \in 1 .. rest
      BY <2>1, <2>2, <2>3
    <3> HIDE DEF len, cap, rest
    <3> QED BY <3>1, <3>2, <3>3, <3>4 DEF Filled
  <2> QED BY <2>4, <2>5, <2>6, <2>7
<1>4. CASE StreamFails
  BY <1>4 DEF StreamFails, StoreType
<1>5. CASE Finalize
  <2>1. /\ fetch = "writing" /\ body = <<>> /\ fetch' \in {"ready", "hash mismatch"}
        /\ fetch' = "ready" => hashed = Expected
        /\ UNCHANGED <<artifacts, body, storage, hashed, short>>
    BY <1>5 DEF Finalize
  <2>2. Expected' = Expected
    BY <2>1, ExpectedStays
  <2>3. Filled(0)'
    BY <2>1, EmptySeq DEF Filled, StoreType
  <2> QED BY <2>1, <2>2, <2>3 DEF StoreType
<1> QED BY <1>1, <1>2, <1>3, <1>4, <1>5 DEF StoreNext

LEMMA InvExecutable == StoreInv => ExecutableIsArtifact
<1> SUFFICES ASSUME StoreInv, fetch = "ready"
             PROVE  IsPrefix(Expected, Content) /\ (~short => Content = Expected)
  BY DEF ExecutableIsArtifact
<1> DEFINE gap == storage.capacity - Len(storage.written)
           zeros == [i \in 1 .. gap |-> 0]
<1>1. storage.written \in Seq(Nat) /\ storage.written = Expected
  BY DEF StoreInv, StoreType
<1>2. gap \in Nat /\ (~short => gap = 0)
  BY <1>1 DEF StoreInv, StoreType, Filled
<1>3. zeros \in Seq(Nat) /\ Len(zeros) = gap
  BY <1>2
<1>4. Content = storage.written \o zeros
  BY DEF Content
<1> HIDE DEF gap, zeros
<1>5. ~short => zeros = <<>>
  BY <1>2, <1>3, EmptySeq
<1> QED BY <1>1, <1>3, <1>4, <1>5, Padded

\* An executable that is handed out is the manifest's artifact, whatever the
\* server sends and however it arrives.
THEOREM ArtifactAsHashed == StoreSpec => []ExecutableIsArtifact
BY StoreInitInv, StoreStepInv, InvExecutable, PTL DEF StoreSpec

===============================================================================
