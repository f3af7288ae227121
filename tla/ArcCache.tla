------------------------------- MODULE ArcCache -------------------------------
(***************************************************************************)
(* The adaptive replacement cache of the boss web server (arc.rs): two     *)
(* lists of cached keys, recent and frequent, each with a bottom list of   *)
(* keys evicted from it, and a target size p_value for the recent list     *)
(* that a hit in a bottom list moves.                                      *)
(*                                                                         *)
(* A LinkedHashMap is the sequence of its keys, oldest first; an operation *)
(* is one step, since the cache is behind the mutex of the file system.    *)
(* The values and the caller's list of evicted entries are left out.       *)
(***************************************************************************)
EXTENDS Naturals, Sequences, SequencesExt

CONSTANTS
  Keys,        \* inode numbers
  Capacity     \* cached entries

ASSUME CapacityAssumption == Capacity \in Nat \ {0}

VARIABLES
  cache,       \* the Cache
  outcome      \* how the last operation ended: "ok" (it returned), "div_zero",
               \* "unwrap" (of None), "loops" (for ever), or "invariant"
               \* (unreachable!("invariant broken"))

vars == <<cache, outcome>>

Init ==
  /\ cache = [p_value |-> 0,
              recent_top |-> <<>>, recent_bottom |-> <<>>,
              frequent_top |-> <<>>, frequent_bottom |-> <<>>]
  /\ outcome = "ok"

-------------------------------------------------------------------------------
(* LinkedHashMap *)

Has(list, k) == Contains(list, k)

\* remove, of a key that is there.
Without(list, k) == RemoveAt(list, CHOOSE i \in 1 .. Len(list) : list[i] = k)

\* Inserting a key that is there, and get_refresh, move it to the end.
MoveToEnd(list, k) == Append(Without(list, k), k)

\* pop_front until fewer than Capacity are left.
Trimmed(list) ==
  IF Len(list) < Capacity THEN list
  ELSE SubSeq(list, Len(list) - Capacity + 2, Len(list))

-------------------------------------------------------------------------------
(* insert *)

\* replace_helper: what it makes of the cache, and how it ends. The loop of the
\* second case pops from frequent_bottom until frequent_top gets shorter.
Replace(c, was_in_frequent_bottom) ==
  LET n == Len(c.recent_top)
      recent == n > c.p_value \/ (n = c.p_value /\ n > 0 /\ was_in_frequent_bottom)
  IN  IF recent
      THEN [to |-> [c EXCEPT !.recent_top = Tail(@),
                             !.recent_bottom = Append(Trimmed(@), Head(c.recent_top))],
            end |-> "ok"]
      ELSE IF c.frequent_top = <<>>
      THEN [to |-> c, end |-> "unwrap"]
      ELSE IF Capacity <= Len(c.frequent_top) - 1
      THEN [to |-> [c EXCEPT !.frequent_top = Tail(@), !.frequent_bottom = <<>>],
            end |-> "loops"]
      ELSE [to |-> [c EXCEPT !.frequent_top = Tail(@),
                             !.frequent_bottom = Append(@, Head(c.frequent_top))],
            end |-> "ok"]

\* A key in none of the lists.
PlaceNew(c, k) ==
  LET d == [c EXCEPT !.recent_top = Append(@, k)]
  IN  IF Len(d.recent_top) + Len(d.frequent_top) > Capacity
      THEN Replace(d, FALSE) ELSE [to |-> d, end |-> "ok"]

\* The step of p_value for a hit in a list, now of length n; m is the other's.
Delta(m, n) == IF m <= n THEN 1 ELSE m \div n

\* A key in frequent_bottom. The lengths are taken after the key is removed.
PlaceFrequent(c, k) ==
  LET bottom == Without(c.frequent_bottom, k)
      m == Len(c.recent_bottom)
      d == Delta(m, Len(bottom))
      p == IF d <= c.p_value THEN c.p_value - d ELSE 0
  IN  IF m > 0 /\ bottom = <<>>
      THEN [to |-> [c EXCEPT !.frequent_bottom = bottom], end |-> "div_zero"]
      ELSE Replace([c EXCEPT !.frequent_bottom = bottom, !.p_value = p,
                             !.frequent_top = Append(@, k)], TRUE)

\* Mutant of PlaceRecent: the key stays in recent_bottom.
PlaceRecentTwice(c, k) ==
  LET p == c.p_value + 1
  IN  Replace([c EXCEPT !.p_value = IF Capacity < p THEN Capacity ELSE p,
                        !.frequent_top = Append(@, k)], FALSE)

\* A key in recent_bottom.
PlaceRecent(c, k) ==
  LET bottom == Without(c.recent_bottom, k)
      m == Len(c.frequent_bottom)
      p == c.p_value + Delta(m, Len(bottom))
  IN  IF m > 0 /\ bottom = <<>>
      THEN [to |-> [c EXCEPT !.recent_bottom = bottom], end |-> "div_zero"]
      ELSE Replace([c EXCEPT !.recent_bottom = bottom,
                             !.p_value = IF Capacity < p THEN Capacity ELSE p,
                             !.frequent_top = Append(@, k)], FALSE)

\* insert: a key that is cached keeps its list, with the new value at its end.
Insert(c, k) ==
  IF Has(c.recent_top, k)
  THEN [to |-> [c EXCEPT !.recent_top = MoveToEnd(@, k)], end |-> "ok"]
  ELSE IF Has(c.frequent_top, k)
  THEN [to |-> [c EXCEPT !.frequent_top = MoveToEnd(@, k)], end |-> "ok"]
  ELSE IF Has(c.frequent_bottom, k) THEN PlaceFrequent(c, k)
  ELSE IF Has(c.recent_bottom, k) THEN PlaceRecent(c, k)
  ELSE PlaceNew(c, k)

\* get_refresh: a hit in recent_top makes the key frequent, one in
\* frequent_top moves it to the end, a miss changes nothing.
Refresh(c, k) ==
  IF Has(c.recent_top, k)
  THEN IF Has(c.frequent_top, k)
       THEN [to |-> [c EXCEPT !.recent_top = Without(@, k)], end |-> "invariant"]
       ELSE [to |-> [c EXCEPT !.recent_top = Without(@, k),
                              !.frequent_top = Append(@, k)], end |-> "ok"]
  ELSE IF Has(c.frequent_top, k)
  THEN [to |-> [c EXCEPT !.frequent_top = MoveToEnd(@, k)], end |-> "ok"]
  ELSE [to |-> c, end |-> "ok"]

\* get_norefresh finds something.
Cached(c, k) == Has(c.frequent_top, k) \/ Has(c.recent_top, k)

\* A panic leaves the cache to the next caller: tokio's mutex is not poisoned.
insert(k) ==
  /\ outcome # "loops"
  /\ LET result == Insert(cache, k)
     IN  cache' = result.to /\ outcome' = result.end

get_refresh(k) ==
  /\ outcome # "loops"
  /\ Cached(cache, k)
  /\ LET result == Refresh(cache, k)
     IN  cache' = result.to /\ outcome' = result.end

Next == \E k \in Keys : insert(k) \/ get_refresh(k)

Spec == Init /\ [][Next]_vars

-------------------------------------------------------------------------------
(* Properties *)

Lists == <<cache.recent_top, cache.recent_bottom,
           cache.frequent_top, cache.frequent_bottom>>

\* A key is in at most one list, once: what "invariant broken" stands for.
OneListPerKey ==
  /\ \A i \in 1..4 : IsInjective(Lists[i])
  /\ \A i, j \in 1..4 : i # j => ToSet(Lists[i]) \cap ToSet(Lists[j]) = {}

\* The cache never holds more than its capacity, and no more than that many
\* keys evicted from the recent list, and the target p_value stays within it.
Fits ==
  /\ cache.p_value \in 0..Capacity
  /\ outcome = "ok" => Len(cache.recent_top) + Len(cache.frequent_top) <= Capacity
  /\ Len(cache.recent_bottom) <= Capacity

\* replace_helper never finds the list it shrinks empty, and get_refresh never
\* finds a key in both lists: the panics the code rules out do not happen.
NoUnwrapOfNone == outcome \notin {"unwrap", "invariant"}

\* The cache keeps its shape under any calls, one that panics in the middle of an
\* insert included.
CacheSound == OneListPerKey /\ Fits /\ NoUnwrapOfNone

\* insert returns, as replacement does "from the paper": it neither divides by
\* the length of an empty list nor waits for frequent_top to shrink by itself.
InsertReturns == outcome \notin {"div_zero", "loops"}

===============================================================================
