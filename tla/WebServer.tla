------------------------------ MODULE WebServer -------------------------------
(***************************************************************************)
(* The boss web server (service_request_helper): connections answer        *)
(* requests for paths of torrents from the inode cache, and fill the cache *)
(* from the database where it does not reach, while vfshost loads torrents *)
(* into the database.                                                      *)
(*                                                                         *)
(* One action is one stretch of the handler between two awaits that matter:*)
(* the file system's mutex is never held over an await, so a stretch that  *)
(* holds it is atomic. What a query returns is fixed once the torrent is   *)
(* loaded, so a query and the stretch that stores its rows are one step.   *)
(* A file's body is BodyStream's.                                          *)
(***************************************************************************)
EXTENDS ArcCache, Vfs

CONSTANTS
  Connections,
  Torrents,      \* content key -> its files, each with a path and a length
  Targets,       \* what is asked for: the path, a content key and then names, and
                 \* whether a slash ends it
  Listings,      \* --enable-directory-listings
  MaxRequests    \* bound on the requests

VARIABLES
  db,
  roots,         \* fs.roots: pairs of a content key and its root inode
  value,         \* the values of fs.inodes: an entry per cached inode
  conn,          \* the handler of each connection
  requests       \* requests so far

webVars == <<cache, outcome, db, roots, value, conn, requests>>

Gone == [type |-> "gone", is_complete |-> FALSE, contents |-> {}]

NoReply == [status |-> "none", inode |-> 0, listed |-> {}]

WebInit ==
  /\ Init
  /\ db = EmptyDatabase
  /\ roots = {}
  /\ value = [k \in Keys |-> Gone]
  /\ conn = [c \in Connections |->
               [pc |-> "idle", path |-> <<>>, slash |-> FALSE, cur |-> 0,
                used |-> 1, reply |-> NoReply]]
  /\ requests = 0

\* The handler returns; service_request makes the status of an error.
Reply(c, status, inode, listed) ==
  conn' = [conn EXCEPT ![c].pc = "idle",
                       ![c].reply = [status |-> status, inode |-> inode,
                                     listed |-> listed]]

Fail(c, status) == Reply(c, status, 0, {})

-------------------------------------------------------------------------------
(* vfshost *)

Load(content_key) ==
  /\ ContentRoot(db, content_key) = {}
  /\ db' = LoadTorrent(db, content_key, Torrents[content_key])
  /\ UNCHANGED <<cache, outcome, roots, value, conn, requests>>

-------------------------------------------------------------------------------
(* The handler *)

\* A request arrives. A path that does not decode, and a first element that is
\* no content key, are internal errors; an empty path names nothing.
Request(c) ==
  /\ conn[c].pc = "idle"
  /\ requests < MaxRequests
  /\ requests' = requests + 1
  /\ \E t \in Targets :
       LET status == IF t.path = <<>> THEN "not_found"
                     ELSE IF t.path[1] \notin DOMAIN Torrents THEN "internal" ELSE "none"
       IN  conn' = [conn EXCEPT ![c] =
                      [pc |-> IF status = "none" THEN "root" ELSE "idle",
                       path |-> t.path, slash |-> t.slash, cur |-> 0, used |-> 1,
                       reply |-> [NoReply EXCEPT !.status = status]]]
  /\ UNCHANGED <<cache, outcome, db, roots, value>>

\* fs.roots has the content key.
KnownRoot(c) ==
  /\ conn[c].pc = "root"
  /\ outcome # "loops"
  /\ \E r \in roots : /\ r[1] = conn[c].path[1]
                      /\ conn' = [conn EXCEPT ![c].pc = "walk", ![c].cur = r[2]]
  /\ UNCHANGED <<cache, outcome, db, roots, value, requests>>

\* It has not, and the lock is dropped for the query.
UnknownRoot(c) ==
  /\ conn[c].pc = "root"
  /\ outcome # "loops"
  /\ \A r \in roots : r[1] # conn[c].path[1]
  /\ conn' = [conn EXCEPT ![c].pc = "fetch_root"]
  /\ UNCHANGED <<cache, outcome, db, roots, value, requests>>

\* The root's row, stored under the lock.
FetchRoot(c) ==
  /\ conn[c].pc = "fetch_root"
  /\ outcome # "loops"
  /\ \E i \in ContentRoot(db, conn[c].path[1]) :
       /\ roots' = roots \cup {<<conn[c].path[1], i>>}
       /\ conn' = [conn EXCEPT ![c].pc = "walk", ![c].cur = i]
  /\ UNCHANGED <<cache, outcome, db, value, requests>>

\* Mutant of NoRoot: the handler looks again.
NoRootRetries(c) ==
  /\ conn[c].pc = "fetch_root"
  /\ ContentRoot(db, conn[c].path[1]) = {}
  /\ conn' = [conn EXCEPT ![c].pc = "root"]
  /\ UNCHANGED <<cache, outcome, db, roots, value, requests>>

\* query_opt returns no row.
NoRoot(c) ==
  /\ conn[c].pc = "fetch_root"
  /\ ContentRoot(db, conn[c].path[1]) = {}
  /\ Fail(c, "not_found")
  /\ UNCHANGED <<cache, outcome, db, roots, value, requests>>

\* The database cannot be reached, or a query fails.
DatabaseFails(c) ==
  /\ conn[c].pc \in {"fetch_root", "fetch_dirs"}
  /\ Fail(c, "internal")
  /\ UNCHANGED <<cache, outcome, db, roots, value, requests>>

\* The loop from inode cur, with the first `used` elements of the path consumed:
\* it goes down while it meets complete directories, and refreshes each entry.
RECURSIVE WalkFrom(_, _, _, _, _)
WalkFrom(c, v, path, cur, used) ==
  LET r == IF Cached(c, cur) THEN Refresh(c, cur).to ELSE c
      down == Cached(c, cur) /\ v[cur].type = "directory" /\ v[cur].is_complete
              /\ used < Len(path)
      child == {e \in v[cur].contents : e[1] = path[used + 1]}
  IN  IF ~down THEN [cache |-> r, cur |-> cur, used |-> used, found |-> TRUE]
      ELSE IF child = {}
      THEN [cache |-> r, cur |-> cur, used |-> used, found |-> FALSE]
      ELSE WalkFrom(r, v, path, (CHOOSE e \in child : TRUE)[2], used + 1)

\* The first walk, over what is cached. have_final: it ended at a file or at a
\* complete directory.
Walk(c) ==
  /\ conn[c].pc = "walk"
  /\ outcome # "loops"
  /\ LET w == WalkFrom(cache, value, conn[c].path, conn[c].cur, conn[c].used)
         have_final == Cached(w.cache, w.cur) /\ value[w.cur].is_complete
     IN  /\ cache' = w.cache
         /\ IF ~w.found THEN Fail(c, "not_found")
            ELSE conn' = [conn EXCEPT ![c].cur = w.cur, ![c].used = w.used,
                            ![c].pc = IF have_final THEN "final" ELSE "fetch_dirs"]
  /\ UNCHANGED <<outcome, db, roots, value, requests>>

\* Mutant of MergeEntry: a row always replaces what is cached.
MergeEntryAlways(s, k, entry) ==
  IF s.end # "ok" THEN s
  ELSE LET r == Insert(s.cache, k)
       IN  [cache |-> r.to, end |-> r.end, value |-> [s.value EXCEPT ![k] = entry]]

\* One fetched entry goes into the cache, unless it is an incomplete directory
\* and a complete one is there. An insert that panics ends the handler.
MergeEntry(s, k, entry) ==
  LET old == s.value[k]
      keep == /\ Cached(s.cache, k)
              /\ old.type = "directory" /\ entry.type = "directory"
              /\ old.is_complete /\ ~entry.is_complete
      r == Insert(s.cache, k)
  IN  IF s.end # "ok" \/ keep THEN s
      ELSE [cache |-> r.to, end |-> r.end, value |-> [s.value EXCEPT ![k] = entry]]

\* The entries in the order of their inodes, from k to n.
RECURSIVE MergeFrom(_, _, _, _)
MergeFrom(s, k, n, fetched) ==
  IF k > n THEN s
  ELSE MergeFrom(IF k \in DOMAIN fetched THEN MergeEntry(s, k, fetched[k]) ELSE s,
                 k + 1, n, fetched)

Evicted(c, v) == [k \in Keys |-> IF Cached(c, k) THEN v[k] ELSE Gone]

\* The directories from cur on are fetched and merged in the order of their
\* inodes, and the walk goes on, all under one lock.
FetchDirs(c) ==
  /\ conn[c].pc = "fetch_dirs"
  /\ outcome # "loops"
  /\ LET me == conn[c]
         path == SubSeq(me.path, me.used + 1, Len(me.path))
         fetched == FetchDirectories(db, me.cur, path)
         s == MergeFrom([cache |-> cache, value |-> value, end |-> "ok"],
                        1, db.next - 1, fetched)
         w == WalkFrom(s.cache, Evicted(s.cache, s.value), me.path, me.cur, me.used)
     IN  IF s.end = "ok"
         THEN /\ cache' = w.cache
              /\ value' = Evicted(w.cache, s.value)
              /\ IF ~w.found THEN Fail(c, "not_found")
                 ELSE conn' = [conn EXCEPT ![c].cur = w.cur, ![c].used = w.used,
                                           ![c].pc = "final"]
              /\ UNCHANGED outcome
         ELSE /\ cache' = s.cache
              /\ value' = Evicted(s.cache, s.value)
              /\ outcome' = IF s.end = "div_zero" THEN "ok" ELSE s.end
              /\ IF s.end = "loops"
                 THEN conn' = [conn EXCEPT ![c].pc = "looping"]
                 ELSE Fail(c, "panic")
  /\ UNCHANGED <<db, roots, requests>>

\* A listing: the names, and REG or DIR for each.
Rendered(dir) == {<<e[1], value[e[2]].type>> : e \in dir}

\* The last look at the entry, under a lock of its own. A listing has the
\* children that are cached.
Final(c) ==
  /\ conn[c].pc = "final"
  /\ outcome # "loops"
  /\ LET i == conn[c].cur
     IN  IF ~Cached(cache, i) THEN Fail(c, "not_found")
         ELSE IF value[i].type = "regular" THEN Reply(c, "file", i, {})
         ELSE IF ~conn[c].slash THEN Reply(c, "found", i, {})
         ELSE IF ~Listings THEN Fail(c, "not_found")
         ELSE Reply(c, "listing", i,
                    Rendered({e \in value[i].contents : Cached(cache, e[2])}))
  /\ UNCHANGED <<cache, outcome, db, roots, value, requests>>

Step(c) ==
  \/ KnownRoot(c) \/ UnknownRoot(c) \/ FetchRoot(c) \/ NoRoot(c) \/ DatabaseFails(c)
  \/ Walk(c) \/ FetchDirs(c) \/ Final(c)

WebNext ==
  \/ \E k \in DOMAIN Torrents : Load(k)
  \/ \E c \in Connections : Request(c) \/ Step(c)

\* The runtime polls every handler, and a query returns or fails.
WebSpec == WebInit /\ [][WebNext]_webVars /\ \A c \in Connections : WF_webVars(Step(c))

-------------------------------------------------------------------------------
(* Properties *)

\* The names that lead from the root to an inode.
RECURSIVE RowPath(_)
RowPath(i) ==
  LET r == CHOOSE s \in db.files : s.inode = i
  IN  IF r.parent = NoParent THEN <<>> ELSE Append(RowPath(r.parent), r.name)

RECURSIVE RootOf(_)
RootOf(i) ==
  LET r == CHOOSE s \in db.files : s.inode = i
  IN  IF r.parent = NoParent THEN i ELSE RootOf(r.parent)

\* Whatever requests, loads and evictions run at once, an entity that a handler
\* answers with is of the torrent asked for and on the path asked for, and a file
\* has the place in the torrent's bytes that the torrent gives it.
ServesNamed ==
  \A c \in Connections :
    LET me == conn[c]
        files == Torrents[me.path[1]]
    IN  me.reply.status \in {"file", "found", "listing"} =>
          /\ RootOf(me.reply.inode) \in ContentRoot(db, me.path[1])
          /\ IsPrefix(RowPath(me.reply.inode), Tail(me.path))
          /\ me.reply.status = "file" =>
               \E i \in DOMAIN files, r \in db.files :
                 /\ r.inode = me.reply.inode
                 /\ files[i].path = RowPath(r.inode)
                 /\ r.length = files[i].length
                 /\ r.offset = FoldSeq(LAMBDA x, y : x + y, 0, [j \in 1..(i - 1) |-> files[j].length])

\* What the torrent's list of files says a path should get: a file for a path
\* that goes to it (or through it), a directory for one that leads to a file.
Answer(path, slash) ==
  LET files == ToSet(Torrents[path[1]])
      p == Tail(path)
      below == {f \in files : IsStrictPrefix(p, f.path)}
  IN  IF \E f \in files : IsPrefix(f.path, p) THEN [status |-> "file", listed |-> {}]
      ELSE IF below = {} \/ (slash /\ ~Listings)
      THEN [status |-> "not_found", listed |-> {}]
      ELSE IF ~slash THEN [status |-> "found", listed |-> {}]
      ELSE [status |-> "listing", listed |-> 
              {<<f.path[Len(p) + 1],
                 IF Len(f.path) = Len(p) + 1 THEN "regular" ELSE "directory">> : f \in below}]

\* Until the cache has evicted an entry, every request for a torrent that was
\* there and whose queries did not fail is answered from the torrent's list of
\* files, with all of a directory's entries.
ExactUntilEviction ==
  cache.recent_bottom = <<>> /\ cache.frequent_bottom = <<>> /\ outcome = "ok" =>
    \A c \in Connections :
      LET me == conn[c]
      IN  me.cur # 0 /\ me.reply.status \notin {"none", "internal"} =>
            [status |-> me.reply.status, listed |-> me.reply.listed]
              = Answer(me.path, me.slash)

\* A request gets an answer, unless some insert never returned.
Answered ==
  \A c \in Connections : conn[c].pc = "root" ~> (conn[c].pc = "idle" \/ outcome = "loops")

===============================================================================
