--------------------------------- MODULE Vfs ----------------------------------
(***************************************************************************)
(* The file system of a torrent in the database: load_torrent of vfshost   *)
(* writes it in one transaction, the queries of the vfs crate read it.     *)
(*                                                                         *)
(* A database is a record of the rows of the table files, of those of      *)
(* torrent_meta, and of the next value of the inode sequence. Piece hashes *)
(* are left out: nothing here reads them.                                  *)
(***************************************************************************)
EXTENDS Naturals, Sequences

EmptyDatabase == [files |-> {}, torrent_meta |-> {}, next |-> 1]

NoParent == 0

-------------------------------------------------------------------------------
(* Loading *)

\* Mutant of GlobalOffset: the length is added before the offset is taken.
RECURSIVE GlobalOffsetLate(_, _)
GlobalOffsetLate(files, i) ==
  IF i = 0 THEN 0 ELSE GlobalOffsetLate(files, i - 1) + files[i].length

\* The parser of a torrent places each file after the files before it.
RECURSIVE GlobalOffset(_, _)
GlobalOffset(files, i) ==
  IF i = 1 THEN 0 ELSE GlobalOffset(files, i - 1) + files[i - 1].length

\* CreateInodeCommand, in a transaction t. A row that breaks the table's UNIQUE
\* (parent_inode, file_name) makes it and every later statement fail.
CreateInode(t, parent, name, type, offset, length) ==
  IF ~t.ok THEN t
  ELSE IF \E r \in t.files : parent # NoParent /\ r.parent = parent /\ r.name = name
  THEN [t EXCEPT !.next = @ + 1, !.ok = FALSE]
  ELSE [t EXCEPT !.next = @ + 1,
                 !.files = @ \cup {[inode |-> t.next, parent |-> parent, name |-> name,
                                    type |-> type, offset |-> offset, length |-> length]}]

\* One component of a file's path: the last is the file; another is a directory
\* found in inode_cache, or created and remembered there.
LoadComponent(t, file, i) ==
  LET at == <<t.cur, file.path[i]>>
  IN  IF i = Len(file.path)
      THEN CreateInode(t, t.cur, file.path[i], "regular", file.offset, file.length)
      ELSE IF \E d \in t.inode_cache : d[1] = at
      THEN [t EXCEPT !.cur = (CHOOSE d \in t.inode_cache : d[1] = at)[2]]
      ELSE [CreateInode(t, t.cur, file.path[i], "directory", 0, 0) EXCEPT
              !.cur = t.next, !.inode_cache = @ \cup {<<at, t.next>>}]

\* create_content_root: the content key is UNIQUE.
CreateContentRoot(t, content_key, root) ==
  IF \E m \in t.torrent_meta : m[1] = content_key THEN [t EXCEPT !.ok = FALSE]
  ELSE [t EXCEPT !.torrent_meta = @ \cup {<<content_key, root>>}]

RECURSIVE LoadPath(_, _, _)
LoadPath(t, file, i) ==
  IF i > Len(file.path) THEN t ELSE LoadPath(LoadComponent(t, file, i), file, i + 1)

\* The files from the i-th on, each from the root.
RECURSIVE LoadFiles(_, _, _, _)
LoadFiles(t, root, files, i) ==
  IF i > Len(files) THEN t
  ELSE LET file == [path |-> files[i].path, length |-> files[i].length,
                    offset |-> GlobalOffset(files, i)]
       IN  LoadFiles(LoadPath([t EXCEPT !.cur = root], file, 1), root, files, i + 1)

\* load_torrent: the database after it. A transaction that fails leaves only the
\* gap it made in the sequence. A torrent of a single file has no files entry,
\* and gets a root and nothing in it.
LoadTorrent(db, content_key, files) ==
  LET begin == [files |-> db.files, torrent_meta |-> db.torrent_meta, next |-> db.next,
                inode_cache |-> {}, cur |-> db.next, ok |-> TRUE]
      root == CreateInode(begin, NoParent, "", "root", 0, 0)
      end == LoadFiles(CreateContentRoot(root, content_key, db.next), db.next, files, 1)
  IN  IF end.ok
      THEN [files |-> end.files, torrent_meta |-> end.torrent_meta, next |-> end.next]
      ELSE [db EXCEPT !.next = end.next]

-------------------------------------------------------------------------------
(* Reading *)

\* FetchContentRootQuery: the root inode, if there is a row.
ContentRoot(db, content_key) == {m[2] : m \in {n \in db.torrent_meta : n[1] = content_key}}

\* The rows WITH RECURSIVE path, by depth: the inodes that the first elements
\* of the path lead to.
PathInodes(db, root_inode, path) ==
  LET level[d \in 0..Len(path)] ==
        IF d = 0 THEN {r.inode : r \in {s \in db.files : s.inode = root_inode}}
        ELSE {r.inode : r \in {s \in db.files : s.parent \in level[d - 1]
                                                /\ s.name = path[d]}}
  IN  UNION {level[d] : d \in 0..Len(path)}

Regular == [type |-> "regular", is_complete |-> TRUE, contents |-> {}]

Incomplete == [type |-> "directory", is_complete |-> FALSE, contents |-> {}]

\* The entries by inode: the children of every directory on the path, where a
\* directory that has a child among them is complete, with its contents.
FetchDirectories(db, root_inode, path) ==
  LET on == PathInodes(db, root_inode, path)
      records == {r \in db.files : r.parent \in on}
      parents == {r.parent : r \in records}
      Contents(k) == {<<r.name, r.inode>> : r \in {s \in records : s.parent = k}}
      regular == {r.inode : r \in {s \in records : s.type = "regular"}}
  IN  [k \in parents \cup {r.inode : r \in records} |->
         IF k \in parents
         THEN [type |-> "directory", is_complete |-> TRUE, contents |-> Contents(k)]
         ELSE IF k \in regular THEN Regular ELSE Incomplete]

===============================================================================
