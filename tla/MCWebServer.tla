----------------------------- MODULE MCWebServer ------------------------------
(* WebServer for TLC: two torrents, each as large as the cache. *)
EXTENDS WebServer

MCTorrents ==
  [t1 |-> <<[path |-> <<"a", "f">>, length |-> 1]>>,
   t2 |-> <<[path |-> <<"x">>, length |-> 3], [path |-> <<"y">>, length |-> 4]>>]

Target(path, slash) == [path |-> path, slash |-> slash]

MCTargets ==
  {Target(<<"junk">>, FALSE), Target(<<"t1">>, TRUE), Target(<<"t1", "a">>, TRUE),
   Target(<<"t1", "a", "f">>, FALSE), Target(<<"t1", "a", "none">>, TRUE),
   Target(<<"t2">>, FALSE), Target(<<"t2", "y", "more">>, FALSE)}

===============================================================================
