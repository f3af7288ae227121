------------------------------- MODULE MCLaunch -------------------------------
(* Launch for TLC: the templates and registries of the run. *)
EXTENDS Launch, TLC

P1 == [pkg |-> "p1", req |-> {1, 2}]

P2 == [pkg |-> "p2", req |-> {1}]

P3 == [pkg |-> "p3", req |-> {1, 2}]

\* Service 1 is public, and 2 may be. Each service has a package of its own, or
\* two share one, or one has no implementation.
MCTemplates ==
  LET Template(public, impl) == [public |-> public, impl |-> impl]
  IN  {Template(<<1>>, <<P1, P2, P3>>),
       Template(<<1, 2>>, <<P1, P1, P3>>), Template(<<1>>, <<P1, P2, P2>>),
       Template(<<1>>, <<P1, P2>>), Template(<<1, 2>>, 1 :> P1 @@ 3 :> P3)}

\* What the packages require: everything of the first, a circle, or both. One
\* registry cannot read the version of p2 that matches; p2 also has a newer
\* version, which nothing asks for.
MCRegistries ==
  LET Entry(requires) == [readable |-> TRUE, requires |-> requires]
      Bad == [readable |-> FALSE, requires |-> <<>>]
      Registry(a, b, c) ==
        ("p1" :> (1 :> a)) @@ ("p2" :> (1 :> b @@ 2 :> Entry(<<3>>))) @@
        ("p3" :> (2 :> c))
  IN  {Registry(Entry(<<2, 3>>), Entry(<<1>>), Entry(<<>>)),
       Registry(Entry(<<2>>), Entry(<<3>>), Entry(<<2>>)),
       Registry(Entry(<<2, 3>>), Entry(<<3>>), Entry(<<2>>)),
       Registry(Entry(<<2>>), Bad, Entry(<<>>))}

===============================================================================
