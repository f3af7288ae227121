-------------------------------- MODULE MCHost --------------------------------
(***************************************************************************)
(* Parts of the host side that share no state, checked one at a time: in   *)
(* every behaviour one part takes all the steps and the others rest in one *)
(* of their initial states.                                                *)
(***************************************************************************)
EXTENDS HappyEyeballs, Multiplexor, Connector, ArtifactStore, Container, ChildSetup, Boot

VARIABLE part     \* the part that takes the steps

MCVars == <<dialVars, muxVars, connVars, storeVars, boxVars, childVars, bootVars, part>>

-------------------------------------------------------------------------------
(* The dialer: two addresses of each family, in mixed order *)

MCAddrs == [family : {"v4", "v6"}, n : {1, 2}]

A(family, n) == [family |-> family, n |-> n]

Url(enforce, scheme, name, eyeballs, resolved) ==
  [enforce_http |-> enforce, scheme |-> scheme, host |-> name, happy_eyeballs |-> eyeballs,
   resolved |-> resolved]

Mixed == <<A("v6", 1), A("v4", 1), A("v6", 2), A("v4", 2)>>

MCUrls ==
  {Url(TRUE, "https", "name", TRUE, Mixed), Url(FALSE, "none", "name", TRUE, Mixed),
   Url(TRUE, "http", "none", TRUE, Mixed), Url(TRUE, "http", "literal", TRUE, Mixed),
   Url(TRUE, "http", "name", TRUE, <<>>), Url(TRUE, "http", "name", TRUE, Mixed),
   Url(FALSE, "https", "name", TRUE, <<A("v4", 1), A("v4", 2), A("v4", 1)>>),
   Url(FALSE, "https", "name", FALSE, Mixed)}

-------------------------------------------------------------------------------
(* The connector *)

MCPushed == <<"first", "second">>

-------------------------------------------------------------------------------
(* The store: three platforms, artifacts of up to two bytes *)

MCTriples == <<"gnu", "musl", "linux">>

MCManifests ==
  {[t \in {"musl", "linux"} |-> IF t = "musl" THEN <<1, 2>> ELSE <<2>>],
   [t \in {"gnu"} |-> <<1>>], [t \in {"darwin"} |-> <<1>>]}

MCBodies == UNION {[1..n -> {1, 2}] : n \in 0..3} \cup {<<1, 1, 1, 1>>}

-------------------------------------------------------------------------------
(* The container, the child and the boot *)

MCConfigs == [ephemeral : BOOLEAN, enable_proc : BOOLEAN, enable_dev : BOOLEAN]

MCHostMounts ==
  {[at |-> <<>>, fs |-> "ext4", ro |-> FALSE], [at |-> <<"home">>, fs |-> "ext4", ro |-> FALSE]}

MCRequests ==
  [user : {{}, {"user"}}, group : {{}, {"group"}},
   props : {{"@network", "*"}, {}, {"@network"}, {"@filesystem"}}]

\* Nested mounts, one mount on another, and one that is covered from above.
MCMountTables ==
  {<<<<>>, <<"sys">>, <<"sys", "fs">>, <<"mnt">>, <<"mnt">>>>,
   <<<<>>, <<"a", "b", "c">>, <<"a", "b">>, <<"a">>, <<"a", "b">>>>,
   <<<<>>, <<"dev">>, <<>>, <<"run">>>>}

MCCmdlines ==
  [root : {"none", "/dev/sda1", "LABEL=nix"}, personality : {"none", "persist"}, system : {TRUE}]
    \cup {[root |-> "/dev/sda1", personality |-> "none", system |-> FALSE]}

-------------------------------------------------------------------------------
(* One part at a time *)

Parts == {"dial", "mux", "connector", "store", "container", "child", "boot"}

Pick(set) == CHOOSE x \in set : TRUE

\* The addresses that the dialer may come to try; the others are silent.
Asked ==
  IF part # "dial" \/ InvalidUrl # {} THEN {} ELSE {url.resolved[i] : i \in Candidates}

\* A part that rests has one initial state.
MCInit ==
  /\ part \in Parts
  /\ DialInit
  /\ part # "dial" => url = Pick(Urls)
  /\ \A a \in Addrs \ Asked : network[a] = "silent"
  /\ Asked = {} => noSocket = {}
  /\ MuxInit
  /\ ConnInit
  /\ StoreInit
  /\ part # "store" =>
       artifacts = Pick(Manifests) /\ image_type = Pick(ImageTypes) /\ body = Pick(Bodies)
  /\ BoxInit
  /\ part # "container" => config = Pick(Configs)
  /\ ChildInit
  /\ part # "child" => request = Pick(Requests) /\ mounts = Pick(MountTables)
  /\ BootInit
  /\ part # "boot" => cmdline = Pick(Cmdlines)

Others_(p, others) == part = p /\ UNCHANGED <<part, others>>

DialRests == <<muxVars, connVars, storeVars, boxVars, childVars, bootVars>>

MuxRests == <<dialVars, connVars, storeVars, boxVars, childVars, bootVars>>

MCNext ==
  \/ DialNext /\ Others_("dial", DialRests)
  \/ MuxNext /\ Others_("mux", MuxRests)
  \/ /\ ConnNext
     /\ Others_("connector", <<dialVars, muxVars, storeVars, boxVars, childVars, bootVars>>)
  \/ /\ StoreNext
     /\ Others_("store", <<dialVars, muxVars, connVars, boxVars, childVars, bootVars>>)
  \/ /\ BoxNext
     /\ Others_("container", <<dialVars, muxVars, connVars, storeVars, childVars, bootVars>>)
  \/ /\ ChildNext
     /\ Others_("child", <<dialVars, muxVars, connVars, storeVars, boxVars, bootVars>>)
  \/ /\ BootNext
     /\ Others_("boot", <<dialVars, muxVars, connVars, storeVars, boxVars, childVars>>)

DialDoes(A_) == A_ /\ Others_("dial", DialRests)

MuxDoes(A_) == A_ /\ Others_("mux", MuxRests)

\* A woken future is polled; the network and the clock answer; tasks that can
\* go on do. The channel serves its senders, and the kernel its connections, in
\* the order they came: neither is passed over for ever. No fault is fair.
MCSpec ==
  /\ MCInit
  /\ [][MCNext]_MCVars
  /\ WF_MCVars(DialDoes(Poll))
  /\ WF_MCVars(DialDoes(DelayPasses))
  /\ \A i \in 1 .. Cardinality(Addrs) :
       WF_MCVars(DialDoes(i \in DOMAIN url.resolved /\ Answer(i)))
  /\ WF_MCVars(MuxDoes(MakeResolver \/ (\E l \in Loops : SpawnLoop(l) \/ SendLoop(l))))
  /\ WF_MCVars(MuxDoes(TakeHandle))
  /\ \A h \in Handles : WF_MCVars(MuxDoes(Reap(h)))
  /\ \A c \in Conns : WF_MCVars(MuxDoes(TaskEnds(c)))
  /\ \A c \in Conns : SF_MCVars(MuxDoes(Accept(c) \/ DropUnnamed(c)))
  /\ \A l \in Loops : SF_MCVars(MuxDoes(SendHandle(l)))

===============================================================================
