SPECIFICATION MCSpec
CONSTANTS
  Addrs <- MCAddrs
  Urls <- MCUrls
  Conns = {m1, d1, d2}
  Data = {d1, d2}
  Room = 2
  Slots = 3
  Clones = {k1, k2, k3}
  Pushed <- MCPushed
  NoClone = NoClone
  Triples <- MCTriples
  Manifests <- MCManifests
  ImageTypes = {"executable", "container"}
  Bodies <- MCBodies
  MaxArtifactSize = 3
  Configs <- MCConfigs
  HostMounts <- MCHostMounts
  Requests <- MCRequests
  MountTables <- MCMountTables
  Attempts = 10
  Root = "root"
  Cmdlines <- MCCmdlines
  MaxBoots = 2
INVARIANTS
  
  EveryTaskIsHeld
  RefusedOnlyWhenEmpty
  ExecutableIsArtifact
  ContainerReady
  
  BootsAgain

  
  
CHECK_DEADLOCK FALSE
