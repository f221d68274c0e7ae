SPECIFICATION FairSpec
CONSTANTS
  Names = {"a", "x", "y"}
  Depth = 1
  Contents = {"c0", "c1", "c2", "c3"}
  Nodes = {1, 2, 3, 4, 5}
  CopyNames = {"x", "y"}
  Compacted = TRUE
  Tree <- SamePath
  UserOps = {"write", "remove"}
  UserPaths <- OneFileAt
  UserContents = {"c2"}
  RemoteOps = {"create", "edit", "delete"}
  RemotePaths <- OneFileAt
  RemoteContents = {"c3"}
  EditsDuringPass = TRUE
  PageLimit = 1
  MaxUser = 1
  MaxRemote = 2
  MaxFault = 1
  MaxEpoch = 1
PROPERTY Convergence
