SPECIFICATION Spec
CONSTANTS
  Names = {"a", "x", "y", "z"}
  Depth = 1
  Contents = {"c0", "c1", "c2"}
  Nodes = {1, 2, 3, 4, 5, 6}
  CopyNames = {"x", "y", "z"}
  Compacted = TRUE
  Tree <- OneFile
  UserOps = {"write", "remove"}
  UserPaths <- OneFileAt
  UserContents = {"c1"}
  RemoteOps = {"create", "edit", "delete"}
  RemotePaths <- OneFileAt
  RemoteContents = {"c2"}
  EditsDuringPass = TRUE
  PageLimit = 1
  MaxUser = 1
  MaxRemote = 1
  MaxFault = 0
  MaxEpoch = 0
PROPERTY NoSilentLoss
