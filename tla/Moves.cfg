SPECIFICATION Spec
CONSTANTS
  Names = {"a", "b", "x"}
  Depth = 2
  Contents = {"c0", "c1", "c2"}
  Nodes = {1, 2, 3, 4, 5, 6}
  CopyNames = {"x"}
  Compacted = TRUE
  Tree <- OneFolder
  UserOps = {"write", "remove", "move"}
  UserPaths <- OneFolderAt
  UserContents = {"c1"}
  RemoteOps = {"create", "mkdir", "edit", "delete"}
  RemotePaths <- OneFolderAt
  RemoteContents = {"c2"}
  EditsDuringPass = FALSE
  PageLimit = 2
  MaxUser = 2
  MaxRemote = 2
  MaxFault = 0
  MaxEpoch = 0
PROPERTIES PassSettles NoSilentLoss
