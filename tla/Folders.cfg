SPECIFICATION Spec
CONSTANTS
  Names = {"a", "b", "x"}
  Depth = 2
  Contents = {"c0", "c1", "c2"}
  Nodes = {1, 2, 3, 4, 5, 6}
  CopyNames = {"x"}
  Compacted = TRUE
  Tree <- OneFolder
  UserOps = {"write", "remove", "mkdir", "move"}
  UserPaths <- OneFolderAt
  UserContents = {"c1"}
  RemoteOps = {"create", "mkdir", "edit", "delete", "move"}
  RemotePaths <- OneFolderAt
  RemoteContents = {"c2"}
  EditsDuringPass = FALSE
  PageLimit = 2
  MaxUser = 1
  MaxRemote = 2
  MaxFault = 1
  MaxEpoch = 0
INVARIANTS TypeOK CursorCoversIndex
PROPERTY NoSilentLoss
