SPECIFICATION Spec
CONSTANTS
  Names = {"a", "b", "x"}
  Depth = 2
  Contents = {"c0", "c1", "c2"}
  Nodes = {1, 2, 3, 4, 5, 6}
  CopyNames = {"x"}
  Compacted = FALSE
  Tree <- TwoScopes
  UserOps = {"write", "remove"}
  UserPaths <- TwoScopesAt
  UserContents = {"c2"}
  RemoteOps = {"create", "edit", "delete"}
  RemotePaths <- TwoScopesAt
  RemoteContents = {"c2"}
  EditsDuringPass = TRUE
  PageLimit = 2
  MaxUser = 1
  MaxRemote = 2
  MaxFault = 2
  MaxEpoch = 2
INVARIANTS NoPushWhileRebuilding EpochsInOrder CursorCoversIndex
PROPERTIES CompletedPassAgrees ResetMirrorsScope
