SPECIFICATION Spec
CONSTANTS
  Vaults = {"v"}
  Folders = {"n"}
  FolderOf <- OneFolder
  Files = {"f", "g"}
  Contents = {"c0", "c1", "c2"}
  Stored <- OneStored
  Callers = {c1}
  UserContents = {"c1"}
  RemoteContents = {"c2"}
  FaultsAt = {"wipe"}
  MaxEdit = 1
  MaxRemote = 0
  MaxFault = 1
  MaxCrash = 0
INVARIANT NoEditLost
