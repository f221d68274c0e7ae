SPECIFICATION Spec
CONSTANTS
  Vaults = {"v", "w"}
  Folders = {"n"}
  FolderOf <- OneFolder
  Files = {"f", "g"}
  Contents = {"c0", "c1", "c2"}
  Stored <- OneStored
  Callers = {c1, c2}
  UserContents = {"c1"}
  RemoteContents = {"c2"}
  FaultsAt = {"decrypt", "encrypt", "wipe", "upload"}
  MaxEdit = 1
  MaxRemote = 0
  MaxFault = 1
  MaxCrash = 1
SYMMETRY Alike
INVARIANTS EditsSurvive PlaintextOwned
