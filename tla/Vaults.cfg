SPECIFICATION Spec
CONSTANTS
  Vaults = {"v"}
  Folders = {"n"}
  FolderOf <- OneFolder
  Files = {"f", "g"}
  Contents = {"c0", "c1", "c2"}
  Stored <- OneStored
  Callers = {c1, c2}
  UserContents = {"c1"}
  RemoteContents = {"c2"}
  FaultsAt = {"list", "download", "decrypt", "encrypt", "wipe", "upload"}
  MaxEdit = 1
  MaxRemote = 1
  MaxFault = 2
  MaxCrash = 1
SYMMETRY Alike
INVARIANTS TypeOK EditsSurvive PlaintextOwned
PROPERTY SavedOnReturn
