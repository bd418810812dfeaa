SPECIFICATION RouterSpec
CONSTANTS
  Name = {"e1", "e2", "e3"}
  Dev = {"eth0", "eth1"}
  Addr = {"x"}
  StaticAddr = {"x"}
  Sections = {"/ip/address"}
  CanDelete = {"/ip/address"}
  MaxFailures = 1
  Nil = Nil
  Disciplined = TRUE
  Unknown <- MCUnknown
  Path <- RouterPath
  Uniq <- RouterUniq
  Field <- RouterField
  Data <- RouterData
  DepFields <- RouterDepFields
  Parent <- RouterParent
  Rank <- RouterRank
  Items <- RouterItems
  BuildUniq <- RouterBuildUniq
  RandomUniq <- MCRandomUniq
  Removable <- RouterRemovable
INVARIANTS RouterTypeOK KernelAgrees AddressOnUpLink MirrorAgrees IInv
