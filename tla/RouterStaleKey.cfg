SPECIFICATION RouterSpec
CONSTANTS
  Name = {"e1", "e2", "e3"}
  Dev = {"eth0", "eth1"}
  Addr = {"x"}
  StaticAddr = {"x"}
  Sections = {"/ip/address"}
  CanDelete = {"/ip/address"}
  MaxFailures = 0
  Nil = Nil
  Disciplined = FALSE
  Unknown <- MCUnknown
  Path <- RouterPath
  Uniq <- RouterUniq
  Field <- RouterField
  Data <- RouterData
  DepFields <- RouterDepFields
  Parent <- RouterParent
  Rank <- RouterRank
  Items <- RouterItems
  BuildUniq <- RouterBuildUniq
  RandomUniq <- MCRandomUniq
  Removable <- RouterRemovable
INVARIANTS NoAddressLeft
