SPECIFICATION DhcpFairSpec
CONSTANTS
  Name = {"e1"}
  Dev = {"eth0"}
  Addr = {"x", "y"}
  StaticAddr = {"x"}
  Proc = {"p", "q"}
  MaxQueue = 2
  Sections = {"/ip/address", "/ip/dhcp-client"}
  CanDelete = {"/ip/dhcp-client"}
  MaxFailures = 0
  Nil = Nil
  Disciplined = TRUE
  Unknown <- MCUnknown
  Path <- RouterPath
  Uniq <- RouterUniq
  Field <- RouterField
  Data <- RouterData
  DepFields <- RouterDepFields
  Parent <- RouterParent
  Rank <- RouterRank
  Items <- RouterItems
  BuildUniq <- RouterBuildUniq
  RandomUniq <- MCRandomUniq
  Removable <- RouterRemovable
INVARIANTS DhcpTypeOK LeaseAgrees ShownIsInKernel OnlyOrphansCrash LeaseFlowInv
PROPERTIES LeaseShown
