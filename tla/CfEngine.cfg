SPECIFICATION FairSpec
CONSTANTS
  IfNames = {"a", "b"}
  AddrNames = {"a"}
  NatKeys = {"a", "b"}
  Nil = Nil
  Unknown = "unknown"
  Disciplined = TRUE
  Path <- MCPath
  Uniq <- MCUniq
  Field <- MCField
  Data <- MCData
  DepFields <- MCDepFields
  Parent <- MCParent
  Rank <- MCRank
  Items <- MCItems
  BuildUniq <- MCBuildUniq
  RandomUniq <- NatKeys
  Removable <- MCRemovable
INVARIANTS TypeOK DependentsExact Settled BackendOrder BackedIsTrue CalleeExists
PROPERTIES Supervises CfSetReturns
