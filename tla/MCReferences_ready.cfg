SPECIFICATION FairSpec
CONSTANTS
  Kinds = {"Host", "Playbook", "SSHKey", "Inventory"}
  Owner = "ns"
  Specs <- MCSpecs
  HostSets <- MCHostSets
  FileSets <- MCFileSets
  Chains <- Chained
  Amounts <- MCAmounts
  Users <- MCUsers
  Lists <- MCLists
  Asked <- MCAsked
  Workers = {w1, w2}
  MaxEdits = 1
  MaxFaults <- MCMaxFaults
INVARIANTS JumpChainConnects  ListShowsAllowed
PROPERTIES ReadySettles ChecksGoQuiet
