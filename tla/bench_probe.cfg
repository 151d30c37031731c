SPECIFICATION Spec
CONSTANTS
  Files = {"empty", "short", "long"}
  Length <- ImageLength
  Models = {"supported", "other", "unknown"}
  FileModel <- ImageModel
  Supported = {"supported", "other"}
  MaxSessions = 2
  Ports = {"p1", "p2"}
  Addresses <- TwoAddresses
  Tries = {1, 2}
  Scripts <- Names
  Chains <- AllChains
  MaxHits = 3
INVARIANT ProbeStaysLow
CHECK_DEADLOCK FALSE
