SPECIFICATION FairSpec
CONSTANTS
  None = None
  a = a
  a__b = a__b
  web = web
  Servers = {a, a__b, web}
  Rank <- Ranks
  Offers <- OffersOf
  Matching <- MatchingOf
  Files <- FilesOf
  NameOf <- NamesOf
  Prefixed <- PrefixedBy
  Failing = {a, a__b}
  Workers = {w1, w2}
  StartFaults = {"config", "store", "prompts", "transport"}
INVARIANTS TypeOK ListedWorks NothingLeftOpen
PROPERTIES EndsOnceStopped
CHECK_DEADLOCK FALSE
