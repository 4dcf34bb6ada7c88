SPECIFICATION FairSpec
CONSTANTS
  a = a
  b = b
  cron = cron
  dispatch = dispatch
  Nothing = Nothing
  Torn = Torn
  NumIssuers = 2
  Serials = {a, b}
  Wide = {}
  MaxCRL = 2
  Authority <- ChangeAndNone
  Runs = {cron, dispatch}
  Scheduled = {cron}
  MaxTroubles = 1
INVARIANTS
  TypeOK
  Provenance
  AssetsAgree
  PostedIsCommitted
PROPERTIES
  ImplementsOutside
  ImplementsStorage
  ReleaseRestored
