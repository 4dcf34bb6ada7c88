SPECIFICATION Spec
CONSTANTS
  cron = cron
  dispatch = dispatch
  NumIssuers = 1
  MaxCRL = 2
  Runs = {cron, dispatch}
  BaseFees = {1, 4}
  Tips = {1, 3}
  Ceiling = 5
  MaxReplacements = 1
  ConfirmTimeout = TRUE
  MaxPosts = 2
SYMMETRY RunSymmetry
INVARIANTS
  TypeOK
  FeesLegal
  ResendReplaces
  MinedOnce
  ReportTrue
PROPERTIES
  OnChainNeverGoesBack
  ImplementsStorage
