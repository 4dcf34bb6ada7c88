SPECIFICATION FairSpec
CONSTANTS
  a = a
  b = b
  cron = cron
  dispatch = dispatch
  Nothing = Nothing
  Torn = Torn
  NumIssuers = 1
  Serials = {a, b}
  Wide = {}
  MaxCRL = 2
  Authority <- OneChange
  Runs = {cron}
  Scheduled = {cron}
  MaxTroubles = 1
PROPERTY
  NotesCatchUp
