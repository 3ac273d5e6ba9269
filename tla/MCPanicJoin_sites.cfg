\* Two sites with one message, a caught panic and one of a helper thread.
SPECIFICATION Spec
CONSTANTS
  t1 = t1  t2 = t2  main = main  put = put  get = get
  boom = boom  boomMore = boomMore  quiet = quiet  poisoned = poisoned
  put_rs = put_rs  get_rs = get_rs  pool_rs = pool_rs  retry_rs = retry_rs
  Threads = {t1, t2}
  Other = main
  Quals = {put, get}
  Serial = {get}
  Messages = {boom, boomMore, quiet, poisoned}
  FirstLine <- TheFirstLine
  OwnSites <- TwoSites
  HelperSites <- HelperPoisoned
  CaughtSites <- CaughtQuiet
  MaxRuns = 2
  MaxRunsTotal = 3
  MaxMessages = 3
  JoinWindow = 2
  MaxLines = 4
  NoCall = NoCall
SYMMETRY Symmetric
CHECK_DEADLOCK FALSE
INVARIANTS SitesAreExact SitesAreToldApart JoinsAreTrue TrueSiteIsNamed
