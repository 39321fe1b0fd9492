SPECIFICATION DialoguesSpec
CONSTANTS
  NumCommands = 3
  Replies <- TheReplies
  ReadTimeout = 1
  AbsoluteTimeout = 2
  MaxOutput = 5
  WireSize = 2
  MaxRetries = 1
  Scripts <- App
  MaxRequests = 2
  MaxFaults = 1
  Banners <- TheBanners
  Outputs <- TheOutputs
  Kept = 3
  MaxKeys = 2
  MaxMishaps = 1
CHECK_DEADLOCK FALSE
INVARIANTS
  RepliesAreWhole
  AnswersAreTrue
  ChangesAreAudited
  FollowersSee
  RepeatsAreHarmless
  PasswordIsTypedOnce
PROPERTIES
  SessionEnds
  ShellEnds
