SPECIFICATION Spec
CONSTANTS
  Token = {t1}
  Browser = {b1, b2}
  Nobody = Nobody
  Retention = 3
  OtpTtl = 2
  Cooldown = 1
  AccessTtl = 2
  MaxTries = 1
  MaxCodes = 2
  MaxEvents = 2
  Faults = {"send", "db", "crash"}
  SentFork = {f, g}
  Original = o
  MaxSentStop = 1
  Author = {a, b}
  Outsider = {o}
  MaxThread = 3
  Person = {p}
  Upn = {u, v}
  NoPerson = np
  MaxListChange = 3
  MaxRename = 1
  MaxListed = 2
  SignInId = {s1, s2}
  MaxAge = 1
  MaxSignInStop = 1
INVARIANTS TypesOK AlikeStayReadable OneFullBlock AdminRemains EffectAsBegun
PROPERTIES DisclosureKept MessagesKept
CHECK_DEADLOCK FALSE
