SPECIFICATION Spec
CONSTANTS
  m1 = m1  f1 = f1  f2 = f2  in = in  ex = ex  relay = relay  exo = exo
  Mail = {m1}
  Rcpt = {in, ex}
  Fork = {f1}
  MailOf <- OneMail
  Env <- OneFork
  Hdr <- ToBoth
  Internal = {m1}
  Ident = {}
  NoMid = {}
  Enc = {}
  External = {ex}
  Target <- AllExo
  Exo = exo
  Mode = "graph"
  ForkMode = "send_to_all"
  SmtpFallback = FALSE
  FallbackOnError = TRUE
  Faults = {"down"}
  HeldId = {h1, h2}
  None = None
  MaxHeld = 2
  DedupTtl = 2
  ForkTtl = 3
  GlitchCount = 1
  TransientCount = 1
  GlitchWait = 1
  TransientWait = 1
  SteadyWait = 1
  GiveUp = 1
  MaxEvents = 0
SYMMETRY HeldSym
CHECK_DEADLOCK FALSE
INVARIANTS NothingLost
