SPECIFICATION Spec
CONSTANTS
  m1 = m1  f1 = f1  f2 = f2  in = in  ex = ex  relay = relay  exo = exo
  Mail = {m1}
  Rcpt = {in, ex}
  Fork = {f1}
  MailOf <- OneMail
  Env <- OneFork
  Hdr <- ToBoth
  Internal = {m1}
  Ident = {}
  NoMid = {}
  Enc = {}
  External = {ex}
  Target <- InRelayed
  Exo = exo
  Mode = "smtp"
  ForkMode = "send_to_all"
  SmtpFallback = FALSE
  FallbackOnError = TRUE
  Faults = {"down", "lost_reply", "refuse", "disk", "torn"}
  HeldId = {h1, h2, h3}
  None = None
  MaxHeld = 1
  DedupTtl = 0
  ForkTtl = 0
  GlitchCount = 1
  TransientCount = 1
  GlitchWait = 1
  TransientWait = 1
  SteadyWait = 1
  GiveUp = 1
  MaxEvents = 1
SYMMETRY HeldSym
CHECK_DEADLOCK FALSE
INVARIANTS TypeOK LossExplained RetryLeavesOperatorsMail
