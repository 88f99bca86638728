SPECIFICATION Spec
CONSTANTS
  m1 = m1  f1 = f1  f2 = f2  in = in  ex = ex  relay = relay  exo = exo
  Mail = {m1}
  Rcpt = {in, ex}
  Fork = {f1, f2}
  MailOf <- OneMail
  Env <- TwoForks
  Hdr <- ToBoth
  Internal = {m1}
  Ident = {}
  NoMid = {}
  Enc = {m1}
  External = {ex}
  Target <- AllExo
  Exo = exo
  Mode = "graph_plus"
  ForkMode = "send_to_all"
  SmtpFallback = FALSE
  FallbackOnError = TRUE
  Faults = {"down"}
  HeldId = {h1, h2}
  None = None
  MaxHeld = 1
  DedupTtl = 1
  ForkTtl = 1
  GlitchCount = 1
  TransientCount = 1
  GlitchWait = 1
  TransientWait = 1
  SteadyWait = 1
  GiveUp = 1
  MaxEvents = 1
SYMMETRY HeldSym
CHECK_DEADLOCK FALSE
INVARIANTS Ledger
