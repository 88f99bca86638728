SPECIFICATION Spec
CONSTANTS
  m1 = m1  f1 = f1  f2 = f2  in = in  ex = ex  bcc = bcc
  Mail = {m1}
  Rcpt = {in, ex}
  Fork = {f1}
  MailOf <- OneMail
  Env <- Both
  Hdr <- ToBoth
  Known = {in}
  RuleRcpt = {ex}
  SendToAll = FALSE
  Traits <- AskingOnly
  Start <- PortalOn
  Faults = {}
  MaxEvents = 0
CHECK_DEADLOCK FALSE
INVARIANTS
  PortalServesAll
