SPECIFICATION Spec
CONSTANTS
  m1 = m1  f1 = f1  f2 = f2  in = in  ex = ex  bcc = bcc
  Mail = {m1}
  Rcpt = {in, ex, bcc}
  Fork = {f1, f2}
  MailOf <- OneMail
  Env <- Apart
  Hdr <- ToBoth
  Known = {in, bcc}
  RuleRcpt = {ex}
  SendToAll = TRUE
  Traits <- Kinds
  Start <- Starts
  Faults = {"raise", "send", "cipher", "portal", "ndr"}
  MaxEvents = 1
CHECK_DEADLOCK FALSE
INVARIANTS
  TypeOK
  NobodyForgotten
  PlainOnlyWhenWaived
  NoCircle
