SPECIFICATION Spec
CONSTANTS
  OofMailbox = {m1}
  MaxVersion = 2
  MaxWin = 2
  MaxOwner = 2
  MaxOofCrashes = 1
  ReplySender = {x, y}
  ReplyThread = {t1, t2}
  MaxAbsence = 1
  MaxReplies = 2
  MaxTurns = 2
  MaxChange = 1
  MaxRestore = 2
  MaxStoreCrash = 1
  MaxDay = 2
  MaxImport = 1
  MaxTlsCrash = 2
  Watcher = {w1, w2}
  MaxOutage = 1
  MaxSetup = 1
  MaxDeath = 1
INVARIANTS TypesOK AnswersAreBounded StoredWhole
PROPERTIES AbsenceKept RenewalArrives BypassHandled
CHECK_DEADLOCK FALSE
