\* A mailbox with S/MIME on its way from the group of one route to that of the other.
SPECIFICATION MailboxSpec
CONSTANTS
    Mailbox = {m}
    Saver = {a}
    MaxName = 1
    MaxSave = 2
    MaxMiss = 0
PROPERTY SmimeNeverLeaves
CHECK_DEADLOCK FALSE
