-------------------------------- MODULE MCTenant --------------------------------
(* What administrators set up and look after, and what the gateway does      *)
(* about it day by day: its identity in the tenant, the mailboxes and the    *)
(* rules of the mail flow, keys, templates and their editor, updates, the    *)
(* account at the hub; the checks of the mailboxes, the daily round and the  *)
(* counters.  The parts have nothing of their state in common and each is    *)
(* checked by itself: at the start one of them is chosen, and only its       *)
(* variables move.                                                           *)
EXTENDS AppIdentity, Mailboxes, OwnKeys, Templates, SelfUpdate, HubAccount,
        Builder, Health, Daily, Counters

VARIABLE which

setupVars == <<identityVars, mailboxVars, keyVars, templateVars, updateVars>>
dutyVars == <<accountVars, builderVars, healthVars, dailyVars, countVars>>
mcVars == <<setupVars, dutyVars, which>>

Init ==
  /\ which \in {"identity", "mailboxes", "keys", "templates", "update", "hub",
            "builder", "health", "daily", "counters"}
  /\ IdentityInit /\ MailboxInit /\ KeysInit /\ TemplateInit /\ UpdateInit
  /\ AccountInit /\ BuilderInit /\ HealthInit /\ DailyInit /\ CountersInit
  /\ which # "identity" => certs = 0
  /\ which # "hub" => hubKey = None
  /\ which # "daily" => expires = MaxDay

SetUp ==
  /\ UNCHANGED <<which, dutyVars>>
  /\ \/ /\ which = "identity" /\ IdentityNext
        /\ UNCHANGED <<mailboxVars, keyVars, templateVars, updateVars>>
     \/ /\ which = "mailboxes" /\ MailboxNext
        /\ UNCHANGED <<identityVars, keyVars, templateVars, updateVars>>
     \/ /\ which = "keys" /\ KeysNext
        /\ UNCHANGED <<identityVars, mailboxVars, templateVars, updateVars>>
     \/ /\ which = "templates" /\ TemplateNext
        /\ UNCHANGED <<identityVars, mailboxVars, keyVars, updateVars>>
     \/ /\ which = "update" /\ UpdateNext
        /\ UNCHANGED <<identityVars, mailboxVars, keyVars, templateVars>>

Duties ==
  /\ UNCHANGED <<which, setupVars>>
  /\ \/ /\ which = "hub" /\ AccountNext
        /\ UNCHANGED <<builderVars, healthVars, dailyVars, countVars>>
     \/ /\ which = "builder" /\ BuilderNext
        /\ UNCHANGED <<accountVars, healthVars, dailyVars, countVars>>
     \/ /\ which = "health" /\ HealthNext
        /\ UNCHANGED <<accountVars, builderVars, dailyVars, countVars>>
     \/ /\ which = "daily" /\ DailyNext
        /\ UNCHANGED <<accountVars, builderVars, healthVars, countVars>>
     \/ /\ which = "counters" /\ CountersNext
        /\ UNCHANGED <<accountVars, builderVars, healthVars, dailyVars>>

Next == SetUp \/ Duties

Spec == Init /\ [][Next]_mcVars

(* The type invariants of the ten components.                              *)
TypesOK ==
  /\ IdentityTypeOK /\ MailboxTypeOK /\ KeysTypeOK /\ TemplateTypeOK /\ UpdateTypeOK
  /\ AccountTypeOK /\ BuilderTypeOK /\ HealthTypeOK /\ DailyTypeOK /\ CountersTypeOK

(* A save of the mailboxes holds (Mailboxes.tla): the mail flows as it says, *)
(* and what the owners chose for themselves stays.                           *)
SavedHolds == RoutedAsSaved /\ ChoicesKept

(* The report of the day: it comes once, whatever restarts, and tells each   *)
(* event once, whatever is counted meanwhile.                                *)
ReportedOnce == OnceADay /\ ToldOnce
===============================================================================
