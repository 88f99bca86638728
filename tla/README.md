# Verification of the EXO Signature Gateway

TLA+ models of the gateway: the way a mail takes through it, and the state that
decides about that way: settings, certificates, keys, mailboxes, templates,
absences, the portal, the sign-ins of administrators, and the jobs that look after
all this. TLC checks the models on small instances; TLAPS proves every invariant
the runs check, and both refinements, for every instance; liveness stays with TLC. `PROJECT.json` holds the runs, the mutants that
show each property can fail, the map from definitions to source lines, the
findings, the hazards and the theorems.

To repeat: `tlc -config office.cfg MCOffice.tla` and so on (the table in section 4
names the module of each run), `tlapm Handler_proofs.tla` and so on for each
`*_proofs` module.

## 1. The system

The gateway sits behind Exchange Online. Transport rules route mail of enabled
mailboxes to it over SMTP; it adds a signature, signs or encrypts (S/MIME),
decrypts incoming mail, and gives the mail back to Exchange with a loop marker
that the same rules exempt. Everything runs in one Python process:

| Thread | Code | Works on |
|---|---|---|
| SMTP event loop (ports 25 and 587) | `handler.py` | one section of `handle_DATA` at a time between awaits |
| scheduler, a 60-second loop | `scheduler.py` | retries, renewals, purge, polls, the daily round, one after the other |
| web interface: one event loop and its executor | `webui/` | operators, self-service, portal readers, tasks they start |
| port-80 listener | `acme_client.py` | certificate challenges |

Outside stand Exchange, Entra and Graph, the Key Vault, certificate authorities,
the operator's hub, `update-watcher.sh` on the host, and bypass watchers in other
places. Each is modelled by what the code in `src/` asks of it and can get back.

Inventory, with the state each part keeps and what makes it correct:

| Part | State | Operations | Must hold | Hard because |
|---|---|---|---|---|
| SMTP handler | suspended transactions, `wants_encryption` | branches of `handle_DATA`, except clause | nobody is forgotten; no plain text by accident; no circle | awaits; settings and certificates change meanwhile; exceptions anywhere |
| Re-injection, Graph, IMAP | `_mixed_fork_registry`, `_sendmail_dedup` (memory) | `send`, filter, POST, fallbacks | no loss | nested fallbacks, two forks, failures stay registered |
| Held mails | one file per mail, at most 200 | hold, read, delete, due, mark failed | a mail waits until somebody takes it | cap, torn writes, two threads on one file |
| Access to the ports | devices, identities, learning mode | three questions of `handle_DATA`, the pages | only admitted devices; decisions stand | list changes between the questions |
| Routing, forwarding | targets, four kinds of routes, loop brake (memory) | group, resolve, forward, save | routes exist; internal mail stays inside; circles end | resolved later than grouped; memory lost at restart |
| Partner certificates | stock, waiting room, revocation lists in memory and file | harvest, release, check | a revocation bites; nothing vanishes | three caches, restart, late issuers |
| Own keys | slots, files, one key in the vault | sign, migrate, import, relock, delete | no key is lost; key fits certificate | copy and removal apart; failing vault |
| Certificate orders | order files, tasks in three loops, batch run | start, challenge, poll, fetch, consent, pause | an order once; its key stays | copies of an order per task; restart between two files |
| Portal | SQLite rows, blobs, one-time codes | create, code, verify, read, reply, revoke, purge | one code, one browser; nothing outlives its expiry | row and blob are two stores, three threads |
| Sent Items | items in Exchange, registry (memory) | three passes of patch or delete | the sender can still read his mail | copies arrive late, two clean-ups at once |
| Signatures | thread memory, marks in HTML | choose full, reply or no signature | one full signature per conversation | marks dropped, quotes cut, add-in's guess |
| Templates, builder | text, kind, references; blocks | rename, delete, assign, upkeep, convert | no mail changes by upkeep; conversion keeps conditions | only the name connects them; recognisers |
| Mailboxes and rules | `MAILBOX_CONFIG`, groups, rules in Exchange | save, update of groups, split, rename | saved is routed; choices stay; orders only when switched on | minutes between save and effect; cached or missing list |
| App in Entra | certificate, secrets, pool | setup, rotation, pool, removal of secrets | Graph stays reachable | Entra distributes late; overlapping runs |
| Settings, restore | memory, file, `.bak`, `.tmp` | update, load, migrate, restore | acknowledged is kept; a restore is whole | crash between two renames; restore without the lock |
| TLS pair | two files, certbot's own pair | renew, import, DNS-01 | files fit; renewal arrives | files written one after the other |
| Out of office | memory file, Exchange's settings | poll, self-service, reply to stored mail | text arrives; turned on once; answers bounded | copies of the memory, lost answers |
| Administrators, sign-ins | `ADMIN_USERS`, sessions, `_sessions` | add, save, sign in, paste | an administrator remains; an answer does what it was begun for | awaits on Graph; answers late and elsewhere |
| Hub account | consents, key, claim, licence | read, agree, register, order | orders rest on read terms | documents change under an open page |
| Update | trigger and status files | order, script on the host | orders come through | nothing locked, script may stop |
| Watchers | transport rule, heartbeats | probe, switch, banner | a bypass ends; the banner is true | nothing coordinates them |
| Daily round, health, counters | last run, announced, results, totals | announce, report, check, repair, count | once a day; green is earned; each event told once | restart within a round; two callers |
| Setup of connectors, DNS checks, audit, traces, packaging | - | - | - | straight calls or records that never decide (section 7) |

Interactions that matter: the handler calls `send` synchronously, so a
transaction blocks the loop inside it; the scheduler and the web worker call the
same `send` with `queue_on_failure=False` in threads of their own; all three
share registry, filter and queue directory, and only the registry has a lock;
everything but files and SQLite is gone after a restart; Exchange offers a
transaction again until it gets a 250. Requests of the web interface run
undisturbed from one await to the next, and most of them await Graph, PowerShell,
the vault or the hub between reading a setting and writing it.

## 2. The modules

| Module | What it is | Code |
|---|---|---|
| `Custody` | abstract: who is responsible for a copy of a mail, and how that moves | `reinject.py`, `held_mails.py` |
| `Delivery` | `send` and all behind it; three threads, queue, operator, restart, time | `reinject.py`, `graph_reinject.py`, `held_mails.py`, `scheduler.py` |
| `Handler` | `handle_DATA`: sections between awaits, exceptions, settings, certificates | `handler.py` |
| `AcmeOrders`, `HubOrders`, `BatchRun` | certificates ordered by ACME, at the hub, many at once | `acme_state.py`, `hub_orders.py`, `sammelbestellung.py` |
| `RecipientCerts` | partner certificates from harvest to use | `smime_harvest.py`, `trust_store.py`, `crl_check.py` |
| `Routing`, `Forwarding` | targets and routes; the brake between two gateways | `domain_routing.py`, `direktversand.py` |
| `RelayAccess` | who may hand mail to the gateway | `smtp_relay.py`, `relay_hosts.py` |
| `OutOfOffice`, `AbsenceReplies` | absences and the answers to stored mail | `abwesenheit.py`, `oof_ablage.py` |
| `SettingsStore` | settings file and restore | `settings_store.py`, `backup_manager.py` |
| `TlsCert` | the TLS pair of the listeners | `le_certbot.py`, `tls_cert.py` |
| `Watchdog` | bypass watchers, rule, banner | `contrib/watchdog`, `waechter_*.py` |
| `Disclosure` | abstract: who may see a portal message, and until when | comment in `portal_store.py` |
| `Portal` | the secure message portal | `portal_store.py`, `routen/portal.py` |
| `SentItems` | the clean-up of Sent Items | `handler.py`, `graph_client.py` |
| `Signatures` | which signature a mail of a conversation gets | `handler.py`, `mail_processor.py`, `sig_thread.py` |
| `Admins`, `SignIns` | list of administrators; sign-ins begun here | `routen/anmeldung.py`, `sso.py`, `pkce.py` |
| `AppIdentity` | the app in Entra, its certificate, the pool | `setup_wizard.py`, `graph_client.py` |
| `Mailboxes` | saves of the mailbox page, groups, split rules | `routen/mailboxes.py`, `regel_split.py`, `scripts/*.ps1` |
| `OwnKeys` | slots, key files and the vault | `smime_store.py`, `smime_signer.py`, `keyvault_*.py` |
| `Templates`, `Builder` | templates and what names them; source to blocks and back | `routen/vorlagen.py`, `template_parser.py` |
| `SelfUpdate` | trigger files and the script on the host | `update_core.py`, `update-watcher.sh` |
| `HubAccount` | consent, connection, orders, licence | `legal_consent.py`, `hub_client.py` |
| `Health`, `Daily`, `Counters` | check of the mailboxes, daily round, counters | `health_check.py`, `scheduler.py`, `stats.py` |
| `MCDelivery`, `MCHandler` | instances for TLC | |
| `MCGateway`, `MCUpkeep`, `MCOffice`, `MCTenant` | instances that check several parts in one run | |
| `Delivery_proofs`, `Handler_proofs`, `Gateway_proofs`, `Upkeep_proofs`, `Office_proofs`, `Tenant_proofs` | proofs about `Delivery`, `Handler` and the parts of each composite, section 6 | |
| `AppIdentity_proofs`, `Mailboxes_proofs` | the two longest of the parts of `MCTenant` | |

How they fit together. `Delivery` and `Handler` meet at `reinject.send`: `Handler`
treats it as one step with the outcomes the code can produce (delivered for the
envelope, for all header recipients, for nobody because a sibling was confirmed,
or an exception after any part of it), `Delivery` opens that step up and treats the
handler as the thread `smtp` that accepts, waits and answers. `RelayAccess` is the
head of `handle_DATA`, `Signatures` its normal outbound branch, `SentItems` the
task it starts, `Forwarding` its tenant route; `Handler` has each of them as one
step. `RecipientCerts` and `OwnKeys` decide what `Handler` sees as a usable
certificate or a cipher that fails. `HubOrders` and `AcmeOrders` put into the store
what `OwnKeys` keeps; `BatchRun` and `Mailboxes` place the orders.

The four `MC…` composites hold parts that share no variable. Their state
variable `which` is chosen at the start and only the chosen part moves, so a run
explores the sum of the parts' states and not their product; a part's fairness
holds when it is the chosen one.

### Delivery

- `job[t]` is the `send` that thread `t` is in: the step (`pc`), which Graph call
  it is (`call`), recipients still to do (`todo`), failed ones (`bad`), and for
  a retry the held mail (`hid`). Every network call is a step of its own.
  `StartStage`, `SendStage`, `ForkStage`, `MixedStage`, `PathStage`, `GraphFalse`
  are the order in which `send` tries its ways.
- `held`, `older`: the queue directory; `older` is the order of the files'
  modification times, which decides what the cap evicts. `torn` marks a file whose
  write failed half-way. `why`, `tries`, `wait`, `age`, `over` are the JSON fields
  `reason`, `attempts`, `next_retry`, `first_failed`, `retry_exhausted`.
- `dedup`, `forkReg`: ages of the entries of `_sendmail_dedup` and
  `_mixed_fork_registry`.
- Time is ages and remaining waits in minutes (`Tick`), so the state space is
  finite without a bound on the clock. Waits count down together, a step of a
  thread takes any time.
- `delivered`, `twice`, `told`, `discarded`, `gone` are history. `gone` notes the
  places where the code lets go of a recipient: `swallowed` (duplicate filter),
  `uncovered` (send-to-all does not name the recipient), `evicted` (full queue),
  `refused` (ignored dictionary of smtplib), `torn` (rewrite of a queue file),
  `unreported` (failed non-delivery report).
- Faults are a constant set: `down` (no token, no connection, an error answer),
  `lost_reply` (accepted, but the caller sees a failure), `refuse` (some
  recipients refused), `disk` (a new queue file cannot be written), `torn` (the
  rewrite of a queue file fails).

### Handler

- `mail` is chosen at the start from a set of kinds (`AllTraits`): who delivers
  it, what sort it is, whether it carries the marker, what its sender has
  switched on, whether it asks for encryption.
- An action is a section of `handle_DATA` between two awaits; `pc` is the await a
  transaction is suspended at (`decrypt`, `user`, `sign`) or its answer. Between
  sections other transactions run, `Switch` flips any setting, `Certificate`
  changes any recipient's certificate, `Restart` drops what is suspended. What a
  section does is atomic towards the two other threads as well; where they meet
  it in shared state (the queue, the duplicate filter, `relay_hosts.db`) the
  modules `Delivery` and `RelayAccess` have the finer steps.
- `Caught` is the except clause. `Raise` enters it at any section before
  something was handed over, `Send` and `Return` after none, some or all of the
  recipients got it. In the offered section an exception may come before or after
  the encryption test, with the value `wants_encryption` has there.
- `gone` and `waived` are history again: where the handler answers 250 although a
  recipient got nothing (`harvest`, `acme`, `own`, `inner`, `portal`, `has_cert`,
  `unreported`, and `bcc` for who stands in the envelope of a mixed fork but in no
  header), and where it passes encryption over (`branch`: a branch before
  the test; `early`: an exception before it; `off`: S/MIME switched off; `cipher`:
  both ciphers failed).

### The other parts

Each module opens with what it models and a comment on every variable; the names
are the source's where TLA+ allows. The conventions are common to all:

- A request or task is a record with a place (`at`) and the values it has read;
  an action is what happens between two awaits, or between two accesses to a file
  that another thread or process can see.
- Two stores that belong together (row and blob, certificate and key, key file and
  JSON, settings file and its copy) are written in two steps, with a stop possible
  between them.
- A call of an outside system takes effect, or fails, or takes effect and loses
  its answer.
- History variables are marked `ghost` or `history`; no guard of a code action
  reads them, except where a bound is drawn on them.
- `Max…` constants bound clocks, restarts, faults and what people do, and are
  named in the guard they bound.

## 3. The properties

**On the way of a mail**

- **LossExplained** (`Delivery`): after the 250 a recipient has the mail, or it
  waits in the queue, or the sender was told, or an administrator threw it away,
  or the code let go of it in one of the six places above. **NothingLost** without
  these places is what the comments promise; the run that refutes it is a finding.
- **RetryLeavesOperatorsMail**: the list of due mails is made once and worked off
  while operators release and delete; the scheduler still never sends a mail held
  for maintenance or given up.
- **CustodyKept**: `Delivery` implements `Custody`. `Place` maps a copy to whoever
  is responsible for it; no step leads out of the five places or back to Exchange.
  Faults that let go of a mail are left out of this run, since there the promise
  is known not to hold; what remains are all interleavings of the three threads
  with failures, lost replies, restarts, release and discard.
- **EveryMailResolved**: retries end. **Ledger**: the invariant of the proof.
- **NobodyForgotten**, **PlainOnlyWhenWaived**, **NoCircle** (`Handler`): the same
  questions for `handle_DATA`, across awaits, overtaking forks, exceptions, and for
  recipients no header names.
- **WaysHold**: what the relay passed on came from a device that is in the list,
  not blocked and allowed its recipients; routes name existing targets; the route
  for external recipients takes nobody of the own domains out; a circle of a mail with
  a Message-ID is braked within a window, each restart allowing as many rounds again.
  **NothingOverruled**: the
  learning mode changes no entry; a fork is not taken for a circle.
- **AlikeStayReadable**: however many clean-ups overlap, the sender's mail stays
  readable in Sent Items where all forks are encrypted or none.
- **OneFullBlock**: whoever reads a mail of a mailbox finds its full signature once,
  unless the add-in's block cannot be taken out again.

**Certificates, keys and orders**

- **EachOrderOnce**: for the claim of an order one answer is sent though three loops
  find the mail and tasks hold copies of earlier orders; a consent orders once; a batch
  run leaves nobody out when it pauses. **KeyKept**:
  an order the hub took has its key, in memory, in a file or in the store.
- **PartnersKept**: a revoked certificate is used at most for the life of one list,
  whichever cache answers and whoever signed what was served, if its authority names
  where the list is, when the next one comes and who signs it; the other authorities
  are in the model and excepted (section 5). None vanishes without a person's word.
- **NoKeyLost**: between copying a key to the vault and removing its file
  everything may fail, crash or be replaced; the key still exists somewhere.
- **PairsFit** (in **StoredWhole**), **RenewalArrives**: the TLS files fit, except
  between the two writes and after one of them failed or was cut off; and the renewed
  pair is in use in the end.

**What administrators set up**

- **DisclosureKept**: `Portal` implements `Disclosure`. **MessagesKept**: an open
  message has its content, a code opens it for one browser, leftovers have a known
  cause, and every message goes in the end.
- **StoredWhole**: an acknowledged setting is what the next start reads; the settings
  of a backup take effect only with all its files written, two restores at once
  included, and a reported success means it unless another change raced it.
- **SavedHolds**, **OnlySwitchedOnOrders**: a save that ran alone repairs the mail
  flow whatever was before; what owners chose stays; for an address a certificate is
  ordered no more often than S/MIME was switched on or the mailbox came back to it,
  through renames and migrations.
- **GraphStaysReachable**: no rotation, removal, retry or restart locks the gateway
  out of Graph, and a secret goes only while the certificate works, except after two
  that crossed or one that ended halfway.
- **AdminRemains**, **EffectAsBegun**, **OrdersWereRead**, **OrdersComeThrough**:
  somebody can still enter; an answer of a sign-in does only what it was begun for;
  nothing is ordered on terms nobody was shown, and a certificate, which the gateway
  orders unasked, is not bought on terms nobody was shown; an update never blocks the
  next.
- **UpkeepUnseen**, **ConvertedAlike**: a start of the process, and a rename of a
  template once it is through, change no text a mail carries but the banner of a
  running campaign; nor does taking source into the builder.

**Day by day**

- **AbsenceKept**, **AnswersAreBounded**: an absence is not turned on again for the
  window it was turned on for last, no PATCH without need, the text arrives; of an
  absence with one text a sender is answered once, with two texts once for each turn
  the other text took.
- **BypassHandled**: one living watcher ends the bypass; the banner tells the truth.
- **GreenIsEarned**, **ReportedOnce**: of a green mailbox Exchange confirmed the
  membership, or refused it in words that speak of a member, and its signature was
  tried within the day, whichever copy of the table was stored last; nobody gets the same mail twice a day; each event is reported once.

## 4. The runs

| Run | Module | Checks | States | Instance |
|---|---|---|---|---|
| `delivery_smtp` | `MCDelivery` | TypeOK, LossExplained, RetryLeavesOperatorsMail | 276 000 | one mail to two recipients, one of them routed; every fault; queue of one |
| `delivery_live` | `MCDelivery` | CustodyKept, EveryMailResolved | 69 000 | the same mail, fairness, failures and lost replies, a queue that does not overflow |
| `delivery_graph` | `MCDelivery` | Ledger | 1 550 000 | graph_plus, two forks, encryption asked for, failing servers |
| `handler` | `MCHandler` | TypeOK, NobodyForgotten, PlainOnlyWhenWaived, NoCircle | 1 619 000 | 17 kinds of mail, 3 settings, two forks, a recipient in no header, every fault, one event |
| `gateway` | `MCGateway` | TypesOK, EachOrderOnce, KeyKept, PartnersKept, WaysHold, NothingOverruled | 1 436 000 | seven parts |
| `upkeep` | `MCUpkeep` | TypesOK, AnswersAreBounded, StoredWhole, AbsenceKept, RenewalArrives, BypassHandled | 430 000 | five parts, fairness |
| `office` | `MCOffice` | TypesOK, AlikeStayReadable, OneFullBlock, AdminRemains, EffectAsBegun, DisclosureKept, MessagesKept | 513 000 | five parts, fairness of the portal |
| `tenant` | `MCTenant` | TypesOK, GraphStaysReachable, OnlySwitchedOnOrders, SavedHolds, NoKeyLost, OrdersComeThrough, OrdersWereRead, GreenIsEarned, ReportedOnce, UpkeepUnseen, ConvertedAlike | 818 000 | ten parts |
| `delivery_dedup_loss` | `MCDelivery` | refutes NothingLost | | no operator, no restart; one fork |
| `handler_portal_gap` | `MCHandler` | refutes PortalServesAll | | no fault at all |
| `key_wrong` | `OwnKeys` | refutes LocalKeySigns | | two slots, three acts |
| `split_gap` | `Mailboxes` | refutes SmimeNeverLeaves | | one mailbox |

Why the bounds suffice. In `Delivery` nothing depends on the number of mails beyond
sharing registry, filter and queue, which are keyed by mail; two forks are the
least that can cover or miss each other, a queue of one entry the least that
evicts, and retries differ only by the three waits of `Cadence`, each reached with
counts of one. `delivery_graph` leaves the disk fault out (`delivery_smtp` has it,
and the proof covers all together). `MaxEvents` bounds restarts and operator
actions (in `Handler`: restarts, 451 answers and changes of settings and
certificates) together. In the composites every part has as many actors as its
races need: two starters, two browsers, two watchers, the scheduler and the button,
two tasks and two orders of one mailbox, two saves of direct sending, two restores; values that are only compared come as one or
two; clocks run past the longest life of what they age; each kind of stop or
fault occurs at least once. Where one actor more changed nothing (a second mailbox
of the same save, a second device) there is one. The mutants show that each
property's bad case lies within these bounds.

`CHECK_DEADLOCK FALSE` is set because every instance may come to rest: all mail
answered, tasks ended, no act and no fault left within the bounds.

Fairness. `Delivery` (`FairSpec`): the scheduler's `while True` loop and its
60-second sleep justify weak fairness of its run and of `Tick`; a thread inside
`send` goes on, because every network call has a timeout; Exchange offers a
transaction again until it gets its 250, strongly fair because the gateway may be
busy in between. `Portal`: clock, purge and requests under way go on, and the
database is not locked for ever. `OutOfOffice`: the poll comes again, and a mailbox
whose requests can succeed is served again and again. `TlsCert`: the daily run
comes again and certbot succeeds when it may again and again. `Watchdog`: an outage
ends, living watchers go on, and Exchange answers again and again. Nothing is
assumed of people.

Simplifications of the instances. `Health`: a round takes less than half a day and
the clock does not move within it. `Daily`: a round ends on the day it began, lost
or restored settings restart the count, and a renewal that begins brings its
certificate at once. `OwnKeys`: one mailbox, all kinds of keys alike,
`SMIME_KEY_ENCRYPT` at its default. `AppIdentity`: tokens are not cached and roles
are granted. `Mailboxes`: no notification mailbox or sending identities in the
groups, Exchange's groups take effect at once, and in the run saves come one after the
other (both properties except saves that cross; the proofs have any number of them).

## 5. The findings

1. `delivery_dedup_loss`: the filter remembers a failed POST for 120 s, the first
   retry comes after 60 s, is answered "already sent", and the held mail is deleted.
2. `handler_portal_gap`: with the portal on, recipients who do have a certificate
   get nothing.
3. `key_wrong`: after a renewal, or after the migration of another slot, the vault's
   key signs for the certificate of the default slot; no recipient can verify it.
4. `split_gap`: the script takes a mailbox out of the group of one route before it
   adds it to the other; in between, and for good when it ends there, mail of an
   S/MIME mailbox bypasses the gateway.

The lines and the statements they disagree with are quoted in `PROJECT.json`.

Seen while modelling, without a run of its own; the properties name these cases or
are stated around them:

- Delivery and handler: a send-to-all names the header recipients only, so the Bcc
  recipient of its carrier or of the dropped fork is in nobody's list; a sibling after
  180 s sends again; plain text when both ciphers fail; one fork's ciphertext goes to
  the other fork's recipients; an entry released or discarded while
  `mark_retry_failed` has it read is written back and sent again. A mail without a
  Message-ID never counts for the brake between two gateways.
- Portal and Sent Items: a reply that was on its way is kept after its message is
  gone; the clean-up can leave only unreadable copies when forks differ.
- Orders: "the first caller wins" (`acme_state.py:540-543`) asks only whether some order
  waits: a task with the copy of an earlier order claims the later one, answers the
  earlier challenge again and writes the earlier order back, and the later one is lost.
  An ACME order that waits unpolled stays so; two batch runs can overlap; a
  paused one cannot be cancelled; released issuers' later certificates still wait.
- Partner certificates: a list without a next update never becomes overdue, because
  every look gives it another day (`crl_check.py:216-226`; the comment at 117-119 gives it
  one day in all); a certificate that names no list passes unchecked
  (525-527); a list is taken by the issuer's name alone where the certificate does not
  say where the issuer is; `_extract_via_openssl` stores certificates without the
  decision on trust the docstring promises (`smime_harvest.py:41-43`, 273-290; 188-193).
- Signatures and absences: the first mail in a colleague's thread gets the reply
  signature; a mail may be remembered that was not signed; an add-in's block that cannot
  be found again stays in the mail, so that two full ones or none result
  (`mail_processor.py:165`, 171, 200); a lost answer makes an
  absence answered twice; only the last window is remembered, so of windows A, B, A the
  owner who turned A off is overruled, against `abwesenheit.py:31-32`; with two texts,
  senders from inside and outside replace each other's list, and every one is answered
  again: `oof_ablage.py:16-17` promises one answer until the absence changes, and 35-36
  rely on that to end a loop with another automat; the deadline of the learning mode is capped anew.
- Settings and keys: a crash between the two renames; two restores at once, each in a
  thread of the executor, mix their files and both report success; the copy of a TLS key
  that fails after that of its certificate (`le_certbot.py:99-101`) leaves a mixed pair
  nobody repairs before the next renewal, since the daily run compares certificates
  only, and a certificate that cannot be read ends renewal and alarm alike; `key.pem.bak` is not relocked
  with a new password; mail to older certificates is not opened; a failing vault
  falls back to local keys although `settings_smime.html` says "Bei KV-Ausfall
  werden Mails nicht signiert"; the vault never decrypts because
  `get_signing_paths` needs a local key.
- Administrators and sign-ins: the last one can be demoted by PATCH; a removed user
  returns with a list that was waiting for Graph; the fields of the app pool and of
  the login take the code of any flow.
- App and mailboxes: the first app of the pool displaces the gateway's own; a removal
  of secrets that fails partway leaves a bridged app without sign-in; a save without
  Exchange's list loses choices, orders again and drops mailboxes out of the groups;
  a stale list after a rename does so too; two updates may empty the app's scope; a
  mailbox renamed back to a former address counts as newly switched on, and its
  certificate is ordered again (`mailboxes.py:231-244`, 408-409).
- Templates and builder: renaming leaves `BANNER_CAMPAIGNS` behind, although
  `vorlagen.py:38-57` is to be the one place that knows them all: the banner of a
  running campaign is then the standard signature. Between the steps of a rename, and after a stop in it, mails
  get the standard signature. Any empty shipped
  template comes back at a start; a template assigned only as a banner turns back to
  "signatur"; a save is three files; `quelltext_neuer` misses a change within a
  second; conditions around words, pictures, frames or several cells are lost although
  the comments of `parse_html` promise otherwise.
- Health, daily round, counters: a member Exchange refused to add counts as one if the
  error has "member", "already" or "Duplicate" in it (`health_check.py:209-211`), and the
  copy of the table that is stored last wins (755-757); the running check puts a mailbox back that was
  switched off meanwhile; results of two loops overwrite each other; repairs whose
  answer is lost are not logged; a cached success counts for a new key; an exception
  in an early step loses the rest of the round and its report; a reminder counts as
  sent although sending failed; a restart repeats one reminder per rung although
  `_check_license_expiry` says "maximal eine Wiederholung"; a snapshot written
  outside the lock may be put back, and a torn `stats.json` zeroes everything.
- Update and hub: a fetch of the tags that fails is passed over (`update-watcher.sh:14`),
  and the newest tag the clone knows is installed and reported as a success; orders of
  certificates go to the hub without asking for a consent first (`hub_client.py:467-515`):
  the hub decides by the receipts it has; a torn trigger file is an order for main; the
  status can be
  cleared while an update runs; a key fetched while the account is disconnected is
  stored afterwards; a lost answer loses the key that is handed out once; receipts
  are not sent later although `submit_consent_receipts` says so; a watcher that died
  after its report keeps the banner up.

## 6. The proofs

Nothing bounds mails, recipients, forks, queues, orders, mailboxes, sessions, keys,
templates, settings, editions or events in these theorems: they hold for every value
of the constants, the `Max…` bounds among them. What is assumed are the types of the
constants, and that some bounds are not zero (`DeliveryAssumption`,
`HandlerAssumption`, `CertAssumption` and so on, in the modules; TLC evaluates them in
every run).

| Theorem | Says | Inductive invariant |
|---|---|---|
| `TypeCorrect`, `LedgerCorrect`, `LossIsExplained` | `Spec => []TypeOK`, `[]Ledger`, `[]LossExplained` (Delivery) | `TypeOK`, `Ledger` |
| `OperatorsMailIsLeft` | `Spec => []RetryLeavesOperatorsMail` | `RetryInv` |
| `CustodyHolds` | `Spec /\ [](gone = {}) => CustodyKept`, the refinement of `Custody` | `TypeOK`, `InHand`, `LossExplained` |
| `HandlerTypeCorrect`, `NobodyIsForgotten`, `PlainTextIsWaived`, `NothingCircles` | the four invariants of `Handler` | `HandlerInv` |
| `GatewayTypes`, `OrdersOnce`, `HubKeyKept`, `PartnersSafe`, `WaysCorrect`, `DecisionsStand` | the six properties of `MCGateway` | `AcmeInv`, `HubInv`, `BatchInv`, `CertInv`, `RoutingInv`, `AccessInv`, `ForwardingInv` |
| `UpkeepTypes`, `AnswersBounded`, `StoredIsWhole`, `AbsencesRespected` | the three invariants of `MCUpkeep`, and the safety part of `AbsenceKept` | `OofInv`, `ReplyInv`, `SettingsInv`, `TlsInv` |
| `OfficeTypes`, `SentItemsKept`, `SignatureOnce`, `AdministratorStays`, `NothingElseSetOff`, `MessagesWhole` | the five invariants of `MCOffice`, and the safety part of `MessagesKept` | `PortalInv`, `SentInv`, `SignatureInv`, `AdminInv`, `SignInInv` |
| `PortalKeepsPromise` | `Spec => DisclosureKept`, the refinement of `Disclosure` | `PortalInv` |
| `TenantTypes`, `GraphReached`, `OrderedOnly`, `SaveHolds`, `KeysKept`, `OrdersAlwaysComeThrough`, `OrdersRestOnReading`, `GreenEarned`, `Reported` | the nine invariants of `MCTenant` | `IdentityInv`, `ProvenInv`, `MailInv`, `KeysInv`, `TemplateInv`, `UpdateInv`, `AccountInv`, `BuilderTypeOK`, `HealthInv`, `DailyInv`, `CountersInv` |
| `UpkeepIsUnseen` | `Spec => UpkeepUnseen`, an action property | `TemplateInv` |

The theorems of a composite have two halves. For each part there is a lemma that its
own `Init` and `[][Next]_vars` give its invariant; `PartsOf…` shows that the
composite's behaviour is one of each part, since the step of one leaves the variables
of the others alone.

### The arguments

- `Delivery`: `LossExplained` is not inductive: whether a recipient is safe depends on
  what the running sends will still do. `Ledger` adds for each running job that every
  recipient it has neither to do nor put aside as failed is settled or explained (for
  the SMTP thread also: in the queue; a retry is about to delete its own queue entry,
  so there the queue does not count); that a job on a held mail is still about the
  mail it was started with; that what `mark_retry_failed` is about to write is that
  mail; and `SameMail` for two threads on one entry. History only grows (`Grows`), so
  what is settled stays settled; a step either leaves the queue alone
  (`StoreUnchanged`), adds to it after evictions that are noted (`WriteNewKept`,
  `Queued`), or removes an entry whose job is done and owes nothing (`FinishLedger`)
  or was discarded (`DiscardLedger`). `Frame` reduces each action to the job that
  moved; then one lemma per action.
- `RetryInv`: what is on the list of due mails, and what the scheduler works on, was
  neither held for maintenance nor given up; a new file has a fresh name, so no name on
  the list comes to mean another mail (`NamesHold`); and the mail in work, which
  `mark_retry_failed` may give up, is on the list no more.
- `CustodyHolds`: with `gone` empty the code has let go of nothing, so by
  `LossExplained` every copy of an answered mail has a place (`PlaceIs`); outcomes are
  never taken back (`OutcomesStay`); and a 250 is given once, because the transaction
  the handler works on is one Exchange waits for (`InHand`). The hypothesis is needed:
  with a loss the promise is broken, which `delivery_dedup_loss` shows; the run
  `delivery_live` has it by its choice of faults.
- `Handler`: `HandlerInv` is the type invariant and the three properties with two more
  parts: whom the registry says a send-to-all has served is among the copies' recipients
  (`CarriedIn`), and a transaction that passed the encryption test remembers the wish
  (`WishRemembered`), so that the except clause decides as the branches do. One lemma
  per section, one for the except clause, one for settings, certificates and restart.
- `AcmeOrders`: the claim on an order is exclusive (`OneAnswers`), although each task
  has a copy of some order: whoever moved the stored one off "waiting" answers, for
  whichever order its copy is, and a claimed order never waits again. `HubOrders`: a poller that
  heard "rejected" heard the last word (`AnswersHold`), so it drops no key that is still
  to be used; an open confirmation link has not ordered yet (`LinksLeft`). `BatchRun`:
  unless two runs overlapped, one task works and orders for the head of the list, which
  nobody else shortens (`OneWorks`).
- `RecipientCerts`: what an issuer's own dated list does not name was not revoked before
  the day of that list (`ListTells`), for the copies in memory and file alike; only with
  that does the age of the list bound the time a revoked certificate is still used.
  Lists somebody else signed lie in the same caches and are refused when they are used.
- `RelayAccess`: what a session was told between the questions holds unless somebody
  came between (`AnswersStand`). `Forwarding`: for every start of the window, what was
  passed on since is counted still, or was forgotten in one of the restarts since
  (`AllCounted`); the statement for the present window alone is not inductive, because
  the window moves.
- `SettingsStore`: wherever a restored set of settings is, its other files are written
  (`OnlyWhole`), for each of several restores at once; what one of them wrote stays until
  it is read or saved over (`WrittenStays`); but between the two renames the next start
  reads what was acknowledged (`NextReads`). `TlsCert`: a writer that is alone owns the pair it writes; a pair that
  does not fit has a writer between its files, or a write of it failed or was cut off
  (`Explained`).
- `OutOfOffice`: the window a mailbox was turned on for last is remembered
  (`WindowsKnown`), the text in Exchange is the one remembered, and what a poll has read stays true but for
  what people do meanwhile. `AbsenceReplies`: answers on the way count like given ones
  (`Bounded`), by the cardinality of the set of threads that are about to answer; and as
  long as anybody knows of an absence it has one text or two (`Kinds`), so the only text
  of an absence gives way to another absence alone (`Causes`).
- `Portal`: a used code is never a row's present one (`Codes`), the purge only takes what
  is not open (`Purged`), and what lies between row and blob is in somebody's hands
  (`Between`). The refinement maps a message's row and its holder to `Disclosure`, step by
  step.
- `SentItems`: if nothing is encrypted, the newest item is in nobody's hands to be
  deleted; if everything is, everybody keeps the oldest and patches it first. For mixed
  forks neither holds, and the property does not claim it.
- `Signatures`: a quote shows of every author either nothing or exactly one block in full
  (`Shown`), which each step of writing, quoting and cutting keeps; the steps that cannot
  keep it, such as a block that is not found again, are noted in `odd`.
- `Admins`: not only the list, every copy that still may be written has an administrator
  in it. `SignIns`: a session keeps the purpose it was begun for, an exchange under way
  is for an allowed effect, and a code that had an effect is spent.
- `AppIdentity`: unless rotations crossed or one ended halfway, one task rotates; a
  certificate spreads to every app in use before it is written (`Spreads`); secrets go
  where the certificate covers the app or is about to (`ProvenFirst`); and what was proven
  stays accepted, for what Entra distributes later is newer (`ProvenStays`).
- `Mailboxes`: alone, a save brings each group to what it wants, group by group, and what
  is still to come is in its list (`Routes`, `ToCome`); by Exchange's list each entry
  stands under its own Guid (`PlainMaps`), so a rename loses no choice; and orders for an
  address are counted against the names the mailbox had since (`OrdersFit`), with room
  for one more while the save that switched it on has not got there.
- `OwnKeys`: the vault has the key before the file goes (`VaultFirst`). `SelfUpdate`: the
  script's place determines the status it has written and the version on disk; a stop
  leaves `down`, from which the start sweeps "running" away. `HubAccount`: consents and
  the open page were shown (`ConsentsWereShown`), and so were the receipts, at the hub and
  on their way to it (`ReceiptsWereShown`), on which the hub decides about certificates.
- `Templates`: while a rename moves text, kind and references one after the other, the
  reference a mailbox will have leads to the text it had (`TemplateMoves`).
- `Health`: what a round has found stands for the hour it runs in, and a good signature is
  written down with the time it succeeded (`Tells`, `EntryTrue`), in the table and in the
  copy each round writes back, which is why handing results on from round to round, or
  storing an old copy, does not renew them. `Daily`: a round under way is of
  today (`RoundOfToday`). `Counters`: every snapshot, in a file or in a thread's hands, is
  behind the total (`MarksBehind`).
- `Builder`: the type is the claim that tables stand in tables only one deep and that the
  builder's data and the file agree. Reader and renderer are composed of sequences put one
  after another, so the type of `FlattenSeq` is proved first (`FlattenType`), then one
  lemma per recogniser and per kind of block.

What the library defines by recursion on a sequence or a number (`FlattenSeq`,
`WithoutName`) has no induction rule the provers here can instantiate. The proofs use the
least counterexample (`Least`, from the well-foundedness of the numbers): the set of
places where the claim fails has a least member, and the step before it refutes that.

### What the proofs changed

- `GraphStaysReachable` excuses a rotation that ended halfway. The attempt to prove it
  met a removal of secrets that ends after some apps, which the history variable did not
  count, and with three certificates (`MaxCert = 3` in `tenant.cfg`) TLC reached the state
  section 5 describes under "App and mailboxes": now `LeavesHalf` counts it.
- With that, no property depended any more on waiting for the certificate before secrets
  go; `GraphStaysReachable` says it now, and `ProvenStays` is its invariant.
- Guards of `CASE` that overlapped in `Signatures`, `Handler`, `SettingsStore` and
  `Builder`, where TLA+ leaves open which one is taken, are disjoint now.
- `HubAccount` and `SelfUpdate` name the assumptions on their bounds.
- The type of `Builder` was a bound on the number of rows; now it says how rows nest.

### What is only model-checked

Everything that rests on fairness: `EveryMailResolved`, `RenewalArrives`,
`BypassHandled` and the parts `TextArrives` of `AbsenceKept` and `EveryMessageGoes` of
`MessagesKept`, for TLAPS has neither `ENABLED` nor the rules for it here.
`ConvertedAlike` compares what two lists of rows show every recipient: it needs what the
composition of a dozen recursive definitions computes, for the rows people write and not
for every row of the type, and stays with TLC.

## 7. What is left out, and why

Cryptography, MIME and HTML rewriting, header stripping, placeholders, pictures,
styles and the plain-text part of signatures (data without control); audit rows,
traces and logs (they never decide); listing and preview pages (they only read); the
first creation of connectors and rules, DNS checks and the self test (straight calls,
nothing kept); billing and domain calls at the hub and a licence's change of tenant;
making a backup archive; passwords and rate limits of the login; the deployment of
watchers; packaging (scripts run once by hand). The four ways for an
external sender inside one Graph call are one step that may reach some recipients.
`Builder` leaves out source without tables. Hazards no property covers are listed in
`PROJECT.json` with the reason.

## 8. Plan

Done: all modules of section 2, and the proofs of section 6.

Left, in this order:

1. `ConvertedAlike`, by an invariant that says which rows the editor and the builder can
   bring about, and one lemma per recogniser on what its block shows.
2. Two forks as one mail: who can read which ciphertext, and which recipients a rule
   matched, across `Handler`, `Delivery` and `SentItems`.
3. The billing calls of the hub and the backup archive.
